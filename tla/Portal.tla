------------------------------- MODULE Portal -------------------------------
(* What the app of one trip's guest shows of it (client-portal.service.ts):  *)
(* the program and the tasks, which have no row in common.                 *)
EXTENDS Plans, Tasks

\* The guest sees the program and the tasks that staff have for him: each page, put
\* together from several statements, neither loses nor doubles a row that nobody wrote
\* while they ran.
TripIsShown == ProgramHolds /\ TasksAreShown
=============================================================================
