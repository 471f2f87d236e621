-------------------------------- MODULE Tasks --------------------------------
(***************************************************************************)
(* The tasks of staff (tasks.service.ts) as the guest of one trip is shown  *)
(* them: the home page and the list of tasks (client-portal.service.ts) put *)
(* an answer together from four statements. A trip has fewer tasks than the *)
(* lists' limits, and staff are not deactivated.                           *)
(***************************************************************************)
EXTENDS Integers, FiniteSets, Handling

CONSTANTS
    TaskIds,    \* ids of rows of table tasks
    Heads,      \* staff of role admin or ops_manager
    Helpers     \* staff of role support

ASSUME TasksAssumption ==
    /\ None \notin TaskIds \cup Heads \cup Helpers
    /\ IsFiniteSet(TaskIds)

VARIABLES
    task,       \* rows of table tasks
    taskCall,   \* the request each handler is serving
    look        \* the guest's request and its answer

tasksVars == <<task, taskCall, look>>

\* trip: this one, or another or none; stamped: completedAt is set. History: the guest
\* was told of it; he need not be: it is an escalation, it was moved to the trip, or the
\* call broke off.
Task == [status: {"none", "open", "done"}, trip: {"this", "other"},
         assignee: Heads \cup Helpers \cup {None}, stamped: BOOLEAN,
         told: BOOLEAN, excused: BOOLEAN]
NoTask == [status |-> "none", trip |-> "other", assignee |-> None, stamped |-> FALSE,
           told |-> FALSE, excused |-> FALSE]
TaskCall == [step: {"idle", "tell", "complete"}, task: TaskIds \cup {None}]
NoTaskCall == [step |-> "idle", task |-> None]
Lists == {"open", "done"}
\* todo: the lists yet to read and those yet to count. History: the trip's tasks when
\* the request came, and those written while it was served.
Look == [page: {"none", "home", "tasks"}, read: SUBSET Lists, count: SUBSET Lists,
         list: [Lists -> SUBSET TaskIds], size: [Lists -> Nat],
         there: SUBSET TaskIds, written: SUBSET TaskIds]
NoLook == [page |-> "none", read |-> {}, count |-> {}, list |-> [l \in Lists |-> {}],
           size |-> [l \in Lists |-> 0], there |-> {}, written |-> {}]

TasksTypeOK ==
    /\ task \in [TaskIds -> Task]
    /\ taskCall \in [Handlers -> TaskCall]
    /\ look \in Look

TasksInit ==
    /\ task = [t \in TaskIds |-> NoTask]
    /\ taskCall = [h \in Handlers |-> NoTaskCall]
    /\ look = NoLook

-----------------------------------------------------------------------------
(* Staff.                                                                  *)

TaskGoes(h, step, t) == taskCall' = [taskCall EXCEPT ![h] = [step |-> step, task |-> t]]
TaskCallEnds(h) == taskCall' = [taskCall EXCEPT ![h] = NoTaskCall]
Write(t, row) ==
    /\ task' = [task EXCEPT ![t] = row]
    /\ look' = IF look.read \cup look.count = {} THEN look
               ELSE [look EXCEPT !.written = @ \cup {t}]

\* The guest is told of a task of his trip, in words of this moment.
CreateTask(h, t, trip, assignee) ==
    /\ taskCall[h] = NoTaskCall
    /\ task[t] = NoTask
    /\ Write(t, [NoTask EXCEPT !.status = "open", !.trip = trip, !.assignee = assignee])
    /\ IF trip = "this" THEN TaskGoes(h, "tell", t) ELSE UNCHANGED taskCall

\* notifyBookingClient.
TellTask(h) ==
    /\ taskCall[h].step = "tell"
    /\ task' = [task EXCEPT ![taskCall[h].task].told = TRUE]
    /\ TaskCallEnds(h)
    /\ UNCHANGED look

\* The VIP desk's escalation is a task of the trip. Staff are told of it, and the
\* support thread is, as Chat has it.
Escalate(t) ==
    /\ task[t] = NoTask
    /\ Write(t, [NoTask EXCEPT !.status = "open", !.trip = "this", !.excused = TRUE])
    /\ UNCHANGED taskCall

\* completedAt follows a status that is given.
Stamp(row, status) == IF status = None THEN row.stamped ELSE status = "done"

\* What is not given stays; nothing takes a task off every trip, but another trip
\* can take it, and nobody is told.
UpdateTask(t, status, trip, assignee) ==
    LET row == task[t]
    IN /\ row # NoTask
       /\ Write(t, [row EXCEPT
              !.status = IF status = None THEN @ ELSE status,
              !.stamped = Stamp(row, status),
              !.trip = IF trip = None THEN @ ELSE trip,
              !.assignee = IF assignee = None THEN @ ELSE assignee,
              !.excused = @ \/ (trip = "this" /\ row.trip = "other")])
       /\ UNCHANGED taskCall

\* support completes what is assigned to it when it asks.
CompleteTask(h, u, t) ==
    /\ taskCall[h] = NoTaskCall
    /\ task[t] # NoTask
    /\ u \in Heads \/ task[t].assignee = u
    /\ TaskGoes(h, "complete", t)
    /\ UNCHANGED <<task, look>>
CompleteWrite(h) ==
    LET t == taskCall[h].task
    IN /\ taskCall[h].step = "complete"
       /\ Write(t, [task[t] EXCEPT !.status = "done", !.stamped = TRUE])
       /\ TaskCallEnds(h)

TaskCallFails(h) ==
    /\ taskCall[h] # NoTaskCall
    /\ task' = IF taskCall[h].step = "tell"
               THEN [task EXCEPT ![taskCall[h].task].excused = TRUE] ELSE task
    /\ TaskCallEnds(h)
    /\ UNCHANGED look

-----------------------------------------------------------------------------
(* The guest.                                                              *)

OfTrip == {t \in TaskIds : task[t] # NoTask /\ task[t].trip = "this"}
WithStatus(l) == {t \in OfTrip : task[t].status = l}

\* home and listTasks: both lists and both counts, each a statement.
OpenPage(page) ==
    /\ look.read \cup look.count = {}
    /\ look' = [NoLook EXCEPT !.page = page, !.read = Lists, !.count = Lists,
                              !.there = OfTrip]
    /\ UNCHANGED <<task, taskCall>>

CountTasks(l) ==
    /\ l \in look.count
    /\ look' = [look EXCEPT !.count = @ \ {l}, !.size[l] = Cardinality(WithStatus(l))]
    /\ UNCHANGED <<task, taskCall>>

\* listTasks counts first; home reads in any order.
ReadTasks(l) ==
    /\ l \in look.read
    /\ look.page = "tasks" => look.count = {}
    /\ look' = [look EXCEPT !.read = @ \ {l}, !.list[l] = WithStatus(l)]
    /\ UNCHANGED <<task, taskCall>>

TasksNext ==
    \/ \E t \in TaskIds :
          \/ Escalate(t)
          \/ \E h \in Handlers :
                \/ \E trip \in {"this", "other"}, u \in Heads \cup Helpers \cup {None} :
                      CreateTask(h, t, trip, u)
                \/ \E u \in Heads \cup Helpers : CompleteTask(h, u, t)
          \/ \E status \in Lists \cup {None}, trip \in {"this", "other", None},
                u \in Heads \cup Helpers \cup {None} : UpdateTask(t, status, trip, u)
    \/ \E h \in Handlers : TellTask(h) \/ CompleteWrite(h) \/ TaskCallFails(h)
    \/ \E page \in {"home", "tasks"} : OpenPage(page)
    \/ \E l \in Lists : CountTasks(l) \/ ReadTasks(l)

TasksSpec == TasksInit /\ [][TasksNext]_tasksVars

-----------------------------------------------------------------------------
(* Properties.                                                             *)

\* However edits and completions overlap, a task is done if and only if it has the
\* time by which the done ones are sorted; the guest has heard of every task of his
\* trip but escalations, tasks moved there and those whose call broke off; and a page
\* shows him each task that nobody wrote meanwhile on one of its lists, with counts
\* that agree if nobody wrote any.
TasksAreShown ==
    /\ \A t \in TaskIds : task[t].stamped <=> task[t].status = "done"
    /\ \A t \in OfTrip :
          \/ task[t].told \/ task[t].excused
          \/ \E h \in Handlers : taskCall[h] = [step |-> "tell", task |-> t]
    /\ look.read \cup look.count = {} =>
          /\ \A t \in look.there \ look.written :
                t \in look.list["open"] <=> t \notin look.list["done"]
          /\ look.written = {} =>
                /\ look.list["open"] \cup look.list["done"] = look.there
                /\ \A l \in Lists : look.size[l] = Cardinality(look.list[l])
=============================================================================
