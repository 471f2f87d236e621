----------------------------- MODULE Positions -----------------------------
(***************************************************************************)
(* Where one driver is (drivers.service.ts): his profile's row, his key in *)
(* Redis, which never expires, and the desk's live map, which reads both.  *)
(***************************************************************************)
EXTENDS Handling

CONSTANTS
    Spots,      \* positions his phone reports
    Duties      \* values of DriverStatus

VARIABLES
    whereabouts,    \* his row: lastLat and lastLng, or None, and status
    pin,            \* his key: [place, status], or None
    pinned,         \* he is in the set of drivers with a key
    driverCall,     \* the request of his that each handler is serving
    reported,       \* history: the place of his last report
    tidy,           \* history: since a report alone no calls of his overlapped or broke off
    touched         \* history: others wrote his status since he last called

positionsVars == <<whereabouts, pin, pinned, driverCall, reported, tidy, touched>>

Position == [place: Spots \cup {None}, status: Duties]
Writes == {"key", "member", "row"}
DriverCall == [step: {"idle", "fix", "status", "look", "put"}, left: SUBSET Writes,
              place: Spots \cup {None}, status: Duties \cup {None}, alone: BOOLEAN]
NoDriverCall == [step |-> "idle", left |-> {}, place |-> None, status |-> None,
                alone |-> TRUE]

PositionsTypeOK ==
    /\ whereabouts \in Position
    /\ pin \in Position \cup {None}
    /\ pinned \in BOOLEAN /\ tidy \in BOOLEAN /\ touched \in BOOLEAN
    /\ driverCall \in [Handlers -> DriverCall]
    /\ reported \in Spots \cup {None}

PositionsInit ==
    /\ \E s \in Duties : whereabouts = [place |-> None, status |-> s]
    /\ pin = None /\ pinned = FALSE
    /\ driverCall = [h \in Handlers |-> NoDriverCall]
    /\ reported = None /\ tidy = TRUE /\ touched = FALSE

-----------------------------------------------------------------------------

Calling(h) == driverCall[h].step # "idle"
\* requireDriverProfile reads the row before anything is written.
Rings(h, call) ==
    LET others == {g \in Handlers \ {h} : Calling(g)}
    IN /\ driverCall[h] = NoDriverCall
       /\ driverCall' = [g \in Handlers |->
              IF g = h THEN [call EXCEPT !.alone = others = {}]
              ELSE [driverCall[g] EXCEPT !.alone = @ /\ g \notin others]]
       /\ tidy' = (tidy /\ others = {})
       /\ touched' = FALSE
       /\ UNCHANGED <<whereabouts, pin, pinned>>
DriverGoes(h, call) == driverCall' = [driverCall EXCEPT ![h] = call]
HangsUp(h) == DriverGoes(h, NoDriverCall)

\* recordGps, with the status as it was when the call came in.
RecordGps(h, p) ==
    /\ Rings(h, [NoDriverCall EXCEPT !.step = "fix", !.left = Writes, !.place = p,
                                    !.status = whereabouts.status])
    /\ reported' = p

\* Its three writes go out together.
WriteFix(h, w) ==
    LET call == driverCall[h]
    IN /\ call.step = "fix" /\ w \in call.left
       /\ IF w = "key" THEN pin' = [place |-> call.place, status |-> call.status]
          ELSE UNCHANGED pin
       /\ pinned' = (pinned \/ w = "member")
       /\ IF w = "row" THEN whereabouts' = [whereabouts EXCEPT !.place = call.place]
          ELSE UNCHANGED whereabouts
       /\ IF call.left = {w} THEN HangsUp(h) /\ tidy' = (tidy \/ call.alone)
          ELSE DriverGoes(h, [call EXCEPT !.left = @ \ {w}]) /\ UNCHANGED tidy
       /\ UNCHANGED <<reported, touched>>

\* updateMyStatus: the row, then what the key holds with the new status.
UpdateMyStatus(h, s) ==
    /\ Rings(h, [NoDriverCall EXCEPT !.step = "status", !.status = s])
    /\ UNCHANGED reported
WriteStatus(h) ==
    /\ driverCall[h].step = "status"
    /\ whereabouts' = [whereabouts EXCEPT !.status = driverCall[h].status]
    /\ DriverGoes(h, [driverCall[h] EXCEPT !.step = "look"])
    /\ UNCHANGED <<pin, pinned, reported, tidy, touched>>
LookAtKey(h) ==
    /\ driverCall[h].step = "look"
    /\ IF pin = None THEN HangsUp(h)
       ELSE DriverGoes(h, [driverCall[h] EXCEPT !.step = "put", !.place = pin.place])
    /\ UNCHANGED <<whereabouts, pin, pinned, reported, tidy, touched>>
\* The key as it was read; NoPlaceKept leaves the place out.
NoPlaceKept(call) == None
KeptPlace(call) == call.place
PutKey(h) ==
    /\ driverCall[h].step = "put"
    /\ pin' = [place |-> KeptPlace(driverCall[h]), status |-> driverCall[h].status]
    /\ HangsUp(h)
    /\ UNCHANGED <<whereabouts, pinned, reported, tidy, touched>>

\* The desk's update, and a trip that starts or completes, leave the key alone.
OthersWriteStatus(s) ==
    /\ whereabouts' = [whereabouts EXCEPT !.status = s]
    /\ touched' = TRUE
    /\ UNCHANGED <<pin, pinned, driverCall, reported, tidy>>

DriverFails(h) ==
    /\ Calling(h)
    /\ HangsUp(h)
    /\ tidy' = FALSE
    /\ UNCHANGED <<whereabouts, pin, pinned, reported, touched>>

PositionsNext ==
    \/ \E h \in Handlers :
          \/ \E p \in Spots : RecordGps(h, p)
          \/ \E w \in Writes : WriteFix(h, w)
          \/ \E s \in Duties : UpdateMyStatus(h, s)
          \/ WriteStatus(h) \/ LookAtKey(h) \/ PutKey(h) \/ DriverFails(h)
    \/ \E s \in Duties : OthersWriteStatus(s)

PositionsSpec == PositionsInit /\ [][PositionsNext]_positionsVars

-----------------------------------------------------------------------------
(* Properties.                                                             *)

\* getLivePositions: the key, if he has one, or else the row; without a place the map
\* makes one up near Moscow.
Live == IF pinned /\ pin # None THEN pin ELSE whereabouts

\* The map shows him where he last reported, as his row has it, and on the duty he is on
\* unless others changed that: every pair of his calls that overlaps, and every one that
\* breaks off, can break this, and the next report alone repairs it.
MapFollowsHim ==
    tidy /\ ~(\E h \in Handlers : Calling(h)) =>
        /\ Live.place = reported /\ whereabouts.place = reported
        /\ ~touched => Live.status = whereabouts.status
=============================================================================
