------------------------------- MODULE Pushes -------------------------------
(***************************************************************************)
(* The devices of one client (column clients.fcm_tokens) and the push      *)
(* notifications to them: auth.service.ts writes a device at login,        *)
(* notifications.service.ts reads the list and queues a push, and the      *)
(* worker (jobs.processors.ts, fcm-push.service.ts) sends it and prunes the *)
(* tokens FCM calls dead. Each writer reads the list, and writes all of it *)
(* back later.                                                             *)
(***************************************************************************)
EXTENDS Integers, Sequences, Handling

CONSTANTS
    DeviceTokens, Platforms,
    MaxSaves,       \* bound: how often a device is saved
    Notices         \* bound: notifications to this client whose pushes overlap

VARIABLES
    devices,    \* column fcm_tokens: the list of tokens, each with its platform
    dead,       \* tokens that FCM has unregistered
    save,       \* the device each handler is writing
    push,       \* the pushes of notifications, none once it ended
    saves,      \* how often a device was saved
    named,      \* history: the platforms each token was saved for
    last,       \* history: the token saved last for each platform, unless it has
                \* been saved for another since
    clobbered   \* history: some list was written over a newer one

pushesVars == <<devices, dead, save, push, saves, named, last, clobbered>>
pushHistory == <<saves, named, last, clobbered>>

Device == [token: DeviceTokens, platform: Platforms]
Devices == Seq(Device)
\* from: the list as read; to: the list to write.
Save == [device: Device \cup {None}, from: Devices, to: Devices]
Push == [step: {"none", "read", "enqueue", "queued", "send", "prune", "write"},
         tokens: SUBSET DeviceTokens, from: Devices, to: Devices]
NoSave == [device |-> None, from |-> <<>>, to |-> <<>>]
NoPush == [step |-> "none", tokens |-> {}, from |-> <<>>, to |-> <<>>]

PushesTypeOK ==
    /\ devices \in Devices
    /\ dead \subseteq DeviceTokens
    /\ save \in [Handlers -> Save]
    /\ push \in [Notices -> Push]
    /\ saves \in Nat
    /\ named \in [DeviceTokens -> SUBSET Platforms]
    /\ last \in [Platforms -> DeviceTokens \cup {None}]
    /\ clobbered \in BOOLEAN

PushesInit ==
    /\ devices = <<>>
    /\ dead = {}
    /\ save = [h \in Handlers |-> NoSave]
    /\ push = [n \in Notices |-> NoPush]
    /\ saves = 0
    /\ named = [t \in DeviceTokens |-> {}]
    /\ last = [p \in Platforms |-> None]
    /\ clobbered = FALSE

-----------------------------------------------------------------------------
(* A client's device.                                                      *)

\* The first entry with this token or platform is replaced; AlwaysPush appends.
AlwaysPush(list, d) == Append(list, d)
Upsert(list, d) ==
    LET same == {i \in DOMAIN list : \/ list[i].token = d.token
                                    \/ list[i].platform = d.platform}
    IN IF same = {} THEN Append(list, d)
       ELSE [list EXCEPT ![CHOOSE i \in same : \A k \in same : i <= k] = d]

\* The platform is the one the app names, and android when it names none.
SaveToken(h, d) ==
    /\ save[h] = NoSave
    /\ saves < MaxSaves
    /\ saves' = saves + 1
    /\ save' = [save EXCEPT ![h] = [device |-> d, from |-> devices,
                                    to |-> Upsert(devices, d)]]
    /\ named' = [named EXCEPT ![d.token] = @ \cup {d.platform}]
    /\ UNCHANGED <<devices, dead, push, last, clobbered>>

WriteList(from, to) ==
    /\ devices' = to
    /\ clobbered' = (clobbered \/ devices # from)

LastAfter(d) ==
    [p \in Platforms |-> IF p = d.platform THEN d.token
                        ELSE IF last[p] = d.token THEN None ELSE last[p]]

SaveWrite(h) ==
    /\ save[h] # NoSave
    /\ WriteList(save[h].from, save[h].to)
    /\ last' = LastAfter(save[h].device)
    /\ save' = [save EXCEPT ![h] = NoSave]
    /\ UNCHANGED <<dead, push, saves, named>>

-----------------------------------------------------------------------------
(* A push.                                                                 *)

PushIs(n, p) == push' = [push EXCEPT ![n] = p]
PushGoes(n, step) == PushIs(n, [push[n] EXCEPT !.step = step])
PushEnds(n) == PushIs(n, NoPush)

\* A notification's row is committed; nobody waits for its push.
Notify(n) ==
    /\ push[n].step = "none"
    /\ PushGoes(n, "read")
    /\ UNCHANGED <<devices, dead, save, pushHistory>>

EntriesOf(list) == {list[i] : i \in DOMAIN list}
TokensOf(list) == {d.token : d \in EntriesOf(list)}

\* A client without devices gets no push.
EnqueueClientPush(n) ==
    /\ push[n].step = "read"
    /\ IF devices = <<>> THEN PushEnds(n)
       ELSE PushIs(n, [push[n] EXCEPT !.step = "enqueue", !.tokens = TokensOf(devices)])
    /\ UNCHANGED <<devices, dead, save, pushHistory>>

\* A queue that is not there is passed by.
EnqueuePush(n) ==
    /\ push[n].step = "enqueue"
    /\ PushGoes(n, "queued") \/ PushGoes(n, "send")
    /\ UNCHANGED <<devices, dead, save, pushHistory>>

PushProcess(n) ==
    /\ push[n].step = "queued"
    /\ PushGoes(n, "send")
    /\ UNCHANGED <<devices, dead, save, pushHistory>>

\* FCM names the dead tokens; an FCM that fails or is not configured ends the
\* push, for sendToTokens does not throw and no attempt is ever the second.
SendToTokens(n) ==
    /\ push[n].step = "send"
    /\ \/ /\ push[n].tokens \cap dead # {}
          /\ PushIs(n, [push[n] EXCEPT !.step = "prune", !.tokens = @ \cap dead])
       \/ PushEnds(n)
    /\ UNCHANGED <<devices, dead, save, pushHistory>>

\* DropAll empties the list.
DropAll(list, tokens) == <<>>
Kept(list, tokens) ==
    LET kept[n \in 0 .. Len(list)] ==
            IF n = 0 THEN <<>>
            ELSE IF list[n].token \in tokens THEN kept[n - 1] ELSE Append(kept[n - 1], list[n])
    IN kept[Len(list)]

PruneDeadTokens(n) ==
    LET kept == Kept(devices, push[n].tokens)
    IN /\ push[n].step = "prune"
       /\ IF kept = devices THEN PushEnds(n)
          ELSE PushIs(n, [push[n] EXCEPT !.step = "write", !.from = devices, !.to = kept])
       /\ UNCHANGED <<devices, dead, save, pushHistory>>

PruneWrite(n) ==
    /\ push[n].step = "write"
    /\ WriteList(push[n].from, push[n].to)
    /\ PushEnds(n)
    /\ UNCHANGED <<dead, save, saves, named, last>>

\* An app is removed from a phone.
TokenDies(t) ==
    /\ t \notin dead
    /\ dead' = dead \cup {t}
    /\ UNCHANGED <<devices, save, push, pushHistory>>

\* The process dies: what was not queued is forgotten, a job that a worker had
\* taken is taken again.
PushInterrupted(n) ==
    /\ \/ push[n].step \in {"read", "enqueue", "send", "prune", "write"} /\ PushEnds(n)
       \/ /\ push[n].step \in {"send", "prune", "write"}
          /\ PushIs(n, [push[n] EXCEPT !.step = "queued", !.from = <<>>, !.to = <<>>])
    /\ UNCHANGED <<devices, dead, save, pushHistory>>
SaveFails(h) ==
    /\ save[h] # NoSave
    /\ save' = [save EXCEPT ![h] = NoSave]
    /\ UNCHANGED <<devices, dead, push, pushHistory>>

PushesNext ==
    \/ \E h \in Handlers : \/ \E d \in Device : SaveToken(h, d)
                           \/ SaveWrite(h) \/ SaveFails(h)
    \/ \E n \in Notices :
          \/ Notify(n) \/ EnqueueClientPush(n) \/ EnqueuePush(n) \/ PushProcess(n)
          \/ SendToTokens(n) \/ PruneDeadTokens(n) \/ PruneWrite(n)
          \/ PushInterrupted(n)
    \/ \E t \in DeviceTokens : TokenDies(t)

PushesSpec == PushesInit /\ [][PushesNext]_pushesVars

-----------------------------------------------------------------------------
(* Properties.                                                             *)

\* However logins and prunes overlap, a client has one device of a platform as long
\* as no token is saved for two (an app that names its platform once and not the next
\* time can leave two of one); and unless a list was written over a newer one, the
\* device that was saved last for a platform is in the list, or FCM has unregistered
\* it.
OneNameEach == \A t \in DeviceTokens : \A p, q \in named[t] : p = q
OneDevicePerPlatform ==
    \A i, k \in DOMAIN devices : devices[i].platform = devices[k].platform => i = k
LastIsKept ==
    \A p \in Platforms : \/ last[p] \in {None} \cup dead
                         \/ [token |-> last[p], platform |-> p] \in EntriesOf(devices)
DevicesAreKept ==
    /\ OneNameEach => OneDevicePerPlatform
    /\ ~clobbered => LastIsKept
=============================================================================
