-------------------------------- MODULE Chat --------------------------------
(***************************************************************************)
(* Conversations around one booking (chat.service.ts, chat.role.ts, the    *)
(* translation worker, realtime.emitter.ts): who is on a thread, in which  *)
(* lane a message is, and who is sent it. Everyone is connected.           *)
(***************************************************************************)
EXTENDS Integers, Sequences, Handling

CONSTANTS
    ChatHandlers,   \* the chat requests that can be in flight at once
    People,         \* the booking's client and active staff
    RoleOf,         \* the role of each; the client's is "guest"
    MaxThreads, MaxMessages     \* bounds: rows of the two tables

StaffRoles == {"admin", "ops_manager", "support", "splizer", "driver"}
ASSUME PeopleAssumption == RoleOf \in [People -> StaffRoles \cup {"guest"}]
ASSUME ChatBoundsAssumption == MaxThreads \in Nat /\ MaxMessages \in Nat

VARIABLES
    thread,     \* conversations with their participants, oldest first
    message,    \* messages, oldest first
    event,      \* what the server sends in this step, and to whom
    crew,       \* drivers with an assignment to the booking that may chat
    newest,     \* the one whose assignment is the newest
    touring,    \* the booking is active
    chatCall    \* the request each handler is serving

chatVars == <<thread, message, event, crew, newest, touring, chatCall>>
chatTables == <<thread, message, crew, newest, touring>>
trip == <<crew, newest, touring>>

Having(role) == {p \in People : RoleOf[p] = role}
Drivers == Having("driver")
Guests == Having("guest")
StaffPeople == People \ Guests
OpsJoin == {p \in People : RoleOf[p] \in {"admin", "ops_manager", "support"}}
Supervisors == Having("admin") \cup Having("ops_manager")

Lanes == {"admin", "driver", "splizer"}
\* channelForStaffRole
LaneOf(role) == IF role \in {"driver", "splizer"} THEN role ELSE "admin"

Types == {"booking_support", "client_direct", "team", "dm"}
Thread == [type: Types, members: SUBSET People]
Message == [thread: 1 .. MaxThreads, lane: Lanes, sent: BOOLEAN]
Event == [message: 1 .. MaxMessages, name: {"message.new", "message.translated"},
          to: SUBSET People]
ChatCall == [step: {"idle", "create", "join", "insert", "driver", "emit"},
             type: Types, user: People \cup {None}, other: People \cup {None},
             thread: 0 .. MaxThreads, message: 0 .. MaxMessages, lane: Lanes,
             driver: People \cup {None}, steady: BOOLEAN]
NoChatCall == [step |-> "idle", type |-> "team", user |-> None, other |-> None,
               thread |-> 0, message |-> 0, lane |-> "admin", driver |-> None,
               steady |-> TRUE]

ChatTypeOK ==
    /\ thread \in Seq(Thread) /\ Len(thread) <= MaxThreads
    /\ message \in Seq(Message) /\ Len(message) <= MaxMessages
    /\ event \in Event \cup {None}
    /\ crew \subseteq Drivers
    /\ newest \in crew \cup {None}
    /\ touring \in BOOLEAN
    /\ chatCall \in [ChatHandlers -> ChatCall]

ChatInit ==
    /\ thread = <<>>
    /\ message = <<>>
    /\ event = None
    /\ crew = {}
    /\ newest = None
    /\ touring = TRUE
    /\ chatCall = [h \in ChatHandlers |-> NoChatCall]

-----------------------------------------------------------------------------

ChatCallIs(h, call) == chatCall' = [chatCall EXCEPT ![h] = call]
ChatGoes(h, step) == ChatCallIs(h, [chatCall[h] EXCEPT !.step = step])
ChatEnds(h) == ChatCallIs(h, NoChatCall)
ChatAt(h, type, step) == chatCall[h].type = type /\ chatCall[h].step = step
Begins(h, call) == chatCall[h] = NoChatCall /\ ChatCallIs(h, call)

OfBooking(t) == thread[t].type \in {"booking_support", "client_direct"}
First(S) == IF S = {} THEN 0 ELSE CHOOSE t \in S : \A u \in S : t <= u
Adding(t, people) == [thread EXCEPT ![t].members = @ \cup people]
NewThread(type, people) ==
    /\ Len(thread) < MaxThreads
    /\ thread' = Append(thread, [type |-> type, members |-> people])

-----------------------------------------------------------------------------
(* Threads.                                                                *)

\* getOrCreateBookingSupport: a driver only of a booking of his. The driver to
\* join is read now.
OpenSupport(h, u) ==
    LET t == First({i \in DOMAIN thread : thread[i].type = "booking_support"})
    IN /\ u \in Drivers => u \in crew
       /\ Begins(h, [NoChatCall EXCEPT !.type = "booking_support", !.user = u,
                         !.step = IF t = 0 THEN "create" ELSE "join",
                         !.thread = t, !.driver = newest])
       /\ UNCHANGED chatTables

CreateSupport(h) ==
    /\ ChatAt(h, "booking_support", "create")
    /\ NewThread("booking_support", {})
    /\ ChatCallIs(h, [chatCall[h] EXCEPT !.step = "join", !.thread = Len(thread) + 1])
    /\ UNCHANGED <<message, trip>>

JoinSupport(h) ==
    LET driver == IF chatCall[h].driver # None THEN chatCall[h].driver ELSE newest
    IN /\ ChatAt(h, "booking_support", "join")
       /\ thread' = Adding(chatCall[h].thread, Guests \cup {chatCall[h].user} \cup OpsJoin
                                               \cup ({driver} \ {None}))
       /\ ChatEnds(h)
       /\ UNCHANGED <<message, trip>>

\* createConversation of the other types, in one transaction.
CreateConversation(u, type, others) ==
    /\ IF u \in Guests THEN type = "client_direct"
       ELSE type \in {"client_direct", "team"} /\ (type = "team" => u \notin Drivers)
    /\ type = "client_direct" /\ u \in Drivers => u \in crew
    /\ NewThread(type, {u} \cup others \cup IF type = "team" THEN StaffPeople ELSE {})
    /\ UNCHANGED <<message, trip, chatCall>>

\* createDm looks for a thread of the two first.
FindDm(h, u, v) ==
    /\ u \in StaffPeople /\ u # v
    /\ ~\E i \in DOMAIN thread : thread[i].type = "dm" /\ {u, v} \subseteq thread[i].members
    /\ Begins(h, [NoChatCall EXCEPT !.type = "dm", !.step = "create", !.user = u,
                                    !.other = v])
    /\ UNCHANGED chatTables
CreateDm(h) ==
    /\ ChatAt(h, "dm", "create")
    /\ NewThread("dm", {chatCall[h].user, chatCall[h].other})
    /\ ChatEnds(h)
    /\ UNCHANGED <<message, trip>>

\* The threads that listing puts a member of staff on (ensureOpsChannels). The team
\* channel "Ops floor", which it fills too, is no thread here.
MayJoinUnasked(u, t) ==
    /\ OfBooking(t)
    /\ \/ u \in OpsJoin
       \/ RoleOf[u] = "splizer" /\ touring
       \/ u \in crew
ListConversations(u) ==
    /\ u \in StaffPeople
    /\ thread' = [i \in DOMAIN thread |->
                    [thread[i] EXCEPT !.members =
                        @ \cup (IF MayJoinUnasked(u, i) THEN {u} ELSE {})]]
    /\ UNCHANGED <<message, trip, chatCall>>

-----------------------------------------------------------------------------
(* Messages.                                                               *)

\* tryLazyJoin: staff who may join are put on the thread when they use it.
MayUse(u, t) ==
    \/ u \in thread[t].members
    \/ u \in OpsJoin /\ thread[t].type # "dm"
    \/ RoleOf[u] = "splizer" /\ OfBooking(t) /\ touring
    \/ u \in crew /\ OfBooking(t)

\* ensureParticipant, before a message and before reading or joining a room.
UseThread(u, t) ==
    /\ u \notin thread[t].members /\ MayUse(u, t)
    /\ thread' = Adding(t, {u})
    /\ UNCHANGED <<message, trip, chatCall>>

\* A client names the lane, staff may. Only a client is remembered as the sender.
SendMessage(h, u, t, lane) ==
    /\ u \in thread[t].members
    /\ Begins(h, [NoChatCall EXCEPT !.step = "insert", !.thread = t, !.lane = lane,
                                    !.user = IF u \in Guests THEN u ELSE None])
    /\ UNCHANGED chatTables

InsertMessage(h) ==
    LET call == chatCall[h]
    IN /\ call.step = "insert"
       /\ Len(message) < MaxMessages
       /\ message' = Append(message, [thread |-> call.thread, lane |-> call.lane,
                                      sent |-> FALSE])
       /\ ChatCallIs(h, [call EXCEPT !.message = Len(message) + 1, !.driver = newest,
                            !.steady = TRUE,
                            !.step = IF call.user \in Guests /\ call.lane = "driver"
                                     THEN "driver" ELSE "emit"])
       /\ UNCHANGED <<thread, trip>>

\* NobodyJoins leaves the driver out.
NobodyJoins(t) == {}
DriverToJoin(t) == IF OfBooking(t) THEN {newest} \ {None} ELSE {}
EnsureDriver(h) ==
    /\ chatCall[h].step = "driver"
    /\ thread' = Adding(chatCall[h].thread, DriverToJoin(chatCall[h].thread))
    /\ ChatGoes(h, "emit")
    /\ UNCHANGED <<message, trip>>

\* Whose rooms a translation goes to.
LaneOnly(t, lane) ==
    {p \in thread[t].members : p \in Guests \/ LaneOf(RoleOf[p]) = lane}

\* roomsForMessageChannel; RoleRooms takes a role for the lane of its messages.
RoleRooms(t, lane) ==
    {p \in thread[t].members : p \in Guests \cup Supervisors \/ RoleOf[p] = lane}
Rooms(t, lane) ==
    {p \in thread[t].members : \/ p \in Guests \cup Supervisors
                               \/ LaneOf(RoleOf[p]) = lane}

\* An event without rooms is everybody's.
Emit(name, m, rooms) ==
    event' = [name |-> name, message |-> m, to |-> IF rooms = {} THEN People ELSE rooms]

EmitMessage(h) ==
    LET m == chatCall[h].message
    IN /\ chatCall[h].step = "emit"
       /\ message' = [message EXCEPT ![m].sent = TRUE]
       /\ Emit("message.new", m, Rooms(message[m].thread, message[m].lane))
       /\ ChatEnds(h)
       /\ UNCHANGED <<thread, trip>>

\* The worker, once or again, after the message was sent.
Translate(m) ==
    /\ message[m].sent
    /\ Emit("message.translated", m, LaneOnly(message[m].thread, message[m].lane))
    /\ UNCHANGED <<chatTables, chatCall>>

ChatFails(h) ==
    /\ chatCall[h] # NoChatCall
    /\ ChatEnds(h)
    /\ UNCHANGED chatTables

-----------------------------------------------------------------------------
(* The booking: drivers accept and lose assignments, the tour ends.        *)

Unsettled == chatCall' = [h \in ChatHandlers |-> [chatCall[h] EXCEPT
                             !.steady = chatCall[h] = NoChatCall]]
DriverAccepts(d) ==
    /\ d \in Drivers \ crew
    /\ crew' = crew \cup {d}
    /\ newest' \in {d, newest} \ {None}
    /\ Unsettled
    /\ UNCHANGED <<thread, message, touring>>
DriverLeaves(d) ==
    /\ d \in crew
    /\ crew' = crew \ {d}
    /\ IF newest # d THEN newest' = newest
       ELSE newest' \in (IF crew = {d} THEN {None} ELSE crew \ {d})
    /\ Unsettled
    /\ UNCHANGED <<thread, message, touring>>
TourEnds ==
    /\ touring /\ touring' = FALSE
    /\ UNCHANGED <<thread, message, crew, newest, chatCall>>

Silently ==
    \/ \E h \in ChatHandlers :
          \/ \E u \in People : OpenSupport(h, u)
          \/ \E u, v \in People : FindDm(h, u, v)
          \/ \E u \in People, t \in DOMAIN thread, lane \in Lanes : SendMessage(h, u, t, lane)
          \/ CreateSupport(h) \/ JoinSupport(h) \/ CreateDm(h)
          \/ InsertMessage(h) \/ EnsureDriver(h) \/ ChatFails(h)
    \/ \E u \in People, t \in DOMAIN thread : UseThread(u, t)
    \/ \E u, v \in People, type \in {"client_direct", "team"} :
          CreateConversation(u, type, {v})
    \/ \E u \in People : ListConversations(u)
    \/ \E d \in Drivers : DriverAccepts(d) \/ DriverLeaves(d)
    \/ TourEnds

ChatNext ==
    \/ Silently /\ event' = None
    \/ \E h \in ChatHandlers : EmitMessage(h)
    \/ \E m \in DOMAIN message : Translate(m)

ChatSpec == ChatInit /\ [][ChatNext]_chatVars

-----------------------------------------------------------------------------
(* Properties.                                                             *)

\* messageVisibilityWhere and staffRolesForChannel: what a participant reads
\* when he lists the thread.
MayRead(p, m) ==
    \/ p \in Guests \cup Supervisors
    \/ RoleOf[p] = m.lane
    \/ m.lane = "admin" /\ RoleOf[p] \in {"admin", "ops_manager", "support"}
Readers(m) == {p \in thread[m.thread].members : MayRead(p, m)}
IsNews(e) == e # None /\ e.name = "message.new"

\* Who is on a thread when a message goes out and would find it in the list is
\* sent it too, supervisors of every lane included: rooms and list filter the lanes
\* in different code.
ReadersAreTold == IsNews(event) => Readers(message[event.message]) \subseteq event.to

\* The guest's word to the driver reaches the driver of the booking, on the
\* thread or not, if he stays the same while it is sent.
DriverIsReached ==
    [][\A h \in ChatHandlers :
          LET call == chatCall[h]
          IN /\ call.step = "emit" /\ IsNews(event') /\ event'.message = call.message
             /\ call.user \in Guests /\ call.lane = "driver" /\ OfBooking(call.thread)
             /\ call.steady /\ call.driver # None
             => call.driver \in event'.to]_chatVars

\* What the guest writes goes "only to the guest + staff on that same channel (not
\* other roles)" (docs/CLIENT_APP_API.md:1083): roomsForMessageChannel adds the
\* supervisors.
OnlyThatChannel ==
    [][\A h \in ChatHandlers :
          LET call == chatCall[h]
          IN /\ call.step = "emit" /\ IsNews(event') /\ event'.message = call.message
             /\ call.user \in Guests
             => event'.to \subseteq LaneOnly(call.thread, call.lane)]_chatVars

\* A message goes to the guest and to staff of its lane or the supervisors.
OnlyTheLaneHears == IsNews(event) => event.to \subseteq Readers(message[event.message])
=============================================================================
