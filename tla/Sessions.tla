------------------------------ MODULE Sessions ------------------------------
(***************************************************************************)
(* Tokens of one staff account and of one client's booking                 *)
(* (auth.service.ts, users.service.ts). A staff refresh token is a key in  *)
(* Redis that its use deletes; a client's is signed, carries its booking   *)
(* and can be used until it expires.                                       *)
(***************************************************************************)
EXTENDS Integers, Sequences, FiniteSets, Handling

CONSTANTS
    Roles,      \* staff roles
    MaxTokens   \* bound: refresh tokens issued

ASSUME SessionsAssumption ==
    /\ MaxTokens \in Nat
    /\ Roles \cap {"trip", "none"} = {}
    /\ IsFiniteSet(Handlers)

VARIABLES
    staff,      \* the row of table staff_users
    tripStatus, \* the status of the client's booking
    token,      \* the refresh tokens issued
    tokenCall,  \* the request each handler is serving
    seen        \* history: what was true at some moment of it

sessionsVars == <<staff, tripStatus, token, tokenCall, seen>>

\* What a token says: a staff role, or a client's booking, or only who he is.
Claims == Roles \cup {"trip", "none"}
Staff == [active: BOOLEAN, role: Roles]
\* stored: its key is in Redis; parent: the token it was got for, or 0.
Token == [type: {"staff", "client"}, claim: Claims, stored: BOOLEAN,
          parent: 0 .. MaxTokens]
TokenCall == [step: {"idle", "spend", "check", "issue"}, type: {"staff", "client"},
              claim: Claims, parent: 0 .. MaxTokens]
NoTokenCall == [step |-> "idle", type |-> "client", claim |-> "none", parent |-> 0]

SessionsTypeOK ==
    /\ staff \in Staff
    /\ tripStatus \in {"active", "completed", "cancelled"}
    /\ token \in Seq(Token) /\ Len(token) <= MaxTokens
    /\ tokenCall \in [Handlers -> TokenCall]
    /\ seen \in [Handlers -> SUBSET Claims]

\* isBookingEligibleForClientLogin.
Eligible(status) == status \in {"active", "completed"}
Truth == (IF staff.active THEN {staff.role} ELSE {})
         \cup (IF Eligible(tripStatus) THEN {"trip"} ELSE {}) \cup {"none"}

SessionsInit ==
    /\ staff \in [active: {TRUE}, role: Roles]
    /\ tripStatus = "active"
    /\ token = <<>>
    /\ tokenCall = [h \in Handlers |-> NoTokenCall]
    /\ seen = [h \in Handlers |-> {}]

-----------------------------------------------------------------------------

TokenCallIs(h, call) == tokenCall' = [tokenCall EXCEPT ![h] = call]
TokenCallEnds(h) == TokenCallIs(h, NoTokenCall)
Free(h) == tokenCall[h] = NoTokenCall
AtStep(h, type, step) == tokenCall[h].type = type /\ tokenCall[h].step = step
IssueNext(h, type, claim, parent) ==
    TokenCallIs(h, [step |-> "issue", type |-> type, claim |-> claim,
                    parent |-> parent])

\* An inactive account logs in no more than a wrong password.
StaffLogin(h) ==
    /\ Free(h)
    /\ staff.active
    /\ IssueNext(h, "staff", staff.role, 0)
    /\ UNCHANGED <<staff, tripStatus, token>>

ClientLogin(h) ==
    /\ Free(h)
    /\ Eligible(tripStatus)
    /\ IssueNext(h, "client", "trip", 0)
    /\ UNCHANGED <<staff, tripStatus, token>>

\* refresh: what Redis knows is a staff token, the rest is checked by signature.
Refresh(h, n) ==
    /\ Free(h)
    /\ token[n].type = "staff" => token[n].stored
    /\ TokenCallIs(h, [step |-> IF token[n].type = "staff" THEN "spend" ELSE "check",
                       type |-> token[n].type, claim |-> token[n].claim,
                       parent |-> n])
    /\ UNCHANGED <<staff, tripStatus, token>>

\* KeepSpent forgets to delete the key.
KeepSpent(n) == token
Unstored(n) == [token EXCEPT ![n].stored = FALSE]
SpendToken(h) ==
    /\ AtStep(h, "staff", "spend")
    /\ token' = Unstored(tokenCall[h].parent)
    /\ TokenCallIs(h, [tokenCall[h] EXCEPT !.step = "check"])
    /\ UNCHANGED <<staff, tripStatus>>

\* The account as it is now; SameRole trusts what the old token said.
SameRole(h) == tokenCall[h].claim
RoleNow(h) == staff.role
CheckStaff(h) ==
    /\ AtStep(h, "staff", "check")
    /\ IF staff.active THEN IssueNext(h, "staff", RoleNow(h), tokenCall[h].parent)
       ELSE TokenCallEnds(h)
    /\ UNCHANGED <<staff, tripStatus, token>>

\* A booking that was cancelled is dropped from the session, the session stays.
CheckTrip(h) ==
    /\ AtStep(h, "client", "check")
    /\ IssueNext(h, "client", IF Eligible(tripStatus) THEN tokenCall[h].claim ELSE "none",
                 tokenCall[h].parent)
    /\ UNCHANGED <<staff, tripStatus, token>>

IssueTokens(h) ==
    /\ tokenCall[h].step = "issue"
    /\ Len(token) < MaxTokens
    /\ token' = Append(token, [type |-> tokenCall[h].type, claim |-> tokenCall[h].claim,
                               stored |-> tokenCall[h].type = "staff",
                               parent |-> tokenCall[h].parent])
    /\ TokenCallEnds(h)
    /\ UNCHANGED <<staff, tripStatus>>

\* Logging out deletes the key, and so does Redis when its time is over.
Logout(n) ==
    /\ token[n].stored
    /\ token' = Unstored(n)
    /\ UNCHANGED <<staff, tripStatus, tokenCall>>

\* The process dies, or Redis or the database does not answer.
TokenCallFails(h) ==
    /\ ~Free(h)
    /\ TokenCallEnds(h)
    /\ UNCHANGED <<staff, tripStatus, token>>

\* users.service.ts: role and isActive are set at will; the demo accounts are
\* activated again by every start of the process.
UpdateStaff(new) ==
    /\ new # staff
    /\ staff' = new
    /\ UNCHANGED <<tripStatus, token, tokenCall>>

\* bookings.service.ts: a booking's status is staff's to set.
UpdateTrip(status) ==
    /\ status # tripStatus
    /\ tripStatus' = status
    /\ UNCHANGED <<staff, token, tokenCall>>

\* Steps of either kind of token.
TokenStep ==
    \E h \in Handlers : \/ IssueTokens(h)
                        \/ TokenCallFails(h)
                        \/ \E n \in DOMAIN token : Refresh(h, n)
StaffStep ==
    \/ TokenStep
    \/ \E h \in Handlers : StaffLogin(h) \/ SpendToken(h) \/ CheckStaff(h)
    \/ \E n \in DOMAIN token : Logout(n)
    \/ \E new \in Staff : UpdateStaff(new)
GuestStep ==
    \/ TokenStep
    \/ \E h \in Handlers : ClientLogin(h) \/ CheckTrip(h)
    \/ \E status \in {"active", "completed", "cancelled"} : UpdateTrip(status)

Witnessed ==
    seen' = [h \in Handlers |->
                CASE tokenCall'[h] = NoTokenCall -> {}
                  [] Free(h) /\ tokenCall'[h] # NoTokenCall -> Truth
                  [] OTHER -> seen[h] \cup Truth']

SessionsNext == (StaffStep \/ GuestStep) /\ Witnessed

SessionsSpec == SessionsInit /\ [][SessionsNext]_sessionsVars

-----------------------------------------------------------------------------
(* Properties.                                                             *)

\* Staff tokens rotate: one that was exchanged is not in Redis, and those who did
\* exchange it and those about to are no more than can be in flight at once.
TokensRotate ==
    \A n \in DOMAIN token : token[n].type = "staff" =>
        LET successors == {m \in DOMAIN token : token[m].parent = n}
            users == {h \in Handlers : tokenCall[h].type = "staff" /\ tokenCall[h].parent = n}
        IN /\ successors # {} => ~token[n].stored
           /\ Cardinality(successors) + Cardinality(users) <= Cardinality(Handlers)

\* A new token claims what was true at some moment of the request for it: a role
\* that an active account had then, a booking that was not cancelled.
ClaimsWereTrue ==
    [][\A n \in DOMAIN token' \ DOMAIN token :
          \E h \in Handlers : /\ tokenCall[h].step = "issue"
                              /\ token'[n].claim \in seen[h]]_sessionsVars
=============================================================================
