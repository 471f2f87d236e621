-------------------------------- MODULE Codes --------------------------------
(***************************************************************************)
(* One-time codes (auth.service.ts, table otp_codes), the client accounts  *)
(* they open, and the desk's changes of a client's phone                   *)
(* (clients.service.ts). Codes go by phone, accounts by id.                *)
(*                                                                         *)
(* consumeOtp reads a code, compares it and writes its row in separate     *)
(* statements, and what follows looks the phone up and writes the account  *)
(* by id; whatever runs between them sees the old rows. No handler deletes *)
(* a client, so deletedAt is left out.                                     *)
(***************************************************************************)
EXTENDS Integers, Sequences, FiniteSets, Handling

CONSTANTS
    Clients,        \* bound: ids of the rows of table clients
    Phones,
    MaxAttempts,    \* MAX_OTP_ATTEMPTS
    MaxCodes        \* bound: codes sent

ASSUME CodesAssumption ==
    /\ MaxAttempts \in Nat \ {0}
    /\ MaxCodes \in Nat
    /\ IsFiniteSet(Handlers)
    /\ None \notin Clients \cup Phones

VARIABLES
    account,    \* the rows of table clients
    codes,      \* the rows of table otp_codes, in the order they expire
    codeCall,   \* the request each handler is serving
    had         \* history: the phones that each client's row has had

codesVars == <<account, codes, codeCall, had>>

Purposes == {"register", "reset_password"}
\* phone: None before the row is there; password: which request wrote it last.
Account == [phone: Phones \cup {None}, verified: BOOLEAN,
            password: {"none", "register", "reset", "change"}]
NoAccount == [phone |-> None, verified |-> FALSE, password |-> "none"]
\* uses is history: requests that the code let through.
Code == [phone: Phones, purpose: Purposes, status: {"live", "consumed", "expired"},
         attempts: Nat, uses: Nat]
CodeCall == [op: {"none", "register", "forgot", "verify", "reset", "change"},
             step: {"idle", "write", "send", "compare", "find", "apply"},
             phone: Phones \cup {None}, client: Clients \cup {None},
             code: 0 .. MaxCodes, right: BOOLEAN]

NoCodeCall == [op |-> "none", step |-> "idle", phone |-> None, client |-> None,
               code |-> 0, right |-> FALSE]

CodesTypeOK ==
    /\ account \in [Clients -> Account]
    /\ codes \in Seq(Code) /\ Len(codes) <= MaxCodes
    /\ codeCall \in [Handlers -> CodeCall]
    /\ had \in [Clients -> SUBSET Phones]

CodesInit ==
    /\ account = [c \in Clients |-> NoAccount]
    /\ codes = <<>>
    /\ codeCall = [h \in Handlers |-> NoCodeCall]
    /\ had = [c \in Clients |-> {}]

-----------------------------------------------------------------------------

CodeStep(h, op, step) == codeCall[h].op = op /\ codeCall[h].step = step
CodeCallIs(h, call) == codeCall' = [codeCall EXCEPT ![h] = call]
CodeCallEnds(h) == CodeCallIs(h, NoCodeCall)
CodeCallGoes(h, step, c) ==
    CodeCallIs(h, [codeCall[h] EXCEPT !.step = step, !.client = c])
Starts(h, op, step, p, c) ==
    /\ codeCall[h] = NoCodeCall
    /\ CodeCallIs(h, [NoCodeCall EXCEPT !.op = op, !.step = step, !.phone = p,
                                        !.client = c])
    /\ UNCHANGED <<account, codes, had>>

\* The row with a phone, which is @unique: one or none.
RowsOf(p) == {c \in Clients : account[c].phone = p}

\* A client's row gets a phone that no other has: an insert or an update.
GivePhone(c, p, row) ==
    /\ RowsOf(p) = {}
    /\ account' = [account EXCEPT ![c] = row]
    /\ had' = [had EXCEPT ![c] = @ \cup {p}]

\* Staff enter a client, alone or with a booking.
AddClient(c, p) ==
    /\ account[c].phone = None
    /\ GivePhone(c, p, [NoAccount EXCEPT !.phone = p])
    /\ UNCHANGED <<codes, codeCall>>

\* Staff give a client another phone; it counts as verified if the old one did.
ChangePhone(c, p) ==
    /\ account[c].phone # None
    /\ GivePhone(c, p, [account[c] EXCEPT !.phone = p])
    /\ UNCHANGED <<codes, codeCall>>

\* A phone that was verified registers no more.
Register(h, p) ==
    \/ RowsOf(p) = {} /\ Starts(h, "register", "write", p, None)
    \/ \E c \in RowsOf(p) :
          ~account[c].verified /\ Starts(h, "register", "write", p, c)

\* The upsert by hand: an update by id, or an insert that fails when the phone
\* has got a row meanwhile.
RegisterUpdate(h) ==
    LET c == codeCall[h].client
    IN /\ CodeStep(h, "register", "write")
       /\ c # None
       /\ account' = [account EXCEPT ![c].password = "register"]
       /\ CodeCallGoes(h, "send", c)
       /\ UNCHANGED <<codes, had>>

RegisterInsert(h) ==
    LET p == codeCall[h].phone
    IN /\ CodeStep(h, "register", "write")
       /\ codeCall[h].client = None
       /\ \/ \E c \in Clients :
                /\ account[c].phone = None
                /\ GivePhone(c, p, [phone |-> p, verified |-> FALSE,
                                    password |-> "register"])
                /\ CodeCallGoes(h, "send", c)
          \/ RowsOf(p) # {} /\ CodeCallEnds(h) /\ UNCHANGED <<account, had>>
       /\ UNCHANGED codes

\* An unverified phone gets the same answer and no code.
ForgotPassword(h, p) ==
    \E c \in RowsOf(p) : account[c].verified /\ Starts(h, "forgot", "send", p, c)

SendOtp(h) ==
    /\ codeCall[h].step = "send"
    /\ Len(codes) < MaxCodes
    /\ codes' = Append(codes, [phone |-> codeCall[h].phone,
                               purpose |-> IF codeCall[h].op = "register"
                                           THEN "register" ELSE "reset_password",
                               status |-> "live", attempts |-> 0, uses |-> 0])
    /\ CodeCallEnds(h)
    /\ UNCHANGED <<account, had>>

\* Codes live equally long.
CodeExpires ==
    /\ \E i \in DOMAIN codes :
          /\ codes[i].status = "live"
          /\ \A k \in 1 .. i - 1 : codes[k].status # "live"
          /\ codes' = [codes EXCEPT ![i].status = "expired"]
    /\ UNCHANGED <<account, codeCall, had>>

\* The code that a request for a purpose is compared with: the last to expire.
\* AnyLiveCodes does not ask what a code is for.
AnyLiveCodes(p, purpose) ==
    {i \in DOMAIN codes : codes[i].status = "live" /\ codes[i].phone = p}
LiveCodes(p, purpose) ==
    {i \in DOMAIN codes : /\ codes[i].status = "live" /\ codes[i].phone = p
                          /\ codes[i].purpose = purpose}
IsLatest(i, p, purpose) ==
    i \in LiveCodes(p, purpose) /\ \A k \in LiveCodes(p, purpose) : k <= i

\* TriesForever forgets the limit.
TriesForever(code) == TRUE
TriesLeft(code) == code.attempts < MaxAttempts

\* consumeOtp finds the code; right says whether the client sent the same.
FindCode(h, op, p, purpose, right) ==
    /\ codeCall[h] = NoCodeCall
    /\ op = "reset" => purpose = "reset_password"
    /\ \E i \in DOMAIN codes :
          /\ IsLatest(i, p, purpose)
          /\ TriesLeft(codes[i])
          /\ CodeCallIs(h, [op |-> op, step |-> "compare", phone |-> p,
                            client |-> None, code |-> i, right |-> right])
    /\ UNCHANGED <<account, codes, had>>

\* A verified reset code is spent: it sets no password and lets none be set.
AfterCode(h) ==
    IF codeCall[h].op = "verify" /\ codes[codeCall[h].code].purpose = "reset_password"
    THEN CodeCallEnds(h)
    ELSE CodeCallGoes(h, "find", None)

Consumed(code) == [code EXCEPT !.status = "consumed", !.uses = @ + 1]

\* A wrong code costs an attempt; GivesAnAttempt counts the wrong way.
GivesAnAttempt(code) == [code EXCEPT !.attempts = @ - 1]
TakesAnAttempt(code) == [code EXCEPT !.attempts = @ + 1]

CompareCode(h) ==
    LET i == codeCall[h].code
    IN /\ codeCall[h].step = "compare"
       /\ IF codeCall[h].right
          THEN codes' = [codes EXCEPT ![i] = Consumed(@)] /\ AfterCode(h)
          ELSE /\ codes' = [codes EXCEPT ![i] = TakesAnAttempt(@)]
               /\ CodeCallEnds(h)
       /\ UNCHANGED <<account, had>>

\* Whose phone it is now: CLIENT_NOT_FOUND when nobody's.
FindClient(h) ==
    LET p == codeCall[h].phone
    IN /\ codeCall[h].step = "find"
       /\ \/ RowsOf(p) = {} /\ CodeCallEnds(h)
          \/ \E c \in RowsOf(p) : CodeCallGoes(h, "apply", c)
       /\ UNCHANGED <<account, codes, had>>

\* A client changes a password he knows.
ChangePassword(h, c) ==
    account[c].password # "none" /\ Starts(h, "change", "apply", None, c)

\* What the request was for: verifying the phone, or a new password.
ApplyCode(h) ==
    LET c == codeCall[h].client
    IN /\ codeCall[h].step = "apply"
       /\ account' = [account EXCEPT
                        ![c] = IF codeCall[h].op = "verify"
                               THEN [@ EXCEPT !.verified = TRUE]
                               ELSE [@ EXCEPT !.password = codeCall[h].op]]
       /\ CodeCallEnds(h)
       /\ UNCHANGED <<codes, had>>

\* The process dies or a statement fails.
CodeCallFails(h) ==
    /\ codeCall[h] # NoCodeCall
    /\ CodeCallEnds(h)
    /\ UNCHANGED <<account, codes, had>>

CodesNext ==
    \/ CodeExpires
    \/ \E c \in Clients, p \in Phones : AddClient(c, p) \/ ChangePhone(c, p)
    \/ \E h \in Handlers :
          \/ \E p \in Phones : Register(h, p) \/ ForgotPassword(h, p)
          \/ RegisterUpdate(h) \/ RegisterInsert(h) \/ SendOtp(h)
          \/ \E op \in {"verify", "reset"}, p \in Phones, purpose \in Purposes,
                right \in BOOLEAN : FindCode(h, op, p, purpose, right)
          \/ CompareCode(h) \/ FindClient(h) \/ ApplyCode(h) \/ CodeCallFails(h)
          \/ \E c \in Clients : ChangePassword(h, c)

CodesSpec == CodesInit /\ [][CodesNext]_codesVars

-----------------------------------------------------------------------------
(* Properties.                                                             *)

\* The limit on wrong codes is read before it is counted, so guesses in flight
\* at once pass it together, and a code may be used by as many; never by more.
CodesAreLimited ==
    \A i \in DOMAIN codes :
        /\ codes[i].attempts < MaxAttempts + Cardinality(Handlers)
        /\ codes[i].uses <= Cardinality(Handlers)

\* A client counts as verified, and has a reset password, only after a code for
\* just that, sent to a phone of his, was used up: to the phone he has, unless
\* staff gave him another meanwhile, which then counts without any code.
Spent(p, purpose) ==
    \E i \in DOMAIN codes : /\ codes[i].phone = p /\ codes[i].purpose = purpose
                            /\ codes[i].status = "consumed"
AccountsAreEarned ==
    \A c \in Clients :
        /\ account[c].verified => \E p \in had[c] : Spent(p, "register")
        /\ account[c].password = "reset" => \E p \in had[c] : Spent(p, "reset_password")
=============================================================================
