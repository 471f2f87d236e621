---------------------------- MODULE AccessProofs ----------------------------
(***************************************************************************)
(* Proofs about Codes, for every set of clients and phones and every number *)
(* of handlers, codes and attempts, and about Sessions, for every number   *)
(* of handlers and tokens and every set of roles.                          *)
(***************************************************************************)
EXTENDS Codes, Sessions, FiniteSetTheorems, TLAPS

-----------------------------------------------------------------------------
(* Codes: the inductive invariant.                                         *)

\* A code for this, sent to a phone of the client's, was used up.
ClientSpent(c, purpose) == \E p \in had[c] : Spent(p, purpose)

\* A call compares a code that exists, of the phone and the purpose it needs; one
\* that goes on has used such a code up, sent to a phone of the client it found.
CodeCallFits(call) ==
    /\ call.step = "compare" =>
          /\ call.op \in {"verify", "reset"}
          /\ call.code \in DOMAIN codes
          /\ codes[call.code].phone = call.phone
          /\ call.op = "reset" => codes[call.code].purpose = "reset_password"
    /\ call.step = "find" =>
          /\ call.op \in {"verify", "reset"}
          /\ call.op = "verify" => Spent(call.phone, "register")
          /\ call.op = "reset" => Spent(call.phone, "reset_password")
    /\ call.step = "apply" =>
          /\ call.op \in {"verify", "reset", "change"}
          /\ call.client \in Clients
          /\ call.op = "verify" => ClientSpent(call.client, "register")
          /\ call.op = "reset" => ClientSpent(call.client, "reset_password")
    /\ call.step = "send" => call.phone \in Phones
    /\ call.step = "write" => call.phone \in Phones

CodeCallsFit == \A h \in Handlers : CodeCallFits(codeCall[h])

\* The phone a client has is one that he has had.
PhonesNoted == \A c \in Clients : account[c].phone # None => account[c].phone \in had[c]

CodesInv == CodesTypeOK /\ CodeCallsFit /\ PhonesNoted /\ AccountsAreEarned

\* What every step leaves of the codes: none goes, changes its phone or its purpose
\* or becomes unspent; and a client goes on having had his phones.
CodesKept ==
    /\ DOMAIN codes \subseteq DOMAIN codes'
    /\ \A i \in DOMAIN codes :
          /\ codes'[i].phone = codes[i].phone
          /\ codes'[i].purpose = codes[i].purpose
          /\ codes[i].status = "consumed" => codes'[i].status = "consumed"
    /\ \A c \in Clients : had[c] \subseteq had'[c]

-----------------------------------------------------------------------------
(* Lemmas.                                                                 *)

LEMMA SpentStays ==
    ASSUME CodesKept, NEW p, NEW purpose, Spent(p, purpose)
    PROVE  Spent(p, purpose)'
BY DEF CodesKept, Spent

LEMMA ClientSpentStays ==
    ASSUME CodesKept, NEW c \in Clients, NEW purpose, ClientSpent(c, purpose)
    PROVE  ClientSpent(c, purpose)'
BY SpentStays DEF CodesKept, ClientSpent

LEMMA CallStillFits ==
    ASSUME CodesKept, NEW call, CodeCallFits(call)
    PROVE  CodeCallFits(call)'
<1>1. /\ Spent(call.phone, "register") => Spent(call.phone, "register")'
      /\ Spent(call.phone, "reset_password") => Spent(call.phone, "reset_password")'
    BY SpentStays
<1>2. call.client \in Clients =>
         /\ ClientSpent(call.client, "register") => ClientSpent(call.client, "register")'
         /\ ClientSpent(call.client, "reset_password") =>
               ClientSpent(call.client, "reset_password")'
    BY ClientSpentStays
<1>3. QED
    BY <1>1, <1>2 DEF CodeCallFits, CodesKept

LEMMA NoCodeCallFits == NoCodeCall \in CodeCall /\ NoCodeCall.step = "idle"
BY CodesAssumption DEF NoCodeCall, CodeCall

\* The codes and the phones stay as they were.
LEMMA SameCodesKept ==
    ASSUME UNCHANGED <<codes, had>>
    PROVE  CodesKept
BY DEF CodesKept

\* One row changes and stays a code.
LEMMA CodeRowChanges ==
    ASSUME CodesTypeOK, NEW i \in DOMAIN codes, NEW d \in Code,
           d.phone = codes[i].phone, d.purpose = codes[i].purpose,
           codes[i].status = "consumed" => d.status = "consumed",
           codes' = [codes EXCEPT ![i] = d], had' = had
    PROVE  /\ codes' \in Seq(Code) /\ Len(codes') = Len(codes)
           /\ DOMAIN codes' = DOMAIN codes /\ codes'[i] = d
           /\ CodesKept
BY DEF CodesTypeOK, CodesKept

\* One handler takes up a call that fits; the others' calls still do.
LEMMA CodeCallMoves ==
    ASSUME CodesTypeOK, CodeCallsFit, CodesKept,
           NEW h \in Handlers, NEW call \in CodeCall, CodeCallIs(h, call),
           CodeCallFits(call)'
    PROVE  codeCall' \in [Handlers -> CodeCall] /\ CodeCallsFit'
<1>1. codeCall \in [Handlers -> CodeCall]
    BY DEF CodesTypeOK
<1>2. /\ codeCall' \in [Handlers -> CodeCall]
      /\ \A g \in Handlers : codeCall'[g] = IF g = h THEN call ELSE codeCall[g]
    BY <1>1 DEF CodeCallIs
<1>3. ASSUME NEW g \in Handlers
      PROVE  CodeCallFits(codeCall[g])'
    <2>1. CASE g = h
        BY <1>2, <2>1 DEF CodeCallFits
    <2>2. CASE g # h
        <3>1. CodeCallFits(codeCall[g])'
            <4>1. PICK other : other = codeCall[g]
                OBVIOUS
            <4>2. CodeCallFits(other)'
                BY <4>1, CallStillFits DEF CodeCallsFit
            <4>3. codeCall'[g] = other
                BY <1>2, <2>2, <4>1
            <4>4. QED
                BY <4>2, <4>3 DEF CodeCallFits
        <3>2. QED
            BY <3>1
    <2>3. QED
        BY <2>1, <2>2
<1>4. QED
    BY <1>2, <1>3 DEF CodeCallsFit

\* It ends its call.
LEMMA HandlerEnds ==
    ASSUME CodesTypeOK, CodeCallsFit, CodesKept, NEW h \in Handlers, CodeCallEnds(h)
    PROVE  codeCall' \in [Handlers -> CodeCall] /\ CodeCallsFit'
<1>1. CodeCallFits(NoCodeCall)'
    BY NoCodeCallFits DEF CodeCallFits
<1>2. QED
    BY <1>1, NoCodeCallFits, CodeCallMoves DEF CodeCallEnds

\* No handler does.
LEMMA CodeCallsWait ==
    ASSUME CodesTypeOK, CodeCallsFit, CodesKept, UNCHANGED codeCall
    PROVE  codeCall' \in [Handlers -> CodeCall] /\ CodeCallsFit'
<1>1. codeCall' \in [Handlers -> CodeCall]
    BY DEF CodesTypeOK
<1>2. ASSUME NEW g \in Handlers
      PROVE  CodeCallFits(codeCall[g])'
    <2>1. PICK other : other = codeCall[g]
        OBVIOUS
    <2>2. CodeCallFits(other)'
        BY <2>1, CallStillFits DEF CodeCallsFit
    <2>3. QED
        BY <2>1, <2>2 DEF CodeCallFits
<1>3. QED
    BY <1>1, <1>2 DEF CodeCallsFit

\* What was earned stays earned while the accounts stay as they were.
LEMMA EarnedStays ==
    ASSUME CodesTypeOK, AccountsAreEarned, PhonesNoted, CodesKept, UNCHANGED account
    PROVE  AccountsAreEarned' /\ PhonesNoted'
<1>1. PhonesNoted'
    BY DEF PhonesNoted, CodesKept
<1>2. AccountsAreEarned'
    BY ClientSpentStays DEF AccountsAreEarned, ClientSpent
<1>3. QED
    BY <1>1, <1>2

\* One account is written, and what it says then was earned.
LEMMA AccountWrites ==
    ASSUME CodesTypeOK, AccountsAreEarned, PhonesNoted, CodesKept, NEW c \in Clients,
           NEW a \in Account, account' = [account EXCEPT ![c] = a],
           a.phone # None => a.phone \in had'[c],
           a.verified => account[c].verified \/ ClientSpent(c, "register")',
           a.password = "reset" =>
              account[c].password = "reset" \/ ClientSpent(c, "reset_password")'
    PROVE  account' \in [Clients -> Account] /\ AccountsAreEarned' /\ PhonesNoted'
<1>1. account' \in [Clients -> Account]
    BY DEF CodesTypeOK
<1>2. account'[c] = a /\ \A d \in Clients \ {c} : account'[d] = account[d]
    BY DEF CodesTypeOK
<1>3. PhonesNoted'
    BY <1>2 DEF PhonesNoted, CodesKept
<1>4. ASSUME NEW d \in Clients
      PROVE  /\ account'[d].verified => ClientSpent(d, "register")'
             /\ account'[d].password = "reset" => ClientSpent(d, "reset_password")'
    <2>1. /\ account[d].verified => ClientSpent(d, "register")'
          /\ account[d].password = "reset" => ClientSpent(d, "reset_password")'
        BY ClientSpentStays DEF AccountsAreEarned, ClientSpent
    <2>2. QED
        BY <1>2, <2>1
<1>5. AccountsAreEarned'
    BY <1>4 DEF AccountsAreEarned, ClientSpent
<1>6. QED
    BY <1>1, <1>3, <1>5

-----------------------------------------------------------------------------
(* The steps.                                                              *)

LEMMA CodesStart == CodesInit => CodesInv
<1> SUFFICES ASSUME CodesInit PROVE CodesInv
    OBVIOUS
<1>1. NoAccount \in Account
    BY DEF NoAccount, Account
<1>2. CodesTypeOK
    BY <1>1, NoCodeCallFits, CodesAssumption DEF CodesInit, CodesTypeOK
<1>3. CodeCallsFit
    BY NoCodeCallFits DEF CodesInit, CodeCallsFit, CodeCallFits
<1>4. AccountsAreEarned /\ PhonesNoted
    BY DEF CodesInit, AccountsAreEarned, PhonesNoted, NoAccount
<1>5. QED
    BY <1>2, <1>3, <1>4 DEF CodesInv

LEMMA StartsHolds ==
    ASSUME CodesInv, NEW h \in Handlers, NEW p \in Phones \cup {None},
           NEW c \in Clients \cup {None},
           NEW op \in {"register", "forgot", "change"}, NEW step \in {"write", "send", "apply"},
           step = "apply" => op = "change" /\ c \in Clients,
           step # "apply" => p \in Phones,
           Starts(h, op, step, p, c)
    PROVE  CodesInv'
<1> DEFINE call == [NoCodeCall EXCEPT !.op = op, !.step = step, !.phone = p, !.client = c]
<1>1. CodesTypeOK /\ CodeCallsFit /\ AccountsAreEarned /\ PhonesNoted
    BY DEF CodesInv
<1>2. CodesKept
    BY SameCodesKept DEF Starts
<1>3. /\ call \in CodeCall /\ call.op = op /\ call.step = step /\ call.phone = p
      /\ call.client = c
    BY CodesAssumption, NoCodeCallFits DEF NoCodeCall, CodeCall
<1>4. CodeCallIs(h, call)
    BY DEF Starts
<1> HIDE DEF call
<1>5. CodeCallFits(call)'
    BY <1>3 DEF CodeCallFits
<1>6. codeCall' \in [Handlers -> CodeCall] /\ CodeCallsFit'
    BY <1>1, <1>2, <1>3, <1>4, <1>5, CodeCallMoves
<1>7. AccountsAreEarned' /\ PhonesNoted'
    BY <1>1, <1>2, EarnedStays DEF Starts
<1>8. QED
    BY <1>1, <1>6, <1>7 DEF CodesInv, CodesTypeOK, Starts

\* A row gets a phone, and the history notes it.
LEMMA GivePhoneNotes ==
    ASSUME CodesTypeOK, NEW c \in Clients, NEW p \in Phones, NEW a, GivePhone(c, p, a),
           codes' = codes
    PROVE  CodesKept /\ had' \in [Clients -> SUBSET Phones] /\ p \in had'[c]
BY DEF GivePhone, CodesTypeOK, CodesKept

LEMMA PhoneHolds ==
    ASSUME CodesInv, NEW c \in Clients, NEW p \in Phones,
           AddClient(c, p) \/ ChangePhone(c, p)
    PROVE  CodesInv'
<1>1. CodesTypeOK /\ CodeCallsFit /\ AccountsAreEarned /\ PhonesNoted
    BY DEF CodesInv
<1>2. PICK a : GivePhone(c, p, a) /\ a \in Account /\ a.phone = p
               /\ (a.verified => account[c].verified)
               /\ (a.password = "reset" => account[c].password = "reset")
    <2>1. CASE AddClient(c, p)
        <3> DEFINE a == [NoAccount EXCEPT !.phone = p]
        <3>1. GivePhone(c, p, a) /\ a \in Account /\ a.phone = p /\ ~a.verified
                                 /\ a.password = "none"
            BY <2>1 DEF AddClient, NoAccount, Account
        <3>2. QED
            BY <3>1
    <2>2. CASE ChangePhone(c, p)
        <3> DEFINE a == [account[c] EXCEPT !.phone = p]
        <3>1. account[c] \in Account
            BY <1>1 DEF CodesTypeOK
        <3>2. GivePhone(c, p, a) /\ a \in Account /\ a.phone = p
              /\ a.verified = account[c].verified /\ a.password = account[c].password
            BY <2>2, <3>1 DEF ChangePhone, Account
        <3>3. QED
            BY <3>2
    <2>3. QED
        BY <2>1, <2>2
<1>3. UNCHANGED <<codes, codeCall>>
    BY DEF AddClient, ChangePhone
<1>4. CodesKept /\ had' \in [Clients -> SUBSET Phones] /\ p \in had'[c]
    BY <1>1, <1>2, <1>3, GivePhoneNotes
<1>5. account' \in [Clients -> Account] /\ AccountsAreEarned' /\ PhonesNoted'
    BY <1>1, <1>2, <1>4, AccountWrites DEF GivePhone
<1>6. codeCall' \in [Handlers -> CodeCall] /\ CodeCallsFit'
    BY <1>1, <1>3, <1>4, CodeCallsWait
<1>7. QED
    BY <1>1, <1>3, <1>4, <1>5, <1>6 DEF CodesInv, CodesTypeOK

LEMMA CodeExpiresHolds == ASSUME CodesInv, CodeExpires PROVE CodesInv'
<1>1. CodesTypeOK /\ CodeCallsFit /\ AccountsAreEarned /\ PhonesNoted
    BY DEF CodesInv
<1>2. PICK i \in DOMAIN codes :
          /\ codes[i].status = "live"
          /\ codes' = [codes EXCEPT ![i].status = "expired"]
    BY DEF CodeExpires
<1> DEFINE d == [codes[i] EXCEPT !.status = "expired"]
<1>3. codes[i] \in Code
    BY <1>1 DEF CodesTypeOK
<1>4. d \in Code /\ d.purpose = codes[i].purpose /\ d.phone = codes[i].phone
    BY <1>3 DEF Code
<1>5. codes' = [codes EXCEPT ![i] = d] /\ had' = had
    BY <1>2 DEF CodeExpires
<1> HIDE DEF d
<1>6. codes' \in Seq(Code) /\ Len(codes') = Len(codes) /\ CodesKept
    BY <1>1, <1>2, <1>4, <1>5, CodeRowChanges
<1>7. codeCall' \in [Handlers -> CodeCall] /\ CodeCallsFit'
    BY <1>1, <1>6, CodeCallsWait DEF CodeExpires
<1>8. AccountsAreEarned' /\ PhonesNoted'
    BY <1>1, <1>6, EarnedStays DEF CodeExpires
<1>9. QED
    BY <1>1, <1>6, <1>7, <1>8 DEF CodesInv, CodesTypeOK, CodeExpires

\* A call of register that goes on to send its code.
LEMMA GoesToSend ==
    ASSUME CodesTypeOK, CodeCallsFit, CodesKept, NEW h \in Handlers, NEW c \in Clients,
           codeCall[h].step = "write", CodeCallGoes(h, "send", c)
    PROVE  codeCall' \in [Handlers -> CodeCall] /\ CodeCallsFit'
<1>1. PICK old \in CodeCall : old = codeCall[h] /\ CodeCallFits(old)
    BY DEF CodesTypeOK, CodeCallsFit
<1> DEFINE call == [old EXCEPT !.step = "send", !.client = c]
<1>2. call \in CodeCall /\ call.step = "send" /\ call.phone \in Phones
    BY <1>1 DEF CodeCall, CodeCallFits
<1>3. CodeCallIs(h, call)
    BY <1>1 DEF CodeCallGoes
<1> HIDE DEF call
<1>4. CodeCallFits(call)'
    BY <1>2 DEF CodeCallFits
<1>5. QED
    BY <1>2, <1>3, <1>4, CodeCallMoves

LEMMA RegisterUpdateHolds ==
    ASSUME CodesInv, NEW h \in Handlers, RegisterUpdate(h)
    PROVE  CodesInv'
<1>1. CodesTypeOK /\ CodeCallsFit /\ AccountsAreEarned /\ PhonesNoted
    BY DEF CodesInv
<1>2. PICK c \in Clients : c = codeCall[h].client
    BY <1>1 DEF RegisterUpdate, CodesTypeOK, CodeCall
<1>3. CodesKept
    BY SameCodesKept DEF RegisterUpdate
<1> DEFINE a == [account[c] EXCEPT !.password = "register"]
<1>4. account[c] \in Account
    BY <1>1 DEF CodesTypeOK
<1>5. /\ a \in Account /\ a.phone = account[c].phone /\ a.verified = account[c].verified
      /\ a.password = "register"
    BY <1>4 DEF Account
<1>6. account' = [account EXCEPT ![c] = a] /\ had' = had
    BY <1>2 DEF RegisterUpdate
<1> HIDE DEF a
<1>7. account' \in [Clients -> Account] /\ AccountsAreEarned' /\ PhonesNoted'
    BY <1>1, <1>3, <1>5, <1>6, AccountWrites DEF PhonesNoted
<1>8. codeCall' \in [Handlers -> CodeCall] /\ CodeCallsFit'
    BY <1>1, <1>2, <1>3, GoesToSend DEF RegisterUpdate, CodeStep
<1>9. QED
    BY <1>1, <1>7, <1>8 DEF CodesInv, CodesTypeOK, RegisterUpdate

LEMMA RegisterInsertHolds ==
    ASSUME CodesInv, NEW h \in Handlers, RegisterInsert(h)
    PROVE  CodesInv'
<1>1. CodesTypeOK /\ CodeCallsFit /\ AccountsAreEarned /\ PhonesNoted
    BY DEF CodesInv
<1>2. codeCall[h].step = "write" /\ CodeCallFits(codeCall[h]) /\ codes' = codes
    BY <1>1 DEF RegisterInsert, CodeStep, CodeCallsFit
<1>3. PICK p \in Phones : p = codeCall[h].phone
    BY <1>2 DEF CodeCallFits
<1>4. CASE CodeCallEnds(h) /\ UNCHANGED <<account, had>>
    <2>1. CodesKept
        BY <1>2, <1>4, SameCodesKept
    <2>2. codeCall' \in [Handlers -> CodeCall] /\ CodeCallsFit'
        BY <1>1, <1>4, <2>1, HandlerEnds
    <2>3. AccountsAreEarned' /\ PhonesNoted'
        BY <1>1, <1>4, <2>1, EarnedStays
    <2>4. QED
        BY <1>1, <1>2, <1>4, <2>2, <2>3 DEF CodesInv, CodesTypeOK
<1>5. ASSUME NEW c \in Clients,
             GivePhone(c, p, [phone |-> p, verified |-> FALSE, password |-> "register"]),
             CodeCallGoes(h, "send", c)
      PROVE  CodesInv'
    <2> DEFINE a == [phone |-> p, verified |-> FALSE, password |-> "register"]
    <2>1. a \in Account /\ a.phone = p /\ ~a.verified /\ a.password = "register"
        BY DEF Account
    <2>2. GivePhone(c, p, a)
        BY <1>5
    <2> HIDE DEF a
    <2>3. CodesKept /\ had' \in [Clients -> SUBSET Phones] /\ p \in had'[c]
        BY <1>1, <1>2, <2>2, GivePhoneNotes
    <2>4. account' \in [Clients -> Account] /\ AccountsAreEarned' /\ PhonesNoted'
        BY <1>1, <2>1, <2>2, <2>3, AccountWrites DEF GivePhone
    <2>5. codeCall' \in [Handlers -> CodeCall] /\ CodeCallsFit'
        BY <1>1, <1>2, <1>5, <2>3, GoesToSend
    <2>6. QED
        BY <1>1, <1>2, <2>3, <2>4, <2>5 DEF CodesInv, CodesTypeOK
<1>6. QED
    BY <1>3, <1>4, <1>5 DEF RegisterInsert

LEMMA SendOtpHolds == ASSUME CodesInv, NEW h \in Handlers, SendOtp(h) PROVE CodesInv'
<1> DEFINE d == [phone |-> codeCall[h].phone,
                 purpose |-> IF codeCall[h].op = "register" THEN "register"
                             ELSE "reset_password",
                 status |-> "live", attempts |-> 0, uses |-> 0]
<1>1. CodesTypeOK /\ CodeCallsFit /\ AccountsAreEarned /\ PhonesNoted
    BY DEF CodesInv
<1>2. d \in Code
    BY <1>1 DEF SendOtp, CodeCallsFit, CodeCallFits, Code, Purposes
<1>3. codes' = Append(codes, d) /\ Len(codes) < MaxCodes /\ had' = had
    BY DEF SendOtp
<1> HIDE DEF d
<1>4. codes' \in Seq(Code) /\ Len(codes') = Len(codes) + 1
    BY <1>1, <1>2, <1>3 DEF CodesTypeOK
<1>5. CodesKept
    BY <1>1, <1>2, <1>3 DEF CodesTypeOK, CodesKept
<1>6. codeCall' \in [Handlers -> CodeCall] /\ CodeCallsFit'
    BY <1>1, <1>5, HandlerEnds DEF SendOtp
<1>7. AccountsAreEarned' /\ PhonesNoted'
    BY <1>1, <1>5, EarnedStays DEF SendOtp
<1>8. Len(codes') <= MaxCodes
    BY <1>1, <1>3, <1>4, CodesAssumption DEF CodesTypeOK
<1>9. QED
    BY <1>1, <1>4, <1>6, <1>7, <1>8 DEF CodesInv, CodesTypeOK, SendOtp

LEMMA FindCodeHolds ==
    ASSUME CodesInv, NEW h \in Handlers, NEW op \in {"verify", "reset"}, NEW p \in Phones,
           NEW purpose \in Purposes, NEW right \in BOOLEAN,
           FindCode(h, op, p, purpose, right)
    PROVE  CodesInv'
<1>1. CodesTypeOK /\ CodeCallsFit /\ AccountsAreEarned /\ PhonesNoted
    BY DEF CodesInv
<1>2. CodesKept
    BY SameCodesKept DEF FindCode
<1>3. PICK i \in DOMAIN codes :
          /\ IsLatest(i, p, purpose)
          /\ CodeCallIs(h, [op |-> op, step |-> "compare", phone |-> p, client |-> None,
                            code |-> i, right |-> right])
    BY DEF FindCode
<1> DEFINE call == [op |-> op, step |-> "compare", phone |-> p, client |-> None,
                    code |-> i, right |-> right]
<1>4. /\ call \in CodeCall /\ call.op = op /\ call.step = "compare" /\ call.code = i
      /\ call.phone = p
    <2>1. i \in 0 .. MaxCodes
        BY <1>1, CodesAssumption DEF CodesTypeOK
    <2>2. QED
        BY <2>1 DEF CodeCall
<1>5. CodeCallIs(h, call)
    BY <1>3
<1> HIDE DEF call
<1>6. codes'[i].purpose = purpose /\ codes'[i].phone = p /\ i \in DOMAIN codes'
    BY <1>3 DEF IsLatest, LiveCodes, FindCode
<1>7. CodeCallFits(call)'
    BY <1>4, <1>6 DEF CodeCallFits, FindCode
<1>8. codeCall' \in [Handlers -> CodeCall] /\ CodeCallsFit'
    BY <1>1, <1>2, <1>4, <1>5, <1>7, CodeCallMoves
<1>9. AccountsAreEarned' /\ PhonesNoted'
    BY <1>1, <1>2, EarnedStays DEF FindCode
<1>10. QED
    BY <1>1, <1>8, <1>9 DEF CodesInv, CodesTypeOK, FindCode

LEMMA ConsumedIsCode ==
    ASSUME NEW code \in Code
    PROVE  /\ Consumed(code) \in Code /\ Consumed(code).purpose = code.purpose
           /\ Consumed(code).phone = code.phone /\ Consumed(code).status = "consumed"
           /\ TakesAnAttempt(code) \in Code /\ TakesAnAttempt(code).purpose = code.purpose
           /\ TakesAnAttempt(code).phone = code.phone
           /\ TakesAnAttempt(code).status = code.status
<1>1. code.attempts + 1 \in Nat /\ code.uses + 1 \in Nat
    BY DEF Code
<1>2. /\ Consumed(code) \in Code /\ Consumed(code).purpose = code.purpose
      /\ Consumed(code).phone = code.phone /\ Consumed(code).status = "consumed"
    BY <1>1 DEF Consumed, Code
<1>3. /\ TakesAnAttempt(code) \in Code /\ TakesAnAttempt(code).purpose = code.purpose
      /\ TakesAnAttempt(code).phone = code.phone
      /\ TakesAnAttempt(code).status = code.status
    BY <1>1 DEF TakesAnAttempt, Code
<1>4. QED
    BY <1>2, <1>3

LEMMA CompareCodeHolds == ASSUME CodesInv, NEW h \in Handlers, CompareCode(h) PROVE CodesInv'
<1>1. CodesTypeOK /\ CodeCallsFit /\ AccountsAreEarned /\ PhonesNoted
    BY DEF CodesInv
<1>2. PICK old \in CodeCall : /\ old = codeCall[h] /\ old.step = "compare"
                              /\ CodeCallFits(old)
    BY <1>1 DEF CodesTypeOK, CodeCallsFit, CompareCode
<1> DEFINE i == old.code
           call == [old EXCEPT !.step = "find", !.client = None]
<1>3. /\ old.op \in {"verify", "reset"} /\ i \in DOMAIN codes
      /\ codes[i].phone = old.phone
      /\ old.op = "reset" => codes[i].purpose = "reset_password"
    BY <1>2 DEF CodeCallFits
<1>4. codes[i] \in Code /\ had' = had
    BY <1>1, <1>3 DEF CodesTypeOK, CompareCode
<1>5. call \in CodeCall /\ call.step = "find" /\ call.op = old.op /\ call.phone = old.phone
    BY <1>2 DEF CodeCall
<1>6. CASE old.right
    <2>1. codes' = [codes EXCEPT ![i] = Consumed(codes[i])] /\ AfterCode(h)
        BY <1>2, <1>6 DEF CompareCode
    <2>2. /\ Consumed(codes[i]) \in Code
          /\ Consumed(codes[i]).purpose = codes[i].purpose
          /\ Consumed(codes[i]).phone = codes[i].phone
          /\ Consumed(codes[i]).status = "consumed"
        BY <1>4, ConsumedIsCode
    <2>3. /\ codes' \in Seq(Code) /\ Len(codes') = Len(codes) /\ CodesKept
          /\ DOMAIN codes' = DOMAIN codes /\ codes'[i] = Consumed(codes[i])
        BY <1>1, <1>3, <1>4, <2>1, <2>2, CodeRowChanges
    <2>4. PICK purpose : purpose = codes[i].purpose
        OBVIOUS
    <2>5. codeCall' \in [Handlers -> CodeCall] /\ CodeCallsFit'
        <3>1. CASE old.op = "verify" /\ purpose = "reset_password"
            BY <1>1, <1>2, <2>1, <2>3, <2>4, <3>1, HandlerEnds DEF AfterCode
        <3>2. CASE ~(old.op = "verify" /\ purpose = "reset_password")
            <4>1. CodeCallIs(h, call)
                BY <1>2, <2>1, <2>4, <3>2 DEF AfterCode, CodeCallGoes
            <4>2. /\ old.op = "verify" => purpose = "register"
                  /\ old.op = "reset" => purpose = "reset_password"
                BY <1>3, <1>4, <2>4, <3>2 DEF Code, Purposes
            <4>3. Spent(old.phone, purpose)'
                BY <1>3, <2>2, <2>3, <2>4 DEF Spent
            <4> HIDE DEF call
            <4>4. CodeCallFits(call)'
                BY <1>3, <1>5, <4>2, <4>3 DEF CodeCallFits
            <4>5. QED
                BY <1>1, <1>5, <2>3, <4>1, <4>4, CodeCallMoves
        <3>3. QED
            BY <3>1, <3>2
    <2>6. AccountsAreEarned' /\ PhonesNoted'
        BY <1>1, <2>3, EarnedStays DEF CompareCode
    <2>7. QED
        BY <1>1, <2>3, <2>5, <2>6 DEF CodesInv, CodesTypeOK, CompareCode
<1>7. CASE ~old.right
    <2>1. codes' = [codes EXCEPT ![i] = TakesAnAttempt(codes[i])] /\ CodeCallEnds(h)
        BY <1>2, <1>7 DEF CompareCode
    <2>2. /\ TakesAnAttempt(codes[i]) \in Code
          /\ TakesAnAttempt(codes[i]).purpose = codes[i].purpose
          /\ TakesAnAttempt(codes[i]).phone = codes[i].phone
          /\ TakesAnAttempt(codes[i]).status = codes[i].status
        BY <1>4, ConsumedIsCode
    <2>3. codes' \in Seq(Code) /\ Len(codes') = Len(codes) /\ CodesKept
        BY <1>1, <1>3, <1>4, <2>1, <2>2, CodeRowChanges
    <2>4. codeCall' \in [Handlers -> CodeCall] /\ CodeCallsFit'
        BY <1>1, <2>1, <2>3, HandlerEnds
    <2>5. AccountsAreEarned' /\ PhonesNoted'
        BY <1>1, <2>3, EarnedStays DEF CompareCode
    <2>6. QED
        BY <1>1, <2>3, <2>4, <2>5 DEF CodesInv, CodesTypeOK, CompareCode
<1>8. QED
    BY <1>6, <1>7

\* Whoever has the phone now has had it when the code is applied to his account.
LEMMA FindClientHolds == ASSUME CodesInv, NEW h \in Handlers, FindClient(h) PROVE CodesInv'
<1>1. CodesTypeOK /\ CodeCallsFit /\ AccountsAreEarned /\ PhonesNoted
    BY DEF CodesInv
<1>2. CodesKept
    BY SameCodesKept DEF FindClient
<1>3. PICK old \in CodeCall : /\ old = codeCall[h] /\ old.step = "find"
                              /\ CodeCallFits(old)
    BY <1>1 DEF CodesTypeOK, CodeCallsFit, FindClient
<1>4. ASSUME NEW c \in RowsOf(old.phone), CodeCallGoes(h, "apply", c)
      PROVE  codeCall' \in [Handlers -> CodeCall] /\ CodeCallsFit'
    <2> DEFINE call == [old EXCEPT !.step = "apply", !.client = c]
    <2>1. c \in Clients /\ account[c].phone = old.phone
        BY <1>4 DEF RowsOf
    <2>2. call \in CodeCall /\ call.step = "apply" /\ call.op = old.op
          /\ call.client = c
        BY <1>3, <2>1 DEF CodeCall
    <2>3. CodeCallIs(h, call)
        BY <1>3, <1>4 DEF CodeCallGoes
    <2> HIDE DEF call
    <2>4. old.phone \in had[c]
        <3>1. old.phone # None
            <4>1. PICK u \in Purposes : Spent(old.phone, u)
                BY <1>3 DEF CodeCallFits, Purposes
            <4>2. PICK i \in DOMAIN codes : codes[i].phone = old.phone
                BY <4>1 DEF Spent
            <4>3. codes[i] \in Code
                BY <1>1, <4>2 DEF CodesTypeOK
            <4>4. QED
                BY <4>2, <4>3, CodesAssumption DEF Code
        <3>2. QED
            BY <1>1, <2>1, <3>1 DEF PhonesNoted
    <2>5. /\ call.op \in {"verify", "reset"}
          /\ call.op = "verify" => ClientSpent(c, "register")
          /\ call.op = "reset" => ClientSpent(c, "reset_password")
        BY <1>3, <2>2, <2>4 DEF CodeCallFits, ClientSpent
    <2>6. /\ call.op = "verify" => ClientSpent(c, "register")'
          /\ call.op = "reset" => ClientSpent(c, "reset_password")'
        BY <1>2, <2>1, <2>5, ClientSpentStays
    <2>7. CodeCallFits(call)'
        BY <2>1, <2>2, <2>5, <2>6 DEF CodeCallFits
    <2>8. QED
        BY <1>1, <1>2, <2>2, <2>3, <2>7, CodeCallMoves
<1>5. codeCall' \in [Handlers -> CodeCall] /\ CodeCallsFit'
    BY <1>1, <1>2, <1>3, <1>4, HandlerEnds DEF FindClient
<1>6. AccountsAreEarned' /\ PhonesNoted'
    BY <1>1, <1>2, EarnedStays DEF FindClient
<1>7. QED
    BY <1>1, <1>5, <1>6 DEF CodesInv, CodesTypeOK, FindClient

LEMMA ApplyCodeHolds == ASSUME CodesInv, NEW h \in Handlers, ApplyCode(h) PROVE CodesInv'
<1>1. CodesTypeOK /\ CodeCallsFit /\ AccountsAreEarned /\ PhonesNoted
    BY DEF CodesInv
<1>2. CodesKept
    BY SameCodesKept DEF ApplyCode
<1>3. codeCall[h].step = "apply" /\ CodeCallFits(codeCall[h])
    BY <1>1 DEF CodeCallsFit, ApplyCode
<1>4. PICK c \in Clients : c = codeCall[h].client
    BY <1>3 DEF CodeCallFits
<1>5. /\ codeCall[h].op \in {"verify", "reset", "change"}
      /\ codeCall[h].op = "verify" => ClientSpent(c, "register")'
      /\ codeCall[h].op = "reset" => ClientSpent(c, "reset_password")'
    BY <1>2, <1>3, <1>4, ClientSpentStays DEF CodeCallFits
<1>6. account[c] \in Account
    BY <1>1 DEF CodesTypeOK
<1>7. PICK a \in Account :
          /\ account' = [account EXCEPT ![c] = a]
          /\ a.phone = account[c].phone
          /\ a.verified => account[c].verified \/ codeCall[h].op = "verify"
          /\ a.password = "reset" => account[c].password = "reset" \/ codeCall[h].op = "reset"
    <2>1. CASE codeCall[h].op = "verify"
        <3> DEFINE a == [account[c] EXCEPT !.verified = TRUE]
        <3>1. /\ a \in Account /\ a.phone = account[c].phone
              /\ a.password = account[c].password
            BY <1>6 DEF Account
        <3>2. account' = [account EXCEPT ![c] = a]
            BY <1>4, <2>1 DEF ApplyCode
        <3> HIDE DEF a
        <3>3. QED
            BY <2>1, <3>1, <3>2
    <2>2. CASE codeCall[h].op # "verify"
        <3> DEFINE a == [account[c] EXCEPT !.password = codeCall[h].op]
        <3>1. /\ a \in Account /\ a.phone = account[c].phone
              /\ a.verified = account[c].verified /\ a.password = codeCall[h].op
            BY <1>5, <1>6, <2>2 DEF Account
        <3>2. account' = [account EXCEPT ![c] = a]
            BY <1>4, <2>2 DEF ApplyCode
        <3> HIDE DEF a
        <3>3. QED
            BY <2>2, <3>1, <3>2
    <2>3. QED
        BY <2>1, <2>2
<1>8. had' = had
    BY DEF ApplyCode
<1>9. account' \in [Clients -> Account] /\ AccountsAreEarned' /\ PhonesNoted'
    BY <1>1, <1>2, <1>5, <1>7, <1>8, AccountWrites DEF PhonesNoted
<1>10. codeCall' \in [Handlers -> CodeCall] /\ CodeCallsFit'
    BY <1>1, <1>2, HandlerEnds DEF ApplyCode
<1>11. QED
    BY <1>1, <1>9, <1>10 DEF CodesInv, CodesTypeOK, ApplyCode

LEMMA CodeCallFailsHolds ==
    ASSUME CodesInv, NEW h \in Handlers, CodeCallFails(h)
    PROVE  CodesInv'
<1>1. CodesTypeOK /\ CodeCallsFit /\ AccountsAreEarned /\ PhonesNoted
    BY DEF CodesInv
<1>2. CodesKept
    BY SameCodesKept DEF CodeCallFails
<1>3. codeCall' \in [Handlers -> CodeCall] /\ CodeCallsFit'
    BY <1>1, <1>2, HandlerEnds DEF CodeCallFails
<1>4. AccountsAreEarned' /\ PhonesNoted'
    BY <1>1, <1>2, EarnedStays DEF CodeCallFails
<1>5. QED
    BY <1>1, <1>3, <1>4 DEF CodesInv, CodesTypeOK, CodeCallFails

LEMMA CodesSteps == ASSUME CodesInv, [CodesNext]_codesVars PROVE CodesInv'
<1>1. CASE UNCHANGED codesVars
    <2>1. UNCHANGED <<account, codes, codeCall, had>>
        BY <1>1 DEF codesVars
    <2>2. CodesTypeOK' /\ AccountsAreEarned' /\ PhonesNoted'
        BY <2>1 DEF CodesInv, CodesTypeOK, AccountsAreEarned, PhonesNoted, Spent
    <2>3. CodeCallsFit'
        BY <2>1 DEF CodesInv, CodeCallsFit, CodeCallFits, Spent, ClientSpent
    <2>4. QED
        BY <2>2, <2>3 DEF CodesInv
<1>2. CASE \E c \in Clients, p \in Phones : AddClient(c, p) \/ ChangePhone(c, p)
    BY <1>2, PhoneHolds
<1>3. CASE CodeExpires
    BY <1>3, CodeExpiresHolds
<1>4. ASSUME NEW h \in Handlers,
             \/ \E p \in Phones : Register(h, p) \/ ForgotPassword(h, p)
             \/ \E c \in Clients : ChangePassword(h, c)
      PROVE  CodesInv'
    BY <1>4, StartsHolds DEF Register, ForgotPassword, ChangePassword, RowsOf
<1>5. ASSUME NEW h \in Handlers,
             \/ RegisterUpdate(h)
             \/ RegisterInsert(h)
             \/ SendOtp(h)
             \/ CompareCode(h)
             \/ FindClient(h)
             \/ ApplyCode(h)
             \/ CodeCallFails(h)
      PROVE  CodesInv'
    BY <1>5, RegisterUpdateHolds, RegisterInsertHolds, SendOtpHolds, CompareCodeHolds,
       FindClientHolds, ApplyCodeHolds, CodeCallFailsHolds
<1>6. ASSUME NEW h \in Handlers, NEW op \in {"verify", "reset"}, NEW p \in Phones,
             NEW purpose \in Purposes, NEW right \in BOOLEAN,
             FindCode(h, op, p, purpose, right)
      PROVE  CodesInv'
    BY <1>6, FindCodeHolds
<1>7. QED
    BY <1>1, <1>2, <1>3, <1>4, <1>5, <1>6 DEF CodesNext

-----------------------------------------------------------------------------
(* The limit. A call that compares a code counts before it moves a counter; *)
(* a code takes no new calls once it is spent or tried out.                *)

Comparing(i) == {h \in Handlers : codeCall[h].step = "compare" /\ codeCall[h].code = i}
RowIsLimited(c, pending) ==
    /\ c.status = "live" => c.uses = 0
    /\ c.uses + pending <= Cardinality(Handlers)
    /\ c.attempts + pending < MaxAttempts + Cardinality(Handlers)
Limits == \A i \in DOMAIN codes : RowIsLimited(codes[i], Cardinality(Comparing(i)))

LEMMA CallsCount ==
    ASSUME NEW S \in SUBSET Handlers
    PROVE  /\ IsFiniteSet(S) /\ Cardinality(S) \in Nat /\ Cardinality(Handlers) \in Nat
           /\ Cardinality(S) <= Cardinality(Handlers)
BY CodesAssumption, FS_Subset, FS_CardinalityType

LEMMA RowTypes ==
    ASSUME CodesTypeOK, NEW i \in DOMAIN codes
    PROVE  codes[i].attempts \in Nat /\ codes[i].uses \in Nat /\ codes[i] \in Code
<1>1. codes[i] \in Code
    BY DEF CodesTypeOK
<1>2. QED
    BY <1>1 DEF Code

\* Fewer calls compare a code that counts the same.
LEMMA FewerLimited ==
    ASSUME NEW S \in SUBSET Handlers, NEW T \in SUBSET S, NEW c \in Code, NEW d \in Code,
           RowIsLimited(c, Cardinality(S)),
           d.attempts = c.attempts, d.uses = c.uses,
           d.status = "live" => c.status = "live"
    PROVE  RowIsLimited(d, Cardinality(T))
<1>1. Cardinality(S) \in Nat /\ Cardinality(T) \in Nat /\ Cardinality(T) <= Cardinality(S)
    BY CallsCount, FS_Subset
<1>2. Cardinality(Handlers) \in Nat /\ MaxAttempts \in Nat
    BY CallsCount, CodesAssumption
<1>3. c.attempts \in Nat /\ c.uses \in Nat
    BY DEF Code
<1>4. QED
    BY <1>1, <1>2, <1>3 DEF RowIsLimited

\* Steps that neither find nor compare a code.
LEMMA LimitsStay ==
    ASSUME CodesTypeOK, CodesTypeOK', Limits,
           DOMAIN codes' = DOMAIN codes,
           \A i \in DOMAIN codes :
              /\ codes'[i].attempts = codes[i].attempts
              /\ codes'[i].uses = codes[i].uses
              /\ codes'[i].status = "live" => codes[i].status = "live",
           \A i \in DOMAIN codes : Comparing(i)' \subseteq Comparing(i)
    PROVE  Limits'
<1>1. ASSUME NEW i \in DOMAIN codes'
      PROVE  RowIsLimited(codes[i], Cardinality(Comparing(i)))'
    <2>1. RowIsLimited(codes[i], Cardinality(Comparing(i)))
        BY <1>1 DEF Limits
    <2>2. codes[i] \in Code /\ codes'[i] \in Code
        BY <1>1, RowTypes DEF CodesTypeOK
    <2>3. Comparing(i) \in SUBSET Handlers /\ Comparing(i)' \in SUBSET Comparing(i)
        BY <1>1 DEF Comparing
    <2>4. RowIsLimited(codes'[i], Cardinality(Comparing(i)'))
        BY <1>1, <2>1, <2>2, <2>3, FewerLimited
    <2>5. QED
        BY <2>4 DEF RowIsLimited
<1>2. QED
    BY <1>1 DEF Limits

LEMMA EndsComparing ==
    ASSUME CodesTypeOK, NEW h \in Handlers, NEW call, call.step # "compare",
           CodeCallIs(h, call), NEW i
    PROVE  Comparing(i)' = Comparing(i) \ {h}
<1>1. \A g \in Handlers : codeCall'[g] = IF g = h THEN call ELSE codeCall[g]
    BY DEF CodesTypeOK, CodeCallIs
<1>2. QED
    BY <1>1 DEF Comparing

LEMMA SendOtpLimits ==
    ASSUME CodesInv, CodesInv', Limits, NEW h \in Handlers, SendOtp(h)
    PROVE  Limits'
<1>1. CodesTypeOK /\ CodesTypeOK'
    BY DEF CodesInv
<1>2. PICK c : codes' = Append(codes, c) /\ c.status = "live" /\ c.attempts = 0 /\ c.uses = 0
    BY DEF SendOtp
<1>3. \A i : Comparing(i)' = Comparing(i) \ {h}
    BY <1>1, NoCodeCallFits, EndsComparing DEF SendOtp, CodeCallEnds
<1>4. ASSUME NEW i \in DOMAIN codes'
      PROVE  RowIsLimited(codes[i], Cardinality(Comparing(i)))'
    <2>1. /\ Comparing(i) \in SUBSET Handlers
          /\ Comparing(i)' \in SUBSET Comparing(i)
          /\ Comparing(i)' \in SUBSET Handlers
        BY <1>3 DEF Comparing
    <2>2. codes'[i] \in Code
        BY <1>1, <1>4 DEF CodesTypeOK
    <2>3. CASE i \in DOMAIN codes
        <3>1. codes'[i] = codes[i] /\ codes[i] \in Code
            BY <1>1, <1>2, <2>3, RowTypes DEF CodesTypeOK
        <3>2. RowIsLimited(codes'[i], Cardinality(Comparing(i)'))
            BY <2>1, <2>3, <3>1, FewerLimited DEF Limits
        <3>3. QED
            BY <3>2 DEF RowIsLimited
    <2>4. CASE i \notin DOMAIN codes
        <3>1. codes'[i] = c
            BY <1>1, <1>2, <1>4, <2>4 DEF CodesTypeOK
        <3>2. /\ Cardinality(Comparing(i)') \in Nat /\ Cardinality(Handlers) \in Nat
              /\ Cardinality(Comparing(i)') <= Cardinality(Handlers)
            BY <2>1, CallsCount
        <3>3. QED
            BY <1>2, <3>1, <3>2, CodesAssumption DEF RowIsLimited
    <2>5. QED
        BY <2>3, <2>4
<1>5. QED
    BY <1>4 DEF Limits

LEMMA FindCodeLimits ==
    ASSUME CodesInv, Limits, NEW h \in Handlers, NEW op \in {"verify", "reset"},
           NEW p \in Phones, NEW purpose \in Purposes, NEW right \in BOOLEAN,
           FindCode(h, op, p, purpose, right)
    PROVE  Limits'
<1>1. CodesTypeOK
    BY DEF CodesInv
<1>2. PICK n \in DOMAIN codes :
          /\ IsLatest(n, p, purpose) /\ TriesLeft(codes[n])
          /\ CodeCallIs(h, [op |-> op, step |-> "compare", phone |-> p,
                            client |-> None, code |-> n, right |-> right])
    BY DEF FindCode
<1>3. codes' = codes /\ codeCall[h] = NoCodeCall
    BY DEF FindCode
<1>4. ASSUME NEW i \in DOMAIN codes'
      PROVE  RowIsLimited(codes[i], Cardinality(Comparing(i)))'
    <2>1. codes[i] \in Code /\ codes[i].attempts \in Nat
        BY <1>1, <1>3, <1>4, RowTypes
    <2>2. Comparing(i) \in SUBSET Handlers /\ Comparing(i)' \in SUBSET Handlers
        BY DEF Comparing
    <2>3. CASE i = n
        <3>1. codes[i].status = "live" /\ codes[i].attempts < MaxAttempts
            BY <1>2, <2>3 DEF IsLatest, LiveCodes, TriesLeft
        <3>2. codes[i].uses = 0
            BY <1>3, <1>4, <3>1 DEF Limits, RowIsLimited
        <3>3. /\ Cardinality(Comparing(i)') \in Nat /\ Cardinality(Handlers) \in Nat
              /\ Cardinality(Comparing(i)') <= Cardinality(Handlers)
            BY <2>2, CallsCount
        <3>4. QED
            BY <1>3, <2>1, <3>1, <3>2, <3>3, CodesAssumption DEF RowIsLimited
    <2>4. CASE i # n
        <3>1. Comparing(i)' \in SUBSET Comparing(i)
            BY <1>1, <1>2, <2>4 DEF Comparing, CodeCallIs, CodesTypeOK
        <3>2. RowIsLimited(codes'[i], Cardinality(Comparing(i)'))
            BY <1>3, <1>4, <2>1, <2>2, <3>1, FewerLimited DEF Limits
        <3>3. QED
            BY <3>2 DEF RowIsLimited
    <2>5. QED
        BY <2>3, <2>4
<1>5. QED
    BY <1>4 DEF Limits

\* The call that compares a code counts and is pending no more.
LEMMA CompareCodeLimits ==
    ASSUME CodesInv, CodesInv', Limits, NEW h \in Handlers, CompareCode(h)
    PROVE  Limits'
<1>1. CodesTypeOK /\ CodesTypeOK' /\ CodeCallFits(codeCall[h]) /\ codeCall[h].step = "compare"
    BY DEF CodesInv, CodeCallsFit, CompareCode
<1>2. PICK n \in DOMAIN codes : n = codeCall[h].code
    BY <1>1 DEF CodeCallFits
<1>3. \/ codes' = [codes EXCEPT ![n] = Consumed(codes[n])]
      \/ codes' = [codes EXCEPT ![n] = TakesAnAttempt(codes[n])]
    BY <1>2 DEF CompareCode
<1>4. \A i : Comparing(i)' = Comparing(i) \ {h}
    <2>1. \/ CodeCallEnds(h)
          \/ CodeCallIs(h, [codeCall[h] EXCEPT !.step = "find", !.client = None])
        BY DEF CompareCode, AfterCode, CodeCallGoes
    <2>2. [codeCall[h] EXCEPT !.step = "find", !.client = None].step # "compare"
        BY <1>1 DEF CodesTypeOK, CodeCall
    <2>3. QED
        BY <1>1, <2>1, <2>2, NoCodeCallFits, EndsComparing DEF CodeCallEnds
<1>5. ASSUME NEW i \in DOMAIN codes'
      PROVE  RowIsLimited(codes[i], Cardinality(Comparing(i)))'
    <2>1. i \in DOMAIN codes /\ codes[i] \in Code /\ codes'[i] \in Code
        BY <1>1, <1>3, <1>5, RowTypes DEF CodesTypeOK
    <2>2. Comparing(i) \in SUBSET Handlers /\ Comparing(i)' \in SUBSET Comparing(i)
        BY <1>4 DEF Comparing
    <2>3. RowIsLimited(codes[i], Cardinality(Comparing(i)))
        BY <2>1 DEF Limits
    <2>4. CASE i = n
        <3>1. h \in Comparing(i)
            BY <1>1, <1>2, <2>4 DEF Comparing
        <3>2. /\ Cardinality(Comparing(i)') = Cardinality(Comparing(i)) - 1
              /\ Cardinality(Comparing(i)) \in Nat /\ Cardinality(Handlers) \in Nat
            BY <1>4, <2>2, <3>1, CallsCount, FS_RemoveElement
        <3>3. codes[i].attempts \in Nat /\ codes[i].uses \in Nat
            BY <2>1 DEF Code
        <3>4. CASE codes' = [codes EXCEPT ![n] = Consumed(codes[n])]
            <4>1. codes'[i] = Consumed(codes[i])
                BY <2>1, <2>4, <3>4
            <4>2. /\ codes'[i].status = "consumed"
                  /\ codes'[i].uses = codes[i].uses + 1
                  /\ codes'[i].attempts = codes[i].attempts
                BY <2>1, <4>1 DEF Consumed, Code
            <4>3. QED
                BY <2>3, <3>2, <3>3, <4>2, CodesAssumption DEF RowIsLimited
        <3>5. CASE codes' = [codes EXCEPT ![n] = TakesAnAttempt(codes[n])]
            <4>1. codes'[i] = TakesAnAttempt(codes[i])
                BY <2>1, <2>4, <3>5
            <4>2. /\ codes'[i].status = codes[i].status
                  /\ codes'[i].uses = codes[i].uses
                  /\ codes'[i].attempts = codes[i].attempts + 1
                BY <2>1, <4>1 DEF TakesAnAttempt, Code
            <4>3. QED
                BY <2>3, <3>2, <3>3, <4>2, CodesAssumption DEF RowIsLimited
        <3>6. QED
            BY <1>3, <3>4, <3>5
    <2>5. CASE i # n
        <3>1. codes'[i] = codes[i]
            BY <1>3, <2>1, <2>5
        <3>2. RowIsLimited(codes'[i], Cardinality(Comparing(i)'))
            BY <2>1, <2>2, <2>3, <3>1, FewerLimited
        <3>3. QED
            BY <3>2 DEF RowIsLimited
    <2>6. QED
        BY <2>4, <2>5
<1>6. QED
    BY <1>5 DEF Limits

LEMMA LimitsHold ==
    ASSUME CodesInv, CodesInv', Limits, [CodesNext]_codesVars
    PROVE  Limits'
<1>1. CodesTypeOK /\ CodesTypeOK' /\ codeCall \in [Handlers -> CodeCall]
    BY DEF CodesInv, CodesTypeOK
<1>2. \A i : Comparing(i) = Comparing(i) \cap Handlers
    BY DEF Comparing
<1>3. CASE UNCHANGED <<codes, codeCall>>
    BY <1>1, <1>3, LimitsStay DEF Comparing
<1>4. CASE CodeExpires
    <2>1. PICK n \in DOMAIN codes : codes' = [codes EXCEPT ![n].status = "expired"]
        BY <1>4 DEF CodeExpires
    <2>2. \A i \in DOMAIN codes : codes[i] \in Code
        BY <1>1, RowTypes
    <2>3. DOMAIN codes' = DOMAIN codes
        BY <2>1
    <2>4. \A i \in DOMAIN codes :
              /\ codes'[i].attempts = codes[i].attempts
              /\ codes'[i].uses = codes[i].uses
              /\ codes'[i].status = "live" => codes[i].status = "live"
        BY <2>1, <2>2 DEF Code
    <2>5. \A i : Comparing(i)' = Comparing(i)
        BY <1>4 DEF CodeExpires, Comparing
    <2>6. QED
        BY <1>1, <2>3, <2>4, <2>5, LimitsStay
<1>5. ASSUME NEW h \in Handlers, NEW call, call.step # "compare", CodeCallIs(h, call),
             UNCHANGED codes
      PROVE  Limits'
    <2>1. \A i : Comparing(i)' \subseteq Comparing(i)
        BY <1>1, <1>5, EndsComparing
    <2>2. QED
        BY <1>1, <1>5, <2>1, LimitsStay
<1>6. ASSUME NEW h \in Handlers,
             \/ \E p \in Phones : Register(h, p) \/ ForgotPassword(h, p)
             \/ \E c \in Clients : ChangePassword(h, c)
      PROVE  Limits'
    <2>1. PICK op, step, p, c :
              step \in {"write", "send", "apply"} /\ Starts(h, op, step, p, c)
        BY <1>6 DEF Register, ForgotPassword, ChangePassword
    <2>2. [NoCodeCall EXCEPT !.op = op, !.step = step, !.phone = p, !.client = c].step = step
        BY DEF NoCodeCall
    <2>3. QED
        BY <1>5, <2>1, <2>2 DEF Starts
<1>7. ASSUME NEW h \in Handlers,
             \/ RegisterUpdate(h) \/ RegisterInsert(h) \/ FindClient(h)
             \/ ApplyCode(h) \/ CodeCallFails(h)
      PROVE  Limits'
    <2>1. /\ \A c : [codeCall[h] EXCEPT !.step = "send", !.client = c].step = "send"
          /\ \A c : [codeCall[h] EXCEPT !.step = "apply", !.client = c].step = "apply"
        BY <1>1 DEF CodeCall
    <2>2. NoCodeCall.step # "compare"
        BY NoCodeCallFits
    <2>3. codes' = codes
        BY <1>7 DEF RegisterUpdate, RegisterInsert, FindClient, ApplyCode, CodeCallFails
    <2>4. CASE CodeCallEnds(h)
        BY <1>5, <2>2, <2>3, <2>4 DEF CodeCallEnds
    <2>5. ASSUME NEW c, CodeCallGoes(h, "send", c) \/ CodeCallGoes(h, "apply", c)
          PROVE  Limits'
        BY <1>5, <2>1, <2>3, <2>5 DEF CodeCallGoes
    <2>6. QED
        BY <1>7, <2>4, <2>5
        DEF RegisterUpdate, RegisterInsert, FindClient, ApplyCode, CodeCallFails
<1>8. CASE \E c \in Clients, p \in Phones : AddClient(c, p) \/ ChangePhone(c, p)
    BY <1>3, <1>8 DEF AddClient, ChangePhone
<1>9. CASE UNCHANGED codesVars
    BY <1>3, <1>9 DEF codesVars
<1>10. QED
    BY <1>4, <1>6, <1>7, <1>8, <1>9, SendOtpLimits, FindCodeLimits, CompareCodeLimits
    DEF CodesNext

-----------------------------------------------------------------------------
(* Theorems.                                                               *)

\* The invariant holds of every behaviour: register, forgotPassword, sendOtp,
\* verifyOtp, resetPassword, consumeOtp and changePassword in any order, from any
\* number of requests at once, while staff add clients and change their phones.
THEOREM CodesInvariance == CodesSpec => []CodesInv
<1>1. CodesInv /\ [CodesNext]_codesVars => CodesInv'
    BY CodesSteps
<1>2. QED
    BY CodesStart, <1>1, PTL DEF CodesSpec

\* The rows of clients and otp_codes, and the calls about them, keep their form.
THEOREM CodesTypeCorrect == CodesSpec => []CodesTypeOK
<1>1. CodesInv => CodesTypeOK
    BY DEF CodesInv
<1>2. QED
    BY CodesInvariance, <1>1, PTL

\* verifyOtp makes a client verified, and resetPassword sets a password, only after
\* consumeOtp has used up a code for just that, sent to a phone that the client has
\* or had: whoever takes the phone over, and whatever staff make of his, between
\* the code, the look-up of the phone and the write.
THEOREM CodesEarnAccounts == CodesSpec => []AccountsAreEarned
<1>1. CodesInv => AccountsAreEarned
    BY DEF CodesInv
<1>2. QED
    BY CodesInvariance, <1>1, PTL

\* Guesses in flight together, which all read the counter before any of them moved it,
\* exceed the limit of consumeOtp by less than their number, and use a code up no
\* more often than that.
THEOREM CodesLimited == CodesSpec => []CodesAreLimited
<1>1. CodesInit => Limits
    BY DEF CodesInit, Limits
<1>2. CodesInv /\ CodesInv' /\ Limits /\ [CodesNext]_codesVars => Limits'
    BY LimitsHold
<1>3. CodesInv /\ Limits => CodesAreLimited
    <2> SUFFICES ASSUME CodesInv, Limits, NEW i \in DOMAIN codes
                 PROVE  /\ codes[i].attempts < MaxAttempts + Cardinality(Handlers)
                        /\ codes[i].uses <= Cardinality(Handlers)
        BY DEF CodesAreLimited
    <2>1. codes[i].attempts \in Nat /\ codes[i].uses \in Nat
        BY RowTypes DEF CodesInv
    <2>2. Cardinality(Comparing(i)) \in Nat /\ Cardinality(Handlers) \in Nat
        BY CallsCount DEF Comparing
    <2>3. RowIsLimited(codes[i], Cardinality(Comparing(i)))
        BY DEF Limits
    <2>4. QED
        BY <2>1, <2>2, <2>3, CodesAssumption DEF RowIsLimited
<1>4. QED
    BY CodesInvariance, <1>1, <1>2, <1>3, PTL DEF CodesSpec

-----------------------------------------------------------------------------
(* Sessions: the inductive invariant.                                      *)

\* A call exchanges a token of its own kind; a staff token that it is past spending
\* is out of Redis. Clients claim no role.
TokenCallFits(call) ==
    /\ call.parent # 0 =>
          /\ call.parent \in DOMAIN token
          /\ token[call.parent].type = call.type
          /\ call.type = "staff" /\ call.step # "spend" => ~token[call.parent].stored
    /\ call.type = "client" => call.claim \in {"trip", "none"}
    /\ call.step = "spend" => call.parent # 0

\* So is one that was exchanged.
TokenFits(t) ==
    /\ t.parent # 0 =>
          /\ t.parent \in DOMAIN token
          /\ token[t.parent].type = t.type
          /\ t.type = "staff" => ~token[t.parent].stored
    /\ t.type = "client" => t.claim \in {"trip", "none"}

TokenCallsFit == \A h \in Handlers : TokenCallFits(tokenCall[h])
TokensFit == \A n \in DOMAIN token : TokenFits(token[n])
ClaimsFit == \A h \in Handlers : tokenCall[h].step = "issue" => tokenCall[h].claim \in seen[h]

Successors(n) == {m \in DOMAIN token : token[m].parent = n}
Users(n) == {h \in Handlers : tokenCall[h].type = "staff" /\ tokenCall[h].parent = n}
Rotation ==
    \A n \in DOMAIN token : token[n].type = "staff" =>
        Cardinality(Successors(n)) + Cardinality(Users(n)) <= Cardinality(Handlers)

SessionsInv == SessionsTypeOK /\ TokenCallsFit /\ TokensFit /\ ClaimsFit /\ Rotation

-----------------------------------------------------------------------------
(* Lemmas.                                                                 *)

LEMMA SessionTypes ==
    ASSUME SessionsInv
    PROVE  /\ staff \in Staff /\ tripStatus \in {"active", "completed", "cancelled"}
           /\ token \in Seq(Token) /\ Len(token) <= MaxTokens /\ Len(token) \in Nat
           /\ DOMAIN token = 1 .. Len(token)
           /\ \A n \in DOMAIN token : token[n] \in Token /\ TokenFits(token[n]) /\ n # 0
           /\ tokenCall \in [Handlers -> TokenCall]
           /\ \A h \in Handlers : tokenCall[h] \in TokenCall /\ TokenCallFits(tokenCall[h])
           /\ seen \in [Handlers -> SUBSET Claims]
BY DEF SessionsInv, SessionsTypeOK, TokenCallsFit, TokensFit

LEMMA NoTokenCallFits ==
    /\ NoTokenCall \in TokenCall /\ NoTokenCall.step = "idle" /\ NoTokenCall.parent = 0
    /\ NoTokenCall.type = "client" /\ NoTokenCall.claim = "none"
BY SessionsAssumption DEF NoTokenCall, TokenCall, Claims

LEMMA TruthIsClaims ==
    ASSUME staff \in Staff
    PROVE  Truth \in SUBSET Claims
BY DEF Truth, Claims, Staff

\* What every step leaves of the tokens.
TokensKept ==
    /\ DOMAIN token \subseteq DOMAIN token'
    /\ \A n \in DOMAIN token :
          /\ token'[n].type = token[n].type /\ token'[n].parent = token[n].parent
          /\ token'[n].claim = token[n].claim
          /\ token'[n].stored => token[n].stored

LEMMA HandlersCount ==
    ASSUME NEW S \in SUBSET Handlers
    PROVE  /\ IsFiniteSet(S) /\ Cardinality(S) \in Nat /\ Cardinality(Handlers) \in Nat
           /\ Cardinality(S) <= Cardinality(Handlers)
BY SessionsAssumption, FS_Subset, FS_CardinalityType

LEMMA SuccessorsCount ==
    ASSUME SessionsTypeOK, NEW n
    PROVE  IsFiniteSet(Successors(n)) /\ Cardinality(Successors(n)) \in Nat
<1>1. IsFiniteSet(1 .. Len(token)) /\ DOMAIN token = 1 .. Len(token)
    BY FS_Interval DEF SessionsTypeOK
<1>2. Successors(n) \in SUBSET (1 .. Len(token))
    BY <1>1 DEF Successors
<1>3. QED
    BY <1>1, <1>2, FS_Subset, FS_CardinalityType

\* What the history sees of a step.
LEMMA SeenGrows ==
    ASSUME SessionsInv, Witnessed, staff' \in Staff, NEW g \in Handlers
    PROVE  /\ seen' \in [Handlers -> SUBSET Claims]
           /\ tokenCall'[g] = tokenCall[g] /\ tokenCall[g].step = "issue" =>
                 seen[g] \subseteq seen'[g]
           /\ tokenCall'[g].step = "issue" /\ UNCHANGED <<staff, tripStatus>> =>
                 Truth \subseteq seen'[g]
<1>1. Truth \in SUBSET Claims
    BY SessionTypes, TruthIsClaims
<1>2. Truth' \in SUBSET Claims
    BY DEF Truth, Claims, Staff
<1>3. UNCHANGED <<staff, tripStatus>> => Truth' = Truth
    BY DEF Truth
<1>4. \A h \in Handlers : seen[h] \in SUBSET Claims
    BY SessionTypes
<1>5. \A h \in Handlers :
          /\ tokenCall'[h] = NoTokenCall => seen'[h] = {}
          /\ Free(h) /\ tokenCall'[h] # NoTokenCall => seen'[h] = Truth
          /\ ~Free(h) /\ tokenCall'[h] # NoTokenCall => seen'[h] = seen[h] \cup Truth'
    BY DEF Witnessed
<1>6. seen' \in [Handlers -> SUBSET Claims]
    <2>1. \A h \in Handlers : seen'[h] \in SUBSET Claims
        BY <1>1, <1>2, <1>4, <1>5
    <2>2. seen' = [h \in Handlers |-> seen'[h]]
        BY DEF Witnessed
    <2>3. QED
        BY <2>1, <2>2
<1>7. tokenCall[g].step = "issue" => ~Free(g)
    BY NoTokenCallFits DEF Free
<1>8. tokenCall'[g].step = "issue" => tokenCall'[g] # NoTokenCall
    BY NoTokenCallFits
<1>9. QED
    BY <1>3, <1>5, <1>6, <1>7, <1>8

\* One handler takes up a call that fits; the others' calls still do.
LEMMA TokenCallMoves ==
    ASSUME SessionsInv, TokensKept, Witnessed, UNCHANGED <<staff, tripStatus>>,
           NEW h \in Handlers, NEW call \in TokenCall, TokenCallIs(h, call),
           call.parent # 0 =>
              /\ call.parent \in DOMAIN token'
              /\ token'[call.parent].type = call.type
              /\ call.type = "staff" /\ call.step # "spend" => ~token'[call.parent].stored,
           call.type = "client" => call.claim \in {"trip", "none"},
           call.step = "spend" => call.parent # 0,
           call.step = "issue" => call.claim \in Truth
    PROVE  /\ tokenCall' \in [Handlers -> TokenCall]
           /\ seen' \in [Handlers -> SUBSET Claims]
           /\ TokenCallsFit' /\ ClaimsFit'
<1>1. /\ tokenCall' \in [Handlers -> TokenCall]
      /\ \A g \in Handlers : tokenCall'[g] = IF g = h THEN call ELSE tokenCall[g]
    BY SessionTypes DEF TokenCallIs
<1>2. ASSUME NEW g \in Handlers
      PROVE  TokenCallFits(tokenCall[g])'
    <2>1. CASE g = h
        BY <1>1, <2>1 DEF TokenCallFits
    <2>2. CASE g # h
        BY <1>1, <2>2, SessionTypes DEF TokenCallFits, TokensKept
    <2>3. QED
        BY <2>1, <2>2
<1>3. ASSUME NEW g \in Handlers, tokenCall'[g].step = "issue"
      PROVE  tokenCall'[g].claim \in seen'[g]
    <2>1. CASE g = h
        BY <1>1, <1>3, <2>1, SeenGrows, SessionTypes
    <2>2. CASE g # h
        BY <1>1, <1>3, <2>2, SeenGrows, SessionTypes DEF SessionsInv, ClaimsFit
    <2>3. QED
        BY <2>1, <2>2
<1>4. seen' \in [Handlers -> SUBSET Claims]
    BY SeenGrows, SessionTypes
<1>5. QED
    BY <1>1, <1>2, <1>3, <1>4 DEF TokenCallsFit, ClaimsFit

\* No handler does.
LEMMA TokenCallsWait ==
    ASSUME SessionsInv, TokensKept, Witnessed, UNCHANGED tokenCall, staff' \in Staff
    PROVE  seen' \in [Handlers -> SUBSET Claims] /\ TokenCallsFit' /\ ClaimsFit'
<1>1. TokenCallsFit'
    BY SessionTypes DEF TokenCallsFit, TokenCallFits, TokensKept
<1>2. ClaimsFit'
    BY SeenGrows, SessionTypes DEF SessionsInv, ClaimsFit
<1>3. seen' \in [Handlers -> SUBSET Claims]
    <2>1. CASE Handlers = {}
        BY <2>1 DEF Witnessed
    <2>2. CASE Handlers # {}
        BY <2>2, SeenGrows
    <2>3. QED
        BY <2>1, <2>2
<1>4. QED
    BY <1>1, <1>2, <1>3

LEMMA SameTokens ==
    ASSUME SessionsInv, UNCHANGED token
    PROVE  token' \in Seq(Token) /\ Len(token') <= MaxTokens /\ TokensKept /\ TokensFit'
BY SessionTypes DEF SessionsInv, TokensKept, TokensFit, TokenFits

\* A token is taken out of Redis.
LEMMA TokenSpent ==
    ASSUME SessionsInv, NEW n \in DOMAIN token, token' = Unstored(n)
    PROVE  /\ token' \in Seq(Token) /\ Len(token') <= MaxTokens
           /\ TokensKept /\ TokensFit' /\ DOMAIN token' = DOMAIN token
           /\ ~token'[n].stored
<1>1. PICK t : t = [token[n] EXCEPT !.stored = FALSE]
    OBVIOUS
<1>2. token[n] \in Token
    BY SessionTypes
<1>3. /\ t \in Token /\ t.type = token[n].type /\ t.claim = token[n].claim
      /\ t.parent = token[n].parent /\ ~t.stored
    BY <1>1, <1>2 DEF Token
<1>4. token' = [token EXCEPT ![n] = t]
    BY <1>1 DEF Unstored
<1>5. /\ token' \in Seq(Token) /\ Len(token') = Len(token) /\ DOMAIN token' = DOMAIN token
      /\ \A m \in DOMAIN token : token'[m] = IF m = n THEN t ELSE token[m]
    BY <1>3, <1>4, SessionTypes
<1>6. TokensKept
    BY <1>3, <1>5 DEF TokensKept
<1>7. TokensFit'
    BY <1>5, <1>6, SessionTypes DEF TokensFit, TokenFits, TokensKept
<1>8. QED
    BY <1>3, <1>5, <1>6, <1>7, SessionTypes

\* A step that neither exchanges nor issues a token.
LEMMA RotationStays ==
    ASSUME SessionsInv, SessionsTypeOK', TokensKept, DOMAIN token' = DOMAIN token,
           \A n \in DOMAIN token : Users(n)' \subseteq Users(n)
    PROVE  Rotation'
<1>1. ASSUME NEW n \in DOMAIN token, token[n].type = "staff"
      PROVE  Cardinality(Successors(n)') + Cardinality(Users(n)') <= Cardinality(Handlers)
    <2>1. Successors(n)' = Successors(n)
        BY DEF TokensKept, Successors
    <2>2. Users(n) \in SUBSET Handlers /\ Users(n)' \in SUBSET Users(n)
        BY <1>1 DEF Users
    <2>3. /\ Cardinality(Users(n)) \in Nat /\ Cardinality(Users(n)') \in Nat
          /\ Cardinality(Users(n)') <= Cardinality(Users(n))
          /\ Cardinality(Handlers) \in Nat
        BY <2>2, HandlersCount, FS_Subset
    <2>4. Cardinality(Successors(n)) \in Nat
        BY SuccessorsCount DEF SessionsInv
    <2>5. Cardinality(Successors(n)) + Cardinality(Users(n)) <= Cardinality(Handlers)
        BY <1>1 DEF SessionsInv, Rotation
    <2>6. QED
        BY <2>1, <2>3, <2>4, <2>5
<1>2. QED
    BY <1>1 DEF Rotation, TokensKept

-----------------------------------------------------------------------------
(* The steps.                                                              *)

LEMMA SessionsStart == SessionsInit => SessionsInv
<1> SUFFICES ASSUME SessionsInit PROVE SessionsInv
    OBVIOUS
<1>1. SessionsTypeOK
    <2>1. staff \in Staff
        BY DEF SessionsInit, Staff
    <2>2. token \in Seq(Token) /\ Len(token) <= MaxTokens
        BY SessionsAssumption DEF SessionsInit
    <2>3. QED
        BY <2>1, <2>2, NoTokenCallFits DEF SessionsInit, SessionsTypeOK
<1>2. TokenCallsFit /\ ClaimsFit
    BY NoTokenCallFits DEF SessionsInit, TokenCallsFit, TokenCallFits, ClaimsFit
<1>3. TokensFit /\ Rotation
    BY DEF SessionsInit, TokensFit, Rotation
<1>4. QED
    BY <1>1, <1>2, <1>3 DEF SessionsInv

\* One handler moves while the tokens stay, or the one it exchanges is spent, and it
\* comes to use no other.
LEMMA TokenCallStep ==
    ASSUME SessionsInv, Witnessed, UNCHANGED <<staff, tripStatus>>,
           token' \in Seq(Token), Len(token') <= MaxTokens, TokensKept, TokensFit',
           DOMAIN token' = DOMAIN token,
           NEW h \in Handlers, NEW call \in TokenCall, TokenCallIs(h, call),
           call.parent # 0 => call.parent = tokenCall[h].parent /\ call.type = tokenCall[h].type,
           call.parent # 0 /\ call.type = "staff" /\ call.step # "spend" =>
              ~token'[call.parent].stored,
           call.type = "client" => call.claim \in {"trip", "none"},
           call.step = "spend" => call.parent # 0,
           call.step = "issue" => call.claim \in Truth
    PROVE  SessionsInv'
<1>1. tokenCall[h] \in TokenCall /\ TokenCallFits(tokenCall[h])
    BY SessionTypes
<1>2. call.parent # 0 =>
         /\ call.parent \in DOMAIN token'
         /\ token'[call.parent].type = call.type
         /\ call.type = "staff" /\ call.step # "spend" => ~token'[call.parent].stored
    BY <1>1 DEF TokenCallFits, TokensKept
<1>3. /\ tokenCall' \in [Handlers -> TokenCall] /\ seen' \in [Handlers -> SUBSET Claims]
      /\ TokenCallsFit' /\ ClaimsFit'
    BY <1>2, TokenCallMoves
<1>4. SessionsTypeOK'
    BY <1>3, SessionTypes DEF SessionsTypeOK
<1>5. \A n \in DOMAIN token : Users(n)' \subseteq Users(n)
    <2>1. \A g \in Handlers : tokenCall'[g] = IF g = h THEN call ELSE tokenCall[g]
        BY SessionTypes DEF TokenCallIs
    <2>2. QED
        BY <2>1, SessionTypes DEF Users
<1>6. QED
    BY <1>3, <1>4, <1>5, RotationStays DEF SessionsInv

LEMMA LoginHolds ==
    ASSUME SessionsInv, Witnessed, NEW h \in Handlers, StaffLogin(h) \/ ClientLogin(h)
    PROVE  SessionsInv'
<1>1. UNCHANGED <<staff, tripStatus, token>>
    BY DEF StaffLogin, ClientLogin
<1>2. PICK type \in {"staff", "client"}, claim \in Claims :
          /\ IssueNext(h, type, claim, 0)
          /\ claim \in Truth
          /\ type = "client" => claim = "trip"
    BY SessionTypes DEF StaffLogin, ClientLogin, Truth, Claims, Staff
<1>3. PICK call : call = [step |-> "issue", type |-> type, claim |-> claim, parent |-> 0]
    OBVIOUS
<1>4. /\ call \in TokenCall /\ call.step = "issue" /\ call.parent = 0
      /\ call.claim = claim /\ call.type = type
    BY <1>3, SessionsAssumption DEF TokenCall
<1>5. TokenCallIs(h, call)
    BY <1>2, <1>3 DEF IssueNext
<1>6. QED
    BY <1>1, <1>2, <1>4, <1>5, SameTokens, TokenCallStep

LEMMA SpendTokenHolds ==
    ASSUME SessionsInv, Witnessed, NEW h \in Handlers, SpendToken(h)
    PROVE  SessionsInv'
<1>1. PICK old \in TokenCall : old = tokenCall[h]
    BY SessionTypes
<1>2. TokenCallFits(old) /\ old.step = "spend" /\ old.type = "staff"
    BY <1>1, SessionTypes DEF SpendToken, AtStep
<1>3. old.parent \in DOMAIN token /\ token' = Unstored(old.parent)
    BY <1>1, <1>2 DEF TokenCallFits, SpendToken
<1>4. /\ token' \in Seq(Token) /\ Len(token') <= MaxTokens
      /\ TokensKept /\ TokensFit' /\ DOMAIN token' = DOMAIN token
      /\ ~token'[old.parent].stored
    BY <1>3, TokenSpent
<1>5. PICK call \in TokenCall : call = [old EXCEPT !.step = "check"]
    BY DEF TokenCall
<1>6. call.step = "check" /\ call.parent = old.parent /\ call.type = "staff"
    BY <1>2, <1>5 DEF TokenCall
<1>7. TokenCallIs(h, call) /\ UNCHANGED <<staff, tripStatus>>
    BY <1>1, <1>5 DEF SpendToken
<1>8. QED
    BY <1>1, <1>2, <1>4, <1>6, <1>7, TokenCallStep

LEMMA CheckHolds ==
    ASSUME SessionsInv, Witnessed, NEW h \in Handlers, CheckStaff(h) \/ CheckTrip(h)
    PROVE  SessionsInv'
<1>1. UNCHANGED <<staff, tripStatus, token>>
    BY DEF CheckStaff, CheckTrip
<1>2. PICK old \in TokenCall : old = tokenCall[h]
    BY SessionTypes
<1>3. TokenCallFits(old) /\ old.step = "check"
    BY <1>2, SessionTypes DEF CheckStaff, CheckTrip, AtStep
<1>4. CASE TokenCallEnds(h)
    BY <1>1, <1>4, NoTokenCallFits, SameTokens, TokenCallStep DEF TokenCallEnds
<1>5. CASE ~TokenCallEnds(h)
    <2>1. PICK claim \in Claims :
              /\ IssueNext(h, old.type, claim, old.parent)
              /\ claim \in Truth
              /\ old.type = "client" => claim \in {"trip", "none"}
        <3>1. CASE CheckStaff(h)
            BY <1>2, <1>5, <3>1, SessionTypes DEF CheckStaff, AtStep, RoleNow, Truth, Claims, Staff
        <3>2. CASE CheckTrip(h)
            <4>1. old.type = "client" /\ old.claim \in {"trip", "none"}
                BY <1>2, <1>3, <3>2 DEF CheckTrip, AtStep, TokenCallFits
            <4>2. PICK claim \in {"trip", "none"} :
                      /\ IssueNext(h, old.type, claim, old.parent)
                      /\ claim = "trip" => Eligible(tripStatus)
                BY <1>2, <3>2, <4>1 DEF CheckTrip
            <4>3. claim \in Truth /\ claim \in Claims
                BY <4>2 DEF Truth, Claims
            <4>4. QED
                BY <4>2, <4>3
        <3>3. QED
            BY <3>1, <3>2
    <2>2. PICK call : call = [step |-> "issue", type |-> old.type, claim |-> claim,
                              parent |-> old.parent]
        OBVIOUS
    <2>3. /\ call \in TokenCall /\ call.step = "issue" /\ call.parent = old.parent
          /\ call.claim = claim /\ call.type = old.type
        BY <2>2 DEF TokenCall
    <2>4. TokenCallIs(h, call)
        BY <2>1, <2>2 DEF IssueNext
    <2>5. call.parent # 0 /\ call.type = "staff" => ~token'[call.parent].stored
        BY <1>1, <1>3, <2>3 DEF TokenCallFits
    <2>6. QED
        BY <1>1, <1>2, <2>1, <2>3, <2>4, <2>5, SameTokens, TokenCallStep
<1>6. QED
    BY <1>4, <1>5

LEMMA TokenCallFailsHolds ==
    ASSUME SessionsInv, Witnessed, NEW h \in Handlers, TokenCallFails(h)
    PROVE  SessionsInv'
BY NoTokenCallFits, SameTokens, TokenCallStep DEF TokenCallFails, TokenCallEnds

\* Only a token in Redis is taken up, and it has no successors yet.
LEMMA RefreshHolds ==
    ASSUME SessionsInv, Witnessed, NEW h \in Handlers, NEW n \in DOMAIN token, Refresh(h, n)
    PROVE  SessionsInv'
<1>1. UNCHANGED <<staff, tripStatus, token>> /\ Free(h)
      /\ (token[n].type = "staff" => token[n].stored)
    BY DEF Refresh
<1>2. token[n] \in Token /\ TokenFits(token[n]) /\ n # 0 /\ n \in 0 .. MaxTokens
    BY SessionTypes, SessionsAssumption
<1>3. PICK call : call = [step |-> IF token[n].type = "staff" THEN "spend" ELSE "check",
                          type |-> token[n].type, claim |-> token[n].claim, parent |-> n]
    OBVIOUS
<1>4. /\ call \in TokenCall /\ call.parent = n /\ call.type = token[n].type
      /\ call.claim = token[n].claim /\ call.step # "issue"
      /\ call.type = "staff" => call.step = "spend"
    BY <1>2, <1>3 DEF TokenCall, Token
<1>5. TokenCallIs(h, call)
    BY <1>3 DEF Refresh
<1>6. call.type = "client" => call.claim \in {"trip", "none"}
    BY <1>2, <1>4 DEF TokenFits
<1>7. /\ token' \in Seq(Token) /\ Len(token') <= MaxTokens /\ TokensKept /\ TokensFit'
    BY <1>1, SameTokens
<1>8. /\ tokenCall' \in [Handlers -> TokenCall] /\ seen' \in [Handlers -> SUBSET Claims]
      /\ TokenCallsFit' /\ ClaimsFit'
    BY <1>1, <1>2, <1>4, <1>5, <1>6, <1>7, TokenCallMoves
<1>9. SessionsTypeOK'
    BY <1>1, <1>7, <1>8, SessionTypes DEF SessionsTypeOK
<1>10. ASSUME NEW m \in DOMAIN token, token[m].type = "staff"
       PROVE  Cardinality(Successors(m)') + Cardinality(Users(m)') <= Cardinality(Handlers)
    <2>1. Successors(m)' = Successors(m)
        BY <1>1 DEF Successors
    <2>2. Users(m) \in SUBSET Handlers /\ Users(m)' \in SUBSET Handlers
        BY DEF Users
    <2>3. /\ Cardinality(Users(m)) \in Nat /\ Cardinality(Users(m)') \in Nat
          /\ Cardinality(Users(m)') <= Cardinality(Handlers)
          /\ Cardinality(Handlers) \in Nat
        BY <2>2, HandlersCount
    <2>4. CASE m = n
        <3>1. token[n].stored
            BY <1>1, <1>10, <2>4
        <3>2. Successors(m) = {}
            BY <1>10, <2>4, <3>1, SessionTypes DEF Successors, TokenFits
        <3>3. QED
            BY <2>1, <2>3, <3>2, FS_EmptySet
    <2>5. CASE m # n
        <3>1. Users(m)' \in SUBSET Users(m)
            BY <1>4, <1>5, <2>5, SessionTypes DEF Users, TokenCallIs
        <3>2. Cardinality(Users(m)') <= Cardinality(Users(m))
            BY <2>2, <3>1, HandlersCount, FS_Subset
        <3>3. Cardinality(Successors(m)) \in Nat
            BY SuccessorsCount DEF SessionsInv
        <3>4. Cardinality(Successors(m)) + Cardinality(Users(m)) <= Cardinality(Handlers)
            BY <1>10 DEF SessionsInv, Rotation
        <3>5. QED
            BY <2>1, <2>3, <3>2, <3>3, <3>4
    <2>6. QED
        BY <2>4, <2>5
<1>11. Rotation'
    BY <1>1, <1>10 DEF Rotation
<1>12. QED
    BY <1>7, <1>8, <1>9, <1>11 DEF SessionsInv

\* The call that issues a successor is counted as a successor from then on.
LEMMA IssueTokensHolds ==
    ASSUME SessionsInv, Witnessed, NEW h \in Handlers, IssueTokens(h)
    PROVE  SessionsInv'
<1>1. PICK old \in TokenCall : old = tokenCall[h]
    BY SessionTypes
<1>2. TokenCallFits(old) /\ old.step = "issue"
    BY <1>1, SessionTypes DEF IssueTokens
<1>3. PICK t : t = [type |-> old.type, claim |-> old.claim, stored |-> old.type = "staff",
                    parent |-> old.parent]
    OBVIOUS
<1>4. /\ t \in Token /\ t.type = old.type /\ t.claim = old.claim /\ t.parent = old.parent
    BY <1>3 DEF Token, TokenCall
<1>5. PICK m : m = Len(token) + 1
    OBVIOUS
<1>6. /\ token' = Append(token, t) /\ Len(token) < MaxTokens
      /\ TokenCallIs(h, NoTokenCall) /\ UNCHANGED <<staff, tripStatus>>
    BY <1>1, <1>3 DEF IssueTokens, TokenCallEnds
<1>7. /\ token' \in Seq(Token) /\ Len(token') <= MaxTokens
      /\ DOMAIN token' = DOMAIN token \cup {m} /\ m \notin DOMAIN token /\ m # 0
      /\ token'[m] = t /\ \A n \in DOMAIN token : token'[n] = token[n]
    BY <1>4, <1>5, <1>6, SessionTypes, SessionsAssumption
<1>8. TokensKept
    BY <1>7 DEF TokensKept
<1>9. TokensFit'
    <2>1. ASSUME NEW n \in DOMAIN token
          PROVE  TokenFits(token[n])'
        BY <1>7, SessionTypes DEF TokenFits
    <2>2. TokenFits(token[m])'
        BY <1>2, <1>4, <1>7 DEF TokenFits, TokenCallFits
    <2>3. QED
        BY <1>7, <2>1, <2>2 DEF TokensFit
<1>10. /\ tokenCall' \in [Handlers -> TokenCall] /\ seen' \in [Handlers -> SUBSET Claims]
       /\ TokenCallsFit' /\ ClaimsFit'
    BY <1>6, <1>8, NoTokenCallFits, TokenCallMoves
<1>11. SessionsTypeOK'
    BY <1>6, <1>7, <1>10, SessionTypes DEF SessionsTypeOK
<1>12. \A g \in Handlers : tokenCall'[g] = IF g = h THEN NoTokenCall ELSE tokenCall[g]
    BY <1>6, SessionTypes DEF TokenCallIs
<1>13. \A n : Users(n)' = Users(n) \ {h}
    BY <1>12, NoTokenCallFits DEF Users
<1>14. \A n : Successors(n)' = IF old.parent = n THEN Successors(n) \cup {m}
                                              ELSE Successors(n)
    BY <1>4, <1>7 DEF Successors
<1>15. ASSUME NEW n \in DOMAIN token, token[n].type = "staff"
       PROVE  Cardinality(Successors(n)') + Cardinality(Users(n)') <= Cardinality(Handlers)
    <2>1. Users(n) \in SUBSET Handlers
        BY DEF Users
    <2>2. /\ IsFiniteSet(Users(n)) /\ Cardinality(Users(n)) \in Nat
          /\ Cardinality(Handlers) \in Nat
        BY <2>1, HandlersCount
    <2>3. IsFiniteSet(Successors(n)) /\ Cardinality(Successors(n)) \in Nat
        BY SuccessorsCount DEF SessionsInv
    <2>4. Cardinality(Successors(n)) + Cardinality(Users(n)) <= Cardinality(Handlers)
        BY <1>15 DEF SessionsInv, Rotation
    <2>5. CASE old.parent = n
        <3>1. old.type = "staff"
            BY <1>2, <1>7, <1>15, <2>5, SessionTypes DEF TokenCallFits
        <3>2. h \in Users(n)
            BY <1>1, <2>5, <3>1 DEF Users
        <3>3. Cardinality(Users(n)') = Cardinality(Users(n)) - 1
            BY <1>13, <2>2, <3>2, FS_RemoveElement
        <3>4. m \notin Successors(n)
            BY <1>7 DEF Successors
        <3>5. Cardinality(Successors(n)') = Cardinality(Successors(n)) + 1
            BY <1>14, <2>3, <2>5, <3>4, FS_AddElement
        <3>6. QED
            BY <2>2, <2>3, <2>4, <3>3, <3>5
    <2>6. CASE old.parent # n
        <3>1. Successors(n)' = Successors(n)
            BY <1>14, <2>6
        <3>2. /\ Cardinality(Users(n)') \in Nat
              /\ Cardinality(Users(n)') <= Cardinality(Users(n))
            BY <1>13, <2>1, <2>2, HandlersCount, FS_Subset
        <3>3. QED
            BY <2>2, <2>3, <2>4, <3>1, <3>2
    <2>7. QED
        BY <2>5, <2>6
<1>16. Cardinality(Successors(m)') + Cardinality(Users(m)') <= Cardinality(Handlers)
    <2>1. Successors(m)' = {}
        <3>1. old.parent # m
            BY <1>2, <1>7 DEF TokenCallFits
        <3>2. Successors(m) = {}
            BY <1>7, SessionTypes DEF Successors, TokenFits
        <3>3. QED
            BY <1>14, <3>1, <3>2
    <2>2. Users(m)' \in SUBSET Handlers
        BY DEF Users
    <2>3. QED
        BY <2>1, <2>2, HandlersCount, FS_EmptySet
<1>17. Rotation'
    BY <1>7, <1>15, <1>16 DEF Rotation
<1>18. QED
    BY <1>9, <1>10, <1>11, <1>17 DEF SessionsInv

\* Logging out, and what staff change, moves no handler.
LEMMA WaitStep ==
    ASSUME SessionsInv, Witnessed, UNCHANGED tokenCall, staff' \in Staff,
           tripStatus' \in {"active", "completed", "cancelled"},
           token' \in Seq(Token), Len(token') <= MaxTokens, TokensKept, TokensFit',
           DOMAIN token' = DOMAIN token
    PROVE  SessionsInv'
<1>1. seen' \in [Handlers -> SUBSET Claims] /\ TokenCallsFit' /\ ClaimsFit'
    BY TokenCallsWait
<1>2. SessionsTypeOK'
    BY <1>1, SessionTypes DEF SessionsTypeOK
<1>3. \A n : Users(n)' = Users(n)
    BY DEF Users
<1>4. QED
    BY <1>1, <1>2, <1>3, RotationStays DEF SessionsInv

LEMMA LogoutHolds ==
    ASSUME SessionsInv, Witnessed, NEW n \in DOMAIN token, Logout(n)
    PROVE  SessionsInv'
BY TokenSpent, WaitStep, SessionTypes DEF Logout

LEMMA UpdatesHold ==
    ASSUME SessionsInv, Witnessed, UNCHANGED <<token, tokenCall>>, staff' \in Staff,
           tripStatus' \in {"active", "completed", "cancelled"}
    PROVE  SessionsInv'
BY SameTokens, WaitStep

LEMMA SessionsSteps == ASSUME SessionsInv, [SessionsNext]_sessionsVars PROVE SessionsInv'
<1>1. CASE UNCHANGED sessionsVars
    <2>1. UNCHANGED <<staff, tripStatus, token, tokenCall, seen>>
        BY <1>1 DEF sessionsVars
    <2>2. QED
        BY <2>1 DEF SessionsInv, SessionsTypeOK, TokenCallsFit, TokenCallFits,
           TokensFit, TokenFits, ClaimsFit, Rotation, Successors, Users
<1>2. CASE SessionsNext
    <2>1. Witnessed
        BY <1>2 DEF SessionsNext
    <2>2. ASSUME NEW h \in Handlers,
                 \/ IssueTokens(h)
                 \/ TokenCallFails(h)
                 \/ StaffLogin(h) \/ ClientLogin(h)
                 \/ SpendToken(h)
                 \/ CheckStaff(h) \/ CheckTrip(h)
          PROVE  SessionsInv'
        BY <2>1, <2>2, IssueTokensHolds, TokenCallFailsHolds, LoginHolds, SpendTokenHolds,
           CheckHolds
    <2>3. ASSUME NEW h \in Handlers, NEW n \in DOMAIN token, Refresh(h, n)
          PROVE  SessionsInv'
        BY <2>1, <2>3, RefreshHolds
    <2>4. ASSUME NEW n \in DOMAIN token, Logout(n)
          PROVE  SessionsInv'
        BY <2>1, <2>4, LogoutHolds
    <2>5. ASSUME NEW new \in Staff, UpdateStaff(new)
          PROVE  SessionsInv'
        BY <2>1, <2>5, UpdatesHold, SessionTypes DEF UpdateStaff
    <2>6. ASSUME NEW status \in {"active", "completed", "cancelled"}, UpdateTrip(status)
          PROVE  SessionsInv'
        BY <2>1, <2>6, UpdatesHold, SessionTypes DEF UpdateTrip
    <2>7. QED
        BY <1>2, <2>2, <2>3, <2>4, <2>5, <2>6
        DEF SessionsNext, StaffStep, GuestStep, TokenStep
<1>3. QED
    BY <1>1, <1>2

\* The only step that makes a token is IssueTokens.
NewClaimsWereTrue ==
    \A n \in DOMAIN token' \ DOMAIN token :
        \E h \in Handlers : /\ tokenCall[h].step = "issue"
                            /\ token'[n].claim \in seen[h]

LEMMA NewTokens ==
    ASSUME SessionsInv, [SessionsNext]_sessionsVars
    PROVE  NewClaimsWereTrue
<1>1. CASE DOMAIN token' = DOMAIN token
    BY <1>1 DEF NewClaimsWereTrue
<1>2. ASSUME NEW h \in Handlers, IssueTokens(h)
      PROVE  NewClaimsWereTrue
    <2>1. PICK t : /\ t.claim = tokenCall[h].claim
                   /\ token' = Append(token, t)
        BY <1>2 DEF IssueTokens
    <2>2. \A n \in DOMAIN token' \ DOMAIN token : token'[n] = t
        BY <2>1, SessionTypes
    <2>3. tokenCall[h].step = "issue" /\ tokenCall[h].claim \in seen[h]
        BY <1>2 DEF IssueTokens, SessionsInv, ClaimsFit
    <2>4. QED
        BY <2>1, <2>2, <2>3 DEF NewClaimsWereTrue
<1>3. ASSUME NEW n \in DOMAIN token, token' = Unstored(n)
      PROVE  NewClaimsWereTrue
    BY <1>1, <1>3, TokenSpent
<1>4. ASSUME NEW h \in Handlers, SpendToken(h)
      PROVE  NewClaimsWereTrue
    <2>1. tokenCall[h].parent \in DOMAIN token
        BY <1>4, SessionTypes DEF SpendToken, AtStep, TokenCallFits
    <2>2. QED
        BY <1>3, <1>4, <2>1 DEF SpendToken
<1>5. CASE UNCHANGED token
    BY <1>1, <1>5
<1>6. QED
    BY <1>2, <1>3, <1>4, <1>5
    DEF SessionsNext, StaffStep, GuestStep, TokenStep, TokenCallFails, Refresh, StaffLogin,
        CheckStaff, Logout, UpdateStaff, ClientLogin, CheckTrip, UpdateTrip, sessionsVars

-----------------------------------------------------------------------------
(* Theorems.                                                               *)

\* The invariant holds of every behaviour: loginStaff, loginClient, refresh and logout
\* from any number of requests at once, with the account and the booking changed and
\* requests broken off in between.
THEOREM SessionsInvariance == SessionsSpec => []SessionsInv
<1>1. SessionsInv /\ [SessionsNext]_sessionsVars => SessionsInv'
    BY SessionsSteps
<1>2. QED
    BY SessionsStart, <1>1, PTL DEF SessionsSpec

\* Tokens, and the calls about them, keep their form.
THEOREM SessionsTypeCorrect == SessionsSpec => []SessionsTypeOK
<1>1. SessionsInv => SessionsTypeOK
    BY DEF SessionsInv
<1>2. QED
    BY SessionsInvariance, <1>1, PTL

\* A refresh token of staff that refresh has exchanged is out of Redis, and however
\* many requests bring it at once, no more get a successor than are in flight.
THEOREM StaffTokensRotate == SessionsSpec => []TokensRotate
<1>1. SessionsInv => TokensRotate
    <2> SUFFICES ASSUME SessionsInv, NEW n \in DOMAIN token, token[n].type = "staff"
                 PROVE  /\ Successors(n) # {} => ~token[n].stored
                        /\ Cardinality(Successors(n)) + Cardinality(Users(n))
                              <= Cardinality(Handlers)
        BY DEF TokensRotate, Successors, Users
    <2>1. Successors(n) # {} => ~token[n].stored
        BY SessionTypes DEF Successors, TokenFits
    <2>2. QED
        BY <2>1 DEF SessionsInv, Rotation
<1>2. QED
    BY SessionsInvariance, <1>1, PTL

\* What a token issued by loginStaff, loginClient or refresh claims was true at some
\* moment of the request that got it.
THEOREM TokensClaimTruth == SessionsSpec => ClaimsWereTrue
<1>1. SessionsInv /\ [SessionsNext]_sessionsVars => NewClaimsWereTrue
    BY NewTokens
<1>2. NewClaimsWereTrue =>
        [\A n \in DOMAIN token' \ DOMAIN token :
            \E h \in Handlers : /\ tokenCall[h].step = "issue"
                                /\ token'[n].claim \in seen[h]]_sessionsVars
    BY DEF NewClaimsWereTrue
<1>3. QED
    BY SessionsInvariance, <1>1, <1>2, PTL DEF SessionsSpec, ClaimsWereTrue
=============================================================================
