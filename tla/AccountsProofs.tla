--------------------------- MODULE AccountsProofs ---------------------------
(***************************************************************************)
(* Accounts for any number of requests, phones, subjects and users. Every  *)
(* table changes in a few ways only; the lemmas name them, and show that   *)
(* each of them keeps what the properties need.                            *)
(***************************************************************************)
EXTENDS Accounts, SequenceTheorems, FiniteSetTheorems, TLAPS

Passing == {"login", "adminLogin", "reset"}

(* A request knows its phone; a code it is about to spend is of its own purpose, which is
   never PHONE_LINK; a state it has claimed is nobody else's and has no binding yet. *)
CallHolds(c) ==
    /\ call[c].op \notin {"none", "callback"} => call[c].phone \in Phones
    /\ call[c].op = "issue" => call[c].purpose \in Purposes
    /\ call[c].op = "unlink" => call[c].user # 0 /\ call[c].subject \in Identities
    /\ call[c].op = "callback" => /\ call[c].pend \in DOMAIN pending
                                  /\ call[c].pc \in {"found", "claim", "exchange"}
    /\ call[c].pc \in {"claim", "exchange"} => call[c].op = "callback"
    /\ call[c].pc \in {"begin", "commit"} => call[c].op # "none"
    /\ call[c].pc \in {"found", "spend"} /\ call[c].op # "callback" =>
          call[c].op \in Passing /\ call[c].purpose # "PHONE_LINK"
    /\ call[c].pc = "spend" => /\ call[c].op # "callback"
                               /\ call[c].code \in DOMAIN codes
                               /\ codes[call[c].code].purpose = call[c].purpose
    /\ call[c].pc = "exchange" => /\ ~pending[call[c].pend].open
                                  /\ \A m \in DOMAIN pending : pending[m].state # call[c].pend

ClaimsAreExclusive ==
    \A c, d \in Calls : c # d /\ call[c].pc = "exchange" /\ call[d].pc = "exchange"
                          => call[c].pend # call[d].pend

CodesHold == \A k \in DOMAIN codes : codes[k].granted <= 1 /\ (codes[k].open => codes[k].granted = 0)

(* An open state has no binding; no two bindings have the same state. *)
PendingHolds ==
    /\ \A m \in DOMAIN pending : pending[m].state <= Len(pending)
    /\ \A n, m \in DOMAIN pending : pending[n].open => pending[m].state # n
    /\ \A m, n \in DOMAIN pending : pending[m].state = pending[n].state /\ m # n => pending[m].state = 0

AccountsInv ==
    /\ TypeOK /\ CodesHold /\ ReservationsAreLimited /\ UsersKeepAPhone /\ PendingHolds
    /\ ClaimsAreExclusive /\ \A c \in Calls : CallHolds(c)

-----------------------------------------------------------------------------
(* How a call changes, field by field. *)
LEMMA Moved ==
    ASSUME call \in [Calls -> Call], NEW c \in Calls, NEW pc \in Steps,
           call' = [call EXCEPT ![c].pc = pc]
    PROVE  /\ call' \in [Calls -> Call]
           /\ \A d \in Calls : d # c => call'[d] = call[d]
           /\ call'[c].op = call[c].op /\ call'[c].pc = pc /\ call'[c].phone = call[c].phone
           /\ call'[c].purpose = call[c].purpose /\ call'[c].code = call[c].code
           /\ call'[c].pend = call[c].pend /\ call'[c].user = call[c].user
<1>1. call' = [call EXCEPT ![c] = [call[c] EXCEPT !.pc = pc]] /\ call[c] \in Call
  OBVIOUS
<1>2. [call[c] EXCEPT !.pc = pc] \in Call
  BY <1>1 DEF Call
<1>3. QED
  BY <1>1, <1>2 DEF Call

LEMMA IdleTyped == Idle \in Call /\ NotSeen \in Seen
BY DEF Idle, Call, Steps, NotSeen, Seen

LEMMA Answered ==
    ASSUME call \in [Calls -> Call], NEW c \in Calls, Answer(c)
    PROVE  /\ call' \in [Calls -> Call]
           /\ \A d \in Calls : d # c => call'[d] = call[d]
           /\ call'[c].op = "none" /\ call'[c].pc = "none"
BY IdleTyped DEF Answer, Idle

LEMMA Sent ==
    ASSUME call \in [Calls -> Call], NEW c \in Calls, NEW r \in Call,
           Send(c, r)
    PROVE  /\ call' \in [Calls -> Call]
           /\ \A d \in Calls : d # c => call'[d] = call[d]
           /\ call'[c] = r
BY DEF Send

(* What a transaction reads is of the type of what it keeps. *)
LEMMA ActiveIsNat ==
    ASSUME codes \in Seq(Code), NEW p
    PROVE  Active(p) \in Nat /\ IsFiniteSet({k \in DOMAIN codes : codes[k].phone = p /\ codes[k].open})
<1>1. Len(codes) \in Nat /\ DOMAIN codes = 1 .. Len(codes)
  OBVIOUS
<1>2. IsFiniteSet(1 .. Len(codes))
  BY <1>1, FS_Interval
<1>3. IsFiniteSet({k \in DOMAIN codes : codes[k].phone = p /\ codes[k].open})
  BY <1>1, <1>2, FS_Subset
<1>4. QED
  BY <1>3, FS_CardinalityType DEF Active

LEMMA ReadsTyped ==
    ASSUME TypeOK, NEW c \in Calls, CallHolds(c), call[c].pc \in {"begin", "commit"}
    PROVE  Reads(c) \in Seen
<1>1. call[c] \in Call /\ call[c].op \in Ops \cup {"none"}
  BY DEF TypeOK, Call
<1>2. call[c].op # "callback" /\ call[c].op # "none" /\ call[c].phone \in Phones
  BY DEF CallHolds
<1>3. CASE call[c].op = "issue"
  <2>0. codes \in Seq(Code)
    BY DEF TypeOK
  <2>1. Active(call[c].phone) \in Nat /\ Len(codes) \in Nat
    <3>1. Len(codes) \in Nat
      BY <2>0
    <3>2. Active(call[c].phone) \in Nat
      BY <2>0, ActiveIsNat, Zenon
    <3>3. QED
      BY <3>1, <3>2
  <2>2. QED
    BY <1>3, <2>1 DEF Reads, NotSeen, Seen
<1>4. CASE call[c].op # "issue"
  <2>1. owner[call[c].phone] \in Nat
    BY <1>2 DEF TypeOK, Identities
  <2>2. call[c].subject # None => owner[call[c].subject] \in Nat
    BY <1>1 DEF TypeOK, Call
  <2>3. Usable(call[c].code, call[c].purpose, call[c].phone) \in BOOLEAN
    BY DEF Usable
  <2>4. (call[c].pend \in DOMAIN pending /\ pending[call[c].pend].open) \in BOOLEAN
    OBVIOUS
  <2> DEFINE u == Usable(call[c].code, call[c].purpose, call[c].phone)
             o == call[c].pend \in DOMAIN pending /\ pending[call[c].pend].open
             s == IF call[c].subject = None THEN 0 ELSE owner[call[c].subject]
  <2>5. Reads(c) = [NotSeen EXCEPT !.phoneUser = owner[call[c].phone], !.subjectUser = s, !.usable = u, !.open = o]
    BY <1>4 DEF Reads
  <2>6. s \in Nat /\ u \in BOOLEAN /\ o \in BOOLEAN
    BY <2>2, <2>3, <2>4
  <2> HIDE DEF u, o, s
  <2>7. QED
    <3> DEFINE r == [phoneUser |-> owner[call[c].phone], subjectUser |-> s, usable |-> u, open |-> o,
                     active |-> 0, reserved |-> 0]
    <3>1. Reads(c) = r
      BY <2>5 DEF NotSeen
    <3>2. r \in Seen
      BY <2>1, <2>6 DEF Seen
    <3>3. QED
      BY <3>1, <3>2
<1>5. QED
  BY <1>3, <1>4

LEMMA Began ==
    ASSUME TypeOK, NEW c \in Calls, CallHolds(c), BeginTransaction(c)
    PROVE  /\ call' \in [Calls -> Call]
           /\ \A d \in Calls : d # c => call'[d] = call[d]
           /\ call'[c].op = call[c].op /\ call'[c].pc = "commit" /\ call'[c].phone = call[c].phone
           /\ call'[c].purpose = call[c].purpose /\ call'[c].user = call[c].user
<1>1. Reads(c) \in Seen /\ call[c] \in Call
  BY ReadsTyped DEF BeginTransaction, TypeOK
<1>2. call' = [call EXCEPT ![c] = [call[c] EXCEPT !.pc = "commit", !.saw = Reads(c)]]
  BY DEF BeginTransaction
<1>3. [call[c] EXCEPT !.pc = "commit", !.saw = Reads(c)] \in Call
  BY <1>1 DEF Call, Steps
<1>4. QED
  BY <1>1, <1>2, <1>3 DEF TypeOK, Call

LEMMA Aborted ==
    ASSUME TypeOK, NEW c \in Calls, CallHolds(c), AbortTransaction(c)
    PROVE  /\ call' \in [Calls -> Call]
           /\ \A d \in Calls : d # c => call'[d] = call[d]
           /\ \/ call'[c].op = "none" /\ call'[c].pc = "none"
              \/ /\ call'[c].op = call[c].op /\ call'[c].pc = "begin" /\ call'[c].phone = call[c].phone
                 /\ call'[c].purpose = call[c].purpose /\ call'[c].user = call[c].user
<1>1. CASE Answer(c)
  BY <1>1, Answered DEF TypeOK
<1>2. CASE call' = [call EXCEPT ![c].pc = "begin", ![c].saw = NotSeen, ![c].attempt = @ + 1]
  <2>1. call[c] \in Call /\ call[c].attempt \in Nat
    BY DEF TypeOK, Call
  <2> DEFINE a == [call[c] EXCEPT !.pc = "begin", !.saw = NotSeen, !.attempt = call[c].attempt + 1]
  <2>2. call' = [call EXCEPT ![c] = a]
    BY <1>2 DEF TypeOK
  <2>3. a \in Call
    <3>1. NotSeen \in Seen /\ call[c].attempt + 1 \in Nat /\ "begin" \in Steps
      BY <2>1, IdleTyped DEF Steps
    <3> HIDE DEF NotSeen
    <3>2. QED
      BY <2>1, <3>1 DEF Call
  <2>4. a.op = call[c].op /\ a.pc = "begin" /\ a.phone = call[c].phone /\ a.purpose = call[c].purpose /\ a.user = call[c].user
    BY <2>1 DEF Call
  <2> HIDE DEF a
  <2>5. QED
    BY <2>2, <2>3, <2>4 DEF TypeOK
<1>3. QED
  BY <1>1, <1>2 DEF AbortTransaction

LEMMA Reserved ==
    ASSUME TypeOK, NEW c \in Calls, CallHolds(c), ReserveCode(c)
    PROVE  /\ call' \in [Calls -> Call]
           /\ \A d \in Calls : d # c => call'[d] = call[d]
           /\ \/ call'[c].op = "none" /\ call'[c].pc = "none"
              \/ /\ call'[c].op = "issue" /\ call'[c].pc = "send" /\ call'[c].phone = call[c].phone
                 /\ call'[c].purpose = call[c].purpose
<1>1. CASE Answer(c)
  BY <1>1, Answered DEF TypeOK
<1>2. CASE ~Answer(c)
  <2>1. call[c] \in Call /\ call[c].op = "issue" /\ call[c].phone \in Phones /\ call[c].purpose \in Purposes
    BY DEF TypeOK, ReserveCode, Committing, CallHolds
  <2> DEFINE n == [purpose |-> call[c].purpose, phone |-> call[c].phone, open |-> TRUE, granted |-> 0]
             a == [call[c] EXCEPT !.pc = "send", !.saw = NotSeen, !.code = Len(codes')]
  <2>2. codes' = Append(codes, n) /\ call' = [call EXCEPT ![c].pc = "send", ![c].saw = NotSeen, ![c].code = Len(codes')]
    BY <1>2 DEF ReserveCode
  <2>3. n \in Code
    BY <2>1 DEF Code
  <2>4. Len(codes') \in Nat
    BY <2>2, <2>3 DEF TypeOK
  <2>5. call' = [call EXCEPT ![c] = a]
    BY <2>2 DEF TypeOK
  <2>6. a \in Call
    BY <2>1, <2>4, IdleTyped DEF Call, Steps
  <2>7. a.op = call[c].op /\ a.pc = "send" /\ a.phone = call[c].phone /\ a.purpose = call[c].purpose
    BY <2>1 DEF Call
  <2> HIDE DEF a
  <2>8. QED
    BY <2>1, <2>5, <2>6, <2>7 DEF TypeOK
<1>3. QED
  BY <1>1, <1>2

-----------------------------------------------------------------------------
(* How the tables change. *)
LinkIsPart == pending' # pending \/ owner' # owner

CodesMove ==
    \/ codes' = codes
    \/ \E k \in Nat : codes' = [codes EXCEPT ![k].open = FALSE]
    \/ \E k \in DOMAIN codes : /\ codes[k].open /\ codes' = Granted(k)
                               /\ codes[k].purpose = "PHONE_LINK" => LinkIsPart
    \/ \E p \in Phones, purpose \in Purposes :
          /\ Active(p) < PhoneLimit /\ Len(codes) < DeviceLimit
          /\ codes' = Append(codes, [purpose |-> purpose, phone |-> p, open |-> TRUE, granted |-> 0])

PendingMove ==
    \/ pending' = pending
    \/ \E n \in Nat : pending' = [pending EXCEPT ![n].open = FALSE]
    \/ \E s \in Subjects \cup {None} :
          pending' = Append(pending, [subject |-> s, state |-> 0, open |-> TRUE])
    \/ \E c \in Calls, s \in Subjects :
          /\ call[c].pc = "exchange" /\ Answer(c)
          /\ pending' = Append(pending, [subject |-> s, state |-> call[c].pend, open |-> TRUE])

(* What a committing transaction has read is still so. *)
LEMMA ReadIsCurrent ==
    ASSUME NEW c \in Calls, NEW op, op # "issue", Committing(c, op)
    PROVE  /\ call[c].saw.usable = Usable(call[c].code, call[c].purpose, call[c].phone)
           /\ call[c].saw.open = (call[c].pend \in DOMAIN pending /\ pending[call[c].pend].open)
<1> DEFINE u == Usable(call[c].code, call[c].purpose, call[c].phone)
           o == call[c].pend \in DOMAIN pending /\ pending[call[c].pend].open
           s == IF call[c].subject = None THEN 0 ELSE owner[call[c].subject]
           r == [NotSeen EXCEPT !.phoneUser = owner[call[c].phone], !.subjectUser = s, !.usable = u, !.open = o]
<1>1. call[c].saw = r
  BY DEF Committing, CommitIsValid, Reads
<1>2. r.usable = u /\ r.open = o
  <2> HIDE DEF u, o, s
  <2>1. QED
    BY DEF NotSeen
<1>3. QED
  BY <1>1, <1>2, Zenon

LEMMA CountIsCurrent ==
    ASSUME NEW c \in Calls, Committing(c, "issue")
    PROVE  call[c].saw.active = Active(call[c].phone) /\ call[c].saw.reserved = Len(codes)
<1> DEFINE n == Active(call[c].phone)
           l == Len(codes)
<1>1. call[c].saw = [NotSeen EXCEPT !.active = n, !.reserved = l]
  BY DEF Committing, CommitIsValid, Reads
<1> HIDE DEF n, l
<1>2. call[c].saw.active = n /\ call[c].saw.reserved = l
  BY <1>1 DEF NotSeen
<1>3. QED
  BY <1>2 DEF n, l

(* A code is spent by a login or a reset, or with its link. *)
LEMMA SpentMove ==
    ASSUME TypeOK, NEW c \in Calls, CallHolds(c), SpendCode(c)
    PROVE  CodesMove
<1>1. call[c].code \in DOMAIN codes /\ codes[call[c].code].purpose # "PHONE_LINK"
  BY DEF SpendCode, CallHolds
<1>2. QED
  BY <1>1 DEF SpendCode, CanSpend, CodesMove

LEMMA Closes ==
    ASSUME pending \in Seq(Pending), NEW n \in DOMAIN pending, pending[n].open
    PROVE  [pending EXCEPT ![n].open = FALSE] # pending
<1>1. pending[n] \in Pending
  OBVIOUS
<1>2. [pending EXCEPT ![n].open = FALSE][n].open = FALSE
  BY <1>1 DEF Pending
<1>3. QED
  BY <1>2

LEMMA LinkMove ==
    ASSUME TypeOK, NEW c \in Calls, CallHolds(c), Link(c) \/ Bind(c) \/ Unlink(c)
    PROVE  CodesMove
<1>1. CASE codes' = codes
  BY <1>1 DEF CodesMove
<1>2. CASE codes' # codes
  <2>1. ASSUME call[c].saw.usable, call[c].saw.usable = Usable(call[c].code, call[c].purpose, call[c].phone),
               codes' = Granted(call[c].code), LinkIsPart
        PROVE  CodesMove
    <3>1. Usable(call[c].code, call[c].purpose, call[c].phone)
      BY <2>1, Zenon
    <3>2. QED
      BY <2>1, <3>1 DEF Usable, CodesMove
  <2>2. CASE Link(c) \/ Bind(c)
    <3>1. PICK op \in {"link", "bind"} : Committing(c, op)
      BY <2>2 DEF Link, Bind
    <3>2. /\ call[c].saw.usable = Usable(call[c].code, call[c].purpose, call[c].phone)
          /\ call[c].saw.open = (call[c].pend \in DOMAIN pending /\ pending[call[c].pend].open)
      BY <3>1, ReadIsCurrent
    <3>3. call[c].saw.usable /\ call[c].saw.open /\ codes' = Granted(call[c].code) /\ pending' = Claimed(c)
      BY <1>2, <2>2 DEF Link, Bind, Claimable
    <3>4. call[c].pend \in DOMAIN pending /\ pending[call[c].pend].open
      BY <3>2, <3>3, Zenon
    <3>5. pending' # pending
      BY <3>3, <3>4, Closes DEF Claimed, TypeOK
    <3>6. QED
      BY <2>1, <3>2, <3>3, <3>5 DEF LinkIsPart
  <2>3. CASE Unlink(c)
    <3>1. Committing(c, "unlink")
      BY <2>3 DEF Unlink
    <3>2. call[c].saw.usable = Usable(call[c].code, call[c].purpose, call[c].phone)
      BY <3>1, ReadIsCurrent
    <3>3. /\ call[c].saw.usable /\ codes' = Granted(call[c].code)
          /\ owner' = [owner EXCEPT ![call[c].subject] = 0] /\ owner[call[c].subject] = call[c].user
      BY <1>2, <2>3 DEF Unlink, MayDelete
    <3>4. call[c].user # 0 /\ call[c].subject \in Identities
      BY <3>1 DEF Committing, CallHolds
    <3>5. owner' # owner
      BY <3>3, <3>4 DEF TypeOK
    <3>6. QED
      BY <2>1, <3>2, <3>3, <3>5 DEF LinkIsPart
  <2>4. QED
    BY <2>2, <2>3
<1>3. QED
  BY <1>1, <1>2


LEMMA ReserveMove ==
    ASSUME TypeOK, NEW c \in Calls, CallHolds(c), ReserveCode(c)
    PROVE  CodesMove
<1>1. CASE codes' = codes
  BY <1>1 DEF CodesMove
<1>2. CASE codes' # codes
  <2>1. Committing(c, "issue")
    BY DEF ReserveCode
  <2>2. call[c].saw.active = Active(call[c].phone) /\ call[c].saw.reserved = Len(codes)
    BY <2>1, CountIsCurrent
  <2>3. call[c].phone \in Phones /\ call[c].purpose \in Purposes
    BY <2>1 DEF Committing, CallHolds
  <2>4. /\ ~(call[c].saw.active >= PhoneLimit \/ call[c].saw.reserved >= DeviceLimit)
        /\ codes' = Append(codes, [purpose |-> call[c].purpose, phone |-> call[c].phone, open |-> TRUE, granted |-> 0])
    BY <1>2 DEF ReserveCode
  <2>5. Active(call[c].phone) < PhoneLimit /\ Len(codes) < DeviceLimit
    <3>1. Active(call[c].phone) \in Nat
      BY ActiveIsNat DEF TypeOK
    <3>2. Len(codes) \in Nat /\ PhoneLimit \in Nat /\ DeviceLimit \in Nat
      BY AccountsAssumption DEF TypeOK, AccountsAssumption
    <3>3. QED
      BY <2>2, <2>4, <3>1, <3>2
  <2>6. QED
    BY <2>3, <2>4, <2>5 DEF CodesMove
<1>3. QED
  BY <1>1, <1>2

LEMMA CodesMoves ==
    ASSUME TypeOK, \A c \in Calls : CallHolds(c), Next
    PROVE  CodesMove
<1>1. ASSUME NEW c \in Calls, Arrive(c) PROVE CodesMove
  BY <1>1 DEF Arrive, AskForCode, MiniProgramLogin, UseCode, LinkPhone, ResetPassword, BindIdentity,
     UnlinkIdentity, OAuthCallback, CodesMove
<1>2. ASSUME NEW c \in Calls, Handle(c) PROVE CodesMove
  <2>1. CASE SpendCode(c)
    BY <2>1, SpentMove
  <2>2. CASE ReserveCode(c)
    BY <2>2, ReserveMove
  <2>3. CASE Link(c) \/ Bind(c) \/ Unlink(c)
    BY <2>3, LinkMove
  <2>4. CASE SmsFailed(c)
    <3>1. call[c].code \in Nat
      BY DEF TypeOK, Call
    <3>2. QED
      BY <2>4, <3>1 DEF SmsFailed, CodesMove
  <2>5. CASE \/ FindCode(c) \/ BeginTransaction(c) \/ AbortTransaction(c) \/ LoginByPhone(c)
             \/ LoginByMiniProgram(c) \/ SmsSent(c) \/ FindState(c) \/ ClaimState(c) \/ ExchangeFails(c)
             \/ (\E s \in Subjects : CreateBinding(c, s)) \/ ReplacePassword(c) \/ ClearMustChange(c)
    BY <2>5 DEF FindCode, BeginTransaction, AbortTransaction, LoginByPhone, LoginByMiniProgram, SmsSent,
       FindState, ClaimState, ExchangeFails, CreateBinding, ReplacePassword, ClearMustChange, CodesMove
  <2>6. QED
    BY <1>2, <2>1, <2>2, <2>3, <2>4, <2>5 DEF Handle
<1>3. ASSUME NEW k \in DOMAIN codes, CodeExpires(k) PROVE CodesMove
  <2>1. k \in Nat
    BY DEF TypeOK
  <2>2. QED
    BY <1>3, <2>1 DEF CodeExpires, CodesMove
<1>4. CASE \/ \E c \in Calls : Forget(c)
           \/ OAuthStart \/ Administer \/ \E s \in Subjects : MiniProgramCallback(s)
           \/ \E n \in DOMAIN pending : PendingExpires(n)
  BY <1>4 DEF Forget, OAuthStart, Administer, CreateAccount, ChangePhone, AdminResetsPassword, SetStatus,
     MiniProgramCallback, PendingExpires, CodesMove
<1>5. QED
  BY <1>1, <1>2, <1>3, <1>4 DEF Next

LEMMA PendingMoves ==
    ASSUME TypeOK, \A c \in Calls : CallHolds(c), Next
    PROVE  PendingMove
<1>1. ASSUME NEW c \in Calls, Arrive(c) PROVE PendingMove
  BY <1>1 DEF Arrive, AskForCode, MiniProgramLogin, UseCode, LinkPhone, ResetPassword, BindIdentity,
     UnlinkIdentity, OAuthCallback, PendingMove
<1>2. ASSUME NEW c \in Calls, Handle(c) PROVE PendingMove
  <2>1. CASE Link(c) \/ Bind(c) \/ ClaimState(c)
    <3>1. call[c].pend \in Nat
      BY DEF TypeOK, Call
    <3>2. pending' = pending \/ pending' = [pending EXCEPT ![call[c].pend].open = FALSE]
      BY <2>1 DEF Link, Bind, ClaimState, Claimed
    <3>3. QED
      BY <3>1, <3>2 DEF PendingMove
  <2>2. ASSUME NEW s \in Subjects, CreateBinding(c, s) PROVE PendingMove
    BY <2>2 DEF CreateBinding, PendingMove
  <2>3. CASE \/ FindCode(c) \/ SpendCode(c) \/ BeginTransaction(c) \/ AbortTransaction(c) \/ ReserveCode(c)
             \/ LoginByPhone(c) \/ LoginByMiniProgram(c) \/ Unlink(c) \/ SmsSent(c) \/ SmsFailed(c)
             \/ FindState(c) \/ ExchangeFails(c) \/ ReplacePassword(c) \/ ClearMustChange(c)
    BY <2>3 DEF FindCode, SpendCode, BeginTransaction, AbortTransaction, ReserveCode, LoginByPhone,
       LoginByMiniProgram, Unlink, SmsSent, SmsFailed, FindState, ExchangeFails, ReplacePassword,
       ClearMustChange, PendingMove
  <2>4. QED
    BY <1>2, <2>1, <2>2, <2>3 DEF Handle
<1>3. ASSUME NEW n \in DOMAIN pending, PendingExpires(n) PROVE PendingMove
  <2>1. n \in Nat
    BY DEF TypeOK
  <2>2. QED
    BY <1>3, <2>1 DEF PendingExpires, PendingMove
<1>4. ASSUME NEW s \in Subjects, MiniProgramCallback(s) PROVE PendingMove
  BY <1>4 DEF MiniProgramCallback, PendingMove
<1>5. CASE OAuthStart
  BY <1>5 DEF OAuthStart, PendingMove
<1>6. CASE \/ \E c \in Calls : Forget(c)
           \/ Administer \/ \E k \in DOMAIN codes : CodeExpires(k)
  BY <1>6 DEF Forget, Administer, CreateAccount, ChangePhone, AdminResetsPassword, SetStatus, CodeExpires, PendingMove
<1>7. QED
  BY <1>1, <1>2, <1>3, <1>4, <1>5, <1>6 DEF Next

-----------------------------------------------------------------------------
CodesKept == \A k \in DOMAIN codes : k \in DOMAIN codes' /\ codes'[k].purpose = codes[k].purpose
PendingKept == \A n \in DOMAIN pending : n \in DOMAIN pending' /\ (pending'[n].open => pending[n].open)

(* A code that is closed or spent stays a code, and no code of a phone becomes active. *)
LEMMA CodeReplaced ==
    ASSUME codes \in Seq(Code), NEW k \in DOMAIN codes, NEW x \in Code,
           codes' = [codes EXCEPT ![k] = x], ~x.open,
           x.purpose = codes[k].purpose, x.phone = codes[k].phone
    PROVE  /\ codes' \in Seq(Code) /\ CodesKept
           /\ ReservationsAreLimited => ReservationsAreLimited'
<1>1. codes' \in Seq(Code) /\ DOMAIN codes' = DOMAIN codes /\ Len(codes') = Len(codes)
  BY ExceptSeq
<1>2. CodesKept
  BY <1>1 DEF CodesKept
<1>3. ASSUME NEW p \in Phones PROVE Active(p)' <= Active(p) /\ Active(p)' \in Nat
  <2> DEFINE S == {j \in DOMAIN codes : codes[j].phone = p /\ codes[j].open}
             T == {j \in DOMAIN codes' : codes'[j].phone = p /\ codes'[j].open}
  <2>1. T \subseteq S
    BY <1>1
  <2>2. IsFiniteSet(S) /\ Active(p) = Cardinality(S) /\ Active(p)' = Cardinality(T)
    BY ActiveIsNat DEF Active
  <2>3. Cardinality(T) <= Cardinality(S) /\ Cardinality(T) \in Nat
    <3> HIDE DEF S, T
    <3>1. IsFiniteSet(T) /\ Cardinality(T) <= Cardinality(S)
      BY <2>1, <2>2, FS_Subset
    <3>2. QED
      BY <3>1, FS_CardinalityType
  <2>4. QED
    BY <2>2, <2>3
<1>4. ASSUME ReservationsAreLimited PROVE ReservationsAreLimited'
  <2>1. ASSUME NEW p \in Phones PROVE Active(p)' <= PhoneLimit
    <3>1. Active(p) \in Nat
      BY ActiveIsNat
    <3>2. Active(p)' \in Nat
      BY <1>3
    <3>3. Active(p) <= PhoneLimit /\ PhoneLimit \in Nat
      BY <1>4, AccountsAssumption DEF ReservationsAreLimited, AccountsAssumption
    <3>4. QED
      BY <1>3, <3>1, <3>2, <3>3
  <2>2. QED
    BY <1>1, <1>4, <2>1 DEF ReservationsAreLimited
<1>5. QED
  BY <1>1, <1>2, <1>4

LEMMA CodeAdded ==
    ASSUME codes \in Seq(Code), NEW q \in Phones, NEW purpose \in Purposes,
           Active(q) < PhoneLimit, Len(codes) < DeviceLimit, CodesHold, ReservationsAreLimited,
           codes' = Append(codes, [purpose |-> purpose, phone |-> q, open |-> TRUE, granted |-> 0])
    PROVE  codes' \in Seq(Code) /\ CodesKept /\ CodesHold' /\ ReservationsAreLimited'
<1> DEFINE x == [purpose |-> purpose, phone |-> q, open |-> TRUE, granted |-> 0]
           l == Len(codes) + 1
<1>1. x \in Code
  BY DEF Code
<1>2. /\ codes' \in Seq(Code) /\ Len(codes') = l /\ l \in Nat /\ l \notin DOMAIN codes
      /\ DOMAIN codes' = DOMAIN codes \cup {l} /\ codes'[l] = x
      /\ \A k \in DOMAIN codes : codes'[k] = codes[k]
  <2> HIDE DEF x
  <2>1. codes' = Append(codes, x)
    BY DEF x
  <2>2. QED
    BY <1>1, <2>1
<1>3. CodesKept /\ CodesHold'
  <2>1. x.granted = 0
    OBVIOUS
  <2> HIDE DEF x
  <2>2. QED
    BY <1>2, <2>1 DEF CodesKept, CodesHold
<1>4. Len(codes') <= DeviceLimit
  <2>1. Len(codes) \in Nat /\ DeviceLimit \in Nat
    BY AccountsAssumption DEF AccountsAssumption
  <2>2. QED
    BY <1>2, <2>1
<1>5. ASSUME NEW p \in Phones PROVE Active(p)' <= PhoneLimit
  <2> DEFINE S == {j \in DOMAIN codes : codes[j].phone = p /\ codes[j].open}
             T == {j \in DOMAIN codes' : codes'[j].phone = p /\ codes'[j].open}
  <2>1. IsFiniteSet(S) /\ Active(p) = Cardinality(S) /\ Active(p)' = Cardinality(T)
    BY ActiveIsNat DEF Active
  <2>2. Cardinality(S) \in Nat /\ Cardinality(S) <= PhoneLimit /\ PhoneLimit \in Nat
    BY <2>1, FS_CardinalityType, AccountsAssumption DEF ReservationsAreLimited, AccountsAssumption
  <2>3. x.phone = q /\ x.open
    OBVIOUS
  <2>4. CASE p = q
    <3>1. T = S \cup {l} /\ l \notin S
      <4> HIDE DEF x, l
      <4>1. QED
        BY <1>2, <2>3, <2>4
    <3>2. Cardinality(T) = Cardinality(S) + 1
      <4> HIDE DEF x, l, S, T
      <4>1. Cardinality(S \cup {l}) = IF l \in S THEN Cardinality(S) ELSE Cardinality(S) + 1
        BY <2>1, FS_AddElement
      <4>2. QED
        BY <3>1, <4>1
    <3>3. Cardinality(S) < PhoneLimit
      BY <2>1, <2>4
    <3>4. QED
      <4> HIDE DEF S, T
      <4>1. QED
        BY <2>1, <2>2, <3>2, <3>3
  <2>5. CASE p # q
    <3>1. T = S
      <4> HIDE DEF x, l
      <4>1. QED
        BY <1>2, <2>3, <2>5
    <3>2. QED
      BY <2>1, <2>2, <3>1
  <2>6. QED
    BY <2>4, <2>5
<1>6. QED
  BY <1>2, <1>3, <1>4, <1>5 DEF ReservationsAreLimited

LEMMA CodesStep ==
    ASSUME AccountsInv, CodesMove
    PROVE  codes' \in Seq(Code) /\ CodesKept /\ CodesHold' /\ ReservationsAreLimited'
<1>1. codes \in Seq(Code) /\ CodesHold /\ ReservationsAreLimited
  BY DEF AccountsInv, TypeOK
<1>2. CASE codes' = codes
  BY <1>1, <1>2 DEF CodesKept, CodesHold, ReservationsAreLimited, Active
<1>3. ASSUME NEW k \in Nat, codes' = [codes EXCEPT ![k].open = FALSE]
      PROVE  codes' \in Seq(Code) /\ CodesKept /\ CodesHold' /\ ReservationsAreLimited'
  <2>1. CASE k \notin DOMAIN codes
    <3>1. codes' = codes
      BY <1>1, <1>3, <2>1
    <3>2. QED
      BY <1>1, <3>1 DEF CodesKept, CodesHold, ReservationsAreLimited, Active
  <2>2. CASE k \in DOMAIN codes
    <3> DEFINE x == [codes[k] EXCEPT !.open = FALSE]
    <3>1. codes[k] \in Code
      BY <1>1, <2>2
    <3>2. /\ x \in Code /\ ~x.open /\ x.purpose = codes[k].purpose /\ x.phone = codes[k].phone
          /\ x.granted = codes[k].granted
      BY <3>1 DEF Code
    <3>3. codes' = [codes EXCEPT ![k] = x]
      BY <1>3
    <3> HIDE DEF x
    <3>4. codes' \in Seq(Code) /\ CodesKept /\ ReservationsAreLimited'
      BY <1>1, <2>2, <3>2, <3>3, CodeReplaced
    <3>5. CodesHold'
      BY <1>1, <2>2, <3>2, <3>3 DEF CodesHold
    <3>6. QED
      BY <3>4, <3>5
  <2>3. QED
    BY <2>1, <2>2
<1>4. ASSUME NEW k \in DOMAIN codes, codes[k].open, codes' = Granted(k)
      PROVE  codes' \in Seq(Code) /\ CodesKept /\ CodesHold' /\ ReservationsAreLimited'
  <2> DEFINE x == [codes[k] EXCEPT !.open = FALSE, !.granted = codes[k].granted + 1]
  <2>1. codes[k] \in Code
    BY <1>1
  <2>2. codes[k].granted = 0
    BY <1>1, <1>4 DEF CodesHold
  <2>0. codes[k].granted + 1 = 1
    BY <2>2
  <2>3. /\ x \in Code /\ ~x.open /\ x.purpose = codes[k].purpose /\ x.phone = codes[k].phone
        /\ x.granted = 1
    <3>1. x = [codes[k] EXCEPT !.open = FALSE, !.granted = 1]
      BY <2>0
    <3> HIDE DEF x
    <3>2. QED
      BY <2>1, <3>1 DEF Code
  <2>4. codes' = [codes EXCEPT ![k] = x]
    BY <1>4 DEF Granted
  <2> HIDE DEF x
  <2>5. codes' \in Seq(Code) /\ CodesKept /\ ReservationsAreLimited'
    BY <1>1, <2>3, <2>4, CodeReplaced
  <2>6. CodesHold'
    BY <1>1, <2>3, <2>4 DEF CodesHold
  <2>7. QED
    BY <2>5, <2>6
<1>5. QED
  BY <1>1, <1>2, <1>3, <1>4, CodeAdded DEF CodesMove

(* Only a code that is spent is granted, and a PHONE_LINK code only with its link. *)
LEMMA GrantStep ==
    ASSUME codes \in Seq(Code), CodesMove, NEW k \in DOMAIN codes,
           codes[k].purpose = "PHONE_LINK", codes'[k].granted > codes[k].granted
    PROVE  LinkIsPart
<1>1. \A j \in DOMAIN codes : codes[j] \in Code /\ codes[j].granted \in Nat
  <2>1. \A j \in DOMAIN codes : codes[j] \in Code
    OBVIOUS
  <2>2. \A y \in Code : y.granted \in Nat
    BY DEF Code
  <2>3. QED
    BY <2>1, <2>2
<1>2. codes'[k].granted # codes[k].granted
  BY <1>1
<1>3. CASE codes' = codes
  BY <1>2, <1>3
<1>4. ASSUME NEW j \in Nat, codes' = [codes EXCEPT ![j].open = FALSE] PROVE FALSE
  BY <1>1, <1>2, <1>4 DEF Code
<1>5. ASSUME NEW j \in DOMAIN codes, codes' = Granted(j), codes[j].purpose = "PHONE_LINK" => LinkIsPart
      PROVE  LinkIsPart
  <2>1. CASE j = k
    BY <1>5, <2>1
  <2>2. CASE j # k
    <3>1. codes'[k] = codes[k]
      BY <1>5, <2>2 DEF Granted
    <3>2. QED
      BY <1>2, <3>1
  <2>3. QED
    BY <2>1, <2>2
<1>6. ASSUME NEW x, codes' = Append(codes, x) PROVE FALSE
  <2>1. codes'[k] = codes[k]
    BY <1>6
  <2>2. QED
    BY <1>2, <2>1
<1>7. QED
  BY <1>3, <1>4, <1>5, <1>6 DEF CodesMove

-----------------------------------------------------------------------------
LEMMA PendingAdded ==
    ASSUME pending \in Seq(Pending), PendingHolds, NEW x \in Pending, x.open,
           pending' = Append(pending, x),
           \/ x.state = 0
           \/ /\ x.state \in DOMAIN pending /\ ~pending[x.state].open
              /\ \A m \in DOMAIN pending : pending[m].state # x.state
    PROVE  pending' \in Seq(Pending) /\ PendingKept /\ PendingHolds'
<1> DEFINE l == Len(pending) + 1
<1>1. /\ pending' \in Seq(Pending) /\ Len(pending') = l /\ l \in Nat /\ l \notin DOMAIN pending
      /\ DOMAIN pending' = DOMAIN pending \cup {l} /\ pending'[l] = x
      /\ \A n \in DOMAIN pending : pending'[n] = pending[n]
  OBVIOUS
<1>2. PendingKept
  BY <1>1 DEF PendingKept
<1>3. \A m \in DOMAIN pending : pending[m].state \in Nat /\ pending[m].state <= Len(pending)
  <2>1. \A y \in Pending : y.state \in Nat
    BY DEF Pending
  <2>2. QED
    BY <2>1 DEF PendingHolds
<1>4. x.state \in Nat /\ x.state <= Len(pending) /\ Len(pending) \in Nat
  BY DEF Pending
<1>5. \A m \in DOMAIN pending' : pending'[m].state \in Nat /\ pending'[m].state <= Len(pending)
  <2> HIDE DEF l
  <2>1. QED
    BY <1>1, <1>3, <1>4
<1>6. \A m \in DOMAIN pending' : pending'[m].state <= Len(pending')
  BY <1>1, <1>4, <1>5
<1>7. \A m \in DOMAIN pending' : pending'[m].state # l
  BY <1>4, <1>5
<1> HIDE DEF l
<1>8. \A n, m \in DOMAIN pending' : pending'[n].open => pending'[m].state # n
  <2>1. TAKE n, m \in DOMAIN pending'
  <2>2. HAVE pending'[n].open
  <2>3. CASE n = l
    BY <1>7, <2>3
  <2>4. CASE n # l
    <3>1. n \in DOMAIN pending /\ pending[n].open /\ n # 0
      BY <1>1, <2>2, <2>4
    <3>2. CASE m = l
      BY <1>1, <3>1, <3>2
    <3>3. CASE m # l
      BY <1>1, <3>1, <3>3 DEF PendingHolds
    <3>4. QED
      BY <3>2, <3>3
  <2>5. QED
    BY <2>3, <2>4
<1>9. \A m, n \in DOMAIN pending' : pending'[m].state = pending'[n].state /\ m # n => pending'[m].state = 0
  BY <1>1 DEF PendingHolds
<1>10. QED
  BY <1>1, <1>2, <1>6, <1>8, <1>9 DEF PendingHolds

LEMMA PendingClosed ==
    ASSUME pending \in Seq(Pending), PendingHolds, NEW n \in Nat,
           pending' = [pending EXCEPT ![n].open = FALSE]
    PROVE  /\ pending' \in Seq(Pending) /\ PendingKept /\ PendingHolds'
           /\ DOMAIN pending' = DOMAIN pending
           /\ \A m \in DOMAIN pending : pending'[m].state = pending[m].state
<1>1. CASE n \notin DOMAIN pending
  <2>1. pending' = pending
    BY <1>1
  <2>2. PendingHolds'
    BY <2>1 DEF PendingHolds
  <2>3. QED
    BY <2>1, <2>2 DEF PendingKept
<1>2. CASE n \in DOMAIN pending
  <2> DEFINE x == [pending[n] EXCEPT !.open = FALSE]
  <2>1. pending[n] \in Pending
    BY <1>2
  <2>2. x \in Pending /\ ~x.open /\ x.state = pending[n].state
    BY <2>1 DEF Pending
  <2>3. pending' = [pending EXCEPT ![n] = x]
    OBVIOUS
  <2> HIDE DEF x
  <2>4. pending' \in Seq(Pending) /\ Len(pending') = Len(pending) /\ DOMAIN pending' = DOMAIN pending
    <3>1. n \in 1 .. Len(pending)
      BY <1>2
    <3>2. [pending EXCEPT ![n] = x] \in Seq(Pending) /\ Len([pending EXCEPT ![n] = x]) = Len(pending)
      BY <2>2, <3>1, ExceptSeq
    <3>3. QED
      BY <2>3, <3>2
  <2>5. \A m \in DOMAIN pending : /\ pending'[m].state = pending[m].state
                                  /\ pending'[m].open => pending[m].open
    BY <1>2, <2>2, <2>3
  <2>6. PendingKept /\ PendingHolds'
    BY <2>4, <2>5 DEF PendingKept, PendingHolds
  <2>7. QED
    BY <2>4, <2>5, <2>6
<1>3. QED
  BY <1>1, <1>2

(* A request that has claimed a state: what it appends is that state's first binding. *)
LEMMA Claims ==
    ASSUME AccountsInv, NEW c \in Calls, call[c].pc = "exchange"
    PROVE  /\ call[c].pend \in DOMAIN pending /\ ~pending[call[c].pend].open
           /\ \A m \in DOMAIN pending : pending[m].state # call[c].pend
BY DEF AccountsInv, CallHolds

LEMMA PendingStep ==
    ASSUME AccountsInv, PendingMove
    PROVE  pending' \in Seq(Pending) /\ PendingKept /\ PendingHolds'
<1>1. pending \in Seq(Pending) /\ PendingHolds
  BY DEF AccountsInv, TypeOK
<1>2. CASE pending' = pending
  BY <1>1, <1>2 DEF PendingKept, PendingHolds
<1>3. CASE \E n \in Nat : pending' = [pending EXCEPT ![n].open = FALSE]
  BY <1>1, <1>3, PendingClosed
<1>4. ASSUME NEW s \in Subjects \cup {None},
             pending' = Append(pending, [subject |-> s, state |-> 0, open |-> TRUE])
      PROVE  pending' \in Seq(Pending) /\ PendingKept /\ PendingHolds'
  <2> DEFINE x == [subject |-> s, state |-> 0, open |-> TRUE]
  <2>1. x \in Pending /\ x.open /\ x.state = 0
    BY DEF Pending
  <2> HIDE DEF x
  <2>2. pending' = Append(pending, x)
    BY <1>4 DEF x
  <2>3. QED
    BY <1>1, <2>1, <2>2, PendingAdded
<1>5. ASSUME NEW c \in Calls, NEW s \in Subjects, call[c].pc = "exchange",
             pending' = Append(pending, [subject |-> s, state |-> call[c].pend, open |-> TRUE])
      PROVE  pending' \in Seq(Pending) /\ PendingKept /\ PendingHolds'
  <2> DEFINE x == [subject |-> s, state |-> call[c].pend, open |-> TRUE]
  <2>1. call[c].pend \in DOMAIN pending /\ ~pending[call[c].pend].open
        /\ \A m \in DOMAIN pending : pending[m].state # call[c].pend
    BY <1>5, Claims
  <2>2. call[c].pend \in Nat
    BY <1>1, <2>1
  <2>3. x \in Pending /\ x.open /\ x.state = call[c].pend
    BY <2>2 DEF Pending
  <2> HIDE DEF x
  <2>4. pending' = Append(pending, x)
    BY <1>5 DEF x
  <2>5. QED
    BY <1>1, <2>1, <2>3, <2>4, PendingAdded
<1>6. QED
  BY <1>2, <1>3, <1>4, <1>5 DEF PendingMove

(* Nobody else makes a binding of a state that a request has claimed. *)
LEMMA ClaimKept ==
    ASSUME AccountsInv, PendingMove, NEW d \in Calls, call[d].pc = "exchange", call'[d] = call[d]
    PROVE  /\ ~pending'[call[d].pend].open
           /\ \A m \in DOMAIN pending' : pending'[m].state # call[d].pend
<1> DEFINE q == call[d].pend
<1>1. q \in DOMAIN pending /\ ~pending[q].open /\ \A m \in DOMAIN pending : pending[m].state # q
  BY Claims
<1>2. pending \in Seq(Pending) /\ PendingHolds /\ call \in [Calls -> Call] /\ q # 0
  BY <1>1 DEF AccountsInv, TypeOK
<1>3. PendingKept
  BY PendingStep
<1>4. ~pending'[q].open
  BY <1>1, <1>3 DEF PendingKept
<1>5. ASSUME NEW x, x.state # q, pending' = Append(pending, x) PROVE \A m \in DOMAIN pending' : pending'[m].state # q
  BY <1>1, <1>2, <1>5
<1>6. CASE pending' = pending
  BY <1>1, <1>4, <1>6
<1>7. CASE \E n \in Nat : pending' = [pending EXCEPT ![n].open = FALSE]
  BY <1>1, <1>2, <1>4, <1>7, PendingClosed
<1>8. CASE \E s \in Subjects \cup {None} :
             pending' = Append(pending, [subject |-> s, state |-> 0, open |-> TRUE])
  BY <1>2, <1>4, <1>5, <1>8
<1>9. ASSUME NEW c \in Calls, NEW s \in Subjects, call[c].pc = "exchange", Answer(c),
             pending' = Append(pending, [subject |-> s, state |-> call[c].pend, open |-> TRUE])
      PROVE  \A m \in DOMAIN pending' : pending'[m].state # q
  <2>1. c # d
    <3>1. call'[c].pc = "none"
      BY <1>2, <1>9, Answered
    <3>2. QED
      BY <1>9, <3>1
  <2>2. call[c].pend # q
    BY <1>9, <2>1 DEF AccountsInv, ClaimsAreExclusive
  <2>3. QED
    BY <1>5, <1>9, <2>2
<1>10. QED
  BY <1>4, <1>6, <1>7, <1>8, <1>9 DEF PendingMove

-----------------------------------------------------------------------------
(* A step of a request, seen from the requests. *)
CallStep(c) ==
    /\ call' \in [Calls -> Call] /\ \A d \in Calls : d # c => call'[d] = call[d]
    /\ CallHolds(c)'
    /\ call'[c].pc = "exchange" =>
          \A d \in Calls : d # c /\ call[d].pc = "exchange" => call[d].pend # call'[c].pend

LEMMA Over ==
    ASSUME call \in [Calls -> Call], NEW c \in Calls, Answer(c)
    PROVE  CallStep(c)
BY Answered DEF CallStep, CallHolds

LEMMA ArriveStep ==
    ASSUME AccountsInv, NEW c \in Calls, Arrive(c)
    PROVE  CallStep(c)
<1>1. call \in [Calls -> Call] /\ pending \in Seq(Pending) /\ users \in Seq(User) /\ codes \in Seq(Code)
  BY DEF AccountsInv, TypeOK
<1>a. \A n \in DOMAIN pending : pending[n].subject \in Subjects \cup {None}
  <2>1. \A y \in Pending : y.subject \in Subjects \cup {None}
    BY DEF Pending
  <2>2. \A n \in DOMAIN pending : pending[n] \in Pending
    BY <1>1
  <2>3. QED
    BY <2>1, <2>2
<1>2. ASSUME NEW r \in Call, Send(c, r), r.pc = "begin", r.op \in Ops \ {"callback"}, r.phone \in Phones,
             r.op = "issue" => r.purpose \in Purposes,
             r.op = "unlink" => r.user # 0 /\ r.subject \in Identities
      PROVE  CallStep(c)
  BY <1>1, <1>2, Sent DEF CallStep, CallHolds, Ops
<1>3. ASSUME NEW r \in Call, Send(c, r), r.pc = "found", r.op \in Passing, r.phone \in Phones, r.purpose # "PHONE_LINK"
      PROVE  CallStep(c)
  BY <1>1, <1>3, Sent DEF CallStep, CallHolds, Passing
<1>4. ASSUME NEW p \in Phones, NEW purpose \in Purposes, AskForCode(c, p, purpose) PROVE CallStep(c)
  <2> DEFINE r == [Request("issue", "begin") EXCEPT !.phone = p, !.purpose = purpose]
  <2>1. /\ r \in Call /\ r.pc = "begin" /\ r.op = "issue" /\ r.phone = p /\ r.purpose = purpose
    BY IdleTyped DEF Request, Idle, Call, Ops, Steps
  <2>2. Send(c, r)
    BY <1>4 DEF AskForCode
  <2> HIDE DEF r
  <2>3. QED
    BY <1>2, <2>1, <2>2 DEF Ops
<1>5. ASSUME NEW p \in Phones, NEW s \in Subjects, MiniProgramLogin(c, p, s) PROVE CallStep(c)
  <2> DEFINE r == [Request("mini", "begin") EXCEPT !.phone = p, !.subject = s]
  <2>1. r \in Call /\ r.pc = "begin" /\ r.op = "mini" /\ r.phone = p
    BY IdleTyped DEF Request, Idle, Call, Ops, Steps, Identities
  <2>2. Send(c, r)
    BY <1>5 DEF MiniProgramLogin
  <2> HIDE DEF r
  <2>3. QED
    BY <1>2, <2>1, <2>2 DEF Ops
<1>6. ASSUME NEW p \in Phones, NEW k \in DOMAIN codes, NEW op \in {"login", "adminLogin"}, UseCode(c, op, p, k)
      PROVE  CallStep(c)
  <2> DEFINE r == [Request(op, "found") EXCEPT !.phone = p, !.code = k, !.purpose = PurposeOf(op)]
  <2>1. PurposeOf(op) \in Purposes /\ PurposeOf(op) # "PHONE_LINK" /\ FirstStep(op) = "found" /\ k \in Nat
    BY <1>1 DEF PurposeOf, Purposes, FirstStep
  <2>2. r \in Call /\ r.pc = "found" /\ r.op = op /\ r.phone = p /\ r.purpose = PurposeOf(op)
    <3> HIDE DEF PurposeOf
    <3>1. QED
      BY <2>1, IdleTyped DEF Request, Idle, Call, Ops, Steps
  <2>3. Send(c, r)
    BY <1>6, <2>1 DEF UseCode
  <2> HIDE DEF r
  <2>4. QED
    BY <1>3, <2>1, <2>2, <2>3 DEF Passing
<1>7. ASSUME NEW p \in Phones, NEW k \in DOMAIN codes, NEW n \in DOMAIN pending, LinkPhone(c, p, k, n)
      PROVE  CallStep(c)
  <2> DEFINE r == [Request("link", "begin") EXCEPT !.phone = p, !.code = k, !.pend = n,
                       !.purpose = "PHONE_LINK", !.subject = pending[n].subject]
  <2>1. pending[n].subject \in Subjects \cup {None} /\ FirstStep("link") = "begin" /\ k \in Nat /\ n \in Nat
    BY <1>1, <1>a DEF FirstStep
  <2>2. r \in Call /\ r.pc = "begin" /\ r.op = "link" /\ r.phone = p
    BY <2>1, IdleTyped DEF Request, Idle, Call, Ops, Steps, Purposes, Identities
  <2>3. Send(c, r)
    BY <1>7, <2>1 DEF LinkPhone
  <2> HIDE DEF r
  <2>4. QED
    BY <1>2, <2>2, <2>3 DEF Ops
<1>8. ASSUME NEW p \in Phones, NEW k \in DOMAIN codes, NEW u \in DOMAIN users, ResetPassword(c, u, p, k)
      PROVE  CallStep(c)
  <2> DEFINE r == [Request("reset", "found") EXCEPT !.phone = p, !.code = k, !.user = u,
                       !.purpose = "PASSWORD_RESET"]
  <2>1. FirstStep("reset") = "found" /\ k \in Nat /\ u \in Nat
    BY <1>1 DEF FirstStep
  <2>2. r \in Call /\ r.pc = "found" /\ r.op = "reset" /\ r.phone = p /\ r.purpose = "PASSWORD_RESET"
    BY <2>1, IdleTyped DEF Request, Idle, Call, Ops, Steps, Purposes
  <2>3. Send(c, r)
    BY <1>8, <2>1 DEF ResetPassword
  <2> HIDE DEF r
  <2>4. QED
    BY <1>3, <2>2, <2>3 DEF Passing
<1>9. ASSUME NEW p \in Phones, NEW k \in DOMAIN codes, NEW u \in DOMAIN users, NEW n \in DOMAIN pending,
             BindIdentity(c, u, p, k, n)
      PROVE  CallStep(c)
  <2> DEFINE r == [Request("bind", "begin") EXCEPT !.phone = p, !.code = k, !.pend = n, !.user = u,
                       !.purpose = "PHONE_LINK", !.subject = pending[n].subject]
  <2>1. pending[n].subject \in Subjects \cup {None} /\ FirstStep("bind") = "begin" /\ k \in Nat /\ n \in Nat /\ u \in Nat
    BY <1>1, <1>a DEF FirstStep
  <2>2. r \in Call /\ r.pc = "begin" /\ r.op = "bind" /\ r.phone = p
    BY <2>1, IdleTyped DEF Request, Idle, Call, Ops, Steps, Purposes, Identities
  <2>3. Send(c, r)
    BY <1>9, <2>1 DEF BindIdentity
  <2> HIDE DEF r
  <2>4. QED
    BY <1>2, <2>2, <2>3 DEF Ops
<1>10. ASSUME NEW p \in Phones, NEW k \in DOMAIN codes, NEW u \in DOMAIN users, NEW i \in Identities,
              UnlinkIdentity(c, u, p, k, i)
       PROVE  CallStep(c)
  <2> DEFINE r == [Request("unlink", "begin") EXCEPT !.phone = p, !.code = k, !.user = u,
                       !.purpose = "PHONE_LINK", !.subject = i]
  <2>1. FirstStep("unlink") = "begin" /\ k \in Nat /\ u \in Nat /\ u # 0
    BY <1>1 DEF FirstStep
  <2>2. r \in Call /\ r.pc = "begin" /\ r.op = "unlink" /\ r.phone = p /\ r.user = u /\ r.subject = i
    BY <2>1, IdleTyped DEF Request, Idle, Call, Ops, Steps, Purposes
  <2>3. Send(c, r)
    BY <1>10, <2>1 DEF UnlinkIdentity
  <2> HIDE DEF r
  <2>4. QED
    BY <1>2, <2>1, <2>2, <2>3 DEF Ops
<1>11. ASSUME NEW n \in DOMAIN pending, OAuthCallback(c, n) PROVE CallStep(c)
  <2> DEFINE r == [Request("callback", "found") EXCEPT !.pend = n]
  <2>1. n \in Nat
    BY <1>1
  <2>2. r \in Call /\ r.pc = "found" /\ r.op = "callback" /\ r.pend = n
    BY <2>1, IdleTyped DEF Request, Idle, Call, Ops, Steps
  <2>3. Send(c, r) /\ pending' = pending
    BY <1>11 DEF OAuthCallback
  <2> HIDE DEF r
  <2>4. QED
    BY <1>1, <2>2, <2>3, Sent DEF CallStep, CallHolds
<1>12. QED
  BY <1>4, <1>5, <1>6, <1>7, <1>8, <1>9, <1>10, <1>11 DEF Arrive

LEMMA FindCodeStep ==
    ASSUME AccountsInv, NEW c \in Calls, FindCode(c) PROVE CallStep(c)
<1>1. call \in [Calls -> Call] /\ CallHolds(c) /\ codes' = codes
  BY DEF AccountsInv, TypeOK, FindCode
<1>2. CASE Answer(c)
  BY <1>1, <1>2, Over
<1>3. CASE Usable(call[c].code, call[c].purpose, call[c].phone) /\ Goto(c, "spend")
  <2>1. call' = [call EXCEPT ![c].pc = "spend"] /\ "spend" \in Steps
    BY <1>3 DEF Goto, Steps
  <2>2. QED
    BY <1>1, <1>3, <2>1, Moved DEF CallStep, CallHolds, Usable, FindCode, Passing
<1>4. QED
  BY <1>2, <1>3 DEF FindCode

LEMMA SpendCodeStep ==
    ASSUME AccountsInv, NEW c \in Calls, SpendCode(c) PROVE CallStep(c)
<1>1. call \in [Calls -> Call] /\ CallHolds(c)
  BY DEF AccountsInv, TypeOK
<1>2. CASE Answer(c)
  BY <1>1, <1>2, Over
<1>3. CASE Goto(c, "replace") \/ Goto(c, "begin")
  <2>1. PICK pc \in {"replace", "begin"} : call' = [call EXCEPT ![c].pc = pc]
    BY <1>3 DEF Goto
  <2>2. pc \in Steps
    BY DEF Steps
  <2>3. QED
    BY <1>1, <2>1, <2>2, Moved DEF CallStep, CallHolds, SpendCode, Passing
<1>4. QED
  BY <1>2, <1>3 DEF SpendCode

LEMMA TransactionStep ==
    ASSUME AccountsInv, NEW c \in Calls, BeginTransaction(c) \/ AbortTransaction(c) \/ ReserveCode(c)
    PROVE  CallStep(c)
<1>1. TypeOK /\ CallHolds(c)
  BY DEF AccountsInv
<1>2. CASE BeginTransaction(c)
  <2>1. call'[c].subject = call[c].subject
    <3>1. call[c] \in Call
      BY <1>1 DEF TypeOK
    <3>2. call' = [call EXCEPT ![c] = [call[c] EXCEPT !.pc = "commit", !.saw = Reads(c)]]
      BY <1>2 DEF BeginTransaction
    <3>3. QED
      BY <1>1, <3>1, <3>2 DEF TypeOK, Call
  <2>2. QED
    BY <1>1, <1>2, <2>1, Began DEF CallStep, CallHolds, BeginTransaction
<1>3. CASE AbortTransaction(c)
  <2>1. call'[c].op = "none" \/ call'[c].subject = call[c].subject
    <3>1. call[c] \in Call
      BY <1>1 DEF TypeOK
    <3>2. CASE Answer(c)
      BY <1>1, <3>2, Answered DEF TypeOK
    <3>3. CASE call' = [call EXCEPT ![c].pc = "begin", ![c].saw = NotSeen, ![c].attempt = @ + 1]
      BY <1>1, <3>1, <3>3 DEF TypeOK, Call
    <3>4. QED
      BY <1>3, <3>2, <3>3 DEF AbortTransaction
  <2>2. QED
    BY <1>1, <1>3, <2>1, Aborted DEF CallStep, CallHolds, AbortTransaction
<1>4. CASE ReserveCode(c)
  BY <1>1, <1>4, Reserved DEF CallStep, CallHolds, ReserveCode, Committing
<1>5. QED
  BY <1>2, <1>3, <1>4

LEMMA FindStateStep ==
    ASSUME AccountsInv, NEW c \in Calls, FindState(c) PROVE CallStep(c)
<1>1. call \in [Calls -> Call] /\ CallHolds(c) /\ pending' = pending
  BY DEF AccountsInv, TypeOK, FindState
<1>2. CASE Answer(c)
  BY <1>1, <1>2, Over
<1>3. CASE Goto(c, "claim")
  <2>1. call' = [call EXCEPT ![c].pc = "claim"] /\ "claim" \in Steps
    BY <1>3 DEF Goto, Steps
  <2>2. QED
    BY <1>1, <2>1, Moved DEF CallStep, CallHolds, FindState
<1>4. QED
  BY <1>2, <1>3 DEF FindState

(* Two requests with one state: only one of them finds it open when it claims it. *)
LEMMA ClaimStateStep ==
    ASSUME AccountsInv, NEW c \in Calls, ClaimState(c) PROVE CallStep(c)
<1>1. /\ call \in [Calls -> Call] /\ CallHolds(c) /\ pending \in Seq(Pending) /\ PendingHolds
  BY DEF AccountsInv, TypeOK
<1>2. CASE Answer(c)
  BY <1>1, <1>2, Over
<1>3. CASE pending[call[c].pend].open /\ pending' = [pending EXCEPT ![call[c].pend].open = FALSE] /\ Goto(c, "exchange")
  <2> DEFINE q == call[c].pend
  <2>1. call' = [call EXCEPT ![c].pc = "exchange"] /\ "exchange" \in Steps /\ call[c].op = "callback" /\ q \in DOMAIN pending
    BY <1>1, <1>3 DEF Goto, Steps, ClaimState, CallHolds
  <2>2. /\ call' \in [Calls -> Call] /\ \A d \in Calls : d # c => call'[d] = call[d]
        /\ call'[c].op = "callback" /\ call'[c].pc = "exchange" /\ call'[c].pend = q
    BY <1>1, <2>1, Moved
  <2>3. \A m \in DOMAIN pending : pending[m].state # q
    BY <1>1, <1>3, <2>1 DEF PendingHolds
  <2>4. /\ DOMAIN pending' = DOMAIN pending /\ ~pending'[q].open
        /\ \A m \in DOMAIN pending' : pending'[m].state # q
    <3>1. q \in Nat /\ pending[q] \in Pending
      BY <1>1, <2>1
    <3>2. pending'[q].open = FALSE
      BY <1>3, <2>1, <3>1 DEF Pending
    <3>3. DOMAIN pending' = DOMAIN pending /\ \A m \in DOMAIN pending : pending'[m].state = pending[m].state
      BY <1>1, <1>3, <3>1, PendingClosed
    <3>4. QED
      BY <2>3, <3>2, <3>3
  <2>5. \A d \in Calls : d # c /\ call[d].pc = "exchange" => call[d].pend # q
    BY <1>3, Claims
  <2>6. CallHolds(c)'
    BY <2>1, <2>2, <2>4 DEF CallHolds
  <2>7. QED
    BY <2>2, <2>5, <2>6 DEF CallStep
<1>4. QED
  BY <1>2, <1>3 DEF ClaimState, StateIsUnclaimed

LEMMA ReplaceStep ==
    ASSUME AccountsInv, NEW c \in Calls, ReplacePassword(c) PROVE CallStep(c)
<1>1. call \in [Calls -> Call] /\ CallHolds(c)
  BY DEF AccountsInv, TypeOK
<1>2. call' = [call EXCEPT ![c].pc = "clear"] /\ "clear" \in Steps
  BY DEF ReplacePassword, Goto, Steps
<1>3. call'[c].subject = call[c].subject
  BY <1>1, <1>2 DEF Call
<1>4. QED
  BY <1>1, <1>2, <1>3, Moved DEF CallStep, CallHolds, ReplacePassword

LEMMA HandleStep ==
    ASSUME AccountsInv, NEW c \in Calls, Handle(c)
    PROVE  CallStep(c)
<1>1. call \in [Calls -> Call]
  BY DEF AccountsInv, TypeOK
<1>2. CASE \/ LoginByPhone(c) \/ LoginByMiniProgram(c) \/ Link(c) \/ Bind(c) \/ Unlink(c) \/ SmsSent(c)
           \/ SmsFailed(c) \/ ExchangeFails(c) \/ (\E s \in Subjects : CreateBinding(c, s)) \/ ClearMustChange(c)
  <2>1. Answer(c)
    BY <1>2 DEF LoginByPhone, LoginByMiniProgram, Link, Bind, Unlink, SmsSent, SmsFailed, ExchangeFails,
       CreateBinding, ClearMustChange
  <2>2. QED
    BY <1>1, <2>1, Over
<1>3. QED
  BY <1>2, FindCodeStep, SpendCodeStep, TransactionStep, FindStateStep, ClaimStateStep, ReplaceStep DEF Handle

(* Every request stays sound, whoever takes a step. *)
LEMMA CallsStep ==
    ASSUME AccountsInv, Next, CodesMove, PendingMove
    PROVE  call' \in [Calls -> Call] /\ ClaimsAreExclusive' /\ \A d \in Calls : CallHolds(d)'
<1>1. CodesKept /\ PendingKept
  BY CodesStep, PendingStep
<1>2. ASSUME NEW d \in Calls, call'[d] = call[d] PROVE CallHolds(d)'
  <2>1. CallHolds(d)
    BY DEF AccountsInv
  <2>2. call[d].pc = "exchange" => /\ ~pending'[call[d].pend].open
                                   /\ \A m \in DOMAIN pending' : pending'[m].state # call[d].pend
    BY <1>2, ClaimKept
  <2>3. QED
    BY <1>1, <1>2, <2>1, <2>2 DEF CallHolds, CodesKept, PendingKept
<1>3. CASE call' = call
  <2>1. call' \in [Calls -> Call] /\ ClaimsAreExclusive'
    BY <1>3 DEF AccountsInv, TypeOK, ClaimsAreExclusive
  <2>2. QED
    BY <1>2, <1>3, <2>1
<1>4. ASSUME NEW c \in Calls, CallStep(c)
      PROVE  call' \in [Calls -> Call] /\ ClaimsAreExclusive' /\ \A d \in Calls : CallHolds(d)'
  <2>1. ClaimsAreExclusive'
    BY <1>4 DEF AccountsInv, CallStep, ClaimsAreExclusive
  <2>2. QED
    BY <1>2, <1>4, <2>1 DEF CallStep
<1>5. ASSUME NEW c \in Calls, Forget(c) PROVE CallStep(c)
  <2>1. Answer(c)
    BY <1>5 DEF Forget, Answer
  <2>2. QED
    BY <2>1, Over DEF AccountsInv, TypeOK
<1>6. CASE \E c \in Calls : Arrive(c) \/ Handle(c) \/ Forget(c)
  BY <1>4, <1>5, <1>6, ArriveStep, HandleStep
<1>7. CASE ~ \E c \in Calls : Arrive(c) \/ Handle(c) \/ Forget(c)
  <2>1. call' = call
    BY <1>7 DEF Next, OAuthStart, Administer, CreateAccount, ChangePhone, AdminResetsPassword, SetStatus,
       MiniProgramCallback, CodeExpires, PendingExpires
  <2>2. QED
    BY <1>3, <2>1
<1>8. QED
  BY <1>6, <1>7

-----------------------------------------------------------------------------
(* Users and the identities that lead to them. *)
OwnersSound == users \in Seq(User) /\ owner \in [Identities -> 0 .. Len(users)] /\ UsersKeepAPhone
NoneTaken == \A i \in Identities : owner[i] # 0 => owner'[i] \in {0, owner[i]}

LEMMA OwnersSame ==
    ASSUME OwnersSound, users' \in Seq(User), Len(users') = Len(users), owner' = owner
    PROVE  OwnersSound' /\ NoneTaken
<1>1. DOMAIN users' = DOMAIN users
  BY DEF OwnersSound
<1>2. UsersKeepAPhone'
  BY <1>1 DEF OwnersSound, UsersKeepAPhone, PhonesOf
<1>3. owner' \in [Identities -> 0 .. Len(users')]
  BY DEF OwnersSound
<1>4. QED
  BY <1>2, <1>3 DEF OwnersSound, NoneTaken

LEMMA UserChanged ==
    ASSUME users \in Seq(User), NEW u \in Nat,
           \/ \E b \in BOOLEAN : users' = [users EXCEPT ![u].must = b]
           \/ \E s \in {"ACTIVE", "DISABLED"} : users' = [users EXCEPT ![u].status = s]
    PROVE  users' \in Seq(User) /\ Len(users') = Len(users)
<1>1. CASE u \notin DOMAIN users
  <2>1. users' = users
    BY <1>1
  <2>2. QED
    BY <2>1
<1>2. CASE u \in DOMAIN users
  <2>1. users[u] \in User /\ u \in 1 .. Len(users)
    BY <1>2
  <2>2. PICK x \in User : users' = [users EXCEPT ![u] = x]
    <3>1. ASSUME NEW b \in BOOLEAN, users' = [users EXCEPT ![u].must = b]
          PROVE  \E x \in User : users' = [users EXCEPT ![u] = x]
      <4>1. [users[u] EXCEPT !.must = b] \in User
        BY <2>1 DEF User
      <4>2. users' = [users EXCEPT ![u] = [users[u] EXCEPT !.must = b]]
        BY <3>1
      <4>3. QED
        BY <4>1, <4>2
    <3>2. ASSUME NEW s \in {"ACTIVE", "DISABLED"}, users' = [users EXCEPT ![u].status = s]
          PROVE  \E x \in User : users' = [users EXCEPT ![u] = x]
      <4>1. [users[u] EXCEPT !.status = s] \in User
        BY <2>1 DEF User
      <4>2. users' = [users EXCEPT ![u] = [users[u] EXCEPT !.status = s]]
        BY <3>2
      <4>3. QED
        BY <4>1, <4>2
    <3>3. QED
      BY <3>1, <3>2
  <2>3. QED
    BY <2>1, <2>2, ExceptSeq
<1>3. QED
  BY <1>1, <1>2

(* A free identity, and a phone that is new or already his, come to one user. *)
LEMMA OwnerGiven ==
    ASSUME OwnersSound, NEW p \in Phones, NEW r \in Nat,
           \/ owner[p] = r /\ users' = users
           \/ owner[p] = 0 /\ r = Len(users) + 1 /\ users' = Append(users, NewUser),
           DOMAIN owner' = Identities, owner' = [i \in Identities |-> owner'[i]], owner'[p] = r,
           \A i \in Identities : owner'[i] = owner[i] \/ (owner'[i] = r /\ owner[i] \in {0, r})
    PROVE  OwnersSound' /\ NoneTaken
<1>1. NewUser \in User /\ p \in Identities
  BY DEF NewUser, User, Identities
<1>2. users' \in Seq(User) /\ Len(users') >= Len(users) /\ r <= Len(users') /\ Len(users') \in Nat
  <2>1. users \in Seq(User) /\ Len(users) \in Nat /\ owner[p] <= Len(users)
    BY <1>1 DEF OwnersSound
  <2>2. CASE owner[p] = r /\ users' = users
    BY <2>1, <2>2
  <2>3. CASE r = Len(users) + 1 /\ users' = Append(users, NewUser)
    <3>1. users' \in Seq(User) /\ Len(users') = Len(users) + 1
      BY <1>1, <2>1, <2>3
    <3>2. QED
      BY <2>1, <2>3, <3>1
  <2>4. QED
    BY <2>2, <2>3
<1>3. \A i \in Identities : owner'[i] \in 0 .. Len(users')
  <2>1. \A i \in Identities : owner[i] \in Nat /\ owner[i] <= Len(users) /\ Len(users) \in Nat
    BY DEF OwnersSound
  <2>2. QED
    BY <1>2, <2>1
<1>4. owner' \in [Identities -> 0 .. Len(users')]
  BY <1>3
<1>5. ASSUME NEW u \in DOMAIN users' PROVE PhonesOf(u)' # {}
  <2>1. CASE u = r
    BY <2>1 DEF PhonesOf
  <2>2. CASE u # r
    <3>1. u \in DOMAIN users
      BY <1>1, <1>5, <2>2 DEF OwnersSound
    <3>2. PICK q \in Phones : owner[q] = u
      BY <3>1 DEF OwnersSound, UsersKeepAPhone, PhonesOf
    <3>3. u # 0 /\ q \in Identities
      BY <3>1 DEF OwnersSound, Identities
    <3>4. owner'[q] = u
      BY <2>2, <3>2, <3>3
    <3>5. QED
      BY <3>4 DEF PhonesOf
  <2>3. QED
    BY <2>1, <2>2
<1>6. NoneTaken
  BY DEF NoneTaken
<1>7. QED
  BY <1>2, <1>4, <1>5, <1>6 DEF OwnersSound, UsersKeepAPhone

(* The last phone of a user is not deleted. *)
LEMMA OwnerRemoved ==
    ASSUME OwnersSound, NEW i \in Identities, users' = users, owner' = [owner EXCEPT ![i] = 0],
           i \in Phones => Cardinality(PhonesOf(owner[i])) > 1
    PROVE  OwnersSound' /\ NoneTaken
<1>1. owner' \in [Identities -> 0 .. Len(users')]
  BY DEF OwnersSound
<1>2. ASSUME NEW u \in DOMAIN users PROVE PhonesOf(u)' # {}
  <2>1. \E q \in Phones : owner[q] = u /\ q # i
    <3>1. CASE i \in Phones /\ owner[i] = u
      <4>1. PhonesOf(u) # {i}
        <5>1. Cardinality({i}) = 1
          BY FS_Singleton
        <5>2. QED
          BY <3>1, <5>1
      <4>2. QED
        BY <3>1, <4>1 DEF PhonesOf
    <3>2. CASE ~(i \in Phones /\ owner[i] = u)
      BY <3>2 DEF OwnersSound, UsersKeepAPhone, PhonesOf
    <3>3. QED
      BY <3>1, <3>2
  <2>2. QED
    BY <2>1 DEF OwnersSound, PhonesOf, Identities
<1>3. NoneTaken
  BY DEF NoneTaken, OwnersSound
<1>4. QED
  BY <1>1, <1>2, <1>3 DEF OwnersSound, UsersKeepAPhone

(* Logins and links, with what they resolve the phone to. *)
LEMMA ResolvedGiven ==
    ASSUME OwnersSound, NEW c \in Calls, call[c].phone \in Phones, CreateIfUnknown(c),
           NEW s \in {call[c].phone, call[c].subject}, owner[s] \in {0, Resolved(c)},
           \/ owner' = [owner EXCEPT ![call[c].phone] = Resolved(c)]
           \/ owner' = [owner EXCEPT ![call[c].phone] = Resolved(c), ![s] = Resolved(c)]
    PROVE  OwnersSound' /\ NoneTaken
<1> DEFINE p == call[c].phone
           r == Resolved(c)
<1>1. p \in Phones /\ p \in Identities /\ Len(users) \in Nat /\ owner[p] \in Nat
  BY DEF OwnersSound, Identities
<1>2. r \in Nat
  BY <1>1 DEF Resolved, Known
<1>3. \/ owner[p] = r /\ users' = users
      \/ owner[p] = 0 /\ r = Len(users) + 1 /\ users' = Append(users, NewUser)
  BY DEF CreateIfUnknown, Resolved, Known
<1>4. DOMAIN owner' = Identities /\ owner' = [i \in Identities |-> owner'[i]] /\ owner'[p] = r
      /\ \A i \in Identities : owner'[i] = owner[i] \/ (owner'[i] = r /\ owner[i] \in {0, r})
  <2>1. owner = [i \in Identities |-> owner[i]] /\ DOMAIN owner = Identities
    BY DEF OwnersSound
  <2> HIDE DEF r
  <2>2. owner[p] \in {0, r} /\ owner[s] \in {0, r}
    BY <1>3 DEF r
  <2> HIDE DEF p, r
  <2>3. CASE owner' = [owner EXCEPT ![p] = r]
    <3>1. owner'[p] = r /\ DOMAIN owner' = Identities /\ \A i \in Identities : i # p => owner'[i] = owner[i]
      BY <1>1, <2>1, <2>3
    <3>2. owner' = [i \in Identities |-> owner'[i]]
      BY <2>1, <2>3
    <3>3. QED
      BY <2>2, <3>1, <3>2
  <2>4. CASE owner' = [owner EXCEPT ![p] = r, ![s] = r]
    <3>1. /\ owner'[p] = r /\ DOMAIN owner' = Identities
          /\ \A i \in Identities : i # p /\ i # s => owner'[i] = owner[i]
          /\ s \in Identities => owner'[s] = r
      BY <1>1, <2>1, <2>4
    <3>2. owner' = [i \in Identities |-> owner'[i]]
      BY <2>1, <2>4
    <3>3. QED
      BY <2>2, <3>1, <3>2
  <2>5. owner' = [owner EXCEPT ![p] = r] \/ owner' = [owner EXCEPT ![p] = r, ![s] = r]
    BY DEF p, r
  <2>6. QED
    BY <2>3, <2>4, <2>5
<1> HIDE DEF p, r
<1>5. QED
  BY <1>1, <1>2, <1>3, <1>4, OwnerGiven


(* A step of a request, and of an administrator, seen from the users. *)
LEMMA UsersStep ==
    ASSUME AccountsInv, Next
    PROVE  OwnersSound' /\ NoneTaken
<1>1. OwnersSound /\ \A c \in Calls : CallHolds(c)
  BY DEF AccountsInv, TypeOK, OwnersSound
<1>2. CASE users' = users /\ owner' = owner
  BY <1>1, <1>2, OwnersSame DEF OwnersSound
<1>3. ASSUME NEW c \in Calls, Handle(c) PROVE OwnersSound' /\ NoneTaken
  <2>1. CASE ~(users' = users /\ owner' = owner) /\ (LoginByPhone(c) \/ LoginByMiniProgram(c) \/ Link(c))
    <3>1. /\ call[c].phone \in Phones /\ CreateIfUnknown(c)
      BY <1>1, <2>1 DEF LoginByPhone, LoginByMiniProgram, Link, Committing, CallHolds
    <3>2. CASE LoginByPhone(c)
      <4>1. owner' = [owner EXCEPT ![call[c].phone] = Resolved(c)]
        BY <2>1, <3>2 DEF LoginByPhone
      <4>2. owner[call[c].phone] \in {0, Resolved(c)}
        BY DEF Resolved, Known
      <4>3. QED
        BY <1>1, <3>1, <4>1, <4>2, ResolvedGiven
    <3>3. CASE LoginByMiniProgram(c) \/ Link(c)
      <4>1. /\ owner' = [owner EXCEPT ![call[c].phone] = Resolved(c), ![call[c].subject] = Resolved(c)]
            /\ owner[call[c].subject] \in {0, Resolved(c)}
        BY <2>1, <3>3 DEF LoginByMiniProgram, Link, Linkable
      <4>2. QED
        BY <1>1, <3>1, <4>1, ResolvedGiven
    <3>4. QED
      BY <2>1, <3>2, <3>3
  <2>2. CASE ~(users' = users /\ owner' = owner) /\ Bind(c)
    <3> DEFINE p == call[c].phone
               u == call[c].user
    <3>1. /\ p \in Phones /\ owner[p] = u /\ users' = users /\ owner[call[c].subject] \in {0, u}
          /\ owner' = [owner EXCEPT ![call[c].subject] = u]
      BY <1>1, <2>2 DEF Bind, Committing, CallHolds, Linkable
    <3> HIDE DEF u, p
    <3>2. p \in Identities /\ u \in Nat /\ owner = [i \in Identities |-> owner[i]] /\ DOMAIN owner = Identities
      BY <1>1, <3>1 DEF OwnersSound, Identities
    <3>3. DOMAIN owner' = Identities /\ owner'[p] = u
      BY <3>1, <3>2
    <3>4. owner' = [i \in Identities |-> owner'[i]]
      BY <3>1, <3>2
    <3>5. \A i \in Identities : owner'[i] = owner[i] \/ (owner'[i] = u /\ owner[i] \in {0, u})
      BY <3>1, <3>2
    <3>6. QED
      BY <1>1, <3>1, <3>2, <3>3, <3>4, <3>5, OwnerGiven
  <2>3. CASE ~(users' = users /\ owner' = owner) /\ Unlink(c)
    <3>1. /\ call[c].subject \in Identities /\ users' = users /\ owner' = [owner EXCEPT ![call[c].subject] = 0]
          /\ MayDelete(call[c].subject, call[c].user)
      BY <1>1, <2>3 DEF Unlink, Committing, CallHolds
    <3>2. QED
      BY <1>1, <3>1, OwnerRemoved DEF MayDelete
  <2>4. CASE ClearMustChange(c)
    <3>1. call[c].user \in Nat /\ users \in Seq(User)
      BY <1>1 DEF AccountsInv, TypeOK, Call
    <3>2. users' = [users EXCEPT ![call[c].user].must = FALSE] /\ owner' = owner
      BY <2>4 DEF ClearMustChange
    <3>3. users' \in Seq(User) /\ Len(users') = Len(users)
      BY <3>1, <3>2, UserChanged
    <3>4. QED
      BY <1>1, <3>2, <3>3, OwnersSame
  <2>5. CASE \/ FindCode(c) \/ SpendCode(c) \/ BeginTransaction(c) \/ AbortTransaction(c) \/ ReserveCode(c)
             \/ SmsSent(c) \/ SmsFailed(c) \/ FindState(c) \/ ClaimState(c) \/ ExchangeFails(c)
             \/ (\E s \in Subjects : CreateBinding(c, s)) \/ ReplacePassword(c)
    <3>1. users' = users /\ owner' = owner
      BY <2>5 DEF FindCode, SpendCode, BeginTransaction, AbortTransaction, ReserveCode, SmsSent, SmsFailed,
         FindState, ClaimState, ExchangeFails, CreateBinding, ReplacePassword
    <3>2. QED
      BY <1>2, <3>1
  <2>6. QED
    BY <1>2, <1>3, <2>1, <2>2, <2>3, <2>4, <2>5 DEF Handle
<1>4. ASSUME NEW p \in Phones, CreateAccount(p) PROVE OwnersSound' /\ NoneTaken
  <2> DEFINE r == Len(users) + 1
  <2>1. NewUser \in User /\ users \in Seq(User) /\ p \in Identities /\ r \in Nat
    BY <1>1 DEF NewUser, User, OwnersSound, Identities
  <2>2. owner[p] = 0 /\ users' = Append(users, NewUser) /\ Len(users') = r /\ owner' = [owner EXCEPT ![p] = Len(users')]
    BY <1>4, <2>1 DEF CreateAccount
  <2>3. owner' = [owner EXCEPT ![p] = r] /\ owner = [i \in Identities |-> owner[i]] /\ DOMAIN owner = Identities
    BY <1>1, <2>2 DEF OwnersSound
  <2>4. users' = Append(users, NewUser) /\ r = Len(users) + 1
    BY <2>2
  <2> HIDE DEF r
  <2>5. DOMAIN owner' = Identities /\ owner'[p] = r /\ \A i \in Identities : i # p => owner'[i] = owner[i]
    BY <2>1, <2>3
  <2>6. owner' = [i \in Identities |-> owner'[i]]
    BY <2>1, <2>3
  <2>7. \A i \in Identities : owner'[i] = owner[i] \/ (owner'[i] = r /\ owner[i] \in {0, r})
    BY <2>2, <2>5
  <2>8. QED
    BY <1>1, <2>1, <2>2, <2>4, <2>5, <2>6, <2>7, OwnerGiven
<1>5. ASSUME NEW u \in DOMAIN users, NEW p \in Phones, ChangePhone(u, p) PROVE OwnersSound' /\ NoneTaken
  <2>1. PICK old \in PhonesOf(u) : owner' = [owner EXCEPT ![old] = 0, ![p] = u]
    BY <1>5 DEF ChangePhone
  <2>2. /\ owner[p] = 0 /\ users' = users /\ owner[old] = u /\ old # p /\ {old, p} \subseteq Phones
        /\ u \in Nat /\ u # 0 /\ u <= Len(users) /\ Len(users) \in Nat
    BY <1>1, <1>5 DEF ChangePhone, PhonesOf, OwnersSound
  <2>3. /\ owner' \in [Identities -> 0 .. Len(users)] /\ owner'[p] = u /\ owner'[old] = 0
        /\ \A i \in Identities : i # old /\ i # p => owner'[i] = owner[i]
    BY <1>1, <2>1, <2>2 DEF OwnersSound, Identities
  <2>4. ASSUME NEW v \in DOMAIN users PROVE PhonesOf(v)' # {}
    <3>1. PICK q \in Phones : owner[q] = v
      BY <1>1 DEF OwnersSound, UsersKeepAPhone, PhonesOf
    <3>2. CASE v = u
      BY <2>2, <2>3, <3>2 DEF PhonesOf
    <3>3. CASE v # u
      <4>1. v # 0 /\ q \in Identities
        BY <1>1 DEF OwnersSound, Identities
      <4>2. owner'[q] = v
        BY <2>2, <2>3, <3>1, <3>3, <4>1
      <4>3. QED
        BY <4>2 DEF PhonesOf
    <3>4. QED
      BY <3>2, <3>3
  <2>5. NoneTaken
    BY <2>2, <2>3 DEF NoneTaken
  <2>6. QED
    BY <1>1, <2>2, <2>3, <2>4, <2>5 DEF OwnersSound, UsersKeepAPhone
<1>6. ASSUME NEW u \in DOMAIN users, AdminResetsPassword(u) \/ \E s \in {"ACTIVE", "DISABLED"} : SetStatus(u, s)
      PROVE  OwnersSound' /\ NoneTaken
  <2>1. u \in Nat /\ users \in Seq(User)
    BY <1>1 DEF OwnersSound
  <2>2. /\ owner' = owner
        /\ \/ users' = [users EXCEPT ![u].must = TRUE]
           \/ \E s \in {"ACTIVE", "DISABLED"} : users' = [users EXCEPT ![u].status = s]
    BY <1>6 DEF AdminResetsPassword, SetStatus
  <2>3. users' \in Seq(User) /\ Len(users') = Len(users)
    BY <2>1, <2>2, UserChanged
  <2>4. QED
    BY <1>1, <2>2, <2>3, OwnersSame
<1>7. ASSUME NEW c \in Calls, Arrive(c) PROVE OwnersSound' /\ NoneTaken
  <2>1. users' = users /\ owner' = owner
    BY <1>7 DEF Arrive, AskForCode, MiniProgramLogin, UseCode, LinkPhone, ResetPassword, BindIdentity,
       UnlinkIdentity, OAuthCallback
  <2>2. QED
    BY <1>2, <2>1
<1>8. CASE \/ \E c \in Calls : Forget(c)
           \/ OAuthStart \/ \E s \in Subjects : MiniProgramCallback(s)
           \/ \E k \in DOMAIN codes : CodeExpires(k)
           \/ \E n \in DOMAIN pending : PendingExpires(n)
  <2>1. users' = users /\ owner' = owner
    BY <1>8 DEF Forget, OAuthStart, MiniProgramCallback, CodeExpires, PendingExpires
  <2>2. QED
    BY <1>2, <2>1
<1>9. QED
  BY <1>3, <1>4, <1>5, <1>6, <1>7, <1>8 DEF Next, Administer

LEMMA EditsAndMix ==
    ASSUME TypeOK, Next
    PROVE  edits' \in Nat /\ mix' = mix
<1>1. ASSUME NEW c \in Calls, Arrive(c) PROVE edits' = edits /\ mix' = mix
  BY <1>1 DEF Arrive, AskForCode, MiniProgramLogin, UseCode, LinkPhone, ResetPassword, BindIdentity,
     UnlinkIdentity, OAuthCallback
<1>2. ASSUME NEW c \in Calls, Handle(c) PROVE edits' = edits /\ mix' = mix
  BY <1>2 DEF Handle, FindCode, SpendCode, BeginTransaction, AbortTransaction, ReserveCode, LoginByPhone,
     LoginByMiniProgram, Link, Bind, Unlink, SmsSent, SmsFailed, FindState, ClaimState, ExchangeFails,
     CreateBinding, ReplacePassword, ClearMustChange
<1>3. CASE Administer
  BY <1>3 DEF Administer, CreateAccount, ChangePhone, AdminResetsPassword, SetStatus, Edit, TypeOK
<1>4. QED
  BY <1>1, <1>2, <1>3 DEF Next, Forget, OAuthStart, MiniProgramCallback, CodeExpires, PendingExpires, TypeOK

-----------------------------------------------------------------------------
LEMMA InitAccounts ==
    ASSUME Init
    PROVE  AccountsInv
<1>1. NewUser \in User
  BY DEF NewUser, User
<1>2. codes \in Seq(Code) /\ pending \in Seq(Pending) /\ users \in Seq(User) /\ Len(users) = 1
      /\ Len(codes) = 0 /\ Len(pending) = 0 /\ DOMAIN codes = {} /\ DOMAIN pending = {} /\ DOMAIN users = {1}
  BY <1>1 DEF Init
<1>3. TypeOK
  BY <1>2, IdleTyped, AccountsAssumption DEF Init, TypeOK, Identities, AccountsAssumption
<1>4. \A p : Active(p) = 0
  <2>1. ASSUME NEW p PROVE Active(p) = 0
    <3>1. {k \in DOMAIN codes : codes[k].phone = p /\ codes[k].open} = {}
      BY <1>2
    <3>2. QED
      BY <3>1, FS_EmptySet DEF Active
  <2>2. QED
    BY <2>1
<1>5. ReservationsAreLimited
  <2>1. PhoneLimit \in Nat /\ DeviceLimit \in Nat
    BY AccountsAssumption DEF AccountsAssumption
  <2>2. QED
    BY <1>2, <1>4, <2>1 DEF ReservationsAreLimited
<1>6. CodesHold /\ PendingHolds
  BY <1>2 DEF CodesHold, PendingHolds
<1>7. UsersKeepAPhone
  BY <1>2 DEF Init, UsersKeepAPhone, PhonesOf, Identities
<1>8. ClaimsAreExclusive /\ \A c \in Calls : CallHolds(c)
  BY DEF Init, Idle, ClaimsAreExclusive, CallHolds
<1>9. QED
  BY <1>3, <1>5, <1>6, <1>7, <1>8 DEF AccountsInv

LEMMA AccountsStep ==
    ASSUME AccountsInv, Next
    PROVE  AccountsInv' /\ NoneTaken /\ CodesMove
<1>1. CodesMove /\ PendingMove
  BY CodesMoves, PendingMoves DEF AccountsInv
<1>2. codes' \in Seq(Code) /\ CodesHold' /\ ReservationsAreLimited'
  BY <1>1, CodesStep
<1>3. pending' \in Seq(Pending) /\ PendingHolds'
  BY <1>1, PendingStep
<1>4. call' \in [Calls -> Call] /\ ClaimsAreExclusive' /\ \A d \in Calls : CallHolds(d)'
  BY <1>1, CallsStep
<1>5. OwnersSound' /\ NoneTaken
  BY UsersStep
<1>6. edits' \in Nat /\ mix' = mix /\ mix \subseteq Ops \cup {"administer"}
  BY EditsAndMix DEF AccountsInv, TypeOK
<1>7. TypeOK'
  BY <1>2, <1>3, <1>4, <1>5, <1>6 DEF TypeOK, OwnersSound
<1>8. QED
  BY <1>1, <1>2, <1>3, <1>4, <1>5, <1>7 DEF AccountsInv, OwnersSound

LEMMA AccountsStutter ==
    ASSUME AccountsInv, UNCHANGED vars
    PROVE  AccountsInv'
BY DEF AccountsInv, vars, TypeOK, CodesHold, ReservationsAreLimited, Active, UsersKeepAPhone, PhonesOf, PendingHolds,
   ClaimsAreExclusive, CallHolds

LEMMA AccountsInvariant == Spec => []AccountsInv
<1>1. Init => AccountsInv
  BY InitAccounts
<1>2. AccountsInv /\ [Next]_vars => AccountsInv'
  BY AccountsStep, AccountsStutter
<1>3. QED
  BY <1>1, <1>2, PTL DEF Spec

(* Whatever requests race: a code passes once, the rations hold, every user can be
   reached, and one authorization makes one binding. *)
THEOREM AccountsStaySound == Spec => []AccountsAreSound
<1>1. ASSUME AccountsInv PROVE AccountsAreSound
  <2>1. CodesAreSpentOnce
    BY <1>1 DEF AccountsInv, CodesHold, CodesAreSpentOnce
  <2>2. ASSUME NEW n \in DOMAIN pending
        PROVE  Cardinality({m \in DOMAIN pending : pending[m].state = n}) <= 1
    <3> DEFINE S == {m \in DOMAIN pending : pending[m].state = n}
    <3>1. n # 0
      BY <1>1 DEF AccountsInv, TypeOK
    <3>2. \A m, k \in S : m = k
      BY <1>1, <3>1 DEF AccountsInv, PendingHolds
    <3>3. S = {} \/ \E m \in S : S = {m}
      BY <3>2
    <3> HIDE DEF S
    <3>4. Cardinality(S) \in {0, 1}
      BY <3>3, FS_EmptySet, FS_Singleton, Zenon
    <3>5. QED
      <4>1. Cardinality(S) <= 1
        BY <3>4
      <4>2. QED
        BY <4>1 DEF S
  <2>3. QED
    BY <1>1, <2>1, <2>2 DEF AccountsInv, AccountsAreSound, StatesBindOnce
<1>2. QED
  BY <1>1, AccountsInvariant, PTL

(* A code is spent together with its link, and no link takes an identity away. *)
THEOREM LinksStaySound == Spec => LinksAreSound
<1>1. ASSUME AccountsInv, [Next]_vars
      PROVE  /\ [\A k \in DOMAIN codes :
                    codes[k].purpose = "PHONE_LINK" /\ codes'[k].granted > codes[k].granted
                      => pending' # pending \/ owner' # owner]_vars
             /\ [\A i \in Identities : owner[i] # 0 => owner'[i] \in {0, owner[i]}]_vars
  <2>1. CASE Next
    <3>1. NoneTaken /\ CodesMove
      BY <1>1, <2>1, AccountsStep
    <3>2. ASSUME NEW k \in DOMAIN codes,
                 codes[k].purpose = "PHONE_LINK", codes'[k].granted > codes[k].granted
          PROVE  pending' # pending \/ owner' # owner
      BY <1>1, <3>1, <3>2, GrantStep DEF LinkIsPart, AccountsInv, TypeOK
    <3>3. QED
      BY <3>1, <3>2 DEF NoneTaken
  <2>2. QED
    BY <1>1, <2>1
<1>2. QED
  BY <1>1, AccountsInvariant, PTL DEF Spec, LinksAreSound, LinksAreAllOrNothing, IdentitiesAreNotTaken
=============================================================================
