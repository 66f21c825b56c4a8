------------------------------ MODULE Accounts ------------------------------
(***************************************************************************)
(* Verification codes, pending OAuth bindings and the identities they      *)
(* create: phone login, mini-program login, linking, binding, unlinking,   *)
(* password reset, and the administrators who create and edit accounts.    *)
(*                                                                         *)
(* A Serializable transaction is a read followed by a commit that succeeds *)
(* only while what was read is still so; it may also be the victim of a    *)
(* deadlock with another open transaction (P2034, P2002), and is retried.  *)
(***************************************************************************)
EXTENDS Naturals, Sequences, FiniteSets

CONSTANTS
    Calls,        \* requests an API process may be working on
    Phones,
    Subjects,     \* WECHAT and QQ subjects
    PhoneLimit,   \* activePhoneCodes >= 3
    DeviceLimit,  \* deviceReservations >= 8
    MaxAttempts,  \* *_TRANSACTION_MAX_ATTEMPTS
    MaxUsers,     \* bound: users created
    MaxStates,    \* bound: OAuth states created
    MaxBindings,  \* bound: bindings created by each kind of callback
    MaxEdits,     \* bound: what administrators do
    Mixes,        \* bound: kinds of requests that one behaviour mixes
    None

(* What a request may be for. *)
Ops == {"issue", "login", "adminLogin", "mini", "link", "bind", "unlink", "callback", "miniCallback", "reset"}

ASSUME AccountsAssumption ==
    /\ {PhoneLimit, DeviceLimit, MaxAttempts} \subseteq Nat \ {0}
    /\ MaxUsers \in Nat \ {0} /\ {MaxStates, MaxBindings} \subseteq Nat /\ MaxEdits \in Nat
    /\ Phones \cap Subjects = {} /\ None \notin Phones \cup Subjects \cup Calls
    /\ Phones # {} /\ \A m \in Mixes : m \subseteq Ops \cup {"administer"}

VARIABLES
    codes,   \* verification_codes in creation order
    users,   \* users in creation order, with the password credential
    owner,   \* auth_identities: the user of every (provider, subject), or 0
    pending, \* pending_oauth in creation order
    call,    \* requests being handled
    edits,   \* what administrators have done so far
    mix      \* the kinds of requests of this behaviour

vars == <<codes, users, owner, pending, call, edits, mix>>

Identities == Phones \cup Subjects
Purposes == {"PHONE_LOGIN", "ADMIN_LOGIN", "PHONE_LINK", "PASSWORD_RESET"}
Code == [purpose: Purposes, phone: Phones, open: BOOLEAN, granted: Nat]
User == [status: {"ACTIVE", "DISABLED"}, must: BOOLEAN]
Pending == [subject: Subjects \cup {None}, state: Nat, open: BOOLEAN]

Steps == {"none", "found", "spend", "begin", "commit", "send", "claim", "exchange",
          "replace", "clear"}
(* What a Serializable transaction read: users of the phone and of the subject, the
   code, the binding; for a reservation, active codes and reservations. *)
Seen == [phoneUser: Nat, subjectUser: Nat, usable: BOOLEAN, open: BOOLEAN, active: Nat, reserved: Nat]
NotSeen == [phoneUser |-> 0, subjectUser |-> 0, usable |-> FALSE, open |-> FALSE, active |-> 0, reserved |-> 0]
Call == [op: Ops \cup {"none"}, pc: Steps, phone: Phones \cup {None}, purpose: Purposes \cup {None},
         code: Nat, pend: Nat, subject: Identities \cup {None}, user: Nat,
         saw: Seen, attempt: Nat]
Idle == [op |-> "none", pc |-> "none", phone |-> None, purpose |-> None, code |-> 0, pend |-> 0,
         subject |-> None, user |-> 0, saw |-> NotSeen, attempt |-> 0]

TypeOK ==
    /\ codes \in Seq(Code) /\ users \in Seq(User) /\ pending \in Seq(Pending)
    /\ owner \in [Identities -> 0 .. Len(users)]
    /\ call \in [Calls -> Call] /\ edits \in Nat /\ mix \subseteq Ops \cup {"administer"}

NewUser == [status |-> "ACTIVE", must |-> FALSE]

(* A merchant whose account and verified phone an administrator created. *)
Init ==
    /\ codes = <<>> /\ pending = <<>>
    /\ users = <<NewUser>>
    /\ \E p \in Phones : owner = [i \in Identities |-> IF i = p THEN 1 ELSE 0]
    /\ call = [c \in Calls |-> Idle] /\ edits = 0 /\ mix \in Mixes

-----------------------------------------------------------------------------
Goto(c, pc) == call' = [call EXCEPT ![c].pc = pc]
(* Answered, with tokens or with an exception. *)
Answer(c) == call' = [call EXCEPT ![c] = Idle]
PhonesOf(u) == {p \in Phones : owner[p] = u}

PurposeOf(op) ==
    CASE op = "login" -> "PHONE_LOGIN" [] op = "adminLogin" -> "ADMIN_LOGIN"
      [] op = "reset" -> "PASSWORD_RESET" [] OTHER -> "PHONE_LINK"

(* Login and reset consume the code in a transaction of its own; linking, binding
   and unlinking consume it inside theirs. *)
FirstStepAlone(op) == IF op \in {"login", "adminLogin", "reset", "link"} THEN "found" ELSE "begin"   \* mutant: consume without the client
FirstStep(op) == IF op \in {"login", "adminLogin", "reset"} THEN "found" ELSE "begin"

Usable(k, purpose, phone) ==
    /\ k \in DOMAIN codes
    /\ codes[k].purpose = purpose /\ codes[k].phone = phone /\ codes[k].open
Active(p) == Cardinality({k \in DOMAIN codes : codes[k].phone = p /\ codes[k].open})

-----------------------------------------------------------------------------
(* The requests. A code, a binding or an identity is what the caller names. *)

Send(c, request) ==
    /\ call[c] = Idle /\ request.op \in mix \cup {"issue"}
    /\ call' = [call EXCEPT ![c] = request]
Request(op, pc) == [Idle EXCEPT !.op = op, !.pc = pc, !.attempt = 1]

AskForCode(c, p, purpose) ==
    /\ purpose \in {PurposeOf(op) : op \in mix \ {"administer", "callback", "miniCallback", "mini"}}
    /\ Send(c, [Request("issue", "begin") EXCEPT !.phone = p, !.purpose = purpose])
    /\ UNCHANGED <<codes, users, owner, pending, edits, mix>>

UseCode(c, op, p, k) ==
    /\ Send(c, [Request(op, FirstStep(op)) EXCEPT !.phone = p, !.code = k, !.purpose = PurposeOf(op)])
    /\ UNCHANGED <<codes, users, owner, pending, edits, mix>>

LinkPhone(c, p, k, n) ==
    /\ n \in DOMAIN pending
    /\ Send(c, [Request("link", FirstStep("link")) EXCEPT !.phone = p, !.code = k, !.pend = n,
                    !.purpose = "PHONE_LINK", !.subject = pending[n].subject])
    /\ UNCHANGED <<codes, users, owner, pending, edits, mix>>

BindIdentity(c, u, p, k, n) ==
    /\ n \in DOMAIN pending
    /\ Send(c, [Request("bind", FirstStep("bind")) EXCEPT !.phone = p, !.code = k, !.pend = n, !.user = u,
                    !.purpose = "PHONE_LINK", !.subject = pending[n].subject])
    /\ UNCHANGED <<codes, users, owner, pending, edits, mix>>

UnlinkIdentity(c, u, p, k, i) ==
    /\ owner[i] = u
    /\ Send(c, [Request("unlink", FirstStep("unlink")) EXCEPT !.phone = p, !.code = k, !.user = u,
                    !.purpose = "PHONE_LINK", !.subject = i])
    /\ UNCHANGED <<codes, users, owner, pending, edits, mix>>

(* WeChat has told the phone number and the subject. *)
MiniProgramLogin(c, p, s) ==
    /\ Send(c, [Request("mini", "begin") EXCEPT !.phone = p, !.subject = s])
    /\ UNCHANGED <<codes, users, owner, pending, edits, mix>>

OAuthStart ==
    /\ "callback" \in mix /\ Len(pending) < MaxStates
    /\ pending' = Append(pending, [subject |-> None, state |-> 0, open |-> TRUE])
    /\ UNCHANGED <<codes, users, owner, call, edits, mix>>

(* A mini-program needs no state: its code is exchanged, then the binding is stored. *)
MiniProgramCallback(s) ==
    /\ "miniCallback" \in mix /\ Len(pending) < MaxBindings
    /\ pending' = Append(pending, [subject |-> s, state |-> 0, open |-> TRUE])
    /\ UNCHANGED <<codes, users, owner, call, edits, mix>>

OAuthCallback(c, n) ==
    /\ n \in DOMAIN pending
    /\ Send(c, [Request("callback", "found") EXCEPT !.pend = n])
    /\ UNCHANGED <<codes, users, owner, pending, edits, mix>>

-----------------------------------------------------------------------------
(* verification.service.ts: consume without a client *)

FindCode(c) ==
    /\ call[c].op # "callback" /\ call[c].pc = "found"
    /\ IF Usable(call[c].code, call[c].purpose, call[c].phone) THEN Goto(c, "spend") ELSE Answer(c)
    /\ UNCHANGED <<codes, users, owner, pending, edits, mix>>

CanSpendFound(k) == k \in DOMAIN codes   \* mutant: updateMany by id only
CanSpend(k) == codes[k].open
Granted(k) == [codes EXCEPT ![k].open = FALSE, ![k].granted = @ + 1]

SpendCode(c) ==
    /\ call[c].pc = "spend"
    /\ IF CanSpend(call[c].code)
         THEN /\ codes' = Granted(call[c].code)
              /\ Goto(c, IF call[c].op = "reset" THEN "replace" ELSE "begin")
         ELSE Answer(c) /\ UNCHANGED codes
    /\ UNCHANGED <<users, owner, pending, edits, mix>>

(* Serializable transactions *)

Reads(c) ==
    LET a == call[c] IN
    IF a.op = "issue"
      THEN [NotSeen EXCEPT !.active = Active(a.phone), !.reserved = Len(codes)]
      ELSE [NotSeen EXCEPT !.phoneUser = owner[a.phone],
                           !.subjectUser = IF a.subject = None THEN 0 ELSE owner[a.subject],
                           !.usable = Usable(a.code, a.purpose, a.phone),
                           !.open = a.pend \in DOMAIN pending /\ pending[a.pend].open]

BeginTransaction(c) ==
    /\ call[c].pc = "begin"
    /\ call' = [call EXCEPT ![c].pc = "commit", ![c].saw = Reads(c)]
    /\ UNCHANGED <<codes, users, owner, pending, edits, mix>>

CommitIsUnchecked(c) == c \in Calls   \* mutant: default isolation
CommitIsValid(c) == Reads(c) = call[c].saw
MayRetry(c) == call[c].attempt < MaxAttempts

(* A write conflict, or the victim of a deadlock with another open transaction. *)
AbortTransaction(c) ==
    /\ call[c].pc = "commit"
    /\ ~CommitIsValid(c) \/ \E d \in Calls \ {c} : call[d].pc = "commit"
    /\ IF MayRetry(c)
         THEN call' = [call EXCEPT ![c].pc = "begin", ![c].saw = NotSeen, ![c].attempt = @ + 1]
         ELSE Answer(c)
    /\ UNCHANGED <<codes, users, owner, pending, edits, mix>>

Committing(c, op) == call[c].op = op /\ call[c].pc = "commit" /\ CommitIsValid(c)

ReserveCode(c) ==
    LET a == call[c] IN
    /\ Committing(c, "issue")
    /\ IF a.saw.active >= PhoneLimit \/ a.saw.reserved >= DeviceLimit
         THEN Answer(c) /\ UNCHANGED codes
         ELSE /\ codes' = Append(codes, [purpose |-> a.purpose, phone |-> a.phone,
                                         open |-> TRUE, granted |-> 0])
              /\ call' = [call EXCEPT ![c].pc = "send", ![c].saw = NotSeen, ![c].code = Len(codes')]
    /\ UNCHANGED <<users, owner, pending, edits, mix>>

(* The user of the phone, created on first sight. *)
Known(c) == owner[call[c].phone] # 0
Resolved(c) == IF Known(c) THEN owner[call[c].phone] ELSE Len(users) + 1
IsActive(c) == Known(c) => users[Resolved(c)].status = "ACTIVE"
CreateLater(c) == UNCHANGED users   \* mutant: the identity before its user
CreateIfUnknown(c) ==
    /\ Known(c) \/ Len(users) < MaxUsers
    /\ users' = IF Known(c) THEN users ELSE Append(users, NewUser)
LinkableAlways(c, u) == owner[call[c].subject] \in Nat   \* mutant: upsert
Linkable(c, u) == owner[call[c].subject] \in {0, u}

LoginByPhone(c) ==
    /\ \E op \in {"login", "adminLogin"} : Committing(c, op)
    /\ IF IsActive(c) /\ (Known(c) \/ call[c].op = "login")
         THEN /\ CreateIfUnknown(c)
              /\ owner' = [owner EXCEPT ![call[c].phone] = Resolved(c)]
              /\ Answer(c)
         ELSE Answer(c) /\ UNCHANGED <<users, owner>>
    /\ UNCHANGED <<codes, pending, edits, mix>>

LoginByMiniProgram(c) ==
    /\ Committing(c, "mini")
    /\ IF IsActive(c) /\ Linkable(c, Resolved(c))
         THEN /\ CreateIfUnknown(c)
              /\ owner' = [owner EXCEPT ![call[c].phone] = Resolved(c), ![call[c].subject] = Resolved(c)]
              /\ Answer(c)
         ELSE Answer(c) /\ UNCHANGED <<users, owner>>
    /\ UNCHANGED <<codes, pending, edits, mix>>

(* claimPending: not a state, not claimed. *)
Claimable(c) == call[c].saw.open /\ pending[call[c].pend].subject # None
Claimed(c) == [pending EXCEPT ![call[c].pend].open = FALSE]

Link(c) ==
    /\ Committing(c, "link")
    /\ IF call[c].saw.usable /\ Claimable(c) /\ IsActive(c) /\ Linkable(c, Resolved(c))
         THEN /\ CreateIfUnknown(c)
              /\ codes' = Granted(call[c].code)
              /\ pending' = Claimed(c)
              /\ owner' = [owner EXCEPT ![call[c].phone] = Resolved(c), ![call[c].subject] = Resolved(c)]
              /\ Answer(c)
         ELSE Answer(c) /\ UNCHANGED <<codes, users, owner, pending>>
    /\ UNCHANGED <<edits, mix>>

Bind(c) ==
    LET u == call[c].user IN
    /\ Committing(c, "bind")
    /\ IF call[c].saw.usable /\ owner[call[c].phone] = u /\ Claimable(c) /\ Linkable(c, u)
         THEN /\ codes' = Granted(call[c].code)
              /\ pending' = Claimed(c)
              /\ owner' = [owner EXCEPT ![call[c].subject] = u]
              /\ Answer(c)
         ELSE Answer(c) /\ UNCHANGED <<codes, owner, pending>>
    /\ UNCHANGED <<users, edits, mix>>

MayDeleteAny(i, u) == owner[i] = u   \* mutant: the final phone too
MayDelete(i, u) == owner[i] = u /\ (i \in Phones => Cardinality(PhonesOf(u)) > 1)

Unlink(c) ==
    LET a == call[c] IN
    /\ Committing(c, "unlink")
    /\ IF a.saw.usable /\ owner[a.phone] = a.user /\ MayDelete(a.subject, a.user)
         THEN /\ codes' = Granted(a.code)
              /\ owner' = [owner EXCEPT ![a.subject] = 0]
              /\ Answer(c)
         ELSE Answer(c) /\ UNCHANGED <<codes, owner>>
    /\ UNCHANGED <<users, pending, edits, mix>>

-----------------------------------------------------------------------------
(* issue after the reservation *)

SmsSent(c) ==
    /\ call[c].pc = "send"
    /\ Answer(c)
    /\ UNCHANGED <<codes, users, owner, pending, edits, mix>>

SmsFailed(c) ==
    /\ call[c].pc = "send"
    /\ codes' = [codes EXCEPT ![call[c].code].open = FALSE]
    /\ Answer(c)
    /\ UNCHANGED <<users, owner, pending, edits, mix>>

(* callback: the state is claimed, then the provider is asked. *)

FindState(c) ==
    /\ call[c].op = "callback" /\ call[c].pc = "found"
    /\ IF pending[call[c].pend].open /\ pending[call[c].pend].subject = None
         THEN Goto(c, "claim") ELSE Answer(c)
    /\ UNCHANGED <<codes, users, owner, pending, edits, mix>>

StateWasFound(n) == n \in DOMAIN pending   \* mutant: updateMany by id only
StateIsUnclaimed(n) == pending[n].open

ClaimState(c) ==
    /\ call[c].pc = "claim"
    /\ IF StateIsUnclaimed(call[c].pend)
         THEN pending' = [pending EXCEPT ![call[c].pend].open = FALSE] /\ Goto(c, "exchange")
         ELSE Answer(c) /\ UNCHANGED pending
    /\ UNCHANGED <<codes, users, owner, edits, mix>>

CreateBinding(c, s) ==
    /\ call[c].pc = "exchange"
    /\ Len(pending) < MaxStates + MaxBindings
    /\ pending' = Append(pending, [subject |-> s, state |-> call[c].pend, open |-> TRUE])
    /\ Answer(c)
    /\ UNCHANGED <<codes, users, owner, edits, mix>>

ExchangeFails(c) == call[c].pc = "exchange" /\ Answer(c) /\ UNCHANGED <<codes, users, owner, pending, edits, mix>>

(* performPasswordReset: the code was consumed; two more writes. The account is
   that of the phone's owner when the request came. *)
ReplacePassword(c) ==
    /\ call[c].pc = "replace"
    /\ call[c].user # 0
    /\ Goto(c, "clear")
    /\ UNCHANGED <<codes, users, owner, pending, edits, mix>>

ClearMustChange(c) ==
    /\ call[c].pc = "clear"
    /\ users' = [users EXCEPT ![call[c].user].must = FALSE]
    /\ Answer(c)
    /\ UNCHANGED <<codes, owner, pending, edits, mix>>

ResetPassword(c, u, p, k) ==
    /\ owner[p] = u /\ users[u].status = "ACTIVE"
    /\ Send(c, [Request("reset", FirstStep("reset")) EXCEPT !.phone = p, !.code = k, !.user = u,
                    !.purpose = "PASSWORD_RESET"])
    /\ UNCHANGED <<codes, users, owner, pending, edits, mix>>

-----------------------------------------------------------------------------
(* Administrators: one transaction each, a taken phone is refused by the index. *)

Edit == "administer" \in mix /\ edits < MaxEdits /\ edits' = edits + 1

CreateAccount(p) ==
    /\ owner[p] = 0 /\ Len(users) < MaxUsers
    /\ users' = Append(users, NewUser)
    /\ owner' = [owner EXCEPT ![p] = Len(users')]
    /\ Edit /\ UNCHANGED <<codes, pending, call, mix>>

ChangePhone(u, p) ==
    /\ owner[p] = 0
    /\ \E old \in PhonesOf(u) : owner' = [owner EXCEPT ![old] = 0, ![p] = u]
    /\ Edit /\ UNCHANGED <<codes, users, pending, call, mix>>

AdminResetsPassword(u) ==
    /\ users' = [users EXCEPT ![u].must = TRUE]
    /\ Edit /\ UNCHANGED <<codes, owner, pending, call, mix>>

SetStatus(u, status) ==
    /\ users[u].status # status
    /\ users' = [users EXCEPT ![u].status = status]
    /\ Edit /\ UNCHANGED <<codes, owner, pending, call, mix>>

(* Five minutes for a code, ten for a state or a binding. *)
CodeExpires(k) ==
    /\ codes[k].open
    /\ codes' = [codes EXCEPT ![k].open = FALSE]
    /\ UNCHANGED <<users, owner, pending, call, edits, mix>>
PendingExpires(n) ==
    /\ pending[n].open
    /\ pending' = [pending EXCEPT ![n].open = FALSE]
    /\ UNCHANGED <<codes, users, owner, call, edits, mix>>

(* An answered request is forgotten, and a process may die at any await. *)
Forget(c) ==
    /\ call[c] # Idle
    /\ call' = [call EXCEPT ![c] = Idle]
    /\ UNCHANGED <<codes, users, owner, pending, edits, mix>>

-----------------------------------------------------------------------------
Arrive(c) ==
    \/ \E p \in Phones : \/ \E purpose \in Purposes : AskForCode(c, p, purpose)
                         \/ \E s \in Subjects : MiniProgramLogin(c, p, s)
                         \/ \E k \in {k \in DOMAIN codes : codes[k].phone = p /\ codes[k].open} :
                              \/ \E op \in {"login", "adminLogin"} : UseCode(c, op, p, k)
                              \/ \E n \in DOMAIN pending : LinkPhone(c, p, k, n)
                              \/ \E u \in DOMAIN users :
                                   \/ ResetPassword(c, u, p, k)
                                   \/ \E n \in DOMAIN pending : BindIdentity(c, u, p, k, n)
                                   \/ \E i \in Identities : UnlinkIdentity(c, u, p, k, i)
    \/ \E n \in DOMAIN pending : pending[n].open /\ OAuthCallback(c, n)

Handle(c) ==
    \/ FindCode(c) \/ SpendCode(c) \/ BeginTransaction(c) \/ AbortTransaction(c)
    \/ ReserveCode(c) \/ LoginByPhone(c) \/ LoginByMiniProgram(c) \/ Link(c) \/ Bind(c) \/ Unlink(c)
    \/ SmsSent(c) \/ SmsFailed(c) \/ FindState(c) \/ ClaimState(c) \/ ExchangeFails(c)
    \/ \E s \in Subjects : CreateBinding(c, s)
    \/ ReplacePassword(c) \/ ClearMustChange(c)

Administer ==
    \/ \E p \in Phones : CreateAccount(p) \/ \E u \in DOMAIN users : ChangePhone(u, p)
    \/ \E u \in DOMAIN users : AdminResetsPassword(u) \/ \E s \in {"ACTIVE", "DISABLED"} : SetStatus(u, s)

Next ==
    \/ \E c \in Calls : Arrive(c) \/ Handle(c) \/ Forget(c)
    \/ OAuthStart \/ Administer \/ \E s \in Subjects : MiniProgramCallback(s)
    \/ \E k \in DOMAIN codes : CodeExpires(k)
    \/ \E n \in DOMAIN pending : PendingExpires(n)

Spec == Init /\ [][Next]_vars

-----------------------------------------------------------------------------
(* Whatever requests race with one code, at most one passes. *)
CodesAreSpentOnce == \A k \in DOMAIN codes : codes[k].granted <= 1

(* Two reservations that count at the same time do not exceed the limits. *)
ReservationsAreLimited ==
    Len(codes) <= DeviceLimit /\ \A p \in Phones : Active(p) <= PhoneLimit

(* First logins of one phone, links, phone changes and unlinks in any order: a
   phone has one user, and no user is left without a phone to log in with. *)
UsersKeepAPhone == \A u \in DOMAIN users : PhonesOf(u) # {}

(* A binding code is spent together with what it was for: a link that is refused,
   aborted or dies in between can be tried again with the same code. *)
LinksAreAllOrNothing ==
    [][\A k \in DOMAIN codes :
         codes[k].purpose = "PHONE_LINK" /\ codes'[k].granted > codes[k].granted
           => pending' # pending \/ owner' # owner]_vars

(* An identity passes from one user to another only by being given up first. *)
IdentitiesAreNotTaken ==
    [][\A i \in Identities : owner[i] # 0 => owner'[i] \in {0, owner[i]}]_vars

(* One authorization of a provider makes at most one binding. *)
StatesBindOnce ==
    \A n \in DOMAIN pending : Cardinality({m \in DOMAIN pending : pending[m].state = n}) <= 1

(* Links together: a code is spent with its link, and no link takes an identity away. *)
LinksAreSound == LinksAreAllOrNothing /\ IdentitiesAreNotTaken

(* The invariants of accounts together: codes are spent once and rationed, users
   can be reached, and an authorization is not used twice. *)
AccountsAreSound ==
    TypeOK /\ CodesAreSpentOnce /\ ReservationsAreLimited /\ UsersKeepAPhone /\ StatesBindOnce
=============================================================================
