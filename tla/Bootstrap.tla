------------------------------ MODULE Bootstrap ------------------------------
(***************************************************************************)
(* db:bootstrap: the first store and the accounts of the configuration,    *)
(* made or brought in line in one serializable transaction with three      *)
(* attempts. Its accounts are in use meanwhile: their owners log in and    *)
(* choose passwords, an administrator disables them, customers register.   *)
(***************************************************************************)
EXTENDS Naturals, Sequences, FiniteSets

CONSTANTS
    StoreIds, Codes, Names, Phones,
    Secrets,   \* the passwords a configuration may hold
    Own,       \* a password its user chose
    Configs,   \* [store, code, admin, merchant], an account is [name, phone, password]
    Jobs, Nothing,
    MaxPeople  \* bound: users

ASSUME BootstrapAssumption ==
    /\ Own \notin Secrets /\ Nothing \notin Secrets \cup Configs \cup Codes \cup {Own} /\ Names \cap Phones = {}
    /\ IsFiniteSet(Names) /\ IsFiniteSet(Phones)
    /\ Configs \subseteq [store: StoreIds, code: Codes, admin: [name: Names, phone: Phones, password: Secrets],
                          merchant: [name: Names, phone: Phones, password: Secrets]]

VARIABLES
    db,       \* what a transaction sees of stores, identities, credentials, users and sessions
    boot,     \* the transactions of runs
    clearing, \* users whose password is replaced and whose mustChangePassword is not cleared yet
    last,     \* the configuration applied last
    touched   \* an account was changed by hand since

bootVars == <<db, boot, clearing, last, touched>>

MAX_TRANSACTION_ATTEMPTS == 3
Identifiers == Names \cup Phones
Empty == [code |-> [s \in StoreIds |-> Nothing], owner |-> [i \in Identifiers |-> 0],
          password |-> [n \in Names |-> Nothing], people |-> <<>>, sessions |-> {}]
NoBoot == [config |-> Nothing, seen |-> Empty.owner, attempt |-> 0]

Roles == {<<"SUPER_ADMIN", "global">>, <<"ADMIN", "global">>} \cup {<<"MERCHANT", s>> : s \in StoreIds}
Databases ==
    [code: [StoreIds -> Codes \cup {Nothing}], owner: [Identifiers -> 0 .. Cardinality(Identifiers)],
     password: [Names -> Secrets \cup {Own, Nothing}],
     people: Seq([active: BOOLEAN, must: BOOLEAN, roles: SUBSET Roles]),
     sessions: SUBSET [user: 1 .. Cardinality(Identifiers), name: Names, with: Secrets \cup {Own}]]

BootstrapTypeOK ==
    /\ db \in Databases /\ clearing \subseteq DOMAIN db.people
    /\ last \in Configs \cup {Nothing} /\ touched \in BOOLEAN
    /\ boot \in [Jobs -> [config: Configs \cup {Nothing},
                          seen: [Identifiers -> 0 .. Cardinality(Identifiers)], attempt: 0 .. MAX_TRANSACTION_ATTEMPTS]]

BootstrapInit == db = Empty /\ boot = [j \in Jobs |-> NoBoot] /\ clearing = {} /\ last = Nothing /\ touched = FALSE

-----------------------------------------------------------------------------
(* validateBootstrapAccountsConfig *)
Distinct(c) ==
    /\ c.admin.name # c.merchant.name /\ c.admin.phone # c.merchant.phone
    /\ c.admin.password # c.merchant.password

(* Mutant: the account of one user may carry the phone of another. *)
AnyPhone(d, a) == FALSE
ConflictingUsers(d, a) == d.owner[a.name] # 0 /\ d.owner[a.phone] # 0 /\ d.owner[a.name] # d.owner[a.phone]

(* ensureRoles: the wanted roles replace all assignments of the same roles. *)
ensureRoles(existing, wanted) == {r \in existing : \A w \in wanted : r[1] # w[1]} \cup wanted

(* The name is the user's, and the phone when it is nobody's. *)
Identified(owner, a, u) == [owner EXCEPT ![a.name] = u, ![a.phone] = IF @ = 0 THEN u ELSE @]

(* auth_sessions after those of a user are revoked. *)
SessionsWithout(sessions, u) == {s \in sessions : s.user # u}

(* Mutants: every run resets its users; a new password leaves the sessions alone. *)
upsertAgain(d, a, roles) ==
    LET new == d.owner[a.name] = 0 /\ d.owner[a.phone] = 0
        u == IF new THEN Len(d.people) + 1 ELSE IF d.owner[a.name] # 0 THEN d.owner[a.name] ELSE d.owner[a.phone]
    IN [d EXCEPT !.people = IF new THEN Append(@, [active |-> TRUE, must |-> TRUE, roles |-> roles])
                            ELSE [@ EXCEPT ![u] = [active |-> TRUE, must |-> TRUE, roles |-> ensureRoles(@.roles, roles)]],
                 !.owner = Identified(@, a, u),
                 !.password[a.name] = a.password, !.sessions = SessionsWithout(@, u)]
upsertQuietly(d, a, roles) ==
    LET v == upsertAgain(d, a, roles)
    IN [v EXCEPT !.sessions = d.sessions,
                 !.people = [u \in DOMAIN @ |-> IF u \in DOMAIN d.people /\ d.password[a.name] = a.password
                                                THEN [@[u] EXCEPT !.must = d.people[u].must] ELSE @[u]]]

(* upsertBootstrapUser: by account name, else by phone, else a new user. What was
   changed for an existing user ends the user's sessions. *)
upsertBootstrapUser(d, a, roles) ==
    LET new == d.owner[a.name] = 0 /\ d.owner[a.phone] = 0
        u == IF new THEN Len(d.people) + 1 ELSE IF d.owner[a.name] # 0 THEN d.owner[a.name] ELSE d.owner[a.phone]
        old == IF new THEN [active |-> TRUE, must |-> FALSE, roles |-> {}] ELSE d.people[u]
        reset == d.password[a.name] # a.password
        user == [active |-> TRUE, must |-> old.must \/ new \/ reset, roles |-> ensureRoles(old.roles, roles)]
        changed == reset \/ user # old \/ d.owner[a.name] = 0 \/ d.owner[a.phone] = 0
    IN [d EXCEPT !.people = IF new THEN Append(@, user) ELSE [@ EXCEPT ![u] = user],
                 !.owner = Identified(@, a, u),
                 !.password[a.name] = a.password,
                 !.sessions = IF changed THEN SessionsWithout(@, u) ELSE @]

(* ensureProductionStore: id and code belong together for good. *)
StoreConflict(d, c) ==
    \/ \E s \in StoreIds \ {c.store} : d.code[s] = c.code
    \/ d.code[c.store] \notin {Nothing, c.code}

WithAdmin(d, c) == upsertBootstrapUser(d, c.admin, {<<"SUPER_ADMIN", "global">>, <<"ADMIN", "global">>})
Refused(d, c) == StoreConflict(d, c) \/ ConflictingUsers(d, c.admin) \/ ConflictingUsers(WithAdmin(d, c), c.merchant)
Bootstrapped(d, c) ==
    [upsertBootstrapUser(WithAdmin(d, c), c.merchant, {<<"MERCHANT", c.store>>}) EXCEPT !.code[c.store] = c.code]

(* What the transaction read it has locked against writes, but others may have
   inserted the identities it did not find. Mutant: it is not serializable. *)
AnyIdentities(seen) == TRUE
IsSerial(seen) == seen = db.owner

StartBootstrap(j, c) ==
    /\ boot[j] = NoBoot /\ Distinct(c)
    /\ boot' = [boot EXCEPT ![j] = [config |-> c, seen |-> db.owner, attempt |-> 1]]
    /\ UNCHANGED <<db, clearing, last, touched>>

WhatItRead(j) == [db EXCEPT !.owner = boot[j].seen]
Commits(j) == boot[j] # NoBoot /\ ~Refused(WhatItRead(j), boot[j].config) /\ IsSerial(boot[j].seen)

(* A write conflict starts the transaction again, any other error ends the run. *)
CommitBootstrap(j) ==
    LET b == boot[j] IN
    /\ b # NoBoot
    /\ IF Commits(j)
         THEN /\ db' = Bootstrapped(WhatItRead(j), b.config) /\ last' = b.config /\ touched' = FALSE
              /\ boot' = [boot EXCEPT ![j] = NoBoot]
         ELSE /\ boot' = [boot EXCEPT ![j] = IF Refused(WhatItRead(j), b.config) \/ b.attempt = MAX_TRANSACTION_ATTEMPTS THEN NoBoot
                                            ELSE [b EXCEPT !.seen = db.owner, !.attempt = @ + 1]]
              /\ UNCHANGED <<db, last, touched>>
    /\ UNCHANGED clearing

BootstrapDies(j) ==
    /\ boot[j] # NoBoot /\ boot' = [boot EXCEPT ![j] = NoBoot]
    /\ UNCHANGED <<db, clearing, last, touched>>

-----------------------------------------------------------------------------
(* The running system, between and during the runs. *)
UseAccount(n) ==
    LET u == db.owner[n] IN
    /\ u # 0 /\ db.people[u].active /\ db.people[u].roles # {} /\ db.password[n] # Nothing
    /\ db' = [db EXCEPT !.sessions = @ \cup {[user |-> u, name |-> n, with |-> db.password[n]]}]
    /\ UNCHANGED <<boot, clearing, last, touched>>

(* passwords.replace ends the sessions; the flag is cleared by a write of its own. *)
ChoosePassword(n) ==
    /\ \E s \in db.sessions : s.name = n /\ s.user \notin clearing
    /\ db' = [db EXCEPT !.password[n] = Own, !.sessions = SessionsWithout(@, db.owner[n])]
    /\ clearing' = clearing \cup {db.owner[n]} /\ touched' = TRUE
    /\ UNCHANGED <<boot, last>>

ClearMustChange(u) ==
    /\ u \in clearing /\ clearing' = clearing \ {u}
    /\ db' = [db EXCEPT !.people[u].must = FALSE]
    /\ UNCHANGED <<boot, last, touched>>

DisableUser(u) ==
    /\ u \in DOMAIN db.people /\ db.people[u].active
    /\ db' = [db EXCEPT !.people[u].active = FALSE, !.sessions = SessionsWithout(@, u)]
    /\ touched' = TRUE
    /\ UNCHANGED <<boot, clearing, last>>

RegisterCustomer(p) ==
    /\ db.owner[p] = 0 /\ Len(db.people) < MaxPeople
    /\ db' = [db EXCEPT !.people = Append(@, [active |-> TRUE, must |-> FALSE, roles |-> {}]), !.owner[p] = Len(db.people) + 1]
    /\ UNCHANGED <<boot, clearing, last, touched>>

UsersStep ==
    \/ \E n \in Names : UseAccount(n) \/ ChoosePassword(n)
    \/ \E u \in 1 .. Cardinality(Identifiers) : ClearMustChange(u) \/ DisableUser(u)
    \/ \E p \in Phones : RegisterCustomer(p)
BootstrapStep(j) == (\E c \in Configs : StartBootstrap(j, c)) \/ CommitBootstrap(j) \/ BootstrapDies(j)

-----------------------------------------------------------------------------
(* A run for accounts nobody touched since they were brought in line is    *)
(* accepted and changes nothing: no session ends, no password is reset and *)
(* nobody is asked to choose a password again.                             *)
Kept == last # Nothing /\ ~touched
RerunIsQuiet == Kept => ~Refused(db, last) /\ Bootstrapped(db, last) = db

(* Whoever works in an account entered it with the password it has now.    *)
LivePasswordsAreCurrent == \A s \in db.sessions : db.password[s.name] = s.with

(* The phone that recovers a configured account is its owner's.            *)
RecoveryPhoneIsTheOwners ==
    Kept => \A a \in {last.admin, last.merchant} : db.owner[a.name] = db.owner[a.phone]

(* Nobody loses an account name or a phone to a run, or to a transaction   *)
(* that had not seen it.                                                   *)
IdentitiesAreKept == [][\A i \in Identifiers : db.owner[i] # 0 => db'.owner[i] = db.owner[i]]_bootVars

(* Accounts keep their owner, their sessions know their password, and a run that has
   nothing to do does nothing. *)
AccountsAreInLine == RerunIsQuiet /\ LivePasswordsAreCurrent /\ RecoveryPhoneIsTheOwners
=============================================================================
