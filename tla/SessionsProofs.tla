--------------------------- MODULE SessionsProofs ---------------------------
(***************************************************************************)
(* Sessions for any number of pages, requests, tokens and invalidations.   *)
(* The invariant says in what sense what a call has read is still true: a  *)
(* version that is still the user's vouches for his roles, and a token     *)
(* that is still current and active vouches for the version.               *)
(***************************************************************************)
EXTENDS Sessions, SequenceTheorems, TLAPS

Reading(c) == call[c].pc \in {"roles", "rotate", "create"}
Refreshing(c) == call[c].op = "refresh"

(* What was read of the user is complete when it is used, and not from the future. *)
SeenHolds(c) ==
    Reading(c) =>
        /\ call[c].seen \in SeenUser
        /\ call[c].seen.version <= user.version
        /\ call[c].pc # "roles" => call[c].seen.roles \in Roles /\ call[c].seen.status = "ACTIVE"
        /\ call[c].seen.version = user.version =>
              /\ user.must => call[c].seen.must
              /\ call[c].pc # "roles" => call[c].seen.roles = user.roles

Current(claims) ==
    claims # None => /\ claims.version <= user.version
                     /\ claims.version = user.version => /\ claims.roles = user.roles
                                                         /\ user.must => claims.must

(* While nobody has touched the session of a refresh, nothing it read has changed either. *)
Untouched(c) == row.status = "ACTIVE" /\ row.token = call[c].raw
RefreshHolds(c) ==
    Refreshing(c) /\ Untouched(c) =>
        /\ call[c].pc \in {"user", "roles", "rotate"} => call[c].history = row.history
        /\ call[c].pc \in {"roles", "rotate"} =>
              /\ call[c].seen.version = user.version
              /\ call[c].seen.status = "ACTIVE" => user.status = "ACTIVE"

StepsOfOp(c) ==
    /\ call[c].pc \in {"find", "rotate", "race", "replay", "replayed"} => Refreshing(c)
    /\ call[c].pc = "create" => call[c].op = "login"
    /\ call[c].pc \in {"user", "roles"} => call[c].op \in {"refresh", "login"}

CallHolds(c) ==
    /\ SeenHolds(c) /\ Current(call[c].claims) /\ RefreshHolds(c) /\ StepsOfOp(c)
    /\ call[c].raw <= issued /\ call[c].token <= issued

PagesHold == (\A t \in Tabs : Current(tab[t].access)) /\ jar <= issued

SessionInv == TypeOK /\ PagesHold /\ row.token <= issued /\ \A c \in Calls : CallHolds(c)

(* The window of the last tokens holds nothing new. *)
LEMMA LastTokensFacts ==
    ASSUME NEW s \in Seq(Nat), NEW x \in Nat, SessionsAssumption
    PROVE  /\ LastTokens(Append(s, x)) \in Seq(Nat)
           /\ \A i \in DOMAIN LastTokens(Append(s, x)) :
                 LastTokens(Append(s, x))[i] = x \/ \E j \in DOMAIN s : s[j] = LastTokens(Append(s, x))[i]
<1> DEFINE a == Append(s, x)
<1>1. a \in Seq(Nat) /\ Len(a) = Len(s) + 1
      /\ a[Len(a)] = x /\ \A j \in 1 .. Len(s) : a[j] = s[j]
  OBVIOUS
<1> HIDE DEF a
<1>2. CASE Len(a) > HistorySize
  <2> DEFINE m == Len(a) - HistorySize + 1
  <2>1. m \in Nat /\ m >= 1 /\ m <= Len(a) /\ HistorySize \in Nat \ {0}
    BY <1>1, <1>2 DEF SessionsAssumption
  <2>2. LastTokens(a) = SubSeq(a, m, Len(a))
    BY <1>2 DEF LastTokens, m
  <2> HIDE DEF m
  <2> DEFINE w == SubSeq(a, m, Len(a))
  <2>3. m \in Int /\ Len(a) \in Int /\ \A i \in m .. Len(a) : a[i] \in Nat
    BY <1>1, <2>1
  <2>4. /\ w \in Seq(Nat) /\ Len(w) = IF m <= Len(a) THEN Len(a) - m + 1 ELSE 0
        /\ \A i \in 1 .. Len(a) - m + 1 : w[i] = a[m + i - 1]
    BY <2>3, SubSeqProperties, SMT
  <2>5. Len(w) = Len(a) - m + 1
    BY <2>1, <2>4
  <2> HIDE DEF w
  <2>6. ASSUME NEW i \in DOMAIN w PROVE w[i] = x \/ \E j \in DOMAIN s : s[j] = w[i]
    <3>1. i \in 1 .. Len(a) - m + 1
      BY <2>4, <2>5
    <3>2. w[i] = a[m + i - 1] /\ m + i - 1 \in 1 .. Len(a)
      <4>1. m + i - 1 \in 1 .. Len(a)
        <5>1. Len(a) \in Nat /\ i \in Nat /\ 1 <= i /\ i <= Len(a) - m + 1
          BY <1>1, <2>1, <3>1
        <5>2. QED
          BY <2>1, <5>1
      <4>2. QED
        BY <2>4, <3>1, <4>1, Zenon
    <3>3. \A k \in 1 .. Len(a) : a[k] = x \/ (k \in DOMAIN s /\ a[k] = s[k])
      <4>1. DOMAIN s = 1 .. Len(s) /\ Len(s) \in Nat
        OBVIOUS
      <4>2. \A k \in 1 .. Len(a) : k = Len(a) \/ k \in 1 .. Len(s)
        BY <1>1, <4>1
      <4>3. QED
        BY <1>1, <4>1, <4>2, Zenon
    <3>4. QED
      BY <3>2, <3>3, Zenon
  <2>7. QED
    BY <2>2, <2>4, <2>6 DEF a, w
<1>3. CASE ~(Len(a) > HistorySize)
  <2>1. LastTokens(a) = a
    BY <1>3 DEF LastTokens
  <2>2. QED
    BY <1>1, <2>1 DEF a
<1>4. QED
  BY <1>2, <1>3

-----------------------------------------------------------------------------
(* How a step changes its call, field by field. *)
Becomes(c, op, pc, t, raw, seen, history, token, claims) ==
    /\ \A d \in Calls : d # c => call'[d] = call[d]
    /\ call'[c].op = op /\ call'[c].pc = pc /\ call'[c].tab = t /\ call'[c].raw = raw
    /\ call'[c].seen = seen /\ call'[c].history = history
    /\ call'[c].token = token /\ call'[c].claims = claims
Moves(c, pc) ==
    Becomes(c, call[c].op, pc, call[c].tab, call[c].raw, call[c].seen, call[c].history,
            call[c].token, call[c].claims)
Ends(c, pc, token, claims) == Becomes(c, call[c].op, pc, call[c].tab, 0, None, <<>>, token, claims)

LEMMA EmptyHistory == <<>> \in Seq(Nat)
OBVIOUS

LEMMA GotoFacts ==
    ASSUME TypeOK, NEW c \in Calls, NEW pc \in Steps, Goto(c, pc)
    PROVE  call' \in [Calls -> Call] /\ Moves(c, pc)
<1>1. call \in [Calls -> Call]
  BY DEF TypeOK
<1>2. call' = [call EXCEPT ![c] = [call[c] EXCEPT !.pc = pc]]
  BY DEF Goto
<1>3. [call[c] EXCEPT !.pc = pc] \in Call
  BY <1>1 DEF Call
<1>4. QED
  BY <1>1, <1>2, <1>3 DEF Moves, Becomes, Call

LEMMA EndFacts ==
    ASSUME TypeOK, NEW c \in Calls, NEW pc \in Steps, NEW token \in Nat,
           NEW claims \in Claims \cup {None}, End(c, pc, token, claims)
    PROVE  call' \in [Calls -> Call] /\ Ends(c, pc, token, claims)
BY EmptyHistory DEF TypeOK, End, Ends, Becomes, Idle, Call

LEMMA SendFacts ==
    ASSUME TypeOK, NEW c \in Calls, NEW t \in Tabs, NEW op \in Ops, NEW pc \in Steps, NEW raw \in Nat,
           NEW claims \in Claims \cup {None}, Send(c, t, op, pc, raw, claims)
    PROVE  /\ call' \in [Calls -> Call] /\ call[c].pc = "none"
           /\ Becomes(c, op, pc, t, raw, None, <<>>, 0, claims)
BY EmptyHistory DEF TypeOK, Send, Becomes, Idle, Call

LEMMA IdleFacts ==
    ASSUME TypeOK, NEW c \in Calls, call' = [call EXCEPT ![c] = Idle]
    PROVE  call' \in [Calls -> Call] /\ Becomes(c, "none", "none", None, 0, None, <<>>, 0, None)
BY EmptyHistory DEF TypeOK, Becomes, Idle, Call, Ops, Steps

-----------------------------------------------------------------------------
(* What each handler does to the call it works on. *)
LEMMA FindFacts ==
    ASSUME SessionInv, NEW c \in Calls, FindSession(c)
    PROVE  /\ call' \in [Calls -> Call]
           /\ \/ /\ row.token = call[c].raw
                 /\ Becomes(c, "refresh", "user", call[c].tab, call[c].raw, call[c].seen, row.history,
                            call[c].token, call[c].claims)
              \/ Live /\ row.token # call[c].raw /\ Replaced(call[c].raw) /\ Moves(c, "replay")
              \/ Ends(c, "rejected", 0, None)
<1>1. TypeOK
  BY DEF SessionInv
<1>2. CASE Live /\ row.token = call[c].raw
  <2>1. call' = [call EXCEPT ![c] = [call[c] EXCEPT !.pc = "user", !.history = row.history]]
    BY <1>1, <1>2 DEF FindSession, TypeOK, Call
  <2>2. call[c] \in Call /\ row.history \in Seq(Nat) /\ call[c].op = "refresh" /\ call \in [Calls -> Call]
    BY <1>1, <1>2 DEF FindSession, At, TypeOK, Row
  <2>3. [call[c] EXCEPT !.pc = "user", !.history = row.history] \in Call
    BY <2>2 DEF Call, Steps
  <2>4. QED
    BY <1>2, <2>1, <2>2, <2>3 DEF Becomes, Call
<1>3. CASE ~(Live /\ row.token = call[c].raw) /\ Live /\ Replaced(call[c].raw)
  BY <1>1, <1>3, GotoFacts DEF FindSession, Steps
<1>4. CASE ~(Live /\ row.token = call[c].raw) /\ ~(Live /\ Replaced(call[c].raw))
  BY <1>1, <1>4, EndFacts DEF FindSession, Reject, Steps
<1>5. QED
  BY <1>2, <1>3, <1>4

LEMMA ReadUserFacts ==
    ASSUME SessionInv, NEW c \in Calls, ReadUser(c)
    PROVE  LET seen == [status |-> user.status, version |-> user.version, roles |-> None, must |-> user.must] IN
           /\ call' \in [Calls -> Call]
           /\ Becomes(c, call[c].op, "roles", call[c].tab, call[c].raw, seen, call[c].history,
                      call[c].token, call[c].claims)
BY DEF SessionInv, ReadUser, Becomes, TypeOK, Call, User, SeenUser, Steps

LEMMA ReadRolesFacts ==
    ASSUME SessionInv, NEW c \in Calls, ReadRoles(c)
    PROVE  /\ call' \in [Calls -> Call]
           /\ \/ /\ call[c].seen.status = "ACTIVE"
                 /\ Becomes(c, call[c].op, IF call[c].op = "login" THEN "create" ELSE "rotate", call[c].tab,
                            call[c].raw, [call[c].seen EXCEPT !.roles = user.roles], call[c].history,
                            call[c].token, call[c].claims)
              \/ Ends(c, "rejected", 0, None)
<1>1. TypeOK /\ call[c].seen \in SeenUser
  BY DEF SessionInv, ReadRoles, CallHolds, SeenHolds, Reading
<1>2. CASE call[c].seen.status = "ACTIVE"
  <2>1. [call[c].seen EXCEPT !.roles = user.roles] \in SeenUser
    BY <1>1 DEF TypeOK, User, SeenUser
  <2>2. call' = [call EXCEPT ![c] = [call[c] EXCEPT !.seen = [call[c].seen EXCEPT !.roles = user.roles],
                               !.pc = IF call[c].op = "login" THEN "create" ELSE "rotate"]]
    BY <1>1, <1>2 DEF ReadRoles, TypeOK, Call
  <2>3. QED
    BY <1>1, <1>2, <2>1, <2>2 DEF Becomes, TypeOK, Call, Steps
<1>3. CASE call[c].seen.status # "ACTIVE"
  BY <1>1, <1>3, EndFacts DEF ReadRoles, Reject, Steps
<1>4. QED
  BY <1>2, <1>3

LEMMA SignFacts ==
    ASSUME SessionInv, NEW c \in Calls, call[c].pc \in {"rotate", "create"}, NEW token \in Nat, Sign(c, token)
    PROVE  LET seen == call[c].seen
               claims == [version |-> seen.version, roles |-> seen.roles, must |-> seen.must]
           IN  call' \in [Calls -> Call] /\ Ends(c, "ok", token, claims)
<1>1. TypeOK /\ call[c].seen \in SeenUser /\ call[c].seen.roles \in Roles
  BY DEF SessionInv, CallHolds, SeenHolds, Reading
<1>2. [version |-> call[c].seen.version, roles |-> call[c].seen.roles, must |-> call[c].seen.must] \in Claims
  BY <1>1 DEF SeenUser, Claims
<1>3. QED
  BY <1>1, <1>2, EndFacts DEF Sign, Steps

LEMMA EndingFacts ==
    ASSUME SessionInv, NEW c \in Calls,
           LookForWinner(c) \/ RevokeReplayed(c) \/ RefuseLogin(c) \/ CheckLogout(c) \/ RevokeSession(c)
    PROVE  /\ call' \in [Calls -> Call]
           /\ \/ LookForWinner(c) /\ Replaced(call[c].raw) /\ Moves(c, "replay")
              \/ CheckLogout(c) /\ Moves(c, "revoke")
              \/ RevokeReplayed(c) /\ Ends(c, "replayed", 0, None)
              \/ (LookForWinner(c) \/ RefuseLogin(c) \/ CheckLogout(c)) /\ Ends(c, "rejected", 0, None)
              \/ RevokeSession(c) /\ Ends(c, "ok", 0, None)
<1>1. TypeOK
  BY DEF SessionInv
<1>2. CASE LookForWinner(c)
  BY <1>1, <1>2, GotoFacts, EndFacts DEF LookForWinner, Reject, Steps
<1>3. CASE RevokeReplayed(c) \/ RefuseLogin(c) \/ RevokeSession(c)
  BY <1>1, <1>3, EndFacts DEF RevokeReplayed, RefuseLogin, RevokeSession, Reject, Steps
<1>4. CASE CheckLogout(c)
  BY <1>1, <1>4, GotoFacts, EndFacts DEF CheckLogout, Reject, Steps
<1>5. QED
  BY <1>2, <1>3, <1>4

(* What a page may hold, or a call carry, is a member of its type. *)
LEMMA Members ==
    ASSUME SessionInv, NEW c \in Calls
    PROVE  /\ call[c] \in Call /\ call[c].raw \in Nat /\ call[c].token \in Nat
           /\ call[c].claims \in Claims \cup {None} /\ call[c].op \in Ops /\ call[c].pc \in Steps
           /\ call[c].history \in Seq(Nat) /\ call[c].tab \in Tabs \cup {None}
BY DEF SessionInv, TypeOK, Call


-----------------------------------------------------------------------------
LEMMA InitSessions == Init => SessionInv
<1> SUFFICES ASSUME Init PROVE SessionInv
  OBVIOUS
<1>1. Idle \in Call
  BY EmptyHistory DEF Idle, Call, Ops, Steps
<1>2. row \in Row /\ user \in User
  BY EmptyHistory DEF Init, Row, User
<1>3. TypeOK
  BY <1>1, <1>2 DEF Init, TypeOK, Tab
<1>4. PagesHold /\ row.token <= issued /\ \A c \in Calls : CallHolds(c)
  BY DEF Init, Idle, PagesHold, CallHolds, SeenHolds, RefreshHolds, StepsOfOp, Current, Reading, Refreshing
<1>5. QED
  BY <1>3, <1>4 DEF SessionInv

(* A step that changes one call and no row concerns the invariant only there. *)
LEMMA OthersHold ==
    ASSUME SessionInv, NEW c \in Calls, UNCHANGED <<user, row, issued>>,
           \A d \in Calls : d # c => call'[d] = call[d], TypeOK', PagesHold', CallHolds(c)'
    PROVE  SessionInv'
<1>1. ASSUME NEW d \in Calls, d # c PROVE CallHolds(d)'
  <2>1. CallHolds(d) /\ call'[d] = call[d]
    BY <1>1 DEF SessionInv
  <2>2. QED
    BY <2>1 DEF CallHolds, SeenHolds, RefreshHolds, Untouched, StepsOfOp, Current, Reading, Refreshing
<1>2. QED
  BY <1>1 DEF SessionInv

(* A call that ends keeps nothing but its answer. *)
LEMMA EndHolds ==
    ASSUME SessionInv, NEW c \in Calls, NEW pc \in {"ok", "rejected", "replayed"}, NEW token, NEW claims,
           Ends(c, pc, token, claims), pc = "replayed" => Refreshing(c),
           user' = user, 0 <= issued', token <= issued', Current(claims)
    PROVE  CallHolds(c)'
BY DEF Ends, Becomes, CallHolds, SeenHolds, RefreshHolds, StepsOfOp, Current, Reading, Refreshing

LEMMA ReadsStep ==
    ASSUME SessionInv, NEW c \in Calls, FindSession(c) \/ ReadUser(c) \/ ReadRoles(c)
    PROVE  SessionInv'
<1> UNCHANGED <<user, row, issued, jar, tab, lost>>
  BY DEF FindSession, ReadUser, ReadRoles
<1>1. TypeOK /\ CallHolds(c) /\ call[c].raw \in Nat /\ call[c].seen \in SeenUser \cup {None} /\ issued \in Nat
  BY DEF SessionInv, TypeOK, Call
<1>2. call' \in [Calls -> Call] /\ \A d \in Calls : d # c => call'[d] = call[d]
  BY FindFacts, ReadUserFacts, ReadRolesFacts DEF Moves, Ends, Becomes
<1>3. TypeOK' /\ PagesHold'
  BY <1>1, <1>2 DEF SessionInv, TypeOK, PagesHold, Current
<1>4. ASSUME Ends(c, "rejected", 0, None) PROVE CallHolds(c)'
  BY <1>1, <1>4, EndHolds DEF Current
<1>5. ASSUME FindSession(c), ~Ends(c, "rejected", 0, None) PROVE CallHolds(c)'
  BY <1>1, <1>5, FindFacts DEF FindSession, At, Moves, Becomes, CallHolds, SeenHolds, RefreshHolds, StepsOfOp,
     Current, Reading, Refreshing
<1>6. ASSUME ReadUser(c) PROVE CallHolds(c)'
  <2>1. user \in User /\ None \notin Roles
    BY <1>1, SessionsAssumption DEF TypeOK
  <2>2. call[c].pc = "user" /\ call'[c].pc = "roles" /\ call'[c].op = call[c].op /\ call'[c].raw = call[c].raw
        /\ call'[c].history = call[c].history /\ call'[c].token = call[c].token /\ call'[c].claims = call[c].claims
        /\ call'[c].seen = [status |-> user.status, version |-> user.version, roles |-> None, must |-> user.must]
    BY <1>6, ReadUserFacts DEF ReadUser, Becomes
  <2>3. call'[c].seen \in SeenUser /\ call'[c].seen.version <= user.version
    BY <2>1, <2>2 DEF User, SeenUser
  <2>4. SeenHolds(c)'
    BY <2>2, <2>3 DEF SeenHolds, Reading
  <2>5. QED
    BY <1>1, <2>2, <2>4 DEF CallHolds, RefreshHolds, Untouched, StepsOfOp, Current, Refreshing
<1>7. ASSUME ReadRoles(c), ~Ends(c, "rejected", 0, None) PROVE CallHolds(c)'
  <2>1. call[c].pc = "roles" /\ call[c].seen \in SeenUser
    BY <1>1, <1>7 DEF ReadRoles, CallHolds, SeenHolds, Reading
  <2>2. /\ call[c].seen.status = "ACTIVE" /\ call'[c].op = call[c].op /\ call'[c].raw = call[c].raw
        /\ call'[c].pc = (IF call[c].op = "login" THEN "create" ELSE "rotate")
        /\ call'[c].seen = [call[c].seen EXCEPT !.roles = user.roles]
        /\ call'[c].history = call[c].history /\ call'[c].token = call[c].token /\ call'[c].claims = call[c].claims
    BY <1>7, ReadRolesFacts DEF Becomes
  <2>3. /\ call'[c].seen \in SeenUser /\ call'[c].seen.roles = user.roles /\ user.roles \in Roles
        /\ call'[c].seen.version = call[c].seen.version /\ call'[c].seen.status = call[c].seen.status
        /\ call'[c].seen.must = call[c].seen.must
    BY <1>1, <2>1, <2>2 DEF TypeOK, User, SeenUser
  <2>4. SeenHolds(c)'
    BY <1>1, <2>1, <2>2, <2>3 DEF CallHolds, SeenHolds, Reading
  <2>5. RefreshHolds(c)' /\ StepsOfOp(c)'
    BY <1>1, <2>1, <2>2, <2>3 DEF CallHolds, RefreshHolds, Untouched, StepsOfOp, Refreshing
  <2>6. QED
    BY <1>1, <2>2, <2>4, <2>5 DEF CallHolds, Current
<1>8. CallHolds(c)'
  BY <1>4, <1>5, <1>6, <1>7
<1>9. QED
  BY <1>2, <1>3, <1>8, OthersHold


LEMMA RotateStep == ASSUME SessionInv, NEW c \in Calls, RotateToken(c) PROVE SessionInv'
<1>1. TypeOK /\ CallHolds(c) /\ call[c] \in Call /\ issued \in Nat /\ user \in User
  BY DEF SessionInv, TypeOK
<1>2. CASE ~CanRotate(c)
  <2>1. call' \in [Calls -> Call] /\ Moves(c, "race") /\ UNCHANGED <<user, row, issued, jar, tab, lost>>
    BY <1>1, <1>2, GotoFacts DEF RotateToken, Steps
  <2>2. TypeOK' /\ PagesHold'
    BY <1>1, <2>1 DEF SessionInv, TypeOK, PagesHold, Current
  <2>3. CallHolds(c)'
    BY <1>1, <2>1 DEF RotateToken, At, Moves, Becomes, CallHolds, SeenHolds, RefreshHolds, StepsOfOp,
       Current, Reading, Refreshing
  <2>4. QED
    BY <2>1, <2>2, <2>3, OthersHold DEF Moves, Becomes
<1>3. CASE CanRotate(c)
  <2>1. /\ issued' = issued + 1 /\ Sign(c, issued') /\ UNCHANGED <<user, jar, tab, lost>>
        /\ row' = [row EXCEPT !.token = issued', !.history = LastTokens(Append(call[c].history, call[c].raw))]
        /\ call[c].op = "refresh" /\ call[c].pc = "rotate"
    BY <1>3 DEF RotateToken, At
  <2>2. call' \in [Calls -> Call] /\
        Ends(c, "ok", issued', [version |-> call[c].seen.version, roles |-> call[c].seen.roles, must |-> call[c].seen.must])
    BY <1>1, <2>1, SignFacts
  <2>3. row' \in Row /\ row'.token = issued'
    <3>1. LastTokens(Append(call[c].history, call[c].raw)) \in Seq(Nat)
      BY <1>1, LastTokensFacts, SessionsAssumption DEF Call
    <3>2. issued' \in Nat /\ row \in Row
      BY <1>1, <2>1 DEF TypeOK
    <3> DEFINE kept == LastTokens(Append(call[c].history, call[c].raw))
    <3> HIDE DEF kept
    <3>3. kept \in Seq(Nat) /\ row' = [row EXCEPT !.token = issued', !.history = kept]
      BY <2>1, <3>1 DEF kept
    <3>4. QED
      BY <3>2, <3>3 DEF Row
  <2>4. TypeOK' /\ PagesHold' /\ row'.token <= issued'
    BY <1>1, <2>1, <2>2, <2>3 DEF SessionInv, TypeOK, PagesHold, Current
  <2>5. CallHolds(c)'
    <3>1. Current([version |-> call[c].seen.version, roles |-> call[c].seen.roles, must |-> call[c].seen.must])
      BY <1>1, <2>1 DEF CallHolds, SeenHolds, Reading, Current
    <3>2. QED
      BY <1>1, <2>1, <2>2, <3>1, EndHolds
  <2>6. ASSUME NEW d \in Calls, d # c PROVE CallHolds(d)'
    <3>1. CallHolds(d) /\ call'[d] = call[d] /\ call[d].raw \in Nat /\ call[d].token \in Nat
      BY <2>2, <2>6, Members DEF SessionInv, Ends, Becomes
    <3>2. call[d].raw <= issued' /\ call[d].token <= issued' /\ call[d].raw # row'.token
      BY <1>1, <2>1, <2>3, <3>1 DEF CallHolds
    <3>3. QED
      BY <2>1, <3>1, <3>2 DEF CallHolds, SeenHolds, RefreshHolds, Untouched, StepsOfOp, Current, Reading, Refreshing
  <2>7. QED
    BY <2>4, <2>5, <2>6 DEF SessionInv
<1>4. QED
  BY <1>2, <1>3

LEMMA LoginStep == ASSUME SessionInv, NEW c \in Calls, CreateSession(c) PROVE SessionInv'
<1>1. TypeOK /\ CallHolds(c) /\ call[c] \in Call /\ issued \in Nat /\ user \in User
  BY DEF SessionInv, TypeOK
<1>2. /\ issued' = issued + 1 /\ Sign(c, issued') /\ UNCHANGED <<user, jar, tab, lost>>
      /\ row' = [status |-> "ACTIVE", token |-> issued', history |-> <<>>, expired |-> FALSE]
      /\ call[c].op = "login" /\ call[c].pc = "create"
  BY DEF CreateSession, At
<1>3. call' \in [Calls -> Call] /\
      Ends(c, "ok", issued', [version |-> call[c].seen.version, roles |-> call[c].seen.roles, must |-> call[c].seen.must])
  BY <1>1, <1>2, SignFacts
<1>4. row' \in Row /\ row'.token = issued'
  BY <1>1, <1>2, EmptyHistory DEF Row
<1>5. TypeOK' /\ PagesHold' /\ row'.token <= issued'
  BY <1>1, <1>2, <1>3, <1>4 DEF SessionInv, TypeOK, PagesHold, Current
<1>6. CallHolds(c)'
  <2>1. Current([version |-> call[c].seen.version, roles |-> call[c].seen.roles, must |-> call[c].seen.must])
    BY <1>1, <1>2 DEF CallHolds, SeenHolds, Reading, Current
  <2>2. QED
    BY <1>1, <1>2, <1>3, <2>1, EndHolds
<1>7. ASSUME NEW d \in Calls, d # c PROVE CallHolds(d)'
  <2>1. CallHolds(d) /\ call'[d] = call[d] /\ call[d].raw \in Nat /\ call[d].token \in Nat
    BY <1>3, <1>7, Members DEF SessionInv, Ends, Becomes
  <2>2. call[d].raw <= issued' /\ call[d].token <= issued' /\ call[d].raw # row'.token
    BY <1>1, <1>2, <1>4, <2>1 DEF CallHolds
  <2>3. QED
    BY <1>2, <2>1, <2>2 DEF CallHolds, SeenHolds, RefreshHolds, Untouched, StepsOfOp, Current, Reading, Refreshing
<1>8. QED
  BY <1>5, <1>6, <1>7 DEF SessionInv

(* A session that is revoked makes every refresh of it touched. *)
LEMMA RevokedHolds ==
    ASSUME SessionInv, NEW d \in Calls, row' = Revoked(row), UNCHANGED <<user, issued>>, call'[d] = call[d]
    PROVE  CallHolds(d)' /\ row' \in Row /\ row'.token = row.token
<1>1. row \in Row /\ CallHolds(d)
  BY DEF SessionInv, TypeOK
<1>2. row' \in Row /\ row'.token = row.token /\ row'.status # "ACTIVE"
  BY <1>1 DEF Revoked, Row
<1>3. CallHolds(d)'
  BY <1>1, <1>2 DEF CallHolds, SeenHolds, RefreshHolds, Untouched, StepsOfOp, Current, Reading, Refreshing
<1>4. QED
  BY <1>2, <1>3

LEMMA EndingStep ==
    ASSUME SessionInv, NEW c \in Calls,
           LookForWinner(c) \/ RevokeReplayed(c) \/ RefuseLogin(c) \/ CheckLogout(c) \/ RevokeSession(c)
    PROVE  SessionInv'
<1> UNCHANGED <<user, issued, jar, tab, lost>>
  BY DEF LookForWinner, RevokeReplayed, RefuseLogin, CheckLogout, RevokeSession
<1>1. TypeOK /\ CallHolds(c) /\ issued \in Nat
  BY DEF SessionInv, TypeOK
<1>2. call' \in [Calls -> Call] /\ \A d \in Calls : d # c => call'[d] = call[d]
  BY EndingFacts DEF Moves, Ends, Becomes
<1>3. CASE row' = row
  <2>1. TypeOK' /\ PagesHold'
    BY <1>1, <1>2, <1>3 DEF SessionInv, TypeOK, PagesHold, Current
  <2>2. ASSUME NEW pc \in {"ok", "rejected", "replayed"}, Ends(c, pc, 0, None), pc = "replayed" => Refreshing(c)
        PROVE  CallHolds(c)'
    BY <1>1, <2>2, EndHolds DEF Current
  <2>3. ASSUME NEW pc \in {"replay", "revoke"}, Moves(c, pc), pc = "replay" => Refreshing(c)
        PROVE  CallHolds(c)'
    BY <1>1, <1>3, <2>3 DEF Moves, Becomes, CallHolds, SeenHolds, RefreshHolds, StepsOfOp, Current, Reading, Refreshing
  <2>4. CallHolds(c)'
    BY <1>1, <2>2, <2>3, EndingFacts DEF LookForWinner, RevokeReplayed, At, Refreshing
  <2>5. QED
    BY <1>2, <1>3, <2>1, <2>4, OthersHold
<1>4. CASE RevokeReplayed(c) \/ RevokeSession(c)
  <2>1. row' = Revoked(row)
    BY <1>4 DEF RevokeReplayed, RevokeSession
  <2>2. row' \in Row /\ row'.token = row.token
    BY <1>1, <2>1 DEF TypeOK, Revoked, Row
  <2>3. TypeOK' /\ PagesHold' /\ row'.token <= issued'
    BY <1>1, <1>2, <2>2 DEF SessionInv, TypeOK, PagesHold, Current
  <2>4. ASSUME NEW d \in Calls, d # c PROVE CallHolds(d)'
    BY <1>2, <2>1, <2>4, RevokedHolds
  <2>5. (Ends(c, "replayed", 0, None) /\ Refreshing(c)) \/ Ends(c, "ok", 0, None)
    BY <1>1, <1>4, EndFacts DEF RevokeReplayed, RevokeSession, At, Refreshing, Steps
  <2>6. CallHolds(c)'
    BY <1>1, <2>5, EndHolds DEF Current
  <2>7. QED
    BY <2>3, <2>4, <2>6 DEF SessionInv
<1>5. QED
  BY <1>3, <1>4 DEF LookForWinner, RefuseLogin, CheckLogout

LEMMA PageStep ==
    ASSUME SessionInv, NEW c \in Calls,
           HearAnswer(c) \/ GiveUp(c) \/ Forget(c)
             \/ \E t \in Tabs : StartRefresh(t, c) \/ StartLogin(t, c) \/ Logout(t, c)
    PROVE  SessionInv'
<1> UNCHANGED <<user, row, issued>>
  BY DEF HearAnswer, GiveUp, Forget, StartRefresh, StartLogin, Logout
<1>1. /\ TypeOK /\ CallHolds(c) /\ issued \in Nat /\ call[c] \in Call /\ call \in [Calls -> Call]
      /\ tab \in [Tabs -> Tab] /\ jar \in Nat /\ jar <= issued
  BY DEF SessionInv, TypeOK, PagesHold
<1>2. ASSUME call' = [call EXCEPT ![c] = Idle], tab' \in [Tabs -> Tab], PagesHold', jar' \in Nat, lost' \in BOOLEAN
      PROVE  SessionInv'
  <2>1. call' \in [Calls -> Call] /\ Becomes(c, "none", "none", None, 0, None, <<>>, 0, None)
    BY <1>1, <1>2, IdleFacts
  <2>2. TypeOK'
    BY <1>1, <1>2, <2>1 DEF TypeOK
  <2>3. CallHolds(c)'
    BY <1>1, <2>1 DEF Becomes, CallHolds, SeenHolds, RefreshHolds, StepsOfOp, Current, Reading, Refreshing
  <2>4. QED
    BY <1>2, <2>1, <2>2, <2>3, OthersHold DEF Becomes
<1>3. CASE HearAnswer(c)
  <2> DEFINE a == call[c]
             access == CASE a.op = "logout" -> None
                         [] a.pc = "ok" -> a.claims
                         [] a.op = "login" -> tab[a.tab].access
                         [] OTHER -> None
  <2>1. /\ call' = [call EXCEPT ![c] = Idle] /\ a.tab \in Tabs /\ lost' \in BOOLEAN
        /\ jar' = CASE a.pc # "ok" -> jar [] a.op = "logout" -> 0 [] OTHER -> a.token
        /\ Settle(a.tab, a.op, access)
    BY <1>1, <1>3 DEF HearAnswer, TypeOK, Call
  <2>2. access \in Claims \cup {None} /\ Current(access)
    BY <1>1, <2>1 DEF Call, Tab, SessionInv, PagesHold, CallHolds, Current
  <2> HIDE DEF access
  <2>3. tab' \in [Tabs -> Tab] /\ \A t \in Tabs : Current(tab'[t].access)
    <3>1. tab' = [tab EXCEPT ![a.tab] = [tab[a.tab] EXCEPT !.access = access,
                               !.refreshing = IF a.op = "refresh" THEN FALSE ELSE @]]
      BY <1>1, <2>1 DEF Settle, Tab
    <3>2. QED
      BY <1>1, <2>1, <2>2, <3>1 DEF Tab, SessionInv, PagesHold
  <2>4. jar' \in Nat /\ jar' <= issued
    BY <1>1, <2>1 DEF Call, CallHolds
  <2>5. PagesHold'
    BY <2>3, <2>4 DEF PagesHold, Current
  <2>6. QED
    BY <1>2, <2>1, <2>3, <2>4, <2>5
<1>4. CASE Forget(c)
  <2>1. call' = [call EXCEPT ![c] = Idle] /\ UNCHANGED <<jar, tab, lost>>
    BY <1>4 DEF Forget
  <2>2. PagesHold' /\ lost' \in BOOLEAN
    BY <2>1 DEF SessionInv, TypeOK, PagesHold, Current
  <2>3. QED
    BY <1>1, <1>2, <2>1, <2>2
<1>5. CASE GiveUp(c)
  <2>1. PICK access \in {None, tab[call[c].tab].access} : Settle(call[c].tab, call[c].op, access)
    BY <1>5 DEF GiveUp
  <2>2. call' = [call EXCEPT ![c] = [call[c] EXCEPT !.tab = None]] /\ call[c].tab \in Tabs
        /\ lost' = TRUE /\ jar' = jar
    BY <1>1, <1>5 DEF GiveUp, Call
  <2>3. access \in Claims \cup {None} /\ Current(access)
    BY <1>1, <2>2 DEF Tab, SessionInv, PagesHold, Current
  <2>4. tab' \in [Tabs -> Tab] /\ \A t \in Tabs : Current(tab'[t].access)
    <3>1. tab' = [tab EXCEPT ![call[c].tab] = [tab[call[c].tab] EXCEPT !.access = access,
                               !.refreshing = IF call[c].op = "refresh" THEN FALSE ELSE @]]
      BY <1>1, <2>1, <2>2 DEF Settle, Tab
    <3>2. QED
      BY <1>1, <2>2, <2>3, <3>1 DEF Tab, SessionInv, PagesHold
  <2>5. /\ call' \in [Calls -> Call]
        /\ Becomes(c, call[c].op, call[c].pc, None, call[c].raw, call[c].seen, call[c].history, call[c].token,
                   call[c].claims)
    BY <1>1, <2>2 DEF Call, Becomes
  <2>6. TypeOK' /\ PagesHold'
    BY <1>1, <2>2, <2>4, <2>5 DEF TypeOK, PagesHold, Current
  <2>7. CallHolds(c)'
    BY <1>1, <2>5 DEF Becomes, CallHolds, SeenHolds, RefreshHolds, Untouched, StepsOfOp, Current, Reading, Refreshing
  <2>8. QED
    BY <2>5, <2>6, <2>7, OthersHold DEF Becomes
<1>6. ASSUME NEW t \in Tabs, StartRefresh(t, c) \/ StartLogin(t, c) \/ Logout(t, c) PROVE SessionInv'
  <2>1. PICK op \in Ops, pc \in Steps, raw \in Nat, claims \in Claims \cup {None} :
          /\ Send(c, t, op, pc, raw, claims) /\ raw <= issued /\ Current(claims)
          /\ op = "refresh" => pc = "find"
          /\ pc \in {"find", "user", "guard"} /\ (pc = "find" => op = "refresh") /\ (pc = "user" => op = "login")
    <3>1. CASE StartRefresh(t, c)
      BY <1>1, <3>1 DEF StartRefresh, Ops, Steps, Current
    <3>2. CASE StartLogin(t, c)
      BY <1>1, <3>2 DEF StartLogin, Ops, Steps, Current
    <3>3. CASE Logout(t, c)
      <4>1. Send(c, t, "logout", "guard", 0, tab[t].access)
        BY <3>3 DEF Logout
      <4>2. tab[t].access \in Claims \cup {None} /\ Current(tab[t].access)
        BY <1>1 DEF Tab, SessionInv, PagesHold
      <4>3. "logout" \in Ops /\ "guard" \in Steps /\ 0 \in Nat /\ 0 <= issued
        BY <1>1 DEF Ops, Steps
      <4>4. QED
        BY <4>1, <4>2, <4>3
    <3>4. QED
      BY <1>6, <3>1, <3>2, <3>3
  <2>2. call' \in [Calls -> Call] /\ Becomes(c, op, pc, t, raw, None, <<>>, 0, claims)
    BY <1>1, <2>1, SendFacts
  <2>3. tab' \in [Tabs -> Tab] /\ (\A u \in Tabs : tab'[u].access = tab[u].access) /\ UNCHANGED <<jar, lost>>
    <3>1. CASE StartRefresh(t, c)
      <4>1. tab' = [tab EXCEPT ![t] = [tab[t] EXCEPT !.refreshing = TRUE]] /\ UNCHANGED <<jar, lost>>
        BY <1>1, <3>1 DEF StartRefresh, Tab
      <4>2. QED
        BY <1>1, <4>1 DEF Tab
    <3>2. CASE StartLogin(t, c) \/ Logout(t, c)
      BY <1>1, <3>2 DEF StartLogin, Logout
    <3>3. QED
      BY <1>6, <3>1, <3>2
  <2>4. TypeOK' /\ PagesHold'
    BY <1>1, <2>2, <2>3 DEF SessionInv, TypeOK, PagesHold, Current
  <2>5. CallHolds(c)'
    BY <1>1, <2>1, <2>2 DEF Becomes, CallHolds, SeenHolds, RefreshHolds, StepsOfOp, Current, Reading, Refreshing
  <2>6. QED
    BY <2>2, <2>4, <2>5, OthersHold DEF Becomes
<1>7. QED
  BY <1>3, <1>4, <1>5, <1>6

LEMMA AdminStep == ASSUME SessionInv, Invalidate PROVE SessionInv'
<1>1. TypeOK /\ user \in User /\ row \in Row
  BY DEF SessionInv, TypeOK
<1>2. /\ user' \in User /\ user'.version = user.version + 1
      /\ row' = Revoked(row) /\ UNCHANGED <<issued, call, jar, tab, lost>>
  <2>1. PICK u \in User : u.version = user.version /\ InvalidateWith(u)
    <3>1. CASE RevokeAll
      BY <1>1, <3>1 DEF RevokeAll
    <3>2. CASE DisableUser
      BY <1>1, <3>2 DEF DisableUser, User
    <3>3. CASE EditRoles
      BY <1>1, <3>3 DEF EditRoles, User
    <3>4. CASE AdminResetsPassword
      BY <1>1, <3>4 DEF AdminResetsPassword, User
    <3>5. QED
      BY <3>1, <3>2, <3>3, <3>4 DEF Invalidate
  <2>2. user' = [u EXCEPT !.version = u.version + 1] /\ row' = Revoked(row)
        /\ UNCHANGED <<issued, call, jar, tab, lost>>
    BY <2>1 DEF InvalidateWith
  <2>3. QED
    BY <2>1, <2>2 DEF User
<1>3. row' \in Row /\ row'.token = row.token /\ row'.status # "ACTIVE"
  BY <1>1, <1>2 DEF Revoked, Row
<1>4. ASSUME NEW claims \in Claims \cup {None}, Current(claims) PROVE Current(claims)'
  BY <1>1, <1>2, <1>4 DEF Current, Claims, User
<1>5. TypeOK' /\ row'.token <= issued'
  BY <1>1, <1>2, <1>3 DEF SessionInv, TypeOK
<1>6. PagesHold'
  BY <1>1, <1>2, <1>4 DEF SessionInv, TypeOK, Tab, PagesHold
<1>7. ASSUME NEW d \in Calls PROVE CallHolds(d)'
  <2>1. CallHolds(d) /\ call'[d] = call[d]
    BY <1>2 DEF SessionInv
  <2>2. Current(call[d].claims)'
    BY <1>2, <1>4, <2>1, Members DEF CallHolds
  <2>3. SeenHolds(d)'
    BY <1>1, <1>2, <2>1 DEF CallHolds, SeenHolds, Reading, SeenUser, User
  <2>4. QED
    BY <1>2, <1>3, <2>1, <2>2, <2>3 DEF CallHolds, RefreshHolds, Untouched, StepsOfOp, Refreshing
<1>8. QED
  BY <1>5, <1>6, <1>7 DEF SessionInv

LEMMA ClockStep ==
    ASSUME SessionInv, SessionExpires \/ EnableUser \/ ClearMustChange \/ \E t \in Tabs : AccessForgotten(t)
    PROVE  SessionInv'
<1> UNCHANGED <<issued, call, jar, lost>>
  BY DEF SessionExpires, EnableUser, ClearMustChange, AccessForgotten
<1>1. TypeOK /\ user \in User /\ row \in Row /\ tab \in [Tabs -> Tab]
  BY DEF SessionInv, TypeOK
<1>2. /\ user' \in User /\ user'.version = user.version /\ user'.roles = user.roles
      /\ user'.must => user.must
      /\ user.status = "ACTIVE" => user'.status = "ACTIVE"
  BY <1>1 DEF SessionExpires, EnableUser, ClearMustChange, AccessForgotten, User
<1>3. row' \in Row /\ row'.token = row.token /\ row'.status = row.status /\ row'.history = row.history
  BY <1>1 DEF SessionExpires, EnableUser, ClearMustChange, AccessForgotten, Row
<1>4. tab' \in [Tabs -> Tab] /\ \A t \in Tabs : tab'[t].access \in {None, tab[t].access}
  BY <1>1 DEF SessionExpires, EnableUser, ClearMustChange, AccessForgotten, Tab
<1>5. ASSUME NEW claims, Current(claims) PROVE Current(claims)'
  BY <1>2, <1>5 DEF Current
<1>6. PagesHold'
  <2>1. ASSUME NEW t \in Tabs PROVE Current(tab[t].access)'
    <3>1. tab'[t].access = None \/ Current(tab[t].access)
      BY DEF SessionInv, PagesHold
    <3>2. QED
      BY <1>2, <1>4, <3>1 DEF Current
  <2>2. QED
    BY <2>1 DEF SessionInv, PagesHold
<1>7. ASSUME NEW d \in Calls PROVE CallHolds(d)'
  <2>1. CallHolds(d)
    BY DEF SessionInv
  <2>2. Current(call[d].claims)'
    BY <1>5, <2>1 DEF CallHolds
  <2>3. QED
    BY <1>2, <1>3, <2>1, <2>2 DEF CallHolds, SeenHolds, RefreshHolds, Untouched, StepsOfOp, Reading, Refreshing
<1>8. TypeOK' /\ row'.token <= issued'
  BY <1>1, <1>2, <1>3, <1>4 DEF SessionInv, TypeOK
<1>9. QED
  BY <1>6, <1>7, <1>8 DEF SessionInv

LEMMA SessionsHold == Spec => []SessionInv
<1>1. ASSUME SessionInv, [Next]_vars PROVE SessionInv'
  <2>1. CASE Next
    BY <1>1, <2>1, ReadsStep, RotateStep, LoginStep, EndingStep, PageStep, AdminStep, ClockStep DEF Next, Handle
  <2>2. CASE UNCHANGED vars
    BY <1>1, <2>2 DEF vars, SessionInv, TypeOK, PagesHold, CallHolds, SeenHolds, RefreshHolds, Untouched, StepsOfOp,
       Current, Reading, Refreshing
  <2>3. QED
    BY <1>1, <2>1, <2>2
<1>2. QED
  BY <1>1, InitSessions, PTL DEF Spec


-----------------------------------------------------------------------------
(* Whatever the requests have read, and when: a token that the guard lets in *)
(* carries the roles the user has now, and his duty to change the password.  *)
THEOREM AcceptedTokensAreCurrent == Spec => []AcceptedClaimsAreCurrent
<1>1. SessionInv => AcceptedClaimsAreCurrent
  <2>1. SUFFICES ASSUME SessionInv, NEW claims \in {tab[t].access : t \in Tabs} \cup {call[c].claims : c \in Calls},
                        Accepts(claims)
                 PROVE  claims.roles = user.roles /\ (user.must => claims.must)
    BY DEF AcceptedClaimsAreCurrent
  <2>2. Current(claims)
    BY <2>1 DEF SessionInv, PagesHold, CallHolds
  <2>3. QED
    BY <2>1, <2>2 DEF Accepts, Current
<1>2. QED
  BY <1>1, SessionsHold, PTL

LEMMA OwnStep ==
    ASSUME SessionInv, [Next]_vars, NEW c \in Calls, call'[c] # call[c]
    PROVE  \/ Handle(c) \/ HearAnswer(c) \/ GiveUp(c) \/ Forget(c)
           \/ \E t \in Tabs : StartRefresh(t, c) \/ StartLogin(t, c) \/ Logout(t, c)
<1>1. PICK e \in Calls : \/ Handle(e) \/ HearAnswer(e) \/ GiveUp(e) \/ Forget(e)
                         \/ \E t \in Tabs : StartRefresh(t, e) \/ StartLogin(t, e) \/ Logout(t, e)
  <2>1. call' # call
    OBVIOUS
  <2>2. QED
    BY <2>1 DEF Next, vars, AccessForgotten, SessionExpires, Invalidate, RevokeAll, DisableUser, EditRoles,
       AdminResetsPassword, InvalidateWith, EnableUser, ClearMustChange
<1>2. call \in [Calls -> Call]
  BY DEF SessionInv, TypeOK
<1>3. \A d \in Calls : d # e => call'[d] = call[d]
  <2>1. CASE FindSession(e) \/ ReadUser(e) \/ ReadRoles(e)
    BY <1>2, <2>1 DEF FindSession, ReadUser, ReadRoles, Goto, Reject, End
  <2>2. CASE RotateToken(e) \/ LookForWinner(e) \/ RevokeReplayed(e) \/ CreateSession(e) \/ RefuseLogin(e)
               \/ CheckLogout(e) \/ RevokeSession(e)
    BY <1>2, <2>2 DEF RotateToken, LookForWinner, RevokeReplayed, CreateSession, RefuseLogin, CheckLogout,
       RevokeSession, Goto, Reject, Sign, End
  <2>3. CASE HearAnswer(e) \/ GiveUp(e) \/ Forget(e)
    BY <1>2, <2>3 DEF HearAnswer, GiveUp, Forget
  <2>4. CASE \E t \in Tabs : StartRefresh(t, e) \/ StartLogin(t, e) \/ Logout(t, e)
    BY <1>2, <2>4 DEF StartRefresh, StartLogin, Logout, Send
  <2>5. QED
    BY <1>1, <2>1, <2>2, <2>3, <2>4 DEF Handle
<1>4. e = c
  BY <1>3
<1>5. QED
  BY <1>1, <1>4

(* A refresh that replaces the token has seen the user as he is: the claims  *)
(* it signs are accepted at that moment.                                     *)
THEOREM RefreshesAreGood == Spec => RefreshedTokensAreGood
<1>1. ASSUME SessionInv, [Next]_vars, NEW c \in Calls, At(c, "refresh", "rotate"), call'[c].pc = "ok"
      PROVE  (Accepts(call[c].claims))'
  <2>1. /\ TypeOK /\ call[c].op = "refresh" /\ call[c].pc = "rotate" /\ CallHolds(c)
        /\ call[c] \in Call /\ call \in [Calls -> Call] /\ user \in User /\ row \in Row
    BY <1>1 DEF At, SessionInv, TypeOK
  <2>2. RotateToken(c)
    <3>1. ~HearAnswer(c) /\ ~Forget(c) /\ ~GiveUp(c)
      <4>1. ~HearAnswer(c)
        BY <2>1 DEF HearAnswer, Answered
      <4>2. ~Forget(c)
        BY <1>1, <2>1, IdleFacts DEF Forget, Becomes
      <4>3. ~GiveUp(c)
        BY <1>1, <2>1 DEF GiveUp, Call
      <4>4. QED
        BY <4>1, <4>2, <4>3
    <3>2. ~\E t \in Tabs : StartRefresh(t, c) \/ StartLogin(t, c) \/ Logout(t, c)
      BY <2>1 DEF StartRefresh, StartLogin, Logout, Send
    <3>3. Handle(c)
      BY <1>1, <2>1, <3>1, <3>2, OwnStep
    <3>4. QED
      BY <2>1, <3>3 DEF Handle, FindSession, ReadUser, ReadRoles, LookForWinner, RevokeReplayed, CreateSession,
         RefuseLogin, CheckLogout, RevokeSession, At
  <2>3. CanRotate(c)
    BY <1>1, <2>1, <2>2, GotoFacts DEF RotateToken, Moves, Becomes, Steps
  <2>4. /\ row.status = "ACTIVE" /\ row.expired = FALSE /\ row.token = call[c].raw
        /\ call[c].seen.version = user.version /\ user.status = "ACTIVE" /\ call[c].seen.status = "ACTIVE"
    BY <2>1, <2>3 DEF CanRotate, Live, Row, CallHolds, SeenHolds, RefreshHolds, Untouched, Reading, Refreshing
  <2>5. user' = user /\ row'.status = "ACTIVE" /\ row'.expired = FALSE /\ Sign(c, issued') /\ issued' \in Nat
    <3>1. \E h : row' = [row EXCEPT !.token = issued', !.history = h]
      BY <2>2, <2>3 DEF RotateToken
    <3>2. QED
      BY <2>1, <2>2, <2>3, <2>4, <3>1 DEF RotateToken, Row, TypeOK
  <2>6. /\ call'[c].claims = [version |-> call[c].seen.version, roles |-> call[c].seen.roles, must |-> call[c].seen.must]
        /\ call'[c].claims \in Claims
    <3>1. call'[c].claims = [version |-> call[c].seen.version, roles |-> call[c].seen.roles, must |-> call[c].seen.must]
      BY <1>1, <2>1, <2>5, SignFacts DEF Ends, Becomes
    <3>2. call[c].seen \in SeenUser /\ call[c].seen.roles \in Roles
      BY <2>1 DEF CallHolds, SeenHolds, Reading
    <3>3. QED
      BY <3>1, <3>2 DEF SeenUser, Claims
  <2>7. call'[c].claims # None
    BY <2>6, SessionsAssumption
  <2>8. QED
    BY <2>4, <2>5, <2>6, <2>7 DEF Accepts, Live
<1>2. SessionInv /\ [Next]_vars =>
        [\A c \in Calls : At(c, "refresh", "rotate") /\ call'[c].pc = "ok" => (Accepts(call[c].claims))']_vars
  BY <1>1
<1>3. QED
  BY <1>2, SessionsHold, PTL DEF Spec, RefreshedTokensAreGood

-----------------------------------------------------------------------------
(* What each step means to the life of the session. *)
LEMMA LifeStep ==
    ASSUME SessionInv, [Next]_vars
    PROVE  [Life!LogIn \/ Life!Rotate \/ Life!Revoke]_<<row.status, row.token, row.history>>
<1>1. TypeOK /\ row \in Row /\ issued \in Nat /\ row.token <= issued
  BY DEF SessionInv, TypeOK
<1>2. CASE row' = row
  BY <1>2
<1>3. CASE row' = Revoked(row)
  BY <1>1, <1>3 DEF Revoked, Row, Life!Revoke
<1>4. ASSUME NEW c \in Calls, RotateToken(c) PROVE row' = row \/ Life!Rotate
  <2>1. CASE ~CanRotate(c)
    BY <1>4, <2>1 DEF RotateToken
  <2>2. CASE CanRotate(c)
    <3>1. call[c].history = row.history /\ call[c].raw = row.token /\ row.status = "ACTIVE"
      BY <1>4, <2>2 DEF RotateToken, At, CanRotate, Live, SessionInv, CallHolds, RefreshHolds, Untouched, Refreshing
    <3> DEFINE kept == LastTokens(Append(row.history, row.token))
    <3>2. kept = Life!LastOf(Append(row.history, row.token))
      BY DEF LastTokens, Life!LastOf
    <3> HIDE DEF kept
    <3>3. row' = [row EXCEPT !.token = issued', !.history = kept] /\ issued' = issued + 1
      BY <1>4, <2>2, <3>1 DEF RotateToken, kept
    <3>4. row'.status = "ACTIVE" /\ row'.history = kept /\ row'.token > row.token
      BY <1>1, <3>1, <3>3 DEF Row
    <3>5. QED
      BY <3>1, <3>2, <3>4 DEF Life!Rotate
  <2>3. QED
    BY <2>1, <2>2
<1>5. ASSUME NEW c \in Calls, CreateSession(c) PROVE Life!LogIn
  BY <1>1, <1>5 DEF CreateSession, Row, Life!LogIn
<1>6. CASE SessionExpires
  BY <1>1, <1>6 DEF SessionExpires, Row
<1>7. \/ row' = row \/ row' = Revoked(row) \/ SessionExpires
      \/ \E c \in Calls : RotateToken(c) \/ CreateSession(c)
  BY DEF Next, vars, Handle, FindSession, ReadUser, ReadRoles, LookForWinner, RevokeReplayed, RefuseLogin,
     CheckLogout, RevokeSession, HearAnswer, GiveUp, Forget, StartRefresh, StartLogin, Logout, AccessForgotten,
     Invalidate, RevokeAll, DisableUser, EditRoles, AdminResetsPassword, InvalidateWith, EnableUser, ClearMustChange
<1>8. QED
  BY <1>2, <1>3, <1>4, <1>5, <1>6, <1>7

(* Seen from outside, a session is logged in, rotated and revoked, each at  *)
(* once, whatever was read long before the write.                           *)
THEOREM SessionsAreAtomic == Spec => ImplementsLife
<1>1. Init => Life!LifeInit
  BY DEF Init, Life!LifeInit
<1>2. QED
  BY <1>1, LifeStep, SessionsHold, PTL DEF Spec, ImplementsLife, Life!LifeSpec, Life!lifeVars

-----------------------------------------------------------------------------
(* While no answer was lost, somebody waits for every request and one       *)
(* refresh is under way at a time; a token is replaced only by the refresh  *)
(* that carries it, so what a page gets next was never replaced.            *)
InHistory(x) == \E i \in DOMAIN row.history : row.history[i] = x
HistoryHolds ==
    /\ ~InHistory(0) /\ \A x \in Nat : InHistory(x) => x <= issued
    /\ row.status # "none" => row.token > 0

Fresh(c) == call[c].pc = "ok" /\ call[c].op # "logout"
OneRefresh ==
    /\ \A c \in Calls : call[c].tab \in Tabs \/ (call[c].op = "none" /\ call[c].pc = "none")
    /\ \A c \in Calls : Refreshing(c) => tab[call[c].tab].refreshing
    /\ \A c, d \in Calls : Refreshing(c) /\ Refreshing(d) => c = d
CarriedIsGood ==
    /\ \A c \in Calls : call[c].pc \notin {"replay", "replayed"}
    /\ \A c \in Calls : Refreshing(c) /\ call[c].pc # "ok" => ~InHistory(call[c].raw)
    /\ InHistory(jar) => \E c \in Calls : Refreshing(c) /\ call[c].pc = "ok"
FreshIsNew ==
    /\ \A c \in Calls : Fresh(c) => ~InHistory(call[c].token) /\ call[c].token # jar /\ call[c].token > 0
    /\ \A c, d \in Calls : Fresh(c) /\ Refreshing(d) /\ call[d].pc # "ok" => call[d].raw # call[c].token
    /\ \A c, d \in Calls : Fresh(c) /\ Fresh(d) /\ call[c].token = call[d].token => c = d
Quiet == OneRefresh /\ CarriedIsGood /\ FreshIsNew
QuietInv == HistoryHolds /\ (~lost => Quiet)

LEMMA InitQuiet == Init => QuietInv
<1> SUFFICES ASSUME Init PROVE QuietInv
  OBVIOUS
<1>1. \A c \in Calls : call[c].op = "none" /\ call[c].pc = "none"
  BY DEF Init, Idle
<1>2. row.history = <<>> /\ row.status = "none" /\ jar = 0
  BY DEF Init
<1>3. \A x : ~InHistory(x)
  BY <1>2 DEF InHistory
<1>4. QED
  BY <1>1, <1>2, <1>3 DEF QuietInv, HistoryHolds, Quiet, OneRefresh, CarriedIsGood, FreshIsNew, Refreshing, Fresh

(* A step of one call that neither answers it with a token nor replaces one. *)
LEMMA QuietMove ==
    ASSUME SessionInv, Quiet, HistoryHolds, NEW c \in Calls, row'.history = row.history, UNCHANGED <<jar, tab>>,
           \A d \in Calls : d # c => call'[d] = call[d],
           call'[c].op = call[c].op, call'[c].tab = call[c].tab, call[c].op # "none",
           call'[c].raw \in {0, call[c].raw}, ~Fresh(c)', call[c].pc # "ok",
           call'[c].pc \notin {"replay", "replayed"}, call'[c].pc = "ok" => call[c].op # "refresh"
    PROVE  Quiet'
<1>1. \A x : InHistory(x)' <=> InHistory(x)
  BY DEF InHistory
<1>2. ~InHistory(0)
  BY DEF HistoryHolds
<1>3. OneRefresh'
  BY DEF Quiet, OneRefresh, Refreshing
<1>4. CarriedIsGood'
  <2>1. \A d \in Calls : call'[d].pc \notin {"replay", "replayed"}
    BY DEF Quiet, CarriedIsGood
  <2>2. ASSUME NEW d \in Calls, call'[d].op = "refresh", call'[d].pc # "ok" PROVE ~InHistory(call'[d].raw)
    BY <1>2, <2>2 DEF Quiet, CarriedIsGood, Refreshing
  <2>3. ASSUME InHistory(jar) PROVE \E d \in Calls : call'[d].op = "refresh" /\ call'[d].pc = "ok"
    BY <2>3 DEF Quiet, CarriedIsGood, Refreshing
  <2>4. QED
    BY <1>1, <2>1, <2>2, <2>3 DEF CarriedIsGood, Refreshing, InHistory
<1>5. FreshIsNew'
  <2>1. ASSUME NEW d \in Calls, Fresh(d)' PROVE d # c /\ Fresh(d) /\ call'[d] = call[d]
    BY <2>1 DEF Fresh
  <2>2. ASSUME NEW d \in Calls, Fresh(d)'
        PROVE  ~InHistory(call[d].token) /\ call'[d].token # jar /\ call'[d].token > 0
    BY <2>1, <2>2 DEF Quiet, FreshIsNew
  <2>3. ASSUME NEW d \in Calls, NEW e \in Calls, Fresh(d)', Refreshing(e)', call'[e].pc # "ok"
        PROVE  call'[e].raw # call'[d].token
    BY <2>1, <2>2, <2>3 DEF Quiet, FreshIsNew, Refreshing
  <2>4. ASSUME NEW d \in Calls, NEW e \in Calls, Fresh(d)', Fresh(e)', call'[d].token = call'[e].token
        PROVE  d = e
    BY <2>1, <2>4 DEF Quiet, FreshIsNew
  <2>5. \A d \in Calls : Fresh(d)' => ~InHistory(call[d].token)'
    BY <2>1, <2>2 DEF InHistory
  <2>6. QED
    BY <2>2, <2>3, <2>4, <2>5 DEF FreshIsNew
<1>6. QED
  BY <1>3, <1>4, <1>5 DEF Quiet

(* What the handlers leave alone, and where their calls stand. *)
LEMMA HandlersAreQuiet ==
    ASSUME SessionInv, Quiet, HistoryHolds, NEW c \in Calls,
           \/ FindSession(c) \/ ReadUser(c) \/ ReadRoles(c) \/ (RotateToken(c) /\ ~CanRotate(c))
           \/ LookForWinner(c) \/ RevokeReplayed(c) \/ RefuseLogin(c) \/ CheckLogout(c) \/ RevokeSession(c)
    PROVE  Quiet'
<1>1. /\ TypeOK /\ CallHolds(c) /\ call[c].pc \notin {"replay", "replayed"} /\ row \in Row
      /\ Refreshing(c) /\ call[c].pc # "ok" => ~InHistory(call[c].raw)
  BY DEF SessionInv, TypeOK, Quiet, CarriedIsGood
<1>2. ~RevokeReplayed(c)
  BY <1>1 DEF RevokeReplayed, At
<1>3. row'.history = row.history /\ UNCHANGED <<jar, tab>>
  BY <1>1, <1>2 DEF FindSession, ReadUser, ReadRoles, RotateToken, LookForWinner, RefuseLogin, CheckLogout,
     RevokeSession, Revoked, Row
<1>4. call[c].op # "none" /\ call[c].pc # "ok"
  BY <1>1 DEF FindSession, ReadUser, ReadRoles, RotateToken, LookForWinner, RevokeReplayed, RefuseLogin,
     CheckLogout, RevokeSession, At, CallHolds, StepsOfOp
<1>5. \A d \in Calls : d # c => call'[d] = call[d]
  BY <1>1, FindFacts, ReadUserFacts, ReadRolesFacts, GotoFacts, EndingFacts
  DEF RotateToken, Moves, Ends, Becomes, Steps
<1>6. /\ call'[c].op = call[c].op /\ call'[c].tab = call[c].tab /\ call'[c].raw \in {0, call[c].raw}
      /\ call'[c].pc \notin {"replay", "replayed"} /\ (call'[c].pc = "ok" => call[c].op = "logout")
  <2>1. CASE FindSession(c)
    <3>1. call[c].op = "refresh" /\ call[c].pc = "find" /\ ~Replaced(call[c].raw)
      BY <1>1, <2>1 DEF FindSession, At, Refreshing, InHistory, Replaced
    <3>2. QED
      BY <2>1, <3>1, FindFacts DEF Moves, Ends, Becomes
  <2>2. CASE ReadUser(c)
    BY <2>2, ReadUserFacts DEF Becomes
  <2>3. CASE ReadRoles(c)
    BY <2>3, ReadRolesFacts DEF Ends, Becomes
  <2>4. CASE RotateToken(c) /\ ~CanRotate(c)
    BY <1>1, <2>4, GotoFacts DEF RotateToken, Moves, Becomes, Steps
  <2>5. CASE LookForWinner(c) \/ RefuseLogin(c) \/ CheckLogout(c) \/ RevokeSession(c)
    <3>1. LookForWinner(c) => ~Replaced(call[c].raw)
      BY <1>1 DEF LookForWinner, At, Refreshing, InHistory, Replaced
    <3>2. RevokeSession(c) => call[c].op = "logout"
      BY DEF RevokeSession, At
    <3>3. QED
      BY <1>2, <2>5, <3>1, <3>2, EndingFacts DEF Moves, Ends, Becomes
  <2>6. QED
    BY <1>2, <2>1, <2>2, <2>3, <2>4, <2>5
<1>7. ~Fresh(c)'
  BY <1>6 DEF Fresh
<1>8. QED
  BY <1>3, <1>4, <1>5, <1>6, <1>7, QuietMove

(* What a refresh that succeeds and a login write. *)
LEMMA RotateFacts ==
    ASSUME SessionInv, NEW c \in Calls, RotateToken(c), CanRotate(c)
    PROVE  /\ call[c].op = "refresh" /\ call[c].pc = "rotate" /\ row.status = "ACTIVE" /\ row.token = call[c].raw
           /\ issued' = issued + 1 /\ row'.token = issued' /\ row'.status = "ACTIVE" /\ UNCHANGED <<jar, tab, lost>>
           /\ \E claims : Ends(c, "ok", issued', claims)
           /\ \A x \in Nat : InHistory(x)' => InHistory(x) \/ x = call[c].raw
<1>1. /\ TypeOK /\ CallHolds(c) /\ row \in Row /\ issued \in Nat /\ row.history \in Seq(Nat)
      /\ call[c].raw \in Nat
  BY Members DEF SessionInv, TypeOK, Row
<1>2. /\ call[c].op = "refresh" /\ call[c].pc = "rotate" /\ row.status = "ACTIVE" /\ row.token = call[c].raw
      /\ issued' = issued + 1 /\ issued' \in Nat /\ Sign(c, issued') /\ UNCHANGED <<jar, tab, lost>>
  BY <1>1 DEF RotateToken, At, CanRotate, Live
<1>3. call[c].history = row.history
  BY <1>1, <1>2 DEF CallHolds, RefreshHolds, Untouched, Refreshing
<1> DEFINE kept == LastTokens(Append(row.history, call[c].raw))
<1>4. \A i \in DOMAIN kept : kept[i] = call[c].raw \/ \E j \in DOMAIN row.history : row.history[j] = kept[i]
  BY <1>1, LastTokensFacts, SessionsAssumption
<1> HIDE DEF kept
<1>5. row' = [row EXCEPT !.token = issued', !.history = kept]
  BY <1>3 DEF RotateToken, kept
<1>6. row'.token = issued' /\ row'.status = "ACTIVE" /\ row'.history = kept
  BY <1>1, <1>2, <1>5 DEF Row
<1>7. ASSUME NEW x \in Nat, InHistory(x)' PROVE InHistory(x) \/ x = call[c].raw
  BY <1>4, <1>6, <1>7 DEF InHistory
<1>8. \E claims : Ends(c, "ok", issued', claims)
  BY <1>2, SignFacts
<1>9. QED
  BY <1>2, <1>6, <1>7, <1>8

LEMMA LoginFacts ==
    ASSUME SessionInv, NEW c \in Calls, CreateSession(c)
    PROVE  /\ call[c].op = "login" /\ call[c].pc = "create"
           /\ issued' = issued + 1 /\ row'.token = issued' /\ row'.status = "ACTIVE" /\ UNCHANGED <<jar, tab, lost>>
           /\ \E claims : Ends(c, "ok", issued', claims)
           /\ \A x : ~InHistory(x)'
<1>1. issued \in Nat
  BY DEF SessionInv, TypeOK
<1>2. /\ call[c].op = "login" /\ call[c].pc = "create" /\ issued' = issued + 1 /\ Sign(c, issued') /\ issued' \in Nat
      /\ row'.token = issued' /\ row'.status = "ACTIVE" /\ row'.history = <<>> /\ UNCHANGED <<jar, tab, lost>>
  BY <1>1 DEF CreateSession, At
<1>3. \E claims : Ends(c, "ok", issued', claims)
  BY <1>1, <1>2, SignFacts
<1>4. QED
  BY <1>2, <1>3 DEF InHistory

(* Everything else leaves the tokens of the session as they are. *)
LEMMA RowFacts ==
    ASSUME SessionInv, [Next]_vars, \A c \in Calls : ~(RotateToken(c) /\ CanRotate(c)) /\ ~CreateSession(c)
    PROVE  /\ row'.history = row.history /\ row'.token = row.token /\ issued' = issued
           /\ row'.status = "none" <=> row.status = "none"
<1>1. row \in Row
  BY DEF SessionInv, TypeOK
<1>2. issued' = issued /\ (row' = row \/ row' = Revoked(row) \/ row' = [row EXCEPT !.expired = TRUE])
  BY DEF Next, vars, Handle, FindSession, ReadUser, ReadRoles, RotateToken, LookForWinner, RevokeReplayed, RefuseLogin,
     CheckLogout, RevokeSession, HearAnswer, GiveUp, Forget, StartRefresh, StartLogin, Logout, AccessForgotten,
     SessionExpires, Invalidate, RevokeAll, DisableUser, EditRoles, AdminResetsPassword, InvalidateWith,
     EnableUser, ClearMustChange
<1>3. QED
  BY <1>1, <1>2 DEF Revoked, Row

LEMMA HistoryStep == ASSUME SessionInv, HistoryHolds, [Next]_vars PROVE HistoryHolds'
<1>1. issued \in Nat
  BY DEF SessionInv, TypeOK
<1>2. ASSUME NEW c \in Calls, RotateToken(c), CanRotate(c) PROVE HistoryHolds'
  <2>1. call[c].raw \in Nat /\ call[c].raw <= issued /\ call[c].raw > 0
    BY <1>2, RotateFacts, Members DEF SessionInv, CallHolds, HistoryHolds
  <2>2. issued' = issued + 1 /\ row'.token = issued' /\ \A x \in Nat : InHistory(x)' => InHistory(x) \/ x = call[c].raw
    BY <1>2, RotateFacts
  <2>3. ~InHistory(0)'
    BY <2>1, <2>2 DEF HistoryHolds
  <2>4. ASSUME NEW x \in Nat, InHistory(x)' PROVE x <= issued'
    BY <1>1, <2>1, <2>2, <2>4 DEF HistoryHolds
  <2>5. QED
    BY <1>1, <2>2, <2>3, <2>4 DEF HistoryHolds
<1>3. ASSUME NEW c \in Calls, CreateSession(c) PROVE HistoryHolds'
  BY <1>1, <1>3, LoginFacts DEF HistoryHolds
<1>4. CASE \A c \in Calls : ~(RotateToken(c) /\ CanRotate(c)) /\ ~CreateSession(c)
  <2>1. \A x : InHistory(x)' <=> InHistory(x)
    BY <1>4, RowFacts DEF InHistory
  <2>2. QED
    BY <1>4, <2>1, RowFacts DEF HistoryHolds
<1>5. QED
  BY <1>2, <1>3, <1>4

LEMMA TokensAreNew ==
    ASSUME SessionInv, HistoryHolds, Quiet, NEW c \in Calls, UNCHANGED <<jar, tab>>, issued' = issued + 1,
           NEW claims, Ends(c, "ok", issued', claims), call[c].op \in {"login", "refresh"}, call[c].pc # "ok",
           \A x \in Nat : InHistory(x)' => InHistory(x) \/ (call[c].op = "refresh" /\ x = call[c].raw)
    PROVE  Quiet'
<1>1. issued \in Nat /\ jar \in Nat /\ jar <= issued
  BY DEF SessionInv, TypeOK, PagesHold
<1>2. /\ \A d \in Calls : d # c => call'[d] = call[d]
      /\ call'[c].op = call[c].op /\ call'[c].pc = "ok" /\ call'[c].tab = call[c].tab
      /\ call'[c].raw = 0 /\ call'[c].token = issued'
  BY DEF Ends, Becomes
<1>3. \A d \in Calls : /\ call[d].raw \in Nat /\ call[d].raw <= issued
                       /\ call[d].token \in Nat /\ call[d].token <= issued
  BY Members DEF SessionInv, CallHolds
<1>4. issued' \in Nat /\ \A x \in Nat : x = issued' => ~InHistory(x)'
  <2>1. issued' \in Nat /\ ~(issued' <= issued) /\ issued' # call[c].raw
    BY <1>1, <1>3
  <2>2. QED
    BY <2>1 DEF HistoryHolds
<1>5. OneRefresh'
  BY <1>2 DEF Quiet, OneRefresh, Refreshing
<1>6. CarriedIsGood'
  <2>1. ASSUME NEW d \in Calls, Refreshing(d)', (call[d].pc # "ok")' PROVE ~InHistory(call[d].raw)'
    <3>1. d # c /\ call'[d] = call[d] /\ Refreshing(d)
      BY <1>2, <2>1 DEF Refreshing
    <3>2. call[c].op # "refresh" /\ ~InHistory(call[d].raw)
      BY <2>1, <3>1 DEF Quiet, OneRefresh, CarriedIsGood, Refreshing
    <3>3. \A x \in Nat : InHistory(x)' => InHistory(x)
      BY <3>2
    <3>4. QED
      BY <1>3, <3>1, <3>2, <3>3 DEF InHistory
  <2>2. ASSUME InHistory(jar)' PROVE \E d \in Calls : call'[d].op = "refresh" /\ call'[d].pc = "ok"
    <3>1. CASE call[c].op = "refresh"
      BY <1>2, <3>1
    <3>2. CASE call[c].op # "refresh"
      <4>1. InHistory(jar)
        BY <1>1, <2>2, <3>2 DEF InHistory
      <4>2. QED
        BY <1>2, <3>2, <4>1 DEF Quiet, CarriedIsGood, Refreshing
    <3>3. QED
      BY <3>1, <3>2
  <2>3. \A d \in Calls : call'[d].pc \notin {"replay", "replayed"}
    BY <1>2 DEF Quiet, CarriedIsGood
  <2>4. QED
    BY <2>1, <2>2, <2>3 DEF CarriedIsGood, Refreshing
<1>7. FreshIsNew'
  <2>1. ASSUME NEW d \in Calls, d # c, Fresh(d)'
        PROVE  Fresh(d) /\ call'[d] = call[d] /\ call[d].token # issued' /\ call[d].token > 0 /\ call[d].token # jar
               /\ ~InHistory(call[d].token)'
    <3>1. Fresh(d) /\ call'[d] = call[d]
      BY <1>2, <2>1 DEF Fresh
    <3>2. /\ call[d].token > 0 /\ call[d].token # jar /\ ~InHistory(call[d].token)
          /\ call[c].op = "refresh" => call[c].raw # call[d].token
      BY <3>1 DEF Quiet, FreshIsNew, Refreshing
    <3>3. call[d].token # issued'
      BY <1>1, <1>3
    <3>4. ~InHistory(call[d].token)'
      <4>1. \A x \in Nat : x = call[d].token => ~InHistory(x)'
        BY <1>3, <3>2
      <4>2. QED
        BY <1>3, <3>1, <4>1 DEF InHistory
    <3>5. QED
      BY <3>1, <3>2, <3>3, <3>4
  <2>2. ASSUME NEW d \in Calls, Fresh(d)'
        PROVE  ~InHistory(call[d].token)' /\ call'[d].token # jar /\ call'[d].token > 0
    <3>1. CASE d = c
      <4>1. call'[d].token = issued' /\ issued' # jar /\ issued' > 0
        BY <1>1, <1>2, <3>1
      <4>2. QED
        BY <1>4, <4>1 DEF InHistory
    <3>2. CASE d # c
      BY <2>1, <2>2, <3>2
    <3>3. QED
      BY <3>1, <3>2
  <2>3. ASSUME NEW d \in Calls, NEW e \in Calls, Fresh(d)', Refreshing(e)', call'[e].pc # "ok"
        PROVE  call'[e].raw # call'[d].token
    <3>1. e # c /\ call'[e] = call[e] /\ Refreshing(e) /\ call[e].pc # "ok"
      BY <1>2, <2>3 DEF Refreshing
    <3>2. CASE d = c
      BY <1>1, <1>2, <1>3, <3>1, <3>2
    <3>3. CASE d # c
      BY <2>1, <2>3, <3>1, <3>3 DEF Quiet, FreshIsNew
    <3>4. QED
      BY <3>2, <3>3
  <2>4. ASSUME NEW d \in Calls, NEW e \in Calls, Fresh(d)', Fresh(e)', call'[d].token = call'[e].token
        PROVE  d = e
    <3>1. CASE d # c /\ e # c
      BY <2>1, <2>4, <3>1 DEF Quiet, FreshIsNew
    <3>2. CASE d = c /\ e # c
      BY <1>2, <2>1, <2>4, <3>2
    <3>3. CASE d # c /\ e = c
      BY <1>2, <2>1, <2>4, <3>3
    <3>4. QED
      BY <3>1, <3>2, <3>3
  <2>5. QED
    BY <2>2, <2>3, <2>4 DEF FreshIsNew
<1>8. QED
  BY <1>5, <1>6, <1>7 DEF Quiet

LEMMA AnswerIsQuiet ==
    ASSUME SessionInv, HistoryHolds, Quiet, NEW c \in Calls, HearAnswer(c)
    PROVE  Quiet'
<1> UNCHANGED <<user, row, issued, lost>>
  BY DEF HearAnswer
<1>1. /\ TypeOK /\ call[c] \in Call /\ call \in [Calls -> Call] /\ tab \in [Tabs -> Tab]
      /\ call[c].tab \in Tabs /\ call[c].pc \in {"ok", "rejected"}
  BY DEF SessionInv, TypeOK, HearAnswer, Answered, Call, Quiet, CarriedIsGood
<1>2. /\ call'[c].op = "none" /\ call'[c].pc = "none"
      /\ \A d \in Calls : d # c => call'[d] = call[d]
  BY <1>1, IdleFacts DEF HearAnswer, Becomes
<1>3. (jar' = jar /\ call[c].pc # "ok") \/ jar' = 0 \/ (jar' = call[c].token /\ Fresh(c))
  <2>1. jar' = CASE call[c].pc # "ok" -> jar [] call[c].op = "logout" -> 0 [] OTHER -> call[c].token
    BY DEF HearAnswer
  <2>2. QED
    BY <2>1 DEF Fresh
<1>4. \A t \in Tabs : tab'[t].refreshing = (IF t = call[c].tab /\ call[c].op = "refresh" THEN FALSE ELSE tab[t].refreshing)
  <2>1. PICK access : Settle(call[c].tab, call[c].op, access)
    BY DEF HearAnswer
  <2>2. tab' = [tab EXCEPT ![call[c].tab] = [tab[call[c].tab] EXCEPT !.access = access,
                             !.refreshing = IF call[c].op = "refresh" THEN FALSE ELSE @]]
    BY <1>1, <2>1 DEF Settle, Tab
  <2>3. QED
    BY <1>1, <2>2 DEF Tab
<1>5. OneRefresh'
  <2>1. \A d \in Calls : Refreshing(d)' => d # c /\ call'[d] = call[d] /\ Refreshing(d)
    BY <1>2 DEF Refreshing
  <2>2. \A d \in Calls : call'[d].tab \in Tabs \/ (call'[d].op = "none" /\ call'[d].pc = "none")
    BY <1>2 DEF Quiet, OneRefresh
  <2>3. ASSUME NEW d \in Calls, Refreshing(d)' PROVE tab'[call'[d].tab].refreshing
    <3>1. d # c /\ call'[d] = call[d] /\ Refreshing(d) /\ call[d].tab \in Tabs /\ tab[call[d].tab].refreshing
      BY <2>1, <2>3 DEF Quiet, OneRefresh, Refreshing
    <3>2. call[c].op # "refresh"
      BY <3>1 DEF Quiet, OneRefresh, Refreshing
    <3>3. QED
      BY <1>4, <3>1, <3>2
  <2>4. \A d, e \in Calls : Refreshing(d)' /\ Refreshing(e)' => d = e
    BY <2>1 DEF Quiet, OneRefresh
  <2>5. QED
    BY <2>2, <2>3, <2>4 DEF OneRefresh
<1>6. CarriedIsGood'
  <2>1. \A d \in Calls : call'[d].pc \notin {"replay", "replayed"}
    BY <1>2 DEF Quiet, CarriedIsGood
  <2>2. \A d \in Calls : Refreshing(d)' /\ call'[d].pc # "ok" => ~InHistory(call[d].raw)'
    BY <1>2 DEF Quiet, CarriedIsGood, Refreshing, InHistory
  <2>3. ASSUME InHistory(jar)' PROVE \E d \in Calls : call'[d].op = "refresh" /\ call'[d].pc = "ok"
    <3>1. InHistory(jar')
      BY <2>3 DEF InHistory
    <3>2. jar' = jar /\ call[c].pc # "ok"
      BY <1>3, <3>1 DEF HistoryHolds, Quiet, FreshIsNew
    <3>3. PICK d \in Calls : Refreshing(d) /\ call[d].pc = "ok"
      BY <3>1, <3>2 DEF Quiet, CarriedIsGood
    <3>4. QED
      BY <1>2, <3>2, <3>3 DEF Refreshing
  <2>4. QED
    BY <2>1, <2>2, <2>3 DEF CarriedIsGood, Refreshing
<1>7. FreshIsNew'
  <2>1. \A d \in Calls : Fresh(d)' => d # c /\ call'[d] = call[d] /\ Fresh(d)
    BY <1>2 DEF Fresh
  <2>2. ASSUME NEW d \in Calls, Fresh(d)'
        PROVE  ~InHistory(call[d].token) /\ call[d].token # jar' /\ call[d].token > 0
    <3>1. d # c /\ Fresh(d) /\ ~InHistory(call[d].token) /\ call[d].token # jar /\ call[d].token > 0
      BY <2>1, <2>2 DEF Quiet, FreshIsNew
    <3>2. Fresh(c) => call[d].token # call[c].token
      BY <3>1 DEF Quiet, FreshIsNew
    <3>3. call[d].token \in Nat
      BY Members
    <3>4. QED
      BY <1>3, <3>1, <3>2, <3>3
  <2>3. \A d \in Calls : Fresh(d)' => ~InHistory(call[d].token)' /\ call'[d].token # jar' /\ call'[d].token > 0
    BY <2>1, <2>2 DEF InHistory
  <2>4. \A d, e \in Calls : Fresh(d)' /\ Refreshing(e)' /\ call'[e].pc # "ok" => call'[e].raw # call'[d].token
    BY <1>2, <2>1 DEF Quiet, FreshIsNew, Refreshing
  <2>5. \A d, e \in Calls : Fresh(d)' /\ Fresh(e)' /\ call'[d].token = call'[e].token => d = e
    BY <2>1 DEF Quiet, FreshIsNew
  <2>6. QED
    BY <2>3, <2>4, <2>5 DEF FreshIsNew
<1>8. QED
  BY <1>5, <1>6, <1>7 DEF Quiet

LEMMA SendIsQuiet ==
    ASSUME SessionInv, HistoryHolds, Quiet, NEW c \in Calls, NEW t \in Tabs,
           StartRefresh(t, c) \/ StartLogin(t, c) \/ Logout(t, c)
    PROVE  Quiet'
<1> UNCHANGED <<user, row, issued, jar, lost>>
  BY DEF StartRefresh, StartLogin, Logout
<1>1. /\ TypeOK /\ tab \in [Tabs -> Tab] /\ jar \in Nat /\ tab[t].access \in Claims \cup {None}
      /\ call[c].pc = "none"
  BY DEF SessionInv, TypeOK, Tab, StartRefresh, StartLogin, Logout, Send
<1>2. /\ call'[c].tab = t /\ call'[c].op # "none" /\ call'[c].pc \in {"find", "user", "guard"}
      /\ call'[c].op = "refresh" <=> StartRefresh(t, c)
      /\ call'[c].op = "refresh" => call'[c].raw = jar
      /\ \A d \in Calls : d # c => call'[d] = call[d]
  <2>1. CASE StartRefresh(t, c)
    BY <1>1, <2>1, SendFacts DEF StartRefresh, Becomes, Ops, Steps
  <2>2. CASE StartLogin(t, c)
    <3>1. call'[c].tab = t /\ call'[c].op = "login" /\ call'[c].pc = "user" /\ \A d \in Calls : d # c => call'[d] = call[d]
      BY <1>1, <2>2, SendFacts DEF StartLogin, Becomes, Ops, Steps
    <3>2. ~StartRefresh(t, c)
      BY <1>1, <3>1, SendFacts DEF StartRefresh, Becomes, Ops, Steps
    <3>3. QED
      BY <3>1, <3>2
  <2>3. CASE Logout(t, c)
    <3>1. call'[c].tab = t /\ call'[c].op = "logout" /\ call'[c].pc = "guard" /\ \A d \in Calls : d # c => call'[d] = call[d]
      BY <1>1, <2>3, SendFacts DEF Logout, Becomes, Ops, Steps
    <3>2. ~StartRefresh(t, c)
      BY <1>1, <3>1, SendFacts DEF StartRefresh, Becomes, Ops, Steps
    <3>3. QED
      BY <3>1, <3>2
  <2>4. QED
    BY <2>1, <2>2, <2>3
<1>3. /\ \A u \in Tabs : tab[u].refreshing => tab'[u].refreshing
      /\ StartRefresh(t, c) => tab'[t].refreshing
  <2>1. CASE StartRefresh(t, c)
    <3>1. tab' = [tab EXCEPT ![t] = [tab[t] EXCEPT !.refreshing = TRUE]]
      BY <1>1, <2>1 DEF StartRefresh, Tab
    <3>2. QED
      BY <1>1, <3>1 DEF Tab
  <2>2. CASE ~StartRefresh(t, c)
    BY <2>2 DEF StartLogin, Logout
  <2>3. QED
    BY <2>1, <2>2
<1>4. StartRefresh(t, c) => (\A d \in Calls : ~Refreshing(d)) /\ ~InHistory(jar)
  BY DEF StartRefresh, RefreshLockIsFree, Quiet, OneRefresh, CarriedIsGood, Refreshing
<1>5. OneRefresh'
  <2>1. \A d \in Calls : call'[d].tab \in Tabs \/ (call'[d].op = "none" /\ call'[d].pc = "none")
    BY <1>2 DEF Quiet, OneRefresh
  <2>2. ASSUME NEW d \in Calls, Refreshing(d)' PROVE tab'[call'[d].tab].refreshing
    <3>1. CASE d = c
      BY <1>2, <1>3, <2>2, <3>1 DEF Refreshing
    <3>2. CASE d # c
      BY <1>2, <1>3, <2>2, <3>2 DEF Quiet, OneRefresh, Refreshing
    <3>3. QED
      BY <3>1, <3>2
  <2>3. \A d, e \in Calls : Refreshing(d)' /\ Refreshing(e)' => d = e
    BY <1>2, <1>4 DEF Quiet, OneRefresh, Refreshing
  <2>4. QED
    BY <2>1, <2>2, <2>3 DEF OneRefresh
<1>6. CarriedIsGood'
  <2>1. \A d \in Calls : call'[d].pc \notin {"replay", "replayed"}
    BY <1>2 DEF Quiet, CarriedIsGood
  <2>2. ASSUME NEW d \in Calls, Refreshing(d)', call'[d].pc # "ok" PROVE ~InHistory(call'[d].raw)
    BY <1>2, <1>4, <2>2 DEF Quiet, CarriedIsGood, Refreshing
  <2>3. ASSUME InHistory(jar) PROVE \E d \in Calls : call'[d].op = "refresh" /\ call'[d].pc = "ok"
    BY <1>1, <1>2, <2>3 DEF Quiet, CarriedIsGood, Refreshing
  <2>4. QED
    BY <2>1, <2>2, <2>3 DEF CarriedIsGood, Refreshing, InHistory
<1>7. FreshIsNew'
  <2>1. \A d \in Calls : Fresh(d)' => d # c /\ call'[d] = call[d] /\ Fresh(d)
    BY <1>2 DEF Fresh
  <2>2. \A d \in Calls : Fresh(d)' => ~InHistory(call'[d].token) /\ call'[d].token # jar /\ call'[d].token > 0
    BY <2>1 DEF Quiet, FreshIsNew
  <2>3. ASSUME NEW d \in Calls, NEW e \in Calls, Fresh(d)', Refreshing(e)', call'[e].pc # "ok"
        PROVE  call'[e].raw # call'[d].token
    <3>1. CASE e = c
      BY <1>2, <2>2, <2>3, <3>1 DEF Refreshing
    <3>2. CASE e # c
      BY <1>2, <2>1, <2>3, <3>2 DEF Quiet, FreshIsNew, Refreshing
    <3>3. QED
      BY <3>1, <3>2
  <2>4. \A d, e \in Calls : Fresh(d)' /\ Fresh(e)' /\ call'[d].token = call'[e].token => d = e
    BY <2>1 DEF Quiet, FreshIsNew
  <2>5. QED
    BY <2>2, <2>3, <2>4 DEF FreshIsNew, InHistory
<1>8. QED
  BY <1>5, <1>6, <1>7 DEF Quiet

(* Steps that touch no request, no history and no page's refresh. *)
LEMMA OthersAreQuiet ==
    ASSUME Quiet, UNCHANGED <<call, jar>>, row'.history = row.history,
           \A t \in Tabs : tab'[t].refreshing = tab[t].refreshing
    PROVE  Quiet'
<1>1. \A x : InHistory(x)' <=> InHistory(x)
  BY DEF InHistory
<1>2. OneRefresh'
  BY DEF Quiet, OneRefresh, Refreshing
<1>3. CarriedIsGood' /\ FreshIsNew'
  BY <1>1 DEF Quiet, CarriedIsGood, FreshIsNew, Refreshing, Fresh, InHistory
<1>4. QED
  BY <1>2, <1>3 DEF Quiet

LEMMA QuietStep == ASSUME SessionInv, QuietInv, [Next]_vars PROVE QuietInv'
<1>1. HistoryHolds'
  BY HistoryStep DEF QuietInv
<1>2. ASSUME ~lost' PROVE Quiet'
  <2>1. lost' = lost \/ \E c \in Calls : GiveUp(c)
    BY DEF Next, vars, Handle, FindSession, ReadUser, ReadRoles, RotateToken, LookForWinner, RevokeReplayed,
       CreateSession, RefuseLogin, CheckLogout, RevokeSession, HearAnswer, Forget, StartRefresh, StartLogin, Logout,
       AccessForgotten, SessionExpires, Invalidate, RevokeAll, DisableUser, EditRoles, AdminResetsPassword,
       InvalidateWith, EnableUser, ClearMustChange
  <2>2. ~(\E c \in Calls : GiveUp(c)) /\ Quiet /\ HistoryHolds
    BY <1>2, <2>1 DEF GiveUp, QuietInv
  <2>3. ASSUME NEW c \in Calls, Handle(c) PROVE Quiet'
    <3>1. CASE RotateToken(c) /\ CanRotate(c)
      BY <2>2, <3>1, RotateFacts, TokensAreNew
    <3>2. CASE CreateSession(c)
      BY <2>2, <3>2, LoginFacts, TokensAreNew
    <3>3. QED
      BY <2>2, <2>3, <3>1, <3>2, HandlersAreQuiet DEF Handle
  <2>4. ASSUME NEW c \in Calls, Forget(c) PROVE FALSE
    BY <2>2, <2>4, SessionsAssumption DEF Forget, Quiet, OneRefresh
  <2>5. CASE (\E t \in Tabs : AccessForgotten(t)) \/ SessionExpires \/ Invalidate \/ EnableUser \/ ClearMustChange
             \/ UNCHANGED vars
    <3>1. tab \in [Tabs -> Tab] /\ row \in Row
      BY DEF SessionInv, TypeOK
    <3>2. \A t \in Tabs : tab'[t].refreshing = tab[t].refreshing
      BY <2>5, <3>1 DEF AccessForgotten, SessionExpires, Invalidate, RevokeAll, DisableUser, EditRoles,
         AdminResetsPassword, InvalidateWith, EnableUser, ClearMustChange, vars, Tab
    <3>3. UNCHANGED <<call, jar>> /\ row'.history = row.history
      BY <2>5, <3>1 DEF AccessForgotten, SessionExpires, Invalidate, RevokeAll, DisableUser, EditRoles,
         AdminResetsPassword, InvalidateWith, Revoked, EnableUser, ClearMustChange, vars, Row
    <3>4. QED
      BY <2>2, <3>2, <3>3, OthersAreQuiet
  <2>6. QED
    BY <2>2, <2>3, <2>4, <2>5, AnswerIsQuiet, SendIsQuiet DEF Next
<1>3. QED
  BY <1>1, <1>2 DEF QuietInv

(* A refresh is taken for a replay, and ends the session, only after an     *)
(* answer was lost; and no token that is let in is out of date.             *)
THEOREM SessionsStaySound == Spec => []SessionsAreSound
<1>1. SessionInv /\ QuietInv => TypeOK /\ ReplaysFollowLostAnswers
  BY DEF SessionInv, QuietInv, Quiet, CarriedIsGood, ReplaysFollowLostAnswers
<1>2. SessionInv /\ QuietInv /\ [Next]_vars => QuietInv'
  BY QuietStep
<1>3. QED
  BY <1>1, <1>2, InitQuiet, SessionsHold, AcceptedTokensAreCurrent, PTL DEF Spec, SessionsAreSound
=============================================================================
