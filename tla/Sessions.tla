------------------------------ MODULE Sessions ------------------------------
(***************************************************************************)
(* One user's session on one device: the API's session service and guard,  *)
(* the administrators who invalidate it, and the tabs (or the one          *)
(* mini-program process) that share the device's cookie.                   *)
(***************************************************************************)
EXTENDS Naturals, Sequences

CONSTANTS
    Tabs,          \* pages of one device, each with a refreshPromise of its own
    Calls,         \* requests an API process may be working on
    HistorySize,   \* refreshTokenHistory.slice(-32)
    Roles,         \* role and store assignments a user can have
    MaxTokens,     \* bound: refresh tokens issued
    MaxVersion,    \* bound: the user's sessionVersion
    None

(* What an access token says of its user. *)
Claims == [version: Nat, roles: Roles, must: BOOLEAN]

ASSUME SessionsAssumption ==
    /\ HistorySize \in Nat \ {0} /\ MaxTokens \in Nat /\ MaxVersion \in Nat
    /\ None \notin Tabs /\ None \notin Calls /\ None \notin Roles
    /\ Roles # {} /\ None \notin Claims

VARIABLES
    user,   \* users row with its role assignments
    row,    \* auth_sessions row of (user, audience, device)
    issued, \* refresh tokens generated so far: a token is its number
    call,   \* requests being handled
    jar,    \* the device's refresh_token cookie, 0 when there is none
    tab,    \* module state of each page
    lost    \* whether an answer ever failed to reach its page

vars == <<user, row, issued, call, jar, tab, lost>>

User == [status: {"ACTIVE", "DISABLED"}, version: Nat, roles: Roles, must: BOOLEAN]
Row == [status: {"none", "ACTIVE", "REVOKED"}, token: Nat, history: Seq(Nat), expired: BOOLEAN]
SeenUser == [status: {"ACTIVE", "DISABLED"}, version: Nat, roles: Roles \cup {None}, must: BOOLEAN]
Ops == {"none", "refresh", "login", "logout"}
Steps == {"none", "find", "user", "roles", "rotate", "race", "replay", "create", "guard", "revoke",
          "ok", "rejected", "replayed"}

(* A handler's stack frame: what the page sent, what was read, what is answered. *)
Call == [op: Ops, pc: Steps, tab: Tabs \cup {None}, raw: Nat, seen: SeenUser \cup {None},
         history: Seq(Nat), token: Nat, claims: Claims \cup {None}]
Idle == [op |-> "none", pc |-> "none", tab |-> None, raw |-> 0, seen |-> None,
         history |-> <<>>, token |-> 0, claims |-> None]
Tab == [access: Claims \cup {None}, refreshing: BOOLEAN]

TypeOK ==
    /\ user \in User /\ row \in Row /\ issued \in Nat /\ jar \in Nat /\ lost \in BOOLEAN
    /\ call \in [Calls -> Call] /\ tab \in [Tabs -> Tab]

Init ==
    /\ \E r \in Roles : user = [status |-> "ACTIVE", version |-> 0, roles |-> r, must |-> FALSE]
    /\ row = [status |-> "none", token |-> 0, history |-> <<>>, expired |-> FALSE]
    /\ issued = 0
    /\ call = [c \in Calls |-> Idle]
    /\ jar = 0
    /\ tab = [t \in Tabs |-> [access |-> None, refreshing |-> FALSE]]
    /\ lost = FALSE

-----------------------------------------------------------------------------
(* session.service.ts and access-token.guard.ts *)

FirstTokens(s) ==   \* mutant: slice(0, 32)
    IF Len(s) > HistorySize THEN SubSeq(s, 1, HistorySize) ELSE s
LastTokens(s) ==
    IF Len(s) > HistorySize THEN SubSeq(s, Len(s) - HistorySize + 1, Len(s)) ELSE s
Replaced(raw) == \E i \in DOMAIN row.history : row.history[i] = raw
Live == row.status = "ACTIVE" /\ ~row.expired

(* AccessTokenGuard: the session is looked up and the version compared on every request. *)
Accepts(claims) ==
    /\ claims # None /\ Live
    /\ user.status = "ACTIVE" /\ user.version = claims.version

At(c, op, pc) == call[c].op = op /\ call[c].pc = pc
(* What a call has read is gone when it ends. *)
Goto(c, pc) == call' = [call EXCEPT ![c].pc = pc]
End(c, pc, token, claims) ==
    call' = [call EXCEPT ![c] = [Idle EXCEPT !.op = call[c].op, !.tab = call[c].tab,
                                             !.pc = pc, !.token = token, !.claims = claims]]
RejectAsRead(c) == End(c, "rejected", 0, call[c].seen)   \* mutant: what was read leaks into the answer
Reject(c) == End(c, "rejected", 0, None)
(* sign() takes the user as the call has read him. *)
Sign(c, token) ==
    End(c, "ok", token, [version |-> call[c].seen.version, roles |-> call[c].seen.roles,
                         must |-> call[c].seen.must])

(* The session that has the token, or had it: its row decides. *)
FindSession(c) ==
    /\ At(c, "refresh", "find")
    /\ IF Live /\ row.token = call[c].raw
         THEN call' = [call EXCEPT ![c].pc = "user", ![c].history = row.history]
         ELSE IF Live /\ Replaced(call[c].raw) THEN Goto(c, "replay") ELSE Reject(c)
    /\ UNCHANGED <<user, row, issued, jar, tab, lost>>

(* include loads the user first and the role assignments after it: two queries,
   for a refresh as for a login with an account. *)
ReadUser(c) ==
    /\ call[c].pc = "user"
    /\ call' = [call EXCEPT ![c].pc = "roles",
                  ![c].seen = [status |-> user.status, version |-> user.version,
                               roles |-> None, must |-> user.must]]
    /\ UNCHANGED <<user, row, issued, jar, tab, lost>>

ReadRoles(c) ==
    /\ call[c].pc = "roles"
    /\ IF call[c].seen.status = "ACTIVE"
         THEN call' = [call EXCEPT ![c].seen.roles = user.roles,
                                   ![c].pc = IF call[c].op = "login" THEN "create" ELSE "rotate"]
         ELSE Reject(c)
    /\ UNCHANGED <<user, row, issued, jar, tab, lost>>

CanRotateLive(c) == call[c].raw >= 0 /\ Live   \* mutant: the update forgets the hash
CanRotate(c) == Live /\ row.token = call[c].raw

(* The conditional update; the history it writes is the one read with the session. *)
RotateToken(c) ==
    /\ At(c, "refresh", "rotate")
    /\ IF CanRotate(c)
         THEN /\ issued < MaxTokens
              /\ issued' = issued + 1
              /\ row' = [row EXCEPT !.token = issued',
                                    !.history = LastTokens(Append(call[c].history, call[c].raw))]
              /\ Sign(c, issued')
         ELSE /\ Goto(c, "race") /\ UNCHANGED <<row, issued>>
    /\ UNCHANGED <<user, jar, tab, lost>>

(* The token was not current any more: replaced by somebody else, or gone. *)
LookForWinner(c) ==
    /\ At(c, "refresh", "race")
    /\ IF row.status = "ACTIVE" /\ Replaced(call[c].raw) THEN Goto(c, "replay") ELSE Reject(c)
    /\ UNCHANGED <<user, row, issued, jar, tab, lost>>

Revoked(r) == [r EXCEPT !.status = IF @ = "ACTIVE" THEN "REVOKED" ELSE @]

RevokeReplayed(c) ==
    /\ At(c, "refresh", "replay")
    /\ row' = Revoked(row)
    /\ End(c, "replayed", 0, None)
    /\ UNCHANGED <<user, issued, jar, tab, lost>>

(* The upsert of a login with an account: nothing is read again after the password check. *)
CreateSession(c) ==
    /\ At(c, "login", "create")
    /\ issued < MaxTokens
    /\ issued' = issued + 1
    /\ row' = [status |-> "ACTIVE", token |-> issued', history |-> <<>>, expired |-> FALSE]
    /\ Sign(c, issued')
    /\ UNCHANGED <<user, jar, tab, lost>>

(* A wrong password, or no role for the audience: found out before anything is written. *)
RefuseLogin(c) ==
    /\ At(c, "login", "create")
    /\ Reject(c)
    /\ UNCHANGED <<user, row, issued, jar, tab, lost>>

CheckLogout(c) ==
    /\ At(c, "logout", "guard")
    /\ IF Accepts(call[c].claims) THEN Goto(c, "revoke") ELSE Reject(c)
    /\ UNCHANGED <<user, row, issued, jar, tab, lost>>

RevokeSession(c) ==
    /\ At(c, "logout", "revoke")
    /\ row' = Revoked(row)
    /\ End(c, "ok", 0, None)
    /\ UNCHANGED <<user, issued, jar, tab, lost>>

(* refreshTokenTtlDays go by. *)
SessionExpires ==
    /\ row.status # "none" /\ ~row.expired
    /\ row' = [row EXCEPT !.expired = TRUE]
    /\ UNCHANGED <<user, issued, call, jar, tab, lost>>

-----------------------------------------------------------------------------
(* What ends every session of a user, each in one transaction *)

InvalidateSessions(u) ==   \* mutant: sessions are revoked, the version stays
    /\ user.version < MaxVersion
    /\ user' = u /\ row' = Revoked(row)
    /\ UNCHANGED <<issued, call, jar, tab, lost>>
InvalidateWith(u) ==
    /\ user.version < MaxVersion
    /\ user' = [u EXCEPT !.version = @ + 1]
    /\ row' = Revoked(row)
    /\ UNCHANGED <<issued, call, jar, tab, lost>>

(* logout-all from another device, and a password that is replaced. *)
RevokeAll == InvalidateWith(user)
DisableUser == InvalidateWith([user EXCEPT !.status = "DISABLED"])
EditRoles == \E r \in Roles : InvalidateWith([user EXCEPT !.roles = r])
AdminResetsPassword == InvalidateWith([user EXCEPT !.must = TRUE])

EnableUser ==
    /\ user.status = "DISABLED"
    /\ user' = [user EXCEPT !.status = "ACTIVE"]
    /\ UNCHANGED <<row, issued, call, jar, tab, lost>>

(* The last write of a password change, some time after RevokeAll. *)
ClearMustChange ==
    /\ user.must
    /\ user' = [user EXCEPT !.must = FALSE]
    /\ UNCHANGED <<row, issued, call, jar, tab, lost>>

-----------------------------------------------------------------------------
(* The pages *)

Send(c, t, op, pc, raw, claims) ==
    /\ call[c].pc = "none"
    /\ call' = [call EXCEPT ![c] = [Idle EXCEPT !.op = op, !.pc = pc, !.tab = t,
                                                !.raw = raw, !.claims = claims]]

(* refresh(): one at a time in a page, and one at a time on the device under
   navigator.locks (a mini-program has one page). *)
SomePageIsFree == \E t \in Tabs : ~tab[t].refreshing   \* mutant: each page has a lock of its own
RefreshLockIsFree == \A t \in Tabs : ~tab[t].refreshing
StartRefresh(t, c) ==
    /\ RefreshLockIsFree
    /\ Send(c, t, "refresh", "find", jar, None)
    /\ tab' = [tab EXCEPT ![t].refreshing = TRUE]
    /\ UNCHANGED <<user, row, issued, jar, lost>>

StartLogin(t, c) ==
    /\ tab[t].access = None
    /\ Send(c, t, "login", "user", 0, None)
    /\ UNCHANGED <<user, row, issued, jar, tab, lost>>

(* Without a token that is still good by the page's clock, logout only forgets. *)
Logout(t, c) ==
    /\ tab[t].access # None
    /\ Send(c, t, "logout", "guard", 0, tab[t].access)
    /\ UNCHANGED <<user, row, issued, jar, tab, lost>>
AccessForgotten(t) ==
    /\ tab[t].access # None
    /\ tab' = [tab EXCEPT ![t].access = None]
    /\ UNCHANGED <<user, row, issued, call, jar, lost>>

Answered(c) == call[c].pc \in {"ok", "rejected", "replayed"}
Settle(t, op, access) ==
    tab' = [tab EXCEPT ![t].access = access,
                       ![t].refreshing = IF op = "refresh" THEN FALSE ELSE @]

(* The answer arrives: its Set-Cookie goes to the jar, its tokens to the page. *)
HearAnswer(c) ==
    LET a == call[c] IN
    /\ Answered(c) /\ a.tab # None
    /\ jar' = CASE a.pc # "ok" -> jar [] a.op = "logout" -> 0 [] OTHER -> a.token
    /\ Settle(a.tab, a.op, CASE a.op = "logout" -> None
                             [] a.pc = "ok" -> a.claims
                             [] a.op = "login" -> tab[a.tab].access
                             [] OTHER -> None)
    /\ call' = [call EXCEPT ![c] = Idle]
    /\ UNCHANGED <<user, row, issued, lost>>

(* The page gives up waiting (a timeout, a dropped connection, a reload): the
   API may still be working on the request. *)
GiveUp(c) ==
    LET a == call[c] IN
    /\ a.tab # None
    /\ \E access \in {None, tab[a.tab].access} :
          /\ a.op = "logout" => access = None
          /\ Settle(a.tab, a.op, access)
    /\ call' = [call EXCEPT ![c].tab = None]
    /\ lost' = TRUE
    /\ UNCHANGED <<user, row, issued, jar>>

(* A request nobody waits for ends, or its process does. *)
Forget(c) ==
    /\ call[c].pc # "none" /\ call[c].tab = None
    /\ call' = [call EXCEPT ![c] = Idle]
    /\ UNCHANGED <<user, row, issued, jar, tab, lost>>

-----------------------------------------------------------------------------
Handle(c) ==
    \/ FindSession(c) \/ ReadUser(c) \/ ReadRoles(c) \/ RotateToken(c) \/ LookForWinner(c)
    \/ RevokeReplayed(c) \/ CreateSession(c) \/ RefuseLogin(c) \/ CheckLogout(c) \/ RevokeSession(c)

Invalidate == \/ RevokeAll \/ DisableUser \/ EditRoles \/ AdminResetsPassword

Next ==
    \/ \E c \in Calls : \/ Handle(c) \/ HearAnswer(c) \/ GiveUp(c) \/ Forget(c)
                        \/ \E t \in Tabs : StartRefresh(t, c) \/ StartLogin(t, c) \/ Logout(t, c)
    \/ \E t \in Tabs : AccessForgotten(t)
    \/ SessionExpires \/ Invalidate \/ EnableUser \/ ClearMustChange

Spec == Init /\ [][Next]_vars

-----------------------------------------------------------------------------
(* Whatever was read, and how long ago: a token the guard lets in carries the
   roles the user has now, and the duty to change the password if he has it.
   Roles are not looked up by the guard; sessionVersion is what keeps them. *)
AcceptedClaimsAreCurrent ==
    \A claims \in {tab[t].access : t \in Tabs} \cup {call[c].claims : c \in Calls} :
        Accepts(claims) => /\ claims.roles = user.roles
                           /\ user.must => claims.must

(* refresh reads the session, the user and his roles one after the other and
   signs what it read: when the conditional update succeeds nothing of it is
   outdated, so what it signs is accepted at that moment. *)
RefreshedTokensAreGood ==
    [][\A c \in Calls : At(c, "refresh", "rotate") /\ call'[c].pc = "ok"
                            => (Accepts(call[c].claims))']_vars

(* A refresh that is taken for a replay ends the session: under the refresh lock
   that only happens after an answer was lost. *)
ReplaysFollowLostAnswers ==
    (\E c \in Calls : call[c].pc \in {"replay", "replayed"}) => lost

(* Every interleaving of refreshes, logins, logouts and invalidations is a
   sequence of atomic logins, rotations and revocations. *)
Life == INSTANCE SessionLife WITH status <- row.status, current <- row.token, history <- row.history
ImplementsLife == Life!LifeSpec

(* The invariants of sessions together: no stale claim is let in, and no
   session is ended for a replay that was none. *)
SessionsAreSound == TypeOK /\ AcceptedClaimsAreCurrent /\ ReplaysFollowLostAnswers
=============================================================================
