---------------------------- MODULE SessionLife ----------------------------
(***************************************************************************)
(* What a session promises: one refresh token is current, a refresh        *)
(* replaces exactly that one and remembers it, a revoked session stays     *)
(* revoked until somebody logs in again.                                   *)
(***************************************************************************)
EXTENDS Naturals, Sequences

CONSTANT HistorySize

VARIABLES status, current, history

lifeVars == <<status, current, history>>

LifeInit == status = "none" /\ current = 0 /\ history = <<>>

LastOf(s) == IF Len(s) > HistorySize THEN SubSeq(s, Len(s) - HistorySize + 1, Len(s)) ELSE s

LogIn == /\ status' = "ACTIVE" /\ current' > current /\ history' = <<>>

Rotate ==
    /\ status = "ACTIVE" /\ UNCHANGED status
    /\ current' > current
    /\ history' = LastOf(Append(history, current))

Revoke == status = "ACTIVE" /\ status' = "REVOKED" /\ UNCHANGED <<current, history>>

LifeSpec == LifeInit /\ [][LogIn \/ Rotate \/ Revoke]_lifeVars
=============================================================================
