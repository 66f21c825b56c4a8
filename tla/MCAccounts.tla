----------------------------- MODULE MCAccounts -----------------------------
EXTENDS Accounts, TLC

(* What is offered together: each behaviour mixes the requests of one of these. *)
OfferedMixes ==
    {{"login", "mini"}, {"adminLogin", "reset"}, {"mini", "unlink"}, {"callback", "link"},
     {"miniCallback", "link"}, {"miniCallback", "bind"}}
    \cup {{op, "administer"} : op \in {"login", "mini", "adminLogin", "reset"}}

(* Requests, phones and subjects are interchangeable. *)
Symmetry == Permutations(Calls) \cup Permutations(Phones) \cup Permutations(Subjects)
=============================================================================
