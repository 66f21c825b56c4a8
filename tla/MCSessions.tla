----------------------------- MODULE MCSessions -----------------------------
EXTENDS Sessions, TLC

(* Pages, requests and role assignments are interchangeable. *)
Symmetry == Permutations(Tabs) \cup Permutations(Calls) \cup Permutations(Roles)
=============================================================================
