--------------------------- MODULE MCOrderPayments ---------------------------
(* Instances of OrderPayments for TLC. *)
EXTENDS OrderPayments, TLC

Interchangeable ==
  Permutations(Deliveries) \cup Permutations(Intents)
    \cup Permutations(Events) \cup Permutations(RequestIds)
=============================================================================
