------------------------- MODULE MCIntegrationOutbox -------------------------
(* Instances of IntegrationOutbox for TLC. *)
EXTENDS IntegrationOutbox, TLC

Interchangeable == Permutations(Rows) \cup Permutations(Processes)
=============================================================================
