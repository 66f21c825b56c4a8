---------------------------- MODULE MCStorefront ----------------------------
EXTENDS Storefront

MCMixes == {{"create", "setDefault", "remove"}, {"shop"}, {"shop", "remove"}}
Symmetry == Permutations(Calls) \cup Permutations(Places)
=============================================================================
