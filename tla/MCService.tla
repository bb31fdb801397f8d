----------------------------- MODULE MCService -----------------------------
(* Module Service on small instances.                                      *)
EXTENDS Service, TLC

\* Which uuid a request gets, and which channel is which, does not matter.
Symmetry == Permutations(Ids) \union Permutations(Channels)

=============================================================================
