--------------------------- MODULE MCChannelPage ---------------------------
(* Module ChannelPage on small instances.                                  *)
EXTENDS ChannelPage

\* Which download and which fetch is which does not matter.
Symmetry == Permutations(Ids) \union Permutations(Fetches)

=============================================================================
