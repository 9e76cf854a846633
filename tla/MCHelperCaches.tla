--------------------------- MODULE MCHelperCaches ---------------------------
(* HelperCaches for TLC.                                                    *)
EXTENDS HelperCaches
Symm == Permutations(Callers) \cup Permutations(Hosts)
=============================================================================
