----------------------------- MODULE MCMmStream -----------------------------
(* Small instances of MmStream for TLC.                                        *)
EXTENDS MmStream, TLC

CONSTANTS c1, c2

MCClient == {c1, c2}
Symmetry == Permutations(MCClient)
=============================================================================
