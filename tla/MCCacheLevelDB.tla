--------------------------- MODULE MCCacheLevelDB ---------------------------
(* Instances of CacheLevelDB for TLC. *)
EXTENDS CacheLevelDB, TLC

CONSTANTS v1, v2, t, u

TwoValues == {v1, v2}
TwoThreads == {t, u}

\* Nothing tells the values and the threads apart.
Symmetry == Permutations(TwoValues) \cup Permutations(TwoThreads)
=============================================================================
