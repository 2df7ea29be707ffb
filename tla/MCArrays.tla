------------------------------ MODULE MCArrays ------------------------------
(* Arrays, and strings that are split into them, on small instances.       *)
EXTENDS ArraysInvariant, TLC

CONSTANTS a, b, r, L, K
MCArrays == {a, b}
MCRefs   == {r}
MCSymmetry == Permutations(MCArrays)

MCTexts == {<<L, Delim, K>>, <<Delim, L, K, Delim, Delim, K, Delim, L>>}
=============================================================================
