--------------------------- MODULE MCGenerational ---------------------------
(* Generational on small instances.                                        *)
EXTENDS GenerationalInvariant, TLC

CONSTANTS s1, s2

MCSeg == {s1, s2}
MCSymmetry == Permutations(MCSeg)
=============================================================================
