------------------------------ MODULE MCCheney ------------------------------
(* Cheney on small instances.                                              *)
EXTENDS CheneyInvariant, TLC

CONSTANTS s1, s2

MCSeg == {s1, s2}
MCSymmetry == Permutations(MCSeg)

\* KEK_UDO with two instance variables and a leaf type.
MCTypes == {"udo", "str"}
MCSlots == [t \in MCTypes |-> IF t = "udo" THEN 2 ELSE 0]

\* One unit each, as allocated and as copied.
UnitSize == [t \in MCTypes |-> 1]
=============================================================================
