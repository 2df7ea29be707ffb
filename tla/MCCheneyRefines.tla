-------------------------- MODULE MCCheneyRefines --------------------------
(* CheneyRefines on a small instance: three types, one slot or none.       *)
EXTENDS CheneyRefines, TLC

CONSTANTS s1, s2

MCSeg == {s1, s2}
MCTypes == {"udo", "str", "int"}
MCSlots == [t \in MCTypes |-> IF t = "udo" THEN 1 ELSE 0]

\* The relations of the real sizes: alloc_udo asks for more than a copy takes
\* (sizeof(kek_obj_t) per variable), alloc_integer for less (28 bytes against
\* the 48 of the union), and a string is copied as it was allocated.
RealAlloc == [t \in MCTypes |-> IF t = "udo" THEN 2 ELSE 1]
RealCopy  == [t \in MCTypes |-> IF t = "int" THEN 2 ELSE 1]

\* The segments differ in name only, so the first to-space may be chosen.
MCInit == to = s1 /\ RefInit

\* The collector is a call of the single thread: once started, it runs.
MCSpec == MCInit /\ [][RefNext]_refVars /\ WF_vars(Collect)
=============================================================================
