------------------------------ MODULE MCFrames ------------------------------
(* Frames on small instances.                                              *)
EXTENDS FramesInvariant, TLC

CONSTANTS v1, v2
MCValues == {v1, v2}
MCAddresses == {1}
MCSymmetry == Permutations(MCValues)
=============================================================================
