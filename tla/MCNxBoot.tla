------------------------------ MODULE MCNxBoot -------------------------------
(* Instances of NxBoot for TLC: image b is one block shorter than a and x,  *)
(* so that a copy of b leaves a tail of what it overwrites, and newer than  *)
(* a.                                                                       *)
EXTENDS NxBoot

CONSTANTS a, b, x   \* the images of the configurations

MCSize    == [i \in Images |-> IF i = b THEN NBlocks - 1 ELSE NBlocks]
MCVersion == [i \in Images |-> IF i = a THEN <<1, 0, 0>> ELSE <<2, 0, 0>>]
=============================================================================
