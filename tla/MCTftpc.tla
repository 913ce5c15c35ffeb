------------------------------ MODULE MCTftpc -------------------------------
(* Instance of Tftpc for TLC: three full blocks, two of them with the same contents, and a short one. *)
EXTENDS Tftpc

CONSTANTS d1, d2, s   \* contents of the blocks

MCFile == <<d1, d2, d1, s>>
=============================================================================
