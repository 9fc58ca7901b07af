--------------------------- MODULE MCBlockWriter ---------------------------
(***************************************************************************)
(* BlockWriter for TLC: a block of 4 units, aligned to 2, filled by 2.     *)
(***************************************************************************)
EXTENDS BlockWriter

Lengths == {0, 1, 3, 4, 9}
Forward == {0, 2, 5, 8}
=============================================================================
