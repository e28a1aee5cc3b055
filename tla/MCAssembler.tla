---------------------------- MODULE MCAssembler ----------------------------
(***************************************************************************)
(* Assembler on a small instance: a short jump skips at most two           *)
(* instructions, so that many jumps of a program are too long.             *)
(***************************************************************************)
EXTENDS Assembler
=============================================================================
