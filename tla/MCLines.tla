------------------------------ MODULE MCLines ------------------------------
(***************************************************************************)
(* All texts of up to MaxLength characters and all ways to cut them.       *)
(***************************************************************************)
EXTENDS LineIterator
=============================================================================
