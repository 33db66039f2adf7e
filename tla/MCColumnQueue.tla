---------------------------- MODULE MCColumnQueue ----------------------------
(***************************************************************************)
(* Instances of ColumnQueue for TLC.                                         *)
(***************************************************************************)
EXTENDS ColumnQueue
=============================================================================
