-------------------------- MODULE MCCaptureBoundary --------------------------
(***************************************************************************)
(* Instances of CaptureBoundary for TLC.                                     *)
(***************************************************************************)
EXTENDS CaptureBoundary
=============================================================================
