--------------------------- MODULE MCSampleCapture ---------------------------
(***************************************************************************)
(* Instances of SampleCapture for TLC.                                       *)
(***************************************************************************)
EXTENDS SampleCapture
=============================================================================
