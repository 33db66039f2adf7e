------------------------- MODULE MCSnapshotExchange -------------------------
(***************************************************************************)
(* Instances of SnapshotExchange for TLC.                                    *)
(***************************************************************************)
EXTENDS SnapshotExchange
=============================================================================
