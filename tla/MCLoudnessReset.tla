--------------------------- MODULE MCLoudnessReset ---------------------------
(***************************************************************************)
(* The reset protocol with two requests in one lifecycle, or one request   *)
(* and a second lifecycle.                                                 *)
(***************************************************************************)
EXTENDS LoudnessReset

CONSTANT Budget   \* bound of the model: requests and lifecycles together

MCNext == Next /\ request'.epoch + history'.lifecycles <= Budget

MCSpec == Init /\ [][MCNext]_vars
=============================================================================
