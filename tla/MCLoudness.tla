----------------------------- MODULE MCLoudness -----------------------------
(***************************************************************************)
(* The two sequential halves of the loudness measurement: the windows over *)
(* the captured frames, and the index over the energies of the blocks they *)
(* yield.  They share no state, so a behaviour of the run is one of either *)
(* half, each with the other at rest.                                      *)
(***************************************************************************)
EXTENDS IntegratedLoudness, LoudnessWindows

VARIABLE half   \* which half this behaviour is about

MCEnergies == {1, 2, 3, 40}
MCRates == {21, 24}

MCInit == IndexInit /\ WindowsInit /\ half \in {"index", "windows"}

MCNext ==
    \/ half = "index" /\ IndexNext /\ UNCHANGED <<windowVars, half>>
    \/ half = "windows" /\ WindowsNext /\ UNCHANGED <<indexVars, half>>

MCSpec == MCInit /\ [][MCNext]_<<indexVars, windowVars, half>>
=============================================================================
