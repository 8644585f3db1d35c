--------------------------- MODULE MCMissionControl ---------------------------
(***************************************************************************)
(* Instances of MissionControl for TLC.                                    *)
(***************************************************************************)
EXTENDS MissionControl

OneRun == {1}

TwoRuns == 1..2
=============================================================================
