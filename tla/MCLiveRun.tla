------------------------------ MODULE MCLiveRun ------------------------------
(***************************************************************************)
(* Instances of LiveRun for TLC.                                           *)
(***************************************************************************)
EXTENDS LiveRun

\* Two events with a sample between them, and the end.
WholeRun == <<"preparing", "running", "event", "telemetry", "event", "finished">>

\* The same from when a runner has taken the run.
ShortRun == Tail(WholeRun)
=============================================================================
