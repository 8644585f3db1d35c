--------------------------- MODULE MCRunPipeline ---------------------------
(***************************************************************************)
(* Instances of RunPipeline for TLC.                                       *)
(***************************************************************************)
EXTENDS RunPipeline, TLC

\* Messages a runner may leave out: a phase of recovery, an event before the
\* last one of an execution.
Chatter ==
  \E k \in DOMAIN log :
    \/ log[k].kind = "lifecycle" /\ log[k].state = "RECOVERING"
    \/ log[k].kind = "event" /\ log[k].event.seq > 1

\* A user who cancels, a fault, or messages the runner may leave out, one of the
\* three in a behaviour.  The counters and the log only grow, so this leaves
\* whole behaviours, and the liveness properties are checked of those.
CancelChatterOrFault ==
  cancels + faults + (IF Chatter THEN 1 ELSE 0) <= 1
=============================================================================
