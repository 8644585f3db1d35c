----------------------------- MODULE RunStates -----------------------------
(***************************************************************************)
(* The vocabulary of a run's life: its states, the table of legal          *)
(* transitions and the check every writer of `runs.state` goes through.    *)
(* Source: packages/core/reslab_core/states.py.                            *)
(***************************************************************************)
EXTENDS Naturals, Sequences

RunState == {"CREATED", "VALIDATING", "QUEUED", "PREPARING", "RUNNING",
             "RECOVERING", "COLLECTING", "ANALYZING", "COMPLETED", "FAILED",
             "CANCELLED"}

TerminalRunStates == {"COMPLETED", "FAILED", "CANCELLED"}

\* States in which a runner is expected to be executing the run.
ActiveRunStates == {"PREPARING", "RUNNING", "RECOVERING", "COLLECTING"}

\* RUN_TRANSITIONS: the states a run may move to from each state.
RunTransitions ==
  [ CREATED    |-> {"VALIDATING", "CANCELLED"},
    VALIDATING |-> {"QUEUED", "FAILED", "CANCELLED"},
    QUEUED     |-> {"PREPARING", "FAILED", "CANCELLED"},
    PREPARING  |-> {"RUNNING", "FAILED", "CANCELLED"},
    RUNNING    |-> {"RECOVERING", "COLLECTING", "FAILED", "CANCELLED"},
    RECOVERING |-> {"RUNNING", "COLLECTING", "FAILED", "CANCELLED"},
    COLLECTING |-> {"ANALYZING", "FAILED", "CANCELLED"},
    ANALYZING  |-> {"COMPLETED", "FAILED"},
    COMPLETED  |-> {},
    FAILED     |-> {},
    CANCELLED  |-> {} ]

CanTransition(current, target) == target \in RunTransitions[current]

\* A writer that makes several transitions in one transaction raises at the
\* first illegal one, so the transaction succeeds only if all are legal.
LegalPath(path) ==
  \A i \in 1 .. Len(path) - 1 : CanTransition(path[i], path[i + 1])
=============================================================================
