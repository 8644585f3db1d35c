--------------------------- MODULE MCScenarioStudio ---------------------------
(***************************************************************************)
(* An instance of ScenarioStudio for TLC: one scenario in the library and  *)
(* one that is not, two bodies for different adapters, and one that the    *)
(* form reads into another.                                                *)
(***************************************************************************)
EXTENDS ScenarioStudio

Carries == [a |-> "a", b |-> "b", odd |-> "a"]

Targets == [a |-> "mock", b |-> "px4", odd |-> "mock"]

Library == [x |-> "a", y |-> None]

NewDocument == [name |-> "y", body |-> "a"]

Edits == {[name |-> "x", body |-> "b"], [name |-> "y", body |-> "b"],
          [name |-> "y", body |-> "odd"]}

\* Bound: a studio that runs its document has not saved before, and what is
\* done after a run was followed is left out.  An empty text comes before any
\* request to save.  Of an edit and trouble, only one comes with two requests,
\* and then no request for the list that no save has overtaken.
RunsOrSaves ==
  /\ studio.mounted /\ studio.raw = Empty => posts = <<>>
  /\ studio.mounted /\ (studio.dialog \/ studio.picked \/ studio.run # NoRun)
       => posts = <<>> /\ counts.trouble = 0
  /\ ran # NoRun => page = "mission-control"
  /\ Len(posts) = 2 => /\ counts.edits + counts.trouble < 2
                       /\ list.request \in {"none", "overtaken"}
=============================================================================
