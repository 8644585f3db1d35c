----------------------------- MODULE MCRunPages ------------------------------
(***************************************************************************)
(* An instance of RunPages for TLC: four runs of two scenarios, of which   *)
(* one fails, and whose analyses differ in each way a comparison tells.    *)
(***************************************************************************)
EXTENDS RunPages

Definitions ==
  [downtime |-> [better |-> "lower", tolerance |-> 2],
   duration |-> [better |-> "neutral", tolerance |-> 1]]
    @@ ("score.total" :> [better |-> "higher", tolerance |-> 0])

Recovery == [better |-> "lower", tolerance |-> 1]

Scenarios == <<"loss", "loss", "drift", "loss">>

Ends == <<"COMPLETED", "COMPLETED", "COMPLETED", "FAILED">>

Of(score, downtime, duration, outcome) ==
  [context  |-> [downtime |-> downtime, duration |-> duration] @@ ("score.total" :> score),
   score    |-> [safety  |-> [points |-> score, weight |-> 2],
                 compute |-> [points |-> 0, weight |-> 0]],
   outcomes |-> [landed |-> outcome]]

\* The second run differs from the first in what has no better way, and the
\* third is better in one and worse in another; it has a recovery of its own, and
\* a profile in which computing has a weight.
Analyses ==
  << Of(5, 4, 1, "passed"),
     Of(5, 6, 4, "passed"),
     [Of(3, 1, 1, "failed") EXCEPT
        !.context = @ @@ [gnss |-> 2],
        !.score   = [safety  |-> [points |-> 3, weight |-> 1],
                     compute |-> [points |-> 1, weight |-> 1]]],
     None >>

\* A third click only turns the pages of the whole history: back to one that is in
\* the cache.
ThirdClickTurns ==
  counts.clicks > 2 =>
    /\ address = History /\ pending = None /\ counts.incidents = 0
    /\ DOMAIN cache \subseteq {ListKey(NoFilter, PAGE_SIZE, o) : o \in {0, PAGE_SIZE}}
==============================================================================
