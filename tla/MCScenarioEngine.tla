--------------------------- MODULE MCScenarioEngine ---------------------------
(***************************************************************************)
(* Instances of ScenarioEngine for TLC: gnss provides for nav.             *)
(***************************************************************************)
EXTENDS ScenarioEngine

MCComponents == {"gnss", "nav"}

MCUpstream == [c \in MCComponents |-> IF c = "nav" THEN {"gnss"} ELSE {}]

AllNominal == [c \in MCComponents |-> "NOMINAL"]

Expect(sub, state, within) == [sub |-> sub, state |-> state, within |-> within]

\* A bounded fault with a restart of the same component during it; a fault without
\* a duration that propagates, while a profile expects the other to stay healthy; and
\* a longer mission in which nothing happens.
MCScenarios ==
  { [timeout |-> 4, profile |-> None,
     events |->
       <<[id |-> 1, at |-> 1, sub |-> "gnss", effect |-> "unavailable", duration |-> 2,
          expect |-> <<Expect("gnss", "FAILED", 1), Expect("gnss", "RECOVERED", 2)>>],
         [id |-> 2, at |-> 2, sub |-> "gnss", effect |-> "restart", duration |-> None,
          expect |-> <<Expect("nav", "NOMINAL", 1)>>]>>],
    [timeout |-> 4,
     profile |-> [at |-> 1, duration |-> 1,
                  effects |-> <<[sub |-> "gnss", behaviour |-> "restart", id |-> 3],
                                [sub |-> "nav", behaviour |-> "operational", id |-> 4]>>],
     events |->
       <<[id |-> 1, at |-> 2, sub |-> "nav", effect |-> "unavailable", duration |-> None,
          expect |-> <<Expect("nav", "RECOVERED", 1)>>]>>],
    [timeout |-> 5, profile |-> None, events |-> <<>>] }

\* Where nothing is injected, nothing is explored but the batches.
QuietStays == scenario.events = <<>> => \A c \in Components : states[c] \in {"UNKNOWN", "NOMINAL"}

\* An event with the id that is made for one of the profile.
AlikeScenarios ==
  { [timeout |-> 4,
     profile |-> [at |-> 2, duration |-> 1,
                  effects |-> <<[sub |-> "nav", behaviour |-> "unavailable", id |-> 1]>>],
     events |->
       <<[id |-> 1, at |-> 1, sub |-> "gnss", effect |-> "unavailable", duration |-> 2,
          expect |-> <<>>]>>] }

To(sub, state) == [sub |-> sub, after |-> state, cause |-> None]

Recovers == <<To("gnss", "NOMINAL"), To("nav", "NOMINAL")>>

MCChanges ==
  { <<>>, <<To("gnss", "FAILED")>>, <<To("gnss", "RECOVERING")>>,
    <<To("gnss", "FAILED"), To("nav", "FAILED")>>, Recovers }

MCObservations ==
  [step : {1}, changes : MCChanges, finished : {FALSE}]
    \cup [step : {1}, changes : {<<>>, Recovers}, finished : {TRUE}]
    \cup [step : {2}, changes : {<<>>, Recovers}, finished : {FALSE}]
    \cup [step : {3}, changes : {<<>>}, finished : {FALSE}]
=============================================================================
