----------------------------- MODULE MCRunDetail -----------------------------
(***************************************************************************)
(* An instance of RunDetail for TLC: four components, of which one fails and *)
(* recovers, one changes twice at one time, one is lost from view, and one *)
(* is not on the command path.                                             *)
(***************************************************************************)
EXTENDS RunDetail

Domains ==
  [gnss |-> "navigation", link |-> "communications", core |-> "flight_control",
   imu |-> "flight_control"]

Healthy ==
  [gnss |-> "OPERATIONAL", link |-> "OPERATIONAL", core |-> "NOMINAL", imu |-> "OPERATIONAL"]

\* The vehicle does not move between ticks 1 and 2.
Places == [t \in 0..5 |-> IF t = 2 THEN 1 ELSE t]

Samples ==
  [t \in 1..5 |->
     [ health    |-> IF t = 1 THEN <<>>
                     ELSE [gnss |-> IF t = 2 THEN "FAILED" ELSE "RECOVERED", core |-> "NOMINAL",
                      imu |-> IF t = 4 THEN "DEGRADED" ELSE "OPERATIONAL"],
       mode      |-> IF t = 3 THEN "HOLD" ELSE "MISSION",
       authority |-> t # 4 ]]

Event(t, kind, id, before, after, safe) ==
  [t |-> t, kind |-> kind, subsystem |-> id, before |-> before, after |-> after, safe |-> safe]

\* A failed receiver, a fail-safe, two effects on the link at one time, a
\* recovery, a flight core that is lost from view, and a sensor of its domain.
Story ==
  << Event(1, "INJECTION_APPLIED", "gnss", None, None, FALSE),
     Event(1, "OBSERVED_EFFECT", "gnss", "OPERATIONAL", "FAILED", FALSE),
     Event(2, "OBSERVED_EFFECT", "link", "OPERATIONAL", "DEGRADED", FALSE),
     Event(2, "SYSTEM_RESPONSE", "core", None, None, TRUE),
     Event(2, "OBSERVED_EFFECT", "link", "DEGRADED", "UNAVAILABLE", FALSE),
     Event(2, "RECOVERY", "gnss", "FAILED", "RECOVERED", FALSE),
     Event(3, "OBSERVED_EFFECT", "core", "NOMINAL", "UNKNOWN", FALSE),
     Event(4, "OBSERVED_EFFECT", "imu", "OPERATIONAL", "DEGRADED", FALSE) >>

OneRecording == {Story}

\* A target that starts healthy, and one of which a component is impaired.
SomeStarts == {Healthy, [Healthy EXCEPT !["gnss"] = "FAILED"]}

Seen(t, kind, id, after) == [t |-> t, kind |-> kind, subsystem |-> id, after |-> after]

\* What may be observed at a time: changes of two components, a fault that is
\* injected and a fail-safe.
SeenAt(t) ==
  {Seen(t, "change", "gnss", after) :
     after \in {"FAILED", "DEGRADED", "RECOVERED", "OPERATIONAL", "UNKNOWN"}}
  \cup {Seen(t, "change", "core", after) : after \in {"FAILED", "RECOVERED"}}
  \cup {Seen(t, "INJECTION_APPLIED", "gnss", None), Seen(t, "SYSTEM_RESPONSE", "core", None)}

\* Every order of at most four of them, two at each time.
ShortObservations ==
  UNION {{[i \in 1..n |-> Seen(i \div 2, s[i].kind, s[i].subsystem, s[i].after)] :
            s \in [1..n -> SeenAt(0)]} : n \in 0..4}

\* What an engine may record of them: of these the figures are compared, and the
\* page is explored with the one above.
ManyRecordings ==
  OneRecording
    \cup {Recorded(start, observations) : start \in SomeStarts, observations \in ShortObservations}

ExploresStory == server.events = Story

\* Only the sensor fails: with it in the place of Story, ProtectedStayedHealthy fails.
OffPath == {<<Event(4, "OBSERVED_EFFECT", "imu", "OPERATIONAL", "DEGRADED", FALSE),
              Event(5, "RECOVERY", "imu", "DEGRADED", "RECOVERED", FALSE)>>}
==============================================================================
