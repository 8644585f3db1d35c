------------------------------- MODULE RunView -------------------------------
(***************************************************************************)
(* What the web application derives from the events and the telemetry of a *)
(* run (lib/run-view.ts, lib/events.ts), and what the analysis of the run  *)
(* derives from the same events (analysis/metrics.py).                     *)
(*                                                                         *)
(* Times are whole ticks.  An event is a record of the fields these        *)
(* functions read; `took` is its fault_duration.  A telemetry sample is    *)
(* known by its time, and SampleAt gives what it holds.  Means, rounding   *)
(* and the order in which names are listed are left out.                   *)
(***************************************************************************)
EXTENDS Naturals, Sequences, SequencesExt

CONSTANTS Components,   \* the components of the topology
          DomainOf,     \* the domain of each
          HealthyState, \* the healthy state of each
          FlightCritical,     \* the components of the zone flight_critical
          PROPAGATION_CHAIN,  \* the components of the command path
          Core,         \* flight_control.core
          SampleAt,     \* what the sample of a time holds
          None

\* From the ground station down to the actuators.
CHAIN_DOMAINS ==
  <<"external", "communications", "mission_compute", "flight_control", "actuation">>

ASSUME ViewAssumption ==
  /\ DomainOf \in [Components -> Range(CHAIN_DOMAINS) \cup {"navigation", "power"}]
  /\ HealthyState \in [Components -> {"NOMINAL", "OPERATIONAL"}]
  /\ Core \in Components /\ FlightCritical \subseteq Components
  /\ PROPAGATION_CHAIN \subseteq {id \in Components : DomainOf[id] \in Range(CHAIN_DOMAINS)}

ComponentState ==
  {"FAILED", "UNAVAILABLE", "RECOVERING", "DEGRADED", "RECOVERED", "NOMINAL",
   "OPERATIONAL", "UNKNOWN"}

EventKind ==
  {"INJECTION_APPLIED", "OBSERVED_EFFECT", "RECOVERY", "LOG", "SYSTEM_RESPONSE"}

CRITICAL_DOMAINS == {"flight_control", "actuation"}

isHealthy(state) == state \in {"NOMINAL", "OPERATIONAL", "RECOVERED"}

SEVERITY_RANK ==
  [s \in ComponentState |->
     CASE s = "FAILED" -> 5 [] s = "UNAVAILABLE" -> 4 [] s = "RECOVERING" -> 3
       [] s = "DEGRADED" -> 2 [] s = "RECOVERED" -> 1 [] OTHER -> 0]

Lesser(m, n) == IF m < n THEN m ELSE n
Larger(m, n) == IF m > n THEN m ELSE n

Clamp(t, low, high) == Lesser(Larger(t, low), high)

\* How many samples are not after a time: the binary search of the code.
indexAt(samples, time) ==
  LET search[low \in 0..Len(samples), high \in 0..Len(samples)] ==
        IF low >= high THEN low
        ELSE LET mid == (low + high) \div 2
             IN  IF samples[mid + 1] <= time THEN search[mid + 1, high]
                 ELSE search[low, mid]
  IN  search[0, Len(samples)]

eventsUpTo(events, time) == SelectSeq(events, LAMBDA e : e.t <= time)

------------------------------------------------------------------------------
(* The events an engine records (engine/scenario_engine.py) *)

\* The kind of the event that tells a change.  A component that was not observed
\* was not healthy.
ChangeKind(before, after) ==
  IF ~isHealthy(after) THEN "OBSERVED_EFFECT"
  ELSE IF isHealthy(before) THEN "LOG" ELSE "RECOVERY"

\* What one observation adds to a recording: a change, unless it is none, with the
\* state the engine had of the component before, or an event that is no change.
Told(story, seen) ==
  LET before == story.states[seen.subsystem]
      change == seen.after # None
      event  == [ t         |-> seen.t,
                  kind      |-> IF change THEN ChangeKind(before, seen.after) ELSE seen.kind,
                  subsystem |-> seen.subsystem,
                  before    |-> IF change THEN before ELSE None,
                  after     |-> seen.after,
                  safe      |-> seen.kind = "SYSTEM_RESPONSE" ]
  IN  IF change /\ before = seen.after THEN story
      ELSE [ states |-> IF change THEN [story.states EXCEPT ![seen.subsystem] = seen.after]
                        ELSE story.states,
             events |-> Append(story.events, event) ]

\* The recording of observations, from the states the target started in.
Recorded(start, observations) ==
  FoldLeft(Told, [states |-> start, events |-> <<>>], observations).events

------------------------------------------------------------------------------
(* The timeline *)

Changes(events, id) ==
  SelectSeq(events, LAMBDA e : e.subsystem = id /\ e.after # None)

\* Mutant: the segment after a change starts where the last one started.
ChangedFromStart(track, change, end) ==
  LET at == Clamp(change.t, 0, end)
  IN  IF change.after = track.state THEN track
      ELSE [ state    |-> change.after,
             from     |-> track.from,
             worst    |-> change.after,
             segments |-> IF at > track.from
                            THEN Append(track.segments, [state |-> track.state,
                                                         from |-> track.from, to |-> at])
                            ELSE track.segments ]

\* One change of a track.  A state that lasted no time leaves no segment, and a
\* change into the state the track is in is no change.
Changed(track, change, end) ==
  LET at == Clamp(change.t, 0, end)
  IN  IF change.after = track.state THEN track
      ELSE [ state    |-> change.after,
             from     |-> at,
             worst    |-> IF SEVERITY_RANK[change.after] > SEVERITY_RANK[track.worst]
                            THEN change.after ELSE track.worst,
             segments |-> IF at > track.from
                            THEN Append(track.segments, [state |-> track.state,
                                                         from |-> track.from, to |-> at])
                            ELSE track.segments ]

\* The subsystems with a track: those seen changing state, and the flight core.
Tracked(events) ==
  {id \in Components : Changes(events, id) # <<>>} \cup {Core}

buildTimeline(events, end) ==
  [id \in Tracked(events) |->
     LET start == [state |-> HealthyState[id], from |-> 0,
                   worst |-> HealthyState[id], segments |-> <<>>]
         track == FoldLeft(LAMBDA tr, e : Changed(tr, e, end), start, Changes(events, id))
     IN  [segments |-> Append(track.segments, [state |-> track.state,
                                               from |-> track.from, to |-> end]),
          worst    |-> track.worst]]

injectionMarkers(events) ==
  {[t |-> e.t, subsystem |-> e.subsystem] :
     e \in {x \in Range(events) : x.kind = "INJECTION_APPLIED"}}

\* Where the drawing of a track begins and ends a segment.
Scaled(segment, span) ==
  [segment EXCEPT !.from = Clamp(@, 0, span), !.to = Clamp(@, 0, span)]

------------------------------------------------------------------------------
(* The figures shown while a run is live *)

\* Effects seen on a component that leave it not healthy.
Effects(events) ==
  {e \in Range(events) : e.kind = "OBSERVED_EFFECT" /\ e.after # None /\ ~isHealthy(e.after)}

liveMissionKpis(sample, events) ==
  LET coreDown  == \E e \in Effects(events) : e.subsystem = Core
      authority == IF sample = None THEN TRUE ELSE SampleAt[sample].authority
  IN  [ safetyPreserved  |-> authority /\ ~coreDown,
        controlAuthority |-> authority,
        observed         |-> sample # None \/ events # <<>> ]

\* Mutant: the fail-safe is timed from the first fault.
PrecedingFirst(events, safe) ==
  LET preceding == SelectSeq(events, LAMBDA e : e \in Effects(events) /\ e.t <= safe.t)
  IN  IF preceding = <<>> THEN preceding ELSE <<preceding[1]>>

\* The effects a fail-safe answers to, the last of which it is timed from.
Preceding(events, safe) ==
  SelectSeq(events, LAMBDA e : e \in Effects(events) /\ e.t <= safe.t)

liveRecoveryKpis(events) ==
  LET faults     == {<<e.subsystem, e.t>> : e \in {x \in Effects(events) : x.after # "UNKNOWN"}}
      recoveries == SelectSeq(events, LAMBDA e : /\ e.kind = "RECOVERY"
                                                 /\ e.before # None
                                                 /\ ~isHealthy(e.before)
                                                 /\ e.before # "UNKNOWN")
      safe       == SelectSeq(events, LAMBDA e : e.kind = "SYSTEM_RESPONSE" /\ e.safe)
      preceding  == Preceding(events, safe[1])
  IN  [ faultsObserved   |-> Cardinality(faults),
        recovered        |-> Len(recoveries),
        safeStateEntered |-> safe # <<>>,
        timeToSafeState  |-> IF safe = <<>> THEN None
                             ELSE IF preceding = <<>> THEN None
                             ELSE safe[1].t - Last(preceding).t ]

liveContainmentKpis(events) ==
  LET injected == {e.subsystem : e \in {x \in Range(events) : x.kind = "INJECTION_APPLIED"}}
      affected == {e.subsystem : e \in Effects(events)}
      domains  == {DomainOf[id] : id \in affected}
  IN  [ injected             |-> injected,
        affected             |-> affected,
        propagated           |-> affected \ injected,
        affectedDomains      |-> domains,
        flightDomainAffected |-> domains \cap CRITICAL_DOMAINS # {} ]

\* What the row of a domain of the command path says of it.  Mutant: a component
\* that is healthy again was not affected.
RoleHealed(ids, kpis, health) ==
  LET anyFault == kpis.affected # {}
      healthy  == \A id \in ids : id \in DOMAIN health /\ isHealthy(health[id])
  IN  IF ids \cap kpis.injected # {} THEN "injected"
      ELSE IF anyFault /\ ids \cap FlightCritical # {} /\ healthy THEN "protected"
      ELSE IF ids \cap kpis.affected # {} THEN "propagated"
      ELSE "unaffected"

Role(ids, kpis, health) ==
  LET anyFault == kpis.affected # {}
      healthy  == \A id \in ids : id \in DOMAIN health /\ isHealthy(health[id])
  IN  IF ids \cap kpis.injected # {} THEN "injected"
      ELSE IF ids \cap kpis.affected # {} THEN "propagated"
      ELSE IF anyFault /\ ids \cap FlightCritical # {} /\ healthy THEN "protected"
      ELSE "unaffected"

\* BlastRadius: the rows go by the components of the path, the verdict by the
\* domains of all of them.  A fault is said to have stopped at the last row it hit.
BlastRadius(kpis, health) ==
  LET ids(d)  == {id \in PROPAGATION_CHAIN : DomainOf[id] = d}
      domains == SelectSeq(CHAIN_DOMAINS, LAMBDA d : ids(d) # {})
      rows    == [d \in Range(domains) |-> Role(ids(d), kpis, health)]
      hit     == SelectSeq(domains, LAMBDA d : rows[d] \in {"injected", "propagated"})
  IN  [ rows    |-> rows,
        verdict |-> IF kpis.flightDomainAffected THEN "PROPAGATED TO FLIGHT DOMAIN"
                    ELSE IF kpis.affected # {} THEN "CONTAINED" ELSE "NO FAULT OBSERVED",
        stopped |-> IF kpis.flightDomainAffected \/ hit = <<>> THEN None ELSE Last(hit) ]

\* The components of the topology by their domain, as the panel shows them: one
\* whose state is not known is not highlighted.
groupByDomain ==
  [d \in {DomainOf[id] : id \in Components} |-> {id \in Components : DomainOf[id] = d}]

SystemPanel(health) ==
  [d \in DOMAIN groupByDomain |->
     [id \in groupByDomain[d] |->
        LET state == IF id \in DOMAIN health THEN health[id] ELSE "UNKNOWN"
        IN  [state |-> state, degraded |-> id \in DOMAIN health /\ ~isHealthy(state)]]]

\* The state of every component: the sample's, or the last one events told.
currentHealth(sample, events) ==
  IF sample # None /\ SampleAt[sample].health # <<>> THEN SampleAt[sample].health
  ELSE [id \in {x \in Components : Changes(events, x) # <<>>} |->
          Last(Changes(events, id)).after]

\* One alert for each component that is not healthy, for a fail-safe mode and
\* for a lost control authority.
activeAlerts(sample) ==
  IF sample = None THEN {}
  ELSE LET s == SampleAt[sample]
       IN  {id \in DOMAIN s.health : ~isHealthy(s.health[id])}
             \cup {m \in {"HOLD", "RTL"} : s.mode = m}
             \cup (IF s.authority THEN {} ELSE {"control-authority"})

------------------------------------------------------------------------------
(* The same figures as the analysis computes them *)

\* A component that is no longer observed is not an affected one.
AnalyzedAffected(events) ==
  {e.subsystem : e \in {x \in Effects(events) : x.after # "UNKNOWN"}}

AnalyzedContainment(events) ==
  LET injected == {e.subsystem : e \in {x \in Range(events) : x.kind = "INJECTION_APPLIED"}}
      affected == AnalyzedAffected(events)
      domains  == {DomainOf[id] : id \in affected}
  IN  [ injected             |-> injected,
        affected             |-> affected,
        propagated           |-> affected \ injected,
        affectedDomains      |-> domains,
        flightDomainAffected |-> domains \cap CRITICAL_DOMAINS # {} ]

\* From the latest effect that precedes the first safe response to it.
AnalyzedTimeToSafeState(events) ==
  LET safe      == SelectSeq(events, LAMBDA e : e.kind = "SYSTEM_RESPONSE" /\ e.safe)
      preceding == {e.t : e \in {x \in Effects(events) : x.t <= safe[1].t}}
  IN  IF safe = <<>> THEN None
      ELSE IF preceding = {} THEN None
      ELSE safe[1].t - (CHOOSE t \in preceding : \A u \in preceding : u <= t)

\* A fault opens with the first effect on a healthy component and is recovered
\* by the first recovery after it.
AnalyzedRecovered(events) ==
  FoldLeft(LAMBDA acc, e :
             IF e \in Effects(events) THEN [acc EXCEPT !.open = @ \cup {e.subsystem}]
             ELSE IF e.kind = "RECOVERY" /\ e.subsystem \in acc.open
               THEN [open |-> acc.open \ {e.subsystem}, recovered |-> acc.recovered + 1]
             ELSE acc,
           [open |-> {}, recovered |-> 0], events).recovered

\* What the analysis says of the flight core: it was seen to fail.
AnalyzedCoreDown(events) == Core \in AnalyzedAffected(events)
=============================================================================
