---------------------------- MODULE ScenarioEngine ----------------------------
(***************************************************************************)
(* One execution of a run: the scenario engine (engine/scenario_engine.py) *)
(* between its adapter and its sink, the events a scenario expands to      *)
(* (scenario/model.py), and what the runner does once the engine is over   *)
(* (services/runner/reslab_runner/service.py).                             *)
(*                                                                         *)
(* The engine is one coroutine: a cancel, an exception of the adapter or a *)
(* publish that raises finds it at one of its awaits.  The adapter is any  *)
(* that keeps the contract: it yields samples in order of time, says which *)
(* components changed, each once, applies an injection or not, and clears  *)
(* it.  An event that nothing below asks about is left out of the log.     *)
(***************************************************************************)
EXTENDS Naturals, Sequences, SequencesExt, FiniteSets, Places

CONSTANTS
  Components,     \* the components of the topology
  Upstream,       \* the providers of each
  InitialHealth,  \* what the adapter reports once it is prepared
  Scenarios,      \* the scenarios that may be run
  Observations,   \* what an adapter may yield: step of time, changes, finished
  BatchSpan,      \* telemetry_batch_seconds
  BatchSize,      \* how many samples a batch may hold: 200
  MaxFaults,      \* bound: publishes that raise
  None

Healthy == {"NOMINAL", "OPERATIONAL", "RECOVERED"}

ComponentState ==
  Healthy \cup {"DEGRADED", "UNAVAILABLE", "FAILED", "RECOVERING", "UNKNOWN"}

\* Effects the target recovers from by itself.
TRANSIENT_EFFECTS == {"restart", "crash"}

\* What the platform has validated.  Ids are numbered in their alphabetical order;
\* the ids of a profile's events are compared with no other.
IsEvent(e) ==
  /\ {e.id, e.at} \subseteq Nat /\ e.duration \in Nat \cup {None}
  /\ e.effect \in TRANSIENT_EFFECTS => e.duration = None
  /\ e.expect \in Seq(Range(e.expect))
  /\ \A x \in Range(e.expect) : x.within \in Nat

IsProfile(p) ==
  /\ {p.at, p.duration} \subseteq Nat /\ p.effects \in Seq(Range(p.effects))
  /\ \A b \in Range(p.effects) : b.id \in Nat

ASSUME EngineAssumption ==
  /\ None \notin Nat \cup {"unsupported", "cancelled", "target", "sink"}
  /\ Upstream \in [Components -> SUBSET Components]
  /\ InitialHealth \in [Components -> ComponentState]
  /\ BatchSpan \in Nat /\ BatchSize \in Nat \ {0} /\ MaxFaults \in Nat
  /\ \A o \in Observations :
       /\ o.step \in Nat \ {0} /\ o.finished \in BOOLEAN
       /\ o.changes \in Seq(Range(o.changes))
       /\ \A c \in Range(o.changes) : c.sub \in Components /\ c.after \in ComponentState
       /\ \A i, j \in DOMAIN o.changes : o.changes[i].sub = o.changes[j].sub => i = j
  /\ \A s \in Scenarios :
       /\ s.events \in Seq(Range(s.events))
       /\ \A i, j \in DOMAIN s.events : s.events[i].id = s.events[j].id => i = j
       /\ \A e \in Range(s.events) : IsEvent(e) /\ e.at < s.timeout
       /\ s.profile = None \/ IsProfile(s.profile)

VARIABLES
  scenario,     \* the scenario of the run
  pc,           \* how far the engine and the runner are
  token,        \* was the cancel token set?
  clock,        \* the time of the last sample
  obs,          \* the observation in hand
  pending,      \* events to be injected
  active,       \* the requests applied and not cleared, in order
  clears,       \* when bounded ones are to be cleared
  expectations, \* what was not decided yet
  states,       \* the state of each component
  openSince,    \* since when a component is not healthy
  batch,        \* samples not sent yet
  sent,         \* samples handed to the sink
  samples,      \* how many samples were taken
  log,          \* what was published, lifecycle and events
  runState,     \* the run state announced last
  exc,          \* the exception that ended the mission
  final,        \* final_state
  raised,       \* did run() itself raise?
  target,       \* persistent effects in the target, by event
  stopped,      \* was the adapter told to stop?
  faults        \* publishes that raised

sched   == <<pending, active, clears, target>>
watch   == <<expectations, states, openSince>>
tele    == <<batch, sent, samples>>
ending  == <<exc, final, raised, stopped>>
mission == <<sched, watch, tele, clock, obs>>
vars    == <<scenario, pc, token, mission, log, runState, ending, faults>>

------------------------------------------------------------------------------
(* The events of a scenario *)

\* A profile is one event for each behaviour, in its order; what is to stay
\* operational is expected by the first of them.
ProfileEvents(p) ==
  LET of(places)  == ElementsAt(p.effects, places)
      operational == of({i \in DOMAIN p.effects : p.effects[i].behaviour = "operational"})
      hit         == of({i \in DOMAIN p.effects : p.effects[i].behaviour # "operational"})
      expected    == [i \in DOMAIN operational |->
                        [sub |-> operational[i].sub, state |-> "OPERATIONAL", within |-> 1]]
  IN  [i \in DOMAIN hit |->
         [id |-> hit[i].id, at |-> p.at, sub |-> hit[i].sub, effect |-> hit[i].behaviour,
          duration |-> IF hit[i].behaviour \in TRANSIENT_EFFECTS THEN None ELSE p.duration,
          expect |-> IF i = 1 THEN expected ELSE <<>>]]

AllEvents(s) ==
  s.events \o (IF s.profile = None THEN <<>> ELSE ProfileEvents(s.profile))

\* By time, then by id, then as they were listed.
Earlier(events) ==
  {p \in (DOMAIN events) \X (DOMAIN events) :
     LET e == events[p[1]]
         f == events[p[2]]
     IN  \/ e.at < f.at
         \/ e.at = f.at /\ e.id < f.id
         \/ e.at = f.at /\ e.id = f.id /\ p[1] < p[2]}

\* Each event has an id of its own.
DistinctIds(s) ==
  \A i, j \in DOMAIN AllEvents(s) : AllEvents(s)[i].id = AllEvents(s)[j].id => i = j

expandedEvents(s) == Arranged(AllEvents(s), Earlier(AllEvents(s)))

------------------------------------------------------------------------------
(* The log *)

Say(entries) == log' = log \o entries

Lifecycle(state) == [kind |-> "lifecycle", state |-> state]

Marked(kind) == [kind |-> kind]

\* What befell an injection: requested, applied, rejected or cleared.
Note(kind, id, t) == [kind |-> kind, id |-> id, t |-> t]

Cleared(id, t, reason) == [kind |-> "cleared", id |-> id, t |-> t, reason |-> reason]

------------------------------------------------------------------------------
(* Injections *)

Request(e) == [id |-> e.id, sub |-> e.sub, effect |-> e.effect, duration |-> e.duration]

Persistent(request) == request.effect \notin TRANSIENT_EFFECTS

\* The dictionary of active requests keeps the place of a key.
Activated(request) ==
  LET at == {i \in DOMAIN active : active[i].id = request.id}
  IN  IF at = {} THEN Append(active, request)
      ELSE [active EXCEPT ![CHOOSE i \in at : TRUE] = request]

Without(requests, id) == ElementsAt(requests, {i \in DOMAIN requests : requests[i].id # id})

IsActive(id) == \E i \in DOMAIN active : active[i].id = id

Registered(e, t) ==
  [i \in DOMAIN e.expect |->
     [of |-> <<e.id, i>>, sub |-> e.expect[i].sub, state |-> e.expect[i].state,
      requested |-> t, deadline |-> t + e.expect[i].within, left |-> FALSE]]

\* Mutant: an event due at the time of the sample waits for the next one.
DueBefore(at) == at < clock

Due(at) == at <= clock

\* The next event that is due: requested, then applied or rejected.
Inject ==
  /\ pc = "scheduled" /\ pending # <<>> /\ Due(Head(pending).at)
  /\ pending' = Tail(pending)
  /\ LET e == Head(pending)
         request == Request(e)
     IN  \/ /\ active' = Activated(request)
            /\ clears' = IF e.duration = None THEN clears
                         ELSE clears \cup {[at |-> clock + e.duration, id |-> e.id]}
            /\ target' = IF Persistent(request) THEN target \cup {e.id} ELSE target
            /\ expectations' = expectations \o Registered(e, clock)
            /\ Say(<<Note("requested", e.id, clock), Note("applied", e.id, clock)>>)
         \/ /\ Say(<<Note("requested", e.id, clock), Note("rejected", e.id, clock)>>)
            /\ UNCHANGED <<active, clears, target, expectations>>
  /\ UNCHANGED <<scenario, pc, token, clock, obs, states, openSince, tele, runState,
                 ending, faults>>

\* The heap hands out one of the earliest.
NextClear(c) == \A d \in clears : c.at <= d.at

\* A bounded injection whose time is over; one that is not active any more is
\* passed over.
ClearDue ==
  /\ pc = "scheduled" /\ ~(pending # <<>> /\ Due(Head(pending).at))
  /\ \E c \in clears :
       /\ NextClear(c) /\ Due(c.at)
       /\ clears' = clears \ {c}
       /\ IF IsActive(c.id)
          THEN /\ active' = Without(active, c.id)
               /\ target' = target \ {c.id}
               /\ Say(<<Cleared(c.id, clock, "duration_elapsed")>>)
          ELSE UNCHANGED <<active, target, log>>
  /\ UNCHANGED <<scenario, pc, token, clock, obs, pending, watch, tele, runState,
                 ending, faults>>

\* Mutant: the observation waits until nothing is scheduled any more.
NothingScheduled == pending = <<>> /\ clears = {}

NothingDue ==
  /\ pending # <<>> => ~Due(Head(pending).at)
  /\ \A c \in clears : ~Due(c.at)

\* What _clear_all clears: a bounded injection is left to the end of the target.
ClearedAtEnd(request) == request.duration = None /\ Persistent(request)

------------------------------------------------------------------------------
(* Observations *)

\* An active injection on the component, or else on one of its providers.
AttributeCause(requests, sub) ==
  LET on(subs) == {i \in DOMAIN requests : requests[i].sub \in subs}
  IN  IF on({sub}) # {} THEN requests[Min(on({sub}))].id
      ELSE IF on(Upstream[sub]) # {} THEN requests[Min(on(Upstream[sub]))].id ELSE None

\* Mutant: a fault that gets worse is taken for a new one.
OpenedAgain(m, change) ==
  [m.open EXCEPT ![change.sub] = clock]

\* A fault opens when the component leaves a healthy or an unknown state.
Opened(m, change) ==
  IF m.states[change.sub] \in Healthy \cup {"UNKNOWN"} /\ m.open[change.sub] = None
    THEN [m.open EXCEPT ![change.sub] = clock]
    ELSE m.open

Forgotten(requests, sub) ==
  ElementsAt(requests,
             {i \in DOMAIN requests : requests[i].sub # sub \/ Persistent(requests[i])})

\* One change of a component.  A recovery ends the fault and forgets the
\* transient injections on the component.
Change(m, change) ==
  LET before   == m.states[change.sub]
      recovers == change.after \in Healthy /\ before \notin Healthy
      hit      == change.after \notin Healthy
      cause    == IF change.cause # None THEN change.cause
                  ELSE AttributeCause(m.active, change.sub)
      took     == IF ~recovers \/ m.open[change.sub] = None THEN None
                  ELSE clock - m.open[change.sub]
  IN  IF before = change.after THEN m
      ELSE [states |-> [m.states EXCEPT ![change.sub] = change.after],
            open   |-> IF recovers THEN [m.open EXCEPT ![change.sub] = None]
                       ELSE IF hit THEN Opened(m, change) ELSE m.open,
            active |-> IF recovers THEN Forgotten(m.active, change.sub) ELSE m.active,
            said   |-> Append(m.said,
                         [kind |-> IF recovers THEN "recovery"
                                   ELSE IF hit THEN "effect" ELSE "normalized",
                          sub |-> change.sub, before |-> before, after |-> change.after,
                          t |-> clock, cause |-> cause, took |-> took])]

\* What the changes of an observation make of it, one after the other.
Changed(m, changes) ==
  LET after[n \in 0..Len(changes)] ==
        IF n = 0 THEN m ELSE Change(after[n - 1], changes[n])
  IN  after[Len(changes)]

\* The run state that goes with what is known of the components.
RunStateOf(known) ==
  LET recovering == \E c \in Components : known[c] = "RECOVERING"
  IN  IF recovering /\ runState = "RUNNING" THEN "RECOVERING"
      ELSE IF ~recovering /\ runState = "RECOVERING" THEN "RUNNING"
      ELSE runState

ProcessObservation ==
  /\ pc = "scheduled" /\ NothingDue
  /\ LET m == Changed([states |-> states, open |-> openSince, active |-> active,
                        said |-> <<>>], obs.changes)
     IN  /\ states' = m.states /\ openSince' = m.open /\ active' = m.active
         /\ runState' = RunStateOf(m.states)
         /\ Say(m.said \o IF runState' = runState THEN <<>> ELSE <<Lifecycle(runState')>>)
  /\ pc' = "observed"
  /\ UNCHANGED <<scenario, token, clock, obs, pending, clears, target, expectations, tele,
                 ending, faults>>

------------------------------------------------------------------------------
(* Expectations *)

\* Mutant: a component that never left the healthy states has recovered.
ExpectationStatusLax(x, t) ==
  LET observed == states[x.sub]
      expired  == t > x.deadline
      late     == IF expired THEN "failed" ELSE "open"
  IN  IF x.state = "RECOVERED"
        THEN IF observed \in Healthy THEN "passed" ELSE late
      ELSE IF x.state \in Healthy
        THEN IF observed \notin Healthy THEN "failed"
             ELSE IF expired THEN "passed" ELSE "open"
      ELSE IF observed = x.state THEN "passed" ELSE late

\* What is decided of an expectation at a time.
ExpectationStatus(x, t) ==
  LET observed == states[x.sub]
      expired  == t > x.deadline
      late     == IF expired THEN "failed" ELSE "open"
  IN  IF x.state = "RECOVERED"
        THEN IF observed \in Healthy /\ x.left THEN "passed" ELSE late
      ELSE IF x.state \in Healthy
        THEN IF observed \notin Healthy THEN "failed"
             ELSE IF expired THEN "passed" ELSE "open"
      ELSE IF observed = x.state THEN "passed" ELSE late

\* An expectation of recovery remembers that the component was not healthy.
Watched(x) == [x EXCEPT !.left = @ \/ (x.state = "RECOVERED" /\ states[x.sub] \notin Healthy)]

Verdict(x, passed) == [kind |-> "verdict", of |-> x.of, t |-> clock, passed |-> passed]

\* The sample of the injection itself decides nothing.
Undecided(x) == clock <= x.requested \/ ExpectationStatus(x, clock) = "open"

Decisions(xs) ==
  LET decided == ElementsAt(xs, {i \in DOMAIN xs : ~Undecided(xs[i])})
  IN  [i \in DOMAIN decided |->
         Verdict(decided[i], ExpectationStatus(decided[i], clock) = "passed")]

\* At the end every window has closed.
Flushed(x) == Verdict(x, ExpectationStatus(x, clock + x.deadline + 1) = "passed")

------------------------------------------------------------------------------
(* Telemetry *)

\* The time from the first sample of the batch to one that is taken now.
SpanAt(t) == IF batch = <<>> THEN 0 ELSE t - batch[1].t

Full == Len(batch) + 1 >= BatchSize

\* Mutant: the batch goes out when the time is over by more than the span.
BatchDueLate(t) == SpanAt(t) > BatchSpan \/ Full

BatchDue(t) == SpanAt(t) >= BatchSpan \/ Full

\* A sample as the sink gets it.
Sample == [t |-> clock, health |-> states]

BufferSample ==
  /\ samples' = samples + 1
  /\ IF BatchDue(clock)
     THEN sent' = sent \o Append(batch, Sample) /\ batch' = <<>>
     ELSE batch' = Append(batch, Sample) /\ UNCHANGED sent

------------------------------------------------------------------------------
(* The run *)

\* PREPARING is announced, and what the adapter does not support ends the run.
Prepare ==
  /\ pc = "accepted"
  /\ Say(<<Lifecycle("PREPARING")>>) /\ runState' = "PREPARING"
  /\ pending' = expandedEvents(scenario)
  /\ \/ pc' = "preparing" /\ UNCHANGED exc
     \/ pc' = "raised" /\ exc' = "unsupported"
  /\ UNCHANGED <<scenario, token, clock, obs, active, clears, target, watch, tele, final,
                 raised, stopped, faults>>

\* The target is prepared, and its health read.
Prepared ==
  /\ pc = "preparing"
  /\ pc' = "prepared" /\ states' = InitialHealth
  /\ UNCHANGED <<scenario, token, sched, clock, obs, expectations, openSince, tele, log,
                 runState, ending, faults>>

\* Mutant: the preparation is given up unasked.
PreparationGivenUp ==
  /\ pc = "preparing"
  /\ pc' = "raised" /\ exc' = "cancelled"
  /\ UNCHANGED <<scenario, token, mission, log, runState, final, raised, stopped, faults>>

\* A cancel interrupts the preparation; one that finds it done does not.
PreparationCancelled ==
  /\ pc = "preparing" /\ token
  /\ pc' = "raised" /\ exc' = "cancelled"
  /\ UNCHANGED <<scenario, token, mission, log, runState, final, raised, stopped, faults>>

StartMission ==
  /\ pc = "prepared"
  /\ Say(<<Lifecycle("RUNNING")>>) /\ runState' = "RUNNING"
  /\ pc' = "waiting"
  /\ UNCHANGED <<scenario, token, mission, ending, faults>>

\* The adapter yields, and a cancel is seen before anything is made of it; or it has
\* nothing more to yield, and then no cancel is seen.
Observe ==
  /\ pc = "waiting"
  /\ \/ \E o \in Observations :
          /\ clock' = clock + o.step
          /\ IF token
             THEN /\ pc' = "leaving" /\ final' = "CANCELLED"
                  /\ UNCHANGED obs
             ELSE /\ pc' = "scheduled" /\ obs' = o
                  /\ UNCHANGED final
     \/ pc' = "leaving" /\ UNCHANGED <<clock, obs, final>>
  /\ UNCHANGED <<scenario, token, sched, watch, tele, log, runState, exc, raised, stopped,
                 faults>>

MissionOver == obs.finished \/ clock >= scenario.timeout

\* The expectations, the sample, and the end of the mission.
FinishSample ==
  /\ pc = "observed"
  /\ LET watched == [i \in DOMAIN expectations |->
                       IF clock <= expectations[i].requested THEN expectations[i]
                       ELSE Watched(expectations[i])]
     IN  /\ Say(Decisions(watched))
         /\ expectations' = ElementsAt(watched, {i \in DOMAIN watched : Undecided(watched[i])})
  /\ BufferSample
  /\ pc' = IF MissionOver THEN "leaving" ELSE "waiting"
  /\ obs' = None
  /\ UNCHANGED <<scenario, token, sched, clock, states, openSince, runState, ending, faults>>

\* After the loop: verdicts on what is open, clears, and the last batch.
Leave ==
  /\ pc = "leaving"
  /\ LET kept  == {i \in DOMAIN active : ~ClearedAtEnd(active[i]) /\ Persistent(active[i])}
         ended == ElementsAt(active, {i \in DOMAIN active : ClearedAtEnd(active[i])})
     IN  /\ active' = ElementsAt(active, kept)
         /\ target' = target \ {r.id : r \in Range(ended)}
         /\ Say([i \in DOMAIN expectations |-> Flushed(expectations[i])]
                  \o [i \in DOMAIN ended |-> Cleared(ended[i].id, clock, "scenario_end")])
  /\ expectations' = <<>> /\ clears' = {}
  /\ sent' = sent \o batch /\ batch' = <<>>
  /\ pc' = "final"
  /\ UNCHANGED <<scenario, token, pending, states, openSince, samples, clock, obs, runState,
                 ending, faults>>

------------------------------------------------------------------------------
(* Trouble *)

InTry == {"preparing", "prepared", "waiting", "scheduled", "observed", "leaving"}

Fault == faults < MaxFaults /\ faults' = faults + 1

\* What a step that is interrupted may have done to the target.
Touched ==
  {target}
    \cup (IF pc = "scheduled" /\ pending # <<>> /\ Due(Head(pending).at)
            /\ Persistent(Request(Head(pending)))
          THEN {target \cup {Head(pending).id}} ELSE {})
    \cup (IF pc = "leaving"
          THEN {target \ {active[i].id} : i \in {j \in DOMAIN active : ClearedAtEnd(active[j])}}
          ELSE {})

\* A call of the adapter raises: prepare, inject, clear or observe.  A start that
\* raises is an observe that never yields.
TargetFails ==
  /\ pc \in InTry \ {"prepared", "observed"}
  /\ pc = "scheduled" => ~NothingDue
  /\ pc = "leaving" => \E i \in DOMAIN active : ClearedAtEnd(active[i])
  /\ target' \in Touched
  /\ pc' = "raised" /\ exc' = "target"
  /\ UNCHANGED <<scenario, token, pending, active, clears, watch, tele, clock, obs, log,
                 runState, final, raised, stopped, faults>>

\* A publish raises inside the mission: nothing more of the step is done, or
\* the batch that was to be sent is lost.
SinkFails ==
  /\ pc \in InTry \cup {"accepted"} /\ Fault
  /\ \/ UNCHANGED <<batch, samples>>
     \/ /\ pc = "observed" /\ BatchDue(clock)
        /\ batch' = <<>> /\ samples' = samples + 1
     \/ /\ pc = "leaving" /\ batch # <<>>
        /\ batch' = <<>> /\ UNCHANGED samples
  /\ target' \in Touched
  /\ pc' = "raised" /\ exc' = "sink"
  /\ UNCHANGED <<scenario, token, pending, active, clears, watch, sent, clock, obs, log,
                 runState, final, raised, stopped>>

\* The except clauses: a last event, which may not get through either.
Handle ==
  /\ pc = "raised"
  /\ final' = IF exc = "cancelled" THEN "CANCELLED" ELSE "FAILED"
  /\ pc' = "final"
  /\ \/ UNCHANGED <<raised, faults>>
     \/ raised' = TRUE /\ Fault
  /\ UNCHANGED <<scenario, token, mission, log, runState, exc, stopped>>

------------------------------------------------------------------------------
(* The finally clause, and the runner *)

\* The rest of the samples and COLLECTING.  A batch that cannot be sent leaves
\* at once; a lifecycle message that cannot is an artifact failure, which is
\* yet to be said.
Collect ==
  /\ pc = "final"
  /\ \/ /\ sent' = sent \o batch /\ batch' = <<>>
        /\ Say(<<Lifecycle("COLLECTING")>>) /\ runState' = "COLLECTING"
        /\ pc' = "collecting"
        /\ UNCHANGED <<raised, faults>>
     \/ /\ Fault /\ batch # <<>>
        /\ batch' = <<>> /\ raised' = TRUE /\ pc' = "returned"
        /\ UNCHANGED <<sent, log, runState>>
     \/ /\ Fault
        /\ sent' = sent \o batch /\ batch' = <<>>
        /\ runState' = "COLLECTING" /\ pc' = "collecting"
        /\ UNCHANGED <<raised, log>>
  /\ UNCHANGED <<scenario, token, sched, watch, samples, clock, obs, exc, final, stopped>>

\* The artifacts are there or not; that they are not may fail to be said.
CollectArtifacts ==
  /\ pc = "collecting"
  /\ \/ pc' = "stopping" /\ UNCHANGED <<raised, faults>>
     \/ pc' = "returned" /\ raised' = TRUE /\ Fault
  /\ UNCHANGED <<scenario, token, mission, log, runState, exc, final, stopped>>

Stop ==
  /\ pc = "stopping"
  /\ stopped' = TRUE /\ pc' = "returned"
  /\ \/ UNCHANGED <<raised, faults>>
     \/ raised' = TRUE /\ Fault
  /\ UNCHANGED <<scenario, token, mission, log, runState, exc, final>>

\* The runner publishes the artifacts and takes the run from its list.
Pop ==
  /\ pc = "returned"
  /\ pc' = "popped"
  /\ UNCHANGED <<scenario, token, mission, log, runState, ending, faults>>

PublishArtifactFails ==
  /\ pc = "returned" /\ ~raised /\ Fault
  /\ raised' = TRUE
  /\ UNCHANGED <<scenario, pc, token, mission, log, runState, exc, final, stopped>>

Finish ==
  /\ pc = "popped"
  /\ \/ Say(<<Marked("finished")>>) /\ UNCHANGED faults
     \/ UNCHANGED log /\ Fault
  /\ pc' = "done"
  /\ UNCHANGED <<scenario, token, mission, runState, ending>>

\* A cancel request comes in.
Cancel ==
  /\ ~token /\ pc \notin {"popped", "done"}
  /\ token' = TRUE
  /\ UNCHANGED <<scenario, pc, mission, log, runState, ending, faults>>

Init ==
  /\ scenario \in Scenarios
  /\ pc = "accepted" /\ token = FALSE /\ clock = 0 /\ obs = None
  /\ pending = <<>> /\ active = <<>> /\ clears = {} /\ target = {}
  /\ expectations = <<>> /\ states = [c \in Components |-> "UNKNOWN"]
  /\ openSince = [c \in Components |-> None]
  /\ batch = <<>> /\ sent = <<>> /\ samples = 0
  /\ log = <<>> /\ runState = "QUEUED"
  /\ exc = None /\ final = "COLLECTING" /\ raised = FALSE /\ stopped = FALSE
  /\ faults = 0

\* What the engine and the runner do of themselves.
Step ==
  \/ Prepare \/ Prepared \/ PreparationCancelled \/ StartMission
  \/ Inject \/ ClearDue \/ ProcessObservation \/ FinishSample \/ Leave
  \/ Handle \/ Collect \/ CollectArtifacts \/ Stop \/ Pop \/ Finish

Next == Step \/ Observe \/ TargetFails \/ SinkFails \/ PublishArtifactFails \/ Cancel

Spec == Init /\ [][Next]_vars

\* The coroutine goes on, and the adapter yields, or ends, as long as it is listened to.
FairSpec == Spec /\ WF_vars(Step) /\ WF_vars(Observe)

------------------------------------------------------------------------------
(* The execution as RunPipeline has it: its events are left out but for the    *)
(* last, and so is what a sink does after it failed once.                      *)

Runner == "runner"

Over == pc \in {"final", "collecting", "stopping", "returned", "popped", "done"}
          \/ (pc = "raised" /\ exc = "sink")

\* The mission goes on, or its end is not handled yet.
Trying == pc \in InTry \/ (pc = "raised" /\ exc # "sink")

Phase ==
  CASE pc = "done" -> "idle"
    [] pc \in {"accepted", "popped"} -> pc
    [] pc \in {"collecting", "stopping", "returned"} -> "collecting"
    [] pc = "final" \/ (pc = "raised" /\ exc = "sink") -> "ending"
    [] Trying /\ runState = "PREPARING" -> "preparing"
    [] Trying /\ runState = "RECOVERING" -> "recovering"
    [] OTHER -> "running"

\* The outcome the runner reports.
Outcome ==
  IF raised \/ exc = "sink" THEN "failed"
  ELSE CASE final = "COLLECTING" -> "completed" [] final = "CANCELLED" -> "cancelled"
         [] OTHER -> "failed"

ExecutionOf ==
  IF pc = "done" THEN [pc |-> "idle", attempt |-> 0, seq |-> 0, cancel |-> FALSE, outcome |-> "failed"]
  ELSE [pc |-> Phase, attempt |-> 1, seq |-> IF Over THEN 1 ELSE 0,
        cancel |-> token /\ ~Over, outcome |-> IF Over THEN Outcome ELSE "failed"]

ToldAt(announced) == {i \in DOMAIN log : log[i].kind = "lifecycle" /\ log[i].state \in announced}

Told(announced) ==
  LET told == ElementsAt(log, ToldAt(announced))
  IN  [i \in DOMAIN told |-> [kind |-> "lifecycle", state |-> told[i].state, from |-> Runner]]

LogOf ==
  Told({"PREPARING", "RUNNING", "RECOVERING"})
    \o (IF Over THEN <<[kind |-> "event", event |-> [seq |-> 1, attempt |-> 1]]>> ELSE <<>>)
    \o Told({"COLLECTING"})
    \o (IF \E i \in DOMAIN log : log[i].kind = "finished"
          THEN <<[kind |-> "finished", outcome |-> Outcome, from |-> Runner]>> ELSE <<>>)

Pipeline == INSTANCE RunPipeline WITH
  Runners <- {Runner}, NoRunner <- None, Timely <- FALSE, MaxDeliver <- 1, ChatterAt <- Nat,
  MaxCancels <- 1, Faults <- {"publish"}, MaxFaults <- MaxFaults,
  exec <- [n \in {Runner} |-> ExecutionOf], log <- LogOf,
  wire <- IF token THEN {} ELSE {Runner}, faults <- faults,
  runner <- [n \in {Runner} |-> "up"], attempts <- 1, job <- FALSE,
  row <- None, stored <- {}, object <- None, request <- None, cancelReq <- None,
  cancels <- 0, asked <- {}, cursor <- 1, again <- {}, handler <- None, watchdog <- None,
  trusted <- TRUE, hb <- None, late <- None

------------------------------------------------------------------------------
(* Properties *)

TypeOK ==
  /\ scenario \in Scenarios
  /\ token \in BOOLEAN /\ clock \in Nat /\ samples \in Nat
  /\ \A i \in DOMAIN active : active[i].sub \in Components
  /\ states \in [Components -> ComponentState]
  /\ openSince \in [Components -> 0..clock \cup {None}]
  /\ runState \in {"QUEUED", "PREPARING", "RUNNING", "RECOVERING", "COLLECTING"}
  /\ final \in {"COLLECTING", "FAILED", "CANCELLED"}
  /\ raised \in BOOLEAN /\ stopped \in BOOLEAN
  /\ faults \in 0..MaxFaults

\* A moment at which the log, the samples and the state of the engine go together:
\* between two samples, or after the mission, and no exception so far.
Settled == pc \in {"waiting", "final"} /\ exc = None

History == sent \o batch

Entries(kind) == {i \in DOMAIN log : log[i].kind = kind}

EventIn(s, id) == CHOOSE e \in Range(AllEvents(s)) : e.id = id

EventOf(id) == EventIn(scenario, id)

AppliedAt(id) == log[CHOOSE i \in Entries("applied") : log[i].id = id].t

\* Every verdict on an expectation is what the samples after the injection say: a
\* component that was to stay healthy did, one that was to recover was seen unhealthy
\* and then healthy, another state was seen; and it is given neither before it is
\* certain nor after the first sample past the deadline.
VerdictsAreEarned ==
  Settled =>
    \A i \in Entries("verdict") :
      LET v        == log[i]
          x        == EventOf(v.of[1]).expect[v.of[2]]
          applied  == AppliedAt(v.of[1])
          deadline == applied + x.within
          after    == {h \in Range(History) : h.t > applied /\ h.t <= v.t}
          judged   == IF after # {} THEN after ELSE {h \in Range(History) : h.t = applied}
          well(h)  == h.health[x.sub] \in Healthy
          held     == IF x.state = "RECOVERED"
                        THEN \E g, h \in judged : g.t < h.t /\ ~well(g) /\ well(h)
                      ELSE IF x.state \in Healthy THEN \A h \in judged : well(h)
                      ELSE \E h \in judged : h.health[x.sub] = x.state
          closed   == v.t > deadline \/ (pc = "final" /\ v.t = clock)
      IN  /\ v.passed = held
          /\ \A g, h \in after : g.t < h.t => g.t <= deadline
          /\ v.passed = (x.state \in Healthy \ {"RECOVERED"}) => closed

\* Every expectation of an injection that was applied gets one verdict, and no other
\* expectation gets one: on whichever way the mission ends short of an exception.
EachIsJudgedOnce ==
  /\ \A i, j \in Entries("verdict") : log[i].of = log[j].of => i = j
  /\ pc = "final" /\ exc = None =>
       {log[i].of : i \in Entries("verdict")} =
         UNION {{<<log[i].id, n>> : n \in DOMAIN EventOf(log[i].id).expect} : i \in Entries("applied")}

\* Each expectation is judged, once and rightly.
JudgedRight == VerdictsAreEarned /\ EachIsJudgedOnce

\* A persistent injection with a duration is cleared once, at the first sample that
\* finds its time over, and one without at the end and not before.  What is left in
\* the target has a duration that the mission did not outlast.
OnlyBoundedOutlive ==
  Settled =>
    \A i \in Entries("applied") :
      LET e       == EventOf(log[i].id)
          cleared == {j \in Entries("cleared") : log[j].id = e.id}
          over    == e.duration # None /\ clock >= log[i].t + e.duration /\ ~(pc = "final" /\ token)
      IN  /\ Cardinality(cleared) <= 1
          /\ \A j \in cleared :
               IF e.duration = None THEN log[j].reason = "scenario_end" /\ pc = "final"
               ELSE /\ log[j].t >= log[i].t + e.duration
                    /\ \A h \in Range(History) : h.t < log[j].t => h.t < log[i].t + e.duration
          /\ e.id \in target <=> cleared = {} /\ e.effect \notin TRANSIENT_EFFECTS
          /\ over => cleared # {}
          /\ pc = "final" /\ e.duration = None => e.id \notin target

\* The duration of a fault runs from the sample at which the component left the
\* healthy states to the one that found it healthy again, however often it got worse
\* or was lost from view.  One that the mission never saw healthy did not leave them.
FaultsAreTimed ==
  Settled =>
    \A i \in Entries("recovery") :
      LET r      == log[i]
          before == {h \in Range(History) : h.t < r.t}
          whole  == {h \in before : \A g \in before : h.t <= g.t => g.health[r.sub] \notin Healthy}
      IN  InitialHealth[r.sub] \in Healthy \/ (\E h \in before : h.health[r.sub] \in Healthy) =>
            r.took = r.t - (CHOOSE t \in {h.t : h \in whole} : \A h \in whole : t <= h.t)

\* A change is attributed to an injection that was applied and not cleared before, and
\* not to a restart the component has recovered from.
CausesAreOpen ==
  \A i \in Entries("effect") \cup Entries("recovery") :
    log[i].cause # None =>
      \E j \in Entries("applied") :
        /\ j < i /\ log[j].id = log[i].cause
        /\ \A k \in j..(i - 1) : ~(log[k].kind = "cleared" /\ log[k].id = log[j].id)
        /\ EventOf(log[j].id).effect \in TRANSIENT_EFFECTS =>
             \A k \in j..(i - 1) :
               ~(log[k].kind = "recovery" /\ log[k].sub = EventOf(log[j].id).sub)

\* Who follows the run is told that it is recovering when a component is, and only
\* then.
RecoveringIsTold ==
  pc = "waiting" /\ samples > 0 =>
    (log[Max(Entries("lifecycle"))].state = "RECOVERING") <=> \E c \in Components : states[c] = "RECOVERING"

\* What events tell besides the states is so: durations, causes, and that the run
\* is recovering.
EventsTellTrue == FaultsAreTimed /\ CausesAreOpen /\ RecoveringIsTold

\* Every sample that was taken is sent, once and in order, unless the sink fails; and
\* between two samples what waits is neither as old nor as much as a batch may be.
TelemetryIsComplete ==
  /\ faults = 0 =>
       /\ Len(History) = samples
       /\ \A i \in 1..(Len(History) - 1) : History[i].t < History[i + 1].t
       /\ pc \in {"collecting", "stopping", "returned", "popped", "done"} => batch = <<>>
  /\ pc = "waiting" /\ batch # <<>> =>
       Last(batch).t - batch[1].t < BatchSpan /\ Len(batch) < BatchSize

\* What RunPipeline takes a runner to do from the acceptance of a job to its finished
\* message is what the engine and the runner do.
RunsAsPipeline ==
  /\ ExecutionOf = Pipeline!Fresh("accepted", 1)
  /\ [][Pipeline!Execution(Runner) \/ Pipeline!OnControl(Runner)]_(Pipeline!vars)

\* A run that was accepted comes to its end, whatever fails.
Returns == <>(pc = "done")

\* What the repository says of an execution, and the code does not keep.

\* scenario-format.md:174: a component that was to recover must "return to it before
\* the window closes", and another state "fails when the window closes without it".
VerdictsInWindow ==
  \A i \in Entries("verdict") :
    LET v == log[i]
        x == EventOf(v.of[1]).expect[v.of[2]]
    IN  v.passed /\ x.state \notin Healthy \ {"RECOVERED"} =>
          v.t <= AppliedAt(v.of[1]) + x.within

\* scenario/model.py:254-255: "Subsystems marked `operational` are explicitly expected to stay
\* healthy and become expectations."
OperationalIsExpected ==
  scenario.profile # None =>
    \A b \in Range(scenario.profile.effects) :
      b.behaviour = "operational" =>
        \E e \in Range(AllEvents(scenario)) :
          \E x \in Range(e.expect) : x.sub = b.sub /\ x.state = "OPERATIONAL"

\* scenario-format.md:156: "Event ids are unique."  The log tells one injection of each.
RequestedOnce ==
  \A i, j \in Entries("requested") : log[i].id = log[j].id => i = j

\* adapter-development.md:235: "At the end the engine [...] calls
\* `collect_artifacts()` and `stop()`": an execution that is over has told it to.
TargetIsStopped == pc = "done" => stopped
==============================================================================
