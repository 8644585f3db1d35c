---------------------------- MODULE RunPipeline ----------------------------
(***************************************************************************)
(* The life of one run across the processes that share it: the API that    *)
(* creates and cancels it, the work queue, the runners that execute it,    *)
(* the RESLAB_RUNS stream, and the orchestrator with its two concurrent    *)
(* tasks, the stream consumer and the watchdog.                            *)
(*                                                                         *)
(* Every writer of the `runs` row opens a session, reads the row with a    *)
(* plain SELECT, decides on what it read and writes by primary key when it *)
(* flushes and commits (READ COMMITTED, no version column).  So a          *)
(* transaction is two steps here: one that takes a snapshot and one that   *)
(* writes, to whatever the row is by then, the columns it changed.         *)
(* Events are inserted ON CONFLICT DO NOTHING and counted in SQL, and need *)
(* no snapshot.  Objects in the artifact store are outside the             *)
(* transaction: a rollback does not take them back.                        *)
(*                                                                         *)
(* Time is abstract: a clock flag is raised by an action of its own.  With *)
(* Timely, a clock only runs out when the delays of the code allow it (see *)
(* "Clocks"); without, at any moment.                                      *)
(***************************************************************************)
EXTENDS RunStates, FiniteSets

CONSTANTS
  Runners,        \* runner processes that offer the run's adapter
  NoRunner,       \* runs.runner_id IS NULL
  Timely,         \* TRUE: the clocks respect the delays of the code
  MaxDeliver,     \* deliveries of a message before it is terminated (5)
  ChatterAt,      \* bound: the lengths of the log at which optional messages are sent
  MaxCancels,     \* bound: cancel requests of users
  Faults,         \* the kinds of fault that may happen
  MaxFaults       \* bound: faults, all kinds together

\* A process dies; a runner is told to stop; publishing to a stream raises;
\* an acknowledgement is lost; a transaction raises; a CancelRequest is lost;
\* an analysis raises (not counted: the code carries on).
FaultKinds == {"crash", "stop", "publish", "ack", "error", "cancel",
               "analysis"}

ASSUME PipelineAssumption ==
  /\ NoRunner \notin Runners
  /\ Timely \in BOOLEAN
  /\ Faults \subseteq FaultKinds
  /\ MaxDeliver \in Nat \ {0}
  /\ ChatterAt \subseteq Nat /\ MaxCancels \in Nat /\ MaxFaults \in Nat

VARIABLES
  row,        \* the runs row: state, runner_id, final state it was analysed for
  stored,     \* rows of run_events: sequence number and emitting execution
  object,     \* report.json in the artifact store: final state, events it used
  request,    \* progress of the API's create_run
  cancelReq,  \* progress of an API cancel_run and the state it read
  cancels,    \* cancel requests so far
  asked,      \* who has published a CancelRequest: the user, the watchdog
  job,        \* is the RunJob in RESLAB_JOBS?
  log,        \* RESLAB_RUNS: every message published, in stream order
  wire,       \* runners a CancelRequest (core NATS) is still in flight to
  cursor,     \* first message of log not delivered to the consumer yet
  again,      \* messages to be redelivered, with their delivery count
  handler,    \* the consumer's message and snapshot
  watchdog,   \* the watchdog's verdict and snapshot
  trusted,    \* has the orchestrator been up for runner_stale_after?
  runner,     \* the runner processes
  exec,       \* their executions of the run
  attempts,   \* executions started
  hb,         \* what the orchestrator knows of each runner
  late,       \* clocks that have run out
  faults      \* faults so far

apiVars      == <<request, cancelReq, cancels>>
dbVars       == <<row, stored, object>>
consumerVars == <<cursor, again, handler>>
runnerVars   == <<runner, exec, attempts>>
clockVars    == <<hb, late, trusted>>
vars == <<apiVars, dbVars, asked, job, log, wire, consumerVars, watchdog,
          runnerVars, clockVars, faults>>

-----------------------------------------------------------------------------
(* Values. *)

Outcomes == {"completed", "cancelled", "failed"}

\* The final state an outcome asks for.
FinalState(outcome) ==
  CASE outcome = "completed" -> "COMPLETED"
    [] outcome = "cancelled" -> "CANCELLED"
    [] OTHER -> "FAILED"

\* Lifecycle states a runner announces.
Announced == ActiveRunStates

EventIds == [seq : Nat, attempt : Nat]

Messages ==
  [kind : {"lifecycle"}, state : Announced, from : Runners]
    \cup [kind : {"event"}, event : EventIds]
    \cup [kind : {"finished"}, outcome : Outcomes, from : Runners]

Rows == [state : RunState \cup {"ABSENT"},
         runner : Runners \cup {NoRunner},
         analysed : TerminalRunStates \cup {"none"}]

Objects == [of : TerminalRunStates \cup {"none"}, events : SUBSET EventIds]

Row(state) == [state |-> state, runner |-> NoRunner, analysed |-> "none"]
NoObject == [of |-> "none", events |-> {}]

ExecPhases == {"idle", "accepted", "preparing", "running", "recovering",
               "ending", "collecting", "popped"}

Executions == [pc : ExecPhases, attempt : Nat, seq : Nat, cancel : BOOLEAN,
               outcome : Outcomes]

Fresh(pc, attempt) == [pc |-> pc, attempt |-> attempt, seq |-> 0,
                       cancel |-> FALSE, outcome |-> "failed"]

IdleExec == Fresh("idle", 0)

\* What a handler reads of the row and decides on.
Snapshots == [state : RunState \cup {"ABSENT"},
              runner : Runners \cup {NoRunner}]

NoSnapshot == [state |-> "ABSENT", runner |-> NoRunner]

\* A message of the log that will be delivered again.
Redeliveries == [idx : Nat, tries : Nat, slow : BOOLEAN]

Handlers == [pc : {"idle", "busy"}, idx : Nat, tries : Nat, seen : Snapshots]

IdleHandler == [pc |-> "idle", idx |-> 0, tries |-> 0, seen |-> NoSnapshot]

Verdicts == {"queued", "preparing", "unknown", "stale", "dropped"}

Watchdogs == [why : Verdicts \cup {"none"}, seen : RunState \cup {"ABSENT"}]

IdleWatchdog == [why |-> "none", seen |-> "ABSENT"]

CancelRequests == [pc : {"idle", "read", "publish"},
                   seen : RunState \cup {"ABSENT"}]

IdleCancel == [pc |-> "idle", seen |-> "ABSENT"]

Heartbeats == [age : {"none", "fresh", "stale"},
               reported : {"unknown", "in", "out"}]

Clocks == [queued : BOOLEAN, quiet : BOOLEAN, preparing : BOOLEAN]

\* The runner keeps the run in _active from acceptance until execute() is over.
Registered(n) ==
  exec[n].pc \in {"accepted", "preparing", "running", "recovering", "ending",
                  "collecting"}

Cancellable(n) ==
  exec[n].pc \in {"accepted", "preparing", "running", "recovering"}

\* What a heartbeat tells the orchestrator; nothing was ever heard of a runner
\* that has not started yet.
Heard(n)  == [age |-> "fresh",
              reported |-> IF Registered(n) THEN "in" ELSE "out"]
Unheard   == [age |-> "none", reported |-> "unknown"]

Live == {n \in Runners : runner[n] # "down"}

\* One fault out of the budget.
Fault(kind) ==
  kind \in Faults /\ faults < MaxFaults /\ faults' = faults + 1

Init ==
  /\ row = Row("ABSENT") /\ stored = {} /\ object = NoObject
  /\ request = "none" /\ cancels = 0 /\ asked = {}
  /\ cancelReq = IdleCancel
  /\ job = FALSE /\ log = <<>> /\ wire = {}
  /\ cursor = 1 /\ again = {} /\ handler = IdleHandler
  /\ watchdog = IdleWatchdog /\ trusted = TRUE
  /\ runner \in [Runners -> {"up", "down"}]
  /\ exec = [n \in Runners |-> IdleExec]
  /\ hb = [n \in Runners |-> IF runner[n] = "up" THEN Heard(n) ELSE Unheard]
  /\ attempts = 0
  /\ late = [queued |-> FALSE, quiet |-> FALSE, preparing |-> FALSE]
  /\ faults = 0
-----------------------------------------------------------------------------
(* Writing the row. *)

\* Any UPDATE of the row refreshes updated_at: the quiet clocks start again.  How
\* long ago the run was created only matters while it is queued.
Touch == late' = [quiet |-> FALSE, preparing |-> FALSE,
                  queued |-> late.queued /\ row'.state = "QUEUED"]

WriteState(state) == row' = [row EXCEPT !.state = state] /\ Touch

NoWrite == UNCHANGED <<row, late>>

\* transition_run on the snapshot: raises (disabled here) when illegal.
Transition(seen, target) == CanTransition(seen, target) /\ WriteState(target)

\* Mutant: a run that never ran is taken straight to COLLECTING.
BridgeShort(state) ==
  CASE state = "QUEUED" -> <<"PREPARING", "RUNNING", "COLLECTING">>
    [] state \in {"PREPARING", "RUNNING", "RECOVERING"} -> <<"COLLECTING">>
    [] OTHER -> <<>>

\* finalize() bridges the states whose lifecycle message was lost.
Bridge(state) ==
  CASE state = "QUEUED"    -> <<"PREPARING", "RUNNING", "COLLECTING">>
    [] state = "PREPARING" -> <<"RUNNING", "COLLECTING">>
    [] state \in {"RUNNING", "RECOVERING"} -> <<"COLLECTING">>
    [] OTHER -> <<>>

\* Mutant: the run completes whatever becomes of its analysis.
FinalUnanalysed(outcome, analysed) == FinalState(outcome)

\* The last state of a finalize: a run whose analysis fails is not COMPLETED.
Final(outcome, analysed) ==
  IF outcome = "completed" /\ ~analysed THEN "FAILED" ELSE FinalState(outcome)

FinalizePath(state, outcome, analysed) ==
  <<state>> \o Bridge(state)
    \o (IF outcome = "completed" THEN <<"ANALYZING">> ELSE <<>>)
    \o <<Final(outcome, analysed)>>

\* analyze_run writes the report to the store before anything is committed; a
\* failed analysis may have got that far or not.
Report(outcome) == [of |-> FinalState(outcome), events |-> stored]

\* Mutant: a run no runner announced is left alone.
NothingToFinalizeQueued(seen) == seen \in TerminalRunStates \cup {"QUEUED"}

NothingToFinalize(seen) == seen \in TerminalRunStates

\* finalize(seen, outcome): one transaction that bridges, analyses and closes
\* the run.  Does nothing when the snapshot is terminal.
Finalize(seen, outcome) ==
  IF NothingToFinalize(seen)
  THEN NoWrite /\ UNCHANGED object
  ELSE \E analysed \in BOOLEAN :
         /\ analysed \/ "analysis" \in Faults
         /\ LegalPath(FinalizePath(seen, outcome, analysed))
         /\ row' = [row EXCEPT
                      !.state = Final(outcome, analysed),
                      !.analysed = IF analysed THEN FinalState(outcome) ELSE @]
         /\ object' \in {Report(outcome)}
                          \cup (IF analysed THEN {} ELSE {object})
         /\ Touch

-----------------------------------------------------------------------------
(* The API: create_run and cancel_run. *)

\* CREATED and VALIDATING live and die inside the request's transaction: an
\* invalid document is committed as FAILED.
SubmitInvalid ==
  /\ request = "none"
  /\ LegalPath(<<"CREATED", "VALIDATING", "FAILED">>)
  /\ row' = Row("FAILED")
  /\ request' = "done"
  /\ UNCHANGED <<stored, object, cancelReq, cancels, asked, job, log, wire,
                 consumerVars, watchdog, runnerVars, clockVars, faults>>

\* A valid one is committed as QUEUED before the job is published.
Submit ==
  /\ request = "none"
  /\ LegalPath(<<"CREATED", "VALIDATING", "QUEUED">>)
  /\ row' = Row("QUEUED")
  /\ request' = "publishing"
  /\ UNCHANGED <<stored, object, cancelReq, cancels, asked, job, log, wire,
                 consumerVars, watchdog, runnerVars, clockVars, faults>>

PublishJob ==
  /\ request = "publishing"
  /\ job' = TRUE
  /\ request' = "done"
  /\ UNCHANGED <<dbVars, cancelReq, cancels, asked, log, wire, consumerVars,
                 watchdog, runnerVars, clockVars, faults>>

\* The publish raised: a timeout does not tell whether the job was stored.
PublishJobFails ==
  /\ request = "publishing"
  /\ Fault("publish")
  /\ job' \in {job, TRUE}
  /\ request' = "unpublished"
  /\ UNCHANGED <<dbVars, cancelReq, cancels, asked, log, wire, consumerVars,
                 watchdog, runnerVars, clockVars>>

\* The run object still holds QUEUED, whatever the row is by now.
FailUnpublished ==
  /\ request = "unpublished"
  /\ Transition("QUEUED", "FAILED")
  /\ request' = "done"
  /\ UNCHANGED <<stored, object, cancelReq, cancels, asked, job, log, wire,
                 consumerVars, watchdog, runnerVars, hb, trusted, faults>>

\* The API dies with the requests it serves: between two commits, or between
\* a commit and a publish.
ApiCrash ==
  /\ request \in {"publishing", "unpublished"} \/ cancelReq.pc # "idle"
  /\ Fault("crash")
  /\ request' = IF request = "none" THEN "none" ELSE "done"
  /\ cancelReq' = IdleCancel
  /\ UNCHANGED <<dbVars, cancels, asked, job, log, wire, consumerVars,
                 watchdog, runnerVars, clockVars>>

\* A cancel request reads the row; 409 when the run is over.
CancelRead ==
  /\ cancelReq.pc = "idle"
  /\ cancels < MaxCancels
  /\ row.state \in RunState \ TerminalRunStates
  /\ cancelReq' = [pc |-> "read", seen |-> row.state]
  /\ cancels' = cancels + 1
  /\ UNCHANGED <<dbVars, request, asked, job, log, wire, consumerVars,
                 watchdog, runnerVars, clockVars, faults>>

\* Only a run read before any runner had it is cancelled in the database.
CancelWrite ==
  /\ cancelReq.pc = "read"
  /\ IF cancelReq.seen \in {"CREATED", "VALIDATING", "QUEUED"}
     THEN Transition(cancelReq.seen, "CANCELLED")
     ELSE NoWrite
  /\ cancelReq' = [pc |-> "publish", seen |-> "ABSENT"]
  /\ asked' = asked \cup {"user"}
  /\ UNCHANGED <<stored, object, request, cancels, job, log, wire,
                 consumerVars, watchdog, runnerVars, hb, trusted, faults>>

\* A CancelRequest that cannot be published is logged and forgotten.
CancelPublish ==
  /\ cancelReq.pc = "publish"
  /\ \/ wire' = wire \cup Live /\ UNCHANGED faults
     \/ UNCHANGED wire /\ Fault("cancel")
  /\ cancelReq' = IdleCancel
  /\ UNCHANGED <<dbVars, request, cancels, asked, job, log, consumerVars,
                 watchdog, runnerVars, clockVars>>

-----------------------------------------------------------------------------
(* The runners.  What an execution announces, in which order, is what the  *)
(* scenario engine does: PREPARING, RUNNING alternating with RECOVERING,   *)
(* COLLECTING whatever happened before, and the finished message.          *)

Goto(n, pc) == exec' = [exec EXCEPT ![n].pc = pc]

Publish(message) == log' = Append(log, message)

Lifecycle(n, state) == [kind |-> "lifecycle", state |-> state, from |-> n]

Event(n) ==
  [kind |-> "event",
   event |-> [seq |-> exec[n].seq + 1, attempt |-> exec[n].attempt]]

Finished(n) ==
  [kind |-> "finished", outcome |-> exec[n].outcome, from |-> n]

\* The job is acknowledged and a task executes it.  The acknowledgement is
\* not confirmed: a lost one leaves the job in the work queue.
Accept(n) ==
  /\ runner[n] = "up"
  /\ exec[n].pc = "idle"
  /\ job
  /\ \/ job' = FALSE /\ UNCHANGED faults
     \/ job' = TRUE /\ Fault("ack")
  /\ attempts' = attempts + 1
  /\ exec' = [exec EXCEPT ![n] = Fresh("accepted", attempts + 1)]
  /\ UNCHANGED <<apiVars, dbVars, asked, log, wire, consumerVars, watchdog,
                 runner, clockVars>>

\* The steps of an execution that only concern the runner and the stream.
ExecStep(n) ==
  UNCHANGED <<apiVars, dbVars, asked, job, wire, consumerVars, watchdog,
              runner, attempts, clockVars>>

\* load_scenario or create_adapter raised: no engine, no lifecycle message.
Reject(n) ==
  /\ exec[n].pc = "accepted"
  /\ exec' = [exec EXCEPT ![n].pc = "popped", ![n].cancel = FALSE]
  /\ UNCHANGED <<log, faults>> /\ ExecStep(n)

Prepare(n) ==
  /\ exec[n].pc = "accepted"
  /\ Goto(n, "preparing") /\ Publish(Lifecycle(n, "PREPARING"))
  /\ UNCHANGED faults /\ ExecStep(n)

StartRunning(n) ==
  /\ exec[n].pc = "preparing"
  /\ Goto(n, "running") /\ Publish(Lifecycle(n, "RUNNING"))
  /\ UNCHANGED faults /\ ExecStep(n)

\* An observation that leaves the run state alone, or a failure to collect the
\* artifacts or to stop the target: events and telemetry.
Observe(n) ==
  /\ exec[n].pc \in {"running", "recovering", "collecting"}
  /\ Len(log) \in ChatterAt
  /\ Publish(Event(n))
  /\ exec' = [exec EXCEPT ![n].seq = @ + 1]
  /\ UNCHANGED faults /\ ExecStep(n)

\* One that enters or leaves RECOVERING.
Toggle(n) ==
  /\ Len(log) \in ChatterAt
  /\ \/ /\ exec[n].pc = "running"
        /\ Goto(n, "recovering") /\ Publish(Lifecycle(n, "RECOVERING"))
     \/ /\ exec[n].pc = "recovering"
        /\ Goto(n, "running") /\ Publish(Lifecycle(n, "RUNNING"))
  /\ UNCHANGED faults /\ ExecStep(n)

\* Mutant: a failure is reported as a cancel.
MayEndUnasked(n, outcome) ==
  /\ exec[n].pc \in {"preparing", "running", "recovering"}
  /\ outcome = "completed" => exec[n].pc # "preparing"

\* The mission ended or timed out, a cancel was seen, or the target (or its
\* preparation) failed.
MayEnd(n, outcome) ==
  /\ exec[n].pc \in {"preparing", "running", "recovering"}
  /\ outcome = "completed" => exec[n].pc # "preparing"
  /\ outcome = "cancelled" => exec[n].cancel

\* The engine stops with a last event.
End(n, outcome) ==
  /\ MayEnd(n, outcome)
  /\ Publish(Event(n))
  /\ exec' = [exec EXCEPT ![n].pc = "ending", ![n].outcome = outcome,
                          ![n].cancel = FALSE, ![n].seq = @ + 1]
  /\ UNCHANGED faults /\ ExecStep(n)

\* Mutant: the runner announces a state of the orchestrator's.
CollectAnalyzing(n) ==
  /\ exec[n].pc = "ending"
  /\ Goto(n, "collecting") /\ Publish(Lifecycle(n, "ANALYZING"))
  /\ UNCHANGED faults /\ ExecStep(n)

Collect(n) ==
  /\ exec[n].pc = "ending"
  /\ Goto(n, "collecting") /\ Publish(Lifecycle(n, "COLLECTING"))
  /\ UNCHANGED faults /\ ExecStep(n)

\* publish_js raised: before the end the run fails, with a last event if that
\* gets through, or raises in its turn; while collecting, the COLLECTING message
\* is lost, or an artifact and with it the run.
PublishFails(n) ==
  /\ Fault("publish")
  /\ \/ /\ exec[n].pc \in {"accepted", "preparing", "running", "recovering"}
        /\ Publish(Event(n)) \/ UNCHANGED log
        /\ exec' = [exec EXCEPT ![n].pc = "ending", ![n].outcome = "failed",
                                ![n].cancel = FALSE, ![n].seq = @ + 1]
     \/ /\ exec[n].pc = "ending" /\ exec[n].outcome = "failed"
        /\ UNCHANGED <<exec, log>>
     \/ /\ exec[n].pc = "ending"
        /\ \E outcome \in {exec[n].outcome, "failed"} :
             exec' = [exec EXCEPT ![n].pc = "collecting",
                                  ![n].outcome = outcome]
        /\ UNCHANGED log
     \/ /\ exec[n].pc = "collecting"
        /\ exec' = [exec EXCEPT ![n].outcome = "failed"]
        /\ UNCHANGED log
  /\ ExecStep(n)

\* The run leaves _active before its finished message is published.
Pop(n) ==
  /\ exec[n].pc = "collecting"
  /\ Goto(n, "popped")
  /\ UNCHANGED <<log, faults>> /\ ExecStep(n)

\* A failure to publish it is logged and that is all.
PublishFinished(n) ==
  /\ exec[n].pc = "popped"
  /\ \/ Publish(Finished(n)) /\ UNCHANGED faults
     \/ UNCHANGED log /\ Fault("publish")
  /\ exec' = [exec EXCEPT ![n] = IdleExec]
  /\ ExecStep(n)

\* SIGTERM: no more jobs and no more heartbeats, but the run goes on.
Stop(n) ==
  /\ runner[n] = "up"
  /\ Fault("stop")
  /\ runner' = [runner EXCEPT ![n] = "draining"]
  /\ UNCHANGED <<apiVars, dbVars, asked, job, log, wire, consumerVars,
                 watchdog, exec, attempts, clockVars>>

Exit(n) ==
  /\ runner[n] = "draining"
  /\ exec[n].pc = "idle"
  /\ runner' = [runner EXCEPT ![n] = "down"]
  /\ wire' = wire \ {n}
  /\ UNCHANGED <<apiVars, dbVars, asked, job, log, consumerVars, watchdog,
                 exec, attempts, clockVars, faults>>

Crash(n) ==
  /\ runner[n] # "down"
  /\ Fault("crash")
  /\ runner' = [runner EXCEPT ![n] = "down"]
  /\ exec' = [exec EXCEPT ![n] = IdleExec]
  /\ wire' = wire \ {n}
  /\ UNCHANGED <<apiVars, dbVars, asked, job, log, consumerVars, watchdog,
                 attempts, clockVars>>

Start(n) ==
  /\ runner[n] = "down"
  /\ runner' = [runner EXCEPT ![n] = "up"]
  /\ UNCHANGED <<apiVars, dbVars, asked, job, log, wire, consumerVars,
                 watchdog, exec, attempts, clockVars, faults>>

\* Core NATS delivers a CancelRequest once or not at all; a runner that does
\* not have the run in _active forgets it, and an engine that has left its
\* loop does not look at the token any more.
OnControl(n) ==
  /\ n \in wire
  /\ wire' = wire \ {n}
  /\ exec' = [exec EXCEPT ![n].cancel = @ \/ Cancellable(n)]
  /\ UNCHANGED <<apiVars, dbVars, asked, job, log, consumerVars, watchdog,
                 runner, attempts, clockVars, faults>>

LoseCancel(n) ==
  /\ n \in wire
  /\ Fault("cancel")
  /\ wire' = wire \ {n}
  /\ UNCHANGED <<apiVars, dbVars, asked, job, log, consumerVars, watchdog,
                 runnerVars, clockVars>>

\* A heartbeat reports the runs in _active; the orchestrator keeps the report
\* in memory and the time of the heartbeat in the database.
Heartbeat(n) ==
  /\ runner[n] = "up"
  /\ hb' = [hb EXCEPT ![n] = Heard(n)]
  /\ UNCHANGED <<apiVars, dbVars, asked, job, log, wire, consumerVars,
                 watchdog, runnerVars, late, trusted, faults>>
-----------------------------------------------------------------------------
(* The orchestrator's consumer: one message at a time, a session for each. *)

\* What a handler reads of the run and decides on: that of an event reads
\* nothing.
Snapshot(kind) ==
  CASE kind = "lifecycle" -> [state |-> row.state, runner |-> row.runner]
    [] kind = "finished"  -> [state |-> row.state, runner |-> NoRunner]
    [] OTHER -> NoSnapshot

Read(idx, tries) ==
  handler' = [pc |-> "busy", idx |-> idx, tries |-> tries,
              seen |-> Snapshot(log[idx].kind)]

DeliverNew ==
  /\ handler.pc = "idle"
  /\ cursor <= Len(log)
  /\ Read(cursor, 1)
  /\ cursor' = cursor + 1
  /\ UNCHANGED <<apiVars, dbVars, asked, job, log, wire, again, watchdog,
                 runnerVars, clockVars, faults>>

\* A redelivery comes when its delay is over, in no order with the rest.
DeliverAgain ==
  /\ handler.pc = "idle"
  /\ \E m \in again :
       /\ Read(m.idx, m.tries + 1)
       /\ again' = again \ {m}
  /\ UNCHANGED <<apiVars, dbVars, asked, job, log, wire, cursor, watchdog,
                 runnerVars, clockVars, faults>>

\* Redelivery after the nak delay (2 s), or after ack_wait (120 s): slow.
Pending(slow) == [idx |-> handler.idx, tries |-> handler.tries, slow |-> slow]

\* Committed, then acknowledged; a lost acknowledgement means a redelivery.
Ack ==
  /\ handler' = IdleHandler
  /\ \/ UNCHANGED <<again, faults>>
     \/ again' = again \cup {Pending(TRUE)} /\ Fault("ack")

Handling(kind) == handler.pc = "busy" /\ log[handler.idx].kind = kind

\* The columns a lifecycle message changes, given what the handler read.
WithRunner(state, message) ==
  [row EXCEPT !.state = state,
              !.runner = IF handler.seen.runner = message.from THEN @
                                                          ELSE message.from]

\* Mutant: nobody is told.
ToldToStopNobody(state, message) == {}

\* A runner picked up a run cancelled while it was queued.
ToldToStop(state, message) ==
  IF state = "CANCELLED" /\ message.state \in {"PREPARING", "RUNNING"}
  THEN Live ELSE {}

OnLifecycle ==
  /\ Handling("lifecycle")
  /\ LET message == log[handler.idx]
         seen == handler.seen
     IN \/ /\ seen.state \in TerminalRunStates
           /\ wire' = wire \cup ToldToStop(seen.state, message)
           /\ NoWrite
        \/ /\ CanTransition(seen.state, message.state)
           /\ row' = WithRunner(message.state, message)
           /\ Touch
           /\ UNCHANGED wire
        \/ \* nothing new but the runner or the simulation time
           /\ message.state = seen.state
           /\ row' = WithRunner(row.state, message)
           /\ Touch \/ (message.from = seen.runner /\ UNCHANGED late)
           /\ UNCHANGED wire
        \/ \* illegal: logged
           /\ seen.state \notin TerminalRunStates \cup {message.state}
           /\ ~CanTransition(seen.state, message.state)
           /\ NoWrite
           /\ UNCHANGED wire
  /\ Ack
  /\ UNCHANGED <<apiVars, stored, object, asked, job, log, cursor, watchdog,
                 runnerVars, hb, trusted>>

\* Whatever the state of the run: events and telemetry are stored once per
\* sequence number, and storing one counts as progress.
OnEvent ==
  /\ Handling("event")
  /\ LET event == log[handler.idx].event
     IN IF \E e \in stored : e.seq = event.seq
        THEN NoWrite /\ UNCHANGED stored
        ELSE stored' = stored \cup {event} /\ UNCHANGED row /\ Touch
  /\ Ack
  /\ UNCHANGED <<apiVars, object, asked, job, log, wire, cursor, watchdog,
                 runnerVars, hb, trusted>>

OnFinished ==
  /\ Handling("finished")
  /\ Finalize(handler.seen.state, log[handler.idx].outcome)
  /\ Ack
  /\ UNCHANGED <<apiVars, stored, asked, job, log, wire, cursor, watchdog,
                 runnerVars, hb, trusted>>

\* The report of a finalize that is rolled back may stay in the store.
LeftBehind(seen, outcome) ==
  object' \in {object} \cup (IF seen \in TerminalRunStates THEN {}
                             ELSE {Report(outcome)})

\* A message whose handling raised comes back unless this was the last try.
Retried == IF handler.tries >= MaxDeliver THEN {} ELSE {Pending(FALSE)}

\* The handler raised and was rolled back.
HandleFails ==
  /\ handler.pc = "busy"
  /\ Fault("error")
  /\ IF log[handler.idx].kind = "finished"
     THEN LeftBehind(handler.seen.state, log[handler.idx].outcome)
     ELSE UNCHANGED object
  /\ handler' = IdleHandler
  /\ again' = again \cup Retried
  /\ UNCHANGED <<apiVars, row, stored, asked, job, log, wire, cursor,
                 watchdog, runnerVars, clockVars>>

-----------------------------------------------------------------------------
(* The orchestrator's watchdog: one session for the whole tick. *)

NeverReady == row.state = "PREPARING" /\ late.preparing

\* Mutant: no grace period after a start.
SuspectUntrusted == row.state \in ActiveRunStates /\ late.quiet

Suspect == row.state \in ActiveRunStates /\ late.quiet /\ trusted

Known == row.runner # NoRunner /\ hb[row.runner].age # "none"

\* Mutant: a runner that is alive is never questioned.
DroppedIgnored == FALSE

\* The runner is alive and says it does not have the run.
Dropped == hb[row.runner].age = "fresh" /\ hb[row.runner].reported = "out"

\* What a tick makes of the row; "none" when it leaves the run alone.
Verdict ==
  CASE row.state = "QUEUED" /\ late.queued -> "queued"
    [] NeverReady                           -> "preparing"
    [] ~NeverReady /\ Suspect /\ ~Known     -> "unknown"
    [] ~NeverReady /\ Suspect /\ Known
         /\ hb[row.runner].age = "stale"    -> "stale"
    [] ~NeverReady /\ Suspect /\ Known
         /\ Dropped                         -> "dropped"
    [] OTHER -> "none"

\* A runner whose target never got ready is told to give up before the run is
\* closed, and before that is committed.
WatchdogRead ==
  /\ watchdog.why = "none"
  /\ Verdict # "none"
  /\ watchdog' = [why |-> Verdict, seen |-> row.state]
  /\ IF Verdict = "preparing"
     THEN wire' = wire \cup Live /\ asked' = asked \cup {"watchdog"}
     ELSE UNCHANGED <<wire, asked>>
  /\ UNCHANGED <<apiVars, dbVars, job, log, consumerVars, runnerVars,
                 clockVars, faults>>

WatchdogWrite ==
  /\ watchdog.why # "none"
  /\ IF watchdog.why = "queued"
     THEN Transition(watchdog.seen, "FAILED") /\ UNCHANGED object
     ELSE Finalize(watchdog.seen, "failed")
  /\ watchdog' = IdleWatchdog
  /\ UNCHANGED <<apiVars, stored, asked, job, log, wire, consumerVars,
                 runnerVars, hb, trusted, faults>>

WatchdogFails ==
  /\ watchdog.why # "none"
  /\ Fault("error")
  /\ IF watchdog.why = "queued" THEN UNCHANGED object
     ELSE LeftBehind(watchdog.seen, "failed")
  /\ watchdog' = IdleWatchdog
  /\ UNCHANGED <<apiVars, row, stored, asked, job, log, wire, consumerVars,
                 runnerVars, clockVars>>

\* How long the orchestrator is away: too short to matter, longer than
\* runner_stale_after, longer than preparing_timeout.
Outages == {"restart", "stale", "long"}

\* The process restarts: both transactions are rolled back, what the consumer
\* had fetched comes back after ack_wait, the heartbeat reports are forgotten
\* and no heartbeat is recorded meanwhile (core NATS).
OrchestratorCrash ==
  /\ Fault("crash")
  /\ \E next \in cursor .. Len(log) + 1 :
       /\ cursor' = next
       /\ again' = again
            \cup {[idx |-> i, tries |-> 1, slow |-> TRUE] :
                    i \in cursor .. next - 1}
            \cup (IF handler.pc = "busy" THEN {Pending(TRUE)} ELSE {})
  /\ handler' = IdleHandler
  /\ watchdog' = IdleWatchdog
  /\ trusted' = FALSE
  /\ \E outage \in Outages :
       LET away == outage # "restart"
       IN /\ hb' = [n \in Runners |->
                       [age |-> IF away /\ hb[n].age # "none" THEN "stale"
                                ELSE hb[n].age,
                        reported |-> "unknown"]]
          /\ late' = [late EXCEPT
                        !.quiet = @ \/ (away /\ row.state \in ActiveRunStates),
                        !.preparing = @ \/ (/\ outage = "long"
                                            /\ row.state = "PREPARING")]
  /\ UNCHANGED <<apiVars, dbVars, asked, job, log, wire, runnerVars>>

-----------------------------------------------------------------------------
(* Clocks.  Under Timely the consumer handles what is published within     *)
(* runner_stale_after (45 s) unless it waits for ack_wait, a running       *)
(* engine keeps publishing telemetry, a runner that is up and listening    *)
(* has its heartbeats (every 10 s) delivered, and the steps that only      *)
(* publish do not take 45 s.                                               *)

\* Nothing is about to touch the row.
Silent ==
  /\ cursor > Len(log) /\ handler.pc = "idle"
  /\ \A m \in again : m.slow
  /\ \A n \in Runners :
       exec[n].pc \notin {"accepted", "running", "recovering", "ending",
                          "popped"}

\* The heartbeats of the runners that are up have caught up with them.
CaughtUp == \A n \in Runners : runner[n] = "up" => hb[n] = Heard(n)

GoQuiet ==
  /\ row.state \in ActiveRunStates
  /\ ~late.quiet
  /\ Timely => Silent /\ CaughtUp
  /\ late' = [late EXCEPT !.quiet = TRUE]
  /\ UNCHANGED <<apiVars, dbVars, asked, job, log, wire, consumerVars,
                 watchdog, runnerVars, hb, trusted, faults>>

QueuedTooLong ==
  /\ row.state = "QUEUED"
  /\ ~late.queued
  /\ late' = [late EXCEPT !.queued = TRUE]
  /\ UNCHANGED <<apiVars, dbVars, asked, job, log, wire, consumerVars,
                 watchdog, runnerVars, hb, trusted, faults>>

\* preparing_timeout (600 s) is longer than any redelivery delay.
PreparingTooLong ==
  /\ row.state = "PREPARING"
  /\ late.quiet /\ ~late.preparing
  /\ Timely => again = {}
  /\ late' = [late EXCEPT !.preparing = TRUE]
  /\ UNCHANGED <<apiVars, dbVars, asked, job, log, wire, consumerVars,
                 watchdog, runnerVars, hb, trusted, faults>>

HeartbeatStale(n) ==
  /\ hb[n].age = "fresh"
  /\ Timely => runner[n] # "up"
  /\ hb' = [hb EXCEPT ![n].age = "stale"]
  /\ UNCHANGED <<apiVars, dbVars, asked, job, log, wire, consumerVars,
                 watchdog, runnerVars, late, trusted, faults>>

\* The grace period after a start of the orchestrator is over: by then the
\* heartbeats and the messages of the outage have been seen.
TrustHeartbeats ==
  /\ ~trusted
  /\ Timely => CaughtUp /\ (late.quiet => Silent)
  /\ trusted' = TRUE
  /\ UNCHANGED <<apiVars, dbVars, asked, job, log, wire, consumerVars,
                 watchdog, runnerVars, hb, late, faults>>

-----------------------------------------------------------------------------
Api == \/ SubmitInvalid \/ Submit \/ PublishJob \/ PublishJobFails
       \/ FailUnpublished \/ ApiCrash
       \/ CancelRead \/ CancelWrite \/ CancelPublish

\* What an execution does of itself once its target is ready, or before.
Progress(n) == \/ Prepare(n) \/ Observe(n) \/ Collect(n) \/ Pop(n)
               \/ PublishFinished(n)
               \/ /\ exec[n].pc # "preparing" \/ exec[n].cancel
                  /\ \E outcome \in Outcomes : End(n, outcome)

Execution(n) == \/ Accept(n) \/ Reject(n) \/ StartRunning(n) \/ Toggle(n)
                \/ Progress(n) \/ PublishFails(n)
                \/ \E outcome \in Outcomes : End(n, outcome)

Process(n) == \/ Stop(n) \/ Exit(n) \/ Crash(n) \/ Start(n)
              \/ OnControl(n) \/ LoseCancel(n) \/ Heartbeat(n)

Handle == OnLifecycle \/ OnEvent \/ OnFinished

Consumer == DeliverNew \/ DeliverAgain \/ Handle \/ HandleFails

Watchdog == WatchdogRead \/ WatchdogWrite \/ WatchdogFails

Clock == \/ GoQuiet \/ QueuedTooLong \/ PreparingTooLong \/ TrustHeartbeats
         \/ \E n \in Runners : HeartbeatStale(n)

Next == \/ Api \/ Consumer \/ Watchdog \/ OrchestratorCrash \/ Clock
        \/ \E n \in Runners : Execution(n) \/ Process(n)

Spec == Init /\ [][Next]_vars

\* The services keep running, time passes, and a target that is ready makes
\* progress.  Nothing is assumed of the user, of faults, of a runner taking
\* the job, restarting, or of a target getting ready.
Fairness ==
  /\ WF_vars(PublishJob \/ FailUnpublished)
  /\ WF_vars(CancelWrite) /\ WF_vars(CancelPublish)
  /\ WF_vars(DeliverNew) /\ WF_vars(DeliverAgain) /\ WF_vars(Handle)
  /\ WF_vars(WatchdogRead) /\ WF_vars(WatchdogWrite)
  /\ WF_vars(GoQuiet) /\ WF_vars(QueuedTooLong) /\ WF_vars(PreparingTooLong)
  /\ WF_vars(TrustHeartbeats)
  /\ \A n \in Runners :
       /\ WF_vars(Progress(n)) /\ WF_vars(OnControl(n))
       /\ WF_vars(Heartbeat(n)) /\ WF_vars(HeartbeatStale(n))

FairSpec == Spec /\ Fairness

-----------------------------------------------------------------------------
(* Properties. *)

\* Types of every variable.
TypeOK ==
  /\ row \in Rows
  /\ stored \subseteq EventIds
  /\ object \in Objects
  /\ request \in {"none", "publishing", "unpublished", "done"}
  /\ cancelReq \in CancelRequests
  /\ cancels \in Nat
  /\ asked \subseteq {"user", "watchdog"}
  /\ job \in BOOLEAN
  /\ log \in Seq(Messages)
  /\ wire \subseteq Runners
  /\ cursor \in Nat \ {0}
  /\ again \subseteq Redeliveries
  /\ handler \in Handlers
  /\ watchdog \in Watchdogs
  /\ trusted \in BOOLEAN
  /\ runner \in [Runners -> {"up", "draining", "down"}]
  /\ exec \in [Runners -> Executions]
  /\ attempts \in Nat
  /\ hb \in [Runners -> Heartbeats]
  /\ late \in Clocks
  /\ faults \in Nat

Announces(outcome) ==
  \E i \in 1 .. Len(log) : log[i].kind = "finished" /\ log[i].outcome = outcome

\* A run is COMPLETED only if a runner reported a completed execution and the
\* analysis of a completed run is in the database, whatever cancels, verdicts
\* of the watchdog, redeliveries and rollbacks come between.
CompletedIsEarned ==
  row.state = "COMPLETED" =>
    row.analysed = "COMPLETED" /\ Announces("completed")

\* finalize never raises on an illegal transition: whatever messages were lost
\* or ignored, from every state a handler or the watchdog reads there is a
\* legal path to the outcome.  A run it raised on would be retried, dropped and
\* never closed.
FinalizeIsLegal ==
  \A analysed \in BOOLEAN :
    /\ Handling("finished") /\ ~NothingToFinalize(handler.seen.state) =>
         LegalPath(FinalizePath(handler.seen.state, log[handler.idx].outcome,
                                analysed))
    /\ watchdog.why \notin {"none", "queued"} =>
         LegalPath(FinalizePath(watchdog.seen, "failed", analysed))

\* A run ends CANCELLED only if a user asked for it or the watchdog told the
\* runner to give up on its target.
CancelledIsAsked == row.state = "CANCELLED" => asked # {}

\* The message at idx has been dealt with and will not come back.
Handled(idx) ==
  /\ idx < cursor
  /\ \A m \in again : m.idx # idx
  /\ handler.pc = "busy" => handler.idx # idx

\* Once a finished message is dealt with the run is over, and no late
\* lifecycle message, redelivery or second execution opens it again, as long
\* as there are fewer faults than deliveries of a message.
FinishedCloses ==
  faults < MaxDeliver =>
    \A i \in 1 .. Len(log) :
      log[i].kind = "finished" /\ Handled(i) =>
        row.state \in TerminalRunStates

\* The watchdog never gives up on the runner of a run while a runner that is
\* up executes it, be it after a restart or an outage of the orchestrator,
\* unless the job has been delivered twice.
SparesTheWorking ==
  [][ watchdog'.why \in {"unknown", "stale", "dropped"} /\ attempts = 1
        => \/ watchdog.why # "none"
           \/ \A n \in Runners : runner[n] = "up" => ~Registered(n) ]_vars

\* A run that stays CANCELLED is in the end executed by no runner: whoever
\* takes a run cancelled while it was queued is told to stop.
CancelReachesRunner ==
  <>[](row.state = "CANCELLED" => \A n \in Runners : exec[n].pc = "idle")

\* What the repository says of a run, and the code does not keep (README,
\* "Findings").

\* docs/architecture.md:259: "`COMPLETED`, `FAILED` and `CANCELLED` are
\* terminal."
TerminalIsFinal ==
  [][row.state \in TerminalRunStates => row'.state = row.state]_vars

\* docs/architecture.md:218: "The orchestrator is the only component that
\* changes a run's state after `QUEUED`."
OrchestratorOwnsState ==
  [][ row.state \in ActiveRunStates /\ row'.state # row.state
        => handler' # handler \/ watchdog' # watchdog ]_vars

\* docs/architecture.md:116: "A failed or cancelled run still gets a
\* best-effort report", here: one that a runner has finished.
FinishedRunHasReport ==
  (\E i \in 1 .. Len(log) : log[i].kind = "finished" /\ Handled(i)) =>
    object.of # "none"

\* docs/architecture.md:220: "`report.json` can be regenerated from the
\* database."  Checked when everything published has been dealt with.
ReportReflectsStored ==
  object.of # "none" /\ row.analysed # "none" /\ cursor > Len(log)
    /\ again = {} /\ handler.pc = "idle" => object.events = stored

\* service.py:380 of the orchestrator, of a run its runner does not have any
\* more: "nothing will ever finish it".
DroppedIsUnfinishable ==
  [][ watchdog'.why = "dropped" => \/ watchdog.why = "dropped"
                                  \/ \A i \in 1 .. Len(log) :
                                       log[i].kind = "finished" => Handled(i)
    ]_vars

\* docs/security-model.md:125: "a scenario is never silently executed twice".
ExecutedAtMostOnce == attempts <= 1

\* Every run that was created settles in a terminal state, and stays there
\* once users have stopped asking and faults have stopped happening.
Settles == <>[](row.state \in TerminalRunStates \cup {"ABSENT"})
=============================================================================
