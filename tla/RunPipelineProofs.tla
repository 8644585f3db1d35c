------------------------- MODULE RunPipelineProofs -------------------------
(***************************************************************************)
(* Type correctness and the safety invariants of RunPipeline, for every    *)
(* set of runners, every bound and every kind of fault.  What a step does  *)
(* to the row, to the log and to the consumer is stated once, in the step  *)
(* lemmas; the invariants are proved from those.  With the delays of the   *)
(* code, what the watchdog does not do is proved as well.                  *)
(***************************************************************************)
EXTENDS RunPipeline, TLAPS

-----------------------------------------------------------------------------
(* Types. *)

\* Indices into the log stay below the cursor.
Indices ==
  /\ cursor <= Len(log) + 1
  /\ \A m \in again : m.idx \in 1 .. cursor - 1
  /\ handler.pc = "busy" => handler.idx \in 1 .. cursor - 1

TypeInv == TypeOK /\ Indices

-----------------------------------------------------------------------------
(* Lemmas about the operators the actions are built from. *)

LEMMA FaultType ==
  ASSUME TypeOK, NEW kind, Fault(kind)
  PROVE  faults' \in Nat /\ faults' = faults + 1
BY DEF TypeOK, Fault

LEMMA IdleType ==
  /\ IdleHandler \in Handlers /\ IdleHandler.pc = "idle"
  /\ IdleWatchdog \in Watchdogs /\ IdleWatchdog.why = "none"
  /\ IdleCancel \in CancelRequests /\ IdleCancel.pc = "idle"
  /\ IdleExec \in Executions
BY DEF IdleHandler, Handlers, NoSnapshot, Snapshots, IdleWatchdog, Watchdogs,
       IdleCancel, CancelRequests, IdleExec, Fresh, Executions, ExecPhases,
       Outcomes

LEMMA RowType ==
  ASSUME NEW state \in RunState
  PROVE  Row(state) \in Rows /\ Row(state).state = state
BY DEF Row, Rows

\* A write leaves the clocks what they are.
LEMMA ClocksType ==
  ASSUME late \in Clocks, Touch \/ UNCHANGED late
  PROVE  late' \in Clocks
<1>1. ASSUME NEW queued \in BOOLEAN
      PROVE  [quiet |-> FALSE, preparing |-> FALSE, queued |-> queued] \in Clocks
  BY DEF Clocks
<1>2. (late.queued /\ row'.state = "QUEUED") \in BOOLEAN
  OBVIOUS
<1>3. CASE Touch
  BY <1>1, <1>2, <1>3, Zenon DEF Touch
<1> QED BY <1>3

\* Writing a state changes no other column.
LEMMA WriteStateType ==
  ASSUME TypeOK, NEW state \in RunState, WriteState(state)
  PROVE  /\ row' \in Rows /\ row'.state = state
         /\ row'.analysed = row.analysed
         /\ late' \in Clocks
BY DEF TypeOK, WriteState, Touch, Rows, Clocks

LEMMA TransitionType ==
  ASSUME TypeOK, NEW seen, NEW target \in RunState, Transition(seen, target)
  PROVE  /\ row' \in Rows /\ row'.state = target
         /\ row'.analysed = row.analysed
         /\ late' \in Clocks
BY WriteStateType DEF Transition

LEMMA FinalType ==
  ASSUME NEW outcome, NEW analysed \in BOOLEAN
  PROVE  /\ FinalState(outcome) \in TerminalRunStates
         /\ Final(outcome, analysed) \in TerminalRunStates
BY DEF FinalState, Final, TerminalRunStates

LEMMA ReportType ==
  ASSUME TypeOK, NEW outcome
  PROVE  Report(outcome) \in Objects
BY DEF TypeOK, Report, Objects, FinalState, TerminalRunStates

\* A finalize does nothing, or closes the row.
LEMMA FinalizeWrites ==
  ASSUME TypeOK, NEW seen, NEW outcome, Finalize(seen, outcome)
  PROVE  \/ /\ seen \in TerminalRunStates
            /\ UNCHANGED <<row, late, object>>
         \/ /\ seen \notin TerminalRunStates
            /\ \E analysed \in BOOLEAN :
                 /\ row'.state = Final(outcome, analysed)
                 /\ row'.analysed = IF analysed THEN FinalState(outcome)
                                    ELSE row.analysed
            /\ row' \in Rows /\ late' \in Clocks /\ object' \in Objects
<1>1. CASE seen \in TerminalRunStates
  BY <1>1 DEF Finalize, NothingToFinalize, NoWrite
<1>2. CASE seen \notin TerminalRunStates
  <2>1. PICK analysed \in BOOLEAN :
          /\ row' = [row EXCEPT
                      !.state = Final(outcome, analysed),
                      !.analysed = IF analysed THEN FinalState(outcome) ELSE @]
          /\ object' \in {Report(outcome)}
                          \cup (IF analysed THEN {} ELSE {object})
          /\ Touch
    BY <1>2 DEF Finalize, NothingToFinalize
  <2>2. /\ FinalState(outcome) \in TerminalRunStates
        /\ Final(outcome, analysed) \in RunState
    BY FinalType DEF TerminalRunStates, RunState
  <2>3. /\ row' \in Rows
        /\ row'.state = Final(outcome, analysed)
        /\ row'.analysed = IF analysed THEN FinalState(outcome)
                           ELSE row.analysed
    BY <2>1, <2>2 DEF TypeOK, Rows
  <2>4. object' \in Objects
    BY <2>1, ReportType DEF TypeOK
  <2>5. late' \in Clocks
    BY <2>1 DEF TypeOK, Touch, Clocks
  <2> QED BY <1>2, <2>3, <2>4, <2>5
<1> QED BY <1>1, <1>2

LEMMA FinalizeType ==
  ASSUME TypeOK, NEW seen, NEW outcome, Finalize(seen, outcome)
  PROVE  row' \in Rows /\ late' \in Clocks /\ object' \in Objects
BY FinalizeWrites DEF TypeOK

LEMMA GotoType ==
  ASSUME TypeOK, NEW n \in Runners, NEW pc \in ExecPhases, Goto(n, pc)
  PROVE  exec' \in [Runners -> Executions]
BY DEF TypeOK, Goto, Executions

LEMMA SeqType ==
  ASSUME NEW e \in [Runners -> Executions], NEW n \in Runners
  PROVE  [e EXCEPT ![n].seq = @ + 1] \in [Runners -> Executions]
<1>1. e[n] \in Executions /\ e[n].seq \in Nat
  BY DEF Executions
<1>2. [e[n] EXCEPT !.seq = e[n].seq + 1] \in Executions
  BY <1>1 DEF Executions
<1> QED BY <1>2

LEMMA EndType ==
  ASSUME NEW e \in [Runners -> Executions], NEW n \in Runners,
         NEW outcome \in Outcomes
  PROVE  [e EXCEPT ![n].pc = "ending", ![n].outcome = outcome,
                   ![n].cancel = FALSE, ![n].seq = @ + 1]
           \in [Runners -> Executions]
<1> DEFINE f == [e EXCEPT ![n].pc = "ending", ![n].outcome = outcome,
                          ![n].cancel = FALSE]
<1>1. f \in [Runners -> Executions]
  BY ZenonT(40) DEF Executions, ExecPhases
<1> HIDE DEF f
<1>2. [f EXCEPT ![n].seq = @ + 1] \in [Runners -> Executions]
  BY <1>1, SeqType
<1> QED BY <1>2 DEF f

LEMMA LifecycleType ==
  ASSUME NEW n \in Runners, NEW state \in Announced
  PROVE  Lifecycle(n, state) \in Messages
BY DEF Lifecycle, Messages

LEMMA EventType ==
  ASSUME TypeOK, NEW n \in Runners
  PROVE  Event(n) \in Messages
<1>1. exec[n].seq \in Nat /\ exec[n].attempt \in Nat
  BY DEF TypeOK, Executions
<1> QED BY <1>1 DEF Event, Messages, EventIds

LEMMA FinishedType ==
  ASSUME TypeOK, NEW n \in Runners
  PROVE  Finished(n) \in Messages
<1>1. exec[n].outcome \in Outcomes
  BY DEF TypeOK, Executions
<1> QED BY <1>1 DEF Finished, Messages

LEMMA PublishType ==
  ASSUME TypeInv, NEW message \in Messages, Publish(message)
  PROVE  /\ log' \in Seq(Messages) /\ Len(log') = Len(log) + 1
         /\ cursor <= Len(log') + 1
BY DEF TypeInv, TypeOK, Indices, Publish

LEMMA PendingType ==
  ASSUME TypeInv, handler.pc = "busy", NEW slow \in BOOLEAN
  PROVE  /\ Pending(slow) \in Redeliveries
         /\ Pending(slow).idx \in 1 .. cursor - 1
         /\ Pending(slow).tries = handler.tries
BY DEF Pending, Redeliveries, TypeInv, TypeOK, Indices, Handlers

LEMMA AckType ==
  ASSUME TypeInv, handler.pc = "busy", Ack
  PROVE  /\ handler' \in Handlers /\ handler'.pc = "idle"
         /\ again' \subseteq Redeliveries
         /\ \A m \in again' : m.idx \in 1 .. cursor - 1
         /\ faults' \in Nat
<1>1. handler' = IdleHandler
  BY DEF Ack
<1>2. again' = again \/ again' = again \cup {Pending(TRUE)}
  BY DEF Ack
<1>3. /\ again \subseteq Redeliveries
      /\ \A m \in again : m.idx \in 1 .. cursor - 1
  BY DEF TypeInv, TypeOK, Indices
<1>4. Pending(TRUE) \in Redeliveries /\ Pending(TRUE).idx \in 1 .. cursor - 1
  BY PendingType
<1>5. again' \subseteq Redeliveries
  BY <1>2, <1>3, <1>4
<1>6. \A m \in again' : m.idx \in 1 .. cursor - 1
  BY <1>2, <1>3, <1>4
<1>7. faults' \in Nat
  <2>1. faults \in Nat /\ (faults' = faults \/ Fault("ack"))
    BY DEF Ack, TypeInv, TypeOK
  <2> QED BY <2>1 DEF Fault
<1> QED BY <1>1, <1>5, <1>6, <1>7, IdleType

LEMMA MessageType ==
  ASSUME TypeInv, handler.pc = "busy"
  PROVE  log[handler.idx] \in Messages
BY DEF TypeInv, TypeOK, Indices

-----------------------------------------------------------------------------
(* The type invariant is preserved. *)

LEMMA TypeInit == Init => TypeInv
<1> SUFFICES ASSUME Init PROVE TypeInv
  OBVIOUS
<1>1. /\ row \in Rows /\ object \in Objects
      /\ cancelReq \in CancelRequests /\ handler \in Handlers
      /\ handler.pc = "idle" /\ watchdog \in Watchdogs /\ late \in Clocks
  BY IdleType DEF Init, Row, Rows, NoObject, Objects, Clocks
<1>2. exec \in [Runners -> Executions]
  BY IdleType DEF Init
<1>3. runner \in [Runners -> {"up", "draining", "down"}]
  BY DEF Init
<1>4. hb \in [Runners -> Heartbeats]
  BY DEF Init, Heard, Unheard, Heartbeats
<1>5. job \in BOOLEAN /\ trusted \in BOOLEAN
  BY DEF Init
<1>6. TypeOK
  BY <1>1, <1>2, <1>3, <1>4, <1>5 DEF Init, TypeOK
<1>7. Indices
  BY <1>1 DEF Init, Indices
<1> QED BY <1>6, <1>7 DEF TypeInv

LEMMA TypeApi == TypeInv /\ Api => TypeInv'
<1> SUFFICES ASSUME TypeInv, Api PROVE TypeInv'
  OBVIOUS
<1> USE DEF TypeInv, TypeOK, Indices, apiVars, dbVars, consumerVars,
            runnerVars, clockVars
<1>1. CASE SubmitInvalid
  <2>1. row' \in Rows
    BY <1>1, RowType DEF SubmitInvalid, RunState
  <2> QED BY <1>1, <2>1 DEF SubmitInvalid
<1>2. CASE Submit
  <2>1. row' \in Rows
    BY <1>2, RowType DEF Submit, RunState
  <2> QED BY <1>2, <2>1 DEF Submit
<1>3. CASE PublishJob
  BY <1>3 DEF PublishJob
<1>4. CASE PublishJobFails
  BY <1>4, FaultType DEF PublishJobFails
<1>5. CASE FailUnpublished
  <2>1. row' \in Rows /\ late' \in Clocks
    BY <1>5, TransitionType DEF FailUnpublished, RunState
  <2> QED BY <1>5, <2>1 DEF FailUnpublished
<1>6. CASE ApiCrash
  BY <1>6, FaultType, IdleType DEF ApiCrash
<1>7. CASE CancelRead
  <2>1. cancelReq' \in CancelRequests
    BY <1>7 DEF CancelRead, CancelRequests
  <2> QED BY <1>7, <2>1 DEF CancelRead
<1>8. CASE CancelWrite
  <2>1. row' \in Rows /\ late' \in Clocks
    BY <1>8, TransitionType DEF CancelWrite, NoWrite, RunState
  <2>2. cancelReq' \in CancelRequests
    BY <1>8 DEF CancelWrite, CancelRequests
  <2> QED BY <1>8, <2>1, <2>2 DEF CancelWrite
<1>9. CASE CancelPublish
  BY <1>9, IdleType, FaultType DEF CancelPublish, Live
<1> QED BY <1>1, <1>2, <1>3, <1>4, <1>5, <1>6, <1>7, <1>8, <1>9 DEF Api

LEMMA TypeExecution == TypeInv /\ (\E n \in Runners : Execution(n)) => TypeInv'
<1> SUFFICES ASSUME TypeInv, NEW n \in Runners, Execution(n) PROVE TypeInv'
  OBVIOUS
<1> USE DEF TypeInv, TypeOK, Indices, apiVars, dbVars, consumerVars,
            clockVars, ExecStep
<1>a. exec \in [Runners -> Executions] /\ exec[n] \in Executions
  OBVIOUS
<1>1. CASE Accept(n)
  <2>1. Fresh("accepted", attempts + 1) \in Executions
    BY DEF Fresh, Executions, ExecPhases, Outcomes
  <2>2. exec' \in [Runners -> Executions]
    BY <1>1, <2>1 DEF Accept
  <2>3. job' \in BOOLEAN
    BY <1>1 DEF Accept
  <2>4. faults' \in Nat
    BY <1>1, FaultType DEF Accept
  <2> QED BY <1>1, <2>2, <2>3, <2>4 DEF Accept
<1>2. CASE Reject(n)
  <2>1. exec' \in [Runners -> Executions]
    BY <1>2, <1>a DEF Reject, Executions, ExecPhases
  <2> QED BY <1>2, <2>1 DEF Reject
<1>3. CASE Prepare(n)
  <2>1. exec' \in [Runners -> Executions]
    BY <1>3, GotoType DEF Prepare, ExecPhases
  <2>2. log' \in Seq(Messages) /\ cursor <= Len(log') + 1
    BY <1>3, LifecycleType, PublishType
       DEF Prepare, Announced, ActiveRunStates
  <2> QED BY <1>3, <2>1, <2>2 DEF Prepare
<1>4. CASE StartRunning(n)
  <2>1. exec' \in [Runners -> Executions]
    BY <1>4, GotoType DEF StartRunning, ExecPhases
  <2>2. log' \in Seq(Messages) /\ cursor <= Len(log') + 1
    BY <1>4, LifecycleType, PublishType
       DEF StartRunning, Announced, ActiveRunStates
  <2> QED BY <1>4, <2>1, <2>2 DEF StartRunning
<1>5. CASE Toggle(n)
  <2>1. exec' \in [Runners -> Executions]
    BY <1>5, GotoType DEF Toggle, ExecPhases
  <2>2. log' \in Seq(Messages) /\ cursor <= Len(log') + 1
    BY <1>5, LifecycleType, PublishType
       DEF Toggle, Announced, ActiveRunStates
  <2> QED BY <1>5, <2>1, <2>2 DEF Toggle
<1>6. CASE Observe(n)
  <2>1. exec' \in [Runners -> Executions]
    BY <1>6, SeqType DEF Observe
  <2>2. log' \in Seq(Messages) /\ cursor <= Len(log') + 1
    BY <1>6, EventType, PublishType DEF Observe
  <2> QED BY <1>6, <2>1, <2>2 DEF Observe
<1>7. ASSUME NEW outcome \in Outcomes, End(n, outcome) PROVE TypeInv'
  <2>1. exec' \in [Runners -> Executions]
    BY <1>7, EndType DEF End
  <2>2. log' \in Seq(Messages) /\ cursor <= Len(log') + 1
    BY <1>7, EventType, PublishType DEF End
  <2> QED BY SMTT(30), <1>7, <2>1, <2>2 DEF End
<1>8. CASE Collect(n)
  <2>1. exec' \in [Runners -> Executions]
    BY <1>8, GotoType DEF Collect, ExecPhases
  <2>2. log' \in Seq(Messages) /\ cursor <= Len(log') + 1
    BY <1>8, LifecycleType, PublishType
       DEF Collect, Announced, ActiveRunStates
  <2> QED BY <1>8, <2>1, <2>2 DEF Collect
<1>9. CASE PublishFails(n)
  <2>1. exec' \in [Runners -> Executions]
    <3>1. "failed" \in Outcomes /\ exec[n].outcome \in Outcomes
      BY <1>a DEF Executions, Outcomes
    <3>2. CASE exec' = [exec EXCEPT ![n].pc = "ending", ![n].outcome = "failed",
                                    ![n].cancel = FALSE, ![n].seq = @ + 1]
      BY <3>1, <3>2, <1>a, EndType
    <3>3. ASSUME NEW outcome \in Outcomes,
                 exec' = [exec EXCEPT ![n].pc = "collecting",
                                      ![n].outcome = outcome]
          PROVE  exec' \in [Runners -> Executions]
      BY <3>3, <1>a DEF Executions, ExecPhases
    <3>4. CASE exec' = [exec EXCEPT ![n].outcome = "failed"]
      BY <3>1, <3>4, <1>a DEF Executions
    <3> QED BY SMTT(30), <1>9, <3>1, <3>2, <3>3, <3>4 DEF PublishFails
  <2>2. faults' \in Nat
    BY <1>9, FaultType DEF PublishFails
  <2>3. log' \in Seq(Messages) /\ cursor <= Len(log') + 1
    <3>1. log' = log \/ Publish(Event(n))
      BY <1>9 DEF PublishFails
    <3> QED BY <3>1, EventType, PublishType
  <2> QED BY <1>9, <2>1, <2>2, <2>3 DEF PublishFails, ExecStep
<1>10. CASE Pop(n)
  <2>1. exec' \in [Runners -> Executions]
    BY <1>10, GotoType DEF Pop, ExecPhases
  <2> QED BY <1>10, <2>1 DEF Pop
<1>11. CASE PublishFinished(n)
  <2>1. exec' \in [Runners -> Executions]
    BY <1>11, IdleType DEF PublishFinished
  <2>2. log' \in Seq(Messages) /\ cursor <= Len(log') + 1
    BY <1>11, FinishedType, PublishType DEF PublishFinished
  <2>3. faults' \in Nat
    BY <1>11, FaultType DEF PublishFinished
  <2> QED BY <1>11, <2>1, <2>2, <2>3 DEF PublishFinished
<1> QED BY <1>1, <1>2, <1>3, <1>4, <1>5, <1>6, <1>7, <1>8, <1>9, <1>10, <1>11
        DEF Execution, Progress

LEMMA TypeProcess == TypeInv /\ (\E n \in Runners : Process(n)) => TypeInv'
<1> SUFFICES ASSUME TypeInv, NEW n \in Runners, Process(n) PROVE TypeInv'
  OBVIOUS
<1> USE DEF TypeInv, TypeOK, Indices, apiVars, dbVars, consumerVars,
            runnerVars, clockVars
<1>1. CASE Stop(n)
  BY <1>1, FaultType DEF Stop
<1>2. CASE Exit(n)
  BY <1>2 DEF Exit
<1>3. CASE Crash(n)
  <2>1. exec' \in [Runners -> Executions]
    BY <1>3, IdleType DEF Crash
  <2> QED BY <1>3, <2>1, FaultType DEF Crash
<1>4. CASE Start(n)
  BY <1>4 DEF Start
<1>5. CASE OnControl(n)
  <2>1. exec' \in [Runners -> Executions]
    BY ZenonT(40), <1>5 DEF OnControl, Executions, Cancellable
  <2> QED BY <1>5, <2>1 DEF OnControl
<1>6. CASE LoseCancel(n)
  BY <1>6, FaultType DEF LoseCancel
<1>7. CASE Heartbeat(n)
  <2>1. hb' \in [Runners -> Heartbeats]
    BY <1>7 DEF Heartbeat, Heard, Heartbeats
  <2> QED BY <1>7, <2>1 DEF Heartbeat
<1> QED BY <1>1, <1>2, <1>3, <1>4, <1>5, <1>6, <1>7 DEF Process

LEMMA TypeConsumer == TypeInv /\ Consumer => TypeInv'
<1> SUFFICES ASSUME TypeInv, Consumer PROVE TypeInv'
  OBVIOUS
<1> USE DEF TypeInv, TypeOK, Indices, apiVars, dbVars, runnerVars, clockVars
<1>a. ASSUME NEW kind PROVE Snapshot(kind) \in Snapshots
  BY DEF Snapshot, Snapshots, NoSnapshot, Rows
<1>1. CASE DeliverNew
  <2>1. handler' \in Handlers /\ handler'.idx = cursor
    BY <1>1, <1>a DEF DeliverNew, Read, Handlers
  <2> QED BY <1>1, <2>1 DEF DeliverNew
<1>2. CASE DeliverAgain
  <2>1. PICK m \in again : Read(m.idx, m.tries + 1) /\ again' = again \ {m}
    BY <1>2 DEF DeliverAgain
  <2>2. m.idx \in Nat /\ m.tries + 1 \in Nat
    BY DEF Redeliveries
  <2>3. handler' \in Handlers /\ handler'.idx = m.idx
    BY <2>1, <2>2, <1>a DEF Read, Handlers
  <2> QED BY <1>2, <2>1, <2>3 DEF DeliverAgain
<1>b. /\ Handle => handler.pc = "busy" /\ Ack
      /\ HandleFails => handler.pc = "busy"
  BY DEF Handle, OnLifecycle, OnEvent, OnFinished, HandleFails, Handling
<1>3. CASE OnLifecycle
  <2>1. log[handler.idx] \in Messages /\ log[handler.idx].kind = "lifecycle"
    BY <1>3, <1>b, MessageType DEF OnLifecycle, Handling
  <2>2. /\ log[handler.idx].state \in RunState
        /\ log[handler.idx].from \in Runners
    BY <2>1 DEF Messages, Announced, ActiveRunStates, RunState
  <2>3. ASSUME NEW state \in RunState
        PROVE  WithRunner(state, log[handler.idx]) \in Rows
    BY <2>2 DEF WithRunner, Rows
  <2>4. row' \in Rows
    <3>1. CASE NoWrite
      BY <3>1 DEF NoWrite
    <3>2. CASE row' = WithRunner(log[handler.idx].state, log[handler.idx])
      BY <2>2, <2>3, <3>2
    <3>3. CASE row' = WithRunner(row.state, log[handler.idx])
      BY <2>2, <3>3 DEF WithRunner, Rows
    <3> QED BY <1>3, <3>1, <3>2, <3>3 DEF OnLifecycle
  <2>5. late' \in Clocks
    BY <1>3, ClocksType DEF OnLifecycle, NoWrite
  <2>6. wire' \subseteq Runners
    BY <1>3 DEF OnLifecycle, ToldToStop, Live
  <2> QED BY <1>3, <1>b, <2>4, <2>5, <2>6, AckType DEF OnLifecycle, Handle
<1>4. CASE OnEvent
  <2>1. log[handler.idx] \in Messages /\ log[handler.idx].kind = "event"
    BY <1>4, <1>b, MessageType DEF OnEvent, Handle, Handling
  <2>2. stored' \subseteq EventIds
    BY <1>4, <2>1 DEF OnEvent, Messages
  <2>3. row' \in Rows /\ late' \in Clocks
    BY <1>4, ClocksType DEF OnEvent, NoWrite
  <2> QED BY <1>4, <1>b, <2>2, <2>3, AckType DEF OnEvent, Handle
<1>5. CASE OnFinished
  <2>1. row' \in Rows /\ late' \in Clocks /\ object' \in Objects
    BY <1>5, FinalizeType DEF OnFinished
  <2> QED BY <1>5, <1>b, <2>1, AckType DEF OnFinished, Handle
<1>6. CASE HandleFails
  <2>1. object' \in Objects
    BY <1>6, ReportType DEF HandleFails, LeftBehind
  <2>2. Pending(FALSE) \in Redeliveries /\ Pending(FALSE).idx \in 1 .. cursor - 1
    BY <1>6, <1>b, PendingType
  <2>3. again' \subseteq again \cup {Pending(FALSE)}
    BY <1>6 DEF HandleFails, Retried
  <2>4. again' \subseteq Redeliveries
    BY <2>2, <2>3
  <2>5. \A m \in again' : m.idx \in 1 .. cursor - 1
    BY <2>2, <2>3
  <2> QED BY <1>6, <2>1, <2>4, <2>5, IdleType, FaultType DEF HandleFails
<1> QED BY <1>1, <1>2, <1>3, <1>4, <1>5, <1>6 DEF Consumer, Handle

LEMMA TypeWatchdog == TypeInv /\ Watchdog => TypeInv'
<1> SUFFICES ASSUME TypeInv, Watchdog PROVE TypeInv'
  OBVIOUS
<1> USE DEF TypeInv, TypeOK, Indices, apiVars, dbVars, consumerVars,
            runnerVars, clockVars
<1>1. CASE WatchdogRead
  <2>1. Verdict \in Verdicts \cup {"none"}
    BY DEF Verdict, Verdicts
  <2>2. watchdog' \in Watchdogs
    BY <1>1, <2>1 DEF WatchdogRead, Watchdogs, Rows
  <2> QED BY <1>1, <2>2 DEF WatchdogRead, Live
<1>2. CASE WatchdogWrite
  <2>1. row' \in Rows /\ late' \in Clocks /\ object' \in Objects
    BY <1>2, FinalizeType, TransitionType DEF WatchdogWrite, RunState
  <2> QED BY <1>2, <2>1, IdleType DEF WatchdogWrite
<1>3. CASE WatchdogFails
  <2>1. object' \in Objects
    BY <1>3, ReportType DEF WatchdogFails, LeftBehind
  <2> QED BY <1>3, <2>1, IdleType, FaultType DEF WatchdogFails
<1> QED BY <1>1, <1>2, <1>3 DEF Watchdog

LEMMA TypeCrash == TypeInv /\ OrchestratorCrash => TypeInv'
<1> SUFFICES ASSUME TypeInv, OrchestratorCrash PROVE TypeInv'
  OBVIOUS
<1> USE DEF TypeInv, TypeOK, Indices, apiVars, dbVars, runnerVars
<1>1. PICK next \in cursor .. Len(log) + 1 :
        /\ cursor' = next
        /\ again' = again
             \cup {[idx |-> i, tries |-> 1, slow |-> TRUE] :
                     i \in cursor .. next - 1}
             \cup (IF handler.pc = "busy" THEN {Pending(TRUE)} ELSE {})
  BY DEF OrchestratorCrash
<1>2. next \in Nat /\ cursor <= next /\ next <= Len(log) + 1
  BY <1>1
<1>3. ASSUME NEW m \in again'
      PROVE  m \in Redeliveries /\ m.idx \in 1 .. cursor' - 1
  <2>1. CASE m \in again
    BY <1>1, <1>2, <2>1 DEF Redeliveries
  <2>2. ASSUME NEW i \in cursor .. next - 1,
               m = [idx |-> i, tries |-> 1, slow |-> TRUE]
        PROVE  m \in Redeliveries /\ m.idx \in 1 .. cursor' - 1
    BY <1>1, <1>2, <2>2 DEF Redeliveries
  <2>3. CASE handler.pc = "busy" /\ m = Pending(TRUE)
    <3>1. m \in Redeliveries /\ m.idx \in 1 .. cursor - 1
      BY <2>3, PendingType
    <3> QED BY <1>1, <1>2, <3>1
  <2> QED BY <1>1, <1>3, <2>1, <2>2, <2>3
<1>4. hb' \in [Runners -> Heartbeats] /\ late' \in Clocks
  <2>1. PICK outage \in Outages :
          /\ hb' = [n \in Runners |->
                      [age |-> IF outage # "restart" /\ hb[n].age # "none"
                               THEN "stale" ELSE hb[n].age,
                       reported |-> "unknown"]]
          /\ late' = [late EXCEPT
                        !.quiet = @ \/ (outage # "restart"
                                        /\ row.state \in ActiveRunStates),
                        !.preparing = @ \/ (/\ outage = "long"
                                            /\ row.state = "PREPARING")]
    BY DEF OrchestratorCrash
  <2>2. hb' \in [Runners -> Heartbeats]
    BY <2>1 DEF Heartbeats
  <2>3. late' \in Clocks
    BY <2>1 DEF Clocks
  <2> QED BY <2>2, <2>3
<1>5. faults' \in Nat
  BY FaultType DEF OrchestratorCrash
<1>6. /\ again' \subseteq Redeliveries
      /\ \A m \in again' : m.idx \in 1 .. cursor' - 1
  BY <1>3
<1>7. cursor' \in Nat \ {0} /\ cursor' <= Len(log) + 1
  BY <1>1, <1>2
<1>8. /\ handler' \in Handlers /\ handler'.pc = "idle"
      /\ watchdog' \in Watchdogs /\ trusted' = FALSE
      /\ UNCHANGED <<apiVars, dbVars, asked, job, log, wire, runnerVars>>
  BY IdleType DEF OrchestratorCrash
<1> QED BY <1>4, <1>5, <1>6, <1>7, <1>8

LEMMA TypeClock == TypeInv /\ Clock => TypeInv'
<1> SUFFICES ASSUME TypeInv, Clock PROVE TypeInv'
  OBVIOUS
<1> USE DEF TypeInv, TypeOK, Indices, apiVars, dbVars, consumerVars,
            runnerVars
<1>1. CASE GoQuiet
  BY <1>1 DEF GoQuiet, Clocks
<1>2. CASE QueuedTooLong
  BY <1>2 DEF QueuedTooLong, Clocks
<1>3. CASE PreparingTooLong
  BY <1>3 DEF PreparingTooLong, Clocks
<1>4. CASE TrustHeartbeats
  BY <1>4 DEF TrustHeartbeats
<1>5. ASSUME NEW n \in Runners, HeartbeatStale(n) PROVE TypeInv'
  <2>1. hb' \in [Runners -> Heartbeats]
    BY <1>5 DEF HeartbeatStale, Heartbeats
  <2> QED BY <1>5, <2>1 DEF HeartbeatStale
<1> QED BY <1>1, <1>2, <1>3, <1>4, <1>5 DEF Clock

LEMMA TypeNext == TypeInv /\ [Next]_vars => TypeInv'
<1>1. TypeInv /\ UNCHANGED vars => TypeInv'
  BY DEF vars, apiVars, dbVars, consumerVars, runnerVars, clockVars, TypeInv,
         TypeOK, Indices
<1> QED BY <1>1, TypeApi, TypeExecution, TypeProcess, TypeConsumer,
           TypeWatchdog, TypeCrash, TypeClock DEF Next

LEMMA TypeInvariant == Spec => []TypeInv
BY TypeInit, TypeNext, PTL DEF Spec

\* Type correctness, for every set of runners and all bounds.
THEOREM TypeCorrect == Spec => []TypeOK
BY TypeInvariant, PTL DEF TypeInv

-----------------------------------------------------------------------------
(* What a step may do to the row. *)

Submits == /\ request = "none" /\ request' # "none"
           /\ \E state \in {"FAILED", "QUEUED"} : row' = Row(state)

GivesUp == /\ request = "unpublished" \/ watchdog.why # "none"
           /\ row'.state = "FAILED"

Cancels == cancelReq.pc = "read" /\ row'.state = "CANCELLED" /\ asked' # {}

\* The consumer follows a lifecycle message.
Follows == /\ Handling("lifecycle")
           /\ handler.seen.state \notin TerminalRunStates
           /\ row'.state \in ActiveRunStates \cup {row.state}
           /\ row'.analysed = row.analysed
           /\ handler' = IdleHandler

\* The consumer finalizes the run.
Closes == /\ Handling("finished")
          /\ handler.seen.state \notin TerminalRunStates
          /\ \E analysed \in BOOLEAN :
               /\ row'.state = Final(log[handler.idx].outcome, analysed)
               /\ row'.analysed = IF analysed
                                  THEN FinalState(log[handler.idx].outcome)
                                  ELSE row.analysed
          /\ handler' = IdleHandler

LEMMA FailedFinalize ==
  ASSUME TypeOK, NEW seen, Finalize(seen, "failed")
  PROVE  row' = row \/ row'.state = "FAILED"
<1>1. \A analysed \in BOOLEAN : Final("failed", analysed) = "FAILED"
  BY DEF Final, FinalState
<1> QED BY <1>1, FinalizeWrites

LEMMA RowSteps ==
  ASSUME TypeInv, [Next]_vars
  PROVE  row' = row \/ Submits \/ GivesUp \/ Cancels \/ Follows \/ Closes
<1>0. TypeOK
  BY DEF TypeInv
<1> USE DEF dbVars
<1>1. CASE Api
  <2>1. CASE SubmitInvalid
    BY <2>1 DEF SubmitInvalid, Submits
  <2>2. CASE Submit
    BY <2>2 DEF Submit, Submits
  <2>3. CASE PublishJob \/ PublishJobFails \/ ApiCrash \/ CancelRead
             \/ CancelPublish
    BY <2>3 DEF PublishJob, PublishJobFails, ApiCrash, CancelRead,
                CancelPublish
  <2>4. CASE FailUnpublished
    <3>1. row'.state = "FAILED"
      BY <1>0, <2>4, TransitionType DEF FailUnpublished, RunState
    <3> QED BY <2>4, <3>1 DEF FailUnpublished, GivesUp
  <2>5. CASE CancelWrite
    <3>1. row' = row \/ row'.state = "CANCELLED"
      BY <1>0, <2>5, TransitionType DEF CancelWrite, NoWrite, RunState
    <3> QED BY <2>5, <3>1 DEF CancelWrite, Cancels
  <2> QED BY <1>1, <2>1, <2>2, <2>3, <2>4, <2>5 DEF Api
<1>2. ASSUME NEW n \in Runners, Execution(n) \/ Process(n) PROVE row' = row
  BY <1>2 DEF Execution, Progress, Accept, Reject, Prepare, StartRunning,
     Toggle, Observe, End, Collect, PublishFails, Pop, PublishFinished,
     ExecStep, Process, Stop, Exit, Crash, Start, OnControl, LoseCancel,
     Heartbeat
<1>3. CASE Consumer
  <2>1. CASE DeliverNew \/ DeliverAgain \/ HandleFails
    BY <2>1 DEF DeliverNew, DeliverAgain, HandleFails
  <2>2. CASE OnEvent
    BY <2>2 DEF OnEvent, NoWrite
  <2>3. CASE OnLifecycle
    <3>1. handler' = IdleHandler /\ Handling("lifecycle")
      BY <2>3 DEF OnLifecycle, Ack
    <3>2. log[handler.idx] \in Messages /\ log[handler.idx].kind = "lifecycle"
      BY <3>1, MessageType DEF Handling
    <3>3. /\ log[handler.idx].state \in ActiveRunStates
          /\ log[handler.idx].from \in Runners
      BY <3>2 DEF Messages, Announced
    <3>4. \/ row' = row
          \/ /\ handler.seen.state \notin TerminalRunStates
             /\ \E state \in {row.state, log[handler.idx].state} :
                  row' = WithRunner(state, log[handler.idx])
      <4>1. \A seen \in TerminalRunStates :
              /\ log[handler.idx].state # seen
              /\ ~CanTransition(seen, log[handler.idx].state)
        BY <3>3 DEF TerminalRunStates, ActiveRunStates, CanTransition,
           RunTransitions
      <4> QED BY <2>3, <4>1 DEF OnLifecycle, NoWrite
    <3>5. ASSUME NEW state
          PROVE  /\ WithRunner(state, log[handler.idx]).state = state
                 /\ WithRunner(state, log[handler.idx]).analysed = row.analysed
      BY <1>0 DEF WithRunner, TypeOK, Rows
    <3> QED BY <3>1, <3>3, <3>4, <3>5 DEF Follows
  <2>4. CASE OnFinished
    <3>1. handler' = IdleHandler /\ Handling("finished")
          /\ Finalize(handler.seen.state, log[handler.idx].outcome)
      BY <2>4 DEF OnFinished, Ack
    <3> QED BY <1>0, <3>1, FinalizeWrites DEF Closes
  <2> QED BY <1>3, <2>1, <2>2, <2>3, <2>4 DEF Consumer, Handle
<1>4. CASE Watchdog
  <2>1. CASE WatchdogRead \/ WatchdogFails
    BY <2>1 DEF WatchdogRead, WatchdogFails
  <2>2. CASE WatchdogWrite
    <3>1. row' = row \/ row'.state = "FAILED"
      BY <1>0, <2>2, FailedFinalize, TransitionType DEF WatchdogWrite, RunState
    <3> QED BY <2>2, <3>1 DEF WatchdogWrite, GivesUp
  <2> QED BY <1>4, <2>1, <2>2 DEF Watchdog
<1>5. CASE OrchestratorCrash
  BY <1>5 DEF OrchestratorCrash
<1>6. CASE Clock
  BY <1>6 DEF Clock, GoQuiet, QueuedTooLong, PreparingTooLong,
              TrustHeartbeats, HeartbeatStale
<1>7. CASE UNCHANGED vars
  BY <1>7 DEF vars
<1> QED BY <1>1, <1>2, <1>3, <1>4, <1>5, <1>6, <1>7 DEF Next

-----------------------------------------------------------------------------
(* What a step may do to the log and to the consumer. *)

\* Only a runner publishes, in its own name, and a finished message says how its
\* execution went.
Publishes(n, message) ==
  /\ exec[n].pc # "idle"
  /\ log' = Append(log, message)
  /\ message.kind = "lifecycle" => message.from = n
  /\ message.kind = "finished" => message.outcome = exec[n].outcome

LEMMA LogSteps ==
  ASSUME TypeInv, [Next]_vars
  PROVE  \/ log' = log
         \/ \E n \in Runners, message \in Messages : Publishes(n, message)
<1>1. CASE Api
  BY <1>1 DEF Api, SubmitInvalid, Submit, PublishJob, PublishJobFails,
     FailUnpublished, ApiCrash, CancelRead, CancelWrite, CancelPublish
<1>2. ASSUME NEW n \in Runners, Execution(n)
      PROVE  log' = log \/ \E message \in Messages : Publishes(n, message)
  <2>0. TypeOK
    BY DEF TypeInv
  <2>1. CASE Accept(n) \/ Reject(n) \/ Pop(n)
    BY <2>1 DEF Accept, Reject, Pop
  <2>2. ASSUME NEW state \in Announced, exec[n].pc # "idle",
               Publish(Lifecycle(n, state))
        PROVE  \E message \in Messages : Publishes(n, message)
    <3>1. Lifecycle(n, state) \in Messages
          /\ Lifecycle(n, state).kind # "finished" /\ Lifecycle(n, state).from = n
      BY LifecycleType DEF Lifecycle
    <3> QED BY <2>2, <3>1 DEF Publishes, Publish
  <2>3. ASSUME exec[n].pc # "idle", Publish(Event(n))
        PROVE  \E message \in Messages : Publishes(n, message)
    <3>1. Event(n) \in Messages /\ Event(n).kind = "event"
      BY <2>0, EventType DEF Event
    <3> QED BY <2>3, <3>1 DEF Publishes, Publish
  <2>4. ASSUME exec[n].pc # "idle", Publish(Finished(n))
        PROVE  \E message \in Messages : Publishes(n, message)
    <3>1. /\ Finished(n) \in Messages /\ Finished(n).kind = "finished"
          /\ Finished(n).outcome = exec[n].outcome
      BY <2>0, FinishedType DEF Finished
    <3> QED BY <2>4, <3>1 DEF Publishes, Publish
  <2>5. {"PREPARING", "RUNNING", "RECOVERING", "COLLECTING"} \subseteq Announced
    BY DEF Announced, ActiveRunStates
  <2>6. CASE Prepare(n) \/ StartRunning(n) \/ Toggle(n) \/ Collect(n)
    BY <2>2, <2>5, <2>6 DEF Prepare, StartRunning, Toggle, Collect
  <2>7. CASE Observe(n) \/ \E outcome \in Outcomes : End(n, outcome)
    BY <2>3, <2>7 DEF Observe, End, MayEnd
  <2>8. CASE PublishFinished(n)
    BY <2>4, <2>8 DEF PublishFinished
  <2>9. CASE PublishFails(n)
    BY <2>3, <2>9 DEF PublishFails
  <2> QED BY <1>2, <2>1, <2>6, <2>7, <2>8, <2>9 DEF Execution, Progress
<1>3. ASSUME NEW n \in Runners, Process(n) PROVE log' = log
  BY <1>3 DEF Process, Stop, Exit, Crash, Start, OnControl, LoseCancel,
     Heartbeat
<1>4. CASE Consumer \/ Watchdog \/ OrchestratorCrash
  BY <1>4 DEF Consumer, DeliverNew, DeliverAgain, Handle, OnLifecycle, OnEvent,
     OnFinished, HandleFails, Watchdog, WatchdogRead, WatchdogWrite,
     WatchdogFails, OrchestratorCrash
<1>5. CASE Clock
  BY <1>5 DEF Clock, GoQuiet, QueuedTooLong, PreparingTooLong,
              TrustHeartbeats, HeartbeatStale
<1>6. CASE UNCHANGED vars
  BY <1>6 DEF vars
<1> QED BY <1>1, <1>2, <1>3, <1>4, <1>5, <1>6 DEF Next

\* What is in the log stays there.
LEMMA LogGrows ==
  ASSUME TypeInv, [Next]_vars
  PROVE  /\ Len(log) <= Len(log')
         /\ \A i \in 1 .. Len(log) : log'[i] = log[i]
         /\ \A i \in 1 .. Len(log') : i <= Len(log) \/ i = Len(log) + 1
<1>1. log \in Seq(Messages)
  BY DEF TypeInv, TypeOK
<1>2. log' = log \/ \E message \in Messages : log' = Append(log, message)
  BY LogSteps DEF Publishes
<1> QED BY <1>1, <1>2

\* A handler begins: the row and the log stand still.
Begins == /\ handler.pc = "idle" /\ handler'.pc = "busy"
          /\ handler'.idx \in 1 .. Len(log)
          /\ handler'.seen = Snapshot(log[handler'.idx].kind)
          /\ UNCHANGED <<row, log, faults>>

LEMMA HandlerSteps ==
  ASSUME TypeInv, [Next]_vars
  PROVE  handler' = handler \/ handler' = IdleHandler \/ Begins
<1>1. CASE Api
  BY <1>1 DEF Api, SubmitInvalid, Submit, PublishJob, PublishJobFails,
     FailUnpublished, ApiCrash, CancelRead, CancelWrite, CancelPublish,
     consumerVars
<1>2. ASSUME NEW n \in Runners, Execution(n) \/ Process(n)
      PROVE  handler' = handler
  BY <1>2 DEF Execution, Progress, Accept, Reject, Prepare, StartRunning,
     Toggle, Observe, End, Collect, PublishFails, Pop, PublishFinished,
     ExecStep, Process, Stop, Exit, Crash, Start, OnControl, LoseCancel,
     Heartbeat, consumerVars
<1>3. CASE Consumer
  <2>1. CASE DeliverNew
    <3>1. cursor \in 1 .. Len(log)
      BY <2>1 DEF DeliverNew, TypeInv, TypeOK
    <3> QED BY <2>1, <3>1 DEF DeliverNew, Read, Begins, dbVars
  <2>2. CASE DeliverAgain
    <3>1. \A m \in again : m.idx \in 1 .. Len(log)
      BY DEF TypeInv, TypeOK, Indices, Redeliveries
    <3> QED BY <2>2, <3>1 DEF DeliverAgain, Read, Begins, dbVars
  <2>3. CASE Handle \/ HandleFails
    BY <2>3 DEF Handle, OnLifecycle, OnEvent, OnFinished, Ack, HandleFails
  <2> QED BY <1>3, <2>1, <2>2, <2>3 DEF Consumer
<1>4. CASE Watchdog \/ OrchestratorCrash
  BY <1>4 DEF Watchdog, WatchdogRead, WatchdogWrite, WatchdogFails,
     OrchestratorCrash, consumerVars
<1>5. CASE Clock
  BY <1>5 DEF Clock, GoQuiet, QueuedTooLong, PreparingTooLong,
              TrustHeartbeats, HeartbeatStale, consumerVars
<1>6. CASE UNCHANGED vars
  BY <1>6 DEF vars, consumerVars
<1> QED BY <1>1, <1>2, <1>3, <1>4, <1>5, <1>6 DEF Next

-----------------------------------------------------------------------------
(* A run is COMPLETED only if it earned it. *)

LEMMA AnnouncesStays ==
  ASSUME TypeInv, [Next]_vars, NEW outcome, Announces(outcome)
  PROVE  Announces(outcome)'
<1>1. PICK i \in 1 .. Len(log) :
        log[i].kind = "finished" /\ log[i].outcome = outcome
  BY DEF Announces
<1>2. i \in 1 .. Len(log') /\ log'[i] = log[i]
  BY LogGrows DEF TypeInv, TypeOK
<1> QED BY <1>1, <1>2 DEF Announces

LEMMA HandlingIndex ==
  ASSUME TypeInv, handler.pc = "busy"
  PROVE  handler.idx \in 1 .. Len(log)
BY DEF TypeInv, TypeOK, Indices

LEMMA CompletedNext ==
  ASSUME TypeInv, CompletedIsEarned, [Next]_vars
  PROVE  CompletedIsEarned'
<1> SUFFICES ASSUME row'.state = "COMPLETED"
             PROVE  row'.analysed = "COMPLETED" /\ Announces("completed")'
  BY DEF CompletedIsEarned
<1>1. CASE row' = row
  BY <1>1, AnnouncesStays DEF CompletedIsEarned
<1>2. CASE Submits \/ GivesUp \/ Cancels
  BY <1>2 DEF Submits, GivesUp, Cancels, Row
<1>3. CASE Follows
  BY <1>3, AnnouncesStays DEF Follows, CompletedIsEarned, ActiveRunStates
<1>4. CASE Closes
  <2>1. PICK analysed \in BOOLEAN :
          /\ Final(log[handler.idx].outcome, analysed) = "COMPLETED"
          /\ row'.analysed = IF analysed
                             THEN FinalState(log[handler.idx].outcome)
                             ELSE row.analysed
    BY <1>4 DEF Closes
  <2>2. analysed /\ log[handler.idx].outcome = "completed"
    BY <2>1 DEF Final, FinalState
  <2>3. Announces("completed")
    BY <1>4, <2>2, HandlingIndex DEF Closes, Handling, Announces
  <2> QED BY <2>1, <2>2, <2>3, AnnouncesStays DEF FinalState
<1> QED BY <1>1, <1>2, <1>3, <1>4, RowSteps

\* A run is COMPLETED only if a runner announced a completed execution and its
\* analysis is in the database.
THEOREM Completed == Spec => []CompletedIsEarned
<1>1. Init => CompletedIsEarned
  BY DEF Init, CompletedIsEarned, Row
<1>2. TypeInv /\ CompletedIsEarned /\ [Next]_vars => CompletedIsEarned'
  BY CompletedNext
<1> QED BY <1>1, <1>2, TypeInvariant, PTL DEF Spec

-----------------------------------------------------------------------------
(* What is committed, and what the consumer and the watchdog read of it. *)

\* The states in which a transaction ever leaves a run.
CommittedStates == RunState \ {"CREATED", "VALIDATING", "ANALYZING"}

\* Before the API has created the run there is nothing.
Unborn ==
  /\ row.state = "ABSENT"
  /\ job = FALSE /\ log = <<>>
  /\ cancelReq.pc = "idle" /\ watchdog.why = "none"
  /\ \A n \in Runners : exec[n].pc = "idle"

Created == request = "none" => Unborn

RowCommitted ==
  /\ row.state \in CommittedStates \cup {"ABSENT"}
  /\ row.state = "ABSENT" => request = "none"

\* Reads a snapshot and acts on it.
Acting == Handling("lifecycle") \/ Handling("finished")

\* A run that was over when a handler read it is over.
SeenCommitted ==
  Acting => /\ handler.seen.state \in CommittedStates
            /\ handler.seen.state \in TerminalRunStates =>
                 row.state \in TerminalRunStates

WatchdogSeen ==
  watchdog.why \notin {"none", "queued"} => watchdog.seen \in ActiveRunStates

LifeInv == TypeInv /\ Created /\ RowCommitted /\ SeenCommitted /\ WatchdogSeen

LEMMA LifeInit == Init => LifeInv
<1> SUFFICES ASSUME Init PROVE LifeInv
  OBVIOUS
<1>1. handler.pc = "idle" /\ watchdog.why = "none" /\ cancelReq.pc = "idle"
  BY IdleType DEF Init
<1>2. \A n \in Runners : exec[n].pc = "idle"
  BY DEF Init, IdleExec, Fresh
<1> QED BY <1>1, <1>2, TypeInit DEF Init, LifeInv, Created, Unborn, Row,
        RowCommitted, SeenCommitted, Acting, Handling, WatchdogSeen

\* Only the API brings a run to life.
LEMMA BirthSteps ==
  ASSUME LifeInv, [Next]_vars, request = "none"
  PROVE  (Unborn' /\ request' = "none" /\ row' = row) \/ Submits
<1>0. TypeInv /\ TypeOK /\ Indices /\ Unborn
  BY DEF LifeInv, Created, TypeInv
<1>1. again = {} /\ cursor = 1 /\ handler.pc = "idle" /\ Len(log) = 0
  <2>1. Len(log) = 0 /\ cursor = 1
    BY <1>0 DEF Unborn, Indices, TypeOK
  <2>2. again = {}
    BY <1>0, <2>1 DEF Indices
  <2>3. handler.pc = "idle"
    BY <1>0, <2>1 DEF Indices, TypeOK, Handlers
  <2> QED BY <2>1, <2>2, <2>3
<1> USE DEF dbVars, Unborn
<1>2. CASE Api
  <2>1. CASE SubmitInvalid \/ Submit
    BY <2>1 DEF SubmitInvalid, Submit, Submits
  <2>2. CASE CancelRead
    BY <1>0, <2>2 DEF CancelRead, RunState
  <2> QED BY <1>0, <1>2, <2>1, <2>2 DEF Api, PublishJob, PublishJobFails,
          FailUnpublished, ApiCrash, CancelWrite, CancelPublish
<1>3. ASSUME NEW n \in Runners PROVE ~Execution(n)
  BY <1>0, <1>3 DEF Execution, Progress, Accept, Reject, Prepare,
     StartRunning, Toggle, Observe, End, MayEnd, Collect, PublishFails, Pop,
     PublishFinished
<1>4. ASSUME NEW n \in Runners, Process(n)
      PROVE  Unborn' /\ request' = "none" /\ row' = row
  <2>1. \A m \in Runners : exec'[m].pc = "idle"
    <3>0. exec \in [Runners -> Executions]
      BY <1>0 DEF TypeOK
    <3>1. CASE exec' = exec
      BY <1>0, <3>1
    <3>2. CASE Crash(n)
      BY <1>0, <3>0, <3>2 DEF Crash, IdleExec, Fresh
    <3>3. CASE OnControl(n)
      BY <1>0, <3>0, <3>3 DEF OnControl, Executions
    <3> QED BY <1>4, <3>1, <3>2, <3>3 DEF Process, Stop, Exit, Start,
               LoseCancel, Heartbeat, runnerVars
  <2> QED BY <1>0, <1>4, <2>1 DEF Process, Stop, Exit, Crash, Start,
          OnControl, LoseCancel, Heartbeat, apiVars
<1>5. ~Consumer
  BY <1>1 DEF Consumer, DeliverNew, DeliverAgain, Handle, OnLifecycle,
     OnEvent, OnFinished, HandleFails, Handling
<1>6. ~Watchdog
  BY <1>0 DEF Watchdog, WatchdogRead, WatchdogWrite, WatchdogFails, Verdict,
     NeverReady, Suspect, ActiveRunStates
<1>7. CASE OrchestratorCrash
  BY <1>0, <1>7, IdleType DEF OrchestratorCrash, apiVars, runnerVars
<1>8. CASE Clock
  BY <1>0, <1>8 DEF Clock, GoQuiet, QueuedTooLong, PreparingTooLong,
     TrustHeartbeats, HeartbeatStale, apiVars, runnerVars
<1>9. CASE UNCHANGED vars
  BY <1>0, <1>9 DEF vars, apiVars, runnerVars
<1> QED BY <1>2, <1>3, <1>4, <1>5, <1>6, <1>7, <1>8, <1>9 DEF Next

LEMMA CreatedNext ==
  ASSUME LifeInv, [Next]_vars
  PROVE  Created'
<1> SUFFICES ASSUME request' = "none" PROVE Unborn'
  BY DEF Created
<1>1. CASE request = "none"
  BY SMTT(30), <1>1, BirthSteps DEF Submits
<1>2. CASE request # "none"
  BY ZenonT(40), <1>2 DEF Next, Api, SubmitInvalid, Submit, PublishJob, PublishJobFails,
     FailUnpublished, ApiCrash, CancelRead, CancelWrite, CancelPublish,
     Execution, Progress, Accept, Reject, Prepare, StartRunning, Toggle,
     Observe, End, Collect, PublishFails, Pop, PublishFinished, ExecStep,
     Process, Stop, Exit, Crash, Start, OnControl, LoseCancel, Heartbeat,
     Consumer, DeliverNew, DeliverAgain, Handle, OnLifecycle, OnEvent,
     OnFinished, HandleFails, Watchdog, WatchdogRead, WatchdogWrite,
     WatchdogFails, OrchestratorCrash, Clock, GoQuiet, QueuedTooLong,
     PreparingTooLong, TrustHeartbeats, HeartbeatStale, apiVars, vars
<1> QED BY <1>1, <1>2

\* There is a run as soon as there is a message.
LEMMA LogHasRun ==
  ASSUME LifeInv, NEW i \in 1 .. Len(log)
  PROVE  request # "none" /\ row.state \in CommittedStates
<1>1. request # "none"
  BY DEF LifeInv, Created, Unborn, TypeInv, TypeOK
<1> QED BY <1>1 DEF LifeInv, RowCommitted

LEMMA RowCommittedNext ==
  ASSUME LifeInv, [Next]_vars
  PROVE  RowCommitted'
<1>0. TypeInv /\ RowCommitted
  BY DEF LifeInv
<1>1. CASE row' = row
  <2>1. row.state = "ABSENT" => request' = "none" \/ Submits
    BY <1>0, BirthSteps DEF RowCommitted
  <2>2. Submits => row'.state # "ABSENT"
    BY DEF Submits, Row
  <2> QED BY <1>0, <1>1, <2>1, <2>2 DEF RowCommitted
<1>2. CASE Submits
  BY <1>2 DEF Submits, Row, RowCommitted, CommittedStates, RunState
<1>3. CASE GivesUp \/ Cancels
  BY <1>3 DEF GivesUp, Cancels, RowCommitted, CommittedStates, RunState
<1>4. CASE Follows
  <2>1. row.state \in CommittedStates
    BY <1>0, <1>4, HandlingIndex, LogHasRun DEF Follows, Handling
  <2> QED BY <1>4, <2>1 DEF Follows, ActiveRunStates, CommittedStates,
             RunState, RowCommitted
<1>5. CASE Closes
  BY <1>5, FinalType DEF Closes, TerminalRunStates, CommittedStates, RunState,
     RowCommitted
<1> QED BY <1>0, <1>1, <1>2, <1>3, <1>4, <1>5, RowSteps

\* A run that is over stays so, unless a lifecycle handler that read it before
\* writes to it.
LEMMA OverStays ==
  ASSUME LifeInv, [Next]_vars, row.state \in TerminalRunStates
  PROVE  row'.state \in TerminalRunStates \/ Follows
<1>1. ~Submits
  BY DEF LifeInv, Created, Unborn, TerminalRunStates, Submits
<1>2. GivesUp \/ Cancels \/ Closes => row'.state \in TerminalRunStates
  BY FinalType DEF GivesUp, Cancels, Closes, TerminalRunStates
<1> QED BY <1>1, <1>2, RowSteps DEF LifeInv

\* While a handler is at work its message stays what it is.
LEMMA HandlingStays ==
  ASSUME TypeInv, [Next]_vars, handler' = handler, NEW kind
  PROVE  Handling(kind)' => Handling(kind)
BY HandlingIndex, LogGrows DEF Handling

LEMMA SeenCommittedNext ==
  ASSUME LifeInv, [Next]_vars
  PROVE  SeenCommitted'
<1>0. TypeInv /\ SeenCommitted
  BY DEF LifeInv
<1> SUFFICES ASSUME Acting'
             PROVE  /\ handler'.seen.state \in CommittedStates
                    /\ handler'.seen.state \in TerminalRunStates =>
                         row'.state \in TerminalRunStates
  BY DEF SeenCommitted
<1>1. handler'.pc = "busy"
  BY DEF Acting, Handling
<1>2. CASE handler' = handler
  <2>1. Acting
    BY <1>0, <1>2, HandlingStays DEF Acting
  <2>2. ~Follows
    BY <1>1, IdleType DEF Follows
  <2> QED BY <1>0, <1>2, <2>1, <2>2, OverStays DEF SeenCommitted
<1>3. CASE Begins
  <2>1. row.state \in CommittedStates
    BY <1>3, LogHasRun DEF Begins
  <2>2. handler'.seen.state = row.state
    BY <1>3 DEF Begins, Snapshot, Acting, Handling
  <2> QED BY <1>3, <2>1, <2>2 DEF Begins
<1> QED BY <1>0, <1>1, <1>2, <1>3, HandlerSteps, IdleType

LEMMA WatchdogSeenNext ==
  ASSUME LifeInv, [Next]_vars
  PROVE  WatchdogSeen'
<1>0. WatchdogSeen
  BY DEF LifeInv
<1>1. CASE watchdog' = watchdog
  BY <1>0, <1>1 DEF WatchdogSeen
<1>2. CASE watchdog' = IdleWatchdog
  BY <1>2, IdleType DEF WatchdogSeen
<1>3. CASE WatchdogRead
  BY <1>3 DEF WatchdogRead, WatchdogSeen, Verdict, NeverReady, Suspect,
     ActiveRunStates
<1> QED BY ZenonT(40), <1>1, <1>2, <1>3
        DEF Next, Api, SubmitInvalid, Submit, PublishJob, PublishJobFails,
     FailUnpublished, ApiCrash, CancelRead, CancelWrite, CancelPublish,
     Execution, Progress, Accept, Reject, Prepare, StartRunning, Toggle,
     Observe, End, Collect, PublishFails, Pop, PublishFinished, ExecStep,
     Process, Stop, Exit, Crash, Start, OnControl, LoseCancel, Heartbeat,
     Consumer, DeliverNew, DeliverAgain, Handle, OnLifecycle, OnEvent,
     OnFinished, HandleFails, Watchdog, WatchdogWrite, WatchdogFails,
     OrchestratorCrash, Clock, GoQuiet, QueuedTooLong, PreparingTooLong,
     TrustHeartbeats, HeartbeatStale, vars

LEMMA LifeNext == LifeInv /\ [Next]_vars => LifeInv'
BY TypeNext, CreatedNext, RowCommittedNext, SeenCommittedNext,
   WatchdogSeenNext DEF LifeInv

LEMMA LifeInvariant == Spec => []LifeInv
BY LifeInit, LifeNext, PTL DEF Spec

-----------------------------------------------------------------------------
(* finalize never raises. *)

LEMMA BridgeIsLegal ==
  ASSUME NEW state \in CommittedStates \ TerminalRunStates,
         NEW outcome \in Outcomes, NEW analysed \in BOOLEAN
  PROVE  LegalPath(FinalizePath(state, outcome, analysed))
<1> USE DEF LegalPath, CanTransition, RunTransitions, FinalizePath, Bridge,
            Final, FinalState, Outcomes
<1>1. CASE state = "QUEUED"
  BY <1>1
<1>2. CASE state = "PREPARING"
  BY <1>2
<1>3. CASE state = "RUNNING"
  BY <1>3
<1>4. CASE state = "RECOVERING"
  BY <1>4
<1>5. CASE state = "COLLECTING"
  BY <1>5
<1> QED BY <1>1, <1>2, <1>3, <1>4, <1>5
        DEF CommittedStates, RunState, TerminalRunStates

\* Whatever was lost or ignored, from every state the consumer or the watchdog
\* can have read there is a legal path to the outcome.
THEOREM FinalizeLegal == Spec => []FinalizeIsLegal
<1>1. LifeInv => FinalizeIsLegal
  <2> SUFFICES ASSUME LifeInv, NEW analysed \in BOOLEAN
               PROVE  /\ Handling("finished")
                           /\ ~NothingToFinalize(handler.seen.state) =>
                           LegalPath(FinalizePath(handler.seen.state,
                                       log[handler.idx].outcome, analysed))
                      /\ watchdog.why \notin {"none", "queued"} =>
                           LegalPath(FinalizePath(watchdog.seen, "failed",
                                                  analysed))
    BY DEF FinalizeIsLegal
  <2>1. ASSUME Handling("finished"), ~NothingToFinalize(handler.seen.state)
        PROVE  LegalPath(FinalizePath(handler.seen.state,
                                      log[handler.idx].outcome, analysed))
    <3>1. log[handler.idx].outcome \in Outcomes
      BY <2>1, MessageType DEF LifeInv, Handling, Messages
    <3>2. handler.seen.state \in CommittedStates \ TerminalRunStates
      BY <2>1 DEF LifeInv, SeenCommitted, Acting, NothingToFinalize
    <3> QED BY <3>1, <3>2, BridgeIsLegal
  <2>2. ASSUME watchdog.why \notin {"none", "queued"}
        PROVE  LegalPath(FinalizePath(watchdog.seen, "failed", analysed))
    <3>1. watchdog.seen \in CommittedStates \ TerminalRunStates
      BY <2>2 DEF LifeInv, WatchdogSeen, ActiveRunStates, CommittedStates,
         RunState, TerminalRunStates
    <3> QED BY <3>1, BridgeIsLegal DEF Outcomes
  <2> QED BY <2>1, <2>2
<1> QED BY <1>1, LifeInvariant, PTL

-----------------------------------------------------------------------------
(* A finished message that is dealt with closes the run for good.          *)

\* A delivery that is not the first was paid for with a fault.
Budget ==
  /\ \A m \in again : m.tries <= faults
  /\ handler.pc = "busy" => handler.tries <= faults + 1

\* A finished message has been dealt with.
FinishedHandled ==
  \E i \in 1 .. Len(log) : log[i].kind = "finished" /\ Handled(i)

Closed == FinishedHandled => row.state \in TerminalRunStates

\* The handler of a lifecycle message knows it.
LateFollower ==
  FinishedHandled /\ Handling("lifecycle") =>
    handler.seen.state \in TerminalRunStates

CloseInv ==
  LifeInv /\ Budget /\ (faults < MaxDeliver => Closed /\ LateFollower)

\* Faults are counted.
LEMMA FaultSteps ==
  ASSUME TypeInv, [Next]_vars
  PROVE  faults' = faults \/ faults' = faults + 1
BY ZenonT(40) DEF Next, Fault, Api, SubmitInvalid, Submit, PublishJob, PublishJobFails,
     FailUnpublished, ApiCrash, CancelRead, CancelWrite, CancelPublish,
     Execution, Progress, Accept, Reject, Prepare, StartRunning, Toggle,
     Observe, End, Collect, PublishFails, Pop, PublishFinished, ExecStep,
     Process, Stop, Exit, Crash, Start, OnControl, LoseCancel, Heartbeat,
     Consumer, DeliverNew, DeliverAgain, Handle, OnLifecycle, OnEvent,
     OnFinished, Ack, HandleFails, Watchdog, WatchdogRead, WatchdogWrite,
     WatchdogFails, OrchestratorCrash, Clock, GoQuiet, QueuedTooLong,
     PreparingTooLong, TrustHeartbeats, HeartbeatStale, vars

\* Outside the consumer and a crash its variables stand still.
LEMMA ConsumerIdle ==
  ASSUME [Next]_vars, ~Consumer, ~OrchestratorCrash
  PROVE  UNCHANGED consumerVars
BY DEF Next, Api, SubmitInvalid, Submit, PublishJob, PublishJobFails,
     FailUnpublished, ApiCrash, CancelRead, CancelWrite, CancelPublish,
     Execution, Progress, Accept, Reject, Prepare, StartRunning, Toggle,
     Observe, End, Collect, PublishFails, Pop, PublishFinished, ExecStep,
     Process, Stop, Exit, Crash, Start, OnControl, LoseCancel, Heartbeat,
     Watchdog, WatchdogRead, WatchdogWrite, WatchdogFails, Clock, GoQuiet,
     QueuedTooLong, PreparingTooLong, TrustHeartbeats, HeartbeatStale, vars

\* Where redeliveries come from.
LEMMA AgainSteps ==
  ASSUME TypeInv, [Next]_vars, NEW m \in again'
  PROVE  \/ m \in again
         \/ /\ faults' = faults + 1
            /\ \/ m.tries = 1
               \/ handler.pc = "busy" /\ m.tries = handler.tries
<1>0. /\ TypeOK
      /\ \A slow \in BOOLEAN :
           handler.pc = "busy" => Pending(slow).tries = handler.tries
  BY PendingType DEF TypeInv
<1>1. CASE DeliverNew \/ DeliverAgain
  BY <1>1 DEF DeliverNew, DeliverAgain
<1>2. CASE Handle
  <2>1. handler.pc = "busy" /\ Ack
    BY <1>2 DEF Handle, OnLifecycle, OnEvent, OnFinished, Handling
  <2>2. \/ again' = again
        \/ again' = again \cup {Pending(TRUE)} /\ Fault("ack")
    BY <2>1 DEF Ack
  <2>3. CASE again' = again \cup {Pending(TRUE)} /\ Fault("ack")
    <3>1. faults' = faults + 1
      BY <2>3 DEF Fault
    <3>2. m \in again \/ m = Pending(TRUE)
      BY <2>3
    <3> QED BY <1>0, <2>1, <3>1, <3>2
  <2> QED BY <2>2, <2>3
<1>3. CASE HandleFails
  <2>1. handler.pc = "busy" /\ faults' = faults + 1
        /\ again' \subseteq again \cup {Pending(FALSE)}
    BY <1>0, <1>3, FaultType DEF HandleFails, Retried
  <2> QED BY <1>0, <2>1
<1>4. CASE OrchestratorCrash
  <2>1. faults' = faults + 1
    BY <1>0, <1>4, FaultType DEF OrchestratorCrash
  <2>2. \/ m \in again
        \/ \E i \in Nat : m = [idx |-> i, tries |-> 1, slow |-> TRUE]
        \/ handler.pc = "busy" /\ m = Pending(TRUE)
    <3>1. PICK next \in cursor .. Len(log) + 1 :
            again' = again
                \cup {[idx |-> i, tries |-> 1, slow |-> TRUE] :
                        i \in cursor .. next - 1}
                \cup (IF handler.pc = "busy" THEN {Pending(TRUE)} ELSE {})
      BY <1>4 DEF OrchestratorCrash
    <3>2. ASSUME NEW i \in cursor .. next - 1 PROVE i \in Nat
      BY <1>0 DEF TypeOK
    <3>3. ASSUME m \in {[idx |-> i, tries |-> 1, slow |-> TRUE] :
                          i \in cursor .. next - 1}
          PROVE  \E i \in Nat : m = [idx |-> i, tries |-> 1, slow |-> TRUE]
      <4>1. PICK i \in cursor .. next - 1 :
              m = [idx |-> i, tries |-> 1, slow |-> TRUE]
        BY <3>3
      <4> QED BY <4>1, <3>2
    <3>4. \/ m \in again
          \/ m \in {[idx |-> i, tries |-> 1, slow |-> TRUE] :
                     i \in cursor .. next - 1}
          \/ m \in (IF handler.pc = "busy" THEN {Pending(TRUE)} ELSE {})
      BY <3>1, Zenon
    <3> QED BY <3>3, <3>4
  <2>3. CASE \E i \in Nat : m = [idx |-> i, tries |-> 1, slow |-> TRUE]
    <3>1. m.tries = 1
      BY <2>3
    <3> QED BY <2>1, <3>1
  <2>4. CASE handler.pc = "busy" /\ m = Pending(TRUE)
    <3>1. m.tries = handler.tries
      BY <1>0, <2>4
    <3> QED BY <2>1, <2>4, <3>1
  <2> QED BY <2>2, <2>3, <2>4
<1>5. CASE UNCHANGED consumerVars
  BY <1>5 DEF consumerVars
<1> QED BY <1>1, <1>2, <1>3, <1>4, <1>5, ConsumerIdle DEF Consumer

LEMMA BudgetNext ==
  ASSUME TypeInv, Budget, [Next]_vars
  PROVE  Budget'
<1>0. /\ TypeOK /\ TypeOK'
      /\ faults' = faults \/ faults' = faults + 1
      /\ faults \in Nat /\ faults' \in Nat
  BY TypeNext, FaultSteps DEF TypeInv, TypeOK
<1>1. ASSUME NEW m \in again' PROVE m.tries <= faults'
  <2>1. m.tries \in Nat
    BY <1>0, <1>1 DEF TypeOK, Redeliveries
  <2>2. handler.tries \in Nat
    BY <1>0 DEF TypeOK, Handlers
  <2>3. CASE m \in again
    BY <1>0, <2>1, <2>3 DEF Budget
  <2>4. CASE faults' = faults + 1 /\ m.tries = 1
    BY <1>0, <2>4
  <2>5. CASE /\ faults' = faults + 1
             /\ handler.pc = "busy" /\ m.tries = handler.tries
    BY <1>0, <2>2, <2>5 DEF Budget
  <2> QED BY <2>3, <2>4, <2>5, AgainSteps
<1>2. ASSUME handler'.pc = "busy" PROVE handler'.tries <= faults' + 1
  <2>0. handler.tries \in Nat
    BY <1>0 DEF TypeOK, Handlers
  <2>1. CASE handler' = handler
    BY <1>0, <1>2, <2>0, <2>1 DEF Budget
  <2>2. CASE DeliverNew
    BY <1>0, <2>2 DEF DeliverNew, Read
  <2>3. CASE DeliverAgain
    <3>1. PICK m \in again : Read(m.idx, m.tries + 1) /\ faults' = faults
      BY <2>3 DEF DeliverAgain
    <3>2. m.tries \in Nat /\ m.tries <= faults
      BY <1>0, <3>1 DEF TypeOK, Redeliveries, Budget
    <3>3. handler'.tries = m.tries + 1
      BY <3>1 DEF Read
    <3> QED BY <1>0, <3>1, <3>2, <3>3
  <2>4. CASE Handle \/ HandleFails \/ OrchestratorCrash
    BY <1>2, <2>4, IdleType DEF Handle, OnLifecycle, OnEvent, OnFinished, Ack,
       HandleFails, OrchestratorCrash
  <2> QED BY <2>1, <2>2, <2>3, <2>4, ConsumerIdle DEF Consumer, consumerVars
<1> QED BY <1>1, <1>2 DEF Budget

\* A message is dealt with when its handler commits, or when its last try
\* fails: nothing else, and no crash, makes it so.
LEMMA HandledSteps ==
  ASSUME TypeInv, [Next]_vars, NEW i \in 1 .. Len(log'), Handled(i)'
  PROVE  /\ i \in 1 .. Len(log)
         /\ \/ Handled(i)
            \/ /\ handler.pc = "busy" /\ handler.idx = i
               /\ handler' = IdleHandler
               /\ \/ Handle
                  \/ faults' = faults + 1 /\ handler.tries >= MaxDeliver
<1>0. /\ TypeOK /\ Indices
      /\ \A slow \in BOOLEAN :
           handler.pc = "busy" => Pending(slow).idx = handler.idx
  BY DEF TypeInv, Pending
<1>1. CASE UNCHANGED consumerVars
  BY <1>0, <1>1 DEF consumerVars, Handled, Indices, TypeOK
<1>2. CASE DeliverNew
  <2>1. i < cursor' /\ i # cursor
    BY <1>2 DEF Handled, DeliverNew, Read
  <2> QED BY <1>0, <1>2, <2>1 DEF Handled, DeliverNew, Indices, TypeOK
<1>3. CASE DeliverAgain
  <2>1. PICK m \in again : /\ again' = again \ {m} /\ cursor' = cursor
                           /\ handler'.pc = "busy" /\ handler'.idx = m.idx
    BY <1>3 DEF DeliverAgain, Read
  <2>2. Handled(i)
    BY <1>3, <2>1 DEF Handled, DeliverAgain
  <2> QED BY <1>0, <2>2 DEF Handled, Indices, TypeOK
<1>4. CASE Handle
  <2>1. /\ handler.pc = "busy" /\ handler' = IdleHandler
        /\ again \subseteq again' /\ cursor' = cursor
    BY <1>4 DEF Handle, OnLifecycle, OnEvent, OnFinished, Handling, Ack
  <2>2. Handled(i) \/ handler.idx = i
    BY <2>1 DEF Handled
  <2> QED BY <1>0, <1>4, <2>1, <2>2 DEF Handled, Indices, TypeOK
<1>5. CASE HandleFails
  <2>1. /\ handler.pc = "busy" /\ handler' = IdleHandler
        /\ again' = again \cup Retried /\ cursor' = cursor
        /\ faults' = faults + 1
    BY <1>0, <1>5, FaultType DEF HandleFails
  <2>2. Handled(i) \/ handler.idx = i
    BY <2>1 DEF Handled
  <2>3. i \in 1 .. Len(log)
    BY <1>0, <2>1 DEF Handled, Indices, TypeOK
  <2>4. ASSUME handler.idx = i PROVE handler.tries >= MaxDeliver
    <3>1. Pending(FALSE) \notin again'
      BY <1>0, <2>1, <2>4 DEF Handled
    <3> QED BY <2>1, <3>1 DEF Retried
  <2> QED BY <2>1, <2>2, <2>3, <2>4
<1>6. CASE OrchestratorCrash
  <2>1. PICK next \in cursor .. Len(log) + 1 :
          /\ cursor' = next
          /\ again' = again
              \cup {[idx |-> k, tries |-> 1, slow |-> TRUE] :
                      k \in cursor .. next - 1}
              \cup (IF handler.pc = "busy" THEN {Pending(TRUE)} ELSE {})
    BY <1>6 DEF OrchestratorCrash
  <2>2. i < next /\ \A m \in again' : m.idx # i
    BY <2>1 DEF Handled
  <2>3. i < cursor
    <3>1. CASE i \in cursor .. next - 1
      <4> DEFINE m == [idx |-> i, tries |-> 1, slow |-> TRUE]
      <4>1. m \in again'
        BY <2>1, <3>1
      <4>2. m.idx = i
        OBVIOUS
      <4> HIDE DEF m
      <4> QED BY <2>2, <4>1, <4>2
    <3> QED BY <1>0, <2>1, <2>2, <3>1 DEF TypeOK
  <2>4. ASSUME handler.pc = "busy" PROVE handler.idx # i
    <3>1. Pending(TRUE) \in again'
      BY <2>1, <2>4, Zenon
    <3> QED BY <1>0, <2>2, <2>4, <3>1
  <2>5. again \subseteq again'
    BY <2>1, Zenon
  <2>6. Handled(i)
    BY <2>2, <2>3, <2>4, <2>5 DEF Handled
  <2> QED BY <1>0, <2>3, <2>6 DEF Indices, TypeOK
<1> QED BY <1>1, <1>2, <1>3, <1>4, <1>5, <1>6, ConsumerIdle DEF Consumer

\* Whoever finds a finished message dealt with found it so before, or has just
\* finalized the run.
LEMMA FinishedSteps ==
  ASSUME CloseInv, [Next]_vars, FinishedHandled', faults' < MaxDeliver
  PROVE  FinishedHandled \/ (handler' = IdleHandler /\ OnFinished)
<1>0. TypeInv /\ Budget
  BY DEF CloseInv, LifeInv
<1>1. PICK i \in 1 .. Len(log') : log'[i].kind = "finished" /\ Handled(i)'
  BY DEF FinishedHandled
<1>2. i \in 1 .. Len(log) /\ log[i].kind = "finished"
  BY <1>0, <1>1, HandledSteps, LogGrows
<1>3. CASE Handled(i)
  BY <1>2, <1>3 DEF FinishedHandled
<1>4. CASE /\ handler.pc = "busy" /\ handler.idx = i
           /\ handler' = IdleHandler /\ Handle
  BY <1>2, <1>4 DEF Handle, OnLifecycle, OnEvent, Handling
<1>5. CASE /\ handler.pc = "busy"
           /\ faults' = faults + 1 /\ handler.tries >= MaxDeliver
  <2>1. handler.tries <= faults + 1
    BY <1>0, <1>5 DEF Budget
  <2>2. handler.tries \in Nat /\ faults \in Nat /\ MaxDeliver \in Nat
    BY <1>0, PipelineAssumption DEF TypeInv, TypeOK, Handlers
  <2> QED BY <1>5, <2>1, <2>2
<1> QED BY <1>0, <1>1, <1>3, <1>4, <1>5, HandledSteps

LEMMA CloseNext ==
  ASSUME CloseInv, [Next]_vars, faults' < MaxDeliver
  PROVE  Closed' /\ LateFollower'
<1>0. LifeInv /\ TypeInv /\ TypeOK /\ SeenCommitted
  BY DEF CloseInv, LifeInv, TypeInv
<1>1. Closed /\ LateFollower
  <2>1. faults' \in {faults, faults + 1} /\ faults \in Nat /\ MaxDeliver \in Nat
    BY <1>0, FaultSteps, PipelineAssumption DEF TypeOK
  <2> QED BY <2>1 DEF CloseInv
<1>2. ASSUME FinishedHandled' PROVE row'.state \in TerminalRunStates
  <2>1. CASE FinishedHandled
    <3>1. ~Follows
      BY <1>1, <2>1 DEF LateFollower, Follows
    <3> QED BY <1>0, <1>1, <2>1, <3>1, OverStays DEF Closed
  <2>2. CASE OnFinished
    <3>1. CASE handler.seen.state \in TerminalRunStates
      <4>1. row' = row
        BY <1>0, <2>2, <3>1, FinalizeWrites DEF OnFinished
      <4> QED BY <1>0, <2>2, <3>1, <4>1
              DEF OnFinished, SeenCommitted, Acting
    <3>2. CASE handler.seen.state \notin TerminalRunStates
      BY <1>0, <2>2, <3>2, FinalizeWrites, FinalType DEF OnFinished
    <3> QED BY <3>1, <3>2
  <2> QED BY <1>2, <2>1, <2>2, FinishedSteps
<1>3. ASSUME FinishedHandled', Handling("lifecycle")'
      PROVE  handler'.seen.state \in TerminalRunStates
  <2>1. handler' # IdleHandler
    BY <1>3, IdleType DEF Handling
  <2>2. FinishedHandled
    BY <1>3, <2>1, FinishedSteps
  <2>3. CASE handler' = handler
    BY <1>0, <1>1, <1>3, <2>2, <2>3, HandlingStays DEF LateFollower
  <2>4. CASE Begins
    <3>1. handler'.seen.state = row.state
      BY <1>3, <2>4 DEF Begins, Snapshot, Handling
    <3> QED BY <1>1, <2>2, <3>1 DEF Closed
  <2> QED BY <1>0, <2>1, <2>3, <2>4, HandlerSteps
<1> QED BY <1>2, <1>3 DEF Closed, LateFollower

LEMMA CloseInvariant == Spec => []CloseInv
<1>1. Init => CloseInv
  <2> SUFFICES ASSUME Init PROVE CloseInv
    OBVIOUS
  <2>1. Len(log) = 0 /\ again = {} /\ handler.pc = "idle"
    BY IdleType DEF Init
  <2> QED BY <2>1, LifeInit DEF CloseInv, Budget, Closed, LateFollower,
             FinishedHandled
<1>2. CloseInv /\ [Next]_vars => CloseInv'
  <2> SUFFICES ASSUME CloseInv, [Next]_vars PROVE CloseInv'
    OBVIOUS
  <2>1. LifeInv' /\ Budget'
    BY LifeNext, BudgetNext DEF CloseInv, LifeInv
  <2> QED BY <2>1, CloseNext DEF CloseInv
<1> QED BY <1>1, <1>2, PTL DEF Spec

\* Once a finished message is dealt with, the run is over, and no late
\* lifecycle message, redelivery, crash of the orchestrator or second
\* execution opens it again, as long as there are fewer faults than deliveries.
THEOREM ClosedForGood == Spec => []FinishedCloses
<1>1. CloseInv => FinishedCloses
  BY DEF CloseInv, Closed, FinishedHandled, FinishedCloses
<1> QED BY <1>1, CloseInvariant, PTL

-----------------------------------------------------------------------------
(* Nobody is cancelled who was not asked to be.                            *)

\* No trace of a cancel.
Unasked ==
  /\ row.state # "CANCELLED"
  /\ wire = {} /\ cancelReq.pc # "publish"
  /\ \A n \in Runners : ~exec[n].cancel /\ exec[n].outcome # "cancelled"
  /\ ~Announces("cancelled")
  /\ handler.seen.state # "CANCELLED"

AskedInv == TypeInv /\ (asked = {} => Unasked)

LEMMA AskedRow ==
  ASSUME TypeInv, Unasked, [Next]_vars, asked' = {}
  PROVE  row'.state # "CANCELLED"
<1>1. CASE Submits \/ GivesUp \/ Cancels
  BY <1>1 DEF Submits, GivesUp, Cancels, Row
<1>2. CASE Follows
  BY <1>2 DEF Follows, Unasked, ActiveRunStates
<1>3. CASE Closes
  <2>1. log[handler.idx].outcome # "cancelled"
    BY <1>3, HandlingIndex DEF Closes, Handling, Unasked, Announces
  <2>2. log[handler.idx].outcome \in Outcomes
    BY <1>3, MessageType DEF Closes, Handling, Messages
  <2> QED BY <1>3, <2>1, <2>2 DEF Closes, Final, FinalState, Outcomes
<1> QED BY <1>1, <1>2, <1>3, RowSteps DEF Unasked

\* A cancel is put on the wire by who was asked, or by the handler that finds
\* the run cancelled.
LEMMA AskedWire ==
  ASSUME TypeInv, Unasked, [Next]_vars, asked' = {}
  PROVE  wire' = {} /\ cancelReq'.pc # "publish"
<1>1. CASE Api
  <2>1. ~CancelPublish /\ ~CancelWrite
    BY DEF CancelPublish, CancelWrite, Unasked
  <2>2. CASE CancelRead
    BY <2>2 DEF CancelRead, Unasked
  <2>3. CASE ApiCrash
    BY <2>3, IdleType DEF ApiCrash, Unasked
  <2>4. CASE \/ SubmitInvalid \/ Submit \/ PublishJob \/ PublishJobFails
             \/ FailUnpublished
    BY <2>4 DEF SubmitInvalid, Submit, PublishJob, PublishJobFails,
       FailUnpublished, Unasked
  <2> QED BY <1>1, <2>1, <2>2, <2>3, <2>4 DEF Api
<1>2. CASE \E n \in Runners : Execution(n) \/ Process(n)
  BY ZenonT(40), <1>2 DEF Unasked, Execution, Progress, Accept, Reject, Prepare,
     StartRunning, Toggle, Observe, End, Collect, PublishFails, Pop,
     PublishFinished, ExecStep, Process, Stop, Exit, Crash, Start, OnControl,
     LoseCancel, Heartbeat, apiVars
<1>3. CASE OnLifecycle
  <2>1. ToldToStop(handler.seen.state, log[handler.idx]) = {}
    BY DEF ToldToStop, Unasked
  <2>2. wire' = wire \/ wire' = wire
                          \cup ToldToStop(handler.seen.state, log[handler.idx])
    BY <1>3 DEF OnLifecycle
  <2> QED BY <1>3, <2>1, <2>2 DEF OnLifecycle, Unasked, apiVars
<1>4. CASE \/ DeliverNew \/ DeliverAgain \/ OnEvent \/ OnFinished
           \/ HandleFails \/ Watchdog \/ OrchestratorCrash \/ Clock
  BY <1>4 DEF Unasked, DeliverNew, DeliverAgain, OnEvent, OnFinished,
     HandleFails, Watchdog, WatchdogRead, WatchdogWrite, WatchdogFails,
     OrchestratorCrash, Clock, GoQuiet, QueuedTooLong, PreparingTooLong,
     TrustHeartbeats, HeartbeatStale, apiVars
<1>5. CASE UNCHANGED vars
  BY <1>5 DEF vars, apiVars, Unasked
<1> QED BY <1>1, <1>2, <1>3, <1>4, <1>5 DEF Next, Consumer, Handle

\* An execution is cancelled by a CancelRequest only.
LEMMA AskedExec ==
  ASSUME TypeInv, Unasked, [Next]_vars, NEW k \in Runners
  PROVE  ~exec'[k].cancel /\ exec'[k].outcome # "cancelled"
<1>0. /\ exec \in [Runners -> Executions] /\ attempts \in Nat
      /\ ~exec[k].cancel /\ exec[k].outcome # "cancelled"
  BY DEF TypeInv, TypeOK, Unasked
<1>1. CASE exec' = exec
  BY <1>0, <1>1
<1>2. ASSUME NEW n \in Runners, Execution(n)
      PROVE  ~exec'[k].cancel /\ exec'[k].outcome # "cancelled"
  <2>1. CASE Accept(n)
    BY <1>0, <2>1 DEF Accept, Fresh
  <2>2. CASE Reject(n)
    BY <1>0, <2>2 DEF Reject, Executions
  <2>3. CASE Prepare(n) \/ StartRunning(n) \/ Toggle(n) \/ Collect(n) \/ Pop(n)
    <3>1. PICK pc : Goto(n, pc)
      BY <2>3 DEF Prepare, StartRunning, Toggle, Collect, Pop
    <3> QED BY <1>0, <3>1 DEF Goto, Executions
  <2>4. CASE Observe(n)
    BY <1>0, <2>4 DEF Observe, Executions
  <2>5. ASSUME NEW outcome \in Outcomes, End(n, outcome)
        PROVE  ~exec'[k].cancel /\ exec'[k].outcome # "cancelled"
    <3>1. outcome # "cancelled"
      BY <2>5 DEF End, MayEnd, Unasked
    <3> QED BY <1>0, <2>5, <3>1 DEF End, Executions
  <2>6. CASE PublishFails(n)
    <3>1. exec[n].outcome # "cancelled"
      BY DEF Unasked
    <3> QED BY <1>0, <2>6, <3>1 DEF PublishFails, Executions
  <2>7. CASE PublishFinished(n)
    BY <1>0, <2>7 DEF PublishFinished, IdleExec, Fresh
  <2> QED BY <1>2, <2>1, <2>2, <2>3, <2>4, <2>5, <2>6, <2>7
          DEF Execution, Progress
<1>3. ASSUME NEW n \in Runners, Crash(n) \/ OnControl(n)
      PROVE  ~exec'[k].cancel /\ exec'[k].outcome # "cancelled"
  BY <1>0, <1>3 DEF Crash, IdleExec, Fresh, OnControl, Unasked
<1> QED BY <1>1, <1>2, <1>3 DEF Next, Api, SubmitInvalid, Submit, PublishJob,
     PublishJobFails, FailUnpublished, ApiCrash, CancelRead, CancelWrite,
     CancelPublish, Process, Stop, Exit, Start, LoseCancel, Heartbeat,
     Consumer, DeliverNew, DeliverAgain, Handle, OnLifecycle, OnEvent,
     OnFinished, HandleFails, Watchdog, WatchdogRead, WatchdogWrite,
     WatchdogFails, OrchestratorCrash, Clock, GoQuiet, QueuedTooLong,
     PreparingTooLong, TrustHeartbeats, HeartbeatStale, vars, runnerVars

LEMMA AskedLog ==
  ASSUME TypeInv, Unasked, [Next]_vars
  PROVE  /\ ~Announces("cancelled")'
         /\ handler'.seen.state # "CANCELLED"
<1>0. log \in Seq(Messages)
  BY DEF TypeInv, TypeOK
<1>1. ASSUME NEW i \in 1 .. Len(log'), log'[i].kind = "finished"
      PROVE  log'[i].outcome # "cancelled"
  <2>1. CASE i <= Len(log)
    BY <1>0, <1>1, <2>1, LogGrows DEF Unasked, Announces
  <2>2. CASE i = Len(log) + 1
    <3>1. PICK n \in Runners, message \in Messages : Publishes(n, message)
      BY <1>0, <2>2, LogSteps
    <3>2. log'[i] = message
      BY <1>0, <2>2, <3>1 DEF Publishes
    <3> QED BY <1>1, <3>1, <3>2 DEF Publishes, Unasked
  <2> QED BY <2>1, <2>2, LogGrows
<1>2. handler'.seen.state # "CANCELLED"
  <2>1. CASE handler' = handler
    BY <2>1 DEF Unasked
  <2>2. CASE handler' = IdleHandler
    BY <2>2 DEF IdleHandler, NoSnapshot
  <2>3. CASE Begins
    BY <2>3 DEF Begins, Snapshot, NoSnapshot, Unasked
  <2> QED BY <2>1, <2>2, <2>3, HandlerSteps
<1> QED BY <1>1, <1>2 DEF Announces

\* Who has asked has asked.
LEMMA AskedStays ==
  ASSUME [Next]_vars
  PROVE  asked \subseteq asked'
BY DEF Next, Api, SubmitInvalid, Submit, PublishJob, PublishJobFails,
     FailUnpublished, ApiCrash, CancelRead, CancelWrite, CancelPublish,
     Execution, Progress, Accept, Reject, Prepare, StartRunning, Toggle,
     Observe, End, Collect, PublishFails, Pop, PublishFinished, ExecStep,
     Process, Stop, Exit, Crash, Start, OnControl, LoseCancel, Heartbeat,
     Consumer, DeliverNew, DeliverAgain, Handle, OnLifecycle, OnEvent,
     OnFinished, HandleFails, Watchdog, WatchdogRead, WatchdogWrite,
     WatchdogFails, OrchestratorCrash, Clock, GoQuiet, QueuedTooLong,
     PreparingTooLong, TrustHeartbeats, HeartbeatStale, vars

\* A run ends CANCELLED only if a user asked for it, or the watchdog told its
\* runner to give up.
THEOREM Asked == Spec => []CancelledIsAsked
<1>1. Init => AskedInv
  <2> SUFFICES ASSUME Init PROVE AskedInv
    OBVIOUS
  <2>1. /\ Len(log) = 0 /\ handler.seen.state = "ABSENT"
        /\ \A n \in Runners : ~exec[n].cancel /\ exec[n].outcome = "failed"
    BY DEF Init, IdleHandler, NoSnapshot, IdleExec, Fresh
  <2> QED BY <2>1, TypeInit, IdleType
          DEF Init, AskedInv, Unasked, Announces, Row
<1>2. AskedInv /\ [Next]_vars => AskedInv'
  <2> SUFFICES ASSUME AskedInv, [Next]_vars PROVE AskedInv'
    OBVIOUS
  <2>1. TypeInv /\ TypeInv'
    BY TypeNext DEF AskedInv
  <2>2. ASSUME asked' = {} PROVE Unasked'
    <3>1. Unasked
      BY <2>2, AskedStays DEF AskedInv
    <3> QED BY <2>1, <2>2, <3>1, AskedRow, AskedWire, AskedExec, AskedLog
            DEF Unasked
  <2> QED BY <2>1, <2>2 DEF AskedInv
<1>3. AskedInv => CancelledIsAsked
  BY DEF AskedInv, Unasked, CancelledIsAsked
<1> QED BY <1>1, <1>2, <1>3, PTL DEF Spec

-----------------------------------------------------------------------------
(* The watchdog spares a runner that executes the run. *)

\* A runner that is down executes nothing.
DownIdle == \A n \in Runners : runner[n] = "down" => exec[n].pc = "idle"

\* Before the first execution nothing is published; while there has been one
\* only, its runner is the only one that is busy or has announced a state.
Alone ==
  /\ attempts = 0 => Len(log) = 0 /\ \A n \in Runners : exec[n].pc = "idle"
  /\ attempts = 1 =>
       \A n \in Runners :
         exec[n].pc # "idle" =>
           /\ \A m \in Runners : exec[m].pc # "idle" => m = n
           /\ \A i \in 1 .. Len(log) :
                log[i].kind = "lifecycle" => log[i].from = n

\* The row has a runner when the run is under way, and it is one that announced
\* a state; a handler that has read a runner has not made the row lose it.
Owned ==
  /\ row.state \in ActiveRunStates => row.runner # NoRunner
  /\ row.runner # NoRunner =>
       \E i \in 1 .. Len(log) :
         log[i].kind = "lifecycle" /\ log[i].from = row.runner
  /\ Handling("lifecycle") /\ handler.seen.runner # NoRunner =>
       row.runner # NoRunner

\* When the watchdog would suspect the runner of the first execution, it has
\* heard of it since it is up.
HeardOf ==
  late.quiet =>
    /\ attempts # 0
    /\ trusted /\ attempts = 1 =>
         \A n \in Runners :
           runner[n] = "up" /\ Registered(n) =>
             hb[n].age = "fresh" /\ hb[n].reported = "in"

SpareInv == LifeInv /\ DownIdle /\ Alone /\ Owned /\ HeardOf

\* Executions begin one by one, and a run that a runner does not have it gets
\* by accepting it.
LEMMA ExecSteps ==
  ASSUME TypeInv, [Next]_vars
  PROVE  \/ \E n \in Runners : Accept(n)
         \/ /\ attempts' = attempts
            /\ \A k \in Runners :
                 \/ exec'[k].pc = "idle"
                 \/ exec[k].pc # "idle" /\ (Registered(k)' => Registered(k))
<1>0. exec \in [Runners -> Executions] /\ attempts \in Nat
  BY DEF TypeInv, TypeOK
<1> DEFINE Goes(k) == \/ exec'[k].pc = "idle"
                      \/ exec[k].pc # "idle" /\ (Registered(k)' => Registered(k))
<1>1. CASE UNCHANGED <<exec, attempts>>
  BY <1>1 DEF Registered
<1>2. ASSUME NEW n \in Runners, Execution(n), ~Accept(n), NEW k \in Runners
      PROVE  attempts' = attempts /\ Goes(k)
  <2>0. exec[k] \in Executions /\ exec[n] \in Executions
    BY <1>0
  <2>1. CASE Reject(n)
    BY <1>0, <2>1 DEF Reject, ExecStep, Executions, Registered
  <2>2. CASE Prepare(n) \/ StartRunning(n) \/ Toggle(n) \/ Collect(n) \/ Pop(n)
    <3>1. PICK pc : Goto(n, pc) /\ exec[n].pc # "idle"
                    /\ exec[n].pc # "popped"
      BY <2>2 DEF Prepare, StartRunning, Toggle, Collect, Pop
    <3> QED BY <1>0, <2>2, <3>1 DEF Goto, Executions, ExecPhases, Registered,
               Prepare, StartRunning, Toggle, Collect, Pop, ExecStep
  <2>4. CASE Observe(n)
    BY <1>0, <2>4 DEF Observe, ExecStep, Executions, Registered
  <2>5. ASSUME NEW outcome \in Outcomes, End(n, outcome)
        PROVE  attempts' = attempts /\ Goes(k)
    BY <1>0, <2>5 DEF End, MayEnd, ExecStep, Executions, Registered
  <2>6. CASE PublishFails(n)
    BY <1>0, <2>6 DEF PublishFails, ExecStep, Executions, Registered
  <2>7. CASE PublishFinished(n)
    BY <1>0, <2>7 DEF PublishFinished, ExecStep, IdleExec, Fresh, Registered
  <2> QED BY <1>2, <2>1, <2>2, <2>4, <2>5, <2>6, <2>7
          DEF Execution, Progress
<1>3. ASSUME NEW n \in Runners, Crash(n) \/ OnControl(n), NEW k \in Runners
      PROVE  attempts' = attempts /\ Goes(k)
  BY <1>0, <1>3 DEF Crash, IdleExec, Fresh, OnControl, Executions, Registered
<1>4. ASSUME NEW n \in Runners, Process(n), ~Crash(n), ~OnControl(n)
      PROVE  UNCHANGED <<exec, attempts>>
  BY <1>4 DEF Process, Stop, Exit, Start, LoseCancel, Heartbeat, runnerVars
<1>5. Api \/ Consumer \/ Watchdog \/ OrchestratorCrash \/ Clock \/ UNCHANGED vars
        => UNCHANGED <<exec, attempts>>
  BY DEF Api, SubmitInvalid, Submit, PublishJob,
     PublishJobFails, FailUnpublished, ApiCrash, CancelRead, CancelWrite,
     CancelPublish, Consumer, DeliverNew, DeliverAgain, Handle, OnLifecycle,
     OnEvent, OnFinished, HandleFails, Watchdog, WatchdogRead, WatchdogWrite,
     WatchdogFails, OrchestratorCrash, Clock, GoQuiet, QueuedTooLong,
     PreparingTooLong, TrustHeartbeats, HeartbeatStale, vars, runnerVars
<1> QED BY <1>1, <1>2, <1>3, <1>4, <1>5 DEF Next

\* Whatever writes the row starts the quiet clock again.
LEMMA TouchQuiet ==
  /\ Touch => late'.quiet = FALSE
  /\ \A seen, target : Transition(seen, target) => late'.quiet = FALSE
  /\ \A seen, outcome :
       Finalize(seen, outcome) => late'.quiet = FALSE \/ late' = late
<1>1. ASSUME Touch PROVE late'.quiet = FALSE
  <2>1. PICK queued :
          late' = [quiet |-> FALSE, preparing |-> FALSE, queued |-> queued]
    BY <1>1, Zenon DEF Touch
  <2> QED BY <2>1
<1>2. ASSUME NEW seen, NEW target, Transition(seen, target)
      PROVE  late'.quiet = FALSE
  BY <1>1, <1>2 DEF Transition, WriteState
<1>3. ASSUME NEW seen, NEW outcome, Finalize(seen, outcome)
      PROVE  late'.quiet = FALSE \/ late' = late
  BY <1>1, <1>3, Zenon DEF Finalize, NoWrite
<1> QED BY <1>1, <1>2, <1>3

\* What a step may do to the clocks, to the runners, and to what the orchestrator
\* knows of them.
LEMMA QuietSteps ==
  ASSUME TypeInv, [Next]_vars, late'.quiet
  PROVE  late.quiet \/ (row.state \in ActiveRunStates /\ (GoQuiet \/ OrchestratorCrash))
<1>0. late \in Clocks
  BY DEF TypeInv, TypeOK
<1> USE DEF clockVars, runnerVars, dbVars
<1>1. CASE Api
  BY <1>1, TouchQuiet DEF Api, SubmitInvalid, Submit, PublishJob,
     PublishJobFails, FailUnpublished, ApiCrash, CancelRead, CancelWrite,
     CancelPublish, NoWrite
<1>2. ASSUME NEW m \in Runners, Execution(m) \/ Process(m) PROVE late' = late
  BY <1>2 DEF Execution, Progress, Accept, Reject, Prepare, StartRunning,
     Toggle, Observe, End, Collect, PublishFails, Pop, PublishFinished,
     ExecStep, Process, Stop, Exit, Crash, Start, OnControl, LoseCancel,
     Heartbeat
<1>3. CASE Consumer
  BY <1>3, TouchQuiet DEF Consumer, DeliverNew, DeliverAgain, HandleFails,
     Handle, OnLifecycle, OnEvent, OnFinished, NoWrite
<1>4. CASE Watchdog
  BY <1>4, TouchQuiet DEF Watchdog, WatchdogRead, WatchdogWrite, WatchdogFails
<1>5. CASE OrchestratorCrash
  BY <1>0, <1>5 DEF OrchestratorCrash, Clocks
<1>6. CASE Clock
  BY <1>0, <1>6 DEF Clocks, Clock, GoQuiet, QueuedTooLong, PreparingTooLong,
     TrustHeartbeats, HeartbeatStale
<1>7. CASE UNCHANGED vars
  BY <1>7 DEF vars
<1> QED BY <1>1, <1>2, <1>3, <1>4, <1>5, <1>6, <1>7 DEF Next

LEMMA ClockSteps ==
  ASSUME TypeInv, [Next]_vars, NEW n \in Runners
  PROVE  /\ trusted' => trusted \/ TrustHeartbeats
         /\ \/ hb'[n] = hb[n] \/ OrchestratorCrash
            \/ Heartbeat(n) \/ HeartbeatStale(n)
         /\ runner'[n] = "up" => runner[n] = "up" \/ Start(n)
<1>0. /\ runner \in [Runners -> {"up", "draining", "down"}]
      /\ hb \in [Runners -> Heartbeats]
  BY DEF TypeInv, TypeOK
<1> USE DEF clockVars, runnerVars
<1>1. ASSUME NEW m \in Runners, Execution(m)
      PROVE  UNCHANGED <<trusted, hb, runner>>
  BY <1>1 DEF Execution, Progress, Accept, Reject, Prepare, StartRunning,
     Toggle, Observe, End, Collect, PublishFails, Pop, PublishFinished,
     ExecStep
<1>2. ASSUME NEW m \in Runners, Process(m)
      PROVE  /\ UNCHANGED trusted
             /\ hb'[n] = hb[n] \/ Heartbeat(n)
             /\ runner'[n] = "up" => runner[n] = "up" \/ Start(n)
  <2>1. CASE Heartbeat(m)
    BY <1>0, <2>1 DEF Heartbeat
  <2>2. CASE Start(m)
    BY <1>0, <2>2 DEF Start
  <2>3. CASE Stop(m) \/ Exit(m) \/ Crash(m) \/ OnControl(m) \/ LoseCancel(m)
    BY <1>0, <2>3 DEF Stop, Exit, Crash, OnControl, LoseCancel
  <2> QED BY <1>2, <2>1, <2>2, <2>3 DEF Process
<1>3. Api \/ Consumer \/ Watchdog \/ UNCHANGED vars
        => UNCHANGED <<trusted, hb, runner>>
  BY DEF Api, SubmitInvalid, Submit, PublishJob, PublishJobFails,
     FailUnpublished, ApiCrash, CancelRead, CancelWrite, CancelPublish,
     Consumer, DeliverNew, DeliverAgain, Handle, OnLifecycle, OnEvent,
     OnFinished, HandleFails, Watchdog, WatchdogRead, WatchdogWrite,
     WatchdogFails, vars
<1>4. CASE OrchestratorCrash
  BY <1>4 DEF OrchestratorCrash
<1>5. CASE Clock
  <2>1. CASE GoQuiet \/ QueuedTooLong \/ PreparingTooLong \/ TrustHeartbeats
    BY <2>1 DEF GoQuiet, QueuedTooLong, PreparingTooLong, TrustHeartbeats
  <2>2. ASSUME NEW m \in Runners, HeartbeatStale(m)
        PROVE  /\ UNCHANGED <<trusted, runner>>
               /\ hb'[n] = hb[n] \/ HeartbeatStale(n)
    BY <1>0, <2>2 DEF HeartbeatStale
  <2> QED BY <1>5, <2>1, <2>2 DEF Clock
<1> QED BY <1>1, <1>2, <1>3, <1>4, <1>5 DEF Next

\* The watchdog gives up on a runner for what it has just read.
LEMMA VerdictSteps ==
  ASSUME [Next]_vars, watchdog.why = "none",
         watchdog'.why \in {"unknown", "stale", "dropped"}
  PROVE  WatchdogRead /\ watchdog'.why = Verdict
<1>1. watchdog' = watchdog \/ watchdog' = IdleWatchdog \/ WatchdogRead
  BY DEF Next, Api, SubmitInvalid, Submit, PublishJob, PublishJobFails,
     FailUnpublished, ApiCrash, CancelRead, CancelWrite, CancelPublish,
     Execution, Progress, Accept, Reject, Prepare, StartRunning, Toggle,
     Observe, End, Collect, PublishFails, Pop, PublishFinished, ExecStep,
     Process, Stop, Exit, Crash, Start, OnControl, LoseCancel, Heartbeat,
     Consumer, DeliverNew, DeliverAgain, Handle, OnLifecycle, OnEvent,
     OnFinished, HandleFails, Watchdog, WatchdogRead, WatchdogWrite,
     WatchdogFails, OrchestratorCrash, Clock, GoQuiet, QueuedTooLong,
     PreparingTooLong, TrustHeartbeats, HeartbeatStale, vars
<1>2. WatchdogRead
  BY <1>1, IdleType
<1> QED BY <1>2 DEF WatchdogRead

\* Every part of the invariant is kept.
LEMMA DownIdleNext ==
  ASSUME TypeInv, DownIdle, [Next]_vars
  PROVE  DownIdle'
<1> SUFFICES ASSUME NEW n \in Runners, runner'[n] = "down"
             PROVE  exec'[n].pc = "idle"
  BY DEF DownIdle
<1>0. /\ runner \in [Runners -> {"up", "draining", "down"}]
      /\ exec \in [Runners -> Executions]
  BY DEF TypeInv, TypeOK
<1>1. CASE runner[n] = "down"
  <2>1. exec[n].pc = "idle" /\ ~Accept(n)
    BY <1>1 DEF DownIdle, Accept
  <2>2. ASSUME NEW m \in Runners, Accept(m) PROVE exec'[n].pc = "idle"
    BY <1>0, <2>1, <2>2 DEF Accept
  <2> QED BY <2>1, <2>2, ExecSteps
<1>2. CASE runner[n] # "down"
  <2>1. \/ Exit(n) \/ Crash(n)
    <3>1. ASSUME NEW m \in Runners, Process(m) PROVE Exit(n) \/ Crash(n)
      BY <1>0, <1>2, <3>1 DEF Process, Stop, Exit, Crash, Start, OnControl,
         LoseCancel, Heartbeat, runnerVars
    <3>2. ASSUME NEW m \in Runners, Execution(m) PROVE FALSE
      BY <1>2, <3>2 DEF Execution, Progress, Accept, Reject, Prepare,
         StartRunning, Toggle, Observe, End, Collect, PublishFails, Pop,
         PublishFinished, ExecStep
    <3>3. Api \/ Consumer \/ Watchdog \/ OrchestratorCrash \/ Clock
            \/ UNCHANGED vars => UNCHANGED runner
      BY DEF Api, SubmitInvalid, Submit, PublishJob, PublishJobFails,
         FailUnpublished, ApiCrash, CancelRead, CancelWrite, CancelPublish,
         Consumer, DeliverNew, DeliverAgain, Handle, OnLifecycle, OnEvent,
         OnFinished, HandleFails, Watchdog, WatchdogRead, WatchdogWrite,
         WatchdogFails, OrchestratorCrash, Clock, GoQuiet, QueuedTooLong,
         PreparingTooLong, TrustHeartbeats, HeartbeatStale, vars, runnerVars
    <3> QED BY <1>2, <3>1, <3>2, <3>3 DEF Next
  <2> QED BY <1>0, <2>1 DEF Exit, Crash, IdleExec, Fresh
<1> QED BY <1>1, <1>2

LEMMA AloneNext ==
  ASSUME TypeInv, Alone, [Next]_vars
  PROVE  Alone'
<1>0. /\ log \in Seq(Messages) /\ attempts \in Nat
      /\ exec \in [Runners -> Executions]
  BY DEF TypeInv, TypeOK
<1>1. ASSUME NEW n \in Runners, Accept(n) PROVE Alone'
  <2>1. log' = log /\ attempts' = attempts + 1
    BY <1>1 DEF Accept
  <2>2. \A m \in Runners : m # n => exec'[m] = exec[m]
    BY <1>0, <1>1 DEF Accept
  <2>3. attempts' # 0
    BY <1>0, <2>1
  <2>4. ASSUME attempts' = 1
        PROVE  Len(log') = 0 /\ \A m \in Runners : exec'[m].pc # "idle" => m = n
    BY <1>0, <2>1, <2>2, <2>4 DEF Alone
  <2> QED BY <2>3, <2>4 DEF Alone
<1>2. ASSUME attempts' = attempts,
             \A k \in Runners : exec'[k].pc = "idle" \/ exec[k].pc # "idle"
      PROVE  Alone'
  <2>1. ASSUME attempts = 0
        PROVE  Len(log') = 0 /\ \A n \in Runners : exec'[n].pc = "idle"
    <3>1. log' = log
      BY <2>1, LogSteps DEF Alone, Publishes
    <3> QED BY <1>2, <2>1, <3>1 DEF Alone
  <2>2. ASSUME attempts = 1, NEW n \in Runners, exec'[n].pc # "idle"
        PROVE  /\ \A m \in Runners : exec'[m].pc # "idle" => m = n
               /\ \A i \in 1 .. Len(log') :
                    log'[i].kind = "lifecycle" => log'[i].from = n
    <3>1. exec[n].pc # "idle"
      BY <1>2, <2>2
    <3>2. \A m \in Runners : exec[m].pc # "idle" => m = n
      BY <2>2, <3>1 DEF Alone
    <3>3. ASSUME NEW i \in 1 .. Len(log'), log'[i].kind = "lifecycle"
          PROVE  log'[i].from = n
      <4>1. CASE i <= Len(log)
        BY <1>0, <2>2, <3>1, <3>3, <4>1, LogGrows DEF Alone
      <4>2. CASE i = Len(log) + 1
        <5>1. PICK m \in Runners, message \in Messages : Publishes(m, message)
          BY <1>0, <4>2, LogSteps
        <5>2. log'[i] = message /\ m = n
          BY <1>0, <3>2, <4>2, <5>1 DEF Publishes
        <5> QED BY <3>3, <5>1, <5>2 DEF Publishes
      <4> QED BY <4>1, <4>2, LogGrows
    <3> QED BY <1>2, <3>2, <3>3
  <2> QED BY <1>2, <2>1, <2>2 DEF Alone
<1> QED BY <1>1, <1>2, ExecSteps

\* Who writes a final state alone, and who finalizes: the runner of the row stays.
Ends == \E seen, state : state \in {"FAILED", "CANCELLED"} /\ Transition(seen, state)

Finalizes == \E seen, outcome : Finalize(seen, outcome)

\* What a step does to the runner of the row.
Hires ==
  \/ row'.runner = row.runner
  \/ /\ request = "none" /\ row'.runner = NoRunner
     /\ row'.state \notin ActiveRunStates
  \/ /\ Handling("lifecycle") /\ row'.runner = log[handler.idx].from
     /\ row'.runner \in Runners

\* A step that leaves the run under way leaves it its runner, or follows a message.
LEMMA HireSteps ==
  ASSUME LifeInv, [Next]_vars
  PROVE  /\ Hires
         /\ row'.state \in ActiveRunStates =>
              \/ row.state \in ActiveRunStates /\ row'.runner = row.runner
              \/ /\ Handling("lifecycle")
                 /\ \/ row'.runner = log[handler.idx].from
                    \/ /\ handler.seen.runner = log[handler.idx].from
                       /\ row'.runner = row.runner
<1>0. TypeInv /\ TypeOK /\ row \in Rows
  BY DEF LifeInv, TypeInv, TypeOK
<1> USE DEF dbVars
<1>1. CASE row' = row
  BY <1>1 DEF Hires
<1>2. CASE SubmitInvalid \/ Submit
  BY <1>2 DEF SubmitInvalid, Submit, Row, Hires, ActiveRunStates
<1>3. ASSUME NEW state \in {"FAILED", "CANCELLED"}, NEW seen, Transition(seen, state)
      PROVE  row'.runner = row.runner /\ row'.state \notin ActiveRunStates
  BY <1>0, <1>3 DEF Transition, WriteState, Rows, ActiveRunStates
<1>4. ASSUME NEW seen, NEW outcome, Finalize(seen, outcome)
      PROVE  \/ row' = row
             \/ row'.runner = row.runner /\ row'.state \notin ActiveRunStates
  <2>1. CASE seen \in TerminalRunStates
    BY <1>4, <2>1 DEF Finalize, NothingToFinalize, NoWrite
  <2>2. CASE seen \notin TerminalRunStates
    <3>1. PICK analysed \in BOOLEAN :
            row' = [row EXCEPT
                      !.state = Final(outcome, analysed),
                      !.analysed = IF analysed THEN FinalState(outcome) ELSE @]
      BY <1>4, <2>2 DEF Finalize, NothingToFinalize
    <3>2. Final(outcome, analysed) \in TerminalRunStates
      BY FinalType
    <3>3. row'.runner = row.runner /\ row'.state = Final(outcome, analysed)
      BY <1>0, <3>1 DEF Rows
    <3> QED BY <3>2, <3>3 DEF TerminalRunStates, ActiveRunStates
  <2> QED BY <2>1, <2>2
<1>5. CASE OnLifecycle
  <2>1. Handling("lifecycle")
    BY <1>5 DEF OnLifecycle
  <2>2. log[handler.idx] \in Messages /\ log[handler.idx].kind = "lifecycle"
    BY <1>0, <2>1, MessageType DEF Handling
  <2>3. log[handler.idx].from \in Runners
    BY <2>2 DEF Messages
  <2>4. row' = row \/ \E state : row' = WithRunner(state, log[handler.idx])
    BY <1>5 DEF OnLifecycle, NoWrite
  <2>5. ASSUME NEW state, row' = WithRunner(state, log[handler.idx])
        PROVE  row'.runner = IF handler.seen.runner = log[handler.idx].from
                             THEN row.runner ELSE log[handler.idx].from
    BY <1>0, <2>5 DEF WithRunner, Rows
  <2> QED BY <1>1, <2>1, <2>3, <2>4, <2>5 DEF Hires
<1>6. row' = row \/ SubmitInvalid \/ Submit \/ OnLifecycle \/ Ends \/ Finalizes
  <2>1. ASSUME NEW n \in Runners, Execution(n) \/ Process(n) PROVE row' = row
    BY <2>1 DEF Execution, Progress, Accept, Reject, Prepare, StartRunning,
       Toggle, Observe, End, Collect, PublishFails, Pop, PublishFinished,
       ExecStep, Process, Stop, Exit, Crash, Start, OnControl, LoseCancel,
       Heartbeat
  <2>2. Api => row' = row \/ SubmitInvalid \/ Submit \/ Ends
    BY DEF Ends, Api, PublishJob, PublishJobFails, FailUnpublished,
       ApiCrash, CancelRead, CancelWrite, CancelPublish, NoWrite
  <2>3. Consumer => row' = row \/ OnLifecycle \/ Finalizes
    BY DEF Finalizes, Consumer, DeliverNew, DeliverAgain, HandleFails, Handle, OnEvent,
       OnFinished, NoWrite
  <2>4. Watchdog => row' = row \/ Ends \/ Finalizes
    BY DEF Ends, Finalizes, Watchdog, WatchdogRead, WatchdogWrite, WatchdogFails
  <2>5. OrchestratorCrash \/ Clock \/ UNCHANGED vars => row' = row
    BY DEF OrchestratorCrash, Clock, GoQuiet, QueuedTooLong, PreparingTooLong,
       TrustHeartbeats, HeartbeatStale, vars
  <2> QED BY <2>1, <2>2, <2>3, <2>4, <2>5 DEF Next
<1> QED BY <1>1, <1>2, <1>3, <1>4, <1>5, <1>6 DEF Hires, Ends, Finalizes

LEMMA OwnedNext ==
  ASSUME LifeInv, Owned, [Next]_vars
  PROVE  Owned'
<1>0. /\ TypeInv /\ log \in Seq(Messages) /\ row \in Rows /\ NoRunner \notin Runners
  BY PipelineAssumption DEF LifeInv, TypeInv, TypeOK
<1>1. Handling("lifecycle") =>
        /\ handler.idx \in 1 .. Len(log) /\ log[handler.idx].kind = "lifecycle"
        /\ log[handler.idx].from \in Runners
  BY <1>0, HandlingIndex, MessageType DEF Handling, Messages
<1>2. row'.state \in ActiveRunStates => row'.runner # NoRunner
  BY <1>0, <1>1, HireSteps DEF Owned
<1>3. ASSUME row'.runner # NoRunner
      PROVE  \E i \in 1 .. Len(log') :
               log'[i].kind = "lifecycle" /\ log'[i].from = row'.runner
  <2>1. \E i \in 1 .. Len(log) : log[i].kind = "lifecycle" /\ log[i].from = row'.runner
    BY <1>1, <1>3, HireSteps DEF Owned, Hires
  <2> QED BY <1>0, <2>1, LogGrows
<1>4. ASSUME Handling("lifecycle")', handler'.seen.runner # NoRunner
      PROVE  row'.runner # NoRunner
  <2>1. CASE handler' = handler
    <3>1. Handling("lifecycle") /\ row.runner # NoRunner
      BY <1>0, <1>4, <2>1, HandlingStays DEF Owned
    <3>2. request # "none"
      BY <1>1, <3>1, LogHasRun
    <3> QED BY <1>0, <1>1, <3>1, <3>2, HireSteps DEF Hires
  <2>2. CASE handler' = IdleHandler
    BY <1>4, <2>2, IdleType DEF Handling
  <2>3. CASE Begins
    <3>1. log'[handler'.idx].kind = log[handler'.idx].kind /\ row' = row
      BY <2>3 DEF Begins
    <3> QED BY <1>4, <2>3, <3>1 DEF Begins, Snapshot, Handling
  <2> QED BY <1>0, <2>1, <2>2, <2>3, HandlerSteps
<1> QED BY <1>2, <1>3, <1>4 DEF Owned

\* With the delays of the code: the quiet clock runs out and the grace period ends
\* only when the heartbeats have caught up, and none goes stale of a runner that is up.
LEMMA HeardOfNext ==
  ASSUME Timely, SpareInv, [Next]_vars
  PROVE  HeardOf'
<1>0. /\ TypeInv /\ LifeInv /\ hb \in [Runners -> Heartbeats] /\ attempts \in Nat
  BY DEF SpareInv, LifeInv, TypeInv, TypeOK
<1> SUFFICES ASSUME late'.quiet PROVE HeardOf'
  BY DEF HeardOf
<1>1. ASSUME NEW n \in Runners, Accept(n) PROVE attempts' # 0 /\ attempts' # 1
  <2>1. late' = late /\ attempts' = attempts + 1
    BY <1>1 DEF Accept, clockVars
  <2> QED BY <1>0, <2>1 DEF SpareInv, HeardOf
<1>2. CASE /\ attempts' = attempts
           /\ \A k \in Runners :
                 \/ exec'[k].pc = "idle"
                 \/ exec[k].pc # "idle" /\ (Registered(k)' => Registered(k))
  <2>1. attempts # 0
    <3>1. CASE late.quiet
      BY <3>1 DEF SpareInv, HeardOf
    <3>2. CASE row.state \in ActiveRunStates
      BY <1>0, <3>2 DEF SpareInv, Owned, Alone
    <3> QED BY <1>0, <3>1, <3>2, QuietSteps
  <2>2. ASSUME trusted', attempts = 1, NEW n \in Runners,
               runner'[n] = "up", Registered(n)'
        PROVE  hb'[n].age = "fresh" /\ hb'[n].reported = "in"
    <3>1. Registered(n) /\ exec[n].pc # "idle"
      BY <1>2, <2>2 DEF Registered
    <3>2. runner[n] = "up"
      <4>1. ~Start(n)
        BY <3>1 DEF SpareInv, DownIdle, Start
      <4> QED BY <1>0, <2>2, <4>1, ClockSteps
    <3>3. CaughtUp => hb[n].age = "fresh" /\ hb[n].reported = "in"
      <4>1. Heard(n) = [age |-> "fresh", reported |-> "in"]
        BY <3>1, Zenon DEF Heard
      <4> QED BY <3>2, <4>1 DEF CaughtUp
    <3>4. CASE GoQuiet \/ TrustHeartbeats
      BY <3>3, <3>4 DEF GoQuiet, TrustHeartbeats
    <3>5. ~OrchestratorCrash
      BY <2>2 DEF OrchestratorCrash
    <3>6. CASE Heartbeat(n)
      BY <1>0, <3>1, <3>6 DEF Heartbeat, Heard
    <3>7. ~HeartbeatStale(n)
      BY <3>2 DEF HeartbeatStale
    <3>8. CASE late.quiet /\ trusted /\ hb'[n] = hb[n]
      BY <2>2, <3>1, <3>2, <3>8 DEF SpareInv, HeardOf
    <3> QED BY <1>0, <2>2, <3>4, <3>5, <3>6, <3>7, <3>8, ClockSteps, QuietSteps
  <2> QED BY <1>2, <2>1, <2>2 DEF HeardOf
<1> QED BY <1>0, <1>1, <1>2, ExecSteps DEF HeardOf

LEMMA SpareNext == ASSUME Timely PROVE SpareInv /\ [Next]_vars => SpareInv'
BY LifeNext, DownIdleNext, AloneNext, OwnedNext, HeardOfNext DEF SpareInv, LifeInv

LEMMA SpareInit == Init => SpareInv
<1> SUFFICES ASSUME Init PROVE SpareInv
  OBVIOUS
<1>1. /\ Len(log) = 0 /\ row.state = "ABSENT" /\ row.runner = NoRunner
      /\ handler.pc = "idle" /\ late.quiet = FALSE
      /\ \A n \in Runners : exec[n].pc = "idle"
  BY IdleType DEF Init, Row, IdleExec, Fresh
<1> QED BY <1>1, LifeInit DEF SpareInv, DownIdle, Alone, Owned, HeardOf, Handling,
          ActiveRunStates

\* With the delays of the code (Timely), whatever faults: the watchdog never gives up
\* on the runner of a run while a runner that is up executes it, unless the job was
\* delivered twice.
THEOREM WorkingSpared ==
  ASSUME Timely
  PROVE  Spec => SparesTheWorking
<1> DEFINE Spared ==
      watchdog'.why \in {"unknown", "stale", "dropped"} /\ attempts = 1
        => \/ watchdog.why # "none"
           \/ \A n \in Runners : runner[n] = "up" => ~Registered(n)
<1>1. SpareInv /\ [Next]_vars => [Spared]_vars
  <2> SUFFICES ASSUME SpareInv, [Next]_vars, watchdog.why = "none", attempts = 1,
                      watchdog'.why \in {"unknown", "stale", "dropped"},
                      NEW n \in Runners, runner[n] = "up", Registered(n)
               PROVE  FALSE
    OBVIOUS
  <2>1. WatchdogRead /\ watchdog'.why = Verdict
    BY VerdictSteps
  <2>2. row.state \in ActiveRunStates /\ late.quiet /\ trusted
    BY <2>1 DEF Verdict, Suspect, Known, Dropped
  <2>3. row.runner = n
    BY <2>2 DEF SpareInv, Owned, Alone, Registered
  <2>4. hb[n].age = "fresh" /\ hb[n].reported = "in"
    BY <2>2 DEF SpareInv, HeardOf
  <2> QED BY <2>1, <2>2, <2>3, <2>4, PipelineAssumption DEF Verdict, Known, Dropped
<1>2. Spec => []SpareInv
  BY SpareInit, SpareNext, PTL DEF Spec
<1> QED BY <1>1, <1>2, PTL DEF Spec, SparesTheWorking
=============================================================================
