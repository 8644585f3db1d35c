------------------------------- MODULE LiveRun -------------------------------
(***************************************************************************)
(* One run watched by one browser: the runner's messages, the API's hub    *)
(* and stream endpoint (state.py, routers/stream.py), the WebSocket, the   *)
(* hook and the store of the web application (use-run-stream.ts,           *)
(* live-run.ts).                                                           *)
(*                                                                         *)
(* The messages of the run are the elements of Script, in the order they   *)
(* are published.  Message i is also the moment i of the run.  The consumer*)
(* of the orchestrator is handed them in that order.  One whose handling    *)
(* raises is set aside while the others go on, and stored later or, after  *)
(* its last delivery, never (service.py:112).                              *)
(*                                                                         *)
(* A connection the browser has lost is forgotten on both sides: its       *)
(* handlers are never called again, and the endpoint ends when it next     *)
(* sends or its reader notices.                                            *)
(***************************************************************************)
EXTENDS LiveStore, SequencesExt

CONSTANTS Script,             \* kinds of the messages of the run
          FirstState,         \* its state before them
          QueueSize,          \* maxsize of a subscriber's queue
          SnapshotEvents,     \* SNAPSHOT_EVENTS
          SnapshotTelemetry,  \* SNAPSHOT_TELEMETRY
          Exists,             \* is there such a run?
          Faults,             \* kinds of faults that may happen
          MaxFaults           \* and how many of them

LifecycleKind == {"preparing", "running", "collecting"}
MessageKind   == LifecycleKind \cup {"event", "telemetry", "finished"}
FaultKind     == {"drop", "silence", "elsewhere", "miss", "error"}

ASSUME LiveRunAssumption ==
  /\ Script \in Seq(MessageKind)
  /\ \A i \in 1..Len(Script) : Script[i] = "finished" => i = Len(Script)
  /\ FirstState \in {"QUEUED", "PREPARING"}
  /\ QueueSize \in Nat \ {0}
  /\ SnapshotEvents \in Nat \ {0}
  /\ SnapshotTelemetry \in Nat \ {0}
  /\ Exists \in BOOLEAN
  /\ Faults \subseteq FaultKind
  /\ MaxFaults \in Nat

VARIABLES
  sent,      \* messages the runner has published
  dealt,     \* messages the consumer has been handed
  failed,    \* those whose handling has ever raised
  missing,   \* ... and that were not stored since: set aside or given up
  row,       \* the runs row: state, is there a report?
  lastTime,  \* ... and its last_simulation_time
  heard,     \* messages the hub has been given
  conn,      \* the endpoint that serves the browser
  wire,      \* frames and the close code on their way to the browser
  store,     \* the live run store
  buffer,    \* eventBuffer and sampleBuffer
  socket,    \* the hook: no socket yet, opening, open, waiting to retry, gone
  again,     \* attempt > 0
  dropped,   \* messages the hub took out of a full queue
  faults

database == <<failed, missing, row, lastTime>>
server   == <<sent, dealt, database, heard>>
vars == <<sent, dealt, failed, missing, row, lastTime, heard, conn, wire, store,
          buffer, socket, again, dropped, faults>>

Items == 1..Len(Script)
Of(kind) == {i \in Items : Script[i] = kind}
LifecycleState(i) == IF Script[i] = "preparing" THEN "PREPARING"
                     ELSE IF Script[i] = "running" THEN "RUNNING" ELSE "COLLECTING"

States == INSTANCE RunStates

Frame(kind)  == [kind |-> kind]
Relayed(i)   == [kind |-> Script[i], item |-> i]
Close(code)  == [kind |-> "close", code |-> code]
Completed    == [kind |-> "completed", state |-> row.state, report |-> row.report]

NoRead == [run |-> NoRun, time |-> 0, events |-> <<>>, samples |-> <<>>]
NoConn == [phase |-> "none", read |-> NoRead, queue |-> <<>>, seen |-> FALSE]

Terminal(r) == r.state \in TerminalRunStates
Subscribed == conn.phase \in {"relay", "wait"}

Fault(kind) == kind \in Faults /\ faults < MaxFaults /\ faults' = faults + 1

-----------------------------------------------------------------------------
(* The run and what is stored of it.                                       *)

Publish ==
  /\ Exists
  /\ sent < Len(Script)
  /\ sent' = sent + 1
  /\ UNCHANGED <<dealt, database, heard, conn, wire, store, buffer, socket, again,
                 dropped, faults>>

\* What is in the database of one kind.
Stored(kind) == {i \in Of(kind) : i <= dealt /\ i \notin missing}

\* transition_run takes the legal transitions, and a state the run is in.
MayBecome(state) ==
  ~Terminal(row) /\ (row.state = state \/ States!CanTransition(row.state, state))

\* The handler of message i.  A transition that is not legal is ignored, a run
\* that is over keeps its state; the finished message closes it from any other,
\* with a report.  The analysis takes the time of the last sample there is.
Handled(i) ==
  \/ /\ Script[i] \in {"event", "telemetry"}
     /\ lastTime' = i
     /\ UNCHANGED row
  \/ /\ Script[i] \in LifecycleKind /\ MayBecome(LifecycleState(i))
     /\ row' = [row EXCEPT !.state = LifecycleState(i)]
     /\ lastTime' = i
  \/ /\ Script[i] = "finished" /\ ~Terminal(row)
     /\ row' = [state |-> "COMPLETED", report |-> TRUE]
     /\ lastTime' = IF Stored("telemetry") = {} THEN lastTime
                    ELSE CHOOSE t \in Stored("telemetry") :
                           \A u \in Stored("telemetry") : u <= t
  \/ /\ Script[i] \in LifecycleKind => ~MayBecome(LifecycleState(i))
     /\ Script[i] = "finished" => Terminal(row)
     /\ Script[i] \in LifecycleKind \cup {"finished"}
     /\ UNCHANGED <<row, lastTime>>

Consume ==
  /\ dealt < sent
  /\ dealt' = dealt + 1
  /\ Handled(dealt')
  /\ UNCHANGED <<sent, failed, missing, heard, conn, wire, store, buffer, socket,
                 again, dropped, faults>>

\* The handling raises and is rolled back: the message is set aside with nak,
\* and the loop goes on with the next.
ConsumeFails ==
  /\ Fault("error")
  /\ dealt < sent
  /\ dealt' = dealt + 1
  /\ failed' = failed \cup {dealt'} /\ missing' = missing \cup {dealt'}
  /\ UNCHANGED <<sent, row, lastTime, heard, conn, wire, store, buffer, socket, again,
                 dropped>>

\* A message that was set aside is delivered again.  One that is given up after
\* its last delivery is one that never is.
Redeliver ==
  \E i \in missing :
    /\ Handled(i)
    /\ missing' = missing \ {i}
    /\ UNCHANGED <<sent, dealt, failed, heard, conn, wire, store, buffer, socket, again,
                   dropped, faults>>

\* The run is closed without its finished message: by a cancel while it is
\* queued, or by a verdict of the watchdog.
CloseAs(outcomes) ==
  /\ Exists /\ ~Terminal(row)
  /\ row' \in outcomes
  /\ UNCHANGED <<sent, dealt, failed, missing, lastTime, heard, conn, wire, store, buffer,
                 socket, again, dropped>>

CloseElsewhere ==
  /\ Fault("elsewhere")
  /\ CloseAs({[state |-> "CANCELLED", report |-> FALSE], [state |-> "FAILED", report |-> TRUE]})

\* The watchdog closes a run whose finished message is not handled.
CloseAbandoned ==
  /\ Len(Script) \in missing
  /\ CloseAs({[state |-> "FAILED", report |-> TRUE]})
  /\ UNCHANGED faults

-----------------------------------------------------------------------------
(* The hub: a full queue loses its oldest message, whatever it is.         *)

Full(q) == Len(q) >= QueueSize

Hear ==
  /\ heard < sent
  /\ heard' = heard + 1
  /\ IF ~Subscribed
     THEN UNCHANGED <<conn, dropped>>
     ELSE IF Full(conn.queue)
     THEN /\ conn' = [conn EXCEPT !.queue = Append(Tail(@), heard')]
          /\ dropped' = dropped \cup {Head(conn.queue)}
     ELSE conn' = [conn EXCEPT !.queue = Append(@, heard')] /\ UNCHANGED dropped
  /\ UNCHANGED <<sent, dealt, database, wire, store, buffer, socket, again, faults>>

\* The API's subscription is not durable: what is published while it is away
\* from the bus never reaches the hub.
Miss ==
  /\ Fault("miss")
  /\ heard < sent
  /\ heard' = heard + 1
  /\ UNCHANGED <<sent, dealt, database, conn, wire, store, buffer, socket, again,
                 dropped>>

-----------------------------------------------------------------------------
(* The endpoint.                                                           *)

\* The run is read.  Closing a WebSocket that was not accepted fails its
\* handshake: the browser sees code 1006, not the 1008 that was asked for.
ReadRun ==
  /\ conn.phase = "opening"
  /\ IF Exists
     THEN /\ conn' = [conn EXCEPT !.phase = "history",
                        !.read.run = row, !.read.time = lastTime]
          /\ UNCHANGED wire
     ELSE /\ conn' = NoConn
          /\ wire' = Append(wire, Close(1006))
  /\ UNCHANGED <<server, store, buffer, socket, again, dropped, faults>>

\* Mutant: the oldest events instead of the newest.
RecentOldest(s) == IF Len(s) > SnapshotEvents THEN SubSeq(s, 1, SnapshotEvents) ELSE s
Recent(s) == Newest(s, SnapshotEvents)

\* Every stride-th sample, beginning with the first.
Strided(s) ==
  LET stride == Greater(1, (Len(s) + SnapshotTelemetry - 1) \div SnapshotTelemetry)
      kept   == Ascending({k \in DOMAIN s : (k - 1) % stride = 0})
  IN  [k \in DOMAIN kept |-> s[kept[k]]]

\* Events and telemetry are read, later than the run was.
ReadHistory ==
  /\ conn.phase = "history"
  /\ conn' = [conn EXCEPT !.phase = "accepted",
                !.read.events  = Recent(Ascending(Stored("event"))),
                !.read.samples = Strided(Ascending(Stored("telemetry")))]
  /\ wire' = Append(wire, Frame("open"))
  /\ UNCHANGED <<server, store, buffer, socket, again, dropped, faults>>

\* Mutant: the endpoint relays what comes whatever the snapshot said.
ReadTerminalNever == FALSE
ReadTerminal == Terminal(conn.read.run)

\* Only now the endpoint subscribes, and sends the snapshot it has read; the
\* stream of a run that was over when it was read ends here.
Subscribe ==
  /\ conn.phase = "accepted"
  /\ LET read     == conn.read
         snapshot == [kind |-> "snapshot", run |-> read.run, time |-> read.time,
                      events |-> read.events, samples |-> read.samples]
         over     == [kind |-> "completed", state |-> read.run.state,
                      report |-> read.run.report]
     IN  IF ReadTerminal
         THEN /\ wire' = wire \o <<snapshot, over, Close(1000)>>
              /\ conn' = NoConn
         ELSE /\ wire' = Append(wire, snapshot)
              /\ conn' = [conn EXCEPT !.phase = "relay", !.read = NoRead]
  /\ UNCHANGED <<server, store, buffer, socket, again, dropped, faults>>

\* The next message of the queue is sent on.  After the finished message the
\* endpoint waits for the row, and serves nothing else meanwhile.
Relay ==
  /\ conn.phase = "relay" /\ conn.queue # <<>>
  /\ LET item == Head(conn.queue)
         over == Script[item] = "finished"
     IN  /\ wire' = Append(wire, Relayed(item))
         /\ conn' = [conn EXCEPT !.queue = Tail(@),
                       !.phase = IF over THEN "wait" ELSE @,
                       !.seen  = @ \/ over]
  /\ UNCHANGED <<server, store, buffer, socket, again, dropped, faults>>

SendCompleted ==
  /\ wire' = wire \o <<Completed, Close(1000)>>
  /\ conn' = NoConn

\* _wait_for_terminal finds the run closed, or gives up after 120 s.
WaitEnds ==
  /\ conn.phase = "wait"
  /\ IF Terminal(row) THEN SendCompleted
     ELSE conn' = [conn EXCEPT !.phase = "relay"] /\ UNCHANGED wire
  /\ UNCHANGED <<server, store, buffer, socket, again, dropped, faults>>

\* Mutant: an endpoint that gave up waiting never looks at the run again.
OverByNowNever == FALSE
OverByNow == conn.seen /\ Terminal(row)

\* Nothing to send for api_ws_heartbeat_seconds.  (One heartbeat on the wire
\* stands for any number of them.)
Idle ==
  /\ conn.phase = "relay" /\ conn.queue = <<>>
  /\ IF OverByNow THEN SendCompleted
     ELSE wire = <<>> /\ wire' = <<Frame("heartbeat")>> /\ UNCHANGED conn
  /\ UNCHANGED <<server, store, buffer, socket, again, dropped, faults>>

-----------------------------------------------------------------------------
(* The hook.                                                               *)

Flushed == IF buffer.events = <<>> /\ buffer.samples = <<>> THEN store
           ELSE Ingest(store, buffer.events, buffer.samples)
NoBuffer == [events |-> <<>>, samples |-> <<>>]

Connect ==
  /\ socket \in {"none", "timer"}
  /\ socket' = "opening"
  /\ store' = SetStatus(store, IF again THEN "reconnecting" ELSE "connecting")
  /\ conn' = [NoConn EXCEPT !.phase = "opening"]
  /\ wire' = <<>>
  /\ UNCHANGED <<server, buffer, again, dropped, faults>>

Timer == "timer"

\* scheduleReconnect on the store as the caller leaves it.
Retry(s) ==
  IF s.finished
  THEN /\ store' = SetStatus(s, "closed")
       /\ socket' = "gone" /\ UNCHANGED again
  ELSE /\ store' = SetStatus(s, "reconnecting")
       /\ socket' = Timer /\ again' = TRUE

OnOpen ==
  /\ Head(wire).kind = "open"
  /\ socket' = "open" /\ again' = FALSE
  /\ store' = Touch(SetStatus(SetError(store, "none"), "live"))
  /\ UNCHANGED buffer

OnSnapshot ==
  /\ Head(wire).kind = "snapshot"
  /\ store' = SetStatus(ApplySnapshot(Flushed, Head(wire)),
                IF Head(wire).run.state = "COMPLETED" THEN "closed" ELSE "live")
  /\ buffer' = NoBuffer
  /\ UNCHANGED <<socket, again>>

OnLifecycle ==
  /\ Head(wire).kind \in LifecycleKind
  /\ store' = ApplyLifecycle(store, LifecycleState(Head(wire).item), Head(wire).item)
  /\ UNCHANGED <<buffer, socket, again>>

OnEvent ==
  /\ Head(wire).kind = "event"
  /\ buffer' = [buffer EXCEPT !.events = Append(@, Head(wire).item)]
  /\ store' = Touch(store)
  /\ UNCHANGED <<socket, again>>

OnTelemetry ==
  /\ Head(wire).kind = "telemetry"
  /\ buffer' = [buffer EXCEPT !.samples = Append(@, Head(wire).item)]
  /\ store' = Touch(store)
  /\ UNCHANGED <<socket, again>>

OnFinished ==
  /\ Head(wire).kind = "finished"
  /\ store' = ApplyRunFinished(Flushed, Head(wire).item)
  /\ buffer' = NoBuffer
  /\ UNCHANGED <<socket, again>>

OnHeartbeat ==
  /\ Head(wire).kind = "heartbeat"
  /\ store' = IF store.status = "stale" THEN SetStatus(Touch(store), "live")
              ELSE Touch(store)
  /\ UNCHANGED <<buffer, socket, again>>

OnCompleted ==
  /\ Head(wire).kind = "completed"
  /\ store' = ApplyCompleted(Flushed, Head(wire))
  /\ buffer' = NoBuffer
  /\ UNCHANGED <<socket, again>>

\* onclose, after the onerror of a connection that failed.
Closed(code) ==
  /\ buffer' = NoBuffer
  /\ LET s == IF code = 1000 \/ Flushed.finished THEN Flushed
              ELSE SetError(Flushed, "failed")
     IN  IF s.finished \/ code = 1000
         THEN /\ store' = SetStatus(s, "closed")
              /\ socket' = "gone" /\ UNCHANGED again
         ELSE IF code = 1008
         THEN /\ store' = SetStatus(SetError(s, "unavailable"), "error")
              /\ socket' = "gone" /\ UNCHANGED again
         ELSE Retry(s)

OnClose == Head(wire).kind = "close" /\ Closed(Head(wire).code)

Receive ==
  /\ socket \in {"opening", "open"} /\ wire # <<>>
  /\ \/ OnOpen \/ OnSnapshot \/ OnLifecycle \/ OnEvent \/ OnTelemetry
     \/ OnFinished \/ OnHeartbeat \/ OnCompleted \/ OnClose
  /\ wire' = Tail(wire)
  /\ UNCHANGED <<server, conn, dropped, faults>>

\* The connection breaks, the API restarts or the endpoint raises: frames that
\* have not arrived are lost.
Drop ==
  /\ Fault("drop")
  /\ socket \in {"opening", "open"}
  /\ Closed(1006)
  /\ conn' = NoConn /\ wire' = <<>>
  /\ UNCHANGED <<server, dropped>>

FlushTimer ==
  /\ socket # "none"
  /\ buffer # NoBuffer
  /\ store' = Flushed /\ buffer' = NoBuffer
  /\ UNCHANGED <<server, conn, wire, socket, again, dropped, faults>>

\* STALE_AFTER_MS pass and no frame arrives.
Silence ==
  /\ Fault("silence")
  /\ socket = "open" /\ ~store.quiet
  /\ store' = [store EXCEPT !.quiet = TRUE]
  /\ UNCHANGED <<server, conn, wire, buffer, socket, again, dropped>>

StaleTimer ==
  /\ ~store.finished /\ store.status = "live" /\ store.quiet
  /\ store' = SetStatus(store, "stale")
  /\ UNCHANGED <<server, conn, wire, buffer, socket, again, dropped, faults>>

-----------------------------------------------------------------------------

Init ==
  /\ sent = 0 /\ dealt = 0 /\ heard = 0
  /\ failed = {} /\ missing = {} /\ lastTime = 0
  /\ row = [state |-> FirstState, report |-> FALSE]
  /\ conn = NoConn /\ wire = <<>>
  /\ store = Started /\ buffer = NoBuffer
  /\ socket = "none" /\ again = FALSE
  /\ dropped = {} /\ faults = 0

Writers == Consume \/ ConsumeFails \/ Redeliver \/ CloseElsewhere \/ CloseAbandoned
Server == ReadRun \/ ReadHistory \/ Subscribe \/ Relay \/ WaitEnds \/ Idle
Browser == Connect \/ Receive \/ FlushTimer \/ StaleTimer

Next == \/ Publish \/ Writers \/ Hear \/ Miss
        \/ Server \/ Browser \/ Drop \/ Silence

\* The services run, the bus and the network deliver, timers fire.  Nothing
\* is assumed of faults, of the runner of a run that was closed, nor of a message
\* that was set aside: it may be given up.
Fairness == /\ WF_vars(~Terminal(row) /\ Publish) /\ WF_vars(Consume) /\ WF_vars(Hear)
            /\ WF_vars(CloseAbandoned) /\ WF_vars(Server) /\ WF_vars(Connect) /\ WF_vars(Receive)
            /\ WF_vars(FlushTimer) /\ WF_vars(StaleTimer)

Spec == Init /\ [][Next]_vars
FairSpec == Spec /\ Fairness
-----------------------------------------------------------------------------
(* Properties.                                                             *)

TypeOK ==
  /\ sent \in 0..Len(Script) /\ dealt \in 0..sent /\ heard \in 0..sent
  /\ failed \subseteq 1..dealt /\ missing \subseteq failed /\ lastTime \in 0..Len(Script)
  /\ row.state \in {"QUEUED", "PREPARING", "RUNNING", "COLLECTING"} \cup TerminalRunStates
  /\ row.report \in BOOLEAN
  /\ conn.phase \in {"none", "opening", "history", "accepted", "relay", "wait"}
  /\ Range(conn.queue) \subseteq Items /\ Len(conn.queue) <= QueueSize
  /\ store.status \in ConnectionStatus
  /\ store.error \in {"none", "failed", "unavailable"}
  /\ Range(store.events) \subseteq Of("event")
  /\ Range(store.samples) \subseteq Of("telemetry")
  /\ store.time \in 0..Len(Script)
  /\ socket \in {"none", "opening", "open", "timer", "gone"}
  /\ dropped \subseteq Items /\ faults \in 0..MaxFaults

\* What is in a snapshot may also be in the queue, in the buffer or arrive
\* again after a reconnect: the store shows it once and in order.
NothingDoubled ==
  \A s \in {store.events, store.samples} :
    \A i, j \in DOMAIN s : i < j => s[i] < s[j]

\* A browser that was shown how the run ended goes on showing it: no message
\* that is still on its way takes it back.
OutcomeStays ==
  [][Terminal(store.run) => store'.run.state = store.run.state]_vars

\* The newest of all events of the run, but for some of these.
WholeBut(events, excused) ==
  \E late \in SUBSET excused :
    events = Newest(Ascending(Of("event") \ late), SnapshotEvents)

\* A snapshot that says the run is completed has the newest of all its events,
\* although run and events are read one after the other while the consumer
\* writes.  What may be missing from it are events whose handling had failed: the
\* finished message does not wait for them.
CompletedSnapshotIsWhole ==
  \A k \in DOMAIN wire :
    wire[k].kind = "snapshot" /\ wire[k].run.state = "COMPLETED" =>
      WholeBut(wire[k].events, failed)

\* Once the finished message is queued for the browser it is told how the run
\* ended, however long the analysis takes, unless the queue overflows or its
\* connection is lost.
FinishedIsRelayed ==
  (\E k \in DOMAIN conn.queue : Script[conn.queue[k]] = "finished")
     ~> \/ store.status = "closed" /\ Terminal(store.run)
        \/ Len(Script) \in dropped
        \/ faults > 0 /\ conn = NoConn

\* A browser that lost its connection gets a new one and a snapshot.
ReconnectsUntilOver ==
  (store.status = "reconnecting") ~> (store.status \in {"live", "closed"})

\* Whoever goes on watching gets the end of the run or the connection back.
WatcherIsServed == FinishedIsRelayed /\ ReconnectsUntilOver

\* What the repository says of the stream, and the code does not keep.

\* stream.py:11: "Reconnecting clients get a fresh snapshot, so nothing is
\* lost when a run completes while the browser was disconnected."  Here: a
\* browser that shows its stream as closed shows how the run ended.
ClosedMeansTold ==
  store.status = "closed" => Terminal(store.run)

\* use-run-stream.ts:32: the snapshot replaces the state "so nothing is
\* lost or doubled".  Here, without any fault: who was told that the run is
\* completed has its newest events.
NothingLost ==
  store.finished /\ store.run.state = "COMPLETED" /\ buffer = NoBuffer =>
    Range(Newest(Ascending(Of("event")), SnapshotEvents)) \subseteq Range(store.events)

\* state.py:55: "drop the oldest telemetry rather than block the bus".
DropsTelemetryOnly == dropped \subseteq Of("telemetry")

\* mission-control-view.tsx:351, of a stale stream: "No frame received for
\* more than 30 seconds while the run is active."
StaleMeansQuiet == store.status = "stale" => store.quiet

\* stream.py:8: "`completed`: final run summary once the orchestrator finalized
\* the run, then close."  Here: a browser that stays is told.
EndIsTold == Terminal(row) ~> Terminal(store.run)

\* security-model.md:67 and use-run-stream.ts:160: a run that does not exist is
\* answered with close code 1008, which the hook reports as not available.
MissingRunIsReported == <>(store.status = "error")
=============================================================================
