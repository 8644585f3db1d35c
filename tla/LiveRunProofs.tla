---------------------------- MODULE LiveRunProofs ----------------------------
(***************************************************************************)
(* Proofs about a watched run, for every script of messages, every size of *)
(* the queue and of the snapshots, and every fault at any time:            *)
(*                                                                         *)
(*  - a browser that was shown how its run ended goes on showing it        *)
(*    (OutcomeStays);                                                      *)
(*  - it shows every event and every sample once and in order              *)
(*    (NothingDoubled);                                                    *)
(*  - a snapshot of a completed run has the newest of all its events but   *)
(*    those whose handling had failed (CompletedSnapshotIsWhole).          *)
(*                                                                         *)
(* What is streamed does not matter for the first: there, events, samples  *)
(* and the fields of the store that hold them have no type.                *)
(***************************************************************************)
EXTENDS LiveRun, SequenceLemmas

Rows == [state : {"QUEUED", "PREPARING", "RUNNING", "COLLECTING"} \cup TerminalRunStates, report : BOOLEAN]

StoreFields ==
  {"run", "events", "samples", "latest", "time", "status", "quiet", "finished", "report", "error"}

IsStore(s) == DOMAIN s = StoreFields /\ s.run \in Rows \cup {NoRun}

\* A frame that says how the run ended, and what it says.
Telling(f) == f.kind = "completed" \/ (f.kind = "snapshot" /\ Terminal(f.run))
Said(f)    == IF f.kind = "completed" THEN f.state ELSE f.run.state

\* What is published is in the script.
BusInv == sent \in 0..Len(Script) /\ heard \in 0..sent /\ row \in Rows

\* What the endpoint has read of the run is not yet over, or as it is now.
ConnInv ==
  /\ DOMAIN conn = {"phase", "read", "queue", "seen"}
  /\ DOMAIN conn.read = {"run", "time", "events", "samples"}
  /\ conn.queue \in Seq(Items)
  /\ conn.phase \in {"history", "accepted"} =>
       conn.read.run \in Rows /\ (Terminal(conn.read.run) => conn.read.run = row)

\* What tells the end tells it as it is, comes from an endpoint that is gone, and
\* is followed by nothing but that again.
WireInv ==
  /\ IsSequence(wire)
  /\ \A k \in 1..Len(wire) :
       /\ wire[k].kind = "snapshot" => wire[k].run \in Rows
       /\ Telling(wire[k]) => /\ Terminal(row) /\ Said(wire[k]) = row.state
                              /\ conn.phase = "none"
       /\ \A j \in 1..Len(wire) :
            k < j /\ Telling(wire[k]) => wire[j].kind \in {"completed", "close"}

\* Nothing on its way to a browser that knows the end says anything else.
Agrees ==
  /\ Terminal(row) /\ store.run.state = row.state
  /\ conn.phase \notin {"relay", "wait"}
  /\ conn.phase \in {"history", "accepted"} => Terminal(conn.read.run)
  /\ \A k \in 1..Len(wire) :
       /\ wire[k].kind \notin {"preparing", "running", "collecting"}
       /\ wire[k].kind = "snapshot" => Terminal(wire[k].run)

OutcomeInv ==
  /\ BusInv /\ ConnInv /\ WireInv /\ IsStore(store)
  /\ Terminal(store.run) => Agrees

-----------------------------------------------------------------------------
(* The store. *)

\* The actions of the store that do not touch the run it shows.
LEMMA KeepsRun ==
  ASSUME NEW s, IsStore(s), NEW x, NEW y
  PROVE  /\ IsStore(SetStatus(s, x)) /\ SetStatus(s, x).run = s.run
         /\ IsStore(SetError(s, x)) /\ SetError(s, x).run = s.run
         /\ IsStore(Touch(s)) /\ Touch(s).run = s.run
         /\ IsStore(ApplyRunFinished(s, x)) /\ ApplyRunFinished(s, x).run = s.run
         /\ IsStore(Ingest(s, x, y)) /\ Ingest(s, x, y).run = s.run
BY DEF IsStore, StoreFields, SetStatus, SetError, Touch, ApplyRunFinished, Ingest

\* A snapshot puts its run in the place of the one that was shown.
LEMMA TakesRun ==
  ASSUME NEW s, IsStore(s), NEW m, m.run \in Rows
  PROVE  IsStore(ApplySnapshot(s, m)) /\ ApplySnapshot(s, m).run = m.run
BY DEF IsStore, StoreFields, ApplySnapshot

\* A lifecycle message sets the state of the run, if there is one.
LEMMA TakesState ==
  ASSUME NEW s, IsStore(s),
         NEW state \in {"QUEUED", "PREPARING", "RUNNING", "COLLECTING"} \cup TerminalRunStates, NEW t
  PROVE  /\ IsStore(ApplyLifecycle(s, state, t))
         /\ s.run # NoRun => ApplyLifecycle(s, state, t).run = [s.run EXCEPT !.state = state]
         /\ s.run = NoRun => ApplyLifecycle(s, state, t).run = NoRun
BY DEF IsStore, StoreFields, ApplyLifecycle, Rows, NoRun

\* So does the last message, which names the final state.
LEMMA TakesOutcome ==
  ASSUME NEW s, IsStore(s), NEW m, m.state \in TerminalRunStates
  PROVE  /\ IsStore(ApplyCompleted(s, m))
         /\ s.run # NoRun => ApplyCompleted(s, m).run = [s.run EXCEPT !.state = m.state]
         /\ s.run = NoRun => ApplyCompleted(s, m).run = NoRun
BY DEF IsStore, StoreFields, ApplyCompleted, Rows, NoRun

\* Flushing the buffers does not touch the run.
LEMMA FlushedRun ==
  ASSUME IsStore(store)
  PROVE  IsStore(Flushed) /\ Flushed.run = store.run
BY KeepsRun DEF Flushed

\* A browser that was shown no run has been shown no end.
LEMMA NoRunIsOpen == ~Terminal(NoRun)
BY DEF NoRun, Terminal, TerminalRunStates

-----------------------------------------------------------------------------
(* The run, the bus and the hub. *)

\* Who writes the row, and what was stored, touches nothing else.
LEMMA WritersOnly ==
  Writers => UNCHANGED <<sent, heard, conn, wire, store, buffer, socket, again, dropped>>
BY DEF Writers, Consume, ConsumeFails, Redeliver, CloseElsewhere, CloseAbandoned, CloseAs

\* The handler of a message leaves a row that is terminal as it is, and completes
\* the run only for the finished message.
LEMMA HandledRow ==
  ASSUME OutcomeInv, NEW i, Handled(i)
  PROVE  /\ row' \in Rows /\ (Terminal(row) => row' = row)
         /\ row'.state = "COMPLETED" => row' = row \/ Script[i] = "finished"
<1>1. CASE row' = row
  BY <1>1 DEF OutcomeInv, BusInv
<1>2. CASE ~Terminal(row) /\ row' = [row EXCEPT !.state = LifecycleState(i)]
  <2>1. LifecycleState(i) \in {"PREPARING", "RUNNING", "COLLECTING"}
    BY DEF LifecycleState
  <2>2. \A state \in {"PREPARING", "RUNNING", "COLLECTING"} :
          /\ [row EXCEPT !.state = state] \in Rows
          /\ [row EXCEPT !.state = state].state = state
    BY DEF OutcomeInv, BusInv, Rows
  <2> QED BY <1>2, <2>1, <2>2
<1>3. CASE /\ ~Terminal(row) /\ Script[i] = "finished"
           /\ row' = [state |-> "COMPLETED", report |-> TRUE]
  BY <1>3 DEF Rows, TerminalRunStates
<1> QED BY <1>1, <1>2, <1>3 DEF Handled, MayBecome

\* A row that is terminal stays as it is.
LEMMA RowStep ==
  ASSUME OutcomeInv, Writers
  PROVE  row' \in Rows /\ (Terminal(row) => row' = row)
<1>1. CASE Consume \/ Redeliver
  BY <1>1, HandledRow DEF Consume, Redeliver
<1>2. CASE ConsumeFails
  BY <1>2 DEF ConsumeFails, OutcomeInv, BusInv
<1>3. CASE CloseElsewhere \/ CloseAbandoned
  <2>1. /\ [state |-> "CANCELLED", report |-> FALSE] \in Rows
        /\ [state |-> "FAILED", report |-> TRUE] \in Rows
    BY DEF Rows, TerminalRunStates
  <2> QED BY <1>3, <2>1 DEF CloseElsewhere, CloseAbandoned, CloseAs
<1> QED BY <1>1, <1>2, <1>3 DEF Writers

\* The consumer, or who closes the run without it.
LEMMA Closing ==
  ASSUME OutcomeInv, Writers
  PROVE  OutcomeInv'
<1>1. row' \in Rows /\ (Terminal(row) => row' = row)
  BY RowStep
<1>2. UNCHANGED <<sent, heard, conn, wire, store>>
  BY WritersOnly
<1>3. BusInv' /\ ConnInv'
  BY <1>1, <1>2 DEF OutcomeInv, BusInv, ConnInv, Terminal
<1>4. WireInv'
  BY <1>1, <1>2 DEF OutcomeInv, WireInv, Terminal, Telling, Said
<1>5. IsStore(store)' /\ (Terminal(store.run) => Agrees)'
  BY <1>1, <1>2 DEF OutcomeInv, Agrees, Terminal, IsStore
<1> QED BY <1>3, <1>4, <1>5 DEF OutcomeInv

\* The bus and the queue of the hub.
LEMMA Hearing ==
  ASSUME OutcomeInv, Publish \/ Hear \/ Miss
  PROVE  OutcomeInv'
<1>1. BusInv' /\ UNCHANGED <<row, wire, store>>
  BY LiveRunAssumption DEF OutcomeInv, BusInv, Publish, Hear, Miss, database
<1>2. /\ DOMAIN conn' = {"phase", "read", "queue", "seen"}
      /\ conn'.phase = conn.phase /\ conn'.read = conn.read /\ conn'.queue \in Seq(Items)
  <2>1. CASE UNCHANGED conn
    BY <2>1 DEF OutcomeInv, ConnInv
  <2>2. CASE Hear
    <3>1. heard' \in Items
      BY <2>2, LiveRunAssumption DEF Hear, OutcomeInv, BusInv, Items
    <3>2. CASE conn' = [conn EXCEPT !.queue = Append(Tail(@), heard')] /\ Full(conn.queue)
      <4>1. conn.queue # <<>>
        BY <3>2, LiveRunAssumption DEF Full
      <4> QED BY <3>1, <3>2, <4>1 DEF OutcomeInv, ConnInv
    <3>3. CASE conn' = [conn EXCEPT !.queue = Append(@, heard')]
      BY <3>1, <3>3 DEF OutcomeInv, ConnInv
    <3> QED BY <2>1, <2>2, <3>2, <3>3 DEF Hear
  <2> QED BY <2>1, <2>2 DEF Publish, Miss
<1>3. ConnInv'
  BY <1>1, <1>2 DEF OutcomeInv, ConnInv
<1>4. WireInv'
  BY <1>1, <1>2 DEF OutcomeInv, WireInv, Terminal, Telling, Said
<1>5. IsStore(store)' /\ (Terminal(store.run) => Agrees)'
  BY <1>1, <1>2 DEF OutcomeInv, Agrees, Terminal, IsStore
<1> QED BY <1>1, <1>3, <1>4, <1>5 DEF OutcomeInv

-----------------------------------------------------------------------------
(* The endpoint. *)

\* The endpoint reads the run, then its history, and accepts.
LEMMA Reading ==
  ASSUME OutcomeInv, ReadRun \/ ReadHistory
  PROVE  OutcomeInv'
<1> DEFINE opened == Frame("open")
           closed == Close(1006)
<1>1. /\ conn.phase \in {"opening", "history"}
      /\ UNCHANGED <<sent, heard, row, store>>
  BY DEF ReadRun, ReadHistory, server, database
<1>2. /\ DOMAIN conn' = {"phase", "read", "queue", "seen"}
      /\ DOMAIN conn'.read = {"run", "time", "events", "samples"}
      /\ conn'.queue \in Seq(Items)
      /\ \/ conn'.phase = "none"
         \/ conn'.phase = "history" /\ conn'.read.run = row
         \/ conn.phase = "history" /\ conn'.phase = "accepted" /\ conn'.read.run = conn.read.run
  <2>1. CASE conn' = NoConn
    BY <2>1 DEF NoConn, NoRead
  <2>2. CASE conn' = [conn EXCEPT !.phase = "history", !.read.run = row, !.read.time = lastTime]
    BY <2>2 DEF OutcomeInv, ConnInv
  <2>3. CASE ReadHistory
    BY <2>3 DEF ReadHistory, OutcomeInv, ConnInv
  <2> QED BY <2>1, <2>2, <2>3 DEF ReadRun
<1>3. PICK f \in {opened, closed} : wire' \in {wire, Append(wire, f)}
  BY DEF ReadRun, ReadHistory
<1>4. f.kind \in {"open", "close"}
  BY DEF Frame, Close
<1>5. /\ IsSequence(wire') /\ Len(wire) \in Nat /\ Len(wire') \in Nat
      /\ \A k \in 1..Len(wire') :
           wire'[k].kind \in {"open", "close"} \/ (k \in 1..Len(wire) /\ wire'[k] = wire[k])
  <2>1. \A r, x : IsSequence(r) =>
          /\ IsSequence(Append(r, x)) /\ Len(r) \in Nat /\ Len(Append(r, x)) = Len(r) + 1
          /\ Append(r, x)[Len(r) + 1] = x
          /\ \A i \in 1..Len(r) : Append(r, x)[i] = r[i]
    BY AppendSequence
  <2>2. CASE wire' = wire
    BY <2>1, <2>2 DEF OutcomeInv, WireInv
  <2>3. CASE wire' = Append(wire, f)
    BY <1>4, <2>1, <2>3 DEF OutcomeInv, WireInv
  <2> QED BY <1>3, <2>2, <2>3
<1>6. BusInv' /\ ConnInv'
  BY <1>1, <1>2 DEF OutcomeInv, BusInv, ConnInv, Terminal
<1>7. \A k \in 1..Len(wire) : ~Telling(wire[k])
  BY <1>1 DEF OutcomeInv, WireInv
<1>8. WireInv'
  BY <1>1, <1>5, <1>7 DEF OutcomeInv, WireInv, Terminal, Telling, Said
<1>9. IsStore(store)' /\ (Terminal(store.run) => Agrees)'
  BY <1>1, <1>2, <1>5 DEF OutcomeInv, Agrees, Terminal, IsStore
<1> QED BY <1>6, <1>8, <1>9 DEF OutcomeInv

\* The endpoint subscribes and sends what it has read: the end, if it read one.
LEMMA Subscribing ==
  ASSUME OutcomeInv, Subscribe
  PROVE  OutcomeInv'
<1> DEFINE read     == conn.read
           snapshot == [kind |-> "snapshot", run |-> read.run, time |-> read.time,
                        events |-> read.events, samples |-> read.samples]
           over     == [kind |-> "completed", state |-> read.run.state,
                        report |-> read.run.report]
<1>1. snapshot.kind = "snapshot" /\ snapshot.run = conn.read.run
  OBVIOUS
<1>2. /\ conn.phase = "accepted" /\ conn.read.run \in Rows
      /\ Terminal(conn.read.run) => conn.read.run = row
      /\ UNCHANGED <<sent, heard, row, store>>
  BY DEF Subscribe, OutcomeInv, ConnInv, server, database
<1>3. \A k \in 1..Len(wire) : ~Telling(wire[k])
  BY <1>2 DEF OutcomeInv, WireInv
<1>4. BusInv' /\ IsStore(store)'
  BY <1>2 DEF OutcomeInv, BusInv, IsStore
<1>5. CASE ReadTerminal
  <2>1. wire' = wire \o <<snapshot, over, Close(1000)>> /\ conn' = NoConn
    BY <1>5 DEF Subscribe
  <2> HIDE DEF snapshot, over
  <2>2. IsSequence(wire) /\ wire' = wire \o <<snapshot, over, Close(1000)>>
    BY <2>1 DEF OutcomeInv, WireInv
  <2>3. /\ IsSequence(wire') /\ Len(wire) \in Nat /\ Len(wire') = Len(wire) + 3
        /\ wire'[Len(wire) + 1] = snapshot /\ wire'[Len(wire) + 2] = over
        /\ wire'[Len(wire) + 3] = Close(1000)
        /\ \A k \in 1..Len(wire) : wire'[k] = wire[k]
    <3>1. PICK x, y, z : x = snapshot /\ y = over /\ z = Close(1000)
      OBVIOUS
    <3>2. wire' = wire \o <<x, y, z>>
      BY <2>2, <3>1
    <3>3. ThreeMore(wire', wire, x, y, z)
      BY <2>2, <3>2, AppendThree
    <3> QED BY <3>1, <3>3 DEF ThreeMore
  <2>4. \A k \in 1..Len(wire') : \/ k \in 1..Len(wire) /\ wire'[k] = wire[k]
                                 \/ k = Len(wire) + 1 /\ wire'[k] = snapshot
                                 \/ k = Len(wire) + 2 /\ wire'[k] = over
                                 \/ k = Len(wire) + 3 /\ wire'[k] = Close(1000)
    BY <2>3
  <2>5. Terminal(row) /\ conn.read.run = row
    BY <1>2, <1>5 DEF ReadTerminal
  <2>6. ConnInv' /\ conn'.phase = "none"
    BY <2>1 DEF ConnInv, NoConn, NoRead
  <2>7. over.kind = "completed" /\ over.state = row.state /\ Close(1000).kind = "close"
    BY <2>5 DEF Close, over
  <2>8. WireInv'
    BY <1>1, <1>2, <1>3, <2>3, <2>4, <2>5, <2>6, <2>7
    DEF OutcomeInv, WireInv, Telling, Said, Terminal
  <2>9. (Terminal(store.run) => Agrees)'
    BY <1>1, <1>2, <2>3, <2>4, <2>5, <2>6, <2>7 DEF OutcomeInv, Agrees, Terminal
  <2> QED BY <1>4, <2>6, <2>8, <2>9 DEF OutcomeInv
<1>6. CASE ~ReadTerminal
  <2> HIDE DEF snapshot
  <2>1. /\ wire' = Append(wire, snapshot) /\ conn'.phase = "relay"
        /\ conn' = [conn EXCEPT !.phase = "relay", !.read = NoRead]
    BY <1>6 DEF Subscribe, snapshot, OutcomeInv, ConnInv
  <2>2. ~Terminal(conn.read.run) /\ ~Terminal(store.run)
    BY <1>2, <1>6 DEF ReadTerminal, OutcomeInv, Agrees
  <2>3. ConnInv'
    BY <2>1 DEF OutcomeInv, ConnInv, NoRead
  <2>4. /\ IsSequence(wire')
        /\ \A k \in 1..Len(wire') : wire'[k] = snapshot \/ (k \in 1..Len(wire) /\ wire'[k] = wire[k])
    BY <2>1, AppendSequence DEF OutcomeInv, WireInv
  <2>5. \A k \in 1..Len(wire') : ~Telling(wire'[k])
    BY <1>1, <1>3, <2>2, <2>4 DEF Telling
  <2>6. WireInv'
    BY <1>1, <1>2, <2>4, <2>5 DEF OutcomeInv, WireInv, Telling, Terminal
  <2>7. ~Terminal(store'.run)
    BY <1>2, <2>2
  <2> QED BY <1>4, <2>3, <2>6, <2>7 DEF OutcomeInv, Terminal
<1> QED BY <1>5, <1>6

\* A message of the queue is sent: the endpoint that does so has told no end, and
\* its browser knows of none.
LEMMA Relaying ==
  ASSUME OutcomeInv, Relay
  PROVE  OutcomeInv'
<1> DEFINE item == Head(conn.queue)
<1>1. /\ conn.phase = "relay" /\ conn.queue # <<>> /\ conn.queue \in Seq(Items)
      /\ item \in Items /\ Script[item] \in MessageKind
  BY LiveRunAssumption DEF Relay, OutcomeInv, ConnInv, Items
<1>2. /\ UNCHANGED <<sent, heard, row, store>> /\ wire' = Append(wire, Relayed(item))
      /\ Relayed(item).kind \in MessageKind
  BY <1>1 DEF Relay, server, database, Relayed
<1>3. ConnInv' /\ conn'.phase \in {"relay", "wait"}
  BY <1>1 DEF Relay, OutcomeInv, ConnInv
<1>4. BusInv' /\ IsStore(store)'
  BY <1>2 DEF OutcomeInv, BusInv, IsStore
<1>5. ~Terminal(store.run) /\ ~Terminal(store'.run)
  BY <1>1, <1>2 DEF OutcomeInv, Agrees
<1>6. /\ IsSequence(wire')
      /\ \A k \in 1..Len(wire') :
           wire'[k].kind \in MessageKind \/ (k \in 1..Len(wire) /\ wire'[k] = wire[k])
  BY <1>2, AppendSequence DEF OutcomeInv, WireInv
<1>7. \A k \in 1..Len(wire') : ~Telling(wire'[k])
  BY <1>1, <1>6 DEF OutcomeInv, WireInv, Telling, MessageKind, LifecycleKind
<1>8. WireInv'
  BY <1>6, <1>7 DEF OutcomeInv, WireInv, MessageKind, LifecycleKind, Telling, Terminal
<1> QED BY <1>3, <1>4, <1>5, <1>8 DEF OutcomeInv, Terminal

\* The endpoint finds the run closed, gives up waiting for that, or is idle.
LEMMA Ending ==
  ASSUME OutcomeInv, WaitEnds \/ Idle
  PROVE  OutcomeInv'
<1>1. UNCHANGED <<sent, heard, row, store>> /\ conn.phase \in {"relay", "wait"}
  BY DEF WaitEnds, Idle, server, database
<1>2. BusInv' /\ IsStore(store)'
  BY <1>1 DEF OutcomeInv, BusInv, IsStore
<1>3. ~Terminal(store.run) /\ ~Terminal(store'.run)
  BY <1>1 DEF OutcomeInv, Agrees
<1>4. \A k \in 1..Len(wire) : ~Telling(wire[k])
  BY <1>1 DEF OutcomeInv, WireInv
<1>5. CASE SendCompleted /\ Terminal(row)
  <2>1. conn' = NoConn
    BY <1>5 DEF SendCompleted
  <2>2. IsSequence(wire) /\ wire' = wire \o <<Completed, Close(1000)>>
    BY <1>5 DEF OutcomeInv, WireInv, SendCompleted
  <2>3. /\ IsSequence(wire') /\ Len(wire) \in Nat /\ Len(wire') = Len(wire) + 2
        /\ wire'[Len(wire) + 1] = Completed /\ wire'[Len(wire) + 2] = Close(1000)
        /\ \A k \in 1..Len(wire) : wire'[k] = wire[k]
    <3>1. PICK x, y : x = Completed /\ y = Close(1000)
      OBVIOUS
    <3>2. wire' = wire \o <<x, y>>
      BY <2>2, <3>1
    <3>3. TwoMore(wire', wire, x, y)
      BY <2>2, <3>2, AppendTwo
    <3> QED BY <3>1, <3>3 DEF TwoMore
  <2>4. \A k \in 1..Len(wire') : \/ k \in 1..Len(wire) /\ wire'[k] = wire[k]
                                 \/ k = Len(wire) + 1 /\ wire'[k] = Completed
                                 \/ k = Len(wire) + 2 /\ wire'[k] = Close(1000)
    BY <2>3
  <2>5. ConnInv' /\ conn'.phase = "none"
    BY <2>1 DEF ConnInv, NoConn, NoRead
  <2>6. Completed.kind = "completed" /\ Completed.state = row.state /\ Close(1000).kind = "close"
    BY DEF Close, Completed
  <2>7. WireInv'
    BY <1>1, <1>4, <1>5, <2>3, <2>4, <2>5, <2>6 DEF OutcomeInv, WireInv, Telling, Said, Terminal
  <2> QED BY <1>2, <1>3, <2>5, <2>7 DEF OutcomeInv, Terminal
<1>6. CASE UNCHANGED wire /\ conn' = [conn EXCEPT !.phase = "relay"]
  <2>1. ConnInv'
    BY <1>6 DEF OutcomeInv, ConnInv
  <2>2. WireInv'
    BY <1>4, <1>6 DEF OutcomeInv, WireInv, Telling, Terminal
  <2> QED BY <1>2, <1>3, <2>1, <2>2 DEF OutcomeInv, Terminal
<1>7. CASE wire' = <<Frame("heartbeat")>> /\ UNCHANGED conn
  <2>1. ConnInv'
    BY <1>1, <1>7 DEF OutcomeInv, ConnInv, Terminal
  <2>2. IsSequence(wire') /\ \A k \in 1..Len(wire') : wire'[k].kind = "heartbeat"
    <3>1. wire' \in Seq({Frame("heartbeat")}) /\ \A k \in 1..Len(wire') : wire'[k] = Frame("heartbeat")
      BY <1>7
    <3> QED BY <3>1, RangeSequence DEF Frame
  <2>3. WireInv'
    BY <2>2 DEF WireInv, Telling
  <2> QED BY <1>2, <1>3, <2>1, <2>3 DEF OutcomeInv, Terminal
<1> QED BY <1>5, <1>6, <1>7 DEF WaitEnds, Idle, OverByNow

-----------------------------------------------------------------------------
(* The browser. *)

\* A step of the browser that leaves the run it shows and all else alone.
LEMMA ShownSame ==
  ASSUME OutcomeInv, UNCHANGED <<sent, heard, row, conn, wire>>,
         IsStore(store'), store'.run = store.run
  PROVE  OutcomeInv'
<1>1. BusInv' /\ ConnInv' /\ IsStore(store)'
  BY DEF OutcomeInv, BusInv, ConnInv, Terminal, IsStore
<1>2. WireInv'
  BY DEF OutcomeInv, WireInv, Terminal, Telling, Said
<1>3. (Terminal(store.run) => Agrees)'
  BY DEF OutcomeInv, Agrees, Terminal
<1> QED BY <1>1, <1>2, <1>3 DEF OutcomeInv

\* A connection that is new, or lost, has nothing on the wire.
LEMMA Emptied ==
  ASSUME OutcomeInv, UNCHANGED <<sent, heard, row>>, wire' = <<>>,
         conn' \in {NoConn, [NoConn EXCEPT !.phase = "opening"]},
         IsStore(store'), store'.run = store.run
  PROVE  OutcomeInv'
<1>1. ConnInv' /\ conn'.phase \in {"none", "opening"}
  <2>1. CASE conn' = NoConn
    BY <2>1 DEF ConnInv, NoConn, NoRead
  <2>2. CASE conn' = [NoConn EXCEPT !.phase = "opening"]
    BY <2>2 DEF ConnInv, NoConn, NoRead
  <2> QED BY <2>1, <2>2
<1>2. BusInv' /\ IsStore(store)'
  BY DEF OutcomeInv, BusInv, IsStore
<1>3. WireInv'
  BY EmptySequence DEF WireInv
<1>4. (Terminal(store.run) => Agrees)'
  BY <1>1 DEF OutcomeInv, Agrees, Terminal
<1> QED BY <1>1, <1>2, <1>3, <1>4 DEF OutcomeInv

\* A connection that closes leaves the run as it was shown.
LEMMA ClosedRun ==
  ASSUME IsStore(store), NEW code, Closed(code)
  PROVE  IsStore(store') /\ store'.run = store.run
<1>1. IsStore(Flushed) /\ Flushed.run = store.run
  BY FlushedRun
<1> DEFINE s == IF code = 1000 \/ Flushed.finished THEN Flushed
                ELSE SetError(Flushed, "failed")
<1>2. store' \in {SetStatus(s, "closed"), SetStatus(s, "reconnecting"),
                 SetStatus(SetError(s, "unavailable"), "error")}
  BY DEF Closed, Retry
<1>3. IsStore(s) /\ s.run = store.run
  BY <1>1, KeepsRun
<1> HIDE DEF s
<1>4. IsStore(SetError(s, "unavailable")) /\ SetError(s, "unavailable").run = s.run
  BY <1>3, KeepsRun
<1>5. \A x : IsStore(SetStatus(s, x)) /\ SetStatus(s, x).run = store.run
  BY <1>3, KeepsRun
<1>6. \A x : /\ IsStore(SetStatus(SetError(s, "unavailable"), x))
            /\ SetStatus(SetError(s, "unavailable"), x).run = store.run
  BY <1>3, <1>4, KeepsRun
<1> QED BY <1>2, <1>5, <1>6

\* What a frame does to the store: nothing to the run it shows, or it tells the
\* end as it is, or the run goes on.
LEMMA Shown ==
  ASSUME OutcomeInv, Receive
  PROVE  /\ IsStore(store')
         /\ \/ store'.run = store.run
            \/ Telling(wire[1]) /\ store'.run.state = row.state
            \/ ~Terminal(store.run) /\ ~Terminal(store'.run)
<1>1. wire # <<>> /\ IsSequence(wire) /\ IsStore(store)
  BY DEF Receive, OutcomeInv, WireInv
<1>2. /\ Head(wire) = wire[1] /\ 1 \in 1..Len(wire)
  BY <1>1, TailSequence
<1>3. IsStore(Flushed) /\ Flushed.run = store.run
  BY <1>1, FlushedRun
<1>4. CASE OnOpen
  <2>1. IsStore(SetError(store, "none")) /\ SetError(store, "none").run = store.run
    BY <1>1, KeepsRun
  <2>2. /\ IsStore(SetStatus(SetError(store, "none"), "live"))
        /\ SetStatus(SetError(store, "none"), "live").run = store.run
    BY <2>1, KeepsRun
  <2> QED BY <1>4, <2>2, KeepsRun DEF OnOpen
<1>5. CASE OnSnapshot
  <2>1. wire[1].kind = "snapshot" /\ wire[1].run \in Rows
    BY <1>2, <1>5 DEF OnSnapshot, OutcomeInv, WireInv
  <2>2. /\ IsStore(ApplySnapshot(Flushed, wire[1]))
        /\ ApplySnapshot(Flushed, wire[1]).run = wire[1].run
    BY <1>3, <2>1, TakesRun
  <2>3. IsStore(store') /\ store'.run = wire[1].run
    <3>1. PICK x : store' = SetStatus(ApplySnapshot(Flushed, wire[1]), x)
      BY <1>2, <1>5 DEF OnSnapshot
    <3> QED BY <2>2, <3>1, KeepsRun
  <2>4. CASE Terminal(wire[1].run)
    <3>1. Telling(wire[1]) /\ Said(wire[1]) = wire[1].run.state
      BY <2>1, <2>4 DEF Telling, Said
    <3>2. Said(wire[1]) = row.state
      BY <1>2, <3>1 DEF OutcomeInv, WireInv
    <3> QED BY <2>3, <3>1, <3>2
  <2>5. CASE ~Terminal(wire[1].run)
    <3>1. ~Terminal(store.run)
      BY <1>2, <2>1, <2>5 DEF OutcomeInv, Agrees
    <3> QED BY <2>3, <2>5, <3>1
  <2> QED BY <2>4, <2>5
<1>6. CASE OnLifecycle
  <2> DEFINE state == LifecycleState(Head(wire).item)
  <2>1. ~Terminal(store.run)
    BY <1>2, <1>6 DEF OnLifecycle, LifecycleKind, OutcomeInv, Agrees
  <2>2. state \in {"PREPARING", "RUNNING", "COLLECTING"}
    BY DEF LifecycleState
  <2> HIDE DEF state
  <2>3. store' = ApplyLifecycle(store, state, Head(wire).item)
    BY <1>6 DEF OnLifecycle, state
  <2>4. /\ IsStore(store')
        /\ store.run # NoRun => store'.run = [store.run EXCEPT !.state = state]
        /\ store.run = NoRun => store'.run = NoRun
    BY <1>1, <2>2, <2>3, TakesState
  <2>5. ~Terminal(store'.run)
    <3>1. CASE store.run = NoRun
      BY <2>4, <3>1, NoRunIsOpen
    <3>2. CASE store.run \in Rows
      BY <2>2, <2>4, <3>2, NoRunIsOpen DEF Terminal, TerminalRunStates, Rows, NoRun
    <3> QED BY <1>1, <3>1, <3>2 DEF IsStore
  <2> QED BY <2>1, <2>4, <2>5
<1>7. CASE OnEvent \/ OnTelemetry
  BY <1>1, <1>7, KeepsRun DEF OnEvent, OnTelemetry
<1>8. CASE OnFinished
  BY <1>3, <1>8, KeepsRun DEF OnFinished
<1>9. CASE OnHeartbeat
  <2>1. IsStore(Touch(store)) /\ Touch(store).run = store.run
    BY <1>1, KeepsRun
  <2> QED BY <1>9, <2>1, KeepsRun DEF OnHeartbeat
<1>10. CASE OnCompleted
  <2>1. Telling(wire[1]) /\ Said(wire[1]) = wire[1].state
    BY <1>2, <1>10 DEF OnCompleted, Telling, Said
  <2>2. Terminal(row) /\ wire[1].state = row.state
    BY <1>2, <2>1 DEF OutcomeInv, WireInv
  <2>3. wire[1].state \in TerminalRunStates
    BY <2>2 DEF Terminal
  <2>4. /\ IsStore(ApplyCompleted(Flushed, wire[1]))
        /\ Flushed.run # NoRun => ApplyCompleted(Flushed, wire[1]).run
                                   = [Flushed.run EXCEPT !.state = wire[1].state]
        /\ Flushed.run = NoRun => ApplyCompleted(Flushed, wire[1]).run = NoRun
    BY <1>3, <2>3, TakesOutcome
  <2>5. store' = ApplyCompleted(Flushed, wire[1])
    BY <1>2, <1>10 DEF OnCompleted
  <2>6. store.run # NoRun => store'.run.state = row.state
    BY <1>1, <1>3, <2>2, <2>4, <2>5 DEF IsStore, Rows
  <2> QED BY <1>3, <2>1, <2>4, <2>5, <2>6
<1>11. CASE OnClose
  BY <1>1, <1>11, ClosedRun DEF OnClose
<1> QED BY <1>4, <1>5, <1>6, <1>7, <1>8, <1>9, <1>10, <1>11 DEF Receive

\* A frame is taken off the wire.
LEMMA Receiving ==
  ASSUME OutcomeInv, Receive
  PROVE  OutcomeInv' /\ (Terminal(store.run) => store'.run.state = store.run.state)
<1>1. wire # <<>> /\ IsSequence(wire) /\ wire' = Tail(wire)
      /\ UNCHANGED <<sent, heard, row, conn>>
  BY DEF Receive, OutcomeInv, WireInv, server, database
<1>2. /\ IsSequence(wire') /\ Len(wire) \in Nat \ {0} /\ Len(wire') = Len(wire) - 1
      /\ \A k \in 1..(Len(wire) - 1) : wire'[k] = wire[k + 1]
  BY <1>1, TailSequence
<1>3. /\ IsStore(store')
      /\ \/ store'.run = store.run
         \/ Telling(wire[1]) /\ store'.run.state = row.state
         \/ ~Terminal(store.run) /\ ~Terminal(store'.run)
  BY Shown
<1>4. BusInv' /\ ConnInv'
  BY <1>1 DEF OutcomeInv, BusInv, ConnInv, Terminal
<1>5. \A k \in 1..Len(wire') : k + 1 \in 1..Len(wire) /\ wire'[k] = wire[k + 1]
  BY <1>2
<1>6. WireInv'
  <2>1. ASSUME NEW k \in 1..Len(wire')
        PROVE  /\ wire'[k].kind = "snapshot" => wire'[k].run \in Rows
               /\ Telling(wire'[k]) => /\ Terminal(row) /\ Said(wire'[k]) = row.state
                                       /\ conn.phase = "none"
               /\ \A j \in 1..Len(wire') :
                    k < j /\ Telling(wire'[k]) => wire'[j].kind \in {"completed", "close"}
    <3>1. /\ wire[k + 1].kind = "snapshot" => wire[k + 1].run \in Rows
          /\ Telling(wire[k + 1]) => /\ Terminal(row) /\ Said(wire[k + 1]) = row.state
                                     /\ conn.phase = "none"
          /\ \A j \in 1..Len(wire) :
               k + 1 < j /\ Telling(wire[k + 1]) => wire[j].kind \in {"completed", "close"}
      BY <1>5 DEF OutcomeInv, WireInv
    <3>2. \A j \in 1..Len(wire') : k < j => k + 1 < j + 1
      BY <1>2
    <3> QED BY <1>5, <3>1, <3>2
  <2> QED BY <1>1, <1>2, <2>1 DEF WireInv, Telling, Said, Terminal
<1>7. Terminal(store.run) => store'.run.state = store.run.state
  BY <1>2, <1>3 DEF OutcomeInv, Agrees
<1>8. (Terminal(store.run) => Agrees)'
  <2>1. CASE store'.run = store.run
    BY <1>1, <1>5, <2>1 DEF OutcomeInv, Agrees, Terminal
  <2>2. CASE Telling(wire[1]) /\ store'.run.state = row.state
    <3>1. 1 \in 1..Len(wire) /\ \A k \in 1..Len(wire') : 1 < k + 1
      BY <1>2
    <3>2. /\ Terminal(row) /\ conn.phase = "none"
          /\ \A j \in 1..Len(wire) : 1 < j => wire[j].kind \in {"completed", "close"}
      BY <2>2, <3>1 DEF OutcomeInv, WireInv
    <3>3. \A k \in 1..Len(wire') : wire'[k].kind \in {"completed", "close"}
      BY <1>5, <3>1, <3>2
    <3> QED BY <1>1, <2>2, <3>2, <3>3 DEF Agrees, Terminal
  <2>3. CASE ~Terminal(store'.run)
    BY <2>3 DEF Terminal
  <2> QED BY <1>3, <2>1, <2>2, <2>3
<1> QED BY <1>3, <1>4, <1>6, <1>7, <1>8 DEF OutcomeInv, IsStore

-----------------------------------------------------------------------------

\* At first there is a queued run and nothing on its way.
LEMMA OutcomeInit == Init => OutcomeInv
<1> SUFFICES ASSUME Init PROVE OutcomeInv
  OBVIOUS
<1>1. BusInv /\ ConnInv
  BY LiveRunAssumption DEF Init, BusInv, ConnInv, Rows, NoConn, NoRead
<1>2. WireInv
  BY EmptySequence DEF Init, WireInv
<1>3. IsStore(store) /\ store.run = NoRun
  BY DEF Init, IsStore, StoreFields, Started, Empty
<1> QED BY <1>1, <1>2, <1>3, NoRunIsOpen DEF OutcomeInv

\* Every step keeps the invariant, and the outcome that was shown.
LEMMA OutcomeNext ==
  ASSUME OutcomeInv, [Next]_vars
  PROVE  OutcomeInv' /\ (Terminal(store.run) => store'.run.state = store.run.state)
<1>1. CASE Writers
  BY <1>1, Closing, WritersOnly
<1>2. CASE Publish \/ Hear \/ Miss
  BY <1>2, Hearing DEF Publish, Hear, Miss
<1>3. CASE ReadRun \/ ReadHistory
  BY <1>3, Reading DEF ReadRun, ReadHistory
<1>4. CASE Subscribe
  BY <1>4, Subscribing DEF Subscribe
<1>5. CASE Relay
  BY <1>5, Relaying DEF Relay
<1>6. CASE WaitEnds \/ Idle
  BY <1>6, Ending DEF WaitEnds, Idle
<1>7. CASE Connect
  <2>1. IsStore(store') /\ store'.run = store.run
    BY <1>7, KeepsRun DEF Connect, OutcomeInv
  <2> QED BY <1>7, <2>1, Emptied DEF Connect, server, database
<1>8. CASE Receive
  BY <1>8, Receiving
<1>9. CASE Drop
  <2>1. IsStore(store') /\ store'.run = store.run
    BY <1>9, ClosedRun DEF Drop, OutcomeInv
  <2> QED BY <1>9, <2>1, Emptied DEF Drop, server, database
<1>10. CASE FlushTimer \/ Silence \/ StaleTimer \/ UNCHANGED vars
  <2>1. IsStore(store') /\ store'.run = store.run
    BY <1>10, KeepsRun, FlushedRun
    DEF FlushTimer, Silence, StaleTimer, vars, OutcomeInv, IsStore, StoreFields
  <2> QED BY <1>10, <2>1, ShownSame DEF FlushTimer, Silence, StaleTimer, vars, server, database
<1> QED BY <1>1, <1>2, <1>3, <1>4, <1>5, <1>6, <1>7, <1>8, <1>9, <1>10
        DEF Next, Server, Browser

\* A browser that was shown how the run ended goes on showing it, whatever is
\* still in queues and on the wire, however often it reconnects.
THEOREM OutcomeIsKept == Spec => OutcomeStays
<1>1. Init => OutcomeInv
  BY OutcomeInit
<1>2. OutcomeInv /\ [Next]_vars => OutcomeInv'
  BY OutcomeNext
<1>3. OutcomeInv /\ [Next]_vars => [Terminal(store.run) => store'.run.state = store.run.state]_vars
  BY OutcomeNext
<1> QED BY <1>1, <1>2, <1>3, PTL DEF Spec, OutcomeStays

-----------------------------------------------------------------------------
(* Once and in order. *)

\* Numbered things, each shown once and in order.
InOrder(s) == s \in Seq(Nat) /\ Grows(s)

Shows(s) == IsStore(s) /\ InOrder(s.events) /\ InOrder(s.samples)

Relays(f) == f.kind \in MessageKind

\* The queue holds what the hub has heard, in order.
QueueOrder ==
  Grows(conn.queue) /\ \A m \in DOMAIN conn.queue : conn.queue[m] <= heard

\* The buffered samples came before what is queued.
BufferOrder ==
  /\ DOMAIN buffer = {"events", "samples"}
  /\ buffer.events \in Seq(Nat) /\ InOrder(buffer.samples)
  /\ \A n \in DOMAIN buffer.samples :
       /\ buffer.samples[n] <= heard
       /\ \A m \in DOMAIN conn.queue : buffer.samples[n] < conn.queue[m]

\* The messages on the wire came in order, before what is queued and after the
\* samples that are buffered.
WireOrder ==
  \A k \in 1..Len(wire) : Relays(wire[k]) =>
    /\ wire[k].item \in 1..heard
    /\ \A j \in 1..Len(wire) : j < k /\ Relays(wire[j]) => wire[j].item < wire[k].item
    /\ \A m \in DOMAIN conn.queue : wire[k].item < conn.queue[m]
    /\ \A n \in DOMAIN buffer.samples : buffer.samples[n] < wire[k].item

\* What is read for a snapshot, and sent as one, is numbered.
HistoryNumbered ==
  /\ conn.read.events \in Seq(Nat) /\ conn.read.samples \in Seq(Nat)
  /\ \A k \in 1..Len(wire) : wire[k].kind = "snapshot" =>
       wire[k].events \in Seq(Nat) /\ wire[k].samples \in Seq(Nat)

OrderInv ==
  /\ OutcomeInv /\ QueueOrder /\ BufferOrder /\ WireOrder /\ HistoryNumbered
  /\ Shows(store)

-----------------------------------------------------------------------------

\* Ascending enumerates a set in order.
LEMMA AscendingSet ==
  ASSUME NEW S \in SUBSET Nat, IsFiniteSet(S)
  PROVE  InOrder(Ascending(S)) /\ Range(Ascending(S)) = S
<1>1. Ascending(S) = Ranked(S)
  BY DEF Ascending, Ranked
<1> QED BY <1>1, RankedSet DEF InOrder

\* The numbers of two sequences make one that is in order.
LEMMA MergedRange ==
  ASSUME NEW s \in Seq(Nat), NEW r \in Seq(Nat)
  PROVE  InOrder(Ascending(Range(s) \cup Range(r)))
<1>1. /\ Range(s) \cup Range(r) \in SUBSET Nat
      /\ IsFiniteSet(Range(s)) /\ IsFiniteSet(Range(r))
  BY FiniteRange
<1>2. IsFiniteSet(Range(s) \cup Range(r))
  BY <1>1, FS_Union
<1> QED BY <1>1, <1>2, AscendingSet

\* So is the end of one that is.
LEMMA NewestInOrder ==
  ASSUME NEW s, InOrder(s), NEW n \in Nat
  PROVE  InOrder(Newest(s, n))
BY LastGrows DEF InOrder, Newest

\* Merging events keeps them in order, whatever comes in.
LEMMA EventsInOrder ==
  ASSUME NEW s, InOrder(s), NEW r \in Seq(Nat), NEW n \in Nat
  PROVE  InOrder(MergeEvents(s, r, n))
BY MergedRange, NewestInOrder DEF MergeEvents, InOrder

\* Merging samples does if those that come in are in order, or are a snapshot's.
LEMMA SamplesInOrder ==
  ASSUME NEW s, InOrder(s), NEW r \in Seq(Nat), InOrder(r) \/ s = <<>>, NEW n \in Nat
  PROVE  InOrder(MergeSamples(s, r, n))
<1>1. CASE r = <<>>
  BY <1>1 DEF MergeSamples
<1>2. CASE r # <<>> /\ s # <<>> /\ \A i \in DOMAIN r : r[i] > Final(s)
  <2>1. InOrder(s \o r)
    BY <1>2, ConcatGrows DEF InOrder, Final
  <2>2. MergeSamples(s, r, n) = Newest(s \o r, n)
    BY <1>2 DEF MergeSamples
  <2> QED BY <2>1, <2>2, NewestInOrder
<1>3. CASE r # <<>> /\ ~(s # <<>> /\ \A i \in DOMAIN r : r[i] > Final(s))
  <2>1. MergeSamples(s, r, n) = Newest(Ascending(Range(s) \cup Range(r)), n)
    BY <1>3 DEF MergeSamples
  <2>2. InOrder(Ascending(Range(s) \cup Range(r)))
    BY MergedRange DEF InOrder
  <2> QED BY <2>1, <2>2, NewestInOrder
<1> QED BY <1>1, <1>2, <1>3

\* The actions of the store that show no more than before.
LEMMA ShowsSame ==
  ASSUME NEW s, Shows(s), NEW x, NEW y
  PROVE  /\ Shows(SetStatus(s, x)) /\ Shows(SetError(s, x)) /\ Shows(Touch(s))
         /\ Shows(ApplyRunFinished(s, x))
         /\ IsStore(ApplyLifecycle(s, x, y)) => Shows(ApplyLifecycle(s, x, y))
         /\ IsStore(ApplyCompleted(s, x)) => Shows(ApplyCompleted(s, x))
BY KeepsRun DEF Shows, IsStore, StoreFields, SetStatus, SetError, Touch, ApplyLifecycle,
   ApplyRunFinished, ApplyCompleted

\* A snapshot brings its own history.
LEMMA ShowsSnapshot ==
  ASSUME NEW s, Shows(s), NEW m, m.run \in Rows, m.events \in Seq(Nat), m.samples \in Seq(Nat)
  PROVE  Shows(ApplySnapshot(s, m))
<1>1. InOrder(<<>>)
  BY DEF InOrder, Grows
<1>2. InOrder(MergeEvents(<<>>, m.events, MaxEvents))
  BY <1>1, EventsInOrder, StoreAssumption
<1>3. InOrder(MergeSamples(<<>>, m.samples, MaxSamples))
  BY <1>1, SamplesInOrder, StoreAssumption
<1>4. IsStore(ApplySnapshot(s, m))
  BY TakesRun DEF Shows
<1> QED BY <1>2, <1>3, <1>4 DEF ApplySnapshot, Shows, IsStore, StoreFields

\* Flushing the buffers keeps what is shown in order.
LEMMA ShowsFlushed ==
  ASSUME Shows(store), BufferOrder
  PROVE  Shows(Flushed)
<1>1. InOrder(MergeEvents(store.events, buffer.events, MaxEvents))
  BY EventsInOrder, StoreAssumption DEF Shows, BufferOrder
<1>2. InOrder(MergeSamples(store.samples, buffer.samples, MaxSamples))
  BY SamplesInOrder, StoreAssumption DEF Shows, BufferOrder, InOrder
<1>3. IsStore(Ingest(store, buffer.events, buffer.samples))
  BY KeepsRun DEF Shows
<1> QED BY <1>1, <1>2, <1>3 DEF Flushed, Ingest, Shows, IsStore, StoreFields

-----------------------------------------------------------------------------
(* What is on the wire. *)

\* Frames that bring nothing of the run's history.
Bare(f) == f.kind \in {"open", "close", "completed", "heartbeat"}

\* Every frame was d places further behind, or is new.
FramesFrom(d) ==
  \A k \in 1..Len(wire') :
    \/ k + d \in 1..Len(wire) /\ wire'[k] = wire[k + d]
    \/ Bare(wire'[k])
    \/ /\ Subscribe /\ wire'[k].kind = "snapshot" /\ wire'[k].run = conn.read.run
       /\ wire'[k].events = conn.read.events /\ wire'[k].samples = conn.read.samples
    \/ Relay /\ d = 0 /\ k = Len(wire) + 1 /\ wire'[k] = Relayed(Head(conn.queue))

\* A frame that is added to the wire.
LEMMA OneFrame ==
  ASSUME IsSequence(wire), NEW f, wire' = Append(wire, f)
  PROVE  \A k \in 1..Len(wire') :
           \/ k + 0 \in 1..Len(wire) /\ wire'[k] = wire[k + 0]
           \/ k = Len(wire) + 1 /\ wire'[k] = f
BY AppendSequence

\* A step adds to the end of the wire, takes its first frame or empties it.
LEMMA FramesStep ==
  ASSUME OutcomeInv, [Next]_vars
  PROVE  \E d \in {0, 1} : FramesFrom(d) /\ (Receive => d = 1)
<1>1. IsSequence(wire) /\ Len(wire) \in Nat
  <2>1. IsSequence(wire)
    BY DEF OutcomeInv, WireInv
  <2> QED BY <2>1 DEF IsSequence
<1>2. CASE wire' = wire /\ ~Receive
  BY <1>1, <1>2 DEF FramesFrom
<1>3. CASE wire' = <<>> /\ ~Receive
  <2>1. 1..Len(wire') = {}
    BY <1>3
  <2> QED BY <1>3, <2>1 DEF FramesFrom
<1>4. CASE Receive
  <2>1. wire # <<>> /\ wire' = Tail(wire)
    BY <1>4 DEF Receive
  <2>2. \A k \in 1..Len(wire') : k + 1 \in 1..Len(wire) /\ wire'[k] = wire[k + 1]
    BY <1>1, <2>1, TailSequence
  <2> QED BY <2>2 DEF FramesFrom
<1>5. ASSUME NEW f, Bare(f), wire' = Append(wire, f), ~Receive
      PROVE  FramesFrom(0)
  BY <1>1, <1>5, OneFrame DEF FramesFrom
<1>6. CASE ReadRun \/ ReadHistory
  <2>1. Bare(Close(1006)) /\ Bare(Frame("open"))
    BY DEF Bare, Close, Frame
  <2>2. wire' \in {wire, Append(wire, Close(1006)), Append(wire, Frame("open"))}
    BY <1>6 DEF ReadRun, ReadHistory
  <2> QED BY <1>2, <1>5, <2>1, <2>2, <1>4
<1>7. CASE Subscribe
  <2> DEFINE read     == conn.read
             snapshot == [kind |-> "snapshot", run |-> read.run, time |-> read.time,
                          events |-> read.events, samples |-> read.samples]
             over     == [kind |-> "completed", state |-> read.run.state,
                          report |-> read.run.report]
  <2>1. /\ snapshot.kind = "snapshot" /\ snapshot.run = conn.read.run
        /\ snapshot.events = conn.read.events /\ snapshot.samples = conn.read.samples
        /\ Bare(over) /\ Bare(Close(1000))
    BY DEF Bare, Close
  <2>2. wire' = Append(wire, snapshot) \/ wire' = wire \o <<snapshot, over, Close(1000)>>
    BY <1>7 DEF Subscribe
  <2> HIDE DEF snapshot, over
  <2>3. CASE wire' = Append(wire, snapshot)
    <3>1. FramesFrom(0)
      BY <1>1, <1>7, <2>1, <2>3, OneFrame DEF FramesFrom
    <3> QED BY <1>4, <3>1
  <2>4. CASE wire' = wire \o <<snapshot, over, Close(1000)>>
    <3>1. PICK x, y, z : x = snapshot /\ y = over /\ z = Close(1000)
      OBVIOUS
    <3>2. ThreeMore(wire', wire, x, y, z)
      <4>1. wire' = wire \o <<x, y, z>>
        BY <2>4, <3>1
      <4> QED BY <1>1, <4>1, AppendThree
    <3>3. \A k \in 1..Len(wire') :
            \/ k + 0 \in 1..Len(wire) /\ wire'[k] = wire[k + 0]
            \/ wire'[k] = x \/ wire'[k] = y \/ wire'[k] = z
      <4>1. \A k \in 1..Len(wire') : k \in 1..Len(wire) \/ k = Len(wire) + 1
               \/ k = Len(wire) + 2 \/ k = Len(wire) + 3
        BY <1>1, <3>2 DEF ThreeMore
      <4> QED BY <1>1, <3>2, <4>1 DEF ThreeMore
    <3>4. FramesFrom(0)
      BY <1>7, <2>1, <3>1, <3>3 DEF FramesFrom
    <3> QED BY <1>4, <3>4
  <2> QED BY <2>2, <2>3, <2>4
<1>8. CASE Relay
  <2>1. wire' = Append(wire, Relayed(Head(conn.queue)))
    BY <1>8 DEF Relay
  <2>2. FramesFrom(0)
    BY <1>1, <1>8, <2>1, OneFrame DEF FramesFrom
  <2> QED BY <1>4, <2>2
<1>9. CASE WaitEnds \/ Idle
  <2>1. CASE SendCompleted
    <3>1. PICK x, y : x = Completed /\ y = Close(1000)
      OBVIOUS
    <3>2. Bare(x) /\ Bare(y)
      BY <3>1 DEF Bare, Completed, Close
    <3>3. TwoMore(wire', wire, x, y)
      <4>1. wire' = wire \o <<x, y>>
        BY <2>1, <3>1 DEF SendCompleted
      <4> QED BY <1>1, <4>1, AppendTwo
    <3>4. \A k \in 1..Len(wire') : k \in 1..Len(wire) \/ k = Len(wire) + 1 \/ k = Len(wire) + 2
      BY <1>1, <3>3 DEF TwoMore
    <3>5. \A k \in 1..Len(wire') :
            \/ k + 0 \in 1..Len(wire) /\ wire'[k] = wire[k + 0]
            \/ wire'[k] = x \/ wire'[k] = y
      BY <1>1, <3>3, <3>4 DEF TwoMore
    <3>6. FramesFrom(0)
      BY <3>2, <3>5 DEF FramesFrom
    <3> QED BY <1>4, <3>6
  <2>2. CASE wire' = <<Frame("heartbeat")>>
    <3>1. \A k \in 1..Len(wire') : wire'[k] = Frame("heartbeat")
      BY <2>2
    <3>2. FramesFrom(0)
      BY <3>1 DEF FramesFrom, Bare, Frame
    <3> QED BY <1>4, <3>2
  <2> QED BY <1>2, <1>4, <1>9, <2>1, <2>2 DEF WaitEnds, Idle
<1>10. CASE Connect \/ Drop
  BY <1>3, <1>4, <1>10 DEF Connect, Drop
<1>11. CASE \/ Publish \/ Writers \/ Hear \/ Miss \/ FlushTimer
            \/ StaleTimer \/ Silence \/ UNCHANGED vars
  BY <1>2, <1>4, <1>11, WritersOnly
  DEF Publish, Hear, Miss, FlushTimer, StaleTimer, Silence, vars
<1> QED BY <1>4, <1>6, <1>7, <1>8, <1>9, <1>10, <1>11 DEF Next, Server, Browser

-----------------------------------------------------------------------------
(* The queue and the buffer. *)

\* A step hears something new, or not.
LEMMA HeardStep ==
  ASSUME OutcomeInv, [Next]_vars
  PROVE  heard \in Nat /\ heard' \in Nat /\ heard <= heard'
BY LiveRunAssumption, WritersOnly
DEF OutcomeInv, BusInv, Next, Server, Browser, vars, server, database, Publish,
    Hear, Miss, ReadRun, ReadHistory, Subscribe, Relay, WaitEnds, Idle, Connect, Receive, Drop,
    FlushTimer, Silence, StaleTimer

\* Whether x was in the queue, behind its head if that is sent on.
Queued(x) ==
  \E n \in DOMAIN conn.queue :
    /\ x = conn.queue[n]
    /\ Relay => conn.queue # <<>> /\ Head(conn.queue) < x

\* What is in the queue after a step was there before, or was heard just now.
LEMMA QueueStep ==
  ASSUME OutcomeInv, QueueOrder, [Next]_vars
  PROVE  /\ Grows(conn'.queue)
         /\ \A m \in DOMAIN conn'.queue :
              /\ conn'.queue[m] \in Nat /\ conn'.queue[m] <= heard'
              /\ Queued(conn'.queue[m]) \/ (~Relay /\ heard < conn'.queue[m])
<1>1. /\ conn.queue \in Seq(Nat) /\ DOMAIN conn.queue = 1..Len(conn.queue)
      /\ Len(conn.queue) \in Nat
  BY DEF OutcomeInv, ConnInv, Items
<1>2. heard \in Nat /\ heard' \in Nat /\ heard <= heard'
  BY HeardStep
<1>3. CASE conn'.queue = conn.queue /\ ~Relay
  BY <1>1, <1>2, <1>3 DEF Queued, QueueOrder
<1>4. CASE conn'.queue = <<>>
  BY <1>4 DEF Grows
<1>5. CASE Hear /\ conn' # conn
  <2> DEFINE q == IF Full(conn.queue) THEN Tail(conn.queue) ELSE conn.queue
  <2>1. heard' = heard + 1 /\ conn'.queue = Append(q, heard') /\ ~Relay
    BY <1>2, <1>5 DEF Hear, Relay, server, database, OutcomeInv, ConnInv
  <2>2. q \in Seq(Nat) /\ Grows(q) /\ \A m \in DOMAIN q : \E n \in DOMAIN conn.queue : q[m] = conn.queue[n]
    <3>1. CASE Full(conn.queue)
      <4>1. conn.queue # <<>>
        BY <3>1, LiveRunAssumption DEF Full
      <4> QED BY <1>1, <3>1, <4>1, TailGrows DEF QueueOrder
    <3>2. CASE ~Full(conn.queue)
      BY <1>1, <3>2 DEF QueueOrder
    <3> QED BY <3>1, <3>2
  <2> HIDE DEF q
  <2>3. ASSUME NEW m \in DOMAIN q
        PROVE  q[m] \in Nat /\ q[m] <= heard /\ Queued(q[m])
    <3>1. PICK n \in DOMAIN conn.queue : q[m] = conn.queue[n]
      BY <2>2
    <3>2. conn.queue[n] \in Nat /\ conn.queue[n] <= heard
      BY <1>1 DEF QueueOrder
    <3> QED BY <2>1, <3>1, <3>2 DEF Queued
  <2>4. heard < heard' /\ \A m \in DOMAIN q : q[m] < heard'
    BY <1>2, <2>1, <2>3
  <2>5. /\ Grows(Append(q, heard'))
        /\ \A m \in DOMAIN Append(q, heard') :
             \/ m \in DOMAIN q /\ Append(q, heard')[m] = q[m]
             \/ Append(q, heard')[m] = heard'
    BY <1>2, <2>2, <2>4, AppendGrows
  <2> QED BY <1>2, <2>1, <2>3, <2>4, <2>5
<1>6. CASE Relay
  <2>1. conn.queue # <<>> /\ conn'.queue = Tail(conn.queue)
    BY <1>6 DEF Relay, OutcomeInv, ConnInv
  <2>2. /\ Grows(conn'.queue)
        /\ \A m \in DOMAIN conn'.queue :
             /\ m + 1 \in DOMAIN conn.queue /\ conn'.queue[m] = conn.queue[m + 1]
             /\ Head(conn.queue) < conn'.queue[m]
    BY <1>1, <2>1, TailGrows DEF QueueOrder
  <2>3. ASSUME NEW m \in DOMAIN conn'.queue
        PROVE  /\ conn'.queue[m] \in Nat /\ conn'.queue[m] <= heard'
               /\ Queued(conn'.queue[m])
    <3>1. conn.queue[m + 1] \in Nat /\ conn.queue[m + 1] <= heard
      BY <1>1, <2>2 DEF QueueOrder
    <3>2. conn'.queue[m] \in Nat /\ conn'.queue[m] <= heard'
      BY <1>2, <2>2, <3>1
    <3>3. Queued(conn'.queue[m])
      BY <2>1, <2>2 DEF Queued
    <3> QED BY <3>2, <3>3
  <2> QED BY <2>2, <2>3
<1>7. CASE ReadRun \/ ReadHistory \/ Subscribe \/ WaitEnds \/ Idle
  <2>1. conn.phase # "relay" \/ conn.queue = <<>>
    BY <1>7 DEF ReadRun, ReadHistory, Subscribe, WaitEnds, Idle
  <2>2. ~Relay
    BY <2>1 DEF Relay
  <2>3. CASE conn' = NoConn
    BY <1>4, <2>3 DEF NoConn
  <2>4. CASE conn' # NoConn
    <3>1. conn'.queue = conn.queue
      BY <1>7, <2>4 DEF ReadRun, ReadHistory, Subscribe, WaitEnds, Idle, SendCompleted,
                        OutcomeInv, ConnInv
    <3> QED BY <1>3, <2>2, <3>1
  <2> QED BY <2>3, <2>4
<1>8. CASE Connect \/ Drop
  BY <1>4, <1>8 DEF Connect, Drop, NoConn
<1>9. CASE UNCHANGED conn /\ ~Relay
  BY <1>3, <1>9
<1>10. CASE \/ Publish \/ Writers \/ Hear \/ Miss \/ FlushTimer \/ Receive
            \/ StaleTimer \/ Silence \/ UNCHANGED vars
  BY <1>5, <1>6, <1>9, <1>10, WritersOnly
  DEF Publish, Hear, Miss, FlushTimer, Receive, StaleTimer, Silence, vars
<1> QED BY <1>6, <1>7, <1>8, <1>10 DEF Next, Server, Browser

\* A sample that is buffered after a step was so before, or was the first frame.
LEMMA BufferStep ==
  ASSUME OrderInv, [Next]_vars
  PROVE  /\ DOMAIN buffer' = {"events", "samples"}
         /\ buffer'.events \in Seq(Nat) /\ InOrder(buffer'.samples)
         /\ \A n \in DOMAIN buffer'.samples :
              \/ \E m \in DOMAIN buffer.samples : buffer'.samples[n] = buffer.samples[m]
              \/ /\ Receive /\ 1 \in 1..Len(wire) /\ Relays(wire[1])
                 /\ buffer'.samples[n] = wire[1].item
<1>1. /\ DOMAIN buffer = {"events", "samples"}
      /\ buffer.events \in Seq(Nat) /\ buffer.samples \in Seq(Nat) /\ Grows(buffer.samples)
  BY DEF OrderInv, BufferOrder, InOrder
<1>2. CASE UNCHANGED buffer
  BY <1>1, <1>2 DEF InOrder
<1>3. CASE buffer' = NoBuffer
  BY <1>3 DEF NoBuffer, InOrder, Grows
<1>4. CASE Receive /\ (OnEvent \/ OnTelemetry)
  <2> DEFINE item == Head(wire).item
  <2>1. /\ 1 \in 1..Len(wire) /\ Head(wire) = wire[1]
    <3>1. wire # <<>> /\ IsSequence(wire)
      BY <1>4 DEF Receive, OrderInv, OutcomeInv, WireInv
    <3> QED BY <3>1, TailSequence
  <2>2. Relays(wire[1])
    BY <1>4, <2>1 DEF OnEvent, OnTelemetry, Relays, MessageKind, LifecycleKind
  <2>3. item \in Nat /\ \A n \in DOMAIN buffer.samples : buffer.samples[n] < item
    BY <2>1, <2>2 DEF OrderInv, WireOrder
  <2>4. CASE OnEvent
    <3>1. buffer' = [buffer EXCEPT !.events = Append(@, item)]
      BY <2>4 DEF OnEvent
    <3>2. Append(buffer.events, item) \in Seq(Nat)
      BY <1>1, <2>3
    <3> QED BY <1>1, <3>1, <3>2 DEF InOrder
  <2>5. CASE OnTelemetry
    <3>1. buffer' = [buffer EXCEPT !.samples = Append(@, item)]
      BY <2>5 DEF OnTelemetry
    <3>2. /\ Append(buffer.samples, item) \in Seq(Nat) /\ Grows(Append(buffer.samples, item))
          /\ \A m \in DOMAIN Append(buffer.samples, item) :
               \/ m \in DOMAIN buffer.samples /\ Append(buffer.samples, item)[m] = buffer.samples[m]
               \/ Append(buffer.samples, item)[m] = item
      BY <1>1, <2>3, AppendGrows
    <3> QED BY <1>1, <1>4, <2>1, <2>2, <3>1, <3>2 DEF InOrder
  <2> QED BY <1>4, <2>4, <2>5
<1>5. CASE Receive
  BY <1>2, <1>3, <1>4, <1>5
  DEF Receive, OnOpen, OnSnapshot, OnLifecycle, OnFinished, OnHeartbeat, OnCompleted, OnClose,
      Closed
<1>6. CASE Server \/ Connect \/ Drop \/ FlushTimer
  BY <1>2, <1>3, <1>6
  DEF Server, ReadRun, ReadHistory, Subscribe, Relay, WaitEnds, Idle, Connect, Drop, Closed,
      FlushTimer
<1>7. CASE \/ Publish \/ Writers \/ Hear \/ Miss \/ StaleTimer \/ Silence
           \/ UNCHANGED vars
  BY <1>2, <1>7, WritersOnly
  DEF Publish, Hear, Miss, StaleTimer, Silence, vars
<1> QED BY <1>5, <1>6, <1>7 DEF Next, Browser

\* So samples, frames and queue stay in order.
LEMMA OrderStep ==
  ASSUME OrderInv, [Next]_vars
  PROVE  (QueueOrder /\ BufferOrder /\ WireOrder)'
<1>1. /\ heard \in Nat /\ heard' \in Nat /\ heard <= heard'
  BY HeardStep DEF OrderInv
<1>2. /\ Grows(conn'.queue)
      /\ \A m \in DOMAIN conn'.queue :
           /\ conn'.queue[m] \in Nat /\ conn'.queue[m] <= heard'
           /\ Queued(conn'.queue[m]) \/ (~Relay /\ heard < conn'.queue[m])
  BY QueueStep DEF OrderInv
<1>3. /\ DOMAIN buffer' = {"events", "samples"}
      /\ buffer'.events \in Seq(Nat) /\ InOrder(buffer'.samples)
      /\ \A n \in DOMAIN buffer'.samples :
           \/ \E m \in DOMAIN buffer.samples : buffer'.samples[n] = buffer.samples[m]
           \/ /\ Receive /\ 1 \in 1..Len(wire) /\ Relays(wire[1])
              /\ buffer'.samples[n] = wire[1].item
  BY BufferStep
<1>4. QueueOrder'
  BY <1>2 DEF QueueOrder
<1>5. ASSUME NEW n \in DOMAIN buffer'.samples
      PROVE  /\ buffer'.samples[n] \in Nat /\ buffer'.samples[n] <= heard
             /\ \A m \in DOMAIN conn.queue : buffer'.samples[n] < conn.queue[m]
  <2>1. buffer'.samples[n] \in Nat
    BY <1>3 DEF InOrder
  <2>2. CASE \E m \in DOMAIN buffer.samples : buffer'.samples[n] = buffer.samples[m]
    BY <2>1, <2>2 DEF OrderInv, BufferOrder
  <2>3. CASE 1 \in 1..Len(wire) /\ Relays(wire[1]) /\ buffer'.samples[n] = wire[1].item
    BY <1>1, <2>1, <2>3 DEF OrderInv, WireOrder
  <2> QED BY <1>3, <2>2, <2>3
<1>6. BufferOrder'
  <2>1. ASSUME NEW n \in DOMAIN buffer'.samples, NEW m \in DOMAIN conn'.queue
        PROVE  buffer'.samples[n] < conn'.queue[m]
    <3>1. CASE Queued(conn'.queue[m])
      BY <1>5, <3>1 DEF Queued
    <3>2. CASE heard < conn'.queue[m]
      BY <1>1, <1>2, <1>5, <3>2
    <3> QED BY <1>2, <3>1, <3>2
  <2>2. \A n \in DOMAIN buffer'.samples : buffer'.samples[n] <= heard'
    BY <1>1, <1>5
  <2> QED BY <1>3, <2>1, <2>2 DEF BufferOrder
<1>7. PICK d \in {0, 1} : FramesFrom(d) /\ (Receive => d = 1)
  BY FramesStep DEF OrderInv
<1> DEFINE Kept(k) == k + d \in 1..Len(wire) /\ wire'[k] = wire[k + d]
           New(k)  == Relay /\ d = 0 /\ k = Len(wire) + 1 /\ wire'[k] = Relayed(Head(conn.queue))
<1>8. Len(wire) \in Nat /\ Len(wire') \in Nat
  <2>1. IsSequence(wire) /\ IsSequence(wire')
    BY OutcomeNext DEF OrderInv, OutcomeInv, WireInv
  <2> QED BY <2>1 DEF IsSequence
<1>9. \A k \in 1..Len(wire') : Relays(wire'[k]) => Kept(k) \/ New(k)
  BY <1>7 DEF FramesFrom, Relays, Bare, MessageKind, LifecycleKind
<1>10. \A k \in 1..Len(wire') : Kept(k) /\ Relays(wire'[k]) =>
         /\ wire'[k].item \in 1..heard
         /\ \A m \in DOMAIN conn.queue : wire'[k].item < conn.queue[m]
         /\ \A n \in DOMAIN buffer.samples : buffer.samples[n] < wire'[k].item
  BY DEF OrderInv, WireOrder
<1>11. ASSUME NEW k \in 1..Len(wire'), New(k)
       PROVE  /\ wire'[k].item \in 1..heard
              /\ wire'[k].item = Head(conn.queue)
              /\ 1 \in DOMAIN conn.queue /\ Head(conn.queue) = conn.queue[1]
  <2>1. conn.queue # <<>> /\ conn.queue \in Seq(Items) /\ wire'[k].item = Head(conn.queue)
    BY <1>11 DEF Relay, OrderInv, OutcomeInv, ConnInv, Relayed
  <2>2. 1 \in DOMAIN conn.queue /\ Head(conn.queue) = conn.queue[1] /\ Head(conn.queue) \in Items
    BY <2>1
  <2>3. Head(conn.queue) <= heard
    BY <2>2 DEF OrderInv, QueueOrder
  <2> QED BY <1>1, <2>1, <2>2, <2>3 DEF Items
<1>12. WireOrder'
  <2> SUFFICES ASSUME NEW k \in 1..Len(wire'), Relays(wire'[k])
               PROVE  /\ wire'[k].item \in 1..heard'
                      /\ \A j \in 1..Len(wire') :
                           j < k /\ Relays(wire'[j]) => wire'[j].item < wire'[k].item
                      /\ \A m \in DOMAIN conn'.queue : wire'[k].item < conn'.queue[m]
                      /\ \A n \in DOMAIN buffer'.samples : buffer'.samples[n] < wire'[k].item
    BY DEF WireOrder, Relays
  <2>1. Kept(k) \/ New(k)
    BY <1>9
  <2>2. wire'[k].item \in 1..heard
    BY <1>10, <1>11, <2>1
  <2>3. ASSUME NEW j \in 1..Len(wire'), j < k, Relays(wire'[j])
        PROVE  wire'[j].item < wire'[k].item
    <3>1. Kept(j) \/ New(j)
      BY <1>9, <2>3
    <3>2. ~New(j)
      BY <1>8, <2>1, <2>3
    <3>3. CASE Kept(k)
      <4>1. j + d < k + d
        BY <1>7, <1>8, <2>3
      <4> QED BY <2>3, <3>1, <3>2, <3>3, <4>1 DEF OrderInv, WireOrder
    <3>4. CASE New(k)
      BY <1>10, <1>11, <2>3, <3>1, <3>2, <3>4
    <3> QED BY <2>1, <3>3, <3>4
  <2>4. ASSUME NEW m \in DOMAIN conn'.queue
        PROVE  wire'[k].item < conn'.queue[m]
    <3>1. CASE Queued(conn'.queue[m]) /\ Kept(k)
      BY <1>10, <3>1 DEF Queued
    <3>2. CASE Queued(conn'.queue[m]) /\ New(k)
      BY <1>11, <3>2 DEF Queued
    <3>3. CASE ~Relay /\ heard < conn'.queue[m]
      BY <1>1, <1>2, <2>2, <3>3
    <3> QED BY <1>2, <2>1, <3>1, <3>2, <3>3
  <2>5. ASSUME NEW n \in DOMAIN buffer'.samples
        PROVE  buffer'.samples[n] < wire'[k].item
    <3>1. CASE New(k)
      BY <1>5, <1>11, <3>1
    <3>2. CASE Kept(k) /\ \E m \in DOMAIN buffer.samples : buffer'.samples[n] = buffer.samples[m]
      BY <1>10, <3>2
    <3>3. CASE /\ Kept(k) /\ Receive /\ 1 \in 1..Len(wire) /\ Relays(wire[1])
               /\ buffer'.samples[n] = wire[1].item
      <4>1. d = 1 /\ 1 < k + 1
        BY <1>7, <1>8, <3>3
      <4> QED BY <3>3, <4>1 DEF OrderInv, WireOrder
    <3> QED BY <1>3, <2>1, <3>1, <3>2, <3>3
  <2>6. wire'[k].item \in 1..heard'
    BY <1>1, <2>2
  <2> QED BY <2>3, <2>4, <2>5, <2>6
<1> QED BY <1>4, <1>6, <1>12

-----------------------------------------------------------------------------
(* What is read for a snapshot. *)

\* What is stored of a kind is a finite set of numbers.
LEMMA OfKind ==
  ASSUME NEW kind
  PROVE  Stored(kind) \in SUBSET Nat /\ IsFiniteSet(Stored(kind))
<1>1. Len(Script) \in Nat /\ 1 \in Int
  BY LiveRunAssumption
<1>2. IsFiniteSet(Items)
  BY <1>1, FS_Interval DEF Items
<1>3. Stored(kind) \in SUBSET Items /\ Items \in SUBSET Nat
  BY DEF Stored, Of, Items
<1> QED BY <1>2, <1>3, FS_Subset

\* Every stride-th of numbers is a sequence of numbers.
LEMMA StridedNumbers ==
  ASSUME NEW s \in Seq(Nat)
  PROVE  Strided(s) \in Seq(Nat)
<1> DEFINE stride == Greater(1, (Len(s) + SnapshotTelemetry - 1) \div SnapshotTelemetry)
           places == {k \in DOMAIN s : (k - 1) % stride = 0}
           kept   == Ascending(places)
<1>1. DOMAIN s = 1..Len(s) /\ Len(s) \in Nat /\ 1 \in Int
  OBVIOUS
<1>2. IsFiniteSet(DOMAIN s)
  BY <1>1, FS_Interval
<1>3. places \in SUBSET (DOMAIN s) /\ DOMAIN s \in SUBSET Nat
  BY <1>1
<1>4. places \in SUBSET Nat /\ IsFiniteSet(places)
  BY <1>2, <1>3, FS_Subset
<1> HIDE DEF places
<1>5. InOrder(kept) /\ Range(kept) = places
  BY <1>4, AscendingSet
<1> HIDE DEF kept
<1>6. \A k \in DOMAIN kept : kept[k] \in DOMAIN s
  BY <1>3, <1>5 DEF Range
<1>7. DOMAIN kept = 1..Len(kept) /\ Len(kept) \in Nat
  BY <1>5 DEF InOrder
<1>8. [k \in DOMAIN kept |-> s[kept[k]]] \in [1..Len(kept) -> Nat]
  BY <1>6, <1>7
<1>9. Strided(s) = [k \in DOMAIN kept |-> s[kept[k]]]
  BY DEF Strided, kept, places
<1> QED BY <1>7, <1>8, <1>9

\* What is read and sent for a snapshot is numbered.
LEMMA HistoryStep ==
  ASSUME OrderInv, [Next]_vars
  PROVE  HistoryNumbered'
<1>1. conn'.read.events \in Seq(Nat) /\ conn'.read.samples \in Seq(Nat)
  <2>1. CASE conn'.read = NoRead
    BY <2>1 DEF NoRead
  <2>2. CASE conn'.read = conn.read
    BY <2>2 DEF OrderInv, HistoryNumbered
  <2>3. CASE ReadRun
    <3>1. CASE conn' = NoConn
      BY <2>1, <3>1 DEF NoConn
    <3>2. CASE conn' # NoConn
      <4>1. conn' = [conn EXCEPT !.phase = "history", !.read.run = row, !.read.time = lastTime]
        BY <2>3, <3>2 DEF ReadRun
      <4>2. /\ DOMAIN conn = {"phase", "read", "queue", "seen"}
            /\ DOMAIN conn.read = {"run", "time", "events", "samples"}
        BY DEF OrderInv, OutcomeInv, ConnInv
      <4>3. /\ conn'.read.events = conn.read.events /\ conn'.read.samples = conn.read.samples
        BY <4>1, <4>2
      <4> QED BY <4>3 DEF OrderInv, HistoryNumbered
    <3> QED BY <3>1, <3>2
  <2>4. CASE ReadHistory
    <3> DEFINE events  == Ascending(Stored("event"))
               samples == Ascending(Stored("telemetry"))
    <3>1. InOrder(events) /\ InOrder(samples)
      BY OfKind, AscendingSet
    <3>2. conn'.read.events = Recent(events) /\ conn'.read.samples = Strided(samples)
      BY <2>4 DEF ReadHistory, OrderInv, OutcomeInv, ConnInv
    <3> HIDE DEF events, samples
    <3>3. Recent(events) \in Seq(Nat)
      BY <3>1, NewestInOrder, LiveRunAssumption DEF Recent, InOrder
    <3>4. Strided(samples) \in Seq(Nat)
      BY <3>1, StridedNumbers DEF InOrder
    <3> QED BY <3>2, <3>3, <3>4
  <2>5. CASE Hear
    <3>1. conn'.read = conn.read
      BY <2>5 DEF Hear, OrderInv, OutcomeInv, ConnInv
    <3> QED BY <2>2, <3>1
  <2>6. CASE Subscribe \/ Relay \/ WaitEnds \/ Idle
    <3>1. CASE conn' = NoConn
      BY <2>1, <3>1 DEF NoConn
    <3>2. CASE conn' # NoConn
      <4>1. conn'.read \in {NoRead, conn.read}
        BY <2>6, <3>2 DEF Subscribe, Relay, WaitEnds, Idle, SendCompleted, OrderInv, OutcomeInv,
                          ConnInv
      <4> QED BY <2>1, <2>2, <4>1
    <3> QED BY <3>1, <3>2
  <2>7. CASE Connect \/ Drop
    BY <2>1, <2>7 DEF Connect, Drop, NoConn
  <2>8. CASE \/ Publish \/ Writers \/ Miss \/ FlushTimer \/ Receive
             \/ StaleTimer \/ Silence \/ UNCHANGED vars
    BY <2>2, <2>8, WritersOnly
    DEF Publish, Miss, FlushTimer, Receive, StaleTimer, Silence, vars
  <2> QED BY <2>3, <2>4, <2>5, <2>6, <2>7, <2>8 DEF Next, Server, Browser
<1>2. PICK d \in {0, 1} : FramesFrom(d)
  BY FramesStep DEF OrderInv
<1>3. ASSUME NEW k \in 1..Len(wire'), wire'[k].kind = "snapshot"
      PROVE  wire'[k].events \in Seq(Nat) /\ wire'[k].samples \in Seq(Nat)
  <2>1. CASE Relay /\ wire'[k] = Relayed(Head(conn.queue))
    <3>1. Head(conn.queue) \in Items
      BY <2>1 DEF Relay, OrderInv, OutcomeInv, ConnInv
    <3>2. wire'[k].kind \in MessageKind
      BY <2>1, <3>1, LiveRunAssumption DEF Relayed, Items
    <3> QED BY <1>3, <3>2 DEF MessageKind, LifecycleKind
  <2>2. CASE k + d \in 1..Len(wire) /\ wire'[k] = wire[k + d]
    BY <1>3, <2>2 DEF OrderInv, HistoryNumbered
  <2>3. CASE wire'[k].events = conn.read.events /\ wire'[k].samples = conn.read.samples
    BY <2>3 DEF OrderInv, HistoryNumbered
  <2> QED BY <1>2, <1>3, <2>1, <2>2, <2>3 DEF FramesFrom, Bare
<1> QED BY <1>1, <1>3 DEF HistoryNumbered

\* What is shown stays in order.
LEMMA ShowsStep ==
  ASSUME OrderInv, [Next]_vars
  PROVE  Shows(store')
<1>1. Shows(store) /\ Shows(Flushed) /\ IsStore(store')
  BY ShowsFlushed, OutcomeNext DEF OrderInv, OutcomeInv
<1>2. ASSUME NEW x, store' = SetStatus(store, x) \/ store' = SetStatus(Flushed, x)
      PROVE  Shows(store')
  BY <1>1, <1>2, ShowsSame
<1>3. ASSUME NEW code, Closed(code)
      PROVE  Shows(store')
  <2> DEFINE s == IF code = 1000 \/ Flushed.finished THEN Flushed
                  ELSE SetError(Flushed, "failed")
  <2>1. store' \in {SetStatus(s, "closed"), SetStatus(s, "reconnecting"),
                   SetStatus(SetError(s, "unavailable"), "error")}
    BY <1>3 DEF Closed, Retry
  <2>2. Shows(s)
    BY <1>1, ShowsSame
  <2> HIDE DEF s
  <2>3. Shows(SetError(s, "unavailable"))
    BY <2>2, ShowsSame
  <2> QED BY <2>1, <2>2, <2>3, ShowsSame
<1>4. CASE Receive
  <2>1. /\ Head(wire) = wire[1] /\ 1 \in 1..Len(wire)
    <3>1. wire # <<>> /\ IsSequence(wire)
      BY <1>4 DEF Receive, OrderInv, OutcomeInv, WireInv
    <3> QED BY <3>1, TailSequence
  <2>2. CASE OnOpen
    <3>1. Shows(SetError(store, "none"))
      BY <1>1, ShowsSame
    <3>2. Shows(SetStatus(SetError(store, "none"), "live"))
      BY <3>1, ShowsSame
    <3> QED BY <2>2, <3>2, ShowsSame DEF OnOpen
  <2>3. CASE OnSnapshot
    <3>1. /\ wire[1].run \in Rows /\ wire[1].events \in Seq(Nat)
          /\ wire[1].samples \in Seq(Nat)
      BY <2>1, <2>3 DEF OnSnapshot, OrderInv, OutcomeInv, WireInv, HistoryNumbered
    <3>2. Shows(ApplySnapshot(Flushed, wire[1]))
      BY <1>1, <3>1, ShowsSnapshot
    <3>3. PICK x : store' = SetStatus(ApplySnapshot(Flushed, wire[1]), x)
      BY <2>1, <2>3 DEF OnSnapshot
    <3> QED BY <3>2, <3>3, ShowsSame
  <2>4. CASE OnLifecycle
    BY <1>1, <2>4, ShowsSame DEF OnLifecycle
  <2>5. CASE OnEvent \/ OnTelemetry
    BY <1>1, <2>5, ShowsSame DEF OnEvent, OnTelemetry
  <2>6. CASE OnFinished
    BY <1>1, <2>6, ShowsSame DEF OnFinished
  <2>7. CASE OnHeartbeat
    <3>1. Shows(Touch(store))
      BY <1>1, ShowsSame
    <3> QED BY <2>7, <3>1, ShowsSame DEF OnHeartbeat
  <2>8. CASE OnCompleted
    BY <1>1, <2>8, ShowsSame DEF OnCompleted
  <2>9. CASE OnClose
    BY <1>3, <2>9 DEF OnClose
  <2> QED BY <1>4, <2>2, <2>3, <2>4, <2>5, <2>6, <2>7, <2>8, <2>9 DEF Receive
<1>5. CASE Connect \/ StaleTimer
  BY <1>2, <1>5 DEF Connect, StaleTimer
<1>6. CASE Drop
  BY <1>3, <1>6 DEF Drop
<1>7. CASE FlushTimer
  BY <1>1, <1>7 DEF FlushTimer
<1>8. CASE Silence
  BY <1>1, <1>8 DEF Silence, Shows, IsStore, StoreFields
<1>9. CASE Server \/ Publish \/ Writers \/ Hear \/ Miss \/ UNCHANGED vars
  BY <1>1, <1>9, WritersOnly DEF Server, ReadRun, ReadHistory, Subscribe, Relay, WaitEnds, Idle, Publish,
     Hear, Miss, vars
<1> QED BY <1>4, <1>5, <1>6, <1>7, <1>8, <1>9 DEF Next, Browser

\* At first nothing was heard and nothing is shown.
LEMMA OrderInit == Init => OrderInv
<1> SUFFICES ASSUME Init PROVE OrderInv
  OBVIOUS
<1>1. OutcomeInv
  BY OutcomeInit
<1>2. QueueOrder /\ BufferOrder
  BY DEF Init, QueueOrder, BufferOrder, NoConn, NoBuffer, InOrder, Grows
<1>3. WireOrder /\ HistoryNumbered
  <2>1. conn.read.events = <<>> /\ conn.read.samples = <<>> /\ wire = <<>>
    BY DEF Init, NoConn, NoRead
  <2>2. 1..Len(wire) = {}
    BY <2>1
  <2> QED BY <2>1, <2>2 DEF WireOrder, HistoryNumbered
<1>4. Shows(store)
  BY <1>1 DEF Init, OutcomeInv, Shows, InOrder, Grows, Started, Empty
<1> QED BY <1>1, <1>2, <1>3, <1>4 DEF OrderInv

\* Every step keeps all of that.
LEMMA OrderNext ==
  ASSUME OrderInv, [Next]_vars
  PROVE  OrderInv'
<1>1. OutcomeInv'
  BY OutcomeNext DEF OrderInv
<1>2. Shows(store)'
  BY ShowsStep DEF Shows, InOrder, IsStore
<1> QED BY <1>1, <1>2, OrderStep, HistoryStep DEF OrderInv

\* Events and samples are shown once and in order, whether they come with a
\* snapshot, from the queue or again after a reconnect.
THEOREM ShownOnce == Spec => []NothingDoubled
<1>1. Init => OrderInv
  BY OrderInit
<1>2. OrderInv /\ [Next]_vars => OrderInv'
  BY OrderNext
<1>3. OrderInv => NothingDoubled
  BY DEF OrderInv, Shows, InOrder, Grows, NothingDoubled
<1> QED BY <1>1, <1>2, <1>3, PTL DEF Spec

-----------------------------------------------------------------------------
(* The snapshot of a completed run. *)

\* A run is completed by the last of its messages.  What the database lacks of
\* its events from then on are some whose handling had failed, and an event whose
\* handling has failed stays one.
WholeInv ==
  /\ OutcomeInv
  /\ dealt \in 0..sent
  /\ missing \subseteq failed /\ failed \subseteq 1..dealt
  /\ row.state = "COMPLETED" => dealt = Len(Script)
  /\ conn.phase = "accepted" /\ conn.read.run.state = "COMPLETED" =>
       WholeBut(conn.read.events, failed)
  /\ \A k \in 1..Len(wire) :
       wire[k].kind = "snapshot" /\ wire[k].run.state = "COMPLETED" =>
         WholeBut(wire[k].events, failed)

\* Only the last message completes the run.
LEMMA CompletedLast ==
  ASSUME WholeInv, [Next]_vars
  PROVE  /\ dealt' \in 0..sent'
         /\ missing' \subseteq failed' /\ failed' \subseteq 1..dealt'
         /\ failed \subseteq failed'
         /\ row'.state = "COMPLETED" => dealt' = Len(Script)
<1>1. /\ Len(Script) \in Nat /\ sent \in 0..Len(Script) /\ dealt \in 0..sent
      /\ missing \subseteq failed /\ failed \subseteq 1..dealt
      /\ row.state = "COMPLETED" => dealt = Len(Script)
      /\ OutcomeInv
  BY LiveRunAssumption DEF WholeInv, OutcomeInv, BusInv
<1>2. CASE Consume
  <2>1. /\ dealt < sent /\ dealt' = dealt + 1 /\ UNCHANGED <<sent, failed, missing>>
        /\ Handled(dealt')
    BY <1>2 DEF Consume
  <2>2. dealt' \in 1..Len(Script) /\ row.state # "COMPLETED"
    BY <1>1, <2>1
  <2>3. row'.state = "COMPLETED" => Script[dealt'] = "finished"
    BY <1>1, <2>1, <2>2, HandledRow
  <2>4. row'.state = "COMPLETED" => dealt' = Len(Script)
    BY <2>2, <2>3, LiveRunAssumption
  <2> QED BY <1>1, <2>1, <2>2, <2>4
<1>3. CASE Redeliver
  <2>1. PICK i \in missing : /\ Handled(i) /\ missing' = missing \ {i}
                             /\ UNCHANGED <<sent, dealt, failed>>
    BY <1>3 DEF Redeliver
  <2>2. i \in 1..Len(Script) /\ i <= dealt
    BY <1>1
  <2>3. Script[i] = "finished" => dealt = Len(Script)
    BY <1>1, <2>2, LiveRunAssumption
  <2>4. row'.state = "COMPLETED" => row' = row \/ Script[i] = "finished"
    BY <1>1, <2>1, HandledRow
  <2> QED BY <1>1, <2>1, <2>3, <2>4
<1>4. CASE ConsumeFails
  <2>1. /\ dealt < sent /\ dealt' = dealt + 1 /\ UNCHANGED <<sent, row>>
        /\ failed' = failed \cup {dealt'} /\ missing' = missing \cup {dealt'}
    BY <1>4 DEF ConsumeFails
  <2> QED BY <1>1, <2>1
<1>5. CASE CloseElsewhere \/ CloseAbandoned
  <2>1. UNCHANGED <<sent, dealt, failed, missing>> /\ row'.state # "COMPLETED"
    BY <1>5 DEF CloseElsewhere, CloseAbandoned, CloseAs
  <2> QED BY <1>1, <2>1
<1>6. CASE Publish
  <2>1. UNCHANGED <<dealt, failed, missing, row>> /\ sent' = sent + 1
    BY <1>6 DEF Publish, database
  <2> QED BY <1>1, <2>1
<1>7. CASE Hear \/ Miss \/ Server \/ Browser \/ Drop \/ Silence \/ UNCHANGED vars
  <2>1. UNCHANGED <<dealt, failed, missing, row, sent>>
    BY <1>7 DEF Hear, Miss, Server, ReadRun, ReadHistory, Subscribe, Relay, WaitEnds, Idle, Browser,
       Connect, Receive, FlushTimer, StaleTimer, Drop, Silence, vars, server, database
  <2> QED BY <1>1, <2>1
<1> QED BY <1>2, <1>3, <1>4, <1>5, <1>6, <1>7 DEF Next, Writers

\* What is whole but for some stays so when there are more of them.
LEMMA WholeStays ==
  ASSUME NEW S, NEW T, S \subseteq T, NEW events, WholeBut(events, S)
  PROVE  WholeBut(events, T)
BY DEF WholeBut

\* So a snapshot of a completed run is whole.
LEMMA WholeNext ==
  ASSUME WholeInv, [Next]_vars
  PROVE  WholeInv'
<1>1. OutcomeInv' /\ OutcomeInv
  BY OutcomeNext DEF WholeInv
<1>2. /\ dealt' \in 0..sent'
      /\ missing' \subseteq failed' /\ failed' \subseteq 1..dealt'
      /\ failed \subseteq failed'
      /\ row'.state = "COMPLETED" => dealt' = Len(Script)
  BY CompletedLast
<1>3. conn'.phase = "accepted" /\ conn'.read.run.state = "COMPLETED" =>
        WholeBut(conn'.read.events, failed')
  <2> SUFFICES ASSUME conn'.phase = "accepted", conn'.read.run.state = "COMPLETED"
               PROVE  WholeBut(conn'.read.events, failed')
    OBVIOUS
  <2>1. CASE ReadHistory
    <3>1. /\ conn.phase = "history" /\ conn'.read.run = conn.read.run
          /\ conn'.read.events = Recent(Ascending(Stored("event")))
      BY <1>1, <2>1 DEF ReadHistory, OutcomeInv, ConnInv
    <3>2. row.state = "COMPLETED"
      BY <1>1, <3>1 DEF OutcomeInv, ConnInv, Terminal, TerminalRunStates
    <3>3. dealt = Len(Script) /\ Len(Script) \in Nat /\ missing \in SUBSET failed
      BY <3>2, LiveRunAssumption DEF WholeInv
    <3>4. Stored("event") = Of("event") \ missing
      BY <3>3 DEF Stored, Of, Items
    <3>5. WholeBut(conn'.read.events, failed)
      BY <3>1, <3>3, <3>4 DEF Recent, WholeBut
    <3> QED BY <1>2, <3>5, WholeStays
  <2>2. CASE conn'.phase = conn.phase /\ conn'.read = conn.read
    BY <1>2, <2>2, WholeStays DEF WholeInv
  <2>3. CASE ReadRun \/ Subscribe \/ Relay \/ WaitEnds \/ Idle \/ Connect \/ Drop
    <3>1. conn' # NoConn /\ conn' # [NoConn EXCEPT !.phase = "opening"]
      BY DEF NoConn
    <3>2. CASE Idle
      BY <1>1, <2>2, <3>1, <3>2 DEF Idle, SendCompleted
    <3>3. conn'.phase \in {"history", "relay", "wait"}
      BY <1>1, <2>3, <3>1, <3>2 DEF ReadRun, Subscribe, Relay, WaitEnds, Idle, SendCompleted, Connect, Drop,
         OutcomeInv, ConnInv
    <3> QED BY <3>3
  <2>4. CASE Hear
    BY <1>1, <2>2, <2>4 DEF Hear, OutcomeInv, ConnInv
  <2>5. CASE \/ Publish \/ Writers \/ Miss \/ FlushTimer \/ Receive
             \/ StaleTimer \/ Silence \/ UNCHANGED vars
    BY <2>2, <2>5, WritersOnly
    DEF Publish, Miss, FlushTimer, Receive, StaleTimer, Silence, vars
  <2> QED BY <2>1, <2>3, <2>4, <2>5 DEF Next, Server, Browser
<1>4. PICK d \in {0, 1} : FramesFrom(d)
  BY <1>1, FramesStep
<1>5. ASSUME NEW k \in 1..Len(wire'), wire'[k].kind = "snapshot", wire'[k].run.state = "COMPLETED"
      PROVE  WholeBut(wire'[k].events, failed')
  <2>1. ~(Relay /\ wire'[k] = Relayed(Head(conn.queue)))
    <3> SUFFICES ASSUME Relay, wire'[k] = Relayed(Head(conn.queue)) PROVE FALSE
      OBVIOUS
    <3>1. Head(conn.queue) \in Items
      BY <1>1 DEF Relay, OutcomeInv, ConnInv
    <3>2. wire'[k].kind \in MessageKind
      BY <3>1, LiveRunAssumption DEF Relayed, Items
    <3> QED BY <1>5, <3>2 DEF MessageKind, LifecycleKind
  <2>2. CASE k + d \in 1..Len(wire) /\ wire'[k] = wire[k + d]
    BY <1>2, <1>5, <2>2, WholeStays DEF WholeInv
  <2>3. CASE Subscribe /\ wire'[k].run = conn.read.run /\ wire'[k].events = conn.read.events
    BY <1>2, <1>5, <2>3, WholeStays DEF Subscribe, WholeInv
  <2> QED BY <1>4, <1>5, <2>1, <2>2, <2>3 DEF FramesFrom, Bare
<1> QED BY <1>1, <1>2, <1>3, <1>5 DEF WholeInv

\* A snapshot that says the run is completed has the newest of all its events but
\* those whose handling had failed, although the endpoint reads the run first and
\* its events later.
THEOREM CompletedIsWhole == Spec => []CompletedSnapshotIsWhole
<1>1. Init => WholeInv
  <2> SUFFICES ASSUME Init PROVE WholeInv
    OBVIOUS
  <2>1. /\ wire = <<>> /\ conn.phase = "none" /\ row.state # "COMPLETED" /\ dealt = 0 /\ sent = 0
        /\ failed = {} /\ missing = {}
    BY LiveRunAssumption DEF Init, NoConn
  <2>2. 1..Len(wire) = {}
    BY <2>1
  <2> QED BY <2>1, <2>2, OutcomeInit DEF WholeInv
<1>2. WholeInv /\ [Next]_vars => WholeInv'
  BY WholeNext
<1>3. WholeInv => CompletedSnapshotIsWhole
  <2> SUFFICES ASSUME WholeInv PROVE CompletedSnapshotIsWhole
    OBVIOUS
  <2>1. DOMAIN wire = 1..Len(wire)
    BY DEF WholeInv, OutcomeInv, WireInv, IsSequence
  <2> QED BY <2>1 DEF WholeInv, CompletedSnapshotIsWhole
<1> QED BY <1>1, <1>2, <1>3, PTL DEF Spec
=============================================================================
