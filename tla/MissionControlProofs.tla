------------------------- MODULE MissionControlProofs -------------------------
(***************************************************************************)
(* Proof that Mission Control shows the run that is selected, nothing of   *)
(* another, and calls analysed only what is completed (ShowsItsRun), for   *)
(* every set of runs, every number of events and every size of the         *)
(* snapshot and of the history that is fetched.                            *)
(***************************************************************************)
EXTENDS MissionControl, SequenceLemmas

RunState == {"QUEUED", "RUNNING"} \cup TerminalRunStates
RunRows  == [published : Nat, stored : Nat, state : RunState]

StoreFields ==
  {"run", "events", "samples", "latest", "time", "status", "quiet", "finished", "report", "error"}

\* A store, whatever it shows.
IsStore(s) == DOMAIN s = StoreFields /\ s.status \in ConnectionStatus

\* Events of run r.
Numbered(q, r) == q \in Seq(Nat) /\ Range(q) \subseteq EventsOf(r)

\* A store that shows nothing but run r: no other run, no other's events, and no
\* end that it has not come to.
ShowsOnly(s, r) ==
  /\ Numbered(s.events, r) /\ Numbered(s.samples, r)
  /\ s.run # NoRun =>
       /\ s.run \in [state : RunState, report : BOOLEAN, id : {r}]
       /\ Terminal(s.run) => s.run.state = run[r].state

PageInv ==
  /\ param \in Runs \cup {None} /\ owner \in Runs \cup {None}
  /\ owner = Selected(param, listed)
  /\ DOMAIN conn = {"phase", "pos", "end"} /\ conn.pos \in Nat
  /\ conn.phase # "none" => owner # None

\* What is cached of a run, and on its way to the cache, is that run's.
QueryInv ==
  \A r \in Runs :
    /\ cache[r].ok => Numbered(cache[r].events, r)
    /\ fetch[r].phase = "read" => Numbered(fetch[r].data.events, r)
    /\ metrics[r] = "have" => run[r].state = "COMPLETED"

QueryTypes ==
  /\ DOMAIN cache = Runs /\ DOMAIN fetch = Runs /\ DOMAIN metrics = Runs
  /\ \A r \in Runs : DOMAIN fetch[r] = {"phase", "data"}

ShowsInv ==
  /\ run \in [Runs -> RunRows]
  /\ PageInv /\ QueryTypes /\ QueryInv
  /\ IsStore(store)
  /\ owner # None => ShowsOnly(store, owner)

-----------------------------------------------------------------------------
(* Which run is shown. *)

\* No run is none.
LEMMA RunsAreSome == None \notin Runs /\ Runs \subseteq Nat
BY MissionControlAssumption DEF None

\* A set of runs has a newest.
LEMMA NewestRun ==
  ASSUME NEW S \in SUBSET Runs, S # {}
  PROVE  Max(S) \in S
<1>1. S \in SUBSET Nat /\ IsFiniteSet(S)
  BY FS_Subset, MissionControlAssumption
<1> DEFINE q == Ranked(S)
<1>2. q \in Seq(Nat) /\ Range(q) = S /\ Grows(q)
  BY <1>1, RankedSet
<1> HIDE DEF q
<1>3. q # <<>>
  BY <1>2 DEF Range
<1>4. Len(q) \in DOMAIN q /\ DOMAIN q = 1..Len(q) /\ Len(q) \in Nat
  BY <1>2, <1>3
<1>5. q[Len(q)] \in S /\ \A y \in S : q[Len(q)] >= y
  <2>1. ASSUME NEW i \in DOMAIN q
        PROVE  q[Len(q)] >= q[i]
    BY <1>2, <1>4 DEF Grows
  <2> QED BY <1>2, <1>4, <2>1 DEF Range
<1> QED BY <1>5 DEF Max

\* What is selected is one of the runs, if there is one to select.
LEMMA SelectedRun ==
  ASSUME NEW p \in Runs \cup {None}, NEW states
  PROVE  /\ Selected(p, states) \in Runs \cup {None}
         /\ p # None => Selected(p, states) = p
         /\ states # <<>> /\ Runs # {} => Selected(p, states) \in Runs
<1>1. PickRun(states) \in Runs \cup {None} /\ (Runs # {} => PickRun(states) \in Runs)
  <2> DEFINE active    == {r \in Runs : Active(states[r])}
             completed == {r \in Runs : states[r] = "COMPLETED"}
  <2>1. active \in SUBSET Runs /\ completed \in SUBSET Runs /\ Runs \in SUBSET Runs
    OBVIOUS
  <2> HIDE DEF active, completed
  <2>2. PickRun(states) = IF active # {} THEN Max(active)
                          ELSE IF completed # {} THEN Max(completed)
                          ELSE IF Runs # {} THEN Max(Runs) ELSE None
    BY DEF PickRun, active, completed
  <2> QED BY <2>1, <2>2, NewestRun
<1> QED BY <1>1 DEF Selected

-----------------------------------------------------------------------------
(* What is stored, streamed and merged. *)

\* Event i of a run is a number, and one of the run's.
LEMMA EventOfRun ==
  ASSUME NEW r \in Runs, NEW i \in 1..Total
  PROVE  Event(r, i) \in Nat /\ Event(r, i) \in EventsOf(r)
<1>1. r - 1 \in Nat /\ Total \in Nat /\ i \in Nat
  BY MissionControlAssumption
<1>2. (r - 1) * Total \in Nat
  BY <1>1
<1> QED BY <1>1, <1>2 DEF Event, EventsOf

\* The smaller of two numbers.
LEMMA MinOfTwo ==
  ASSUME NEW m \in Nat, NEW n \in Nat
  PROVE  Min({m, n}) \in {m, n} /\ Min({m, n}) <= m /\ Min({m, n}) <= n
<1>1. \E x \in {m, n} : \A y \in {m, n} : x <= y
  <2>1. m <= n \/ n <= m
    OBVIOUS
  <2> QED BY <2>1
<1>2. Min({m, n}) \in {m, n} /\ \A y \in {m, n} : Min({m, n}) <= y
  BY <1>1 DEF Min
<1> QED BY <1>2

\* What is stored of a run is the run's.
LEMMA StoredOfRun ==
  ASSUME NEW r \in Runs, run \in [Runs -> RunRows]
  PROVE  Numbered(Stored(r), r)
<1> DEFINE m == Min({run[r].stored, Total})
<1>1. m \in Nat /\ m <= Total /\ Total \in Nat
  BY MinOfTwo, MissionControlAssumption DEF RunRows
<1>2. Stored(r) = [i \in 1..m |-> Event(r, i)]
  BY DEF Stored
<1> HIDE DEF m
<1>3. \A i \in 1..m : Event(r, i) \in Nat /\ Event(r, i) \in EventsOf(r)
  BY <1>1, EventOfRun
<1>4. Stored(r) \in [1..m -> Nat]
  BY <1>2, <1>3
<1>5. Stored(r) \in Seq(Nat)
  BY <1>1, <1>4
<1> QED BY <1>2, <1>3, <1>5 DEF Numbered, Range

\* A part of a sequence of a run's events holds the run's.
LEMMA PartOfRun ==
  ASSUME NEW r, NEW q, Numbered(q, r), NEW m \in 1..(Len(q) + 1), NEW n \in 0..Len(q)
  PROVE  Numbered(SubSeq(q, m, n), r)
<1>1. q \in Seq(Nat) /\ Len(q) \in Nat /\ DOMAIN q = 1..Len(q)
  BY DEF Numbered
<1> DEFINE p == SubSeq(q, m, n)
<1>2. p \in Seq(Nat) /\ Len(p) \in Nat /\ DOMAIN p = 1..Len(p)
  BY <1>1
<1>3. \A i \in 1..Len(p) : p[i] = q[m + i - 1] /\ m + i - 1 \in 1..Len(q)
  BY <1>1
<1> HIDE DEF p
<1>4. Range(p) \subseteq Range(q)
  BY <1>1, <1>2, <1>3 DEF Range
<1> QED BY <1>2, <1>4 DEF Numbered, p

\* So does its end.
LEMMA NewestOfRun ==
  ASSUME NEW r, NEW q, Numbered(q, r), NEW n \in Nat
  PROVE  Numbered(Newest(q, n), r)
<1>1. Len(q) \in Nat
  BY DEF Numbered
<1>2. CASE Len(q) > n
  <2>1. Len(q) - n + 1 \in 1..(Len(q) + 1) /\ Len(q) \in 0..Len(q)
    BY <1>1, <1>2
  <2> QED BY <1>2, <2>1, PartOfRun DEF Newest
<1> QED BY <1>2 DEF Newest

\* Merging the events of a run gives events of the run.
LEMMA MergedOfRun ==
  ASSUME NEW r, NEW q, Numbered(q, r), NEW p, Numbered(p, r), NEW n \in Nat
  PROVE  Numbered(MergeEvents(q, p, n), r) /\ Numbered(MergeSamples(q, p, n), r)
<1> DEFINE S == Range(q) \cup Range(p)
<1>1. S \in SUBSET Nat /\ S \subseteq EventsOf(r) /\ IsFiniteSet(Range(q)) /\ IsFiniteSet(Range(p))
  BY FiniteRange DEF Numbered
<1>2. IsFiniteSet(S)
  BY <1>1, FS_Union
<1>3. Ascending(S) = Ranked(S)
  BY DEF Ascending, Ranked
<1>4. Numbered(Ascending(S), r)
  BY <1>1, <1>2, <1>3, RankedSet DEF Numbered
<1>5. Numbered(q \o p, r)
  <2>1. q \in Seq(Nat) /\ p \in Seq(Nat)
    BY DEF Numbered
  <2>2. /\ q \o p \in Seq(Nat) /\ Len(q) \in Nat /\ Len(p) \in Nat
        /\ DOMAIN (q \o p) = 1..(Len(q) + Len(p))
        /\ DOMAIN q = 1..Len(q) /\ DOMAIN p = 1..Len(p)
    BY <2>1
  <2>3. \A i \in 1..Len(q) : (q \o p)[i] = q[i]
    BY <2>1
  <2>4. \A i \in 1..Len(p) : (q \o p)[Len(q) + i] = p[i]
    BY <2>1, <2>2
  <2>5. ASSUME NEW i \in 1..(Len(q) + Len(p))
        PROVE  (q \o p)[i] \in S
    <3>1. CASE i \in 1..Len(q)
      BY <2>3, <2>2, <3>1 DEF Range
    <3>2. CASE i > Len(q)
      <4>1. i - Len(q) \in 1..Len(p) /\ i = Len(q) + (i - Len(q))
        BY <2>2, <3>2
      <4>2. (q \o p)[i] = p[i - Len(q)]
        BY <2>4, <4>1
      <4> QED BY <2>2, <4>1, <4>2 DEF Range
    <3> QED BY <2>2, <3>1, <3>2
  <2>6. Range(q \o p) \subseteq S
    BY <2>2, <2>5 DEF Range
  <2> QED BY <1>1, <2>2, <2>6 DEF Numbered
<1> HIDE DEF S
<1>6. MergeEvents(q, p, n) \in {q, Newest(Ascending(S), n)}
  BY DEF MergeEvents, S
<1>7. MergeSamples(q, p, n) \in {q, Newest(Ascending(S), n), Newest(q \o p, n)}
  BY DEF MergeSamples, S
<1> QED BY <1>4, <1>5, <1>6, <1>7, NewestOfRun

-----------------------------------------------------------------------------
(* What the store shows. *)

\* A store that was started shows nothing.
LEMMA StartedShowsOnly ==
  ASSUME NEW r
  PROVE  IsStore(Started) /\ ShowsOnly(Started, r) /\ IsStore(Empty)
<1>1. Numbered(<<>>, r)
  BY DEF Numbered, Range
<1> QED BY <1>1 DEF Started, Empty, IsStore, StoreFields, ShowsOnly, ConnectionStatus

\* A change of status, more of the run's events and the news that it is over.
LEMMA StoreShowsOnly ==
  ASSUME NEW s, IsStore(s), NEW r, ShowsOnly(s, r)
  PROVE  /\ \A x \in ConnectionStatus : IsStore(SetStatus(s, x)) /\ ShowsOnly(SetStatus(s, x), r)
         /\ \A x : IsStore(ApplyRunFinished(s, x)) /\ ShowsOnly(ApplyRunFinished(s, x), r)
         /\ \A x, y : Numbered(x, r) /\ Numbered(y, r) =>
                        IsStore(Ingest(s, x, y)) /\ ShowsOnly(Ingest(s, x, y), r)
         /\ \A x : Numbered(x, r) => IsStore(ReplaceEvents(s, x)) /\ ShowsOnly(ReplaceEvents(s, x), r)
<1>1. ASSUME NEW x \in ConnectionStatus
      PROVE  IsStore(SetStatus(s, x)) /\ ShowsOnly(SetStatus(s, x), r)
  BY DEF SetStatus, IsStore, StoreFields, ShowsOnly
<1>2. ASSUME NEW x
      PROVE  IsStore(ApplyRunFinished(s, x)) /\ ShowsOnly(ApplyRunFinished(s, x), r)
  BY DEF ApplyRunFinished, IsStore, StoreFields, ShowsOnly
<1>3. ASSUME NEW x, NEW y, Numbered(x, r), Numbered(y, r)
      PROVE  IsStore(Ingest(s, x, y)) /\ ShowsOnly(Ingest(s, x, y), r)
  <2>1. /\ Numbered(MergeEvents(s.events, x, MaxEvents), r)
        /\ Numbered(MergeSamples(s.samples, y, MaxSamples), r)
    BY <1>3, MergedOfRun, StoreAssumption DEF ShowsOnly
  <2> QED BY <2>1 DEF Ingest, IsStore, StoreFields, ShowsOnly
<1>4. ASSUME NEW x, Numbered(x, r)
      PROVE  IsStore(ReplaceEvents(s, x)) /\ ShowsOnly(ReplaceEvents(s, x), r)
  <2>1. Numbered(<<>>, r)
    BY DEF Numbered, Range
  <2>2. Numbered(MergeEvents(<<>>, x, MaxEvents), r)
    BY <1>4, <2>1, MergedOfRun, StoreAssumption
  <2> QED BY <2>2 DEF ReplaceEvents, IsStore, StoreFields, ShowsOnly
<1> QED BY <1>1, <1>2, <1>3, <1>4

\* The last message of the stream, which tells the state the run has come to.
LEMMA CompletedShowsOnly ==
  ASSUME NEW s, IsStore(s), NEW r \in Runs, ShowsOnly(s, r), run \in [Runs -> RunRows],
         NEW m, m.state = run[r].state
  PROVE  IsStore(ApplyCompleted(s, m)) /\ ShowsOnly(ApplyCompleted(s, m), r)
<1>1. m.state \in RunState
  BY DEF RunRows
<1>2. CASE s.run = NoRun
  BY <1>2 DEF ApplyCompleted, IsStore, StoreFields, ShowsOnly, ConnectionStatus, NoRun
<1>3. CASE s.run # NoRun
  <2>1. /\ s.run \in [state : RunState, report : BOOLEAN, id : {r}]
    BY <1>3 DEF ShowsOnly
  <2>2. ApplyCompleted(s, m).run = [s.run EXCEPT !.state = m.state]
    BY <1>3 DEF ApplyCompleted, IsStore, StoreFields
  <2>3. /\ ApplyCompleted(s, m).run \in [state : RunState, report : BOOLEAN, id : {r}]
        /\ ApplyCompleted(s, m).run.state = run[r].state
    BY <1>1, <2>1, <2>2
  <2> QED BY <2>3 DEF ApplyCompleted, IsStore, StoreFields, ShowsOnly, ConnectionStatus
<1> QED BY <1>2, <1>3

\* A snapshot of the run.
LEMMA SnapshotShowsOnly ==
  ASSUME NEW s, IsStore(s), NEW r \in Runs, NEW m,
         m.run \in [state : RunState, report : BOOLEAN, id : {r}],
         m.run.state = run[r].state, Numbered(m.events, r), Numbered(m.samples, r)
  PROVE  IsStore(ApplySnapshot(s, m)) /\ ShowsOnly(ApplySnapshot(s, m), r)
<1>1. Numbered(<<>>, r)
  BY DEF Numbered, Range
<1>2. /\ Numbered(MergeEvents(<<>>, m.events, MaxEvents), r)
      /\ Numbered(MergeSamples(<<>>, m.samples, MaxSamples), r)
  BY <1>1, MergedOfRun, StoreAssumption
<1> QED BY <1>2 DEF ApplySnapshot, IsStore, StoreFields, ShowsOnly

-----------------------------------------------------------------------------
(* A render and its effects. *)

\* After a render the store shows nothing but the run that is selected, given
\* that it did so before or another is selected, and that what is cached of a run
\* is that run's.
LEMMA CommitStep ==
  ASSUME NEW s, NEW p, NEW states, NEW data, NEW requests, NEW known,
         Commit(s, p, states, data, requests, known),
         NEW sel \in Runs \cup {None}, sel = Selected(p, states),
         IsStore(s), sel # None /\ sel = owner => ShowsOnly(s, sel),
         \A r \in Runs : data[r].ok => Numbered(data[r].events, r)
  PROVE  /\ owner' = sel
         /\ IsStore(store') /\ (sel # None => ShowsOnly(store', sel))
         /\ \/ fetch' = requests
            \/ sel \in Runs /\ fetch' = [requests EXCEPT ![sel].phase = "asked"]
         /\ \/ metrics' = known
            \/ sel \in Runs /\ metrics' = [known EXCEPT ![sel] = "asked"]
<1> DEFINE started == IF sel # owner /\ sel # None THEN Started ELSE s
           found   == DataOf(sel, data)
<1>1. store' = IF found.ok /\ seen # <<sel, found>> THEN ReplaceEvents(started, found.events)
               ELSE started
  BY DEF Commit
<1>2. IsStore(started) /\ (sel # None => ShowsOnly(started, sel))
  BY StartedShowsOnly
<1> HIDE DEF started
<1>3. CASE sel = None
  <2>1. ~found.ok
    BY <1>3 DEF DataOf, NoData
  <2> QED BY <1>1, <1>2, <1>3, <2>1 DEF Commit
<1>4. CASE sel # None
  <2>1. sel \in Runs /\ found = data[sel]
    BY <1>4 DEF DataOf
  <2>2. found.ok => Numbered(found.events, sel)
    BY <2>1
  <2> HIDE DEF found
  <2>3. IsStore(store') /\ ShowsOnly(store', sel)
    BY <1>1, <1>2, <1>4, <2>2, StoreShowsOnly
  <2> QED BY <1>4, <2>1, <2>3 DEF Commit
<1> QED BY <1>3, <1>4

\* A step that renders keeps the invariant.
LEMMA Rendered ==
  ASSUME ShowsInv, UNCHANGED run,
         NEW s, NEW p \in Runs \cup {None}, NEW states, NEW data, NEW requests,
         Commit(s, p, states, data, requests, metrics),
         param' = p, listed' = states, cache' = data,
         IsStore(s), Selected(p, states) = owner /\ owner # None => ShowsOnly(s, owner),
         DOMAIN data = Runs, \A r \in Runs : data[r].ok => Numbered(data[r].events, r),
         DOMAIN requests = Runs,
         \A r \in Runs : /\ DOMAIN requests[r] = {"phase", "data"}
                         /\ requests[r].phase = "read" => Numbered(requests[r].data.events, r),
         DOMAIN conn' = {"phase", "pos", "end"}, conn'.pos \in Nat,
         conn'.phase # "none" => Selected(p, states) # None
  PROVE  ShowsInv'
<1> DEFINE sel == Selected(p, states)
<1>1. sel \in Runs \cup {None}
  BY SelectedRun
<1> HIDE DEF sel
<1>2. /\ owner' = sel
      /\ IsStore(store') /\ (sel # None => ShowsOnly(store', sel))
      /\ \/ fetch' = requests
         \/ sel \in Runs /\ fetch' = [requests EXCEPT ![sel].phase = "asked"]
      /\ \/ metrics' = metrics
         \/ sel \in Runs /\ metrics' = [metrics EXCEPT ![sel] = "asked"]
  BY <1>1, CommitStep DEF sel
<1>3. PageInv'
  BY <1>1, <1>2 DEF PageInv, sel, Selected, PickRun
<1>4. /\ DOMAIN fetch' = Runs
      /\ \A r \in Runs : /\ DOMAIN fetch'[r] = {"phase", "data"}
                         /\ fetch'[r].phase = "read" => Numbered(fetch'[r].data.events, r)
  BY <1>2
<1>5. /\ DOMAIN metrics' = Runs
      /\ \A r \in Runs : metrics'[r] = "have" => metrics[r] = "have"
  BY <1>2 DEF ShowsInv, QueryTypes
<1>6. QueryTypes' /\ QueryInv'
  BY <1>4, <1>5 DEF ShowsInv, QueryTypes, QueryInv, Numbered, EventsOf, Event
<1>7. IsStore(store)' /\ (owner # None => ShowsOnly(store, owner))'
  BY <1>2 DEF IsStore, ShowsOnly, Numbered, EventsOf, Event, Terminal
<1> QED BY <1>3, <1>6, <1>7 DEF ShowsInv

\* So does one that leaves what is shown alone, and the runs that are over.
LEMMA Unrendered ==
  ASSUME ShowsInv, UNCHANGED <<param, listed, owner, conn, store>>,
         run' \in [Runs -> RunRows],
         \A r \in Runs : Terminal(run[r]) => run'[r].state = run[r].state,
         QueryTypes', QueryInv'
  PROVE  ShowsInv'
<1>1. PageInv'
  BY DEF ShowsInv, PageInv, Selected, PickRun
<1>2. ASSUME NEW r \in Runs, ShowsOnly(store, r)
      PROVE  ShowsOnly(store, r)'
  <2>1. Terminal(store.run) /\ store.run # NoRun => Terminal(run[r])
    BY <1>2 DEF ShowsOnly, Terminal
  <2> QED BY <1>2, <2>1 DEF ShowsOnly, Numbered, EventsOf, Event, Terminal
<1>3. (owner # None => ShowsOnly(store, owner))'
  BY <1>2 DEF ShowsInv, PageInv
<1> QED BY <1>1, <1>3 DEF ShowsInv, IsStore

-----------------------------------------------------------------------------
(* The steps. *)

\* The run goes on, is stored or cancelled.
LEMMA RunGoesOn ==
  ASSUME ShowsInv, (\E r \in Runs : Publish(r) \/ Store(r)) \/ Cancel
  PROVE  ShowsInv'
<1>1. /\ UNCHANGED <<param, listed, owner, conn, store, cache, fetch, metrics>>
  BY DEF Publish, Store, Cancel, page, query
<1> DEFINE GoesOn ==
             /\ run' \in [Runs -> RunRows]
             /\ \A r \in Runs : Terminal(run[r]) => run'[r].state = run[r].state
<1>2. GoesOn
  <2>1. run \in [Runs -> RunRows]
    BY DEF ShowsInv
  <2>2. ASSUME NEW r \in Runs, NEW row \in RunRows, run' = [run EXCEPT ![r] = row],
               Terminal(run[r]) => row.state = run[r].state
        PROVE  GoesOn
    BY <2>1, <2>2 DEF Terminal
  <2>3. ASSUME NEW r \in Runs, Publish(r)
        PROVE  GoesOn
    <3> DEFINE row == [run[r] EXCEPT !.published = @ + 1]
    <3>1. row \in RunRows /\ row.state = run[r].state
      BY <2>1 DEF RunRows
    <3>2. run' = [run EXCEPT ![r] = row]
      BY <2>3 DEF Publish
    <3> QED BY <2>2, <3>1, <3>2
  <2>4. ASSUME NEW r \in Runs, Store(r)
        PROVE  GoesOn
    <3> DEFINE state == IF Terminal(run[r]) THEN run[r].state
                        ELSE IF run[r].stored = Total THEN "COMPLETED" ELSE "RUNNING"
               row == [run[r] EXCEPT !.stored = @ + 1, !.state = state]
    <3>1. state \in RunState
      BY <2>1 DEF RunRows, RunState, TerminalRunStates
    <3> HIDE DEF state
    <3>2. row \in RunRows /\ row.state = state
      <4>1. run[r] \in RunRows
        BY <2>1
      <4>2. ASSUME NEW x \in RunRows, NEW y \in RunState
            PROVE  /\ [x EXCEPT !.stored = @ + 1, !.state = y] \in RunRows
                   /\ [x EXCEPT !.stored = @ + 1, !.state = y].state = y
        <5>1. [x EXCEPT !.stored = @ + 1] \in RunRows
          BY DEF RunRows
        <5>2. \A z \in RunRows : [z EXCEPT !.state = y] \in RunRows /\ [z EXCEPT !.state = y].state = y
          BY DEF RunRows
        <5> QED BY <5>1, <5>2
      <4> QED BY <3>1, <4>1, <4>2
    <3>3. run' = [run EXCEPT ![r] = row]
      BY <2>4 DEF Store, state
    <3>4. Terminal(run[r]) => row.state = run[r].state
      BY <3>2 DEF state
    <3> HIDE DEF row
    <3> QED BY <2>2, <3>2, <3>3, <3>4
  <2>5. ASSUME Cancel
        PROVE  GoesOn
    <3> DEFINE row == [run[owner] EXCEPT !.state = "CANCELLED"]
    <3>1. owner \in Runs
      <4>1. owner # None
        BY <2>5 DEF Cancel, Screen
      <4> QED BY <4>1 DEF ShowsInv, PageInv
    <3>2. row \in RunRows /\ ~Terminal(run[owner])
      BY <2>1, <2>5, <3>1 DEF Cancel, RunRows, RunState, TerminalRunStates, Terminal
    <3>3. run' = [run EXCEPT ![owner] = row]
      BY <2>5 DEF Cancel
    <3> QED BY <2>2, <3>1, <3>2, <3>3
  <2> QED BY <2>3, <2>4, <2>5
<1>3. QueryTypes' /\ QueryInv'
  <2>1. ASSUME NEW r \in Runs, metrics[r] = "have"
        PROVE  run'[r].state = "COMPLETED"
    BY <1>2, <2>1 DEF ShowsInv, QueryInv, Terminal, TerminalRunStates
  <2> QED BY <1>1, <2>1 DEF ShowsInv, QueryTypes, QueryInv, Numbered, EventsOf, Event
<1> QED BY <1>1, <1>2, <1>3, Unrendered

\* What the store shows of the run that is selected.
LEMMA Showing ==
  ASSUME ShowsInv
  PROVE  /\ run \in [Runs -> RunRows] /\ IsStore(store) /\ param \in Runs \cup {None}
         /\ DOMAIN cache = Runs /\ DOMAIN fetch = Runs /\ DOMAIN metrics = Runs
         /\ \A r \in Runs : /\ cache[r].ok => Numbered(cache[r].events, r)
                            /\ DOMAIN fetch[r] = {"phase", "data"}
                            /\ fetch[r].phase = "read" => Numbered(fetch[r].data.events, r)
         /\ owner = Selected(param, listed)
         /\ owner # None => owner \in Runs /\ ShowsOnly(store, owner)
         /\ DOMAIN conn = {"phase", "pos", "end"} /\ conn.pos \in Nat
         /\ conn.phase # "none" => owner # None
BY DEF ShowsInv, PageInv, QueryTypes, QueryInv

\* A run is selected, or the list of runs is polled.
LEMMA Choosing ==
  ASSUME ShowsInv, (\E r \in Runs : Select(r)) \/ PollRuns
  PROVE  ShowsInv'
<1>1. ASSUME NEW p \in Runs \cup {None}, NEW states,
             Commit(store, p, states, cache, fetch, metrics),
             param' = p, listed' = states, cache' = cache, run' = run,
             conn' \in {Opening, conn},
             conn'.phase # "none" => Selected(p, states) # None
      PROVE  ShowsInv'
  <2>1. DOMAIN conn' = {"phase", "pos", "end"} /\ conn'.pos \in Nat
    BY <1>1, Showing DEF Opening
  <2> QED BY <1>1, <2>1, Showing, Rendered
<1>2. ASSUME NEW r \in Runs, Select(r)
      PROVE  ShowsInv'
  <2>1. Selected(r, listed) # None
    BY RunsAreSome DEF Selected
  <2> QED BY <1>1, <1>2, <2>1 DEF Select, server
<1>3. CASE PollRuns
  <2> DEFINE states == [r \in Runs |-> run[r].state]
  <2>1. /\ Commit(store, param, states, cache, fetch, metrics)
        /\ param' = param /\ listed' = states /\ cache' = cache /\ run' = run
        /\ conn' = IF Selected(param, states) # owner THEN Opening ELSE conn
    BY <1>3 DEF PollRuns, server
  <2>2. /\ param \in Runs \cup {None} /\ owner \in Runs \cup {None}
        /\ owner = Selected(param, listed)
    BY DEF ShowsInv, PageInv
  <2>3. Runs # {} => states # <<>>
    <3> SUFFICES ASSUME NEW r \in Runs, states = <<>> PROVE FALSE
      OBVIOUS
    <3>1. r \in DOMAIN states
      OBVIOUS
    <3> QED BY <3>1
  <2> HIDE DEF states
  <2>4. Selected(param, states) \in Runs \cup {None}
    BY <2>2, SelectedRun
  <2>5. CASE Runs = {}
    <3>1. owner = None /\ Selected(param, states) = None
      BY <2>2, <2>4, <2>5
    <3>2. conn'.phase = "none"
      BY <2>1, <3>1, Showing
    <3> QED BY <1>1, <2>1, <2>2, <3>1, <3>2
  <2>6. CASE Runs # {}
    <3>1. Selected(param, states) \in Runs
      BY <2>2, <2>3, <2>6, SelectedRun
    <3> QED BY <1>1, <2>1, <2>2, <3>1, RunsAreSome
  <2> QED BY <2>5, <2>6
<1> QED BY <1>2, <1>3

\* What the stream brings is the selected run's.
LEMMA Streaming ==
  ASSUME ShowsInv, Snapshot \/ Frame \/ Completed \/ Drop
  PROVE  ShowsInv'
<1>1. /\ owner \in Runs /\ ShowsOnly(store, owner) /\ IsStore(store)
      /\ run \in [Runs -> RunRows]
      /\ DOMAIN conn = {"phase", "pos", "end"} /\ conn.pos \in Nat
  BY Showing DEF Snapshot, Frame, Completed, Drop
<1>2. ASSUME NEW s, IsStore(s), ShowsOnly(s, owner), Arrives(s),
             DOMAIN conn' = {"phase", "pos", "end"}, conn'.pos \in Nat
      PROVE  ShowsInv'
  <2>1. /\ Commit(s, param, listed, cache, fetch, metrics)
        /\ param' = param /\ listed' = listed /\ cache' = cache /\ run' = run
    BY <1>2 DEF Arrives, server, page
  <2>2. Selected(param, listed) # None
    BY <1>1, Showing, RunsAreSome
  <2> QED BY <1>2, <2>1, <2>2, Showing, Rendered
<1>3. CASE Snapshot
  <2> DEFINE events == Newest(Stored(owner), SnapshotEvents)
             row == run[owner]
             m == [run     |-> [state |-> row.state, report |-> row.state = "COMPLETED",
                                id |-> owner],
                   time    |-> Final(Stored(owner)), events |-> events, samples |-> events]
  <2>1. Numbered(events, owner)
    BY <1>1, StoredOfRun, NewestOfRun, MissionControlAssumption
  <2>2. /\ row.state \in RunState /\ row.stored \in Nat /\ row.published \in Nat
    BY <1>1 DEF RunRows
  <2>3. /\ m.run \in [state : RunState, report : BOOLEAN, id : {owner}]
        /\ m.run.state = run[owner].state /\ m.events = events /\ m.samples = events
    BY <2>2
  <2>4. PICK x \in ConnectionStatus : Arrives(SetStatus(ApplySnapshot(store, m), x))
    BY <1>3 DEF Snapshot, ConnectionStatus
  <2>5. DOMAIN conn' = {"phase", "pos", "end"} /\ conn'.pos \in Nat
    <3>1. PICK pos \in row.stored..row.published :
            conn' = [phase |-> "live", pos |-> pos, end |-> Terminal(row)]
      BY <1>3 DEF Snapshot
    <3> QED BY <2>2, <3>1
  <2> HIDE DEF m, events
  <2>6. IsStore(ApplySnapshot(store, m)) /\ ShowsOnly(ApplySnapshot(store, m), owner)
    BY <1>1, <2>1, <2>3, SnapshotShowsOnly
  <2>7. /\ IsStore(SetStatus(ApplySnapshot(store, m), x))
        /\ ShowsOnly(SetStatus(ApplySnapshot(store, m), x), owner)
    BY <2>6, StoreShowsOnly
  <2> QED BY <1>2, <2>4, <2>5, <2>7
<1>4. CASE Frame
  <2> DEFINE i == conn.pos + 1
             e == Event(owner, i)
  <2>1. /\ IF i <= Total THEN Arrives(Ingest(store, <<e>>, <<e>>))
           ELSE Arrives(ApplyRunFinished(store, Event(owner, Total)))
        /\ conn' = [conn EXCEPT !.pos = @ + 1]
    BY <1>4 DEF Frame
  <2>2. i \in Nat \ {0} /\ DOMAIN conn' = {"phase", "pos", "end"} /\ conn'.pos \in Nat
    BY <1>1, <2>1
  <2> HIDE DEF i
  <2>3. CASE i <= Total
    <3>1. e \in Nat /\ e \in EventsOf(owner)
      BY <1>1, <2>2, <2>3, EventOfRun, MissionControlAssumption
    <3> HIDE DEF e
    <3>2. Numbered(<<e>>, owner)
      BY <3>1 DEF Numbered, Range
    <3>3. IsStore(Ingest(store, <<e>>, <<e>>)) /\ ShowsOnly(Ingest(store, <<e>>, <<e>>), owner)
      BY <1>1, <3>2, StoreShowsOnly
    <3> QED BY <1>2, <2>1, <2>2, <2>3, <3>3
  <2>4. CASE ~(i <= Total)
    <3>1. \A x : IsStore(ApplyRunFinished(store, x)) /\ ShowsOnly(ApplyRunFinished(store, x), owner)
      BY <1>1, StoreShowsOnly
    <3> QED BY <1>2, <2>1, <2>2, <2>4, <3>1
  <2> QED BY <2>3, <2>4
<1>5. CASE Completed
  <2> DEFINE m == [state |-> run[owner].state, report |-> run[owner].state = "COMPLETED"]
  <2>1. Arrives(ApplyCompleted(store, m)) /\ conn' = [conn EXCEPT !.phase = "over"]
    BY <1>5 DEF Completed
  <2>2. m.state = run[owner].state
    OBVIOUS
  <2> HIDE DEF m
  <2>3. IsStore(ApplyCompleted(store, m)) /\ ShowsOnly(ApplyCompleted(store, m), owner)
    BY <1>1, <2>2, CompletedShowsOnly
  <2>4. DOMAIN conn' = {"phase", "pos", "end"} /\ conn'.pos \in Nat
    BY <1>1, <2>1
  <2> QED BY <1>2, <2>1, <2>3, <2>4
<1>6. CASE Drop
  <2>1. PICK x \in ConnectionStatus : Arrives(SetStatus(store, x))
    BY <1>6 DEF Drop, ConnectionStatus
  <2>2. IsStore(SetStatus(store, x)) /\ ShowsOnly(SetStatus(store, x), owner)
    BY <1>1, StoreShowsOnly
  <2>3. DOMAIN conn' = {"phase", "pos", "end"} /\ conn'.pos \in Nat
    BY <1>1, <1>6 DEF Drop, Opening
  <2> QED BY <1>2, <2>1, <2>2, <2>3
<1> QED BY <1>3, <1>4, <1>5, <1>6

\* The history and the metrics of a run are that run's, whichever is selected.
LEMMA Fetching ==
  ASSUME ShowsInv, NEW r \in Runs,
         FetchReads(r) \/ FetchArrives(r) \/ FetchFails(r) \/ MetricsArrive(r) \/ Age(r)
  PROVE  ShowsInv'
<1>1. /\ run \in [Runs -> RunRows] /\ QueryTypes /\ QueryInv
  BY DEF ShowsInv
<1>2. CASE FetchArrives(r)
  <2>1. fetch[r].phase = "read" /\ Numbered(fetch[r].data.events, r)
    BY <1>1, <1>2 DEF FetchArrives, QueryInv
  <2> DEFINE data     == [cache EXCEPT ![r] = fetch[r].data]
             requests == [fetch EXCEPT ![r] = NoFetch]
  <2>2. /\ Commit(store, param, listed, cache', requests, metrics) /\ cache' = data
        /\ param' = param /\ listed' = listed /\ run' = run /\ conn' = conn
    BY <1>2 DEF FetchArrives, server, page
  <2>3. /\ DOMAIN data = Runs
        /\ \A q \in Runs : data[q].ok => Numbered(data[q].events, q)
    BY <1>1, <2>1 DEF QueryTypes, QueryInv
  <2>4. /\ DOMAIN requests = Runs
        /\ \A q \in Runs : /\ DOMAIN requests[q] = {"phase", "data"}
                           /\ requests[q].phase = "read" => Numbered(requests[q].data.events, q)
    BY <1>1 DEF QueryTypes, QueryInv, NoFetch
  <2> HIDE DEF data, requests
  <2>5. conn.phase # "none" => Selected(param, listed) # None
    BY Showing
  <2>6. Commit(store, param, listed, data, requests, metrics)
    BY <2>2
  <2> QED BY <2>2, <2>3, <2>4, <2>5, <2>6, Showing, Rendered
<1>3. CASE FetchReads(r) \/ FetchFails(r)
  <2>1. PICK f : /\ fetch' = [fetch EXCEPT ![r] = f] /\ DOMAIN f = {"phase", "data"}
                 /\ f.phase = "read" => Numbered(f.data.events, r)
    <3>1. CASE FetchReads(r)
      <4> DEFINE m == Min({FetchLimit, Len(Stored(r))})
      <4>1. Numbered(Stored(r), r)
        BY <1>1, StoredOfRun
      <4>2. 1 \in 1..(Len(Stored(r)) + 1) /\ m \in 0..Len(Stored(r))
        <5>1. Len(Stored(r)) \in Nat
          BY <4>1 DEF Numbered
        <5> QED BY <5>1, MinOfTwo, MissionControlAssumption
      <4>3. Numbered(SubSeq(Stored(r), 1, m), r)
        BY <4>1, <4>2, PartOfRun
      <4> DEFINE f == [phase |-> "read", data |-> Fetched(SubSeq(Stored(r), 1, m))]
      <4>4. fetch' = [fetch EXCEPT ![r] = f]
        BY <3>1 DEF FetchReads
      <4>5. DOMAIN f = {"phase", "data"} /\ Numbered(f.data.events, r)
        BY <4>3 DEF Fetched
      <4> HIDE DEF f
      <4> QED BY <4>4, <4>5
    <3>2. CASE FetchFails(r)
      <4>1. fetch' = [fetch EXCEPT ![r] = NoFetch]
        BY <3>2 DEF FetchFails
      <4>2. DOMAIN NoFetch = {"phase", "data"} /\ NoFetch.phase # "read"
        BY DEF NoFetch
      <4> QED BY <4>1, <4>2
    <3> QED BY <1>3, <3>1, <3>2
  <2>2. UNCHANGED <<run, param, listed, owner, conn, store, cache, metrics>>
    BY <1>3 DEF FetchReads, FetchFails, server, page
  <2>3. /\ DOMAIN fetch' = Runs
        /\ \A q \in Runs : /\ DOMAIN fetch'[q] = {"phase", "data"}
                           /\ fetch'[q].phase = "read" => Numbered(fetch'[q].data.events, q)
    BY <1>1, <2>1 DEF QueryTypes, QueryInv
  <2>4. QueryTypes' /\ QueryInv'
    BY <1>1, <2>2, <2>3 DEF QueryTypes, QueryInv, Numbered, EventsOf, Event
  <2> QED BY <1>1, <2>2, <2>4, Unrendered
<1>4. CASE MetricsArrive(r)
  <2>1. UNCHANGED <<run, param, listed, owner, conn, store, cache, fetch>>
    BY <1>4 DEF MetricsArrive, server, page
  <2>2. QueryTypes' /\ QueryInv'
    BY <1>1, <1>4, <2>1 DEF MetricsArrive, QueryTypes, QueryInv, Numbered, EventsOf, Event
  <2> QED BY <1>1, <2>1, <2>2, Unrendered
<1>5. CASE Age(r)
  <2>1. UNCHANGED <<run, param, listed, owner, conn, store, cache, fetch, metrics>>
    BY <1>5 DEF Age, server, page
  <2>2. QueryTypes' /\ QueryInv'
    BY <1>1, <2>1 DEF QueryTypes, QueryInv, Numbered, EventsOf, Event
  <2> QED BY <1>1, <2>1, <2>2, Unrendered
<1> QED BY <1>2, <1>3, <1>4, <1>5

-----------------------------------------------------------------------------

\* At first nothing is selected.
LEMMA ShowsInit == Init => ShowsInv
<1> SUFFICES ASSUME Init PROVE ShowsInv
  OBVIOUS
<1>1. run \in [Runs -> RunRows]
  BY MissionControlAssumption DEF Init, RunRows, RunState, TerminalRunStates
<1>2. PageInv
  BY DEF Init, PageInv, Selected, NoStream
<1>3. QueryTypes /\ QueryInv
  BY DEF Init, QueryTypes, QueryInv, NoData, NoFetch
<1>4. IsStore(store) /\ owner = None
  BY StartedShowsOnly DEF Init
<1> QED BY <1>1, <1>2, <1>3, <1>4 DEF ShowsInv

\* Every step keeps the invariant.
LEMMA ShowsNext ==
  ASSUME ShowsInv, [Next]_vars
  PROVE  ShowsInv'
<1>1. CASE (\E r \in Runs : Publish(r) \/ Store(r)) \/ Cancel
  BY <1>1, RunGoesOn
<1>2. CASE (\E r \in Runs : Select(r)) \/ PollRuns
  BY <1>2, Choosing
<1>3. CASE Snapshot \/ Frame \/ Completed \/ Drop
  BY <1>3, Streaming
<1>4. CASE \E r \in Runs : \/ FetchReads(r) \/ FetchArrives(r) \/ FetchFails(r) \/ MetricsArrive(r)
                           \/ Age(r)
  BY <1>4, Fetching
<1>5. CASE ThrottleTimer \/ Elapse \/ UNCHANGED vars
  <2>1. UNCHANGED <<run, param, listed, owner, conn, store, cache, fetch, metrics>>
    BY <1>5 DEF ThrottleTimer, Elapse, vars, server, page, query
  <2>2. run \in [Runs -> RunRows] /\ QueryTypes /\ QueryInv
    BY DEF ShowsInv
  <2>3. QueryTypes' /\ QueryInv'
    BY <2>1, <2>2 DEF QueryTypes, QueryInv, Numbered, EventsOf, Event
  <2> QED BY <2>1, <2>2, <2>3, Unrendered
<1> QED BY <1>1, <1>2, <1>3, <1>4, <1>5 DEF Next

\* The page shows the selected run and nothing of another, whatever was asked,
\* streamed or cached for the runs selected before; what it calls analysed is a
\* run that is completed, and no notice beside it says otherwise.
THEOREM PageShowsItsRun == Spec => []ShowsItsRun
<1>1. Init => ShowsInv
  BY ShowsInit
<1>2. ShowsInv /\ [Next]_vars => ShowsInv'
  BY ShowsNext
<1>3. ShowsInv => NoCrossTalk
  BY DEF ShowsInv, PageInv, ShowsOnly, Numbered, NoCrossTalk
<1>4. ShowsInv => AnalyzedIsOver
  <2> SUFFICES ASSUME ShowsInv, Screen = "run", Label = "ANALYZED" \/ ScorePanel = "score"
               PROVE  /\ run[owner].state = "COMPLETED"
                      /\ Notices \cap {"CANCELLED", "FAILED"} = {}
    BY DEF AnalyzedIsOver
  <2>1. owner # None /\ metrics[owner] = "have"
    BY DEF Label, ScorePanel, Analyzed
  <2>2. run[owner].state = "COMPLETED" /\ ShowsOnly(store, owner) /\ IsStore(store)
    BY <2>1 DEF ShowsInv, PageInv, QueryInv
  <2>3. store.run # NoRun
    BY <2>1 DEF Screen
  <2>4. store.run.state \notin {"CANCELLED", "FAILED"}
    BY <2>2, <2>3 DEF ShowsOnly, Terminal, TerminalRunStates
  <2>5. store.status \notin {"CANCELLED", "FAILED"}
    BY <2>2 DEF IsStore, ConnectionStatus
  <2> QED BY <2>2, <2>4, <2>5 DEF Notices
<1> QED BY <1>1, <1>2, <1>3, <1>4, PTL DEF Spec, ShowsItsRun
=============================================================================
