---------------------------- MODULE MissionControl ----------------------------
(***************************************************************************)
(* The Mission Control page (mission-control-view.tsx): which run is       *)
(* watched, its stream, the history fetched when it is over (use-runs.ts   *)
(* and the query cache), the store all of them write (LiveStore), and the  *)
(* value a throttled panel shows of it (use-live-view.ts).                 *)
(*                                                                         *)
(* LiveRun models the transport of the stream; here a frame arrives in one *)
(* step.  Event i of run r is the number (r - 1) * Total + i, so an event  *)
(* tells its run; a sample comes with each.  Of the two history queries    *)
(* (events, telemetry) the one of events is modelled, the other is alike.  *)
(*                                                                         *)
(* React renders and runs effects before the next event is handled: Commit *)
(* is the part of every action that follows from what it changed.          *)
(***************************************************************************)
EXTENDS LiveStore, FiniteSetsExt

CONSTANTS Runs,           \* 1..n, the newest has the highest number
          Live,           \* those that are not over from the start
          Total,          \* events of a run
          SnapshotEvents, \* SNAPSHOT_EVENTS
          FetchLimit,     \* limit of useRunEvents
          Faults          \* "drop": connections break, "fail": requests fail

ASSUME MissionControlAssumption ==
  /\ Runs \in SUBSET (Nat \ {0}) /\ IsFiniteSet(Runs)
  /\ Live \subseteq Runs
  /\ Total \in Nat \ {0}
  /\ SnapshotEvents \in Nat \ {0}
  /\ FetchLimit \in Nat \ {0}
  /\ Faults \subseteq {"drop", "fail"}

None == 0
NoData == [ok |-> FALSE, events |-> <<>>]
Fetched(events) == [ok |-> TRUE, events |-> events]
NoFetch == [phase |-> "none", data |-> NoData]

VARIABLES
  run,        \* per run: events published and stored (Total + 1: finished), state
  listed,     \* the answer of the runs query: per run its state
  param,      \* ?run= of the address
  owner,      \* the run the stream effect was started for: runId of the store
  conn,       \* its stream
  store,
  cache,      \* the query cache: per run, the events fetched
  fresh,      \* ... are they younger than staleTime?
  fetch,      \* ... the request under way
  metrics,    \* ... and what is known of its metrics
  seen,       \* what the effect of replaceHistory last ran for
  shown,      \* useLiveRunThrottled: the sample the panels show, 0 if none
  recent,     \* ... set less than `ms` ago
  timer       \* ... timer !== null

server == <<run>>
page   == <<listed, param>>
query  == <<cache, fresh, fetch, metrics>>
panel  == <<shown, recent, timer>>
vars == <<run, listed, param, owner, conn, store, cache, fresh, fetch, metrics,
          seen, shown, recent, timer>>

Event(r, i) == (r - 1) * Total + i
Stored(r) == [i \in 1..Min({run[r].stored, Total}) |-> Event(r, i)]
EventsOf(r) == {Event(r, i) : i \in 1..Total}
Terminal(r) == r.state \in TerminalRunStates
Active(state) == state \in {"QUEUED", "RUNNING"}   \* of those that occur here

-----------------------------------------------------------------------------
(* What the page renders and runs.                                         *)

\* pickRun: the newest active run, else the newest completed, else the newest.
PickRun(states) ==
  LET among(S) == IF S # {} THEN Max(S) ELSE None
      active    == {r \in Runs : Active(states[r])}
      completed == {r \in Runs : states[r] = "COMPLETED"}
  IN  IF active # {} THEN among(active)
      ELSE IF completed # {} THEN among(completed) ELSE among(Runs)

Selected(p, states) == IF p # None THEN p
                       ELSE IF states = <<>> THEN None ELSE PickRun(states)

\* Mutant: only what the run's state says.
HistoryEnabledTerminal(s) == Terminal(s.run)
HistoryEnabled(s) == Terminal(s.run) \/ s.finished

\* Mutant: the query key lacks the run.
DataOfAny(sel, data) == LET got == {r \in Runs : data[r].ok}
                        IN  IF got = {} THEN NoData ELSE data[Min(got)]
DataOf(sel, data) == IF sel = None THEN NoData ELSE data[sel]

\* A query asks when it is for another run than at the last render or was not
\* enabled then.  Mutant: only for another run.
AsksOnSwitch(sel, was, is) == is /\ sel # owner
Asks(sel, was, is) == is /\ (sel # owner \/ ~was)

MetricsEnabled(s) == s.run.state = "COMPLETED"

\* Mutant: a change within `ms` of the last one sets no timer.
TrailingNever == FALSE
Trailing == TRUE

\* The throttle is told of every change: it shows it at once or sets its timer.
Notify(first, last) ==
  IF recent THEN timer' = Trailing /\ UNCHANGED <<shown, recent>>
  ELSE /\ shown' = first.latest /\ recent' = TRUE
       /\ timer' = (Trailing /\ last # first)

\* A render with store s, address p, list, fetched data and requests under way,
\* and its effects in their order: the stream of a newly selected run, its
\* history queries (enabled by what the store still held), and replaceHistory.
Commit(s, p, states, data, requests, known) ==
  LET sel      == Selected(p, states)
      switched == sel # owner
      history  == /\ sel # None
                  /\ Asks(sel, HistoryEnabled(store), HistoryEnabled(s))
                  /\ ~data[sel].ok \/ ~fresh[sel]
                  /\ requests[sel].phase = "none"
      analysis == /\ sel # None
                  /\ Asks(sel, MetricsEnabled(store), MetricsEnabled(s))
                  /\ known[sel] \in {"none", "missing"}
      started  == IF switched /\ sel # None THEN Started ELSE s
      found    == DataOf(sel, data)
      next     == IF found.ok /\ seen # <<sel, found>>
                  THEN ReplaceEvents(started, found.events) ELSE started
  IN  /\ owner'   = sel
      /\ store'   = next
      /\ seen'    = <<sel, found>>
      /\ fetch'   = IF history THEN [requests EXCEPT ![sel].phase = "asked"] ELSE requests
      /\ metrics' = IF analysis THEN [known EXCEPT ![sel] = "asked"] ELSE known
      /\ IF next = store /\ s = store /\ ~switched THEN UNCHANGED panel
         ELSE Notify(IF s # store THEN s ELSE IF switched THEN started ELSE next, next)

Opening == [phase |-> "opening", pos |-> 0, end |-> FALSE]
NoStream == [phase |-> "none", pos |-> 0, end |-> FALSE]

-----------------------------------------------------------------------------
(* What is on the screen.                                                  *)

Screen == IF owner = None THEN (IF listed = <<>> THEN "looking for runs" ELSE "no run")
          ELSE IF store.run # NoRun THEN "run"
          ELSE IF store.status = "error" THEN "not available" ELSE "connecting"

Analyzed == owner # None /\ metrics[owner] = "have"

\* The label of the KPI panels, and what the panel of the score says.
Label == IF Analyzed THEN "ANALYZED" ELSE "LIVE ESTIMATE"
ScorePanel == IF Analyzed THEN "score"
              ELSE IF store.run.state = "COMPLETED" THEN "not available"
              ELSE IF Terminal(store.run) THEN "inconclusive" ELSE "later"

Notices == {n \in {"stale", "failed stream", "CANCELLED", "FAILED"} :
              \/ n = store.status \/ n = store.run.state
              \/ n = "failed stream" /\ store.error # "none" /\ store.status # "closed"}

CanCancel == Active(store.run.state)

-----------------------------------------------------------------------------
(* The platform.                                                           *)

\* The runner publishes the next event, or that it has finished.
Publish(r) ==
  /\ run[r].published <= Total
  /\ run' = [run EXCEPT ![r].published = @ + 1]
  /\ UNCHANGED <<page, owner, conn, store, query, seen, panel>>

\* The orchestrator stores what was published; what is finished is completed.
Store(r) ==
  /\ run[r].stored < run[r].published
  /\ run' = [run EXCEPT ![r].stored = @ + 1,
               ![r].state = IF Terminal(run[r]) THEN @
                            ELSE IF run[r].stored = Total THEN "COMPLETED"
                            ELSE "RUNNING"]
  /\ UNCHANGED <<page, owner, conn, store, query, seen, panel>>

-----------------------------------------------------------------------------
(* The user and the list of runs.                                          *)

Select(r) ==
  /\ param # r
  /\ param' = r
  /\ Commit(store, r, listed, cache, fetch, metrics)
  /\ conn' = IF r # owner THEN Opening ELSE conn
  /\ UNCHANGED <<server, listed, cache, fresh>>

\* The cancel button: the API closes a run that is queued.
Cancel ==
  /\ Screen = "run" /\ CanCancel /\ run[owner].state = "QUEUED"
  /\ run' = [run EXCEPT ![owner].state = "CANCELLED"]
  /\ UNCHANGED <<page, owner, conn, store, query, seen, panel>>

PollRuns ==
  LET states == [r \in Runs |-> run[r].state]
  IN  /\ listed # states
      /\ listed' = states
      /\ Commit(store, param, states, cache, fetch, metrics)
      /\ conn' = IF Selected(param, states) # owner THEN Opening ELSE conn
      /\ UNCHANGED <<server, param, cache, fresh>>

-----------------------------------------------------------------------------
(* The stream of the selected run.                                         *)

Arrives(s) == /\ Commit(s, param, listed, cache, fetch, metrics)
              /\ UNCHANGED <<server, page, cache, fresh>>

\* The snapshot holds what is stored; the messages that follow begin there or
\* later (LiveRun's NothingLost).
Snapshot ==
  /\ conn.phase = "opening"
  /\ LET events == Newest(Stored(owner), SnapshotEvents)
         r == run[owner]
         m == [run     |-> [state |-> r.state, report |-> r.state = "COMPLETED",
                            id |-> owner],
               time    |-> Final(Stored(owner)), events |-> events, samples |-> events]
     IN  /\ Arrives(SetStatus(ApplySnapshot(store, m),
                           IF r.state = "COMPLETED" THEN "closed" ELSE "live"))
         /\ \E pos \in r.stored..r.published :
              conn' = [phase |-> "live", pos |-> pos, end |-> Terminal(r)]

Frame ==
  /\ conn.phase = "live" /\ ~conn.end
  /\ conn.pos < run[owner].published
  /\ LET i == conn.pos + 1
         e == Event(owner, i)
     IN  IF i <= Total THEN Arrives(Ingest(store, <<e>>, <<e>>))
         ELSE Arrives(ApplyRunFinished(store, Event(owner, Total)))
  /\ conn' = [conn EXCEPT !.pos = @ + 1]

Completed ==
  /\ conn.phase = "live"
  /\ conn.end \/ conn.pos = Total + 1
  /\ Terminal(run[owner])
  /\ Arrives(ApplyCompleted(store, [state  |-> run[owner].state,
                                    report |-> run[owner].state = "COMPLETED"]))
  /\ conn' = [conn EXCEPT !.phase = "over"]

\* A lost connection is opened again unless the run is known to be finished.
Drop ==
  /\ "drop" \in Faults
  /\ conn.phase = "live"
  /\ IF store.finished
     THEN Arrives(SetStatus(store, "closed")) /\ conn' = [conn EXCEPT !.phase = "over"]
     ELSE Arrives(SetStatus(store, "reconnecting")) /\ conn' = Opening

-----------------------------------------------------------------------------
(* The history queries.                                                    *)

\* The API answers with the first FetchLimit events that are stored.
FetchReads(r) ==
  /\ fetch[r].phase = "asked"
  /\ fetch' = [fetch EXCEPT ![r] =
       [phase |-> "read",
        data  |-> Fetched(SubSeq(Stored(r), 1, Min({FetchLimit, Len(Stored(r))})))]]
  /\ UNCHANGED <<server, page, owner, conn, store, cache, fresh, metrics, seen, panel>>

\* The answer is cached under its run, whichever run is shown by now.
FetchArrives(r) ==
  /\ fetch[r].phase = "read"
  /\ cache' = [cache EXCEPT ![r] = fetch[r].data]
  /\ Commit(store, param, listed, cache', [fetch EXCEPT ![r] = NoFetch], metrics)
  /\ fresh' = [fresh EXCEPT ![r] = TRUE]
  /\ UNCHANGED <<server, page, conn>>

\* Retried once, then given up.
FetchFails(r) ==
  /\ "fail" \in Faults
  /\ fetch[r].phase # "none"
  /\ fetch' = [fetch EXCEPT ![r] = NoFetch]
  /\ UNCHANGED <<server, page, owner, conn, store, cache, fresh, metrics, seen, panel>>

\* The metrics are there once the run is completed; before, the answer is 404.
MetricsArrive(r) ==
  /\ metrics[r] = "asked"
  /\ \/ run[r].state = "COMPLETED" /\ metrics' = [metrics EXCEPT ![r] = "have"]
     \/ /\ run[r].state # "COMPLETED" \/ "fail" \in Faults
        /\ metrics' = [metrics EXCEPT ![r] = "missing"]
  /\ UNCHANGED <<server, page, owner, conn, store, cache, fresh, fetch, seen, panel>>

\* staleTime passes.
Age(r) ==
  /\ fresh[r]
  /\ fresh' = [fresh EXCEPT ![r] = FALSE]
  /\ UNCHANGED <<server, page, owner, conn, store, cache, fetch, metrics, seen, panel>>

-----------------------------------------------------------------------------
(* The throttle.                                                           *)

ThrottleTimer ==
  /\ timer
  /\ timer' = FALSE /\ recent' = TRUE /\ shown' = store.latest
  /\ UNCHANGED <<server, page, owner, conn, store, query, seen>>

Elapse ==
  /\ recent /\ ~timer
  /\ recent' = FALSE
  /\ UNCHANGED <<server, page, owner, conn, store, query, seen, shown, timer>>

-----------------------------------------------------------------------------

Init ==
  /\ run = [r \in Runs |->
       IF r \in Live THEN [published |-> 0, stored |-> 0, state |-> "QUEUED"]
       ELSE [published |-> Total + 1, stored |-> Total + 1, state |-> "COMPLETED"]]
  /\ listed = <<>> /\ param = None /\ owner = None
  /\ conn = NoStream /\ store = Empty
  /\ cache = [r \in Runs |-> NoData]
  /\ fresh = [r \in Runs |-> FALSE]
  /\ fetch = [r \in Runs |-> NoFetch]
  /\ metrics = [r \in Runs |-> "none"]
  /\ seen = <<None, NoData>>
  /\ shown = 0 /\ recent = FALSE /\ timer = FALSE

Next ==
  \/ \E r \in Runs : \/ Publish(r) \/ Store(r) \/ Select(r) \/ FetchReads(r)
                     \/ FetchArrives(r) \/ FetchFails(r) \/ Age(r)
                     \/ MetricsArrive(r)
  \/ Cancel \/ PollRuns \/ Snapshot \/ Frame \/ Completed \/ Drop
  \/ ThrottleTimer \/ Elapse

Spec == Init /\ [][Next]_vars
FairSpec ==
  /\ Spec
  /\ \A r \in Runs : WF_vars(FetchReads(r)) /\ WF_vars(FetchArrives(r))
                       /\ WF_vars(MetricsArrive(r))
  /\ WF_vars(Snapshot) /\ WF_vars(Frame) /\ WF_vars(Completed)
  /\ WF_vars(ThrottleTimer)
-----------------------------------------------------------------------------
(* Properties.                                                             *)

TypeOK ==
  /\ \A r \in Runs : /\ run[r].published \in 0..Total + 1
                     /\ run[r].stored \in 0..run[r].published
                     /\ fetch[r].phase \in {"none", "asked", "read"}
                     /\ fresh[r] => cache[r].ok
  /\ {param, owner} \subseteq Runs \cup {None}
  /\ conn.phase \in {"none", "opening", "live", "over"}
  /\ (owner = None) <=> (conn.phase = "none")
  /\ store.status \in ConnectionStatus
  /\ \A r \in Runs : metrics[r] \in {"none", "asked", "have", "missing"}
  /\ recent \in BOOLEAN /\ timer \in BOOLEAN
  /\ (timer => recent)

\* Whatever was asked, answered, streamed or cached for the runs selected
\* before: the store holds the run that is selected and nothing of another.
NoCrossTalk ==
  owner # None =>
    /\ owner = Selected(param, listed)
    /\ store.run # NoRun => store.run.id = owner
    /\ Range(store.events) \cup Range(store.samples) \subseteq EventsOf(owner)

\* A user who goes on watching a run that has finished gets its history
\* fetched, also when the connection broke before the run was completed.
HistoryComes ==
  \A r \in Runs : (owner = r /\ store.finished) ~> (cache[r].ok \/ owner # r)

\* What is labelled as analysed is: README.md:194 "anything that is an estimate
\* is labelled *live estimate* until the analysis replaces it".  A failed or
\* cancelled run has no score.
AnalyzedIsOver ==
  Screen = "run" /\ (Label = "ANALYZED" \/ ScorePanel = "score") =>
    /\ run[owner].state = "COMPLETED"
    /\ Notices \cap {"CANCELLED", "FAILED"} = {}

\* The page shows the selected run and calls analysed what is.
ShowsItsRun == NoCrossTalk /\ AnalyzedIsOver

\* Who watches a run until it is completed comes to see its score.
ScoreComes ==
  \A r \in Runs :
    (owner = r /\ store.run.state = "COMPLETED") ~> (owner # r \/ ScorePanel = "score")

\* The throttled panels come to show what the store holds.
PanelsCatchUp == []<>(shown = store.latest)

\* What the repository says of the page, and the code does not keep.

\* stores/live-run.test.ts:196: the store "replaces the history with a full fetch
\* for a terminal run".  Here: who watches a completed run, with its stream over
\* and nothing under way, sees all its events.
FullHistory ==
  /\ owner # None /\ conn.phase = "over" /\ store.run # NoRun
  /\ store.run.state = "COMPLETED"
  /\ cache[owner].ok /\ fetch[owner].phase = "none"
  => Range(store.events) = EventsOf(owner)

\* mission-control-view.tsx:147: "The flight core gets a track as soon as
\* telemetry reports it: without an observation there is nothing to claim about
\* it."  The track, and the progress and modes of the mission, are those of the
\* throttled sample.
ClaimsAreObserved ==
  store.run # NoRun /\ shown # 0 => shown \in EventsOf(owner)
=============================================================================
