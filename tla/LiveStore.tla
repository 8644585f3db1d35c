------------------------------ MODULE LiveStore ------------------------------
(***************************************************************************)
(* The live run store of the web application (stores/live-run.ts) as       *)
(* functions from a store to a store.                                      *)
(*                                                                         *)
(* An event is its sequence number and a sample its time: two copies of    *)
(* one of them are equal, so "the incoming copy wins" is not visible.      *)
(* Both are numbered along the run, so one number also stands for the      *)
(* simulation time the event happened at.  `quiet` is true when the last   *)
(* message is more than STALE_AFTER_MS old.                                *)
(***************************************************************************)
EXTENDS Naturals, Sequences, FiniteSets, Functions

CONSTANTS MaxEvents,    \* MAX_EVENTS
          MaxSamples    \* MAX_SAMPLES

ASSUME StoreAssumption == MaxEvents \in Nat \ {0} /\ MaxSamples \in Nat \ {0}

TerminalRunStates == {"COMPLETED", "FAILED", "CANCELLED"}

ConnectionStatus ==
  {"idle", "connecting", "live", "stale", "reconnecting", "closed", "error"}

NoRun == [state |-> "none", report |-> FALSE]

Greater(m, n) == IF m > n THEN m ELSE n

Final(s) == IF s = <<>> THEN 0 ELSE s[Len(s)]

\* The elements of a set of numbers in ascending order.
Ascending(S) ==
  [i \in 1..Cardinality(S) |->
     CHOOSE x \in S : Cardinality({y \in S : y < x}) = i - 1]

\* The last n elements of a sequence, or all of it.
Newest(s, n) == IF Len(s) > n THEN SubSeq(s, Len(s) - n + 1, Len(s)) ELSE s

\* Mutant: what comes in is appended.
MergeEventsAppended(current, incoming, cap) == Newest(current \o incoming, cap)

MergeEvents(current, incoming, cap) ==
  IF incoming = <<>> THEN current
  ELSE Newest(Ascending(Range(current) \cup Range(incoming)), cap)

\* A batch that is newer than everything seen is appended as it comes, without
\* looking at the order within the batch; any other is merged by time.
MergeSamples(current, incoming, cap) ==
  LET appendOnly == /\ current # <<>>
                    /\ \A i \in DOMAIN incoming : incoming[i] > Final(current)
  IN  IF incoming = <<>> THEN current
      ELSE IF appendOnly THEN Newest(current \o incoming, cap)
      ELSE Newest(Ascending(Range(current) \cup Range(incoming)), cap)

Empty ==
  [ run      |-> NoRun,     events |-> <<>>,  samples |-> <<>>, latest |-> 0,
    time     |-> 0,         status |-> "idle", quiet  |-> FALSE,
    finished |-> FALSE,     report |-> FALSE, error   |-> "none" ]

\* start: everything of the run before is gone.
Started == [Empty EXCEPT !.status = "connecting"]

SetStatus(s, status) == [s EXCEPT !.status = status]

SetError(s, error) == [s EXCEPT !.error = error]

Touch(s) == [s EXCEPT !.quiet = FALSE]

\* applySnapshot: replaces run and history, leaves `finished` as it was.
ApplySnapshot(s, m) ==
  [s EXCEPT !.run     = m.run,
            !.events  = MergeEvents(<<>>, m.events, MaxEvents),
            !.samples = MergeSamples(<<>>, m.samples, MaxSamples),
            !.latest  = Final(m.samples),
            !.time    = Greater(Final(m.samples), m.time),
            !.quiet   = FALSE,
            !.error   = "none",
            !.report  = m.run.report]

ApplyLifecycle(s, state, time) ==
  [s EXCEPT !.run.state = IF s.run = NoRun THEN @ ELSE state,
            !.time      = Greater(@, time),
            !.quiet     = FALSE]

Ingest(s, events, samples) ==
  LET nextEvents  == MergeEvents(s.events, events, MaxEvents)
      nextSamples == MergeSamples(s.samples, samples, MaxSamples)
      latest      == IF nextSamples = <<>> THEN s.latest ELSE Final(nextSamples)
  IN  [s EXCEPT !.events  = nextEvents,
                !.samples = nextSamples,
                !.latest  = latest,
                !.time    = Greater(Greater(@, latest), Final(nextEvents)),
                !.quiet   = FALSE]

ApplyRunFinished(s, time) ==
  [s EXCEPT !.finished = TRUE, !.time = Greater(@, time), !.quiet = FALSE]

\* applySummary takes the state of the summary; whether the run has a report
\* is a field of the detail only and stays what the snapshot said.
ApplyCompleted(s, m) ==
  [s EXCEPT !.run.state = IF s.run = NoRun THEN @ ELSE m.state,
            !.finished  = TRUE,
            !.report    = m.report,
            !.status    = "closed",
            !.quiet     = FALSE]

\* replaceHistory: what was fetched takes the place of what was streamed.
ReplaceEvents(s, events) ==
  LET next == MergeEvents(<<>>, events, MaxEvents)
  IN  [s EXCEPT !.events = next,
                !.time   = Greater(Greater(@, s.latest), Final(next))]

ReplaceSamples(s, samples) ==
  LET next   == MergeSamples(<<>>, samples, MaxSamples)
      latest == IF next = <<>> THEN s.latest ELSE Final(next)
  IN  [s EXCEPT !.samples = next,
                !.latest  = latest,
                !.time    = Greater(Greater(@, latest), Final(s.events))]
=============================================================================
