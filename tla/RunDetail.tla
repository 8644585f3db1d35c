------------------------------ MODULE RunDetail ------------------------------
(***************************************************************************)
(* The page of one run (app/runs/[id]/run-detail-view.tsx) with its        *)
(* queries (hooks/use-runs.ts), its replay tab (components/runs/           *)
(* replay-tab.tsx) and the flown path of the digital twin that the tab     *)
(* feeds (components/twin/paths.tsx).                                      *)
(*                                                                         *)
(* The server is a run that goes on while the page is open: at time t it   *)
(* has stored one sample for each tick up to t, and the events of those    *)
(* ticks.  A request is answered with what is stored when it is served;    *)
(* a longer way of the answer is a request that was sent later.            *)
(***************************************************************************)
EXTENDS RunView, FiniteSets

CONSTANTS Recordings,   \* the events the run may turn out to have
          EndTime,      \* the last tick of the run
          Batches,      \* the ticks at which what was recorded is stored
          Position,     \* where the vehicle is at a tick
          SampleLimit,  \* how many samples a telemetry answer has at most
          MaxTrail,     \* MAX_TRAIL_POINTS
          MaxIncidents, \* bound: failed requests, lost connections, cancels and
                        \* returns to the page, together
          MaxClicks     \* bound: incidents and clicks in the replay, together

ASSUME DetailAssumption ==
  /\ EndTime \in Nat \ {0} /\ SampleLimit \in Nat \ {0} /\ MaxTrail \in Nat \ {0}
  /\ {MaxIncidents, MaxClicks} \subseteq Nat
  /\ DOMAIN Position = 0..EndTime
  /\ Batches \subseteq 1..EndTime /\ EndTime \in Batches

VARIABLES
  server,   \* the run as the API has it
  query,    \* the cached answer of each of the page's queries
  page,     \* the tab in front, or "away"
  replay,   \* the state of the replay tab
  counts    \* what was used of the bounds

vars == <<server, query, page, replay, counts>>

TerminalRunStates == {"COMPLETED", "FAILED", "CANCELLED"}
ACTIVE_RUN_STATES == {"RUNNING"}

Queries == {"run", "events", "telemetry", "metrics"}

------------------------------------------------------------------------------
(* The API *)

\* Samples of a run, thinned by a stride when there are too many.
Telemetry(t) ==
  LET stride == Larger(1, (t + SampleLimit - 1) \div SampleLimit)
  IN  [i \in 1..((t + stride - 1) \div stride) |-> (i - 1) * stride + 1]

\* What the server answers to a query.
Answer(q) ==
  CASE q = "run"       -> [state |-> server.state, time |-> server.time]
    [] q = "events"    -> eventsUpTo(server.events, server.time)
    [] q = "telemetry" -> Telemetry(server.time)
    [] q = "metrics"   -> "metrics"

\* The next batch of the runner is stored.
Advance ==
  /\ server.state = "RUNNING"
  /\ \E t \in Batches :
       /\ t > server.time /\ \A u \in Batches : u > server.time => t <= u
       /\ server' = [server EXCEPT !.time = t]
  /\ UNCHANGED <<query, page, replay, counts>>

End ==
  /\ server.state = "RUNNING" /\ server.time > 0
  /\ \E state \in {"COMPLETED", "FAILED"} \cup (IF server.asked THEN {"CANCELLED"} ELSE {}) :
       server' = [server EXCEPT !.state = state]
  /\ UNCHANGED <<query, page, replay, counts>>

------------------------------------------------------------------------------
(* The queries *)

Unasked == [status |-> "pending", data |-> None, busy |-> FALSE]

\* Data survives a failed fetch.
HasData(q) == q.data # None

\* enabled: what the page asks for, given what it knows of the run.
Enabled(qs) ==
  {"run"} \cup (IF HasData(qs["run"]) THEN {"events", "telemetry"} ELSE {})
          \cup (IF HasData(qs["run"]) THEN
                  IF qs["run"].data.state = "COMPLETED" THEN {"metrics"} ELSE {}
                ELSE {})

\* A fetch starts: a query without data is pending again, one with data keeps
\* its status until the answer.
Fetching(q) ==
  [q EXCEPT !.busy = TRUE, !.status = IF HasData(q) THEN @ ELSE "pending"]

\* A query that was just enabled and has no answer is asked at once.
Asked(before, qs) ==
  [q \in Queries |->
     IF page # "away" /\ q \in Enabled(qs) \ Enabled(before) /\ ~HasData(qs[q])
       THEN Fetching(qs[q]) ELSE qs[q]]

Answered(q) ==
  Asked(query, [query EXCEPT ![q] = [status |-> "ok", data |-> Answer(q), busy |-> FALSE]])

\* A fetch failed.  A first request that fails is sent again, but for that of
\* the metrics: that the second one is answered is a slow answer.
Failed(q) == [query EXCEPT ![q].status = "error", ![q].busy = FALSE]

\* On coming back to the page: what has no answer is asked, and so is what is stale.
Entered(stale) ==
  [q \in Queries |->
     IF q \in Enabled(query) /\ ~query[q].busy /\ (~HasData(query[q]) \/ q \in stale)
       THEN Fetching(query[q]) ELSE query[q]]

------------------------------------------------------------------------------
(* What the page shows *)

events(qs)  == IF HasData(qs["events"]) THEN qs["events"].data ELSE <<>>
samples(qs) == IF HasData(qs["telemetry"]) THEN qs["telemetry"].data ELSE <<>>
duration(qs) == Larger(qs["run"].data.time, 1)

\* A failed query of the run replaces the page, whatever was shown.
Body(qs) ==
  IF qs["run"].status = "error" THEN "not found"
  ELSE IF ~HasData(qs["run"]) THEN "loading" ELSE "run"

isLoading(q) == q.status = "pending" /\ q.busy

\* The replay is mounted once the telemetry was asked for.
Replays(pg, qs) ==
  pg = "replay" /\ Body(qs) = "run" /\ ~isLoading(qs["telemetry"])

\* The header: the notice of an active run and the button that cancels it.
ShownActive == Body(query) = "run" /\ query["run"].data.state \in ACTIVE_RUN_STATES

\* The panel of the analysis.
Analysis ==
  IF query["run"].data.state # "COMPLETED" THEN "comes once the run completes"
  ELSE IF isLoading(query["metrics"]) THEN "loading"
  ELSE IF HasData(query["metrics"]) THEN "shown" ELSE "not available"

------------------------------------------------------------------------------
(* The replay *)

NoReplay == [mounted |-> FALSE]

\* Samples that are not after the cursor, and the sample shown there: the
\* first one when the cursor is before it.
TrailAt(ss, time)  == SubSeq(ss, 1, indexAt(ss, time))
SampleOf(ss, time) == IF ss = <<>> THEN None ELSE ss[Larger(indexAt(ss, time), 1)]

\* Mutant: a seek that does not tell the twin.
applyCursorQuiet(r, ss, dur, time, seek) ==
  LET clamped == Clamp(time, 0, dur)
  IN  [r EXCEPT !.ref = clamped, !.trail = TrailAt(ss, clamped)]

\* applyCursor: the refs the twin reads.  A seek makes it draw the path again.
applyCursor(r, ss, dur, time, seek) ==
  LET clamped == Clamp(time, 0, dur)
  IN  [r EXCEPT !.ref = clamped, !.trail = TrailAt(ss, clamped),
                !.redraw = @ \/ seek]

Path == [last |-> 0, path |-> <<>>]

Mounted(ss, dur) ==
  applyCursor([mounted |-> TRUE, cursor |-> 0, ref |-> 0, playing |-> FALSE,
               trail |-> <<>>, redraw |-> TRUE, twin |-> Path], ss, dur, 0, TRUE)

\* The effect that follows new samples or a new duration.
Repositioned(r, ss, dur) == applyCursor(r, ss, dur, r.ref, TRUE)

\* The replay after a step that led from one page and set of answers to others.
\* Its key is the number of samples: with another one it is a new replay.
Rendered(pg, qs) ==
  IF ~Replays(pg, qs) THEN NoReplay
  ELSE IF ~replay.mounted \/ Len(samples(qs)) # Len(samples(query))
    THEN Mounted(samples(qs), duration(qs))
  ELSE IF samples(qs) # samples(query) \/ duration(qs) # duration(query)
    THEN Repositioned(replay, samples(qs), duration(qs))
  ELSE replay

\* A replay without samples shows that and has no controls.
Playable == replay.mounted /\ samples(query) # <<>>

Visible == eventsUpTo(events(query), replay.cursor)

Tracks == buildTimeline(Visible, Larger(replay.cursor, 1))

\* What the panels show: all of it derived from the cursor.
Panels ==
  LET sample == SampleOf(samples(query), replay.cursor)
      tracks == Tracks
      kpis   == liveContainmentKpis(Visible)
      health == currentHealth(sample, Visible)
  IN  [ events   |-> Visible,
        sample   |-> sample,
        alerts   |-> activeAlerts(sample),
        tracks   |-> tracks,
        drawn    |-> [id \in DOMAIN tracks |->
                        [i \in DOMAIN tracks[id].segments |->
                           Scaled(tracks[id].segments[i], duration(query))]],
        markers  |-> injectionMarkers(Visible),
        system   |-> SystemPanel(health),
        kpis     |-> kpis,
        blast    |-> BlastRadius(kpis, health) ]

\* FlownPath: one sample of the trail.  A sample at the place of the last point
\* is passed over, and the frame ends at the first that finds no room.
Traced(twin, t) ==
  LET seen == [twin EXCEPT !.last = t]
  IN  IF twin.full \/ t <= twin.last THEN twin
      ELSE IF twin.path # <<>> /\ Position[Last(twin.path)] = Position[t] THEN seen
      ELSE IF Len(twin.path) >= MaxTrail THEN [seen EXCEPT !.full = TRUE]
      ELSE [seen EXCEPT !.path = Append(@, t)]

Drawn(twin, trail) ==
  LET drawn == FoldLeft(Traced, [last |-> twin.last, path |-> twin.path, full |-> FALSE], trail)
  IN  [last |-> drawn.last, path |-> drawn.path]

Click ==
  /\ counts.clicks + counts.incidents < MaxClicks
  /\ counts' = [counts EXCEPT !.clicks = @ + 1]

\* Seek: the slider was moved, and playing stops.
Seek ==
  /\ Playable /\ Click
  /\ \E time \in 0..duration(query) :
       LET r == applyCursor(replay, samples(query), duration(query), time, TRUE)
       IN  replay' = [r EXCEPT !.playing = FALSE, !.cursor = r.ref]
  /\ UNCHANGED <<server, query, page>>

\* The play button: at the end it starts over.
Play ==
  /\ Playable /\ Click
  /\ LET atEnd == replay.ref >= duration(query)
         r     == IF atEnd THEN applyCursor(replay, samples(query), duration(query), 0, TRUE)
                  ELSE replay
     IN  replay' = [r EXCEPT !.playing = ~replay.playing,
                             !.cursor  = IF atEnd THEN r.ref ELSE @]
  /\ UNCHANGED <<server, query, page>>

Restart ==
  /\ Playable /\ Click
  /\ replay' = [applyCursor(replay, samples(query), duration(query), 0, TRUE)
                  EXCEPT !.playing = FALSE, !.cursor = 0]
  /\ UNCHANGED <<server, query, page>>

\* Mutant: the end is what lies behind the duration.
EndsBehind(time, dur) == time > dur

Ends(time, dur) == time >= dur

\* A frame of the playback.  The cursor is published at most every 100 ms, and
\* at the end; how far a frame leads depends on the speed chosen.
Tick ==
  /\ Playable /\ replay.playing
  /\ \E step \in 1..2, publish \in BOOLEAN :
       LET r == applyCursor(replay, samples(query), duration(query), replay.ref + step, FALSE)
           ends == Ends(r.ref, duration(query))
       IN  replay' = [r EXCEPT !.playing = ~ends,
                               !.cursor  = IF publish \/ ends THEN r.ref ELSE @]
  /\ UNCHANGED <<server, query, page, counts>>

\* A frame of the twin: a path to be redrawn is dropped first.
Frame ==
  /\ Playable
  /\ replay' = [replay EXCEPT !.redraw = FALSE,
                              !.twin   = Drawn(IF replay.redraw THEN Path ELSE @, replay.trail)]
  /\ replay' # replay
  /\ UNCHANGED <<server, query, page, counts>>

------------------------------------------------------------------------------
(* The page *)

\* A step that changes what the queries hold, and with it what is mounted.  The
\* tabs are forgotten when the page is replaced.
Becomes(qs) ==
  LET tab == IF page # "away" /\ Body(qs) # "run" THEN "overview" ELSE page
  IN  /\ query' = qs
      /\ page' = tab
      /\ replay' = Rendered(tab, qs)

\* Mutant: a page that holds the run does not ask for it again.
DueOnce(q) == query[q].busy

\* A request that is on its way, or that refetchInterval sends: the run is asked
\* for every four seconds, also while the page says that it was not found.
Due(q) == query[q].busy \/ (q = "run" /\ page # "away")

Incident ==
  /\ counts.incidents < MaxIncidents /\ counts.clicks + counts.incidents < MaxClicks
  /\ counts' = [counts EXCEPT !.incidents = @ + 1]

Serve(q) ==
  /\ Due(q)
  /\ Becomes(Answered(q))
  /\ UNCHANGED <<server, counts>>

Fail(q) ==
  /\ Due(q) /\ Incident
  /\ Becomes(Failed(q))
  /\ UNCHANGED server

\* The connection is back: what is stale is fetched again.
Reconnect ==
  /\ page # "away" /\ Incident
  /\ \E stale \in SUBSET {"events", "telemetry"} :
       /\ \A q \in stale : HasData(query[q]) /\ ~query[q].busy
       /\ stale # {}
       /\ Becomes([q \in Queries |-> IF q \in stale THEN Fetching(query[q]) ELSE query[q]])
  /\ UNCHANGED server

Enter ==
  /\ page = "away" /\ Incident
  /\ \E stale \in {{}, Queries} :
       LET qs == Entered(stale)
       IN  /\ query' = qs
           /\ page' = "overview"
           /\ replay' = Rendered("overview", qs)
  /\ UNCHANGED server

Leave ==
  /\ page # "away"
  /\ page' = "away" /\ replay' = NoReplay
  /\ UNCHANGED <<server, query, counts>>

ChooseTab ==
  /\ page # "away" /\ Body(query) = "run"
  /\ \E tab \in {"overview", "replay"} \ {page} :
       page' = tab /\ replay' = Rendered(tab, query)
  /\ UNCHANGED <<server, query, counts>>

\* The button of an active run.  Its request is taken to be served at once: a
\* second one changes nothing.  The run is asked for again.
Cancel ==
  /\ ShownActive /\ page # "away" /\ ~server.asked /\ Incident
  /\ server' = [server EXCEPT !.asked = server.state = "RUNNING"]
  /\ Becomes([query EXCEPT !["run"] = Fetching(@)])

Init ==
  /\ server \in [state : {"RUNNING"}, time : {0}, asked : {FALSE}, events : Recordings]
  /\ query = [q \in Queries |-> IF q = "run" THEN Fetching(Unasked) ELSE Unasked]
  /\ page = "overview"
  /\ replay = NoReplay
  /\ counts = [incidents |-> 0, clicks |-> 0]

Next ==
  \/ Advance \/ End
  \/ \E q \in Queries : Serve(q) \/ Fail(q)
  \/ Reconnect \/ Enter \/ Leave \/ ChooseTab \/ Cancel
  \/ Seek \/ Play \/ Restart \/ Tick \/ Frame

Spec == Init /\ [][Next]_vars

\* The run is asked for as long as the page is open, what is asked is answered,
\* and the playback goes on.  Nothing rests on the events and the telemetry.
FairSpec ==
  /\ Spec
  /\ WF_vars(Serve("run")) /\ WF_vars(Serve("metrics")) /\ WF_vars(Tick)

------------------------------------------------------------------------------
(* Properties *)

TypeOK ==
  /\ server \in [state : TerminalRunStates \cup ACTIVE_RUN_STATES, time : 0..EndTime,
                  asked : BOOLEAN, events : Recordings]
  /\ \A q \in Queries :
       /\ query[q].status \in {"pending", "ok", "error"}
       /\ query[q].busy \in BOOLEAN
  /\ page \in {"away", "overview", "replay"}
  /\ replay.mounted \in BOOLEAN
  /\ replay.mounted =>
       /\ page = "replay"
       /\ replay.cursor \in 0..EndTime /\ replay.ref \in 0..EndTime
       /\ replay.playing \in BOOLEAN /\ replay.redraw \in BOOLEAN
       /\ Range(replay.twin.path) \subseteq 1..EndTime

\* The path the twin shows is that of the samples at hand up to what it saw of
\* them: never one of another recording, and nothing that lies after the cursor,
\* whatever was played, sought and fetched before.
TwinShowsTrail ==
  replay.mounted /\ ~replay.redraw =>
    LET seen == SelectSeq(samples(query), LAMBDA t : t <= replay.twin.last)
    IN  /\ replay.twin.path = Drawn(Path, seen).path
        /\ replay.twin.last <= replay.ref

\* The segments of a track fill the time from the start to the cursor without a
\* gap, each in another state than the one before, and end in the last state
\* that was seen; none is cut off by the drawing, and none is worse than what the
\* track says.
TracksTile ==
  replay.mounted =>
    LET p == Panels
    IN  \A id \in DOMAIN p.tracks :
          LET segs    == p.tracks[id].segments
              changes == Changes(p.events, id)
          IN  /\ segs[1].from = 0 /\ Last(segs).to = Larger(replay.cursor, 1)
              /\ \A i \in 1..(Len(segs) - 1) :
                   segs[i].to = segs[i + 1].from /\ segs[i].from < segs[i].to
              /\ Last(segs).state = IF changes = <<>> THEN HealthyState[id] ELSE Last(changes).after
              /\ p.drawn[id] = segs
              /\ \A i \in DOMAIN segs :
                   SEVERITY_RANK[segs[i].state] <= SEVERITY_RANK[p.tracks[id].worst]

\* A replay that plays comes to an end, also while the run goes on.
PlaysOut == (replay.mounted /\ replay.playing) ~> ~(replay.mounted /\ replay.playing)

\* A page that stays open shows the end of the run and what became of its
\* analysis, after any trouble.
OutcomeComes ==
  server.state \in TerminalRunStates ~>
    \/ page = "away"
    \/ /\ Body(query) = "run" /\ query["run"].data.state = server.state
       /\ Analysis # "loading"

\* A component that changed was healthy when it was first seen to.
StartsHealthy(recording) ==
  \A id \in Components :
    LET changes == Changes(recording, id)
    IN  changes # <<>> => isHealthy(changes[1].before)

NeverLost(recording) == \A e \in Range(recording) : "UNKNOWN" \notin {e.before, e.after}

\* Whatever the engine records, the figures shown while the run is live are those of
\* the analysis: what was hit and where it spread, how many faults were recovered
\* from, and how long the first fail-safe took.  That is so of a recording in which
\* no component is lost from view and none is first seen while it is impaired: the
\* recovery of such a one counts live and not in the analysis.
SameStoryObserved ==
  LET recording == server.events
  IN  StartsHealthy(recording) /\ NeverLost(recording) =>
        /\ liveContainmentKpis(recording) = AnalyzedContainment(recording)
        /\ liveRecoveryKpis(recording).recovered = AnalyzedRecovered(recording)
        /\ liveRecoveryKpis(recording).timeToSafeState = AnalyzedTimeToSafeState(recording)

\* The rows and the verdict of the blast radius make the same claim, also about a
\* component that is healthy again: a fault that propagated to a flight-critical row
\* is the verdict, and the verdict is seen in those rows, unless what was hit is not
\* on the command path.
BlastAgrees ==
  replay.mounted =>
    LET p        == Panels
        rows     == p.blast.rows
        critical == CRITICAL_DOMAINS \cap DOMAIN rows
        offPath  == {id \in p.kpis.affected \ PROPAGATION_CHAIN : DomainOf[id] \in CRITICAL_DOMAINS}
        flight   == p.blast.verdict = "PROPAGATED TO FLIGHT DOMAIN"
    IN  /\ (\E d \in critical : rows[d] = "propagated") => flight
        /\ flight /\ offPath = {} => \E d \in critical : rows[d] \in {"injected", "propagated"}

Highlighted(p) ==
  {id \in Components : p.system[DomainOf[id]][id].degraded}

\* A component with an alert is highlighted in the panel of the system, and no row
\* of the blast radius that has it claims that its domain was protected.
AlertsAreSeen ==
  replay.mounted =>
    LET p == Panels
    IN  \A id \in p.alerts \cap Components :
          /\ id \in Highlighted(p)
          /\ id \in PROPAGATION_CHAIN => p.blast.rows[DomainOf[id]] # "protected"

\* The panels at the cursor make one claim: command path, verdict, alerts and the
\* panel of the system.
PanelsAgree == BlastAgrees /\ AlertsAreSeen

\* event-feed.tsx:15 says, when there is no alert, "All observed subsystems nominal".
NominalIsObserved ==
  replay.mounted => LET p == Panels IN p.alerts = {} => Highlighted(p) = {}

\* blast-radius.tsx:50 says that a domain is outlined as protected that "stayed
\* healthy while something upstream failed".
ProtectedStayedHealthy ==
  replay.mounted =>
    LET p == Panels
    IN  \A id \in p.kpis.affected :
          DomainOf[id] \in DOMAIN p.blast.rows => p.blast.rows[DomainOf[id]] # "protected"

\* lib/run-view.ts:4 says that these figures are computed "so a live estimate
\* and the analyzed metrics tell the same story".
SameStory ==
  replay.mounted =>
    LET visible == Panels.events
    IN  /\ liveContainmentKpis(visible) = AnalyzedContainment(visible)
        /\ liveMissionKpis(Panels.sample, visible).controlAuthority =>
             liveMissionKpis(Panels.sample, visible).safetyPreserved
               = ~AnalyzedCoreDown(visible)

\* run-detail-view.tsx:388 says of an active run "The page refreshes every few
\* seconds": its events and telemetry would follow.
PageRefreshes ==
  server.state \in TerminalRunStates /\ page = "overview" ~>
    \/ page # "overview"
    \/ Body(query) = "run" /\ events(query) = Answer("events")

\* replay-tab.tsx:157 says "This run recorded no telemetry".
NothingMeansNone ==
  replay.mounted /\ samples(query) = <<>> => server.time = 0

\* What is shown beside the twin is of the moment the twin is at.
PausedAgrees == replay.mounted /\ ~replay.playing => replay.cursor = replay.ref
==============================================================================
