# Verification of the resilience laboratory

TLA+ models of the platform that runs resilience scenarios against unmanned
systems and of the web application that shows them, the TLC runs that check the
models, and TLAPS proofs. Paths are those of the repository; `PROJECT.json` maps
every definition to its lines, and lists the hazards with the line where each
bites, and what a property leaves open there.

## The system

| Component | Where | State | Operations | Talks to |
|---|---|---|---|---|
| API | `services/api` | none of its own; the request's session | create a run, cancel a run, read-only endpoints, live stream | database, job queue (publish), control subject (publish), `RESLAB_RUNS` (ephemeral subscription) |
| Database | `packages/platform/.../db` | `runs`, `run_events`, telemetry chunks, artifacts, analysis results, runners | one session per request, per message and per watchdog tick, READ COMMITTED, no version column | - |
| Artifact store | `packages/platform/.../artifacts` | objects by run and name | put, get; outside every transaction | - |
| Bus | `packages/platform/.../bus`, NATS | work queue `RESLAB_JOBS`, stream `RESLAB_RUNS` with a durable pull consumer, core subjects | publish (awaits the stream's acknowledgement), publish core (fire and forget), ack, nak, term | everything |
| Runner | `services/runner` | `_active`: run id to cancel token, a semaphore | take a job, execute, heartbeat, control message, drain | job queue, stream, core subjects |
| Scenario engine | `packages/core/.../engine` | run state announced, component states, active injections, clears, expectations, telemetry batch | `run`: prepare, start, observe, inject, clear, judge, collect, stop | adapter (calls), sink (messages) |
| Adapters | `adapters/mock`, `adapters/px4-gazebo`, `adapters/replay` | the simulated or real vehicle, saved parameters, deadlines | prepare, start, observe, inject, clear, collect, stop | simulator |
| Orchestrator: consumer | `services/orchestrator` | one message at a time | lifecycle, event, telemetry, artifact, finished; `finalize`; heartbeat | stream, database, store, control subject |
| Orchestrator: watchdog | `services/orchestrator` | start time, last report of each runner | a tick every 10 s, five verdicts | database, control subject |
| Analysis | `packages/core/.../analysis`, `report` | none | metrics, assertions, score, report: functions of stored events and samples | - |
| Live stream | `services/api/.../routers/stream.py`, `state.py` | a bounded queue per client | snapshot, relay, wait for the end, complete, heartbeat | stream, database, browser |
| Web: stream hook and store | `apps/web/src/hooks/use-run-stream.ts`, `stores/live-run.ts` | one run's state, events, samples, connection status, two buffers, timers | connect, apply a frame, flush, retry, notice silence | live stream |
| Web: Mission Control | `apps/web/src/app/mission-control` | selected run, query cache, throttled panels | select, fetch history and metrics, merge | store, API |
| Web: run page and replay | `apps/web/src/app/runs/[id]`, `components/runs`, `components/twin` | tab, cursor, playing, drawn trail | poll, cancel, play, seek, draw | API |
| Web: history, comparison, reports | `apps/web/src/app/runs`, `compare`, `reports` | filters, offset, picks, address, query cache | list, filter, turn, pick, navigate | API |
| Web: scenario form and studio | `apps/web/src/components/scenario`, `lib/scenario-document.ts` | draft, raw text, name opened, dialogs | edit, convert, validate, save, run | API |
| CLI, compare, regression | `packages/cli`, `services/api/.../compare.py` | none | local execution, verdicts on pairs of reports | API, engine |

What makes it hard:

- **Three writers of one row.** The consumer, the watchdog (two tasks of the
  orchestrator) and the API each read the run with a plain SELECT, decide and
  write by primary key. Nothing serialises them.
- **Messages.** At least once with redelivery after 2 s (nak) or 120 s (ack
  wait), in any order with newer ones, at most five times; control messages and
  heartbeats at most once; the API's subscription for live streams misses what is
  published while it is away.
- **Crashes.** A runner forgets its run; a restarted orchestrator forgets what
  runners reported and has missed their heartbeats; the API may die between its
  commit and its publish.
- **Time.** Queued 300 s, preparing 600 s, quiet 45 s, heartbeats every 10 s,
  acknowledgement 30 s (job) and 120 s (stream), stop grace 20 s: the order of
  two of them decides who closes a run.
- **Objects outside transactions.** The report is put before the commit.
- **Awaits of the engine.** A cancel, an exception of the adapter or of the sink
  finds the engine at any of them, with a batch, injections and verdicts open.
- **Late answers.** Every page of the web application goes on while requests are
  under way: another run, filter, page or document may be in front when the
  answer comes, and a cache gives the old one meanwhile.
- **The same figure twice.** The browser computes live what the platform computes
  after the run (schedule, containment, recoveries, safe state).

## Modules

| Module | What it is |
|---|---|
| `RunStates` | the run states, the table of legal transitions and the check every writer goes through (`states.py`, `transition_run`) |
| `RunPipeline` | the life of one run across API, job queue, runners, stream, consumer and watchdog |
| `ScenarioEngine` | one execution: the engine between its adapter and its sink, the expansion of a scenario, and the end of the runner's `execute`; implements the `Execution` of `RunPipeline` |
| `LiveStore` | the live-run store of the web application as functions from a store to a store |
| `LiveRun` | one run watched by one browser: hub, stream endpoint, WebSocket, hook and store |
| `MissionControl` | the page that watches one of several runs: stream, fetched history, metrics, throttled panels, on one `LiveStore` |
| `ScenarioDocument` | conversions between a document and the form's draft, the schedule shown of a draft, and the platform's reading of the same document |
| `ScenarioComposer` | every edit of the form, on `ScenarioDocument` |
| `ScenarioStudio` | the library and the studio against an API other users write to |
| `RunView` | the figures derived from events in the browser, and the analysis they are to agree with |
| `RunDetail` | the page of one run with its replay and the drawn path of the twin, on `RunView` |
| `Comparison` | the verdicts of `GET /compare` |
| `RunPages` | the pages that list, compare and report on runs, on `Comparison` |
| `MC...` | instances for TLC: constants and state constraints |
| `RunPipelineProofs` | types, finalization and the outcome of a run |
| `ScenarioEngineProofs` | an execution's telemetry is complete, its injections are cleared when they are to be, and each expectation gets the verdict it earns |
| `LiveRunProofs` | a watched run is shown once, in order, and its outcome stays |
| `MissionControlProofs` | the page shows the run that is selected |
| `ScenarioStudioProofs` | what was saved is listed, a save asks, which answers take edits with them |
| `ScenarioComposerProofs` | the form loses nothing, and agrees with catalog and platform |
| `RunPagesProofs` | comparisons mirror, pages show what is asked and are answered without gaps |
| `Places` | parts and rearrangements of a sequence by the places of its elements: what a filter, a comprehension and `sorted` of the code make of a list |
| `SequenceLemmas` | lemmas on sequences, on `Places`, on finite sets of numbers and their order |

### RunPipeline: state and steps

One run. The runs are independent in the code but for the watchdog's tick,
which handles all of them in one transaction (an error on one takes back the
verdicts on the others: `WatchdogFails` may happen to this run's tick for no
reason of its own).

| Variable | Code |
|---|---|
| `row` | the `runs` row: `state`, `runner_id`, and the final state its analysis in the database is for |
| `stored` | `run_events` and telemetry chunks, unique by sequence number (`ON CONFLICT DO NOTHING`) |
| `object` | `report.json` in the store: the final state it names and the events it was made of |
| `request`, `cancelReq`, `cancels` | where `create_run` and a `cancel_run` are, and what the latter read |
| `asked` | who has published a CancelRequest |
| `job` | is the RunJob in the work queue? |
| `log`, `cursor`, `again` | the stream, the first message never delivered, the messages to be redelivered with their count |
| `wire` | the runners a CancelRequest is in flight to |
| `handler` | the consumer's message and what it has read of the row |
| `watchdog` | the tick's verdict and what it has read |
| `runner`, `exec` | the processes (up, draining, down) and their execution of the run |
| `hb`, `trusted` | the runner's last heartbeat (age from the database, report from memory), the grace period after a start |
| `late` | clocks that have run out: queued, quiet, preparing |
| `faults` | faults so far |

A transaction is two steps, one that reads (`CancelRead`, `Read` in
`DeliverNew`/`DeliverAgain`, `WatchdogRead`) and one that writes on what was
read to whatever the row is by then (`CancelWrite`, `OnLifecycle`,
`OnFinished`, `WatchdogWrite`); a flushed UPDATE holds the row lock until the
commit, so writing is one step. `create_run` has no read: nobody else knows the
run before its first commit. Its second commit, after a failed publish, writes
on the object it still holds (`FailUnpublished`). `_on_event` reads nothing.
A finalize that analyses without having flushed anything (COLLECTING and a
failed outcome) reads the events a moment before it takes the lock; the model
reads them at the commit there too. The consumer and the finalize are one
task, so this only concerns the watchdog's finalize, whose report `ReportReflectsStored`
refutes anyway.

`runs.updated_at` has `onupdate`: every UPDATE refreshes it, so every write
clears the quiet clocks (`Touch`), and an inserted event does too. The queued
clock runs from the creation and is forgotten once the run has left QUEUED, where
nothing reads it.

What an execution announces (`Execution(n)`) is the engine's order: PREPARING,
RUNNING alternating with RECOVERING, COLLECTING whatever came before, then the
run is popped from `_active` and the finished message published. Events,
telemetry and the injections behind them are one message kind. A cancel is seen
between two observations or during the preparation, not after. An adapter that
hangs is an execution that never takes its next step.

Faults, each counted against `MaxFaults` and drawn from `Faults`: `crash` (API,
runner, orchestrator), `stop` (SIGTERM: the runner drains), `publish` (a publish
to a stream raises; whether the message was stored is open for the job),
`ack` (an acknowledgement is lost), `error` (a transaction raises and is rolled
back, its report may stay in the store), `cancel` (a control message is lost),
`analysis` (an analysis raises; not counted, the code carries on).
An outage of the orchestrator may be short, longer than `runner_stale_after`, or
longer than `preparing_timeout`.

**Time.** Clocks are flags raised by actions of their own. Safety runs let them
run out at any moment (`Timely` FALSE), so no invariant rests on any delay.
Liveness and `SparesTheWorking` need the delays: with `Timely` the consumer
handles what is published within 45 s unless it waits for the 120 s redelivery, a
running engine keeps publishing telemetry, heartbeats of a runner that is up
arrive, and steps that only publish take less than 45 s. These are the defaults of
`settings.py` and `ack_wait`; a deployment that changes them has to look at
`GoQuiet`, `PreparingTooLong`, `HeartbeatStale` and `TrustHeartbeats`.

**Fairness.** The services keep running (weak fairness of the API's own steps,
the consumer, the watchdog's loop), time passes, NATS delivers what it holds,
and an execution whose target is ready makes progress. Nothing is assumed of
users, of faults, of a runner taking the job or coming back, or of a target
becoming ready.

### ScenarioEngine: state and steps

| Variable | Code |
|---|---|
| `scenario` | the document: events and a consequence profile, expanded by `expandedEvents` |
| `pc` | the await the engine is at, then the runner's: collecting, stopping, returned, popped, done |
| `token`, `exc`, `final`, `raised` | the cancel token, the exception under way, the state to announce, did `run` raise? |
| `clock`, `obs` | simulation time, the observation in hand |
| `pending`, `active`, `clears`, `expectations` | events to come, injections active by event id, deadlines of clears, windows open |
| `states`, `openSince` | component states, since when a component is faulty |
| `batch`, `sent`, `samples` | the telemetry buffer, what was flushed, what was taken |
| `log` | what the sink was given: lifecycle, events, verdicts, finished |
| `runState`, `target`, `stopped` | the state announced, which injections the adapter has, was it stopped? |
| `faults` | publishes that raised so far |

An observation is a step in time with the components it changed and whether the
mission is over; the adapter may yield any of `Observations`, apply or refuse an
injection, and raise at any call. `SinkFails` lets any publish raise: the engine's
`finally` is then left at that point, as in the code. The loop's order is the
code's: due events, due clears, changes, the sample, expectations, then the
mission's end and the timeout; the cancel is looked at before all of them. An
adapter may also have nothing more to yield (`Observe`): the engine leaves the loop
and looks at no cancel. A batch is sent when it spans `BatchSpan` or holds
`BatchSize` samples (200 in the code).

`RunsAsPipeline` is the refinement: `Pipeline == INSTANCE RunPipeline WITH ...`
maps `pc`, `token` and `log` to `exec`, `wire` and the messages of `log` there,
and every step of the engine is a step of `RunPipeline`'s `Execution` or
`OnControl`, or changes nothing the pipeline sees. The other variables of
`RunPipeline` are constant under the mapping: an execution neither reads nor
writes them. The bound of `RunPipeline` on optional messages is lifted there
(`ChatterAt <- Nat`). It holds however many publishes raise, and is proved
(`RefinesPipeline`): a failed run whose last event raises in its turn, or whose
lost COLLECTING cannot be reported either, is in `PublishFails`.

### LiveRun, LiveStore: state and steps

`sent`, `dealt` and `heard` are how far the runner, the consumer and the hub have
come in `Script`; of the messages dealt with, `failed` are those whose handling
has ever raised, and `missing` those of them that are not stored: set aside with
nak while the loop goes on, or given up after the fifth delivery. What is in the
database is the rest (`Stored`). `row` is the run's state and report, `lastTime`
its `last_simulation_time`, and `Script` starts from `FirstState`; `conn` is the
endpoint (its phase, what it read, its queue, has it seen the finished message);
`wire` the frames on their way; `store`, `buffer`, `socket`, `again` the browser;
`dropped` what the hub took out of full queues. The endpoint's reads (`ReadRun`,
`ReadHistory`) and its subscription (`Subscribe`) are three steps, as in the code.
Faults: `drop` (the connection breaks), `silence` (no frame for `STALE_AFTER_MS`),
`elsewhere` (the run is closed without its runner), `miss` (the hub never gets a
message), `error` (the handling of a message raises: `ConsumeFails`). A message
that was set aside may come again at any time or never (`Redeliver`); a finished
message that does not leaves the run to the watchdog (`CloseAbandoned`).

### MissionControl: state and steps

`run` holds what is published and stored of each run, `listed` what the list of
runs says of it; `param` and `owner` are the run in the address and the one the
store belongs to; `conn` the stream; `cache`, `fresh`, `fetch`, `metrics` the
queries; `seen` what the metrics panel shows; `shown`, `recent`, `timer` the
throttle. React's effects run before the next event: `Commit` is the part of
every action that follows from what it changed.

### ScenarioDocument, ScenarioComposer, ScenarioStudio

A draft is edited by `AppendAny`, `EditEvent`, the settings and assertion edits,
and `ReadBack` (written as a document and read again). Texts that do not parse
stay texts, as in the form. `EventEntry` is what an event is written as,
`EventDraft` how it is read. The schedule of the form (`ScenarioSchedule`) and that
of the platform (`Expanded`) are lists, each sorted (`InOrder`) as its side sorts
them: the browser by `Collation` (`localeCompare`), the platform by `CodePoints`. That
these order ids alike is the assumption `OrdersAgree`: ids are lower case letters,
digits and dashes (`ids.py:16`), for which it holds in English but not in every locale.
`Valid` is the platform's check of a document, with its limits on events and
expectations (`MaxDocumentEvents`, `MaxExpectations`), of which the form knows nothing.

`ScenarioStudio` has the library and the details in their caches (`list`,
`details`). The list's record says which names it shows, whether it is known and
fresh, and where its request is: sent, served (`ListServed`: the API has read the
library into `answer`), or overtaken by a save that was answered since. A request
outlives the page that sent it, and its answer makes the list fresh however old it
is (`ListArrives`); `late` says that this happened. Pages with the list are the
library and Mission Control (`Listing`). There are also the verdicts on texts
(`verdicts`), the page in front, the studio on it (draft, raw text, what it was
opened with, debounced text, dialogs), the requests under way (`posts`) and what
was run. A save is `Save`, `Check` (create_scenario looks), `Write` (it writes),
and the answer. A studio that was left gets no answer, and its request still
writes. An empty text (`Empty`) is not looked up unless Validate is pressed.

### RunView, RunDetail

`RunView` has both sides of each figure: `live...Kpis` of the browser,
and the analysis (`Analyzed...`), and how the engine records changes (`Told`,
`Recorded`): the events the figures are computed from are what it makes of
observations. In `RunDetail`, `server` is the run as it goes on, `query` the
requests and what they answered, `page` the tab, `replay` the cursor, the drawn
trail and the playback. `Tick` and `Frame` are the interval and the frame of the
playback, `Serve` and `Fail` the end of a request. A run ends completed, failed or
cancelled.

### Comparison, RunPages

`Comparison` is `GET /compare` as an operator on two analyses: values of metrics,
outcomes of assertions, and of each dimension of the score its points and its weight.
A dimension is listed if it has a weight in the candidate, or in the baseline when the
candidate does not have it (`Weighs`), so with two score profiles it may be listed one
way and not the other (`docs/scoring.md:102`).

`stored` is the runs there are, `cache` the queries by key with what they
answered, `address` and `pending` the page in front and a navigation under way,
`list` the filters, the offset and the key that was shown last (its rows stay as
placeholders).

## What is checked

| Property | Says | Run |
|---|---|---|
| `TypeOK` | types | `pipeline_safety` |
| `CompletedIsEarned` | COMPLETED needs a runner's word and the analysis of a completed run in the database | `pipeline_safety` |
| `CancelledIsAsked` | CANCELLED needs a user or the preparing timeout | `pipeline_safety` |
| `FinishedCloses` | a finished message that was dealt with has closed the run for good, with fewer faults than deliveries | `pipeline_safety` |
| `FinalizeIsLegal` | finalize has a legal path from every state that can have been read | `pipeline_safety` |
| `Settles` | every run ends, and stays ended | `pipeline_settles` |
| `SparesTheWorking` | the watchdog never gives up on the runner of a run that a runner executes | `pipeline_settles` |
| `CancelReachesRunner` | no runner goes on with a cancelled run | `pipeline_settles` |
| `NothingDoubled` | the store shows each event and sample once, in order | `live_run_safety` |
| `CompletedSnapshotIsWhole` | a snapshot that says COMPLETED has the newest of all events of the run, but those whose handling had failed: the finished message does not wait for them | `live_run_safety` |
| `OutcomeStays` | an outcome that was shown stays | `live_run_safety` |
| `WatcherIsServed` | a queued finished message ends with the outcome shown; a lost connection is opened again | `live_run_safety` |
| `ShowsItsRun` | the store, the history and the labels are the selected run's; what is called analyzed is over | `mission_safety` |
| `HistoryComes`, `ScoreComes`, `PanelsCatchUp` | who goes on watching gets the history, the score and the last value | `mission_comes` |
| `RoundTrips` | a document that is read back is the one that was written, and what the form does not know survives | `composer` |
| `ScheduleMirrors` | the countdown of the form is the engine's schedule | `composer` |
| `EventsFitCatalog` | effect, subsystem and parameters of an event fit each other after any edits; of its duration see `TransientHasNoDuration` | `composer` |
| `AppendKeepsValid` | appending an event to a valid document below the limit of events keeps it valid | `composer` |
| `SavedIsListed` | a scenario the studio calls saved is in the list while that is fresh, unless what the API had read for it was overtaken by the save | `studio` |
| `LateAnswersKeepEdits` | what is in the editor goes only with an edit, a link, a run that was created, a failed request for the page's scenario, or the answer to a save under another name than the page's; every other answer leaves it | `studio` |
| `NewAsksFirst` | a scenario that existed when a save looked is not replaced unasked | `studio` |
| `VerdictComes` | a text that stays, unless it is empty, gets its verdict | `studio` |
| `TwinShowsTrail` | the drawn path is that of the samples up to the cursor | `run_detail` |
| `TracksTile` | the track of a component covers the time once, without gaps | `run_detail` |
| `SameStoryObserved` | live figures are the analyzed ones, of a recording in which no component is lost from view (`NeverLost`) and none starts impaired (`StartsHealthy`) | `run_detail` |
| `PanelsAgree` | command path, blast radius and alerts tell the same of the same events | `run_detail` |
| `PlaysOut`, `OutcomeComes` | a replay that plays reaches its end; a page that stays shows how the run ended | `run_detail` |
| `ShowsWhatIsAsked` | rows, reports and comparisons are those of the address and the filters, no page beyond the last | `run_pages` |
| `VerdictMirrors` | a comparison tells the opposite when its runs trade places, of a dimension where it is listed both ways, which it is when both profiles leave out the same ones (`ScoredAlike`) | `run_pages` |
| `PagesSkipNone` | an answer to the page that is shown passes over no run after the last row of the page before it; a page from the cache may, until it is answered anew | `run_pages` |
| `PagesCatchUp` | pages do not stay behind the database or at loading | `run_pages` |
| `JudgedRight` | each expectation is judged once, and passed only if the component was seen so | `scenario_engine` |
| `OnlyBoundedOutlive` | after the end only injections with a duration are left to the adapter | `scenario_engine` |
| `EventsTellTrue` | durations of faults, causes and the RECOVERING state are those of the changes | `scenario_engine` |
| `TelemetryIsComplete` | every sample is sent, once, in order, and none waits for longer than a batch's span or behind more than its size | `scenario_engine` |
| `RunsAsPipeline` | an execution is one of `RunPipeline` | `scenario_engine` |
| `Returns` | an execution comes to its end, whatever fails | `scenario_engine` |

Several of these are conjunctions of named parts: `WatcherIsServed` of
`FinishedIsRelayed` and `ReconnectsUntilOver`; `ShowsItsRun` of `NoCrossTalk` and
`AnalyzedIsOver`; `RoundTrips` of `ReadBackIsStable` and `PartsPreserved`;
`PanelsAgree` of `BlastAgrees` and `AlertsAreSeen`; `ShowsWhatIsAsked` of
`ShownIsAsked` and `NoEmptyPage`; `PagesCatchUp` of `RowsCatchUp` and
`LoadingEnds`; `JudgedRight` of `VerdictsAreEarned` and `EachIsJudgedOnce`;
`EventsTellTrue` of `FaultsAreTimed`, `CausesAreOpen` and `RecoveringIsTold`.
Every state machine has a `TypeOK`. Only `RunPipeline`'s is listed in a
configuration; the others hold on the same instances, and adding the name to the
configuration checks them again (`RunDetail`'s with `Recordings <- OneRecording` and
without the constraint: to look each state's recording up among all is slow).

Bounds.

- `pipeline_safety`, `pipeline_settles`: one runner is enough for every
  interleaving of the three writers; the theorems hold for any set. Two
  deliveries stand for five: what counts is a delivery that is the last and one
  that is not. A behaviour has a cancel, or one fault of any kind at any point,
  or optional messages (an event, RECOVERING and back), one of the three:
  `CancelChatterOrFault`. So a user's cancel together with a lost control message is
  left out. Counters and log only grow, so the constraint leaves
  whole behaviours and liveness is checked of those.
- `live_run_safety`: a run of five messages from PREPARING on, a queue of three (so it
  overflows when the endpoint is slow), snapshots that hold less than the history, one
  fault, which may be any message set aside and stored at any later point, or never.
  `nothing_lost` has a whole run of six messages, a queue that holds them all and no
  fault.
- `mission_safety`: a completed and a live run with one event each; more events
  do not tell more runs apart. `mission_comes`: one run and a broken connection.
- `composer`: four edits from three documents (the starter, one with an
  intermittent fault, one with a profile), two subsystems of which one takes a
  transient effect; texts that parse, do not, and are empty; three events are what the
  platform accepts, which the edits reach.
- `studio`: two names, of which one is taken, three bodies of which the form reads
  one into another, an empty text, two saves, one edit and one trouble; `RunsOrSaves`
  leaves out saving after a run was started, an empty text once a save was requested,
  and, with two saves, an edit together with trouble and a request for the list that
  no save has overtaken. An edit with trouble and such a request occur with one
  save.
- `run_detail`: five ticks with two answers of the server, a path that is
  truncated to three samples and a drawn trail of two, one failed request, two
  clicks. `SameStoryObserved` is of what is recorded, not of the page, and is checked of
  every recording of at most four observations (changes of two components, an
  injection, a fail-safe) from a healthy and from an impaired start
  (`ManyRecordings`); the page is explored with one recording of its own
  (`ExploresStory`).
- `run_pages`: three runs and one more to come, pages of two rows, two clicks and
  one failed request; a third click only turns pages of the whole history, back to one
  that is in the cache (`ThirdClickTurns`). One of the runs has a score profile of its
  own.
- `scenario_engine`: two components, of which one provides for the other; a
  bounded fault with a restart during it, and a profile beside an unbounded
  fault; four ticks, observations one to three ticks apart, batches of a span of three
  and a size of three, one publish that raises. So that a batch comes to its span and
  to its size there is a longer mission in which nothing is injected, of which only the
  behaviours without a change are explored (`QuietStays`).

The configurations of pages and of the engine say `CHECK_DEADLOCK FALSE`: a user
whose clicks are used up, a browser that was told the end and an execution that
is done take no further step. The pipeline never stops: heartbeats never end.

### Fairness

- `RunPipeline`: the services keep running (weak fairness of the API's own steps,
  the consumer, the watchdog's loop), time passes, NATS delivers what it holds,
  and an execution whose target is ready makes progress. Nothing is assumed of
  users, faults, a runner that takes the job or comes back, or a target that
  becomes ready.
- `LiveRun`: the runner of a run that is not closed goes on publishing, the
  consumer, the hub, the endpoint, the network and the hook's timers go on, and the
  watchdog closes a run whose finished message is not handled. Nothing is assumed of a
  message that was set aside.
- `MissionControl`: requests are served and their answers arrive, frames arrive,
  the throttle's timer fires. Nothing of the user.
- `ScenarioStudio`: the list is served and arrives, verdicts arrive, the debounce
  ends, each save is answered or fails. `RunDetail`: the polls of the run and its metrics are served
  and the playback's interval fires. `RunPages`: each kind of query is served and
  navigations end.
- `ScenarioEngine`: the engine goes on, and its adapter yields while it is
  listened to, ends or raises: an adapter that never yields hangs the engine, which
  is a case `RunPipeline` has.

No strong fairness is used.

### Findings

What the repository says and the code does not keep. Two have a run:

| Run | Text | What happens |
|---|---|---|
| `terminal_is_final` | `docs/architecture.md:259` "terminal" | the watchdog reads QUEUED after its timeout, the user's cancel commits CANCELLED, the watchdog commits FAILED |
| `nothing_lost` | `use-run-stream.ts:32` "nothing is lost or doubled" | an event published after the snapshot was read and before the endpoint subscribed is in neither; no fault is needed |

The others are definitions at the end of their modules. TLC finds each violated
when it is added to the configuration named here (temporal ones with the fair
specification), with the changes in brackets.

| Definition | Configuration | Text |
|---|---|---|
| `OrchestratorOwnsState` | `TerminalIsFinal.cfg` | `docs/architecture.md:218`: the API commits CANCELLED over a PREPARING it did not read |
| `FinishedRunHasReport` | `RunPipelineSafety.cfg` | `docs/architecture.md:116`: cancelled while queued, taken by a runner all the same, finished: no report |
| `ReportReflectsStored` | `RunPipelineSafety.cfg` | `docs/architecture.md:220`: the watchdog closes the run, then the last events are stored |
| `DroppedIsUnfinishable` | `RunPipelineSettles.cfg` | the orchestrator's `service.py:380`: the finished message was fetched before a restart and comes back after 120 s |
| `ExecutedAtMostOnce` | `RunPipelineSafety.cfg` [two runners] | `docs/security-model.md:125`: the acknowledgement of the job is lost, a second runner executes it |
| `ClosedMeansTold` | `LiveRunSafety.cfg` | `stream.py:11`: a connection lost between the finished and the completed frame is not opened again |
| `DropsTelemetryOnly` | `LiveRunSafety.cfg` | `state.py:55`: the oldest message goes, whatever it is |
| `StaleMeansQuiet` | `LiveRunSafety.cfg` | `mission-control-view.tsx:351`: frames other than a heartbeat do not end the stale status |
| `EndIsTold` | `LiveRunSafety.cfg` | `stream.py:8`: a run closed by the watchdog or a cancel leaves the endpoint at its heartbeats |
| `MissingRunIsReported` | `LiveRunSafety.cfg` [`Exists = FALSE`] | `docs/security-model.md:67`: a close before the accept fails the handshake, the browser sees 1006 and retries |
| `FullHistory` | `MissionControlSafety.cfg` | `live-run.test.ts:196`: the history fetched when the run was declared finished, before its last events were stored, is kept |
| `ClaimsAreObserved` | `MissionControlSafety.cfg` | `mission-control-view.tsx:147`: the throttled sample is that of the run before |
| `TransientHasNoDuration` | `ScenarioComposer.cfg` | `model.py:166`, `event-editor.tsx:236` |
| `RunsAsEdited` | `ScenarioStudio.cfg` | `run-scenario-dialog.tsx:90`: the dialog keeps the adapter of its first render |
| `SentIsValidated` | `ScenarioStudio.cfg` | `README.md:189`: the verdict that enables the button is of the text before the last keystrokes |
| `ReplacedIsTold` | `ScenarioStudio.cfg` | `studio.tsx:243`: the banner names one scenario, the button sends another |
| `NoticeIsOfWhatIsShown` | `ScenarioStudio.cfg` | `studio.tsx:252` |
| `NeverReplacedUnasked` | `ScenarioStudio.cfg` | two creating requests both look before either writes |
| `SameStory` | `RunDetail.cfg` | `run-view.ts:4`: a component that was lost from view |
| `PageRefreshes` | `RunDetail.cfg` | `run-detail-view.tsx:388`: the run is polled, its events and telemetry are not |
| `NothingMeansNone` | `RunDetail.cfg` | `replay-tab.tsx:157`: also said when the request failed |
| `PausedAgrees` | `RunDetail.cfg` | the published cursor lags behind the twin when the playback is paused |
| `NominalIsObserved` | `RunDetail.cfg` | `event-feed.tsx:15` |
| `ProtectedStayedHealthy` | `RunDetail.cfg` [`Recordings <- OffPath`, no constraint] | `blast-radius.tsx:50`: a failed component off the command path |
| `EmptyMeansNone` | `RunPages.cfg` | `runs-view.tsx:152`: the offset is beyond the runs that are left |
| `KeepsOtherRole` | `RunPages.cfg` | `compare-view.tsx:63`: a second pick before the navigation of the first is over |
| `UnchangedMeansUnmoved` | `RunPages.cfg` | `compare-view.tsx:33`: metrics without a better way changed, or could not be compared |
| `VerdictsInWindow` | `ScenarioEngine.cfg` | `docs/scenario-format.md:174`: judged at the first observation past the deadline |
| `RequestedOnce` | `ScenarioEngine.cfg` [`Scenarios <- AlikeScenarios`] | `docs/scenario-format.md:156` "Event ids are unique.": the id made for an event of a profile is that of an explicit one; both are injected, and the clear of the first takes the second from the active ones |
| `OperationalIsExpected` | `ScenarioEngine.cfg` [a profile with only operational behaviours] | `scenario/model.py:254` |
| `TargetIsStopped` | `ScenarioEngine.cfg` | `docs/adapter-development.md:235`: a publish that raises in the `finally` block skips `adapter.stop()` |

`docs/adapter-development.md` also lists the cancel last among the steps of the
loop; the code looks at it first, which no property here tells apart.

Nothing in the repository promises that edits outlast a save, and two answers take them
away: that to a save under a new name goes to its page (`studio.tsx:152`), without what
was typed since the request, and a failed refetch in the background replaces the editor
with an error (`scenario-edit-view.tsx:19`). `LateAnswersKeepEdits` has both among its
exceptions (`Left`).

### Hazards outside the properties

A runner that drains sends no heartbeats (`runner/service.py:86`); the same run
accepted twice by one runner replaces the first token (`:165`); the run is popped
before its finished message is published (`:210`); the report is put before the
commit (`analysis.py:170`); a stale timer of an older connection
(`use-run-stream.ts:111`); a save enabled by an old verdict (`studio.tsx:217`);
the defaults of the run dialog (`run-scenario-dialog.tsx:53`); a second pick
during a navigation (`compare-view.tsx:63`); overlapping faults in the simulated
vehicle and in the PX4 adapter. For those whose code is modelled the definitions
above say what goes wrong; the adapters, and two executions in one runner, are in
the plan.

## What is proved

For every value of the constants, from the named assumptions of the modules
alone:

| Assumption | Why the code justifies it |
|---|---|
| `PipelineAssumption`, `StoreAssumption`, `DetailAssumption`, `ViewAssumption` | types of the constants, sizes that are positive |
| `EngineAssumption` | the scenario was validated; the contract of an adapter's observations: time goes on, and a component is listed at most once, since an adapter makes the list as the difference of two dictionaries (mock `simulation.py:787`, PX4 `adapter.py:312`, replay `adapter.py:128`) |
| `LiveRunAssumption` | the runner publishes the finished message last (`service.py`), the queue holds something |
| `MissionControlAssumption` | runs are told apart by their ids, and there are finitely many |
| `ScenarioStudioAssumption` | the form makes a document of every document it reads |
| `CatalogAssumption` | the catalog of the form: each effect has its parameters, none that needs a duration is transient |
| `DocumentsAssumption` | what the platform has validated has times and lists where they belong |
| `ComparisonAssumption`, `PagesAssumption` | the metric definitions; a completed run has an analysis |
| `OrdersAgree`, `LimitsAssumption` | ids have characters that the browser's collation orders as their code points are, in the locales it is used in; the limits are numbers |
| `KeyAssumption` | a query's key is not what stands for no key |

Some theorems have a hypothesis of their own.

- `EventsGoOnFitting`: the documents that are opened fit the catalog, as those of the
  platform's library do. An event that is read from a document the catalog does not
  know is kept as it is.
- `Outlives`, `Judges`, `TimesFaults`, `TellsTrue`: no two events of a scenario, the
  ones made of its profile included, have one id (`DistinctIds`). The validation
  compares the ids of the explicit events only, so the code does not give this:
  `RequestedOnce` fails of a scenario without it. In every scenario of the repository
  it holds.
- `TellsTrue`: the adapter leaves it to the engine to name the cause of a change
  (`AttributionLeft`), as the PX4 and the replay adapter do, and as the instances
  have it. The mock adapter names causes itself (`simulation.py:797`), and the engine
  passes on what it is told; whether those are open is a property of that adapter,
  which is not modelled.
- `WorkingSpared`: the delays of the code (`Timely`), as in `pipeline_settles`.
  Without them a heartbeat may be arbitrarily late, and the property is false.

| Theorem | Property | Argument |
|---|---|---|
| `TypeCorrect` | `TypeOK` | `TypeInv`: `TypeOK` with the fact that the handler's and the redelivered indices are below the cursor and the cursor at most one past the log (without it `log[handler.idx]` has no type) |
| `Completed` | `CompletedIsEarned` | inductive over `TypeInv`. `RowSteps` says the only six things a step does to the row; only closing it for a message of the log can make it COMPLETED |
| `FinalizeLegal` | `FinalizeIsLegal` | `LifeInv`: no transaction leaves a run in CREATED, VALIDATING or ANALYZING, there is no message before there is a run, so what a handler reads is a committed state; a run that was over when it was read still is. From each such state that is not terminal the bridge is legal (`BridgeIsLegal`) |
| `ClosedForGood` | `FinishedCloses` | `CloseInv`: a delivery beyond the first was paid for with a fault (`Budget`), so with fewer faults than deliveries no finished message is dropped; when it was dealt with the row is terminal, and whatever lifecycle handler is at work after that has read a terminal state (`LateFollower`), the one writer that could open the run again |
| `Asked` | `CancelledIsAsked` | `Unasked`: as long as nobody asked there is no trace of a cancel in the row, the wire, the executions, the log and the snapshot |
| `WorkingSpared` | `SparesTheWorking` | `SpareInv`, with `Timely`. While there has been one execution, its runner is the only one that is busy or has announced a state (`Alone`); the row of a run under way has a runner, and it is one that announced a state (`Owned`): so it is the one at work. The quiet clock runs out, and the grace period ends, only when the heartbeats have caught up (`QuietSteps`, `ClockSteps`); from then on what was heard of the runner stays fresh and says that it has the run (`HeardOf`). A runner that was down executes nothing (`DownIdle`), so none starts into an execution nobody heard of |
| `Telemetry` | `TelemetryIsComplete` | `TeleInv`: no sample is of a later time than the clock's, and none of the clock's own time while an observation is in hand, so the next one comes after all of them; while the engine waits, the batch spans less than `BatchSpan` and holds less than `BatchSize` (`Spread`); without a fault what was sent and the batch are all that was taken, in order |
| `Outlives` | `OnlyBoundedOutlive` | `SchedInv`: what was requested is no longer pending (`PendingInv`); an injection that was applied and not cleared is in the target as its effect says and, unless it is a restart the component recovered from, active (`AppliedInv`, `ActiveInv`, `TargetInv`); a bounded one has a clear scheduled for the end of its time (`ClearsInv`), and no sample taken so far is past it; what was cleared was so once and in time (`ClearedInv`). The heap hands out an earliest clear, and the loop goes on only when none is due |
| `Judges` | `JudgedRight` | `JudgeInv`: while the execution is on its way, or ended well, each expectation of an injection that was applied is judged or open (`Asked`, `Judged`, `Open`); what is open is told apart, has a deadline from its event and its injection, and no sample so far settles it (`OpenInv`); a verdict that was earned stays so when later samples come (`Sound`, `StaysEarned`); between two samples the last one is what the engine knows of the components, which is what it judges the rest by at the end (`LatestInv`) |
| `TimesFaults` | `FaultsAreTimed`, `RecoveringIsTold` | `FaultInv`: what the engine keeps as open since a time is a component that was healthy in the sample before that time and in none since, as far as the samples go, and in the middle of an observation as far as its changes were handled; a recovery in the log was timed so when it was logged, and later samples change nothing of what lies before it. `TellInv`: between two samples the last lifecycle entry of the log says RECOVERING exactly when a component is, and the run state the engine remembers is that of the entry, so what it leaves unsaid was said |
| `TellsTrue` | `EventsTellTrue` | `TimesFaults`, and `CauseInv`: each active request has its entry in the log, applied and neither cleared nor recovered from since (`Stands`), and each change that was attributed was so to one that stood when it was logged (`Caused`). What takes a request from the active ones is what logs its end, so none stands that is over: this is where `DistinctIds` is used |
| `RefinesPipeline` | `RunsAsPipeline` | for every scenario, adapter and number of publishes that raise, and without `DistinctIds`. `ListsInv`, `StageInv`, `SaidInv`: where the engine is goes with the run state it announced, COLLECTING is announced after the mission and only once, and the run is finished once. From these the log is, seen from `RunPipeline`, what was announced, then the last event, then COLLECTING and the finished message (`LogInv`), and the execution is in one of its phases (`ViewInv`); one lemma for each step of the engine (`SeesStart` to `SeesCancel`) gives the step of `RunPipeline` it is, or that nothing is seen |
| `OutcomeIsKept` | `OutcomeStays` | `OutcomeInv`: a frame that tells the end tells it as the row has it, comes from an endpoint that is gone, and is followed by nothing but the end again (`WireInv`); once the browser knows the end, no endpoint relays and nothing on the wire says anything else (`Agrees`) |
| `ShownOnce` | `NothingDoubled` | `OrderInv`: the buffered samples came before the frames on the wire, these in order and before what the endpoint has queued (`BufferOrder`, `WireOrder`, `QueueOrder`), whatever was dropped from the queue; snapshots are numbered (`HistoryNumbered`). The store merges events by their numbers, and takes of a batch of samples what is newer than its last, so a batch in order keeps it in order |
| `CompletedIsWhole` | `CompletedSnapshotIsWhole` | `WholeInv`: a row is COMPLETED only when the last message has been dealt with, so what the database lacks of the events is missing, what is missing has failed, and what has failed stays in `failed`. The history is read after the row, so it ends with the newest of all events but some that had failed |
| `PageShowsItsRun` | `ShowsItsRun` | `ShowsInv`: the store is that of the run the address or, without one, the list selects (`PageInv`) and shows nothing of another, nor an end its run has not come to (`ShowsOnly`); what is cached of a run and on its way to the cache is that run's, and it has metrics only when it is completed (`QueryInv`) |
| `SavedScenariosListed` | `SavedIsListed` | `StudioInv`: what each request to save has seen of the library, by the phase it is in (`PostInv`: `Filed`, `Asked`): once it was answered, what the API has read for the list has it, or is overtaken; a conflict is of a request that was made (`Told`) |
| `NewScenariosAsk` | `NewAsksFirst` | an action property, from `Asked`: a write that was not told to overwrite found no such name when it looked |
| `EditsKept` | `LateAnswersKeepEdits` | an action property, from the types: every step that is neither an edit nor in `Left` keeps page, studio, draft and text, one case per action; the answer to the own save stays on the page exactly when the name is that of the page |
| `NothingLostInText` | `RoundTrips` | `FormInv`: the draft is one, and what it preserves is of the document it was filled from. An event that is written and read is written the same (`EventEntry` of `EventDraft`), parameter by parameter |
| `CountdownIsSchedule` | `ScheduleMirrors` | what the platform accepts has times that parse, so both sides list the same injections, and sort them the same way |
| `EventsGoOnFitting` | `EventsFitCatalog` | `FormInv` with `Fits` of every event: a change of the subsystem takes an effect of it, a change of the effect its parameters |
| `LibraryKeepsValid` | `AppendKeepsValid` | the document has room for one more event (a hypothesis of the property); the new id is the first one that is free, which a pigeonhole finds; the new time is past the last one and before the timeout unless that is too short |
| `ComparisonMirrors` | - | about `Compare` itself, for any two analyses: one metric by cases on the direction and the sign of the difference, then the tables, then the counts, which trade places, and the verdict on the runs; a dimension that both runs have is listed both ways if neither weight is 0, and one that a single run has by that run's weight |
| `PagesShowWhatIsAsked` | `ShowsWhatIsAsked` | `PagesInv`: a key and an address are of runs that were completed when they were listed, and completed runs stay so (`GoesOn`); every answer in the cache is about its key |
| `ShownComparisonMirrors` | `VerdictMirrors` | from `PagesInv` and `ComparisonMirrors` |
| `PageAnswersSkipNone` | `PagesSkipNone` | `ListInv`: of every answer in the cache about a filter that only gains runs, as many runs match now or more, and each row has as many at or above it as when it was listed, or more (`Listed`). A new answer has its rows in their places (`Placed`), so a run after the last row of the page before is not above its first |

What these needed beyond the property:

- `FinishedCloses` as it stands is not inductive: a lifecycle handler that read the
  row before it was closed would open it again. It cannot exist because the
  consumer handles one message at a time, which is what `LateFollower` says. Nor is
  `OutcomeStays` a fact about one step: it needs what may still be on the wire when
  an outcome is shown.
- `NothingDoubled` is a property of the store alone, and its invariant is about
  every place between the hub and the store: samples are appended in batches, so
  one that was buffered behind a later one would be shown out of order.
- `PagesSkipNone` compares an answer with that of the page before, fetched
  earlier. Runs that are created move rows to later pages and never to earlier ones, so counting the runs
  at or above a row is what the induction is on.
- `PagesSkipNone` says nothing of a page that is shown from the cache: it may leave a
  gap for the 5 s it is fresh and until the interval of 20 s asks again, as the run with
  a third click does.
- `OnlyBoundedOutlive` speaks of the log, the samples and the target between two
  samples, and its invariant has to hold at every await in between: when a clear is
  due and not done, when the observation is in hand and its sample not taken, and
  when the mission was left. The events are put in order by `Arranged`, whose lemma
  (`Arrangement`) says that nothing is lost and nothing doubled.
- `JudgedRight` says of a verdict what all samples show, and the engine keeps no
  samples: it looks at one at a time, and remembers of the others only `left`, that
  the component was seen degraded. `Unsettled` is what those samples must then have
  been like, and `Sampled` that one more sample either leaves it so or earns the
  verdict the code gives.
- `FaultsAreTimed` as it stood first was false of a component that no sample shows
  healthy: the engine opens a fault when a component leaves the healthy states, so one
  that starts outside them is not timed, and its recovery tells no duration. The
  property now speaks of components that were seen healthy, and the invariant of the
  engine's `openSince` for exactly those.
- `CausesAreOpen` looks at what lies in the log between an injection and a change. A
  change that is attributed was so in the middle of an observation, whose earlier
  changes may have ended a restart; the invariant therefore holds of each change that
  is handled (`Steps`), not only of each step.
- `SparesTheWorking` needs of the delays that the watchdog's clocks run out only after
  the heartbeats have caught up, and nothing of the messages that are on their way:
  which runner the row names does not depend on when the consumer gets to them.
- `RunsAsPipeline` compares two logs, and the pipeline's is a selection from the
  engine's. A step appends a list whose length depends on the scenario, of which the
  pipeline sees one entry or none (`ToldMore`, `ToldStays`), so the invariant says of
  the engine's log only which kinds are in it yet. The proof also asked for more than
  the runs had: a second publish that raises, which `RunPipeline` did not allow.
- Inductions over data are arguments about a least number or about the rank in a
  finite set (`RankedSet` in `SequenceLemmas`): the library's induction theorems
  take an operator as a parameter.

Only model-checked:

- All liveness properties, and whatever speaks of fairness: out of the prover's
  reach.
- `TwinShowsTrail`, `TracksTile` and `SameStoryObserved` of the run page: the figures
  there are folds over events and samples (`FoldLeft`), which are opaque to the
  provers, and each needs an induction along the data.
- `PanelsAgree` of the run page: it speaks of the figures at one moment, whatever led
  to it, so what a proof would add to the check is other recordings and topologies.

`ComparisonMirrors` is the general form of what `VerdictMirrors` checks of the
comparison on the page. The findings are counterexamples.

## Plan

Done: `RunStates`, `RunPipeline`, `ScenarioEngine` with its refinement, the live
stream, the web application's pages with state, and the theorems above.

1. `MockVehicle`, `Px4Adapter`, `ReplayAdapter`: component faults, saved
   parameters, deadlines, cursor, and that each keeps the contract
   `ScenarioEngine` assumes of observations.
2. `RunnerService`: job loop, semaphore, `_active` with several runs.
3. `Topology`, `Metrics`, `Scoring`, `Expressions` and the regression command, as
   pure operators against reference definitions.
4. More theorems: the figures of the run page, which need the model's folds in a form
   that can be reasoned about.

## Not modelled

Queries, migrations, rendering, charts, the three-dimensional scenes, settings and
system pages (views of one query without state of their own), authentication, file
formats, the command line and deployment files: no shared state to go wrong in an
order of steps. What a metric or a score computes beyond the figures in `RunView`:
planned. YAML limits and the warnings of a validation: texts. Delivery guarantees
of NATS and isolation of PostgreSQL are assumptions, as described above; so is
that React handles one event at a time and TanStack Query gives a page the answer
of the key it asks for, or its placeholder.
