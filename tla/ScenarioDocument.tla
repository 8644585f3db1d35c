--------------------------- MODULE ScenarioDocument ---------------------------
(***************************************************************************)
(* The conversions between a scenario document and the flat draft of the   *)
(* studio (lib/scenario-document.ts), the schedule that is shown of a      *)
(* draft, and what the platform makes of the same document                 *)
(* (scenario/model.py).                                                    *)
(*                                                                         *)
(* Scalar fields the form edits are carried as they are: they are one      *)
(* value, settings, but for the recovery policy, the name and the timeout  *)
(* of the mission.  A text that stands for a duration is its seconds, Junk *)
(* when it does not parse, Blank when it is empty.  An event id is         *)
(* <<base, n>>: n = 1 is the base itself, n > 1 the base with the suffix   *)
(* -n.  A part of a document that is not there is Absent.                  *)
(***************************************************************************)
EXTENDS Integers, Sequences, FiniteSets, SequencesExt, Places

CONSTANTS
  Subsystems,     \* of the fault catalog
  Allowed,        \* their effects in the order of the catalog, [Subsystems -> Seq]
  Transient,      \* effects the target recovers from on its own
  Bounded,        \* effects that need a duration
  ParametersOf,   \* [effect -> sequence of [name, type, range]], the range being
                  \* the texts of the numbers from its minimum to its maximum
  DurationTexts,  \* texts of a parameter that parse as a duration
  SlugOf,         \* base of the id of an event, [<<subsystem, effect>> -> base]
  Absent,         \* a part that is not there
  ProfileSlugOf,  \* base of the id of a profile's event, [subsystem -> base]
  Collation,      \* how the browser orders ids, localeCompare: [id -> Int]
  CodePoints,     \* how the platform orders them, as strings: [id -> Int]
  MaxDocumentEvents,  \* what the platform accepts of events
  MaxExpectations     \* ... and of expectations of an event

\* Ids are lower case letters, digits and dashes (ids.py:16), which English
\* collation orders as their code points are.  It is an assumption on the locale
\* of the browser: Danish puts aa after z.
ASSUME OrdersAgree == Collation = CodePoints

ASSUME LimitsAssumption == MaxDocumentEvents \in Nat /\ MaxExpectations \in Nat

Junk   == -1
Blank  == -2

Effects == UNION {Range(Allowed[s]) : s \in Subsystems}

\* parseDuration, null being Junk.
ParseDuration(text) == IF text >= 0 THEN text ELSE Junk

IsDuration(text) == ParseDuration(text) # Junk

\* parseDuration(text) ?? default
DurationOr(text, default) == IF IsDuration(text) THEN text ELSE default

-----------------------------------------------------------------------------
(* Parsing.                                                                *)

\* Mutant: a text is read as a number.
NumberDrafts(parameters) ==
  [k \in DOMAIN parameters |->
     [name |-> parameters[k].name, value |-> parameters[k].value, kind |-> "number"]]

\* A number in the document loses which kind of number it was.
ParameterDrafts(parameters) ==
  [k \in DOMAIN parameters |->
     [name |-> parameters[k].name, value |-> parameters[k].value,
      kind |-> IF parameters[k].type = "string" THEN "duration" ELSE "number"]]

\* What is not one of the known effects becomes the first.
EffectOf(effect) == IF effect \in Effects THEN effect ELSE "unavailable"

EventDraft(entry) ==
  [id         |-> entry.id,
   at         |-> entry.at,
   subsystem  |-> entry.subsystem,
   effect     |-> EffectOf(entry.effect),
   duration   |-> entry.duration,
   parameters |-> ParameterDrafts(entry.parameters),
   expect     |-> entry.expect]

\* The parts the form does not edit.
Preserved(document) ==
  [labels        |-> document.labels,
   configuration |-> document.configuration,
   waypoints     |-> document.waypoints,
   profile       |-> document.profile,
   scoring       |-> document.scoring]

ParseScenarioDocument(document) ==
  [name       |-> document.name,
   settings   |-> document.settings,
   recovery   |-> document.recovery,
   timeout    |-> document.timeout,
   events     |-> [k \in DOMAIN document.events |-> EventDraft(document.events[k])],
   assertions |-> document.assertions,
   preserved  |-> Preserved(document)]

-----------------------------------------------------------------------------
(* Generation.                                                             *)

Numeric == {"0.4", "2"}

\* parameterValue: an empty text and a text that is no number are left out.
Written(parameter) ==
  /\ parameter.value # ""
  /\ parameter.kind = "duration" \/ parameter.value \in Numeric

ParameterValue(parameter) ==
  [name |-> parameter.name, value |-> parameter.value,
   type |-> IF parameter.kind = "duration" THEN "string" ELSE "number"]

\* The parameters of an injection block.
WrittenParameters(parameters) ==
  LET written == ElementsAt(parameters, {k \in DOMAIN parameters : Written(parameters[k])})
  IN  [k \in DOMAIN written |-> ParameterValue(written[k])]

EventEntry(event) ==
  [id         |-> event.id,
   at         |-> event.at,
   subsystem  |-> event.subsystem,
   effect     |-> event.effect,
   duration   |-> event.duration,
   parameters |-> WrittenParameters(event.parameters),
   expect     |-> event.expect]

DraftToDocument(draft) ==
  [name          |-> draft.name,
   settings      |-> draft.settings,
   recovery      |-> draft.recovery,
   timeout       |-> draft.timeout,
   events        |-> [k \in DOMAIN draft.events |-> EventEntry(draft.events[k])],
   assertions    |-> draft.assertions,
   labels        |-> draft.preserved.labels,
   configuration |-> draft.preserved.configuration,
   waypoints     |-> draft.preserved.waypoints,
   profile       |-> draft.preserved.profile,
   scoring       |-> draft.preserved.scoring]

-----------------------------------------------------------------------------
(* What the platform says of a document (scenario/model.py).               *)

ValidEvent(document, entry) ==
  /\ IsDuration(entry.at) /\ entry.at < document.timeout
  /\ entry.subsystem \in Subsystems /\ entry.effect \in Range(Allowed[entry.subsystem])
  /\ entry.effect \in Transient => entry.duration = Blank
  /\ entry.effect \in Bounded => entry.duration # Blank
  /\ entry.duration = Blank \/ IsDuration(entry.duration)
  /\ \A k \in DOMAIN entry.parameters :
       \E spec \in Range(ParametersOf[entry.effect]) :
         /\ spec.name = entry.parameters[k].name
         /\ (spec.type = "duration") <=> (entry.parameters[k].type = "string")
         /\ entry.parameters[k].value
              \in (IF spec.type = "duration" THEN DurationTexts ELSE spec.range)
  /\ Len(entry.expect) <= MaxExpectations
  /\ \A k \in DOMAIN entry.expect : entry.expect[k].subsystem \in Subsystems

ValidProfile(profile) ==
  /\ IsDuration(profile.at) /\ IsDuration(profile.duration)
  /\ profile.effects # <<>>
  /\ \A k \in DOMAIN profile.effects :
       LET e == profile.effects[k] IN
       /\ e.subsystem \in Subsystems
       /\ e.behaviour \in {"operational"} \cup Range(Allowed[e.subsystem])

Valid(document) ==
  /\ document.timeout \in 10..3600
  /\ Len(document.events) <= MaxDocumentEvents
  /\ \A k \in DOMAIN document.events : ValidEvent(document, document.events[k])
  /\ \A j, k \in DOMAIN document.events :
       document.events[j].id = document.events[k].id => j = k
  /\ document.profile # Absent => ValidProfile(document.profile)
  /\ document.events = <<>> => document.profile # Absent

-----------------------------------------------------------------------------
(* The schedule.                                                           *)

\* By time, then by id.
Before(a, b, order) == a.at < b.at \/ (a.at = b.at /\ order[a.id] < order[b.id])

InOrder(schedule, order) == SortSeq(schedule, LAMBDA a, b : Before(a, b, order))

\* The effects of a profile that do something, a sequence of [subsystem, behaviour].
Lasting(profile) == SelectSeq(profile.effects, LAMBDA e : e.behaviour # "operational")

\* Mutant: the duration of a profile is that of all its effects.
FromProfileBounded(profile) ==
  LET lasting == Lasting(profile)
  IN  [k \in DOMAIN lasting |->
         [id |-> <<ProfileSlugOf[lasting[k].subsystem], 1>>,
          at |-> DurationOr(profile.at, 0),
          subsystem |-> lasting[k].subsystem, effect |-> lasting[k].behaviour,
          duration |-> profile.duration]]

\* The injections of a profile; its duration is that of the effects that last.
FromProfile(profile) ==
  LET lasting == Lasting(profile)
  IN  [k \in DOMAIN lasting |->
         [id |-> <<ProfileSlugOf[lasting[k].subsystem], 1>>,
          at |-> DurationOr(profile.at, 0),
          subsystem |-> lasting[k].subsystem, effect |-> lasting[k].behaviour,
          duration |-> IF lasting[k].behaviour \in Transient THEN Blank
                       ELSE profile.duration]]

\* scenarioSchedule, of the draft.
ScenarioSchedule(draft) ==
  InOrder(
    [k \in DOMAIN draft.events |->
       LET event == draft.events[k] IN
       [id |-> event.id, at |-> DurationOr(event.at, 0),
        subsystem |-> event.subsystem, effect |-> event.effect,
        duration |-> event.duration]]
    \o (IF draft.preserved.profile = Absent THEN <<>>
        ELSE FromProfile(draft.preserved.profile)),
    Collation)

\* What the engine injects, in its order: expanded_events, of the document.  A
\* profile's effect that lasts ends with the profile.
Expanded(document) ==
  LET profile  == document.profile
      explicit == [k \in DOMAIN document.events |->
                     LET e == document.events[k] IN
                     [id |-> e.id, at |-> e.at, subsystem |-> e.subsystem,
                      effect |-> e.effect, duration |-> e.duration]]
      derived  == IF profile = Absent THEN <<>>
                  ELSE [k \in DOMAIN Lasting(profile) |->
                          LET e == Lasting(profile)[k] IN
                          [id |-> <<ProfileSlugOf[e.subsystem], 1>>,
                           at |-> profile.at, subsystem |-> e.subsystem,
                           effect |-> e.behaviour,
                           duration |-> IF e.behaviour \in Transient THEN Blank
                                        ELSE profile.duration]]
  IN  InOrder(explicit \o derived, CodePoints)
=============================================================================
