--------------------------- MODULE ScenarioComposer ---------------------------
(***************************************************************************)
(* The form of the Scenario Studio: the fault library, the list of events, *)
(* the editor of one event, the assertions and the timeline, all of which  *)
(* edit one draft.  A user may at any moment have the draft written as a   *)
(* document and read back (the YAML mode), or type another document.       *)
(***************************************************************************)
EXTENDS ScenarioDocument

CONSTANTS
  Documents,   \* what the studio is opened with, or a user types
  IdTexts,     \* what is typed into the id of an event
  Times,       \* ... into the time of an event, and its duration
  Values,      \* ... into a parameter
  Timeouts,    \* ... into the timeout of the mission
  MaxEdits     \* bound: what a user does in a sitting

ParameterKinds == {"number", "integer", "duration", "ratio"}

\* Effects that need a duration are none of those that accept none.
ASSUME CatalogAssumption ==
  /\ Allowed \in [Subsystems -> Seq(STRING)]
  /\ ParametersOf \in [Effects ->
       Seq([name : STRING, type : ParameterKinds, range : SUBSET STRING])]
  /\ Bounded \cap Transient = {}

ASSUME DocumentsAssumption ==
  /\ Times \subseteq Int /\ Timeouts \subseteq Int
  /\ \A d \in Documents :
       /\ d.timeout \in Int
       /\ d.events \in Seq(Range(d.events))
       /\ \A k \in DOMAIN d.events :
            LET e == d.events[k]
            IN  e.at \in Int /\ e.parameters \in Seq(Range(e.parameters))

VARIABLES
  draft,      \* the draft
  selected,   \* id of the selected event, or None
  origin,     \* the document the form was last filled from
  edits       \* what the user did so far

vars == <<draft, selected, origin, edits>>

None == <<0, 0>>

Edit == edits < MaxEdits /\ edits' = edits + 1

NewDraft(next) == Edit /\ draft' = next /\ UNCHANGED origin

SetEvents(events) == NewDraft([draft EXCEPT !.events = events])

-----------------------------------------------------------------------------
(* Appending.                                                              *)

Used(events) == {e.id : e \in Range(events)}

\* Mutant: the suffix is how many events have the base.
CountedEventId(base, events) ==
  <<base, Len(SelectSeq(events, LAMBDA e : e.id[1] = base)) + 1>>

\* The base itself, or with the first suffix that is not used.
UniqueEventId(base, events) ==
  LET taken == Used(events) IN
  CHOOSE id \in {<<base, n>> : n \in 1..Len(events) + 1} :
    /\ id \notin taken
    /\ \A n \in 1..id[2] - 1 : <<base, n>> \in taken

Larger(a, b)  == IF a >= b THEN a ELSE b
Smaller(a, b) == IF a <= b THEN a ELSE b

TimeoutSeconds == DurationOr(draft.timeout, 180)

\* 15 s after the last event, but 10 s before the timeout.
LastAt(events) == Max({0} \cup {DurationOr(e.at, 0) : e \in Range(events)})

AppendAt ==
  Smaller(Larger(LastAt(draft.events) + 15, 15), Larger(10, TimeoutSeconds - 10))

ParametersFor(effect) ==
  [k \in DOMAIN ParametersOf[effect] |->
     [name |-> ParametersOf[effect][k].name, value |-> "",
      kind |-> ParametersOf[effect][k].type]]

\* The buttons of the fault library.
Offered == {p \in Subsystems \X Effects : p[2] \in Range(Allowed[p[1]])}

AppendInjection(subsystem, effect) ==
  /\ <<subsystem, effect>> \in Offered
  /\ LET id == UniqueEventId(SlugOf[<<subsystem, effect>>], draft.events) IN
     /\ SetEvents(Append(draft.events,
          [id |-> id, at |-> AppendAt, subsystem |-> subsystem, effect |-> effect,
           duration |-> IF effect \in Bounded THEN 20 ELSE Blank,
           parameters |-> ParametersFor(effect), expect |-> <<>>]))
     /\ selected' = id

-----------------------------------------------------------------------------
(* The editor of one event.                                                *)

Change(i, event) ==
  /\ SetEvents([draft.events EXCEPT ![i] = event])
  /\ UNCHANGED selected

ChangeId(i, id) == Change(i, [draft.events[i] EXCEPT !.id = id])

ChangeAt(i, at) == Change(i, [draft.events[i] EXCEPT !.at = at])

\* The field is disabled for a transient effect.
ChangeDuration(i, duration) ==
  /\ draft.events[i].effect \notin Transient
  /\ Change(i, [draft.events[i] EXCEPT !.duration = duration])

\* Another effect has other parameters, and if it is transient no duration.
ChangeEffect(i, effect) ==
  /\ effect \in Range(Allowed[draft.events[i].subsystem])
  /\ Change(i, [draft.events[i] EXCEPT
       !.effect = effect, !.parameters = ParametersFor(effect),
       !.duration = IF effect \in Transient THEN Blank ELSE @])

\* Mutant: the effect is kept.
SameEffect(subsystem, effect) == effect

\* The effect is kept where the other subsystem has it; the duration always.
EffectFor(subsystem, effect) ==
  IF effect \in Range(Allowed[subsystem]) THEN effect ELSE Allowed[subsystem][1]

ChangeSubsystem(i, subsystem) ==
  LET effect == EffectFor(subsystem, draft.events[i].effect) IN
  /\ Allowed[subsystem] # <<>>
  /\ Change(i, [draft.events[i] EXCEPT !.subsystem = subsystem, !.effect = effect,
                                       !.parameters = ParametersFor(effect)])

\* The value is that of the parameter with the name, which is added if the
\* document did not have it.
WithParameter(parameters, spec, value) ==
  LET new == [name |-> spec.name, value |-> value, kind |-> spec.type] IN
  IF \E p \in Range(parameters) : p.name = spec.name
  THEN [k \in DOMAIN parameters |->
          IF parameters[k].name = spec.name THEN new ELSE parameters[k]]
  ELSE Append(parameters, new)

ChangeParameter(i, spec, value) ==
  /\ spec \in Range(ParametersOf[draft.events[i].effect])
  /\ Change(i, [draft.events[i] EXCEPT !.parameters = WithParameter(@, spec, value)])

AddExpectation(i) ==
  /\ Change(i, [draft.events[i] EXCEPT
       !.expect = Append(@, [subsystem |-> draft.events[i].subsystem,
                             state |-> "DEGRADED", within |-> 5])])

UpdateExpectation(i, subsystem) ==
  /\ draft.events[i].expect # <<>>
  /\ Change(i, [draft.events[i] EXCEPT !.expect[1].subsystem = subsystem])

RemoveExpectation(i) ==
  /\ draft.events[i].expect # <<>>
  /\ Change(i, [draft.events[i] EXCEPT !.expect = Tail(@)])

-----------------------------------------------------------------------------
(* The list of events, the timeline, the rest of the form.                 *)

RemoveEvent(i) ==
  /\ SetEvents(RemoveAt(draft.events, i))
  /\ UNCHANGED selected

\* Moved by one, in the list only: what happens first is a matter of time.
Move(i, direction) ==
  /\ i + direction \in DOMAIN draft.events
  /\ SetEvents([draft.events EXCEPT ![i] = draft.events[i + direction],
                                    ![i + direction] = draft.events[i]])
  /\ UNCHANGED selected

\* The markers of the timeline: an event whose time does not parse has none.
Markers == {e.id : e \in {x \in Range(draft.events) : IsDuration(x.at)}}

\* On the timeline or, for any event, at the head of its editor.
Select(id) ==
  /\ id \in Markers \cup Used(draft.events)
  /\ Edit /\ selected' = id
  /\ UNCHANGED <<draft, origin>>

\* Metadata, target, mission and simulation; the policy.
EditSettings(settings) ==
  /\ draft.settings # settings
  /\ NewDraft([draft EXCEPT !.settings = settings])
  /\ UNCHANGED selected

EditRecovery(recovery) ==
  /\ draft.recovery # recovery
  /\ NewDraft([draft EXCEPT !.recovery = recovery])
  /\ UNCHANGED selected

EditTimeout(timeout) ==
  /\ NewDraft([draft EXCEPT !.timeout = timeout])
  /\ UNCHANGED selected

AddAssertion ==
  /\ draft.assertions = 0
  /\ NewDraft([draft EXCEPT !.assertions = 1])
  /\ UNCHANGED selected

RemoveAssertion ==
  /\ draft.assertions > 0
  /\ NewDraft([draft EXCEPT !.assertions = @ - 1])
  /\ UNCHANGED selected

\* The text of the draft is read back: YAML mode on and off.
ReadBack ==
  /\ NewDraft(ParseScenarioDocument(DraftToDocument(draft)))
  /\ UNCHANGED selected

\* Another document is typed, or the studio is opened with it.
Fill(document) ==
  /\ Edit /\ origin' = document /\ draft' = ParseScenarioDocument(document)
  /\ UNCHANGED selected

-----------------------------------------------------------------------------

Init ==
  /\ origin \in Documents
  /\ draft = ParseScenarioDocument(origin)
  /\ selected = None /\ edits = 0

EditEvent(i) ==
  \/ \E id \in IdTexts : ChangeId(i, id)
  \/ \E t \in Times : ChangeAt(i, t)
  \/ \E t \in Times : ChangeDuration(i, t)
  \/ \E e \in Effects : ChangeEffect(i, e)
  \/ \E s \in Subsystems : ChangeSubsystem(i, s)
  \/ \E spec \in UNION {Range(ParametersOf[e]) : e \in Effects}, v \in Values :
       ChangeParameter(i, spec, v)
  \/ AddExpectation(i)
  \/ \E s \in Subsystems : UpdateExpectation(i, s)
  \/ RemoveExpectation(i)
  \/ RemoveEvent(i)
  \/ \E d \in {-1, 1} : Move(i, d)

AppendAny == \E s \in Subsystems, e \in Effects : AppendInjection(s, e)

Next ==
  \/ AppendAny
  \/ \E i \in DOMAIN draft.events : EditEvent(i)
  \/ \E id \in Used(draft.events) : Select(id)
  \/ \E t \in Timeouts : EditTimeout(t)
  \/ EditSettings("edited") \/ EditRecovery("edited")
  \/ AddAssertion \/ RemoveAssertion
  \/ ReadBack
  \/ \E d \in Documents : Fill(d)

Spec == Init /\ [][Next]_vars
-----------------------------------------------------------------------------
(* Properties.                                                             *)

TypeOK ==
  /\ draft.events \in Seq([id : IdTexts \cup Used(draft.events), at : {Junk} \cup Nat,
       subsystem : Subsystems, effect : Effects, duration : {Junk, Blank} \cup Nat,
       parameters : Seq([name : STRING, value : STRING, kind : ParameterKinds]),
       expect : Seq([subsystem : Subsystems, state : {"DEGRADED"}, within : Nat])])
  /\ edits \in 0..MaxEdits
  /\ draft.settings \in STRING /\ draft.recovery \in STRING
  /\ draft.timeout \in {Junk} \cup Nat /\ draft.assertions \in 0..1
  /\ selected[1] \in Nat /\ selected[2] \in Nat

\* scenario-document.test.ts: "round trips a compound scenario without losing
\* anything the form edits".  Whatever has been edited, the text of the form
\* reads back into a form with the same text: going through the YAML mode
\* changes nothing of the document, parameters that were never given a value
\* and texts that are no number included.
ReadBackIsStable ==
  DraftToDocument(ParseScenarioDocument(DraftToDocument(draft))) = DraftToDocument(draft)

\* scenario-document.ts:4: "without ever losing the parts of a document the form
\* does not expose".  No sequence of edits touches them.
PartsPreserved ==
  \A part \in {"labels", "configuration", "waypoints", "profile", "scoring"} :
    DraftToDocument(draft)[part] = origin[part]

\* A way through the text and back loses nothing and makes up nothing.
RoundTrips == ReadBackIsStable /\ PartsPreserved

\* scenario-document.ts:413: the schedule "mirrors
\* ResilienceScenario.expanded_events so the countdown matches what will run".
\* The form's draft and the platform's document agree on what is injected,
\* when and in which order.
ScheduleMirrors ==
  Valid(DraftToDocument(draft)) => ScenarioSchedule(draft) = Expanded(DraftToDocument(draft))

\* Whatever order effects, subsystems and parameters are changed in, an event
\* keeps an effect its subsystem may be injected with and the parameters of
\* that effect: the catalog refuses anything else.
EventsFitCatalog ==
  \A e \in Range(draft.events) :
    /\ e.effect \in Range(Allowed[e.subsystem])
    /\ \A p \in Range(e.parameters) :
         \E spec \in Range(ParametersOf[e.effect]) : spec.name = p.name

\* An event of the fault library gets an id no event has, after any removals and
\* renames, so that it makes no valid document invalid: its time is before
\* the timeout, except where that is 10 s, the shortest.  The form does not know
\* how many events the platform accepts: a valid document that has them all is
\* what an event is appended to in vain.
AppendKeepsValid ==
  [][AppendAny /\ Valid(DraftToDocument(draft))
     /\ draft.timeout > 10 /\ Len(draft.events) < MaxDocumentEvents
       => Valid(DraftToDocument(draft'))]_vars

\* What the repository says of the form, and the code does not keep.

\* model.py:166 "effect 'restart' is transient and does not accept a duration", and
\* event-editor.tsx:236 "Transient effect, the target recovers on its own".  The
\* form, opened with a valid document, does not give a transient effect a duration.
TransientHasNoDuration ==
  \A e \in Range(draft.events) : e.effect \in Transient => e.duration = Blank
=============================================================================
