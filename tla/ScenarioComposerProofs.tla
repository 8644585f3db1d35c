------------------------ MODULE ScenarioComposerProofs ------------------------
(***************************************************************************)
(* The form of the Scenario Studio, for every catalog, any documents and   *)
(* any number of edits: a way through the text loses nothing, the schedule *)
(* is the platform's, events keep fitting the catalog, and an event of the *)
(* fault library keeps a valid document valid.                             *)
(***************************************************************************)
EXTENDS ScenarioComposer, SequenceLemmas

-----------------------------------------------------------------------------
(* Parameters there and back. *)

\* The elements at all places of a sequence are the sequence.
LEMMA AllElements ==
  ASSUME NEW s, IsSequence(s)
  PROVE  ElementsAt(s, DOMAIN s) = s
<1> DEFINE n == Len(s)
<1>1. n \in Nat /\ DOMAIN s = 1..n /\ s = [k \in 1..n |-> s[k]]
  BY DEF IsSequence
<1> HIDE DEF n
<1>2. IsFiniteSet(1..n) /\ Cardinality(1..n) = n
  BY <1>1, FS_Interval
<1>3. ASSUME NEW j \in 1..n
      PROVE  ElementsAt(s, 1..n)[j] = s[j]
  <2> DEFINE r == Ranked(1..n)[j]
  <2>1. r \in 1..n /\ Cardinality({y \in 1..n : y < r}) = j - 1
    <3>1. 1..n \in SUBSET Nat
      BY <1>1
    <3> QED BY <1>2, <3>1, RankedSet
  <2>2. ElementsAt(s, 1..n)[j] = s[r]
    BY <1>2 DEF ElementsAt, Ranked
  <2> HIDE DEF r
  <2>3. {y \in 1..n : y < r} = 1..(r - 1)
    BY <1>1, <2>1
  <2>4. Cardinality(1..(r - 1)) = r - 1
    <3>1. r - 1 \in Int /\ 1 \in Int /\ r - 1 - 1 + 1 = r - 1 /\ (1 > r - 1 => r - 1 = 0)
      BY <1>1, <2>1
    <3> HIDE DEF r
    <3> QED BY <3>1, FS_Interval
  <2>5. r = j
    <3>1. r \in Int /\ j \in Int
      BY <1>1, <2>1
    <3>2. r - 1 = j - 1
      BY <2>1, <2>3, <2>4
    <3> QED BY <3>1, <3>2
  <2> QED BY <2>2, <2>5
<1>4. ElementsAt(s, 1..n) = [j \in 1..n |-> ElementsAt(s, 1..n)[j]]
  BY <1>2 DEF ElementsAt
<1>5. [j \in 1..n |-> ElementsAt(s, 1..n)[j]] = [j \in 1..n |-> s[j]]
  BY <1>3
<1> QED BY <1>1, <1>4, <1>5

\* What is written of parameters.
LEMMA WhatIsWritten ==
  ASSUME NEW parameters, IsSequence(parameters)
  PROVE  LET w == WrittenParameters(parameters)
         IN  /\ IsSequence(w)
             /\ \A j \in DOMAIN w : \E k \in DOMAIN parameters :
                  Written(parameters[k]) /\ w[j] = ParameterValue(parameters[k])
<1> DEFINE places  == {k \in DOMAIN parameters : Written(parameters[k])}
           written == ElementsAt(parameters, places)
           w       == WrittenParameters(parameters)
<1>1. Len(parameters) \in Nat /\ DOMAIN parameters = 1..Len(parameters)
  BY DEF IsSequence
<1>2. places \in SUBSET Nat /\ IsFiniteSet(places)
  <2>1. IsFiniteSet(1..Len(parameters))
    BY <1>1, FS_Interval
  <2>2. places \in SUBSET (1..Len(parameters))
    BY <1>1
  <2> QED BY <2>1, <2>2, FS_Subset
<1>3. /\ Cardinality(places) \in Nat /\ DOMAIN written = 1..Cardinality(places)
      /\ \A j \in 1..Cardinality(places) : \E k \in places : written[j] = parameters[k]
  <2>1. places \in SUBSET DOMAIN parameters
    OBVIOUS
  <2> HIDE DEF places
  <2>2. /\ IsSequence(written) /\ Len(written) = Cardinality(places)
        /\ Range(written) = {parameters[k] : k \in places}
    BY <2>1, Selection
  <2>3. Cardinality(places) \in Nat /\ DOMAIN written = 1..Cardinality(places)
    BY <1>2, <2>2, FS_CardinalityType DEF IsSequence
  <2> HIDE DEF written
  <2> QED BY <2>2, <2>3 DEF Range
<1>4. w = [j \in DOMAIN written |-> ParameterValue(written[j])]
  BY DEF WrittenParameters
<1> HIDE DEF written, w
<1>5. \A j \in DOMAIN w : \E k \in DOMAIN parameters :
         Written(parameters[k]) /\ w[j] = ParameterValue(parameters[k])
  BY <1>3, <1>4
<1>6. IsSequence(w)
  <2> DEFINE n == Cardinality(places)
  <2>1. n \in Nat /\ w = [j \in 1..n |-> w[j]]
    BY <1>3, <1>4
  <2> HIDE DEF n
  <2>2. DOMAIN w = 1..n /\ w \in [1..n -> Range(w)]
    BY <2>1 DEF Range
  <2> QED BY <2>1, <2>2 DEF IsSequence
<1> QED BY <1>5, <1>6 DEF w

\* Parameters that were written are read into what is written again.
LEMMA ParametersReadBack ==
  ASSUME NEW parameters, IsSequence(parameters)
  PROVE  LET w == WrittenParameters(parameters)
         IN  WrittenParameters(ParameterDrafts(w)) = w
<1> DEFINE w == WrittenParameters(parameters)
           d == ParameterDrafts(w)
<1>1. /\ IsSequence(w)
      /\ \A j \in DOMAIN w : \E k \in DOMAIN parameters :
           Written(parameters[k]) /\ w[j] = ParameterValue(parameters[k])
  BY WhatIsWritten
<1> HIDE DEF w
<1>2. /\ DOMAIN d = DOMAIN w
      /\ \A j \in DOMAIN w :
           d[j] = [name |-> w[j].name, value |-> w[j].value,
                   kind |-> IF w[j].type = "string" THEN "duration" ELSE "number"]
  BY DEF ParameterDrafts
<1>3. d = [j \in DOMAIN w |-> d[j]]
  BY DEF ParameterDrafts
<1> HIDE DEF d
<1>4. ASSUME NEW j \in DOMAIN w
      PROVE  Written(d[j]) /\ ParameterValue(d[j]) = w[j]
  <2>1. PICK k \in DOMAIN parameters :
          Written(parameters[k]) /\ w[j] = ParameterValue(parameters[k])
    BY <1>1
  <2>4. PICK p : p = parameters[k]
    OBVIOUS
  <2>2. CASE p.kind = "duration"
    <3>1. w[j] = [name |-> p.name, value |-> p.value, type |-> "string"] /\ p.value # ""
      BY <2>1, <2>2, <2>4 DEF ParameterValue, Written
    <3>2. w[j].name = p.name /\ w[j].value = p.value /\ w[j].type = "string"
      <4>1. PICK v : v = w[j]
        OBVIOUS
      <4>2. v = [name |-> p.name, value |-> p.value, type |-> "string"]
        BY <3>1, <4>1
      <4>3. v.name = p.name /\ v.value = p.value /\ v.type = "string"
        BY <4>2
      <4> QED BY <4>1, <4>3
    <3>3. d[j] = [name |-> p.name, value |-> p.value, kind |-> "duration"]
      BY <1>2, <3>2
    <3>4. PICK e : e = d[j]
      OBVIOUS
    <3>5. e.name = p.name /\ e.value = p.value /\ e.kind = "duration"
      BY <3>3, <3>4
    <3> QED BY <3>1, <3>4, <3>5 DEF ParameterValue, Written
  <2>3. CASE p.kind # "duration"
    <3>1. /\ w[j] = [name |-> p.name, value |-> p.value, type |-> "number"]
          /\ p.value # "" /\ p.value \in Numeric
      BY <2>1, <2>3, <2>4 DEF ParameterValue, Written
    <3>2. w[j].name = p.name /\ w[j].value = p.value /\ w[j].type = "number"
      <4>1. PICK v : v = w[j]
        OBVIOUS
      <4>2. v = [name |-> p.name, value |-> p.value, type |-> "number"]
        BY <3>1, <4>1
      <4>3. v.name = p.name /\ v.value = p.value /\ v.type = "number"
        BY <4>2
      <4> QED BY <4>1, <4>3
    <3>3. d[j] = [name |-> p.name, value |-> p.value, kind |-> "number"]
      BY <1>2, <3>2
    <3>4. PICK e : e = d[j]
      OBVIOUS
    <3>5. e.name = p.name /\ e.value = p.value /\ e.kind = "number"
      BY <3>3, <3>4
    <3> QED BY <3>1, <3>4, <3>5 DEF ParameterValue, Written
  <2> QED BY <2>2, <2>3
<1>5. IsSequence(d)
  <2>1. w \in Seq(Range(w))
    BY <1>1 DEF IsSequence
  <2>2. Len(w) \in Nat /\ DOMAIN w = 1..Len(w)
    BY <2>1
  <2>3. d \in [1..Len(w) -> Range(d)]
    BY <1>2, <1>3, <2>2 DEF Range
  <2> QED BY <2>2, <2>3 DEF IsSequence
<1>6. {j \in DOMAIN d : Written(d[j])} = DOMAIN d
  BY <1>2, <1>4
<1>7. WrittenParameters(d) = [j \in DOMAIN d |-> ParameterValue(d[j])]
  BY <1>5, <1>6, AllElements DEF WrittenParameters
<1>8. [j \in DOMAIN d |-> ParameterValue(d[j])] = [j \in DOMAIN w |-> w[j]]
  BY <1>2, <1>4
<1>9. w = [j \in DOMAIN w |-> w[j]]
  BY <1>1 DEF IsSequence
<1> QED BY <1>7, <1>8, <1>9 DEF d, w

-----------------------------------------------------------------------------
(* Events and their edits. *)

IsEvent(e) ==
  /\ e = [id |-> e.id, at |-> e.at, subsystem |-> e.subsystem, effect |-> e.effect,
          duration |-> e.duration, parameters |-> e.parameters, expect |-> e.expect]
  /\ e.at \in Int
  /\ e.effect \in Effects \cup {"unavailable"}
  /\ IsSequence(e.parameters)

\* The effect is one of the subsystem, the parameters are those of the effect.
Fits(e) ==
  /\ e.subsystem \in Subsystems
  /\ e.effect \in Range(Allowed[e.subsystem])
  /\ \A p \in Range(e.parameters) :
       \E spec \in Range(ParametersOf[e.effect]) : spec.name = p.name

\* f is an event that fits the catalog if e does.
KeepsFit(e, f) == IsEvent(f) /\ (Fits(e) => Fits(f))

\* An effect of a subsystem is an effect, and has its parameters.
LEMMA CatalogEffects ==
  ASSUME NEW s \in Subsystems, NEW effect \in Range(Allowed[s])
  PROVE  /\ effect \in Effects
         /\ ParametersOf[effect] \in Seq(
              [name : STRING, type : ParameterKinds, range : SUBSET STRING])
BY CatalogAssumption DEF Effects

\* The parameters of an effect that was chosen are those of the effect.
LEMMA ChosenParameters ==
  ASSUME NEW s \in Subsystems, NEW effect \in Range(Allowed[s])
  PROVE  /\ IsSequence(ParametersFor(effect))
         /\ \A p \in Range(ParametersFor(effect)) :
              p.value = "" /\ \E spec \in Range(ParametersOf[effect]) : spec.name = p.name
<1> DEFINE specs == ParametersOf[effect]
           ps    == ParametersFor(effect)
<1>1. specs \in Seq(
              [name : STRING, type : ParameterKinds, range : SUBSET STRING])
  BY CatalogEffects
<1> HIDE DEF specs
<1>2. Len(specs) \in Nat /\ DOMAIN specs = 1..Len(specs)
  BY <1>1
<1>3. ps = [k \in DOMAIN specs |-> [name |-> specs[k].name, value |-> "", kind |-> specs[k].type]]
  BY DEF ParametersFor, specs
<1> HIDE DEF ps
<1>4. IsSequence(ps)
  <2>1. ps \in [1..Len(specs) -> Range(ps)]
    BY <1>2, <1>3 DEF Range
  <2> QED BY <1>2, <2>1 DEF IsSequence
<1>5. ASSUME NEW p \in Range(ps)
      PROVE  p.value = "" /\ \E spec \in Range(specs) : spec.name = p.name
  <2>1. PICK k \in DOMAIN specs : p = ps[k]
    BY <1>3 DEF Range
  <2>2. p = [name |-> specs[k].name, value |-> "", kind |-> specs[k].type]
    BY <1>3, <2>1
  <2>3. p.value = "" /\ p.name = specs[k].name
    BY <2>2
  <2>4. specs[k] \in Range(specs)
    BY DEF Range
  <2> QED BY <2>3, <2>4
<1> QED BY <1>4, <1>5 DEF ps, specs

\* Edits of a field the catalog says nothing of.
LEMMA PlainEdits ==
  ASSUME NEW e, IsEvent(e), NEW x
  PROVE  /\ KeepsFit(e, [e EXCEPT !.id = x])
         /\ x \in Int => KeepsFit(e, [e EXCEPT !.at = x])
         /\ KeepsFit(e, [e EXCEPT !.duration = x])
         /\ KeepsFit(e, [e EXCEPT !.expect = x])
<1>1. KeepsFit(e, [e EXCEPT !.id = x])
  <2>1. PICK f : f = [e EXCEPT !.id = x]
    OBVIOUS
  <2>2. f = [id |-> x, at |-> e.at, subsystem |-> e.subsystem, effect |-> e.effect,
             duration |-> e.duration, parameters |-> e.parameters, expect |-> e.expect]
    BY <2>1 DEF IsEvent
  <2>3. IsEvent(f) /\ (Fits(e) => Fits(f))
    BY <2>2 DEF IsEvent, Fits
  <2> QED BY <2>1, <2>3 DEF KeepsFit
<1>2. ASSUME x \in Int PROVE KeepsFit(e, [e EXCEPT !.at = x])
  <2>1. PICK f : f = [e EXCEPT !.at = x]
    OBVIOUS
  <2>2. f = [id |-> e.id, at |-> x, subsystem |-> e.subsystem, effect |-> e.effect,
             duration |-> e.duration, parameters |-> e.parameters, expect |-> e.expect]
    BY <2>1 DEF IsEvent
  <2>3. IsEvent(f) /\ (Fits(e) => Fits(f))
    BY <1>2, <2>2 DEF IsEvent, Fits
  <2> QED BY <2>1, <2>3 DEF KeepsFit
<1>3. KeepsFit(e, [e EXCEPT !.duration = x])
  <2>1. PICK f : f = [e EXCEPT !.duration = x]
    OBVIOUS
  <2>2. f = [id |-> e.id, at |-> e.at, subsystem |-> e.subsystem, effect |-> e.effect,
             duration |-> x, parameters |-> e.parameters, expect |-> e.expect]
    BY <2>1 DEF IsEvent
  <2>3. IsEvent(f) /\ (Fits(e) => Fits(f))
    BY <2>2 DEF IsEvent, Fits
  <2> QED BY <2>1, <2>3 DEF KeepsFit
<1>4. KeepsFit(e, [e EXCEPT !.expect = x])
  <2>1. PICK f : f = [e EXCEPT !.expect = x]
    OBVIOUS
  <2>2. f = [id |-> e.id, at |-> e.at, subsystem |-> e.subsystem, effect |-> e.effect,
             duration |-> e.duration, parameters |-> e.parameters, expect |-> x]
    BY <2>1 DEF IsEvent
  <2>3. IsEvent(f) /\ (Fits(e) => Fits(f))
    BY <2>2 DEF IsEvent, Fits
  <2> QED BY <2>1, <2>3 DEF KeepsFit
<1> QED BY <1>1, <1>2, <1>3, <1>4

\* Another effect, with its parameters.
LEMMA EffectEdited ==
  ASSUME NEW e, IsEvent(e), NEW s, NEW effect, NEW duration,
         effect \in Effects, s \in Subsystems => effect \in Range(Allowed[s]),
         Fits(e) => s \in Subsystems
  PROVE  LET f == [id |-> e.id, at |-> e.at, subsystem |-> s, effect |-> effect,
                   duration |-> duration, parameters |-> ParametersFor(effect),
                   expect |-> e.expect]
         IN  KeepsFit(e, f)
<1>1. PICK f : f = [id |-> e.id, at |-> e.at, subsystem |-> s, effect |-> effect,
                    duration |-> duration, parameters |-> ParametersFor(effect),
                    expect |-> e.expect]
  OBVIOUS
<1>2. /\ f.id = e.id /\ f.at = e.at /\ f.subsystem = s /\ f.effect = effect
      /\ f.duration = duration /\ f.parameters = ParametersFor(effect)
      /\ f.expect = e.expect
  BY <1>1
<1>3. PICK t \in Subsystems : effect \in Range(Allowed[t])
  BY DEF Effects
<1>4. /\ IsSequence(ParametersFor(effect))
      /\ \A p \in Range(ParametersFor(effect)) :
           \E spec \in Range(ParametersOf[effect]) : spec.name = p.name
  BY <1>3, ChosenParameters
<1>5. IsEvent(f)
  BY <1>1, <1>2, <1>4 DEF IsEvent
<1>6. Fits(e) => Fits(f)
  BY <1>2, <1>4 DEF Fits
<1> QED BY <1>1, <1>5, <1>6 DEF KeepsFit

\* A parameter of the effect gets a value, or is added.
LEMMA ParameterEdited ==
  ASSUME NEW e, IsEvent(e), NEW spec \in Range(ParametersOf[e.effect]), NEW value
  PROVE  KeepsFit(e, [e EXCEPT !.parameters = WithParameter(@, spec, value)])
<1> DEFINE ps  == e.parameters
           qs  == WithParameter(ps, spec, value)
           new == [name |-> spec.name, value |-> value, kind |-> spec.type]
<1>1. ps \in Seq(Range(ps))
  BY DEF IsEvent, IsSequence
<1>2. IsSequence(qs) /\ \A q \in Range(qs) : q = new \/ q \in Range(ps)
  <2>1. CASE \E p \in Range(ps) : p.name = spec.name
    <3>1. qs = [k \in DOMAIN ps |-> IF ps[k].name = spec.name THEN new ELSE ps[k]]
      BY <2>1 DEF WithParameter
    <3> HIDE DEF qs, new, ps
    <3>2. Len(ps) \in Nat /\ DOMAIN ps = 1..Len(ps)
      BY <1>1
    <3>3. qs \in [1..Len(ps) -> Range(qs)]
      BY <3>1, <3>2 DEF Range
    <3>4. \A k \in DOMAIN ps : qs[k] = new \/ qs[k] = ps[k]
      BY <3>1
    <3>5. DOMAIN qs = DOMAIN ps
      BY <3>1
    <3> QED BY <3>2, <3>3, <3>4, <3>5 DEF IsSequence, Range
  <2>2. CASE ~\E p \in Range(ps) : p.name = spec.name
    <3>1. qs = Append(ps, new)
      BY <2>2 DEF WithParameter
    <3> HIDE DEF qs, new, ps
    <3>2. /\ IsSequence(qs) /\ Len(ps) \in Nat /\ Len(qs) = Len(ps) + 1
          /\ qs[Len(ps) + 1] = new /\ \A k \in 1..Len(ps) : qs[k] = ps[k]
      BY <1>1, <3>1, AppendSequence DEF IsSequence
    <3>3. DOMAIN ps = 1..Len(ps) /\ DOMAIN qs = 1..(Len(ps) + 1)
      BY <1>1, <3>2 DEF IsSequence
    <3>4. \A k \in 1..(Len(ps) + 1) : k \in 1..Len(ps) \/ k = Len(ps) + 1
      BY <3>2
    <3> QED BY <3>2, <3>3, <3>4 DEF Range
  <2> QED BY <2>1, <2>2
<1>3. PICK f : f = [e EXCEPT !.parameters = qs]
  OBVIOUS
<1>4. f = [e EXCEPT !.parameters = WithParameter(@, spec, value)]
  BY <1>3
<1> HIDE DEF qs
<1>5. /\ f = [id |-> e.id, at |-> e.at, subsystem |-> e.subsystem, effect |-> e.effect,
              duration |-> e.duration, parameters |-> qs, expect |-> e.expect]
  BY <1>3 DEF IsEvent
<1>6. /\ f.id = e.id /\ f.at = e.at /\ f.subsystem = e.subsystem /\ f.effect = e.effect
      /\ f.duration = e.duration /\ f.parameters = qs /\ f.expect = e.expect
  BY <1>5
<1>7. IsEvent(f)
  BY <1>2, <1>5, <1>6 DEF IsEvent
<1>8. Fits(e) => Fits(f)
  <2>1. new.name = spec.name
    OBVIOUS
  <2> HIDE DEF new
  <2> QED BY <1>2, <1>6, <2>1 DEF Fits
<1> QED BY <1>4, <1>7, <1>8 DEF KeepsFit

-----------------------------------------------------------------------------
(* The draft. *)

IsDraft(d) ==
  /\ d = [name |-> d.name, settings |-> d.settings, recovery |-> d.recovery,
          timeout |-> d.timeout, events |-> d.events, assertions |-> d.assertions,
          preserved |-> d.preserved]
  /\ d.timeout \in Int
  /\ IsSequence(d.events)
  /\ \A k \in DOMAIN d.events : IsEvent(d.events[k])

\* The draft is one, and holds the parts of its document the form does not edit.
FormInv ==
  /\ origin \in Documents
  /\ IsDraft(draft)
  /\ draft.preserved = Preserved(origin)

AllFit(events) == \A k \in DOMAIN events : Fits(events[k])

\* The entry of an event is read as an event, and fits the catalog as it does.
LEMMA EntryRead ==
  ASSUME NEW entry, entry.at \in Int, IsSequence(entry.parameters)
  PROVE  /\ IsEvent(EventDraft(entry))
         /\ Fits(entry) => Fits(EventDraft(entry))
<1> DEFINE ps == entry.parameters
           qs == ParameterDrafts(ps)
<1>1. PICK f : f = EventDraft(entry)
  OBVIOUS
<1>2. f = [id |-> entry.id, at |-> entry.at, subsystem |-> entry.subsystem,
           effect |-> EffectOf(entry.effect), duration |-> entry.duration,
           parameters |-> qs, expect |-> entry.expect]
  BY <1>1 DEF EventDraft
<1>3. DOMAIN qs = DOMAIN ps /\ \A k \in DOMAIN ps : qs[k].name = ps[k].name
  BY DEF ParameterDrafts
<1>4. qs = [k \in DOMAIN ps |-> qs[k]]
  BY DEF ParameterDrafts
<1> HIDE DEF qs
<1>5. /\ f.id = entry.id /\ f.at = entry.at /\ f.subsystem = entry.subsystem
      /\ f.effect = EffectOf(entry.effect) /\ f.duration = entry.duration
      /\ f.parameters = qs /\ f.expect = entry.expect
  BY <1>2
<1>6. IsSequence(qs)
  <2>1. Len(ps) \in Nat /\ DOMAIN ps = 1..Len(ps)
    BY DEF IsSequence
  <2>2. qs \in [1..Len(ps) -> Range(qs)]
    BY <1>4, <2>1 DEF Range
  <2> QED BY <2>1, <2>2 DEF IsSequence
<1>7. IsEvent(f)
  BY <1>2, <1>5, <1>6 DEF IsEvent, EffectOf
<1>8. Fits(entry) => Fits(f)
  <2> SUFFICES ASSUME Fits(entry) PROVE Fits(f)
    OBVIOUS
  <2>1. entry.subsystem \in Subsystems /\ entry.effect \in Range(Allowed[entry.subsystem])
    BY DEF Fits
  <2>2. f.effect = entry.effect
    BY <1>5, <2>1, CatalogEffects DEF EffectOf
  <2>3. \A q \in Range(qs) : \E p \in Range(ps) : q.name = p.name
    BY <1>3 DEF Range
  <2> QED BY <1>5, <2>1, <2>2, <2>3 DEF Fits
<1> QED BY <1>1, <1>7, <1>8

\* A document with such entries is read as a draft.
LEMMA DocumentRead ==
  ASSUME NEW document, document.timeout \in Int, IsSequence(document.events),
         \A k \in DOMAIN document.events :
           document.events[k].at \in Int /\ IsSequence(document.events[k].parameters)
  PROVE  LET d == ParseScenarioDocument(document)
         IN  /\ IsDraft(d) /\ d.preserved = Preserved(document)
             /\ DOMAIN d.events = DOMAIN document.events
             /\ \A k \in DOMAIN document.events :
                  d.events[k] = EventDraft(document.events[k])
             /\ AllFit(document.events) => AllFit(d.events)
<1> DEFINE entries == document.events
           events  == [k \in DOMAIN entries |-> EventDraft(entries[k])]
<1>1. PICK d : d = ParseScenarioDocument(document)
  OBVIOUS
<1>2. d = [name |-> document.name, settings |-> document.settings,
           recovery |-> document.recovery, timeout |-> document.timeout,
           events |-> events, assertions |-> document.assertions,
           preserved |-> Preserved(document)]
  BY <1>1 DEF ParseScenarioDocument
<1>3. /\ DOMAIN events = DOMAIN entries
      /\ \A k \in DOMAIN entries : events[k] = EventDraft(entries[k])
      /\ events = [k \in DOMAIN entries |-> events[k]]
  OBVIOUS
<1> HIDE DEF events
<1>4. /\ d.name = document.name /\ d.settings = document.settings
      /\ d.recovery = document.recovery /\ d.timeout = document.timeout
      /\ d.events = events /\ d.assertions = document.assertions
      /\ d.preserved = Preserved(document)
  BY <1>2
<1>5. IsSequence(events)
  <2>1. PICK n \in Nat : DOMAIN entries = 1..n
    BY DEF IsSequence
  <2>2. events \in [1..n -> Range(events)]
    BY <1>3, <2>1 DEF Range
  <2> QED BY <2>1, <2>2 DEF IsSequence
<1>6. \A k \in DOMAIN entries :
        /\ IsEvent(EventDraft(entries[k]))
        /\ Fits(entries[k]) => Fits(EventDraft(entries[k]))
  BY EntryRead
<1>7. IsDraft(d)
  BY <1>2, <1>3, <1>4, <1>5, <1>6 DEF IsDraft
<1>8. AllFit(entries) => AllFit(events)
  BY <1>3, <1>6 DEF AllFit
<1> QED BY <1>1, <1>3, <1>4, <1>7, <1>8

\* What the documents and the catalog are assumed to be is enough.
LEMMA OpenedRead ==
  ASSUME NEW document \in Documents
  PROVE  LET d == ParseScenarioDocument(document)
         IN  /\ IsDraft(d) /\ d.preserved = Preserved(document)
             /\ AllFit(document.events) => AllFit(d.events)
<1>1. document.timeout \in Int /\ IsSequence(document.events)
  BY DocumentsAssumption DEF IsSequence
<1>2. \A k \in DOMAIN document.events :
        document.events[k].at \in Int /\ IsSequence(document.events[k].parameters)
  BY DocumentsAssumption DEF IsSequence
<1> QED BY <1>1, <1>2, DocumentRead

\* What is written of an event.
LEMMA EntryWritten ==
  ASSUME NEW e, IsEvent(e)
  PROVE  LET entry == EventEntry(e)
         IN  /\ entry.id = e.id /\ entry.at = e.at /\ entry.subsystem = e.subsystem
             /\ entry.effect = e.effect /\ entry.duration = e.duration
             /\ entry.parameters = WrittenParameters(e.parameters)
             /\ entry.expect = e.expect
             /\ IsSequence(entry.parameters)
             /\ Fits(e) => Fits(entry)
             /\ EventEntry(EventDraft(entry)) = entry
<1> DEFINE w == WrittenParameters(e.parameters)
<1>1. PICK entry : entry = EventEntry(e)
  OBVIOUS
<1>2. entry = [id |-> e.id, at |-> e.at, subsystem |-> e.subsystem, effect |-> e.effect,
               duration |-> e.duration, parameters |-> w, expect |-> e.expect]
  BY <1>1 DEF EventEntry
<1>3. /\ IsSequence(w)
      /\ \A j \in DOMAIN w : \E k \in DOMAIN e.parameters :
           Written(e.parameters[k]) /\ w[j] = ParameterValue(e.parameters[k])
  BY WhatIsWritten DEF IsEvent
<1>4. WrittenParameters(ParameterDrafts(w)) = w
  BY ParametersReadBack DEF IsEvent
<1> HIDE DEF w
<1>5. /\ entry.id = e.id /\ entry.at = e.at /\ entry.subsystem = e.subsystem
      /\ entry.effect = e.effect /\ entry.duration = e.duration
      /\ entry.parameters = w /\ entry.expect = e.expect
  BY <1>2
<1>6. Fits(e) => Fits(entry)
  <2>1. \A p : ParameterValue(p).name = p.name
    BY DEF ParameterValue
  <2>2. \A q \in Range(w) : \E p \in Range(e.parameters) : q.name = p.name
    BY <1>3, <2>1 DEF Range
  <2> QED BY <1>5, <2>2 DEF Fits
<1>7. EventEntry(EventDraft(entry)) = entry
  <2>1. PICK f : f = EventDraft(entry)
    OBVIOUS
  <2>2. f = [id |-> e.id, at |-> e.at, subsystem |-> e.subsystem,
             effect |-> EffectOf(e.effect), duration |-> e.duration,
             parameters |-> ParameterDrafts(w), expect |-> e.expect]
    BY <1>5, <2>1 DEF EventDraft
  <2>3. EffectOf(e.effect) = e.effect
    BY DEF EffectOf, IsEvent
  <2>4. /\ f.id = e.id /\ f.at = e.at /\ f.subsystem = e.subsystem
        /\ f.effect = e.effect /\ f.duration = e.duration
        /\ f.parameters = ParameterDrafts(w) /\ f.expect = e.expect
    BY <2>2, <2>3
  <2> QED BY <1>2, <1>4, <2>1, <2>4 DEF EventEntry
<1> QED BY <1>1, <1>3, <1>5, <1>6, <1>7 DEF w

\* What is written of a draft.
LEMMA DraftWritten ==
  ASSUME NEW d, IsDraft(d), NEW source, d.preserved = Preserved(source)
  PROVE  LET doc == DraftToDocument(d)
         IN  /\ doc = [name |-> d.name, settings |-> d.settings, recovery |-> d.recovery,
                       timeout |-> d.timeout, events |-> doc.events,
                       assertions |-> d.assertions, labels |-> source.labels,
                       configuration |-> source.configuration,
                       waypoints |-> source.waypoints, profile |-> source.profile,
                       scoring |-> source.scoring]
             /\ DOMAIN doc.events = DOMAIN d.events /\ IsSequence(doc.events)
             /\ \A k \in DOMAIN d.events : doc.events[k] = EventEntry(d.events[k])
<1> DEFINE entries == [k \in DOMAIN d.events |-> EventEntry(d.events[k])]
<1>1. PICK doc : doc = DraftToDocument(d)
  OBVIOUS
<1>2. /\ d.preserved.labels = source.labels
      /\ d.preserved.configuration = source.configuration
      /\ d.preserved.waypoints = source.waypoints
      /\ d.preserved.profile = source.profile
      /\ d.preserved.scoring = source.scoring
  <2>1. PICK p : p = d.preserved
    OBVIOUS
  <2>2. p = [labels |-> source.labels, configuration |-> source.configuration,
             waypoints |-> source.waypoints, profile |-> source.profile,
             scoring |-> source.scoring]
    BY <2>1 DEF Preserved
  <2> QED BY <2>1, <2>2
<1>3. /\ DOMAIN entries = DOMAIN d.events
      /\ \A k \in DOMAIN d.events : entries[k] = EventEntry(d.events[k])
      /\ entries = [k \in DOMAIN d.events |-> entries[k]]
  OBVIOUS
<1>4. doc = [name |-> d.name, settings |-> d.settings, recovery |-> d.recovery,
             timeout |-> d.timeout, events |-> entries,
             assertions |-> d.assertions, labels |-> source.labels,
             configuration |-> source.configuration,
             waypoints |-> source.waypoints, profile |-> source.profile,
             scoring |-> source.scoring]
  BY <1>1, <1>2 DEF DraftToDocument
<1> HIDE DEF entries
<1>5. doc.events = entries
  BY <1>4
<1>6. IsSequence(entries)
  <2>1. PICK n \in Nat : DOMAIN d.events = 1..n
    BY DEF IsSequence, IsDraft
  <2>2. entries \in [1..n -> Range(entries)]
    BY <1>3, <2>1 DEF Range
  <2> QED BY <2>1, <2>2 DEF IsSequence
<1> QED BY <1>1, <1>3, <1>4, <1>5, <1>6

\* The draft as a text is the same draft's text when it was read back.
LEMMA DraftReadBack ==
  ASSUME NEW d, IsDraft(d), NEW source, d.preserved = Preserved(source)
  PROVE  LET b == ParseScenarioDocument(DraftToDocument(d))
         IN  /\ IsDraft(b) /\ b.preserved = Preserved(source)
             /\ AllFit(d.events) => AllFit(b.events)
             /\ DraftToDocument(b) = DraftToDocument(d)
<1>1. PICK doc : doc = DraftToDocument(d)
  OBVIOUS
<1>2. PICK b : b = ParseScenarioDocument(doc)
  OBVIOUS
<1>3. /\ doc = [name |-> d.name, settings |-> d.settings, recovery |-> d.recovery,
                timeout |-> d.timeout, events |-> doc.events,
                assertions |-> d.assertions, labels |-> source.labels,
                configuration |-> source.configuration,
                waypoints |-> source.waypoints, profile |-> source.profile,
                scoring |-> source.scoring]
      /\ DOMAIN doc.events = DOMAIN d.events /\ IsSequence(doc.events)
      /\ \A k \in DOMAIN d.events : doc.events[k] = EventEntry(d.events[k])
  BY <1>1, DraftWritten
<1>4. /\ doc.name = d.name /\ doc.settings = d.settings /\ doc.recovery = d.recovery
      /\ doc.timeout = d.timeout /\ doc.assertions = d.assertions
      /\ doc.labels = source.labels /\ doc.configuration = source.configuration
      /\ doc.waypoints = source.waypoints /\ doc.profile = source.profile
      /\ doc.scoring = source.scoring
  <2>1. PICK es : es = doc.events
    OBVIOUS
  <2>2. doc = [name |-> d.name, settings |-> d.settings, recovery |-> d.recovery,
               timeout |-> d.timeout, events |-> es,
               assertions |-> d.assertions, labels |-> source.labels,
               configuration |-> source.configuration,
               waypoints |-> source.waypoints, profile |-> source.profile,
               scoring |-> source.scoring]
    BY <1>3, <2>1
  <2> QED BY <2>2
<1>5. Preserved(doc) = Preserved(source)
  BY <1>4 DEF Preserved
<1>6. /\ doc.timeout \in Int
      /\ \A k \in DOMAIN doc.events :
           doc.events[k].at \in Int /\ IsSequence(doc.events[k].parameters)
  BY <1>3, <1>4, EntryWritten DEF IsDraft, IsEvent
<1>7. /\ IsDraft(b) /\ b.preserved = Preserved(source)
      /\ DOMAIN b.events = DOMAIN doc.events
      /\ \A k \in DOMAIN doc.events : b.events[k] = EventDraft(doc.events[k])
      /\ AllFit(doc.events) => AllFit(b.events)
  BY <1>2, <1>3, <1>5, <1>6, DocumentRead
<1>8. AllFit(d.events) => AllFit(doc.events)
  BY <1>3, EntryWritten DEF AllFit, IsDraft
<1>9. DraftToDocument(b) = doc
  <2>1. PICK again : again = DraftToDocument(b)
    OBVIOUS
  <2>2. /\ again = [name |-> b.name, settings |-> b.settings, recovery |-> b.recovery,
                    timeout |-> b.timeout, events |-> again.events,
                    assertions |-> b.assertions, labels |-> source.labels,
                    configuration |-> source.configuration,
                    waypoints |-> source.waypoints, profile |-> source.profile,
                    scoring |-> source.scoring]
        /\ DOMAIN again.events = DOMAIN b.events /\ IsSequence(again.events)
        /\ \A k \in DOMAIN b.events : again.events[k] = EventEntry(b.events[k])
    BY <1>7, <2>1, DraftWritten
  <2>3. /\ b.name = doc.name /\ b.settings = doc.settings /\ b.recovery = doc.recovery
        /\ b.timeout = doc.timeout /\ b.assertions = doc.assertions
    BY <1>2 DEF ParseScenarioDocument
  <2>4. \A k \in DOMAIN d.events : again.events[k] = doc.events[k]
    BY <1>3, <1>7, <2>2, EntryWritten DEF IsDraft
  <2>5. again.events = doc.events
    BY <1>3, <1>7, <2>2, <2>4 DEF IsSequence
  <2> QED BY <1>3, <1>4, <2>1, <2>2, <2>3, <2>5
<1> QED BY <1>1, <1>2, <1>7, <1>8, <1>9

-----------------------------------------------------------------------------
(* Lists of events. *)

\* A list with one element replaced.
LEMMA Replaced ==
  ASSUME NEW s, IsSequence(s), NEW i \in DOMAIN s, NEW x
  PROVE  LET q == [s EXCEPT ![i] = x]
         IN  /\ IsSequence(q) /\ DOMAIN q = DOMAIN s /\ q[i] = x
             /\ \A k \in DOMAIN s : k # i => q[k] = s[k]
<1>1. PICK q : q = [s EXCEPT ![i] = x]
  OBVIOUS
<1>2. PICK n \in Nat : s \in [1..n -> Range(s)]
  BY DEF IsSequence
<1>3. DOMAIN s = 1..n
  BY <1>2
<1>4. DOMAIN q = 1..n /\ q[i] = x /\ \A k \in 1..n : k # i => q[k] = s[k]
  BY <1>1, <1>2, <1>3
<1>5. q = [k \in 1..n |-> q[k]]
  BY <1>1, <1>2
<1>6. q \in [1..n -> Range(q)]
  BY <1>4, <1>5 DEF Range
<1>7. IsSequence(q)
  BY <1>6 DEF IsSequence
<1> QED BY <1>1, <1>3, <1>4, <1>7

\* A list without one of its elements.
LEMMA Removed ==
  ASSUME NEW s, IsSequence(s), NEW i \in DOMAIN s
  PROVE  LET q == RemoveAt(s, i)
         IN  IsSequence(q) /\ \A k \in DOMAIN q : \E j \in DOMAIN s : q[k] = s[j]
<1> DEFINE S == Range(s)
<1>1. PICK q : q = RemoveAt(s, i)
  OBVIOUS
<1>2. s \in Seq(S)
  BY DEF IsSequence
<1> HIDE DEF S
<1>3. i \in 1..Len(s) /\ Len(s) \in Nat
  BY <1>2
<1>4. SubSeq(s, 1, i - 1) \in Seq(S) /\ SubSeq(s, i + 1, Len(s)) \in Seq(S)
  BY <1>2, <1>3
<1>5. q \in Seq(S)
  BY <1>1, <1>4 DEF RemoveAt
<1>6. \A k \in DOMAIN q : q[k] \in S
  BY <1>5
<1>7. IsSequence(q)
  BY <1>5, RangeSequence
<1> QED BY <1>1, <1>6, <1>7 DEF S, Range

\* A list with an element more.
LEMMA Appended ==
  ASSUME NEW s, IsSequence(s), NEW x
  PROVE  LET q == Append(s, x)
         IN  /\ IsSequence(q) /\ Len(s) \in Nat
             /\ DOMAIN s = 1..Len(s) /\ DOMAIN q = 1..(Len(s) + 1)
             /\ q[Len(s) + 1] = x /\ \A k \in 1..Len(s) : q[k] = s[k]
             /\ \A k \in 1..(Len(s) + 1) : k \in 1..Len(s) \/ k = Len(s) + 1
<1>1. PICK q : q = Append(s, x)
  OBVIOUS
<1>2. /\ IsSequence(q) /\ Len(s) \in Nat /\ Len(q) = Len(s) + 1
      /\ q[Len(s) + 1] = x /\ \A k \in 1..Len(s) : q[k] = s[k]
  BY <1>1, AppendSequence
<1>3. DOMAIN s = 1..Len(s) /\ DOMAIN q = 1..Len(q)
  BY <1>2 DEF IsSequence
<1>4. \A k \in 1..(Len(s) + 1) : k \in 1..Len(s) \/ k = Len(s) + 1
  BY <1>2
<1> QED BY <1>1, <1>2, <1>3, <1>4

\* The time of an appended event is one, and before the timeout where that is
\* more than the shortest.
LEMMA AppendTime ==
  ASSUME IsDraft(draft)
  PROVE  /\ AppendAt \in Nat
         /\ draft.timeout > 10 => AppendAt < draft.timeout
<1> DEFINE events == draft.events
           times  == {DurationOr(e.at, 0) : e \in Range(events)}
<1>1. /\ draft.timeout \in Int /\ events \in Seq(Range(events))
      /\ \A k \in DOMAIN events : events[k].at \in Int
  BY DEF IsDraft, IsEvent, IsSequence
<1>2. \A t \in Int : DurationOr(t, 0) \in Nat /\ DurationOr(t, 180) \in Nat
                     /\ (t > 10 => DurationOr(t, 180) = t)
  BY DEF DurationOr, IsDuration, ParseDuration, Junk
<1> HIDE DEF events
<1>3. times \in SUBSET Nat /\ IsFiniteSet(times)
  <2> DEFINE q == [k \in DOMAIN events |-> DurationOr(events[k].at, 0)]
  <2>1. Len(events) \in Nat /\ DOMAIN events = 1..Len(events)
    BY <1>1
  <2>2. q \in Seq(Nat)
    <3>1. q \in [1..Len(events) -> Nat]
      BY <1>1, <1>2, <2>1
    <3> HIDE DEF q
    <3> QED BY <2>1, <3>1
  <2>3. Range(q) = times
    BY DEF Range
  <2> QED BY <2>2, <2>3, FiniteRange
<1> DEFINE all == {0} \cup times
<1>4. all \in SUBSET Nat /\ IsFiniteSet(all) /\ 0 \in all
  BY <1>3, FS_AddElement
<1> HIDE DEF all
<1>5. LastAt(events) \in all
  <2> DEFINE n == Cardinality(all)
             q == Ranked(all)
  <2>1. n \in Nat /\ q \in Seq(Nat) /\ Range(q) = all /\ Len(q) = n /\ Grows(q)
    BY <1>4, RankedSet, FS_CardinalityType
  <2> HIDE DEF n, q
  <2>2. DOMAIN q = 1..n
    BY <2>1
  <2>3. n # 0
    BY <1>4, <2>1, <2>2 DEF Range
  <2>4. n \in DOMAIN q /\ q[n] \in all
    BY <2>1, <2>2, <2>3 DEF Range
  <2>5. ASSUME NEW x \in all PROVE q[n] >= x
    <3>1. PICK k \in 1..n : x = q[k]
      BY <2>1, <2>2 DEF Range
    <3>2. k = n \/ k < n
      BY <2>1
    <3>3. k < n => q[k] < q[n]
      BY <2>1, <2>2, <2>4 DEF Grows
    <3>4. q[n] \in Nat /\ x \in Nat
      BY <1>4, <2>4
    <3> QED BY <3>1, <3>2, <3>3, <3>4
  <2>6. LastAt(events) = CHOOSE x \in all : \A y \in all : x >= y
    BY DEF LastAt, Max, all
  <2> QED BY <2>4, <2>5, <2>6
<1>6. LastAt(events) \in Nat
  BY <1>4, <1>5
<1>7. PICK last, limit : last = LastAt(events) /\ limit = TimeoutSeconds
  OBVIOUS
<1>8. last \in Nat /\ limit \in Nat /\ (draft.timeout > 10 => limit = draft.timeout)
  BY <1>1, <1>2, <1>6, <1>7 DEF TimeoutSeconds
<1>9. AppendAt = Smaller(Larger(last + 15, 15), Larger(10, limit - 10))
  BY <1>7 DEF AppendAt, events
<1>10. Larger(last + 15, 15) \in Nat /\ Larger(last + 15, 15) >= 15
  BY <1>8 DEF Larger
<1>11. /\ Larger(10, limit - 10) \in Nat
       /\ limit > 10 => Larger(10, limit - 10) < limit
  BY <1>8 DEF Larger
<1>12. PICK a, b : a = Larger(last + 15, 15) /\ b = Larger(10, limit - 10)
  OBVIOUS
<1>13. a \in Nat /\ b \in Nat /\ (limit > 10 => b < limit) /\ AppendAt = Smaller(a, b)
  BY <1>9, <1>10, <1>11, <1>12
<1>14. Smaller(a, b) \in Nat /\ (limit > 10 => Smaller(a, b) < limit)
  BY <1>8, <1>13 DEF Smaller
<1> QED BY <1>8, <1>13, <1>14

\* The id of an appended event is that of no event.
LEMMA FreshId ==
  ASSUME NEW base, NEW events, IsSequence(events)
  PROVE  UniqueEventId(base, events) \notin Used(events)
<1> DEFINE n     == Len(events)
           taken == Used(events)
           free  == {k \in 1..(n + 1) : <<base, k>> \notin taken}
<1>1. n \in Nat /\ DOMAIN events = 1..n
  BY DEF IsSequence
<1> HIDE DEF n
<1>2. free # {}
  <2> SUFFICES ASSUME \A k \in 1..(n + 1) : <<base, k>> \in taken
               PROVE  FALSE
    OBVIOUS
  <2>1. \A k \in 1..(n + 1) : \E j \in 1..n : events[j].id = <<base, k>>
    BY <1>1 DEF Used, Range
  <2> DEFINE f == [k \in 1..(n + 1) |-> CHOOSE j \in 1..n : events[j].id = <<base, k>>]
  <2>2. \A k \in 1..(n + 1) : f[k] \in 1..n /\ events[f[k]].id = <<base, k>>
    BY <2>1
  <2>3. f \in [1..(n + 1) -> 1..n]
    BY <2>2
  <2> HIDE DEF f
  <2>4. /\ IsFiniteSet(1..(n + 1)) /\ Cardinality(1..(n + 1)) = n + 1
        /\ IsFiniteSet(1..n) /\ Cardinality(1..n) = n
    BY <1>1, FS_Interval
  <2>5. PICK x \in 1..(n + 1), y \in 1..(n + 1) : x # y /\ f[x] = f[y]
    <3>1. Cardinality(1..n) < Cardinality(1..(n + 1))
      BY <1>1, <2>4
    <3> QED BY <2>3, <2>4, <3>1, FS_PigeonHole
  <2> QED BY <2>2, <2>5
<1>3. PICK m \in free : \A k \in free : ~(k < m)
  <2>1. free \in SUBSET Nat /\ IsFiniteSet(free)
    <3>1. IsFiniteSet(1..(n + 1)) /\ free \in SUBSET (1..(n + 1))
      BY <1>1, FS_Interval
    <3>2. 1..(n + 1) \in SUBSET Nat
      BY <1>1
    <3> QED BY <3>1, <3>2, FS_Subset
  <2> HIDE DEF free
  <2>2. Cardinality(free) \in Nat /\ Cardinality(free) # 0
    BY <1>2, <2>1, FS_CardinalityType, FS_EmptySet
  <2>3. 1 \in 1..Cardinality(free)
    BY <2>2
  <2>4. Ranked(free)[1] \in free /\ Cardinality({k \in free : k < Ranked(free)[1]}) = 1 - 1
    BY <2>1, <2>3, RankedSet
  <2>5. {k \in free : k < Ranked(free)[1]} = {}
    <3>1. IsFiniteSet({k \in free : k < Ranked(free)[1]})
      BY <2>1, FS_Subset
    <3> QED BY <2>4, <3>1, FS_EmptySet
  <2> QED BY <2>4, <2>5
<1>4. \E id \in {<<base, k>> : k \in 1..(n + 1)} :
        id \notin taken /\ \A k \in 1..(id[2] - 1) : <<base, k>> \in taken
  <2>1. m \in 1..(n + 1) /\ <<base, m>> \notin taken
    OBVIOUS
  <2>2. ASSUME NEW k \in 1..(m - 1) PROVE <<base, k>> \in taken
    <3>1. k \in 1..(n + 1) /\ k < m
      BY <1>1, <2>1
    <3> QED BY <1>3, <3>1
  <2>3. <<base, m>>[2] = m
    OBVIOUS
  <2> HIDE DEF taken, free
  <2>4. PICK id : id = <<base, m>>
    OBVIOUS
  <2> QED BY <2>1, <2>2, <2>3, <2>4
<1>5. UniqueEventId(base, events) =
        CHOOSE id \in {<<base, k>> : k \in 1..(n + 1)} :
          id \notin taken /\ \A k \in 1..(id[2] - 1) : <<base, k>> \in taken
  BY DEF UniqueEventId, n
<1> HIDE DEF taken
<1>6. UniqueEventId(base, events) \notin taken
  BY <1>4, <1>5
<1> QED BY <1>6 DEF taken

-----------------------------------------------------------------------------
(* Steps. *)

\* The draft stays one, and goes on fitting the catalog if it does.
Kept == FormInv' /\ (AllFit(draft.events) => AllFit(draft.events)')

\* The events are replaced, nothing else.
LEMMA EventsSet ==
  ASSUME FormInv, NEW events, IsSequence(events),
         \A k \in DOMAIN events : IsEvent(events[k]),
         AllFit(draft.events) => AllFit(events),
         SetEvents(events)
  PROVE  Kept
<1>1. /\ draft' = [draft EXCEPT !.events = events] /\ origin' = origin
  BY DEF SetEvents, NewDraft
<1>2. PICK d : d = draft'
  OBVIOUS
<1>3. d = [name |-> draft.name, settings |-> draft.settings, recovery |-> draft.recovery,
           timeout |-> draft.timeout, events |-> events, assertions |-> draft.assertions,
           preserved |-> draft.preserved]
  BY <1>1, <1>2 DEF FormInv, IsDraft
<1>4. /\ d.name = draft.name /\ d.settings = draft.settings
      /\ d.recovery = draft.recovery /\ d.timeout = draft.timeout
      /\ d.events = events /\ d.assertions = draft.assertions
      /\ d.preserved = draft.preserved
  BY <1>3
<1>5. IsDraft(d)
  BY <1>3, <1>4 DEF FormInv, IsDraft
<1>6. FormInv'
  BY <1>1, <1>2, <1>4, <1>5 DEF FormInv, IsDraft
<1>7. AllFit(draft.events)' <=> AllFit(events)
  BY <1>2, <1>4 DEF AllFit
<1> QED BY <1>6, <1>7 DEF Kept

\* One event is edited.
LEMMA Changed ==
  ASSUME FormInv, NEW i \in DOMAIN draft.events, NEW f,
         KeepsFit(draft.events[i], f), Change(i, f)
  PROVE  Kept
<1> DEFINE events == draft.events
<1>1. IsSequence(events) /\ \A k \in DOMAIN events : IsEvent(events[k])
  BY DEF FormInv, IsDraft
<1>2. PICK q : q = [events EXCEPT ![i] = f]
  OBVIOUS
<1>3. /\ IsSequence(q) /\ DOMAIN q = DOMAIN events /\ q[i] = f
      /\ \A k \in DOMAIN events : k # i => q[k] = events[k]
  BY <1>1, <1>2, Replaced
<1>4. \A k \in DOMAIN q : IsEvent(q[k])
  BY <1>1, <1>3 DEF KeepsFit
<1>5. AllFit(events) => AllFit(q)
  BY <1>3 DEF KeepsFit, AllFit
<1>6. SetEvents(q)
  BY <1>2 DEF Change
<1> QED BY <1>3, <1>4, <1>5, <1>6, EventsSet

\* The fault library appends an event.
LEMMA AppendKeeps ==
  ASSUME FormInv, NEW s \in Subsystems, NEW effect \in Effects, AppendInjection(s, effect)
  PROVE  Kept
<1>1. effect \in Range(Allowed[s])
  BY DEF AppendInjection, Offered
<1>2. PICK e : e = [id |-> UniqueEventId(SlugOf[<<s, effect>>], draft.events),
                    at |-> AppendAt, subsystem |-> s, effect |-> effect,
                    duration |-> IF effect \in Bounded THEN 20 ELSE Blank,
                    parameters |-> ParametersFor(effect), expect |-> <<>>]
  OBVIOUS
<1>3. /\ e.at = AppendAt /\ e.subsystem = s /\ e.effect = effect
      /\ e.parameters = ParametersFor(effect)
      /\ e = [id |-> e.id, at |-> e.at, subsystem |-> e.subsystem, effect |-> e.effect,
              duration |-> e.duration, parameters |-> e.parameters, expect |-> e.expect]
  BY <1>2
<1>4. IsEvent(e) /\ Fits(e)
  <2>1. AppendAt \in Int
    BY AppendTime DEF FormInv
  <2>2. /\ IsSequence(ParametersFor(effect))
        /\ \A p \in Range(ParametersFor(effect)) :
             \E spec \in Range(ParametersOf[effect]) : spec.name = p.name
    BY <1>1, ChosenParameters
  <2>3. IsEvent(e)
    BY <1>3, <2>1, <2>2 DEF IsEvent
  <2> QED BY <1>1, <1>3, <2>2, <2>3 DEF Fits
<1>5. PICK q : q = Append(draft.events, e)
  OBVIOUS
<1>6. IsSequence(draft.events) /\ \A k \in DOMAIN draft.events : IsEvent(draft.events[k])
  BY DEF FormInv, IsDraft
<1>7. PICK n : /\ IsSequence(q) /\ DOMAIN draft.events = 1..n /\ DOMAIN q = 1..(n + 1)
               /\ q[n + 1] = e /\ \A k \in 1..n : q[k] = draft.events[k]
               /\ \A k \in 1..(n + 1) : k \in 1..n \/ k = n + 1
  <2>1. PICK s0 : s0 = draft.events
    OBVIOUS
  <2>2. IsSequence(s0) /\ q = Append(s0, e)
    BY <1>5, <1>6, <2>1
  <2>3. /\ IsSequence(q) /\ Len(s0) \in Nat
        /\ DOMAIN s0 = 1..Len(s0) /\ DOMAIN q = 1..(Len(s0) + 1)
        /\ q[Len(s0) + 1] = e /\ \A k \in 1..Len(s0) : q[k] = s0[k]
        /\ \A k \in 1..(Len(s0) + 1) : k \in 1..Len(s0) \/ k = Len(s0) + 1
    BY <2>2, Appended
  <2> QED BY <2>1, <2>3
<1>8. \A k \in DOMAIN q : IsEvent(q[k])
  BY <1>4, <1>6, <1>7
<1>9. AllFit(draft.events) => AllFit(q)
  BY <1>4, <1>7 DEF AllFit
<1>10. SetEvents(q)
  BY <1>2, <1>5 DEF AppendInjection
<1> QED BY <1>7, <1>8, <1>9, <1>10, EventsSet

\* Whatever is edited of one event.
LEMMA EditKeeps ==
  ASSUME FormInv, NEW i \in DOMAIN draft.events, EditEvent(i)
  PROVE  Kept
<1> DEFINE e == draft.events[i]
<1>0. IsSequence(draft.events) /\ \A k \in DOMAIN draft.events : IsEvent(draft.events[k])
  BY DEF FormInv, IsDraft
<1>1. IsEvent(e)
  BY <1>0
<1> HIDE DEF e
<1>2. ASSUME NEW id, ChangeId(i, id) PROVE Kept
  <2>1. PICK f : f = [e EXCEPT !.id = id]
    OBVIOUS
  <2>2. KeepsFit(e, f) /\ Change(i, f)
    BY <1>1, <1>2, <2>1, PlainEdits DEF ChangeId, e
  <2> QED BY <2>2, Changed DEF e
<1>3. ASSUME NEW t \in Times, ChangeAt(i, t) PROVE Kept
  <2>1. PICK f : f = [e EXCEPT !.at = t]
    OBVIOUS
  <2>2. KeepsFit(e, f) /\ Change(i, f)
    BY <1>1, <1>3, <2>1, PlainEdits, DocumentsAssumption DEF ChangeAt, e
  <2> QED BY <2>2, Changed DEF e
<1>4. ASSUME NEW t, ChangeDuration(i, t) PROVE Kept
  <2>1. PICK f : f = [e EXCEPT !.duration = t]
    OBVIOUS
  <2>2. KeepsFit(e, f) /\ Change(i, f)
    BY <1>1, <1>4, <2>1, PlainEdits DEF ChangeDuration, e
  <2> QED BY <2>2, Changed DEF e
<1>5. ASSUME NEW effect \in Effects, ChangeEffect(i, effect) PROVE Kept
  <2>1. PICK d : d = IF effect \in Transient THEN Blank ELSE e.duration
    OBVIOUS
  <2>2. PICK f : f = [id |-> e.id, at |-> e.at, subsystem |-> e.subsystem, effect |-> effect,
                      duration |-> d, parameters |-> ParametersFor(effect),
                      expect |-> e.expect]
    OBVIOUS
  <2>3. f = [e EXCEPT !.effect = effect, !.parameters = ParametersFor(effect),
                      !.duration = IF effect \in Transient THEN Blank ELSE @]
    <3>1. PICK g : g = [e EXCEPT !.effect = effect]
      OBVIOUS
    <3>2. g = [id |-> e.id, at |-> e.at, subsystem |-> e.subsystem, effect |-> effect,
               duration |-> e.duration, parameters |-> e.parameters, expect |-> e.expect]
      BY <1>1, <3>1 DEF IsEvent
    <3>3. PICK h : h = [g EXCEPT !.parameters = ParametersFor(effect)]
      OBVIOUS
    <3>4. h = [id |-> e.id, at |-> e.at, subsystem |-> e.subsystem, effect |-> effect,
               duration |-> e.duration, parameters |-> ParametersFor(effect),
               expect |-> e.expect]
      BY <3>2, <3>3
    <3>5. f = [h EXCEPT !.duration = d]
      BY <2>2, <3>4
    <3>6. f = [e EXCEPT !.effect = effect, !.parameters = ParametersFor(effect),
                        !.duration = d]
      BY <3>1, <3>3, <3>5
    <3> QED BY <2>1, <3>6
  <2>4. effect \in Range(Allowed[e.subsystem]) /\ Change(i, f)
    BY <1>5, <2>3 DEF ChangeEffect, e
  <2>5. KeepsFit(e, f)
    BY <1>1, <2>2, <2>4, EffectEdited DEF Fits
  <2> QED BY <2>4, <2>5, Changed DEF e
<1>6. ASSUME NEW s \in Subsystems, ChangeSubsystem(i, s) PROVE Kept
  <2>1. PICK effect : effect = EffectFor(s, e.effect)
    OBVIOUS
  <2>2. PICK f : f = [id |-> e.id, at |-> e.at, subsystem |-> s, effect |-> effect,
                      duration |-> e.duration, parameters |-> ParametersFor(effect),
                      expect |-> e.expect]
    OBVIOUS
  <2>3. f = [e EXCEPT !.subsystem = s, !.effect = effect,
                      !.parameters = ParametersFor(effect)]
    <3>1. PICK g : g = [e EXCEPT !.subsystem = s]
      OBVIOUS
    <3>2. g = [id |-> e.id, at |-> e.at, subsystem |-> s, effect |-> e.effect,
               duration |-> e.duration, parameters |-> e.parameters, expect |-> e.expect]
      BY <1>1, <3>1 DEF IsEvent
    <3>3. PICK h : h = [g EXCEPT !.effect = effect]
      OBVIOUS
    <3>4. h = [id |-> e.id, at |-> e.at, subsystem |-> s, effect |-> effect,
               duration |-> e.duration, parameters |-> e.parameters,
               expect |-> e.expect]
      BY <3>2, <3>3
    <3>5. f = [h EXCEPT !.parameters = ParametersFor(effect)]
      BY <2>2, <3>4
    <3> QED BY <3>1, <3>3, <3>5
  <2>4. Allowed[s] # <<>> /\ Change(i, f)
    BY <1>6, <2>1, <2>3 DEF ChangeSubsystem, e
  <2>5. effect \in Range(Allowed[s])
    <3>1. Allowed[s] \in Seq(STRING)
      BY CatalogAssumption
    <3>2. Allowed[s][1] \in Range(Allowed[s])
      BY <2>4, <3>1 DEF Range
    <3> QED BY <2>1, <3>2 DEF EffectFor
  <2>6. KeepsFit(e, f)
    BY <1>1, <2>2, <2>5, EffectEdited, CatalogEffects
  <2> QED BY <2>4, <2>6, Changed DEF e
<1>7. ASSUME NEW spec, NEW v, ChangeParameter(i, spec, v) PROVE Kept
  <2>1. PICK f : f = [e EXCEPT !.parameters = WithParameter(@, spec, v)]
    OBVIOUS
  <2>2. spec \in Range(ParametersOf[e.effect]) /\ Change(i, f)
    BY <1>7, <2>1 DEF ChangeParameter, e
  <2>3. KeepsFit(e, f)
    BY <1>1, <2>1, <2>2, ParameterEdited
  <2> QED BY <2>2, <2>3, Changed DEF e
<1>8. ASSUME NEW f, NEW x, f = [e EXCEPT !.expect = x], Change(i, f) PROVE Kept
  <2>1. KeepsFit(e, f)
    BY <1>1, <1>8, PlainEdits
  <2> QED BY <1>8, <2>1, Changed DEF e
<1>9. CASE AddExpectation(i)
  <2>1. PICK x : x = Append(e.expect, [subsystem |-> e.subsystem,
                                       state |-> "DEGRADED", within |-> 5])
    OBVIOUS
  <2>2. PICK f : f = [e EXCEPT !.expect = x]
    OBVIOUS
  <2>3. Change(i, f)
    BY <1>9, <2>1, <2>2 DEF AddExpectation, e
  <2> QED BY <1>8, <2>2, <2>3
<1>10. ASSUME NEW s \in Subsystems, UpdateExpectation(i, s) PROVE Kept
  <2>1. PICK x : x = [e.expect EXCEPT ![1].subsystem = s]
    OBVIOUS
  <2>2. PICK f : f = [e EXCEPT !.expect = x]
    OBVIOUS
  <2>3. f = [e EXCEPT !.expect[1].subsystem = s]
    BY <1>1, <2>1, <2>2 DEF IsEvent
  <2>4. Change(i, f)
    BY <1>10, <2>3 DEF UpdateExpectation, e
  <2> QED BY <1>8, <2>2, <2>4
<1>11. CASE RemoveExpectation(i)
  <2>1. PICK x : x = Tail(e.expect)
    OBVIOUS
  <2>2. PICK f : f = [e EXCEPT !.expect = x]
    OBVIOUS
  <2>3. Change(i, f)
    BY <1>11, <2>1, <2>2 DEF RemoveExpectation, e
  <2> QED BY <1>8, <2>2, <2>3
<1>12. CASE RemoveEvent(i)
  <2>1. PICK q : q = RemoveAt(draft.events, i)
    OBVIOUS
  <2>2. IsSequence(q) /\ \A k \in DOMAIN q : \E j \in DOMAIN draft.events : q[k] = draft.events[j]
    BY <1>0, <2>1, Removed
  <2>3. SetEvents(q)
    BY <1>12, <2>1 DEF RemoveEvent
  <2> QED BY <1>0, <2>2, <2>3, EventsSet DEF AllFit
<1>13. ASSUME NEW d \in {-1, 1}, Move(i, d) PROVE Kept
  <2>1. PICK j : j = i + d
    OBVIOUS
  <2>2. j \in DOMAIN draft.events
    BY <1>13, <2>1 DEF Move
  <2>3. PICK q : q = [draft.events EXCEPT ![i] = draft.events[j]]
    OBVIOUS
  <2>4. /\ IsSequence(q) /\ DOMAIN q = DOMAIN draft.events /\ q[i] = draft.events[j]
        /\ \A k \in DOMAIN draft.events : k # i => q[k] = draft.events[k]
    BY <1>0, <2>3, Replaced
  <2>5. PICK r : r = [q EXCEPT ![j] = draft.events[i]]
    OBVIOUS
  <2>6. /\ IsSequence(r) /\ DOMAIN r = DOMAIN q /\ r[j] = draft.events[i]
        /\ \A k \in DOMAIN q : k # j => r[k] = q[k]
    BY <2>2, <2>4, <2>5, Replaced
  <2>7. \A k \in DOMAIN r : \E l \in DOMAIN draft.events : r[k] = draft.events[l]
    BY <2>2, <2>4, <2>6
  <2>8. SetEvents(r)
    BY <1>13, <2>1, <2>3, <2>5 DEF Move
  <2> QED BY <1>0, <2>6, <2>7, <2>8, EventsSet DEF AllFit
<1> QED BY <1>2, <1>3, <1>4, <1>5, <1>6, <1>7, <1>9, <1>10, <1>11, <1>12, <1>13
        DEF EditEvent

\* A step that keeps the events keeps them fit.
LEMMA RestSet ==
  ASSUME FormInv, NEW d, NewDraft(d), IsDraft(d), d.events = draft.events,
         d.preserved = draft.preserved
  PROVE  Kept
<1>1. draft' = d /\ origin' = origin
  BY DEF NewDraft
<1>2. FormInv'
  BY <1>1 DEF FormInv, IsDraft
<1>3. AllFit(draft.events)' <=> AllFit(draft.events)
  BY <1>1 DEF AllFit
<1> QED BY <1>2, <1>3 DEF Kept

\* The settings, the policy, the timeout and the assertions.
LEMMA OtherEdits ==
  ASSUME FormInv,
         \/ \E t \in Timeouts : EditTimeout(t)
         \/ EditSettings("edited") \/ EditRecovery("edited")
         \/ AddAssertion \/ RemoveAssertion
  PROVE  Kept
<1>0. IsDraft(draft)
  BY DEF FormInv
<1>1. ASSUME NEW x PROVE
        /\ x \in Int => /\ IsDraft([draft EXCEPT !.timeout = x])
                        /\ [draft EXCEPT !.timeout = x].events = draft.events
                        /\ [draft EXCEPT !.timeout = x].preserved = draft.preserved
        /\ IsDraft([draft EXCEPT !.settings = x])
        /\ [draft EXCEPT !.settings = x].events = draft.events
        /\ [draft EXCEPT !.settings = x].preserved = draft.preserved
        /\ IsDraft([draft EXCEPT !.recovery = x])
        /\ [draft EXCEPT !.recovery = x].events = draft.events
        /\ [draft EXCEPT !.recovery = x].preserved = draft.preserved
        /\ IsDraft([draft EXCEPT !.assertions = x])
        /\ [draft EXCEPT !.assertions = x].events = draft.events
        /\ [draft EXCEPT !.assertions = x].preserved = draft.preserved
  <2>1. PICK a, b, c, f : /\ a = [draft EXCEPT !.timeout = x]
                          /\ b = [draft EXCEPT !.settings = x]
                          /\ c = [draft EXCEPT !.recovery = x]
                          /\ f = [draft EXCEPT !.assertions = x]
    OBVIOUS
  <2>2. /\ a = [name |-> draft.name, settings |-> draft.settings,
                recovery |-> draft.recovery, timeout |-> x, events |-> draft.events,
                assertions |-> draft.assertions, preserved |-> draft.preserved]
        /\ b = [name |-> draft.name, settings |-> x,
                recovery |-> draft.recovery, timeout |-> draft.timeout,
                events |-> draft.events,
                assertions |-> draft.assertions, preserved |-> draft.preserved]
        /\ c = [name |-> draft.name, settings |-> draft.settings,
                recovery |-> x, timeout |-> draft.timeout, events |-> draft.events,
                assertions |-> draft.assertions, preserved |-> draft.preserved]
        /\ f = [name |-> draft.name, settings |-> draft.settings,
                recovery |-> draft.recovery, timeout |-> draft.timeout,
                events |-> draft.events,
                assertions |-> x, preserved |-> draft.preserved]
    BY <1>0, <2>1 DEF IsDraft
  <2>3. x \in Int => IsDraft(a) /\ a.events = draft.events /\ a.preserved = draft.preserved
    BY <1>0, <2>2 DEF IsDraft
  <2>4. IsDraft(b) /\ b.events = draft.events /\ b.preserved = draft.preserved
    BY <1>0, <2>2 DEF IsDraft
  <2>5. IsDraft(c) /\ c.events = draft.events /\ c.preserved = draft.preserved
    BY <1>0, <2>2 DEF IsDraft
  <2>6. IsDraft(f) /\ f.events = draft.events /\ f.preserved = draft.preserved
    BY <1>0, <2>2 DEF IsDraft
  <2> QED BY <2>1, <2>3, <2>4, <2>5, <2>6
<1>2. ASSUME NEW t \in Timeouts, EditTimeout(t) PROVE Kept
  <2>1. PICK d : d = [draft EXCEPT !.timeout = t]
    OBVIOUS
  <2>2. NewDraft(d) /\ t \in Int
    BY <1>2, <2>1, DocumentsAssumption DEF EditTimeout
  <2> QED BY <1>1, <2>1, <2>2, RestSet
<1>3. CASE EditSettings("edited")
  <2>1. PICK d : d = [draft EXCEPT !.settings = "edited"]
    OBVIOUS
  <2>2. NewDraft(d)
    BY <1>3, <2>1 DEF EditSettings
  <2> QED BY <1>1, <2>1, <2>2, RestSet
<1>4. CASE EditRecovery("edited")
  <2>1. PICK d : d = [draft EXCEPT !.recovery = "edited"]
    OBVIOUS
  <2>2. NewDraft(d)
    BY <1>4, <2>1 DEF EditRecovery
  <2> QED BY <1>1, <2>1, <2>2, RestSet
<1>5. CASE AddAssertion \/ RemoveAssertion
  <2>1. PICK x : NewDraft([draft EXCEPT !.assertions = x])
    BY <1>5 DEF AddAssertion, RemoveAssertion
  <2>2. PICK d : d = [draft EXCEPT !.assertions = x]
    OBVIOUS
  <2> QED BY <1>1, <2>1, <2>2, RestSet
<1> QED BY <1>2, <1>3, <1>4, <1>5

\* Every step, of a user of documents that fit the catalog.
LEMMA FormStep ==
  ASSUME FormInv, [Next]_vars
  PROVE  /\ FormInv'
         /\ (\A d \in Documents : AllFit(d.events)) /\ AllFit(draft.events)
              => AllFit(draft.events)'
<1>1. CASE AppendAny
  BY <1>1, AppendKeeps DEF AppendAny, Kept
<1>2. CASE \E i \in DOMAIN draft.events : EditEvent(i)
  BY <1>2, EditKeeps DEF Kept
<1>3. ASSUME UNCHANGED <<draft, origin>>
      PROVE  FormInv' /\ (AllFit(draft.events) => AllFit(draft.events)')
  BY <1>3 DEF FormInv, IsDraft, AllFit
<1>4. CASE (\E id \in Used(draft.events) : Select(id)) \/ UNCHANGED vars
  BY <1>3, <1>4 DEF Select, vars
<1>5. CASE \/ \E t \in Timeouts : EditTimeout(t)
           \/ EditSettings("edited") \/ EditRecovery("edited")
           \/ AddAssertion \/ RemoveAssertion
  BY <1>5, OtherEdits DEF Kept
<1>6. CASE ReadBack
  <2>1. PICK b : b = ParseScenarioDocument(DraftToDocument(draft))
    OBVIOUS
  <2>2. draft' = b /\ origin' = origin
    BY <1>6, <2>1 DEF ReadBack, NewDraft
  <2>3. /\ IsDraft(b) /\ b.preserved = Preserved(origin)
        /\ AllFit(draft.events) => AllFit(b.events)
    BY <2>1, DraftReadBack DEF FormInv
  <2>4. FormInv'
    BY <2>2, <2>3 DEF FormInv, IsDraft
  <2>5. AllFit(draft.events)' <=> AllFit(b.events)
    BY <2>2 DEF AllFit
  <2> QED BY <2>3, <2>4, <2>5
<1>7. ASSUME NEW document \in Documents, Fill(document)
      PROVE  FormInv' /\ (AllFit(document.events) => AllFit(draft.events)')
  <2>1. PICK b : b = ParseScenarioDocument(document)
    OBVIOUS
  <2>2. draft' = b /\ origin' = document
    BY <1>7, <2>1 DEF Fill
  <2>3. /\ IsDraft(b) /\ b.preserved = Preserved(document)
        /\ AllFit(document.events) => AllFit(b.events)
    BY <2>1, OpenedRead
  <2>4. FormInv'
    BY <2>2, <2>3 DEF FormInv, IsDraft
  <2>5. AllFit(draft.events)' <=> AllFit(b.events)
    BY <2>2 DEF AllFit
  <2> QED BY <2>3, <2>4, <2>5
<1> QED BY <1>1, <1>2, <1>4, <1>5, <1>6, <1>7 DEF Next

\* The form is opened with a document.
LEMMA FormInit ==
  ASSUME Init
  PROVE  /\ FormInv
         /\ (\A d \in Documents : AllFit(d.events)) => AllFit(draft.events)
BY OpenedRead DEF Init, FormInv

\* The invariant of every behaviour.
LEMMA FormHolds == Spec => []FormInv
<1>1. Init => FormInv
  BY FormInit
<1>2. FormInv /\ [Next]_vars => FormInv'
  BY FormStep
<1> QED BY <1>1, <1>2, PTL DEF Spec

-----------------------------------------------------------------------------
(* The properties. *)

\* Whatever was edited, the text of the form reads back into a form with the
\* same text, and what the form does not know of a document is never lost
\* (draftToDocument, parseScenarioDocument).
THEOREM NothingLostInText == Spec => []RoundTrips
<1>1. FormInv => RoundTrips
  <2> SUFFICES ASSUME FormInv PROVE RoundTrips
    OBVIOUS
  <2>1. IsDraft(draft) /\ draft.preserved = Preserved(origin)
    BY DEF FormInv
  <2>2. ReadBackIsStable
    BY <2>1, DraftReadBack DEF ReadBackIsStable
  <2>3. PICK doc : doc = DraftToDocument(draft)
    OBVIOUS
  <2>4. PICK es : es = doc.events
    OBVIOUS
  <2>5. doc = [name |-> draft.name, settings |-> draft.settings,
               recovery |-> draft.recovery, timeout |-> draft.timeout, events |-> es,
               assertions |-> draft.assertions, labels |-> origin.labels,
               configuration |-> origin.configuration,
               waypoints |-> origin.waypoints, profile |-> origin.profile,
               scoring |-> origin.scoring]
    BY <2>1, <2>3, <2>4, DraftWritten
  <2>6. /\ doc["labels"] = origin["labels"] /\ doc["profile"] = origin["profile"]
        /\ doc["configuration"] = origin["configuration"]
        /\ doc["waypoints"] = origin["waypoints"] /\ doc["scoring"] = origin["scoring"]
    BY <2>5
  <2>7. PartsPreserved
    BY <2>3, <2>6 DEF PartsPreserved
  <2> QED BY <2>2, <2>7 DEF RoundTrips
<1> QED BY <1>1, FormHolds, PTL

\* The countdown of the form is the schedule of the engine, for every document
\* the platform accepts (scenarioSchedule, expanded_events).
THEOREM CountdownIsSchedule == Spec => []ScheduleMirrors
<1>1. FormInv => ScheduleMirrors
  <2> SUFFICES ASSUME FormInv, Valid(DraftToDocument(draft))
               PROVE  ScenarioSchedule(draft) = Expanded(DraftToDocument(draft))
    BY DEF ScheduleMirrors
  <2>1. IsDraft(draft) /\ draft.preserved = Preserved(origin)
    BY DEF FormInv
  <2>2. PICK doc : doc = DraftToDocument(draft)
    OBVIOUS
  <2>3. PICK es : es = doc.events
    OBVIOUS
  <2>4. /\ doc = [name |-> draft.name, settings |-> draft.settings,
                  recovery |-> draft.recovery, timeout |-> draft.timeout, events |-> es,
                  assertions |-> draft.assertions, labels |-> origin.labels,
                  configuration |-> origin.configuration,
                  waypoints |-> origin.waypoints, profile |-> origin.profile,
                  scoring |-> origin.scoring]
        /\ DOMAIN es = DOMAIN draft.events
        /\ \A k \in DOMAIN draft.events : es[k] = EventEntry(draft.events[k])
    BY <2>1, <2>2, <2>3, DraftWritten
  <2>5. doc.profile = draft.preserved.profile
    <3>1. PICK p : p = draft.preserved
      OBVIOUS
    <3>2. p.profile = origin.profile
      BY <2>1, <3>1 DEF Preserved
    <3> QED BY <2>4, <3>1, <3>2
  <2>6. ASSUME NEW k \in DOMAIN draft.events
        PROVE  /\ es[k].id = draft.events[k].id
               /\ es[k].at = DurationOr(draft.events[k].at, 0)
               /\ es[k].subsystem = draft.events[k].subsystem
               /\ es[k].effect = draft.events[k].effect
               /\ es[k].duration = draft.events[k].duration
    <3>1. IsDuration(es[k].at)
      BY <2>2, <2>3, <2>4 DEF Valid, ValidEvent
    <3>2. es[k] = EventEntry(draft.events[k]) /\ IsEvent(draft.events[k])
      BY <2>1, <2>4 DEF IsDraft
    <3>3. /\ es[k].id = draft.events[k].id /\ es[k].at = draft.events[k].at
          /\ es[k].subsystem = draft.events[k].subsystem
          /\ es[k].effect = draft.events[k].effect
          /\ es[k].duration = draft.events[k].duration
      BY <3>2, EntryWritten
    <3> QED BY <3>1, <3>3 DEF DurationOr
  <2>7. PICK shown, planned :
          /\ shown = [k \in DOMAIN draft.events |->
                        LET event == draft.events[k] IN
                        [id |-> event.id, at |-> DurationOr(event.at, 0),
                         subsystem |-> event.subsystem, effect |-> event.effect,
                         duration |-> event.duration]]
          /\ planned = [k \in DOMAIN es |->
                          LET e == es[k] IN
                          [id |-> e.id, at |-> e.at, subsystem |-> e.subsystem,
                           effect |-> e.effect, duration |-> e.duration]]
    OBVIOUS
  <2>8. shown = planned
    BY <2>4, <2>6, <2>7
  <2>9. ScenarioSchedule(draft) =
          InOrder(shown \o (IF doc.profile = Absent THEN <<>> ELSE FromProfile(doc.profile)),
                  Collation)
    BY <2>5, <2>7 DEF ScenarioSchedule
  <2>10. PICK derived :
          derived = (IF doc.profile = Absent THEN <<>>
                     ELSE [k \in DOMAIN Lasting(doc.profile) |->
                             LET e == Lasting(doc.profile)[k] IN
                             [id |-> <<ProfileSlugOf[e.subsystem], 1>>,
                              at |-> doc.profile.at, subsystem |-> e.subsystem,
                              effect |-> e.behaviour,
                              duration |-> IF e.behaviour \in Transient THEN Blank
                                           ELSE doc.profile.duration]])
    OBVIOUS
  <2>11. Expanded(doc) = InOrder(planned \o derived, CodePoints)
    BY <2>3, <2>7, <2>10 DEF Expanded
  <2>12. derived = (IF doc.profile = Absent THEN <<>> ELSE FromProfile(doc.profile))
    <3>1. CASE doc.profile = Absent
      BY <2>10, <3>1
    <3>2. CASE doc.profile # Absent
      <4>1. IsDuration(doc.profile.at)
        BY <2>2, <3>2 DEF Valid, ValidProfile
      <4>2. DurationOr(doc.profile.at, 0) = doc.profile.at
        BY <4>1 DEF DurationOr
      <4> QED BY <2>10, <3>2, <4>2 DEF FromProfile
    <3> QED BY <3>1, <3>2
  <2> QED BY <2>2, <2>8, <2>9, <2>11, <2>12, OrdersAgree
<1> QED BY <1>1, FormHolds, PTL

\* From documents that fit the catalog, no order of edits of effects, subsystems
\* and parameters makes an event the catalog refuses (EventEditor).
THEOREM EventsGoOnFitting ==
  ASSUME \A d \in Documents : AllFit(d.events)
  PROVE  Spec => []EventsFitCatalog
<1>1. Init => FormInv /\ AllFit(draft.events)
  BY FormInit
<1>2. FormInv /\ AllFit(draft.events) /\ [Next]_vars => FormInv' /\ AllFit(draft.events)'
  BY FormStep
<1>3. FormInv /\ AllFit(draft.events) => EventsFitCatalog
  BY DEF EventsFitCatalog, AllFit, Fits, Range
<1> QED BY <1>1, <1>2, <1>3, PTL DEF Spec

\* What the library appends to a valid document is valid: its id is no other's,
\* its time is before the timeout, its effect has what it needs, and there is room.
LEMMA AppendIsValid ==
  ASSUME FormInv, FormInv', NEW s \in Subsystems, NEW effect \in Effects,
         AppendInjection(s, effect), Valid(DraftToDocument(draft)), draft.timeout > 10,
         Len(draft.events) < MaxDocumentEvents
  PROVE  Valid(DraftToDocument(draft'))
<1>1. effect \in Range(Allowed[s])
  BY DEF AppendInjection, Offered
<1>2. PICK e : e = [id |-> UniqueEventId(SlugOf[<<s, effect>>], draft.events),
                    at |-> AppendAt, subsystem |-> s, effect |-> effect,
                    duration |-> IF effect \in Bounded THEN 20 ELSE Blank,
                    parameters |-> ParametersFor(effect), expect |-> <<>>]
  OBVIOUS
<1>3. PICK d, b : d = draft /\ b = draft'
  OBVIOUS
<1>4. /\ IsDraft(d) /\ d.preserved = Preserved(origin)
      /\ IsDraft(b) /\ b.preserved = Preserved(origin)
  <2>1. origin' = origin
    BY DEF AppendInjection, SetEvents, NewDraft
  <2> QED BY <1>3, <2>1 DEF FormInv, IsDraft
<1>5. b.events = Append(d.events, e) /\ b.timeout = d.timeout /\ b.preserved = d.preserved
  <2>1. b = [d EXCEPT !.events = Append(d.events, e)]
    BY <1>2, <1>3 DEF AppendInjection, SetEvents, NewDraft
  <2> QED BY <1>4, <2>1 DEF IsDraft
<1>6. PICK doc, new : doc = DraftToDocument(d) /\ new = DraftToDocument(b)
  OBVIOUS
<1>7. PICK es, fs : es = doc.events /\ fs = new.events
  OBVIOUS
<1>8. /\ doc.timeout = d.timeout /\ new.timeout = d.timeout
      /\ DOMAIN es = DOMAIN d.events /\ DOMAIN fs = DOMAIN b.events
      /\ \A k \in DOMAIN d.events : es[k] = EventEntry(d.events[k])
      /\ \A k \in DOMAIN b.events : fs[k] = EventEntry(b.events[k])
  <2>1. doc.timeout = d.timeout /\ new.timeout = b.timeout
    BY <1>6 DEF DraftToDocument
  <2> QED BY <1>4, <1>5, <1>6, <1>7, <2>1, DraftWritten
<1>9. PICK n \in Nat : /\ DOMAIN d.events = 1..n /\ DOMAIN b.events = 1..(n + 1)
                       /\ b.events[n + 1] = e /\ \A k \in 1..n : b.events[k] = d.events[k]
                       /\ \A k \in 1..(n + 1) : k \in 1..n \/ k = n + 1
  BY <1>4, <1>5, Appended DEF IsDraft
<1>10. /\ \A k \in 1..n : fs[k] = es[k] /\ es[k].id = d.events[k].id
       /\ n + 1 \in 1..(n + 1) /\ IsEvent(e) /\ fs[n + 1] = EventEntry(e)
  <2>1. \A k \in 1..n : k \in 1..(n + 1)
    OBVIOUS
  <2>2. n + 1 \in 1..(n + 1)
    OBVIOUS
  <2>3. IsEvent(e)
    BY <1>4, <1>9, <2>2 DEF IsDraft
  <2>4. \A k \in 1..n : IsEvent(d.events[k])
    BY <1>4, <1>9 DEF IsDraft
  <2> QED BY <1>8, <1>9, <2>1, <2>2, <2>3, <2>4, EntryWritten
<1>11. /\ doc.timeout \in 10..3600
       /\ \A k \in 1..n : ValidEvent(doc, es[k])
       /\ \A j, k \in 1..n : es[j].id = es[k].id => j = k
  BY <1>3, <1>6, <1>7, <1>8, <1>9 DEF Valid
<1>12. \A k \in 1..n : ValidEvent(new, fs[k])
  BY <1>8, <1>10, <1>11 DEF ValidEvent
<1>13. ValidEvent(new, fs[n + 1])
  <2>1. PICK f : f = fs[n + 1]
    OBVIOUS
  <2>2. /\ f.at = e.at /\ f.subsystem = e.subsystem /\ f.effect = e.effect
        /\ f.duration = e.duration /\ f.parameters = WrittenParameters(e.parameters)
        /\ f.expect = e.expect
    BY <1>10, <2>1, EntryWritten
  <2>3. /\ e.at = AppendAt /\ e.subsystem = s /\ e.effect = effect
        /\ e.duration = (IF effect \in Bounded THEN 20 ELSE Blank)
        /\ e.parameters = ParametersFor(effect) /\ e.expect = <<>>
    BY <1>2
  <2>4. IsDuration(f.at) /\ f.at < new.timeout
    <3>1. AppendAt \in Nat /\ AppendAt < new.timeout
      BY <1>3, <1>4, <1>8, AppendTime
    <3>2. f.at \in Nat
      BY <2>2, <2>3, <3>1
    <3>3. IsDuration(f.at)
      BY <3>2 DEF IsDuration, ParseDuration, Junk
    <3> QED BY <2>2, <2>3, <3>1, <3>3
  <2>5. /\ f.effect \in Transient => f.duration = Blank
        /\ f.effect \in Bounded => f.duration # Blank
        /\ f.duration = Blank \/ IsDuration(f.duration)
    <3>1. CASE effect \in Bounded
      <4>1. f.duration = 20
        BY <2>2, <2>3, <3>1
      <4>2. effect \notin Transient
        BY <3>1, CatalogAssumption
      <4> QED BY <2>2, <2>3, <4>1, <4>2 DEF IsDuration, ParseDuration, Junk, Blank
    <3>2. CASE effect \notin Bounded
      BY <2>2, <2>3, <3>2
    <3> QED BY <3>1, <3>2
  <2>6. DOMAIN f.parameters = {}
    <3>1. PICK ps : ps = ParametersFor(effect)
      OBVIOUS
    <3>2. IsSequence(ps) /\ \A p \in Range(ps) : p.value = ""
      BY <1>1, <3>1, ChosenParameters
    <3>3. \A k \in DOMAIN ps : ~Written(ps[k])
      BY <3>2 DEF Written, Range
    <3>4. DOMAIN WrittenParameters(ps) = {}
      BY <3>2, <3>3, WhatIsWritten
    <3> QED BY <2>2, <2>3, <3>1, <3>4
  <2>7. DOMAIN f.expect = {}
    BY <2>2, <2>3
  <2>8. f.subsystem \in Subsystems /\ f.effect \in Range(Allowed[f.subsystem])
    BY <1>1, <2>2, <2>3
  <2>9. Len(f.expect) <= MaxExpectations
    <3>1. Len(<<>>) = 0
      OBVIOUS
    <3> QED BY <2>2, <2>3, <3>1, LimitsAssumption
  <2>10. ValidEvent(new, f)
    BY <2>4, <2>5, <2>6, <2>7, <2>8, <2>9 DEF ValidEvent
  <2> QED BY <2>1, <2>10
<1>14. \A k \in 1..n : es[k].id # fs[n + 1].id
  <2>1. e.id = UniqueEventId(SlugOf[<<s, effect>>], d.events)
    BY <1>2, <1>3
  <2>2. e.id \notin Used(d.events)
    BY <1>4, <2>1, FreshId DEF IsDraft
  <2>3. \A k \in 1..n : d.events[k].id \in Used(d.events)
    BY <1>9 DEF Used, Range
  <2>4. fs[n + 1].id = e.id
    BY <1>10, EntryWritten
  <2> QED BY <1>10, <2>2, <2>3, <2>4
<1>15. fs # <<>>
  <2>1. n + 1 \in DOMAIN fs
    BY <1>8, <1>9, <1>10
  <2>2. DOMAIN <<>> = {}
    OBVIOUS
  <2> QED BY <2>1, <2>2
<1>16. \A k \in DOMAIN fs : ValidEvent(new, fs[k])
  BY <1>8, <1>9, <1>12, <1>13
<1>17. \A j, k \in DOMAIN fs : fs[j].id = fs[k].id => j = k
  BY <1>8, <1>9, <1>10, <1>11, <1>14
<1>18. Valid(new)
  <2>1. new.timeout \in 10..3600
    BY <1>8, <1>11
  <2>2. Len(fs) <= MaxDocumentEvents
    <3>1. fs \in Seq(Range(fs)) /\ d.events \in Seq(Range(d.events))
      BY <1>4, <1>5, <1>6, <1>7, DraftWritten DEF IsDraft, IsSequence
    <3>2. Len(fs) = n + 1 /\ Len(d.events) = n
      BY <1>8, <1>9, <3>1
    <3>3. n < MaxDocumentEvents
      BY <1>3, <3>2
    <3> QED BY <3>2, <3>3, LimitsAssumption
  <2>3. new.profile # Absent => ValidProfile(new.profile)
    <3>1. new.profile = doc.profile
      BY <1>5, <1>6 DEF DraftToDocument
    <3>2. Valid(doc)
      BY <1>3, <1>6
    <3> QED BY <3>1, <3>2 DEF Valid
  <2> QED BY <1>7, <1>15, <1>16, <1>17, <2>1, <2>2, <2>3 DEF Valid
<1> QED BY <1>3, <1>6, <1>18

\* An event of the fault library makes no valid document invalid, after any
\* removals and renames, unless it has as many events as the platform accepts
\* (appendInjection, uniqueEventId).
THEOREM LibraryKeepsValid == Spec => AppendKeepsValid
<1>1. FormInv /\ FormInv' /\ [Next]_vars =>
        [AppendAny /\ Valid(DraftToDocument(draft))
           /\ draft.timeout > 10 /\ Len(draft.events) < MaxDocumentEvents
           => Valid(DraftToDocument(draft'))]_vars
  BY AppendIsValid DEF AppendAny
<1> QED BY <1>1, FormHolds, PTL DEF Spec, AppendKeepsValid

=============================================================================
