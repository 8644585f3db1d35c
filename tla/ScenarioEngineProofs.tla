------------------------- MODULE ScenarioEngineProofs -------------------------
(***************************************************************************)
(* Proofs that the samples of an execution reach the sink as               *)
(* TelemetryIsComplete says, that an injection is cleared when             *)
(* OnlyBoundedOutlive says, that an expectation is judged as JudgedRight   *)
(* says, that an execution is one of RunPipeline (RunsAsPipeline), and     *)
(* that events tell what EventsTellTrue says, for every scenario, every    *)
(* adapter that keeps the contract of Observations, and every batch span.  *)
(*                                                                         *)
(* A sample holds the health of the components, which is whatever the      *)
(* changes of the adapter make of it.  A verdict follows from it, but      *)
(* needs no range for it, so batch and sent are known to be sequences,     *)
(* but not of what.                                                        *)
(***************************************************************************)
EXTENDS ScenarioEngine, SequenceLemmas

\* Where a sample of the clock's time has not been taken yet.
Sampling == {"scheduled", "observed"}

Starting == {"accepted", "preparing", "prepared"}

Sent == {"collecting", "stopping", "returned", "popped", "done"}

TeleType ==
  /\ clock \in Nat /\ samples \in Nat /\ faults \in Nat
  /\ IsSequence(batch) /\ IsSequence(sent)

\* No sample is of a later time than the clock's, and none of the clock's while
\* an observation is in hand.
TakenBefore(s) ==
  \A i \in 1..Len(s) : /\ s[i].t \in Nat /\ s[i].t <= clock
                       /\ pc \in Sampling => s[i].t < clock

Ordered(s) == \A i, j \in 1..Len(s) : i < j => s[i].t < s[j].t

Spread ==
  batch # <<>> => batch[Len(batch)].t - batch[1].t < BatchSpan /\ Len(batch) < BatchSize

TeleInv ==
  /\ TeleType
  /\ TakenBefore(sent) /\ TakenBefore(batch)
  /\ pc = "waiting" => Spread
  /\ pc \in Starting => batch = <<>>
  /\ faults = 0 => /\ Len(sent) + Len(batch) = samples
                   /\ Ordered(sent \o batch)
                   /\ pc \in Sent => batch = <<>>

-----------------------------------------------------------------------------
(* The steps. *)

\* A step that takes no sample, sends none and does not pass the time.
LEMMA Quiet ==
  ASSUME TeleInv, UNCHANGED <<clock, tele>>,
         faults' = faults \/ Fault,
         pc' \in Sampling => pc \in Sampling,
         pc' = "waiting" => pc \in {"waiting"} \cup Starting,
         pc' \in Starting => pc \in Starting,
         pc' \in Sent => pc \in Sent
  PROVE  TeleInv'
<1>1. faults' \in Nat /\ (faults' = 0 => faults = 0)
  BY DEF TeleInv, TeleType, Fault
<1>2. batch' = batch /\ sent' = sent /\ samples' = samples /\ clock' = clock
  BY DEF tele
<1>3. TeleType' /\ TakenBefore(sent)' /\ TakenBefore(batch)' /\ (Ordered(sent \o batch))' = Ordered(sent \o batch)
  BY <1>1, <1>2 DEF TeleInv, TeleType, TakenBefore, Ordered
<1>4. pc' = "waiting" => Spread'
  BY <1>2 DEF TeleInv, Spread
<1> QED BY <1>1, <1>2, <1>3, <1>4 DEF TeleInv

\* The samples that are in the batch go to the sink: all that was taken is sent.
LEMMA Flush ==
  ASSUME TeleInv, sent' = sent \o batch, batch' = <<>>, UNCHANGED <<clock, samples>>,
         faults' = faults \/ Fault,
         pc' \notin Sampling
  PROVE  TeleInv'
<1>1. faults' \in Nat /\ (faults' = 0 => faults = 0)
  BY DEF TeleInv, TeleType, Fault
<1>2. /\ IsSequence(sent \o batch) /\ Len(sent) \in Nat /\ Len(batch) \in Nat
      /\ Len(sent \o batch) = Len(sent) + Len(batch)
      /\ \A i \in 1..Len(sent) : (sent \o batch)[i] = sent[i]
      /\ \A i \in 1..Len(batch) : (sent \o batch)[Len(sent) + i] = batch[i]
  BY ConcatSequence DEF TeleInv, TeleType
<1>3. TeleType'
  BY <1>1, <1>2, EmptySequence DEF TeleInv, TeleType
<1>4. TakenBefore(sent)'
  <2> SUFFICES ASSUME NEW i \in 1..Len(sent \o batch)
               PROVE  (sent \o batch)[i].t \in Nat /\ (sent \o batch)[i].t <= clock
    BY DEF TakenBefore
  <2>1. CASE i \in 1..Len(sent)
    BY <2>1, <1>2 DEF TeleInv, TakenBefore
  <2>2. CASE i \notin 1..Len(sent)
    <3>1. i - Len(sent) \in 1..Len(batch) /\ i = Len(sent) + (i - Len(sent))
      BY <2>2, <1>2
    <3> QED BY <3>1, <1>2 DEF TeleInv, TakenBefore
  <2> QED BY <2>1, <2>2
<1>5. TakenBefore(batch)' /\ Spread'
  BY DEF TakenBefore, Spread
<1>6. Len(batch') = 0 /\ Len(sent') = Len(sent) + Len(batch)
  BY <1>2
<1>7. faults' = 0 => Len(sent') + Len(batch') = samples'
  BY <1>1, <1>2, <1>6 DEF TeleInv
<1>8. (sent \o batch)' = sent \o batch
  <2>1. sent' \in Seq(Range(sent'))
    BY <1>2 DEF IsSequence
  <2> QED BY <2>1
<1>9. faults' = 0 => Ordered(sent \o batch)'
  BY <1>1, <1>8 DEF TeleInv, Ordered
<1> QED BY <1>3, <1>4, <1>5, <1>7, <1>9 DEF TeleInv

\* The sink failed and what was in the batch is lost.
LEMMA Lose ==
  ASSUME TeleInv, Fault, batch' = <<>>, UNCHANGED <<clock, sent>>, samples' \in Nat,
         pc' \notin Sampling
  PROVE  TeleInv'
<1>1. faults' \in Nat /\ faults' # 0
  BY DEF TeleInv, TeleType, Fault
<1>2. TeleType'
  BY <1>1, EmptySequence DEF TeleInv, TeleType
<1>3. TakenBefore(sent)' /\ TakenBefore(batch)' /\ Spread'
  BY DEF TeleInv, TakenBefore, Spread
<1> QED BY <1>1, <1>2, <1>3 DEF TeleInv

\* The time passes.
LEMMA Yield ==
  ASSUME TeleInv, Observe
  PROVE  TeleInv'
<1>1. \A o \in Observations : o.step \in Nat \ {0}
  BY EngineAssumption
<1>2. \/ clock' = clock
      \/ \E o \in Observations : clock' = clock + o.step
  BY DEF Observe
<1>3. /\ clock' \in Nat /\ clock <= clock' /\ pc' \in {"leaving", "scheduled"}
      /\ pc' = "scheduled" => clock < clock'
  BY <1>1, <1>2 DEF Observe, TeleInv, TeleType
<1>4. UNCHANGED <<batch, sent, samples, faults>>
  BY DEF Observe, tele
<1>5. TeleType'
  BY <1>3, <1>4 DEF TeleInv, TeleType
<1>6. TakenBefore(sent)' /\ TakenBefore(batch)'
  BY <1>3, <1>4 DEF TeleInv, TeleType, TakenBefore, Sampling
<1>7. faults' = 0 => Len(sent') + Len(batch') = samples' /\ Ordered(sent \o batch)'
  BY <1>4 DEF TeleInv, Ordered
<1> QED BY <1>3, <1>5, <1>6, <1>7 DEF TeleInv, Starting, Sent

\* A sample is taken: it is the latest, and a batch that is due goes out with it.
LEMMA Take ==
  ASSUME TeleInv, FinishSample
  PROVE  TeleInv'
<1> DEFINE full == Append(batch, Sample)
           all  == sent \o full
<1>1. /\ pc = "observed" /\ pc' \in {"leaving", "waiting"}
      /\ UNCHANGED <<clock, faults>> /\ samples' = samples + 1
  BY DEF FinishSample, BufferSample
<1>2. /\ IsSequence(full) /\ full # <<>> /\ Len(batch) \in Nat
      /\ Len(full) = Len(batch) + 1 /\ full[Len(batch) + 1] = Sample
      /\ \A i \in 1..Len(batch) : full[i] = batch[i]
  BY AppendSequence DEF TeleInv, TeleType
<1>3. /\ IsSequence(all) /\ Len(sent) \in Nat /\ Len(all) = Len(sent) + Len(full)
      /\ \A i \in 1..Len(sent) : all[i] = sent[i]
      /\ \A i \in 1..Len(full) : all[Len(sent) + i] = full[i]
  <2>1. IsSequence(sent) /\ IsSequence(full)
    BY <1>2 DEF TeleInv, TeleType
  <2>2. \A r : IsSequence(r) =>
          /\ IsSequence(sent \o r) /\ Len(sent) \in Nat /\ Len(sent \o r) = Len(sent) + Len(r)
          /\ \A i \in 1..Len(sent) : (sent \o r)[i] = sent[i]
          /\ \A i \in 1..Len(r) : (sent \o r)[Len(sent) + i] = r[i]
    BY <2>1, ConcatSequence
  <2> HIDE DEF full
  <2> QED BY <2>1, <2>2
<1>4. Sample.t = clock /\ clock \in Nat
  BY DEF Sample, TeleInv, TeleType
<1>5. \A i \in 1..Len(full) : full[i].t \in Nat /\ full[i].t <= clock
  BY <1>1, <1>2, <1>4 DEF TeleInv, TakenBefore, Sampling
<1>6. \A i \in 1..Len(all) : all[i].t \in Nat /\ all[i].t <= clock
  <2> TAKE i \in 1..Len(all)
  <2>1. CASE i \in 1..Len(sent)
    BY <2>1, <1>3 DEF TeleInv, TakenBefore
  <2>2. CASE i \notin 1..Len(sent)
    <3>1. i - Len(sent) \in 1..Len(full) /\ i = Len(sent) + (i - Len(sent))
      BY <2>2, <1>2, <1>3
    <3> QED BY <3>1, <1>3, <1>5
  <2> QED BY <2>1, <2>2
<1>7. faults = 0 => Ordered(all)
  <2> SUFFICES ASSUME faults = 0, NEW i \in 1..Len(all), NEW j \in 1..Len(all), i < j
               PROVE  all[i].t < all[j].t
    BY DEF Ordered
  <2> DEFINE old == sent \o batch
  <2>1. /\ Len(old) = Len(sent) + Len(batch)
        /\ \A k \in 1..Len(sent) : old[k] = sent[k]
        /\ \A k \in 1..Len(batch) : old[Len(sent) + k] = batch[k]
    BY ConcatSequence DEF TeleInv, TeleType
  <2>2. \A k \in 1..Len(old) : all[k] = old[k] /\ old[k].t < clock
    <3> TAKE k \in 1..Len(old)
    <3>1. CASE k \in 1..Len(sent)
      BY <3>1, <2>1, <1>1, <1>3 DEF TeleInv, TakenBefore, Sampling
    <3>2. CASE k \notin 1..Len(sent)
      <4>1. k - Len(sent) \in 1..Len(batch) /\ k = Len(sent) + (k - Len(sent))
        BY <3>2, <2>1, <1>2, <1>3
      <4>2. k - Len(sent) \in 1..Len(full)
        BY <4>1, <1>2
      <4> QED BY <4>1, <4>2, <2>1, <1>1, <1>2, <1>3 DEF TeleInv, TakenBefore, Sampling
    <3> QED BY <3>1, <3>2
  <2>3. i \in 1..Len(old)
    BY <2>1, <1>2, <1>3
  <2>4. CASE j \in 1..Len(old)
    BY <2>2, <2>3, <2>4 DEF TeleInv, Ordered
  <2>5. CASE j \notin 1..Len(old)
    <3>1. j = Len(sent) + (Len(batch) + 1) /\ Len(batch) + 1 \in 1..Len(full)
      BY <2>5, <2>1, <1>2, <1>3
    <3>2. all[j].t = clock
      BY <3>1, <1>2, <1>3, <1>4
    <3> QED BY <2>2, <2>3, <3>2
  <2> QED BY <2>4, <2>5
<1>8. CASE BatchDue(clock)
  <2>1. sent' = all /\ batch' = <<>>
    BY <1>8 DEF FinishSample, BufferSample
  <2>2. (sent \o batch)' = all /\ Len(batch') = 0
    <3>1. all \in Seq(Range(all))
      BY <1>3 DEF IsSequence
    <3> QED BY <2>1, <3>1
  <2>3. TeleType'
    BY <2>1, <1>1, <1>3, EmptySequence DEF TeleInv, TeleType
  <2> HIDE DEF all
  <2>4. TakenBefore(sent)' /\ TakenBefore(batch)' /\ Spread'
    BY <2>1, <2>2, <1>1, <1>6 DEF TakenBefore, Spread, Sampling
  <2>5. faults' = 0 => Len(sent') + Len(batch') = samples'
    <3>1. Len(sent') = Len(sent) + Len(batch) + 1
      BY <2>1, <1>2, <1>3
    <3> QED BY <2>2, <3>1, <1>1, <1>2, <1>3 DEF TeleInv, TeleType
  <2>6. faults' = 0 => Ordered(sent \o batch)'
    BY <2>2, <1>1, <1>7 DEF Ordered
  <2> QED BY <2>1, <2>3, <2>4, <2>5, <2>6 DEF TeleInv
<1>9. CASE ~BatchDue(clock)
  <2>0. Len(full) < BatchSize
    <3>1. ~(Len(batch) + 1 >= BatchSize) /\ BatchSize \in Nat
      BY <1>9, EngineAssumption DEF BatchDue, Full
    <3> HIDE DEF full
    <3> QED BY <3>1, <1>2
  <2>1. batch' = full /\ sent' = sent
    BY <1>9 DEF FinishSample, BufferSample
  <2>2. TeleType'
    BY <2>1, <1>1, <1>2 DEF TeleInv, TeleType
  <2>3. TakenBefore(sent)' /\ TakenBefore(batch)'
    BY <2>1, <1>1, <1>5 DEF TeleInv, TakenBefore, Sampling
  <2>4. Spread'
    <3>1. CASE batch = <<>>
      <4>1. Len(full) = 1 /\ full[1] = Sample
        BY <3>1, <1>2
      <4>2. 0 < BatchSpan
        BY <3>1, <1>9, EngineAssumption DEF BatchDue, SpanAt
      <4> QED BY <4>1, <4>2, <2>0, <2>1, <1>4 DEF Spread
    <3>2. CASE batch # <<>>
      <4>1. Len(batch) # 0
        BY <3>2 DEF TeleInv, TeleType, IsSequence
      <4>2. full[1] = batch[1] /\ full[Len(full)].t = clock /\ full[1].t \in Nat
        BY <4>1, <1>2, <1>4, <1>5
      <4>3. clock - batch[1].t < BatchSpan
        BY <3>2, <4>2, <1>4, <1>9, EngineAssumption DEF BatchDue, SpanAt
      <4> QED BY <4>2, <4>3, <2>0, <2>1 DEF Spread
    <3> QED BY <3>1, <3>2
  <2>5. faults' = 0 => Len(sent') + Len(batch') = samples'
    <3> HIDE DEF full
    <3> QED BY <2>1, <1>1, <1>2, <1>3 DEF TeleInv, TeleType
  <2>6. faults' = 0 => Ordered(sent \o batch)'
    <3>1. (sent \o batch)' = all
      BY <2>1
    <3> HIDE DEF all
    <3> QED BY <3>1, <1>1, <1>7 DEF Ordered
  <2> QED BY <2>2, <2>3, <2>4, <2>5, <2>6, <1>1 DEF TeleInv, Starting, Sent
<1> QED BY <1>8, <1>9

\* Nothing is sampled, batched or sent when the execution is accepted.
LEMMA TeleInit == Init => TeleInv
<1> SUFFICES ASSUME Init PROVE TeleInv
  OBVIOUS
<1>1. TeleType
  BY EmptySequence DEF Init, TeleType
<1>2. Len(<<>>) = 0 /\ <<>> \o <<>> = <<>>
  OBVIOUS
<1> QED BY <1>1, <1>2 DEF Init, TeleInv, TakenBefore, Ordered, Sent

\* Each step of the engine is one of the five kinds above.
LEMMA TeleNext == TeleInv /\ [Next]_vars => TeleInv'
<1> SUFFICES ASSUME TeleInv, [Next]_vars PROVE TeleInv'
  OBVIOUS
<1> USE DEF Sampling, Starting, Sent
<1>1. CASE Prepare
  BY <1>1, Quiet DEF Prepare, tele
<1>2. CASE Prepared
  BY <1>2, Quiet DEF Prepared, tele
<1>3. CASE PreparationCancelled
  BY <1>3, Quiet DEF PreparationCancelled, mission, tele
<1>4. CASE StartMission
  BY <1>4, Quiet DEF StartMission, mission, tele
<1>5. CASE Inject
  BY <1>5, Quiet DEF Inject, tele
<1>6. CASE ClearDue
  BY <1>6, Quiet DEF ClearDue, tele
<1>7. CASE ProcessObservation
  BY <1>7, Quiet DEF ProcessObservation, tele
<1>8. CASE FinishSample
  BY <1>8, Take
<1>9. CASE Leave
  BY <1>9, Flush DEF Leave, ending
<1>10. CASE Handle
  BY <1>10, Quiet DEF Handle, mission, tele
<1>11. CASE Collect
  <2>1. CASE batch' = <<>> /\ sent' = sent \o batch
    BY <1>11, <2>1, Flush DEF Collect
  <2>2. CASE ~(batch' = <<>> /\ sent' = sent \o batch)
    BY <1>11, <2>2, Lose DEF Collect, TeleInv, TeleType
  <2> QED BY <2>1, <2>2
<1>12. CASE CollectArtifacts
  BY <1>12, Quiet DEF CollectArtifacts, mission, tele
<1>13. CASE Stop
  BY <1>13, Quiet DEF Stop, mission, tele
<1>14. CASE Pop
  BY <1>14, Quiet DEF Pop, mission, tele
<1>15. CASE Finish
  BY <1>15, Quiet DEF Finish, mission, tele
<1>16. CASE Observe
  BY <1>16, Yield
<1>17. CASE TargetFails
  BY <1>17, Quiet DEF TargetFails, tele
<1>18. CASE SinkFails
  <2>1. CASE UNCHANGED <<batch, samples>>
    BY <1>18, <2>1, Quiet DEF SinkFails, tele
  <2>2. CASE batch' = <<>> /\ samples' \in {samples, samples + 1}
    BY <1>18, <2>2, Lose DEF SinkFails, TeleInv, TeleType
  <2> QED BY <1>18, <2>1, <2>2 DEF SinkFails
<1>19. CASE PublishArtifactFails
  BY <1>19, Quiet DEF PublishArtifactFails, mission, tele
<1>20. CASE Cancel
  BY <1>20, Quiet DEF Cancel, mission, tele
<1>21. CASE UNCHANGED vars
  BY <1>21, Quiet DEF vars, mission, tele
<1> QED
  BY <1>1, <1>2, <1>3, <1>4, <1>5, <1>6, <1>7, <1>8, <1>9, <1>10, <1>11, <1>12, <1>13, <1>14,
     <1>15, <1>16, <1>17, <1>18, <1>19, <1>20, <1>21 DEF Next, Step

\* The invariant says all that is claimed of the samples.
LEMMA TeleEnough == TeleInv => TelemetryIsComplete
<1> SUFFICES ASSUME TeleInv PROVE TelemetryIsComplete
  OBVIOUS
<1>1. /\ IsSequence(History) /\ Len(History) \in Nat
      /\ Len(History) = Len(sent) + Len(batch)
  BY ConcatSequence DEF TeleInv, TeleType, History
<1>2. faults = 0 => \A i \in 1..(Len(History) - 1) : History[i].t < History[i + 1].t
  <2> SUFFICES ASSUME faults = 0, NEW i \in 1..(Len(History) - 1)
               PROVE  History[i].t < History[i + 1].t
    OBVIOUS
  <2>1. i \in 1..Len(History) /\ i + 1 \in 1..Len(History) /\ i < i + 1
    BY <1>1
  <2> QED BY <2>1 DEF TeleInv, Ordered, History
<1>3. Last(batch) = batch[Len(batch)]
  BY DEF Last
<1> QED BY <1>1, <1>2, <1>3 DEF TeleInv, Spread, Sent, TelemetryIsComplete

\* For every scenario, adapter, batch span and number of publishes that raise:
\* as long as the sink takes what it is given, every sample the engine took is in
\* the batch or was sent, in the order of time, and no batch is left when the run
\* is collected; and while the engine waits none has waited for a whole span.
THEOREM Telemetry == Spec => []TelemetryIsComplete
<1>1. Spec => []TeleInv
  BY TeleInit, TeleNext, PTL DEF Spec
<1> QED BY <1>1, TeleEnough, PTL

-----------------------------------------------------------------------------
(* The events of a scenario. *)

\* The events of a profile are events.
LEMMA ProfileGivesEvents ==
  ASSUME NEW p, IsProfile(p)
  PROVE  /\ IsSequence(ProfileEvents(p))
         /\ \A e \in Range(ProfileEvents(p)) : IsEvent(e)
<1> DEFINE quiet == {i \in DOMAIN p.effects : p.effects[i].behaviour = "operational"}
           loud  == {i \in DOMAIN p.effects : p.effects[i].behaviour # "operational"}
           operational == ElementsAt(p.effects, quiet)
           hit         == ElementsAt(p.effects, loud)
           expected    == [i \in DOMAIN operational |->
                             [sub |-> operational[i].sub, state |-> "OPERATIONAL", within |-> 1]]
           event(i) ==
             [id |-> hit[i].id, at |-> p.at, sub |-> hit[i].sub, effect |-> hit[i].behaviour,
              duration |-> IF hit[i].behaviour \in TRANSIENT_EFFECTS THEN None ELSE p.duration,
              expect |-> IF i = 1 THEN expected ELSE <<>>]
<1>1. IsSequence(p.effects) /\ quiet \in SUBSET DOMAIN p.effects /\ loud \in SUBSET DOMAIN p.effects
  BY DEF IsProfile, IsSequence
<1> HIDE DEF quiet, loud
<1>2. IsSequence(operational) /\ IsSequence(hit) /\ Range(hit) \subseteq Range(p.effects)
  <2>1. IsSequence(operational)
    BY <1>1, Selection
  <2>2. IsSequence(hit) /\ Range(hit) = {p.effects[k] : k \in loud}
    BY <1>1, Selection
  <2> QED BY <1>1, <2>1, <2>2 DEF Range
<1> HIDE DEF operational, hit
<1>3. ProfileEvents(p) = [i \in DOMAIN hit |-> event(i)]
  BY DEF ProfileEvents, operational, hit, quiet, loud
<1>4. IsSequence(expected) /\ \A x \in Range(expected) : x.within = 1
  <2>1. PICK n \in Nat : DOMAIN operational = 1..n
    BY <1>2 DEF IsSequence
  <2>2. expected \in [1..n -> Range(expected)]
    BY <2>1 DEF Range
  <2>3. \A x \in Range(expected) : x.within = 1
    BY DEF Range
  <2> HIDE DEF expected
  <2> QED BY <2>2, <2>3 DEF IsSequence
<1>5. ASSUME NEW i \in DOMAIN hit PROVE IsEvent(event(i))
  <2>1. p.at \in Nat /\ p.duration \in Nat /\ hit[i].id \in Nat
    BY <1>2 DEF IsProfile, Range
  <2>2. PICK expect : expect = event(i).expect
    OBVIOUS
  <2>3. expect \in Seq(Range(expect)) /\ \A x \in Range(expect) : x.within \in Nat
    BY <1>4, <2>2, EmptySequence DEF IsSequence, Range
  <2> HIDE DEF expected
  <2>4. event(i).expect \in Seq(Range(event(i).expect))
    BY <2>2, <2>3
  <2> QED BY <2>1, <2>2, <2>3, <2>4 DEF IsEvent
<1>6. IsSequence([i \in DOMAIN hit |-> event(i)])
  <2>1. PICK n \in Nat : DOMAIN hit = 1..n
    BY <1>2 DEF IsSequence
  <2> DEFINE q == [i \in DOMAIN hit |-> event(i)]
  <2>2. q \in [1..n -> Range(q)]
    BY <2>1 DEF Range
  <2> HIDE DEF q
  <2>3. IsSequence(q)
    BY <2>1, <2>2 DEF IsSequence
  <2> QED BY <2>3 DEF q
<1> HIDE DEF event
<1> QED BY <1>3, <1>5, <1>6 DEF Range

\* A scenario lists events.
LEMMA ListsEvents ==
  ASSUME NEW s \in Scenarios
  PROVE  IsSequence(AllEvents(s)) /\ \A e \in Range(AllEvents(s)) : IsEvent(e)
<1>1. IsSequence(s.events) /\ (\A e \in Range(s.events) : IsEvent(e))
      /\ (s.profile = None \/ IsProfile(s.profile))
  BY EngineAssumption DEF IsSequence
<1> DEFINE more == IF s.profile = None THEN <<>> ELSE ProfileEvents(s.profile)
<1>2. IsSequence(more) /\ \A e \in Range(more) : IsEvent(e)
  BY <1>1, ProfileGivesEvents, EmptySequence DEF Range
<1>3. AllEvents(s) = s.events \o more
  BY DEF AllEvents
<1> HIDE DEF more
<1>4. IsSequence(s.events \o more) /\ Range(s.events \o more) = Range(s.events) \cup Range(more)
  BY <1>1, <1>2, ConcatSequence, ConcatRange
<1> QED BY <1>1, <1>2, <1>3, <1>4

\* The event of an id.
LEMMA EventInIs ==
  ASSUME NEW s \in Scenarios, DistinctIds(s), NEW e \in Range(AllEvents(s))
  PROVE  EventIn(s, e.id) = e
<1> DEFINE E == AllEvents(s)
<1>1. \A f \in Range(E) : f.id = e.id => f = e
  BY DEF DistinctIds, Range
<1> HIDE DEF E
<1>2. \E f \in Range(E) : f.id = e.id
  BY DEF E
<1>3. EventIn(s, e.id) \in Range(E) /\ EventIn(s, e.id).id = e.id
  BY <1>2 DEF EventIn, E
<1> QED BY <1>1, <1>3

\* No two of some records have the same id.
Apart(q) == \A i, j \in DOMAIN q : q[i].id = q[j].id => i = j

\* Expansion puts the events in another order, and does nothing else to them.
LEMMA Expanded ==
  ASSUME NEW s \in Scenarios
  PROVE  /\ IsSequence(expandedEvents(s))
         /\ Range(expandedEvents(s)) = Range(AllEvents(s))
         /\ DistinctIds(s) => Apart(expandedEvents(s))
<1> DEFINE E == AllEvents(s)
           before == Earlier(E)
           q == Arranged(E, before)
<1>1. IsSequence(E) /\ \A i \in DOMAIN E : E[i].id \in Nat /\ E[i].at \in Nat
  BY ListsEvents DEF IsEvent, Range
<1>2. /\ DOMAIN E \subseteq Nat
      /\ \A i, j \in DOMAIN E :
           <<i, j>> \in before <=> \/ E[i].at < E[j].at
                                   \/ E[i].at = E[j].at /\ E[i].id < E[j].id
                                   \/ E[i].at = E[j].at /\ E[i].id = E[j].id /\ i < j
  <2>1. DOMAIN E \subseteq Nat
    BY <1>1 DEF IsSequence
  <2> SUFFICES ASSUME NEW i \in DOMAIN E, NEW j \in DOMAIN E
               PROVE  <<i, j>> \in before <=> \/ E[i].at < E[j].at
                                              \/ E[i].at = E[j].at /\ E[i].id < E[j].id
                                              \/ E[i].at = E[j].at /\ E[i].id = E[j].id /\ i < j
    BY <2>1
  <2> HIDE DEF E
  <2>2. PICK p \in (DOMAIN E) \X (DOMAIN E) : p = <<i, j>> /\ p[1] = i /\ p[2] = j
    <3>1. <<i, j>> \in (DOMAIN E) \X (DOMAIN E) /\ <<i, j>>[1] = i /\ <<i, j>>[2] = j
      OBVIOUS
    <3> WITNESS <<i, j>> \in (DOMAIN E) \X (DOMAIN E)
    <3> QED BY <3>1
  <2>3. \A r : r \in Earlier(E) <=>
           /\ r \in (DOMAIN E) \X (DOMAIN E)
           /\ \/ E[r[1]].at < E[r[2]].at
              \/ E[r[1]].at = E[r[2]].at /\ E[r[1]].id < E[r[2]].id
              \/ E[r[1]].at = E[r[2]].at /\ E[r[1]].id = E[r[2]].id /\ r[1] < r[2]
    BY Zenon DEF Earlier
  <2> QED BY <2>2, <2>3, Zenon
<1>3. DistinctIds(s) => \A i, j \in DOMAIN E : E[i].id = E[j].id => i = j
  BY DEF DistinctIds
<1> HIDE DEF E, before
<1>4. \A i \in DOMAIN E : <<i, i>> \notin before
  BY <1>1, <1>2
<1>5. \A i, j, k \in DOMAIN E : <<i, j>> \in before /\ <<j, k>> \in before => <<i, k>> \in before
  <2> TAKE i, j, k \in DOMAIN E
  <2>1. /\ {E[i].at, E[j].at, E[k].at, E[i].id, E[j].id, E[k].id} \subseteq Nat
        /\ {i, j, k} \subseteq Nat
    BY <1>1, <1>2
  <2> QED BY <2>1, <1>2
<1>6. \A i, j \in DOMAIN E : i # j => <<i, j>> \in before \/ <<j, i>> \in before
  <2> TAKE i, j \in DOMAIN E
  <2>1. {E[i].at, E[j].at, E[i].id, E[j].id, i, j} \subseteq Nat
    BY <1>1, <1>2
  <2> SUFFICES ASSUME i # j PROVE <<i, j>> \in before \/ <<j, i>> \in before
    OBVIOUS
  <2>4. E[i].at < E[j].at \/ E[j].at < E[i].at \/ E[i].at = E[j].at
    BY <2>1
  <2>5. E[i].id < E[j].id \/ E[j].id < E[i].id \/ E[i].id = E[j].id
    BY <2>1
  <2>6. i < j \/ j < i
    BY <2>1
  <2> QED BY <2>4, <2>5, <2>6, <1>2, Zenon
<1>7. /\ IsSequence(q) /\ Range(q) = Range(E)
      /\ \A i, j \in DOMAIN q : i # j => \E k, l \in DOMAIN E : k # l /\ q[i] = E[k] /\ q[j] = E[l]
  BY <1>1, <1>4, <1>5, <1>6, Arrangement
<1>8. expandedEvents(s) = q
  BY DEF expandedEvents, E, before
<1> HIDE DEF q
<1>9. DistinctIds(s) => Apart(q)
  BY <1>3, <1>7 DEF Apart
<1> QED BY <1>7, <1>8, <1>9 DEF E

-----------------------------------------------------------------------------
(* Injections and what becomes of them. *)

Known == Range(AllEvents(scenario))

Applied(id) == \E i \in Entries("applied") : log[i].id = id

HasCleared(id) == \E j \in Entries("cleared") : log[j].id = id

Bounded(e) == e.duration # None

\* When the injection of a note is to be cleared, if it is bounded.
EndOf(i) == log[i].t + EventOf(log[i].id).duration

Mission == InTry \cup {"accepted"}

MissionInv ==
  /\ scenario \in Scenarios /\ DistinctIds(scenario)
  /\ clock \in Nat /\ IsSequence(log)
  /\ pc = "raised" => exc # None
  /\ pc \in Mission => exc = None

\* What is pending was not injected yet.
PendingInv ==
  /\ IsSequence(pending) /\ Range(pending) \subseteq Known
  /\ \A i, j \in DOMAIN pending : pending[i].id = pending[j].id => i = j
  /\ \A i \in DOMAIN pending : ~Applied(pending[i].id)

\* Each event is injected once.
AppliedInv ==
  /\ \A i, j \in Entries("applied") : log[i].id = log[j].id => i = j
  /\ \A i \in Entries("applied") :
       /\ log[i].t \in Nat /\ log[i].t <= clock
       /\ \E e \in Known : e.id = log[i].id
  /\ pc \in Starting => Entries("applied") = {} /\ clears = {}

\* What is active was applied and not cleared, and of the persistent ones all that was.
ActiveInv ==
  /\ IsSequence(active)
  /\ \A i, j \in DOMAIN active : active[i].id = active[j].id => i = j
  /\ \A r \in Range(active) : Applied(r.id) /\ ~HasCleared(r.id) /\ r = Request(EventOf(r.id))
  /\ \A i \in Entries("applied") :
       Persistent(Request(EventOf(log[i].id))) /\ ~HasCleared(log[i].id) => IsActive(log[i].id)

\* What was cleared, and why.
ClearedInv ==
  /\ \A j, k \in Entries("cleared") : log[j].id = log[k].id => j = k
  /\ \A j \in Entries("cleared") : Applied(log[j].id)
  /\ \A i \in Entries("applied"), j \in Entries("cleared") :
       log[i].id = log[j].id =>
         IF Bounded(EventOf(log[i].id))
         THEN /\ log[j].t \in Nat /\ log[j].t <= clock /\ log[j].t >= EndOf(i)
              /\ \A h \in Range(History) : h.t < log[j].t => h.t < EndOf(i)
         ELSE log[j].reason = "scenario_end" /\ pc \notin Mission

\* What is to be cleared: while the mission goes on, every bounded injection that
\* was not; and between two samples no time is over.
ClearsInv ==
  /\ \A c \in clears :
       /\ \E i \in Entries("applied") :
            Bounded(EventOf(log[i].id)) /\ c = [at |-> EndOf(i), id |-> log[i].id]
       /\ \A h \in Range(History) : h.t < c.at
  /\ pc \in Mission =>
       \A i \in Entries("applied") :
         Bounded(EventOf(log[i].id)) /\ ~HasCleared(log[i].id) =>
           [at |-> EndOf(i), id |-> log[i].id] \in clears
  /\ pc \in {"observed", "waiting"} \/ (pc = "leaving" /\ ~token) => \A c \in clears : clock < c.at
  /\ pc = "final" /\ exc = None /\ ~token =>
       \A i \in Entries("applied") :
         Bounded(EventOf(log[i].id)) /\ ~HasCleared(log[i].id) => clock < EndOf(i)

\* What is in the target, as long as no call of it has failed.
TargetInv ==
  pc \in Mission \cup {"final"} /\ exc = None =>
    /\ \A id \in target : Applied(id)
    /\ \A i \in Entries("applied") :
         log[i].id \in target <=>
           ~HasCleared(log[i].id) /\ Persistent(Request(EventOf(log[i].id)))
    /\ pc = "final" =>
         \A i \in Entries("applied") :
           ClearedAtEnd(Request(EventOf(log[i].id))) => HasCleared(log[i].id)

\* What is expected is a list, and what is in hand an observation.
ListInv ==
  /\ IsSequence(expectations)
  /\ pc = "scheduled" => obs \in Observations

SchedInv ==
  MissionInv /\ PendingInv /\ AppliedInv /\ ActiveInv /\ ClearedInv /\ ClearsInv /\ TargetInv

-----------------------------------------------------------------------------
(* The log grows. *)

\* A step notes nothing more of a kind.
Same(kind) == Entries(kind)' = Entries(kind) /\ \A i \in Entries(kind) : log'[i] = log[i]

\* Where the entries are after more was said.
LEMMA LogGrows ==
  ASSUME IsSequence(log), NEW more, IsSequence(more), log' = log \o more
  PROVE  /\ IsSequence(log') /\ Len(log) \in Nat
         /\ \A i \in DOMAIN log : i \in DOMAIN log' /\ log'[i] = log[i]
         /\ \A k \in DOMAIN more :
              /\ Len(log) + k \in DOMAIN log' /\ log'[Len(log) + k] = more[k]
              /\ Len(log) + k \notin DOMAIN log
         /\ \A i \in DOMAIN log' : i \in DOMAIN log \/ \E k \in DOMAIN more : i = Len(log) + k
<1> DEFINE q == log \o more
<1>1. /\ DOMAIN log = 1..Len(log) /\ DOMAIN more = 1..Len(more) /\ DOMAIN q = 1..Len(q)
      /\ IsSequence(q) /\ Len(log) \in Nat /\ Len(more) \in Nat /\ Len(q) = Len(log) + Len(more)
      /\ \A i \in 1..Len(log) : q[i] = log[i]
      /\ \A i \in 1..Len(more) : q[Len(log) + i] = more[i]
  BY ConcatSequence DEF IsSequence
<1> HIDE DEF q
<1>2. \A i \in 1..Len(log) : i \in 1..Len(q)
  BY <1>1
<1>3. \A i \in 1..Len(more) : Len(log) + i \in 1..Len(q) /\ Len(log) + i \notin 1..Len(log)
  BY <1>1
<1>4. ASSUME NEW i \in 1..Len(q), i \notin 1..Len(log) PROVE \E k \in 1..Len(more) : i = Len(log) + k
  <2>1. i - Len(log) \in 1..Len(more) /\ i = Len(log) + (i - Len(log))
    BY <1>1, <1>4
  <2> QED BY <2>1
<1>5. log' = q
  BY DEF q
<1> QED BY <1>1, <1>2, <1>3, <1>4, <1>5

\* A kind that is not among what was said.
LEMMA Unnoted ==
  ASSUME IsSequence(log), NEW more, IsSequence(more), log' = log \o more,
         NEW kind, \A k \in DOMAIN more : more[k].kind # kind
  PROVE  Same(kind)
<1>1. \A i \in DOMAIN log : i \in DOMAIN log' /\ log'[i] = log[i]
  BY LogGrows
<1>2. \A k \in DOMAIN more : log'[Len(log) + k] = more[k]
  BY LogGrows
<1>3. \A i \in DOMAIN log' : i \in DOMAIN log \/ \E k \in DOMAIN more : i = Len(log) + k
  BY LogGrows
<1> QED BY <1>1, <1>2, <1>3 DEF Same, Entries

\* What is applied and what is cleared are the same if nothing more is noted of either.
LEMMA SameNotes ==
  ASSUME Same("applied"), Same("cleared")
  PROVE  \A id : Applied(id)' = Applied(id) /\ HasCleared(id)' = HasCleared(id)
BY DEF Same, Applied, HasCleared

\* A step that changes nothing of the dictionary of active requests and notes nothing
\* of them.
LEMMA StillActive ==
  ASSUME ActiveInv, UNCHANGED <<scenario, active>>, Same("applied"), Same("cleared")
  PROVE  ActiveInv'
<1>1. \A id : Applied(id)' = Applied(id) /\ HasCleared(id)' = HasCleared(id)
  BY SameNotes
<1>2. \A id : EventOf(id)' = EventOf(id) /\ IsActive(id)' = IsActive(id)
  BY DEF EventOf, IsActive
<1>3. \A i \in Entries("applied") : log'[i] = log[i] /\ i \in Entries("applied")'
  BY DEF Same
<1>4. Entries("applied")' = Entries("applied")
  BY DEF Same
<1> QED BY <1>1, <1>2, <1>3, <1>4 DEF ActiveInv

\* A step that leaves what is pending.
LEMMA StillPending ==
  ASSUME PendingInv, UNCHANGED <<scenario, pending>>, Same("applied"), Same("cleared")
  PROVE  PendingInv'
<1>1. \A id : Applied(id)' = Applied(id)
  BY SameNotes
<1> QED BY <1>1 DEF PendingInv, Known

\* A step that injects and clears nothing.
LEMMA Calm ==
  ASSUME SchedInv, UNCHANGED <<scenario, clears>>, PendingInv', ActiveInv',
         IsSequence(log'), Same("applied"), Same("cleared"),
         clock' \in Nat, clock <= clock',
         \A h \in Range(History') :
           h \in Range(History) \/ (h.t = clock' /\ \A c \in clears : clock' < c.at),
         pc' \in Mission => pc \in Mission,
         pc' \in Starting => pc \in Starting,
         pc' = "raised" => exc' # None,
         pc' \in Mission => exc' = None,
         pc' \in {"observed", "waiting"} \/ (pc' = "leaving" /\ ~token') =>
           \A c \in clears : clock' < c.at,
         pc' = "final" /\ exc' = None => pc = "final" /\ clock' = clock /\ (token => token'),
         pc' \in Mission \cup {"final"} /\ exc' = None =>
           pc \in Mission \cup {"final"} /\ exc = None /\ target' = target
  PROVE  SchedInv'
<1>1. \A id : Applied(id)' = Applied(id) /\ HasCleared(id)' = HasCleared(id)
  BY SameNotes
<1>2. \A id : EventOf(id)' = EventOf(id)
  BY DEF EventOf
<1>3. /\ Entries("applied")' = Entries("applied") /\ Entries("cleared")' = Entries("cleared")
      /\ \A i \in Entries("applied") : log'[i] = log[i]
      /\ \A i \in Entries("cleared") : log'[i] = log[i]
  BY DEF Same
<1>4. \A i \in Entries("applied") : EndOf(i)' = EndOf(i)
  BY <1>2, <1>3 DEF EndOf
<1>5. MissionInv'
  BY DEF SchedInv, MissionInv
<1>6. AppliedInv'
  <2>1. \A i, j \in Entries("applied") : log[i].id = log[j].id => i = j
    BY DEF SchedInv, AppliedInv
  <2>2. \A i \in Entries("applied") : log[i].t \in Nat /\ log[i].t <= clock /\ \E e \in Known : e.id = log[i].id
    BY DEF SchedInv, AppliedInv
  <2>3. Known' = Known
    BY DEF Known
  <2>4. \A i \in Entries("applied") : log[i].t <= clock'
    BY <2>2 DEF SchedInv, MissionInv
  <2>5. pc' \in Starting => Entries("applied") = {} /\ clears' = {}
    BY DEF SchedInv, AppliedInv
  <2> QED BY <1>3, <2>1, <2>2, <2>3, <2>4, <2>5 DEF AppliedInv
<1>7. ClearedInv'
  <2>1. \A j \in Entries("cleared") : \E i \in Entries("applied") : log'[i].id = log'[j].id
    BY <1>3 DEF SchedInv, ClearedInv, Applied
  <2>2. ASSUME NEW i \in Entries("applied"), NEW j \in Entries("cleared"), log[i].id = log[j].id,
               Bounded(EventOf(log[i].id))
        PROVE  /\ log[j].t \in Nat /\ log[j].t <= clock' /\ log[j].t >= EndOf(i)
               /\ \A h \in Range(History') : h.t < log[j].t => h.t < EndOf(i)
    <3>1. /\ log[j].t \in Nat /\ log[j].t <= clock /\ log[j].t >= EndOf(i)
          /\ \A h \in Range(History) : h.t < log[j].t => h.t < EndOf(i)
      BY <2>2 DEF SchedInv, ClearedInv
    <3>2. log[j].t <= clock'
      BY <3>1 DEF SchedInv, MissionInv
    <3>3. ASSUME NEW h \in Range(History'), h.t < log[j].t PROVE h.t < EndOf(i)
      <4>1. h.t # clock'
        BY <3>1, <3>2, <3>3
      <4> QED BY <4>1, <3>1, <3>3
    <3> QED BY <3>1, <3>2, <3>3
  <2>3. \A i \in Entries("applied"), j \in Entries("cleared") :
          log[i].id = log[j].id /\ ~Bounded(EventOf(log[i].id)) =>
            log[j].reason = "scenario_end" /\ pc' \notin Mission
    BY DEF SchedInv, ClearedInv
  <2>4. \A j, k \in Entries("cleared") : log[j].id = log[k].id => j = k
    BY DEF SchedInv, ClearedInv
  <2> DEFINE gone(i, j) ==
               IF Bounded(EventOf(log[i].id))
               THEN /\ log[j].t \in Nat /\ log[j].t <= clock /\ log[j].t >= EndOf(i)
                    /\ \A h \in Range(History) : h.t < log[j].t => h.t < EndOf(i)
               ELSE log[j].reason = "scenario_end" /\ pc \notin Mission
  <2>5. \A i \in Entries("applied")', j \in Entries("cleared")' : log'[i].id = log'[j].id => gone(i, j)'
    BY <1>2, <1>3, <1>4, <2>2, <2>3
  <2>6. \A j \in Entries("cleared")' : (\E i \in Entries("applied") : log[i].id = log[j].id)'
    BY <1>3, <2>1
  <2>7. \A j, k \in Entries("cleared")' : log'[j].id = log'[k].id => j = k
    BY <1>3, <2>4
  <2> QED BY <2>5, <2>6, <2>7 DEF ClearedInv, Applied
<1>8. ClearsInv'
  <2>1. ASSUME NEW c \in clears
        PROVE  /\ \E i \in Entries("applied") :
                    Bounded(EventOf(log[i].id)) /\ c = [at |-> EndOf(i), id |-> log[i].id]
               /\ \A h \in Range(History') : h.t < c.at
    BY DEF SchedInv, ClearsInv
  <2>2. pc' \in Mission =>
          \A i \in Entries("applied") :
            Bounded(EventOf(log[i].id)) /\ ~HasCleared(log[i].id) =>
              [at |-> EndOf(i), id |-> log[i].id] \in clears
    BY DEF SchedInv, ClearsInv
  <2>3. pc' = "final" /\ exc' = None /\ ~token' =>
          \A i \in Entries("applied") :
            Bounded(EventOf(log[i].id)) /\ ~HasCleared(log[i].id) => clock' < EndOf(i)
    <3> SUFFICES ASSUME pc' = "final", exc' = None, ~token'
                 PROVE  \A i \in Entries("applied") :
                          Bounded(EventOf(log[i].id)) /\ ~HasCleared(log[i].id) => clock' < EndOf(i)
      OBVIOUS
    <3>1. pc = "final" /\ exc = None /\ ~token /\ clock' = clock
      OBVIOUS
    <3> QED BY <3>1 DEF SchedInv, ClearsInv
  <2> QED BY <1>1, <1>2, <1>3, <1>4, <2>1, <2>2, <2>3 DEF ClearsInv
<1>9. TargetInv'
  <2> SUFFICES ASSUME pc' \in Mission \cup {"final"}, exc' = None PROVE TargetInv'
    BY DEF TargetInv, Mission, InTry
  <2>1. /\ \A id \in target' : Applied(id)
        /\ \A i \in Entries("applied") :
             log[i].id \in target' <=> ~HasCleared(log[i].id) /\ Persistent(Request(EventOf(log[i].id)))
    BY DEF SchedInv, TargetInv
  <2>2. pc' = "final" =>
          \A i \in Entries("applied") :
            ClearedAtEnd(Request(EventOf(log[i].id))) => HasCleared(log[i].id)
    BY DEF SchedInv, TargetInv
  <2> QED BY <1>1, <1>2, <1>3, <2>1, <2>2 DEF TargetInv
<1> QED BY <1>5, <1>6, <1>7, <1>8, <1>9 DEF SchedInv

\* A step that says nothing of injections, and leaves the dictionaries.
LEMMA Saying ==
  ASSUME SchedInv, UNCHANGED <<scenario, pending, active>>,
         NEW more, IsSequence(more), log' = log \o more,
         \A k \in DOMAIN more : more[k].kind \notin {"applied", "cleared"}
  PROVE  IsSequence(log') /\ Same("applied") /\ Same("cleared") /\ PendingInv' /\ ActiveInv'
<1>1. IsSequence(log)
  BY DEF SchedInv, MissionInv
<1>2. IsSequence(log') /\ Same("applied") /\ Same("cleared")
  BY <1>1, LogGrows, Unnoted
<1> QED BY <1>2, StillActive, StillPending DEF SchedInv

\* Nor does one that says nothing at all.
LEMMA Silent ==
  ASSUME SchedInv, UNCHANGED <<scenario, pending, active, log>>
  PROVE  IsSequence(log') /\ Same("applied") /\ Same("cleared") /\ PendingInv' /\ ActiveInv'
<1>1. IsSequence(log') /\ Same("applied") /\ Same("cleared")
  BY DEF SchedInv, MissionInv, Same, Entries
<1> QED BY <1>1, StillActive, StillPending DEF SchedInv

\* A single entry.
LEMMA OneEntry ==
  ASSUME NEW e
  PROVE  IsSequence(<<e>>) /\ DOMAIN <<e>> = {1} /\ \A k \in DOMAIN <<e>> : <<e>>[k] = e
BY DEF IsSequence, Range

\* It holds when the execution is accepted: nothing is pending, active or noted.
LEMMA SchedInit ==
  ASSUME Init, \A s \in Scenarios : DistinctIds(s)
  PROVE  SchedInv
<1>1. Entries("applied") = {} /\ Entries("cleared") = {}
  BY DEF Init, Entries
<1>2. DOMAIN pending = {} /\ DOMAIN active = {} /\ Range(pending) = {} /\ Range(active) = {}
  BY DEF Init, Range
<1>3. MissionInv
  BY EmptySequence DEF Init, MissionInv
<1>4. PendingInv
  BY <1>1, <1>2, EmptySequence DEF Init, PendingInv
<1>5. AppliedInv
  BY <1>1 DEF Init, AppliedInv
<1>6. ActiveInv
  BY <1>1, <1>2, EmptySequence DEF Init, ActiveInv
<1>7. ClearedInv
  BY <1>1 DEF ClearedInv
<1>8. ClearsInv
  BY <1>1 DEF Init, ClearsInv
<1>9. TargetInv
  BY <1>1 DEF Init, TargetInv
<1> QED BY <1>3, <1>4, <1>5, <1>6, <1>7, <1>8, <1>9 DEF SchedInv

\* PREPARING: what is pending is what the scenario expands to.
LEMMA SchedPrepare ==
  ASSUME SchedInv, Prepare
  PROVE  SchedInv'
<1> DEFINE entry == Lifecycle("PREPARING")
<1>1. log' = log \o <<entry>> /\ UNCHANGED <<scenario, active, clears, clock, target, sent, batch>>
  BY DEF Prepare, Say, tele
<1>2. IsSequence(<<entry>>) /\ \A k \in DOMAIN <<entry>> : <<entry>>[k].kind \notin {"applied", "cleared"}
  BY OneEntry DEF Lifecycle
<1>3. IsSequence(log') /\ Same("applied") /\ Same("cleared")
  <2>1. IsSequence(log)
    BY DEF SchedInv, MissionInv
  <2> HIDE DEF entry
  <2> QED BY <2>1, <1>1, <1>2, LogGrows, Unnoted
<1>4. ActiveInv'
  BY <1>1, <1>3, StillActive DEF SchedInv
<1>5. pc = "accepted" /\ exc = None /\ pc' \in {"preparing", "raised"}
      /\ (pc' = "raised" => exc' # None) /\ (pc' = "preparing" => exc' = None)
  BY EngineAssumption DEF Prepare, SchedInv, MissionInv, Mission
<1>6. Entries("applied") = {} /\ clears = {}
  BY <1>5 DEF SchedInv, AppliedInv, Starting
<1>7. PendingInv'
  <2>1. scenario \in Scenarios /\ DistinctIds(scenario) /\ scenario' = scenario
    BY <1>1 DEF SchedInv, MissionInv
  <2>2. pending' = expandedEvents(scenario)
    BY DEF Prepare
  <2>3. /\ IsSequence(pending') /\ Range(pending') = Known'
        /\ \A i, j \in DOMAIN pending' : pending'[i].id = pending'[j].id => i = j
    BY <2>1, <2>2, Expanded DEF Known, Apart
  <2>4. \A id : ~Applied(id)'
    BY <1>3, <1>6 DEF Applied, Same
  <2> QED BY <2>3, <2>4 DEF PendingInv
<1>8. clock' \in Nat /\ clock <= clock' /\ History' = History
  BY <1>1 DEF SchedInv, MissionInv, History
<1> QED BY <1>1, <1>3, <1>4, <1>5, <1>6, <1>7, <1>8, Calm DEF Mission, InTry, Starting

\* The steps that have nothing to do with injections.
LEMMA SchedMove ==
  ASSUME SchedInv,
         Prepared \/ PreparationCancelled \/ StartMission \/ TargetFails \/ Handle
           \/ CollectArtifacts \/ Stop \/ Pop \/ PublishArtifactFails \/ Finish \/ Cancel
           \/ UNCHANGED vars
  PROVE  SchedInv'
<1>1. UNCHANGED <<scenario, pending, active, clears, clock, sent, batch>>
  BY DEF Prepared, PreparationCancelled, StartMission, TargetFails, Handle, CollectArtifacts,
         Stop, Pop, PublishArtifactFails, Finish, Cancel, vars, mission, sched, tele
<1>2. clock' \in Nat /\ clock <= clock' /\ History' = History
  BY <1>1 DEF SchedInv, MissionInv, History
<1>3. IsSequence(log') /\ Same("applied") /\ Same("cleared") /\ PendingInv' /\ ActiveInv'
  <2>1. CASE log' = log
    BY <2>1, <1>1, Silent
  <2>2. CASE log' # log
    <3>1. \E entry : log' = log \o <<entry>> /\ entry.kind \notin {"applied", "cleared"}
      <4>1. Lifecycle("RUNNING").kind = "lifecycle" /\ Marked("finished").kind = "finished"
        BY DEF Lifecycle, Marked
      <4>2. log' = log \o <<Lifecycle("RUNNING")>> \/ log' = log \o <<Marked("finished")>>
        BY <2>2 DEF Prepared, PreparationCancelled, StartMission, TargetFails, Handle,
             CollectArtifacts, Stop, Pop, PublishArtifactFails, Finish, Cancel, vars, Say
      <4> QED BY <4>1, <4>2
    <3>2. PICK entry : log' = log \o <<entry>> /\ entry.kind \notin {"applied", "cleared"}
      BY <3>1
    <3>3. IsSequence(<<entry>>) /\ \A k \in DOMAIN <<entry>> : <<entry>>[k].kind \notin {"applied", "cleared"}
      BY <3>2, OneEntry
    <3> QED BY <3>2, <3>3, <1>1, Saying
  <2> QED BY <2>1, <2>2
<1>4. pc = "prepared" => clears = {}
  BY DEF SchedInv, AppliedInv, Starting
<1>5. pc \in {"observed", "waiting"} \/ (pc = "leaving" /\ ~token) => \A c \in clears : clock < c.at
  BY DEF SchedInv, ClearsInv
<1>6. (pc = "raised" => exc # None) /\ (pc \in Mission => exc = None)
  BY DEF SchedInv, MissionInv
<1>7. None # "target" /\ None # "cancelled"
  BY EngineAssumption
<1> USE DEF Mission, InTry, Starting
<1>8. CASE Prepared
  BY <1>8, <1>1, <1>2, <1>3, <1>6, Calm DEF Prepared, sched, ending
<1>9. CASE PreparationCancelled
  BY <1>9, <1>1, <1>2, <1>3, <1>6, <1>7, Calm DEF PreparationCancelled
<1>10. CASE StartMission
  BY <1>10, <1>1, <1>2, <1>3, <1>4, <1>6, Calm DEF StartMission, mission, sched, ending
<1>11. CASE TargetFails
  BY <1>11, <1>1, <1>2, <1>3, <1>6, <1>7, Calm DEF TargetFails
<1>12. CASE Handle
  BY <1>12, <1>1, <1>2, <1>3, <1>6, Calm DEF Handle
<1>13. CASE CollectArtifacts \/ Stop \/ Pop \/ PublishArtifactFails \/ Finish
  BY <1>13, <1>1, <1>2, <1>3, <1>6, Calm
     DEF CollectArtifacts, Stop, Pop, PublishArtifactFails, Finish, mission, sched, ending
<1>14. CASE Cancel
  BY <1>14, <1>1, <1>2, <1>3, <1>5, <1>6, Calm DEF Cancel, mission, sched, ending
<1>15. CASE UNCHANGED vars
  BY <1>15, <1>1, <1>2, <1>3, <1>5, <1>6, Calm DEF vars, mission, sched, ending
<1> QED BY <1>8, <1>9, <1>10, <1>11, <1>12, <1>13, <1>14, <1>15

\* The adapter yields: the time goes on.
LEMMA SchedObserve ==
  ASSUME SchedInv, Observe
  PROVE  SchedInv'
<1>1. UNCHANGED <<scenario, pending, active, clears, target, sent, batch, log, exc, token>>
  BY DEF Observe, sched, tele
<1>2. \/ clock' = clock
      \/ \E o \in Observations : clock' = clock + o.step
  BY DEF Observe
<1>3. clock' \in Nat /\ clock <= clock'
  <2>1. clock \in Nat /\ \A o \in Observations : o.step \in Nat
    BY EngineAssumption DEF SchedInv, MissionInv
  <2> QED BY <2>1, <1>2
<1>4. /\ pc = "waiting"
      /\ pc' = "scheduled" \/ (pc' = "leaving" /\ (token \/ clock' = clock))
  BY DEF Observe
<1>5. IsSequence(log') /\ Same("applied") /\ Same("cleared") /\ PendingInv' /\ ActiveInv'
  BY <1>1, Silent
<1>6. History' = History /\ exc = None
  BY <1>1, <1>4 DEF SchedInv, MissionInv, Mission, InTry, History
<1>7. pc' = "leaving" /\ ~token => \A c \in clears : clock' < c.at
  BY <1>4 DEF SchedInv, ClearsInv
<1> QED BY <1>1, <1>3, <1>4, <1>5, <1>6, <1>7, Calm DEF Mission, InTry, Starting

\* A publish raises inside the mission.
LEMMA SchedSinkFails ==
  ASSUME SchedInv, TeleInv, SinkFails
  PROVE  SchedInv'
<1>1. /\ UNCHANGED <<scenario, pending, active, clears, sent, clock, log>>
      /\ pc' = "raised" /\ exc' = "sink"
      /\ batch' = batch \/ batch' = <<>>
  BY DEF SinkFails
<1>2. IsSequence(log') /\ Same("applied") /\ Same("cleared") /\ PendingInv' /\ ActiveInv'
  BY <1>1, Silent
<1>3. Range(History') \subseteq Range(History)
  <2>1. IsSequence(sent) /\ IsSequence(batch)
    BY DEF TeleInv, TeleType
  <2>2. Range(History) = Range(sent) \cup Range(batch)
    BY <2>1, ConcatRange DEF History
  <2>3. CASE batch' = batch
    BY <2>3, <1>1 DEF History
  <2>4. CASE batch' = <<>>
    <3>1. History' = sent \o <<>> /\ sent \o <<>> = sent
      BY <2>1, <2>4, <1>1 DEF History, IsSequence
    <3> QED BY <3>1, <2>2
  <2> QED BY <1>1, <2>3, <2>4
<1>4. clock' \in Nat /\ clock <= clock' /\ None # "sink"
  BY <1>1, EngineAssumption DEF SchedInv, MissionInv
<1> QED BY <1>1, <1>2, <1>3, <1>4, Calm DEF Mission, InTry, Starting

\* The batch that is left, and COLLECTING.
LEMMA SchedCollect ==
  ASSUME SchedInv, TeleInv, Collect
  PROVE  SchedInv'
<1>1. /\ UNCHANGED <<scenario, pending, active, clears, clock>>
      /\ pc = "final" /\ pc' \in {"collecting", "returned", "stopping"}
      /\ log' = log \/ log' = log \o <<Lifecycle("COLLECTING")>>
      /\ batch' = <<>> /\ (sent' = sent \/ sent' = sent \o batch)
  BY DEF Collect, sched, Say
<1>2. IsSequence(log') /\ Same("applied") /\ Same("cleared") /\ PendingInv' /\ ActiveInv'
  <2>1. CASE log' = log
    BY <2>1, <1>1, Silent
  <2>2. CASE log' = log \o <<Lifecycle("COLLECTING")>>
    <3> DEFINE last == Lifecycle("COLLECTING")
    <3>0. last.kind \notin {"applied", "cleared"}
      BY DEF Lifecycle
    <3>1. PICK entry : entry = last /\ entry.kind \notin {"applied", "cleared"}
      BY <3>0
    <3>2. IsSequence(<<entry>>) /\ \A k \in DOMAIN <<entry>> : <<entry>>[k].kind \notin {"applied", "cleared"}
      BY <3>1, OneEntry
    <3> QED BY <2>2, <3>1, <3>2, <1>1, Saying
  <2> QED BY <1>1, <2>1, <2>2
<1>3. Range(History') \subseteq Range(History)
  <2>1. IsSequence(sent) /\ IsSequence(batch)
    BY DEF TeleInv, TeleType
  <2>2. IsSequence(sent \o batch) /\ Range(History) = Range(sent) \cup Range(batch)
    BY <2>1, ConcatRange, ConcatSequence DEF History
  <2>3. History' = sent' /\ IsSequence(sent')
    <3>1. \A q : IsSequence(q) => q \o <<>> = q
      BY DEF IsSequence
    <3> QED BY <3>1, <2>1, <2>2, <1>1 DEF History
  <2> QED BY <1>1, <2>2, <2>3 DEF History
<1>4. clock' \in Nat /\ clock <= clock'
  BY <1>1 DEF SchedInv, MissionInv
<1> QED BY <1>1, <1>2, <1>3, <1>4, Calm DEF Mission, InTry, Starting

\* A sample is taken, and verdicts are given.
LEMMA SchedFinishSample ==
  ASSUME SchedInv, TeleInv, ListInv, FinishSample
  PROVE  SchedInv'
<1>1. /\ UNCHANGED <<scenario, pending, active, clears, target, clock, token, exc>>
      /\ pc = "observed" /\ pc' \in {"leaving", "waiting"}
  BY DEF FinishSample, sched, ending
<1> DEFINE watched == [i \in DOMAIN expectations |->
                         IF clock <= expectations[i].requested THEN expectations[i]
                         ELSE Watched(expectations[i])]
           decided == ElementsAt(watched, {i \in DOMAIN watched : ~Undecided(watched[i])})
<1>2. Say(Decisions(watched)) /\ IsSequence(watched) /\ IsSequence(decided)
  <2>1. IsSequence(watched)
    BY MappedSequence DEF ListInv
  <2> HIDE DEF watched
  <2>2. IsSequence(decided)
    BY <2>1, Selection
  <2>3. Say(Decisions(watched))
    BY DEF FinishSample, watched
  <2> QED BY <2>1, <2>2, <2>3
<1>3. IsSequence(log') /\ Same("applied") /\ Same("cleared") /\ PendingInv' /\ ActiveInv'
  <2> DEFINE more == Decisions(watched)
  <2>1. more = [i \in DOMAIN decided |->
                  Verdict(decided[i], ExpectationStatus(decided[i], clock) = "passed")]
    BY DEF Decisions
  <2>2. \A k \in DOMAIN more : more[k].kind \notin {"applied", "cleared"}
    BY <2>1 DEF Verdict
  <2>3. IsSequence(more)
    <3> HIDE DEF decided
    <3> QED BY <2>1, <1>2, MappedSequence
  <2>4. log' = log \o more
    BY <1>2 DEF Say
  <2> HIDE DEF more, watched, decided
  <2> QED BY <2>2, <2>3, <2>4, <1>1, Saying
<1>4. exc = None /\ \A c \in clears : clock < c.at
  BY <1>1 DEF SchedInv, MissionInv, Mission, InTry, ClearsInv
<1>5. \A h \in Range(History') : h \in Range(History) \/ h.t = clock
  <2> DEFINE one == <<Sample>>
             full == Append(batch, Sample)
  <2>1. IsSequence(sent) /\ IsSequence(batch) /\ IsSequence(full)
    BY AppendSequence DEF TeleInv, TeleType
  <2>2. Range(full) \subseteq Range(batch) \cup {Sample}
    <3> DEFINE L == Len(batch)
    <3>1. /\ DOMAIN full = 1..(L + 1) /\ L \in Nat /\ DOMAIN batch = 1..L
          /\ full[L + 1] = Sample /\ \A i \in 1..L : full[i] = batch[i]
      BY <2>1, AppendSequence DEF IsSequence
    <3>2. \A i \in 1..(L + 1) : i \in 1..L \/ i = L + 1
      BY <3>1
    <3> HIDE DEF full, L
    <3> QED BY <3>1, <3>2 DEF Range
  <2>3. Range(History) = Range(sent) \cup Range(batch)
    BY <2>1, ConcatRange DEF History
  <2>4. IsSequence(sent \o full) /\ Range(sent \o full) = Range(sent) \cup Range(full)
    <3> HIDE DEF full
    <3> QED BY <2>1, ConcatRange, ConcatSequence
  <2>5. History' = sent \o full
    <3>1. CASE BatchDue(clock)
      <4>1. sent' = sent \o full /\ batch' = <<>>
        BY <3>1 DEF FinishSample, BufferSample
      <4>2. (sent \o full) \o <<>> = sent \o full
        BY <2>4 DEF IsSequence
      <4> HIDE DEF full
      <4> QED BY <4>1, <4>2 DEF History
    <3>2. CASE ~BatchDue(clock)
      BY <3>2 DEF FinishSample, BufferSample, History
    <3> QED BY <3>1, <3>2
  <2>6. Sample.t = clock
    BY DEF Sample
  <2> HIDE DEF full
  <2> QED BY <2>2, <2>3, <2>4, <2>5, <2>6
<1>6. clock' \in Nat /\ clock <= clock'
  BY <1>1 DEF SchedInv, MissionInv
<1> QED BY <1>1, <1>3, <1>4, <1>5, <1>6, Calm DEF Mission, InTry, Starting

\* What an event registers is a list.
LEMMA RegistersList ==
  ASSUME NEW s \in Scenarios, NEW e \in Range(AllEvents(s)), NEW t
  PROVE  IsSequence(Registered(e, t))
<1>1. IsSequence(e.expect)
  BY ListsEvents DEF IsEvent, IsSequence
<1> DEFINE q == Registered(e, t)
<1>2. q = [i \in DOMAIN e.expect |-> q[i]]
  BY DEF Registered
<1> HIDE DEF q
<1> QED BY <1>1, <1>2, MappedSequence DEF q

\* The expectations stay a list.
LEMMA StaysList ==
  ASSUME SchedInv, ListInv, [Next]_vars
  PROVE  ListInv'
<1>0. pc' = "scheduled" => obs' \in Observations
  <2>1. CASE Observe
    BY <2>1 DEF Observe, ListInv
  <2>2. CASE ~Observe
    <3>1. pc' = "scheduled" => pc = "scheduled" /\ obs' = obs
      BY <2>2 DEF Next, Step, vars, mission, watch, Prepare, Prepared, PreparationCancelled, StartMission,
         Inject, ClearDue, ProcessObservation, FinishSample, Leave, Handle, Collect, CollectArtifacts,
         Stop, Pop, Finish, TargetFails, SinkFails, PublishArtifactFails, Cancel
    <3> QED BY <3>1 DEF ListInv
  <2> QED BY <2>1, <2>2
<1>1. CASE Inject
  <2>1. expectations' = expectations \/ expectations' = expectations \o Registered(Head(pending), clock)
    BY <1>1 DEF Inject
  <2>2. Head(pending) \in Known /\ scenario \in Scenarios
    <3>1. IsSequence(pending) /\ pending # <<>> /\ scenario \in Scenarios /\ Range(pending) \subseteq Known
      BY <1>1 DEF Inject, SchedInv, PendingInv, MissionInv
    <3>2. Head(pending) = pending[1] /\ 1 \in DOMAIN pending
      BY <3>1, TailSequence DEF IsSequence
    <3> QED BY <3>1, <3>2 DEF Range
  <2>3. IsSequence(Registered(Head(pending), clock))
    BY <2>2, RegistersList DEF Known
  <2> QED BY <2>1, <2>3, <1>0, ConcatSequence DEF ListInv
<1>2. CASE FinishSample
  <2> DEFINE watched == [i \in DOMAIN expectations |->
                           IF clock <= expectations[i].requested THEN expectations[i]
                           ELSE Watched(expectations[i])]
  <2>1. IsSequence(watched)
    BY MappedSequence DEF ListInv
  <2>2. expectations' = ElementsAt(watched, {i \in DOMAIN watched : Undecided(watched[i])})
    BY <1>2 DEF FinishSample
  <2> HIDE DEF watched
  <2> QED BY <2>1, <2>2, <1>0, Selection DEF ListInv
<1>3. CASE Leave
  BY <1>3, <1>0, EmptySequence DEF Leave, ListInv
<1>4. CASE ~(Inject \/ FinishSample \/ Leave)
  <2>1. expectations' = expectations
    BY <1>4 DEF Next, Step, vars, mission, watch, Prepare, Prepared, PreparationCancelled, StartMission,
       ClearDue, ProcessObservation, Handle, Collect, CollectArtifacts, Stop, Pop, Finish, Observe,
       TargetFails, SinkFails, PublishArtifactFails, Cancel
  <2> QED BY <2>1, <1>0 DEF ListInv
<1> QED BY <1>1, <1>2, <1>3, <1>4

\* No sample of the clock's time was taken while an observation is in hand.
LEMMA TakenEarlier ==
  ASSUME TeleInv
  PROVE  \A h \in Range(History) : h.t \in Nat /\ h.t <= clock /\ (pc \in Sampling => h.t < clock)
<1>1. IsSequence(sent) /\ IsSequence(batch)
  BY DEF TeleInv, TeleType
<1>2. Range(History) = Range(sent) \cup Range(batch)
  BY <1>1, ConcatRange DEF History
<1>3. DOMAIN sent = 1..Len(sent) /\ DOMAIN batch = 1..Len(batch)
  BY <1>1 DEF IsSequence
<1> QED BY <1>2, <1>3 DEF TeleInv, TakenBefore, Range

\* An injection is requested and applied: one more entry says so.
LEMMA AppliedNoted ==
  ASSUME IsSequence(log), NEW id, NEW t,
         log' = log \o <<Note("requested", id, t), Note("applied", id, t)>>
  PROVE  /\ IsSequence(log') /\ Same("cleared") /\ Same("verdict")
         /\ \E n : /\ Entries("applied")' = Entries("applied") \cup {n} /\ n \notin Entries("applied")
                   /\ \A i \in Entries("applied") : log'[i] = log[i]
                   /\ log'[n].id = id /\ log'[n].t = t
<1> DEFINE more == <<Note("requested", id, t), Note("applied", id, t)>>
<1>0. PICK n : n = Len(log) + 2
  OBVIOUS
<1>1. /\ IsSequence(more) /\ DOMAIN more = 1..2
      /\ more[1].kind = "requested"
      /\ more[2].kind = "applied" /\ more[2].id = id /\ more[2].t = t
  BY DEF Note, IsSequence, Range
<1> HIDE DEF more
<1>2. /\ IsSequence(log') /\ n \in DOMAIN log' /\ n \notin DOMAIN log /\ log'[n] = more[2]
      /\ \A i \in DOMAIN log : i \in DOMAIN log' /\ log'[i] = log[i]
      /\ \A i \in DOMAIN log' : i \in DOMAIN log \/ i = n \/ log'[i].kind = "requested"
  <2>1. log' = log \o more
    BY DEF more
  <2>2. \A k \in DOMAIN more : k = 1 \/ k = 2
    BY <1>1
  <2>3. 1 \in DOMAIN more /\ 2 \in DOMAIN more
    BY <1>1
  <2>4. /\ IsSequence(log')
        /\ \A i \in DOMAIN log : i \in DOMAIN log' /\ log'[i] = log[i]
    BY <2>1, <1>1, LogGrows
  <2>5. \A k \in DOMAIN more :
          Len(log) + k \in DOMAIN log' /\ log'[Len(log) + k] = more[k] /\ Len(log) + k \notin DOMAIN log
    BY <2>1, <1>1, LogGrows
  <2>6. \A i \in DOMAIN log' : i \in DOMAIN log \/ \E k \in DOMAIN more : i = Len(log) + k
    BY <2>1, <1>1, LogGrows
  <2>7. ASSUME NEW i \in DOMAIN log', i \notin DOMAIN log, i # n PROVE log'[i].kind = "requested"
    <3>1. PICK k \in DOMAIN more : i = Len(log) + k
      BY <2>6, <2>7
    <3>2. k = 1
      BY <3>1, <2>2, <2>7, <1>0
    <3> QED BY <3>1, <3>2, <2>3, <2>5, <1>1
  <2> QED BY <2>3, <2>4, <2>5, <2>7, <1>0
<1>3. log'[n].kind = "applied" /\ log'[n].id = id /\ log'[n].t = t
  BY <1>1, <1>2
<1>4. Same("cleared") /\ Same("verdict")
  BY <1>2, <1>3 DEF Same, Entries
<1>5. /\ Entries("applied")' = Entries("applied") \cup {n} /\ n \notin Entries("applied")
      /\ \A i \in Entries("applied") : log'[i] = log[i]
  BY <1>2, <1>3 DEF Entries
<1> QED BY <1>2, <1>3, <1>4, <1>5

\* An event is applied.
LEMMA SchedApply ==
  ASSUME SchedInv, TeleInv, NEW e \in Known,
         UNCHANGED <<scenario, pc, token, clock, sent, batch, exc>>, pc = "scheduled",
         ~Applied(e.id),
         IsSequence(pending'), Range(pending') \subseteq Known,
         \A i, j \in DOMAIN pending' : pending'[i].id = pending'[j].id => i = j,
         \A i \in DOMAIN pending' : pending'[i].id # e.id /\ ~Applied(pending'[i].id),
         active' = Activated(Request(e)),
         clears' = IF e.duration = None THEN clears
                   ELSE clears \cup {[at |-> clock + e.duration, id |-> e.id]},
         target' = IF Persistent(Request(e)) THEN target \cup {e.id} ELSE target,
         log' = log \o <<Note("requested", e.id, clock), Note("applied", e.id, clock)>>
  PROVE  SchedInv'
<1>1. /\ scenario \in Scenarios /\ DistinctIds(scenario) /\ clock \in Nat /\ IsSequence(log)
      /\ IsSequence(active) /\ exc = None /\ pc \in Mission
  BY DEF SchedInv, MissionInv, ActiveInv, Mission, InTry
<1>2. EventOf(e.id) = e /\ IsEvent(e)
  BY <1>1, EventInIs, ListsEvents DEF EventOf, Known
<1>3. ~HasCleared(e.id)
  BY DEF SchedInv, ClearedInv, HasCleared
<1>5. IsSequence(log') /\ Same("cleared")
  BY <1>1, AppliedNoted
<1>6. PICK n : /\ Entries("applied")' = Entries("applied") \cup {n} /\ n \notin Entries("applied")
               /\ \A i \in Entries("applied") : log'[i] = log[i]
               /\ log'[n].id = e.id /\ log'[n].t = clock
  <2>1. IsSequence(log)
    BY <1>1
  <2> QED BY <2>1, AppliedNoted
<1>7. /\ Entries("applied")' = Entries("applied") \cup {n} /\ n \notin Entries("applied")
      /\ \A i \in Entries("applied") : log'[i] = log[i]
  BY <1>6
<1>8. log'[n].id = e.id /\ log'[n].t = clock
  BY <1>6
<1>9. \A id : Applied(id)' <=> Applied(id) \/ id = e.id
  BY <1>7, <1>8 DEF Applied
<1>10. \A id : HasCleared(id)' = HasCleared(id)
  BY <1>5 DEF Same, HasCleared
<1>11. \A id : EventOf(id)' = EventOf(id)
  BY DEF EventOf
<1>12. \A i \in Entries("applied") : EndOf(i)' = EndOf(i) /\ log[i].id # e.id
  BY <1>7, <1>11 DEF EndOf, Applied
<1>13. EndOf(n)' = clock + e.duration /\ EventOf(log[n].id)' = e
  <2>1. EventOf(log[n].id)' = e
    BY <1>2, <1>8 DEF EventOf
  <2> QED BY <2>1, <1>8 DEF EndOf
<1>14. Known' = Known /\ History' = History
  BY DEF Known, History
<1>15. MissionInv'
  BY <1>1, <1>5 DEF MissionInv, SchedInv
<1>16. PendingInv'
  BY <1>9, <1>14 DEF PendingInv
<1>17. AppliedInv'
  <2>1. \A i, j \in Entries("applied")' : log'[i].id = log'[j].id => i = j
    <3>1. \A i, j \in Entries("applied") : log[i].id = log[j].id => i = j
      BY DEF SchedInv, AppliedInv
    <3>2. \A i \in Entries("applied") : log'[i].id # log'[n].id
      BY <1>7, <1>8, <1>12
    <3> QED BY <3>1, <3>2, <1>7
  <2>2. \A i \in Entries("applied")' :
          log'[i].t \in Nat /\ log'[i].t <= clock /\ \E f \in Known : f.id = log'[i].id
    <3>1. \A i \in Entries("applied") :
            log'[i].t \in Nat /\ log'[i].t <= clock /\ \E f \in Known : f.id = log'[i].id
      BY <1>7 DEF SchedInv, AppliedInv
    <3>2. log'[n].t \in Nat /\ log'[n].t <= clock
      <4>1. clock \in Nat /\ clock <= clock
        BY <1>1
      <4> QED BY <4>1, <1>8, Zenon
    <3>3. \E f \in Known : f.id = log'[n].id
      <4> PICK id : id = log'[n].id
        OBVIOUS
      <4> WITNESS e \in Known
      <4> QED BY <1>8
    <3> QED BY <3>1, <3>2, <3>3, <1>7
  <2>3. pc' \notin Starting
    BY DEF Starting
  <2> QED BY <2>1, <2>2, <2>3, <1>14 DEF AppliedInv
<1>18. ActiveInv'
  <2>1. active' = Append(active, Request(e))
    <3>1. \A i \in DOMAIN active : active[i].id # e.id
      BY DEF SchedInv, ActiveInv, Range
    <3> QED BY <3>1 DEF Activated, Request
  <2> DEFINE L == Len(active)
             r == Request(e)
  <2>2. /\ IsSequence(active') /\ L \in Nat /\ DOMAIN active = 1..L /\ DOMAIN active' = 1..(L + 1)
        /\ active'[L + 1] = r /\ \A i \in 1..L : active'[i] = active[i]
    <3> HIDE DEF r
    <3> QED BY <2>1, <1>1, AppendSequence DEF IsSequence, r
  <2>3. r.id = e.id
    BY DEF Request
  <2> HIDE DEF L, r
  <2>4. \A i \in DOMAIN active' : (i \in DOMAIN active /\ active'[i] = active[i]) \/ (i = L + 1 /\ active'[i] = r)
    BY <2>2
  <2>5. \A i \in DOMAIN active : i \in DOMAIN active' /\ active'[i] = active[i]
    BY <2>2
  <2>6. \A i \in DOMAIN active : Applied(active[i].id) /\ active[i].id # e.id
    BY DEF SchedInv, ActiveInv, Range
  <2>7. \A i, j \in DOMAIN active' : active'[i].id = active'[j].id => i = j
    <3>1. \A i, j \in DOMAIN active : active[i].id = active[j].id => i = j
      BY DEF SchedInv, ActiveInv
    <3> QED BY <3>1, <2>3, <2>4, <2>6
  <2>8. Range(active') = Range(active) \cup {r}
    <3>1. L + 1 \in DOMAIN active' /\ active'[L + 1] = r
      BY <2>2
    <3>2. ASSUME NEW q \in Range(active') PROVE q \in Range(active) \/ q = r
      <4>1. PICK i \in DOMAIN active' : q = active'[i]
        BY DEF Range
      <4> QED BY <4>1, <2>4 DEF Range
    <3>3. r \in Range(active')
      BY <3>1 DEF Range
    <3>4. ASSUME NEW q \in Range(active) PROVE q \in Range(active')
      <4>1. PICK i \in DOMAIN active : q = active[i]
        BY DEF Range
      <4>2. i \in DOMAIN active' /\ q = active'[i]
        BY <4>1, <2>5
      <4> QED BY <4>2 DEF Range
    <3> QED BY <3>2, <3>3, <3>4
  <2>9. \A q \in Range(active') : Applied(q.id)' /\ ~HasCleared(q.id) /\ q = Request(EventOf(q.id))
    BY <2>3, <2>8, <1>2, <1>3, <1>9 DEF SchedInv, ActiveInv, r
  <2>11. ASSUME NEW i \in Entries("applied"), Persistent(Request(EventOf(log[i].id))),
                ~HasCleared(log[i].id)
         PROVE  \E k \in DOMAIN active' : active'[k].id = log[i].id
    <3>1. IsActive(log[i].id)
      BY <2>11 DEF SchedInv, ActiveInv
    <3> QED BY <3>1, <2>5 DEF IsActive
  <2>12. \E k \in DOMAIN active' : active'[k].id = log'[n].id
    <3>1. L + 1 \in DOMAIN active'
      BY <2>2
    <3> QED BY <3>1, <2>2, <2>3, <1>8
  <2>13. \A i \in Entries("applied")' :
           (Persistent(Request(EventOf(log[i].id))) /\ ~HasCleared(log[i].id) => IsActive(log[i].id))'
    <3> TAKE i \in Entries("applied")'
    <3>1. CASE i = n
      BY <3>1, <2>12 DEF IsActive
    <3>2. CASE i \in Entries("applied")
      BY <3>2, <1>7, <1>10, <1>11, <2>11, ZenonT(40) DEF IsActive
    <3> QED BY <3>1, <3>2, <1>7
  <2>14. \A q \in Range(active') : (Applied(q.id) /\ ~HasCleared(q.id) /\ q = Request(EventOf(q.id)))'
    BY <2>9, <1>10, <1>11
  <2> QED BY <2>2, <2>7, <2>13, <2>14 DEF ActiveInv
<1>19. ClearedInv'
  <2> DEFINE gone(i, j) ==
               IF Bounded(EventOf(log[i].id))
               THEN /\ log[j].t \in Nat /\ log[j].t <= clock /\ log[j].t >= EndOf(i)
                    /\ \A h \in Range(History) : h.t < log[j].t => h.t < EndOf(i)
               ELSE log[j].reason = "scenario_end" /\ pc \notin Mission
  <2>1. /\ Entries("cleared")' = Entries("cleared")
        /\ \A j \in Entries("cleared") : log'[j] = log[j] /\ log[j].id # e.id
    BY <1>3, <1>5 DEF Same, HasCleared
  <2>2. \A i \in Entries("applied"), j \in Entries("cleared") : log[i].id = log[j].id => gone(i, j)
    BY DEF SchedInv, ClearedInv
  <2>3. \A i \in Entries("applied"), j \in Entries("cleared") : gone(i, j) => gone(i, j)'
    BY <1>7, <1>11, <1>12, <1>14, <2>1
  <2> HIDE DEF gone
  <2>4. ASSUME NEW i \in Entries("applied")', NEW j \in Entries("cleared")', log'[i].id = log'[j].id
        PROVE  gone(i, j)'
    <3>1. log'[j] = log[j] /\ log[j].id # e.id /\ j \in Entries("cleared")
      BY <2>1
    <3>2. i # n
      BY <2>4, <3>1, <1>8
    <3>3. i \in Entries("applied") /\ log'[i] = log[i]
      BY <3>2, <1>7
    <3> QED BY <2>2, <2>3, <2>4, <3>1, <3>3
  <2>5. \A j \in Entries("cleared") : \E i \in Entries("applied")' : log'[i].id = log'[j].id
    <3>1. \A j \in Entries("cleared") : \E i \in Entries("applied") : log[i].id = log[j].id
      BY DEF SchedInv, ClearedInv, Applied
    <3>2. \A i \in Entries("applied") : i \in Entries("applied")' /\ log'[i] = log[i]
      BY <1>7
    <3>3. \A j \in Entries("cleared") : log'[j] = log[j]
      BY <2>1
    <3> TAKE j \in Entries("cleared")
    <3>4. PICK i \in Entries("applied") : log[i].id = log[j].id
      BY <3>1
    <3>5. log'[i].id = log'[j].id /\ i \in Entries("applied")'
      BY <3>2, <3>3, <3>4
    <3> QED BY <3>5
  <2>6. \A j, k \in Entries("cleared") : log[j].id = log[k].id => j = k
    BY DEF SchedInv, ClearedInv
  <2>7. \A j, k \in Entries("cleared")' : log'[j].id = log'[k].id => j = k
    BY <2>1, <2>6
  <2>8. \A j \in Entries("cleared")' : (\E i \in Entries("applied") : log[i].id = log[j].id)'
    BY <2>1, <2>5
  <2> QED BY <2>4, <2>7, <2>8 DEF ClearedInv, Applied, gone
<1>20. ClearsInv'
  <2>1. ASSUME NEW c \in clears
        PROVE  /\ \E i \in Entries("applied")' :
                    (Bounded(EventOf(log[i].id)) /\ c = [at |-> EndOf(i), id |-> log[i].id])'
               /\ \A h \in Range(History) : h.t < c.at
    <3>1. PICK i \in Entries("applied") :
            Bounded(EventOf(log[i].id)) /\ c = [at |-> EndOf(i), id |-> log[i].id]
      BY DEF SchedInv, ClearsInv
    <3>2. (Bounded(EventOf(log[i].id)) /\ c = [at |-> EndOf(i), id |-> log[i].id])'
      BY <3>1, <1>7, <1>11, <1>12
    <3>3. \A h \in Range(History) : h.t < c.at
      BY DEF SchedInv, ClearsInv
    <3> QED BY <3>2, <3>3, <1>7
  <2> DEFINE due == [at |-> clock + e.duration, id |-> e.id]
  <2>0. due.at = clock + e.duration
    OBVIOUS
  <2>7. PICK new : new = due /\ new.at = clock + e.duration
    BY <2>0
  <2>2. new = [at |-> EndOf(n), id |-> log[n].id]'
    BY <1>8, <1>13, <2>7
  <2>3. ASSUME Bounded(e)
        PROVE  /\ (Bounded(EventOf(log[n].id)) /\ new = [at |-> EndOf(n), id |-> log[n].id])'
               /\ \A h \in Range(History) : h.t < new.at
    <3>1. e.duration \in Nat
      BY <2>3, <1>2 DEF Bounded, IsEvent
    <3>2. \A h \in Range(History) : h.t \in Nat /\ h.t < clock
      BY TakenEarlier DEF Sampling
    <3>3. \A h \in Range(History) : h.t < new.at
      BY <3>1, <3>2, <2>7, <1>1
    <3>4. Bounded(EventOf(log[n].id))'
      BY <2>3, <1>13 DEF Bounded
    <3> QED BY <2>2, <3>3, <3>4
  <2>4. \A c \in clears' : c \in clears \/ (c = new /\ Bounded(e))
    BY <2>7 DEF Bounded
  <2>8. Bounded(e) => new \in clears'
    BY <2>7 DEF Bounded
  <2>5. \A c \in clears' :
          /\ \E i \in Entries("applied")' :
               (Bounded(EventOf(log[i].id)) /\ c = [at |-> EndOf(i), id |-> log[i].id])'
          /\ \A h \in Range(History') : h.t < c.at
    <3> TAKE c \in clears'
    <3>1. CASE c \in clears
      BY <3>1, <2>1, <1>14
    <3>2. CASE c = new /\ Bounded(e)
      <4>1. n \in Entries("applied")'
        BY <1>7
      <4> QED BY <3>2, <4>1, <2>3, <1>14
    <3> QED BY <3>1, <3>2, <2>4
  <2>6. \A i \in Entries("applied")' :
          (Bounded(EventOf(log[i].id)) /\ ~HasCleared(log[i].id) =>
            [at |-> EndOf(i), id |-> log[i].id] \in clears)'
    <3> TAKE i \in Entries("applied")'
    <3>1. CASE i = n
      BY <3>1, <2>8, <2>2, <1>13
    <3>2. CASE i \in Entries("applied")
      <4>1. Bounded(EventOf(log[i].id)) /\ ~HasCleared(log[i].id) =>
              [at |-> EndOf(i), id |-> log[i].id] \in clears
        BY <3>2, <1>1 DEF SchedInv, ClearsInv
      <4>2. clears \subseteq clears'
        OBVIOUS
      <4> QED BY <3>2, <4>1, <4>2, <1>7, <1>10, <1>11, <1>12
    <3> QED BY <3>1, <3>2, <1>7
  <2> QED BY <2>5, <2>6 DEF ClearsInv
<1>21. TargetInv'
  <2>1. /\ \A id \in target : Applied(id)
        /\ \A i \in Entries("applied") :
             log[i].id \in target <=> ~HasCleared(log[i].id) /\ Persistent(Request(EventOf(log[i].id)))
    BY <1>1 DEF SchedInv, TargetInv
  <2>2. \A id \in target' : Applied(id)'
    BY <2>1, <1>9
  <2>3. \A i \in Entries("applied")' :
          (log[i].id \in target <=> ~HasCleared(log[i].id) /\ Persistent(Request(EventOf(log[i].id))))'
    <3> TAKE i \in Entries("applied")'
    <3>1. CASE i = n
      <4>1. e.id \notin target
        BY <2>1
      <4>2. e.id \in target' <=> Persistent(Request(e))
        BY <4>1
      <4>3. ~HasCleared(e.id)'
        BY <1>3, <1>10
      <4>4. ~HasCleared(log[n].id)'
        BY <4>3, <1>8 DEF HasCleared
      <4>5. (log[n].id \in target)' <=> e.id \in target'
        BY <1>8
      <4> QED BY <3>1, <4>2, <4>4, <4>5, <1>13
    <3>2. CASE i \in Entries("applied")
      <4>1. log'[i] = log[i] /\ log[i].id # e.id
        BY <3>2, <1>7, <1>12
      <4>2. log[i].id \in target' <=> log[i].id \in target
        BY <4>1
      <4> QED BY <3>2, <4>1, <4>2, <2>1, <1>10, <1>11
    <3> QED BY <3>1, <3>2, <1>7
  <2> QED BY <2>2, <2>3 DEF TargetInv
<1> QED BY <1>15, <1>16, <1>17, <1>18, <1>19, <1>20, <1>21 DEF SchedInv

\* An event that is due is injected: applied or rejected.
LEMMA SchedInject ==
  ASSUME SchedInv, TeleInv, Inject
  PROVE  SchedInv'
<1>1. /\ UNCHANGED <<scenario, pc, token, clock, sent, batch, exc>>
      /\ pc = "scheduled" /\ pending # <<>> /\ pending' = Tail(pending)
  BY DEF Inject, tele, ending
<1>2. /\ scenario \in Scenarios /\ DistinctIds(scenario) /\ clock \in Nat /\ IsSequence(log)
      /\ IsSequence(pending) /\ Range(pending) \subseteq Known /\ IsSequence(active)
  BY DEF SchedInv, MissionInv, PendingInv, ActiveInv
<1>3. PICK e : e = Head(pending)
  OBVIOUS
<1>4. /\ 1 \in DOMAIN pending /\ e = pending[1] /\ DOMAIN Tail(pending) \subseteq DOMAIN pending
      /\ IsSequence(Tail(pending))
      /\ \A i \in DOMAIN Tail(pending) : i + 1 \in DOMAIN pending /\ Tail(pending)[i] = pending[i + 1]
                                         /\ i + 1 # 1 /\ i \in Nat
  <2>1. /\ IsSequence(Tail(pending)) /\ Len(pending) \in Nat \ {0} /\ Len(Tail(pending)) = Len(pending) - 1
        /\ e = pending[1] /\ \A i \in 1..(Len(pending) - 1) : Tail(pending)[i] = pending[i + 1]
        /\ DOMAIN pending = 1..Len(pending) /\ DOMAIN Tail(pending) = 1..Len(Tail(pending))
    BY <1>1, <1>2, <1>3, TailSequence DEF IsSequence
  <2> QED BY <2>1
<1>5. e \in Known /\ EventOf(e.id) = e
  <2>1. e \in Known
    BY <1>2, <1>4 DEF Range
  <2> QED BY <2>1, <1>2, EventInIs DEF EventOf, Known
<1>6. ~Applied(e.id) /\ ~HasCleared(e.id)
  <2>1. ~Applied(e.id)
    BY <1>4 DEF SchedInv, PendingInv
  <2>2. \A j \in Entries("cleared") : Applied(log[j].id)
    BY DEF SchedInv, ClearedInv
  <2> QED BY <2>1, <2>2 DEF HasCleared
<1>7. \A i \in DOMAIN Tail(pending) : Tail(pending)[i].id # e.id
  BY <1>4 DEF SchedInv, PendingInv
<1>8. History' = History
  BY <1>1 DEF History
<1>9. \A i, j \in DOMAIN Tail(pending) : Tail(pending)[i].id = Tail(pending)[j].id => i = j
  <2> TAKE i, j \in DOMAIN Tail(pending)
  <2> HAVE Tail(pending)[i].id = Tail(pending)[j].id
  <2>1. i + 1 = j + 1
    BY <1>4 DEF SchedInv, PendingInv
  <2> QED BY <2>1, <1>4
<1>10. Range(Tail(pending)) \subseteq Known
  BY <1>2, <1>4 DEF Range
<1>11. exc = None /\ Mission = Mission /\ pc \in Mission
  BY <1>1 DEF SchedInv, MissionInv, Mission, InTry
<1>12. CASE /\ log' = log \o <<Note("requested", e.id, clock), Note("rejected", e.id, clock)>>
            /\ UNCHANGED <<active, clears, target>>
  <2> DEFINE more == <<Note("requested", e.id, clock), Note("rejected", e.id, clock)>>
  <2>1. IsSequence(more) /\ \A k \in DOMAIN more : more[k].kind \notin {"applied", "cleared"}
    BY DEF Note, IsSequence, Range
  <2>2. IsSequence(log') /\ Same("applied") /\ Same("cleared")
    <3> HIDE DEF more
    <3> QED BY <2>1, <1>2, <1>12, LogGrows, Unnoted DEF more
  <2>3. ActiveInv'
    BY <2>2, <1>1, <1>12, StillActive DEF SchedInv
  <2>4. PendingInv'
    <3>1. \A id : Applied(id)' = Applied(id)
      BY <2>2, SameNotes
    <3>2. \A i \in DOMAIN Tail(pending) : ~Applied(Tail(pending)[i].id)
      BY <1>4 DEF SchedInv, PendingInv
    <3> QED BY <3>1, <3>2, <1>1, <1>4, <1>9, <1>10 DEF PendingInv, Known
  <2> QED BY <2>2, <2>3, <2>4, <1>1, <1>2, <1>8, <1>11, <1>12, Calm DEF Mission, InTry, Starting
<1>13. CASE /\ active' = Activated(Request(e))
            /\ clears' = IF e.duration = None THEN clears
                         ELSE clears \cup {[at |-> clock + e.duration, id |-> e.id]}
            /\ target' = IF Persistent(Request(e)) THEN target \cup {e.id} ELSE target
            /\ log' = log \o <<Note("requested", e.id, clock), Note("applied", e.id, clock)>>
  <2>1. \A i \in DOMAIN pending' : pending'[i].id # e.id /\ ~Applied(pending'[i].id)
    BY <1>1, <1>4, <1>7 DEF SchedInv, PendingInv
  <2> QED BY <2>1, <1>1, <1>4, <1>5, <1>6, <1>9, <1>10, <1>13, SchedApply
<1> QED BY <1>1, <1>3, <1>12, <1>13 DEF Inject, Say

\* The requests at some places of a list of requests with different ids.
LEMMA SelectedRequests ==
  ASSUME NEW requests, IsSequence(requests), NEW places \in SUBSET DOMAIN requests
  PROVE  LET q == ElementsAt(requests, places)
         IN  /\ IsSequence(q)
             /\ Range(q) = {requests[k] : k \in places}
             /\ Apart(requests) => Apart(q)
<1> DEFINE q == ElementsAt(requests, places)
<1>1. /\ IsSequence(q) /\ Range(q) = {requests[k] : k \in places}
      /\ \A i, j \in DOMAIN q : i < j => \E k, l \in places : k < l /\ q[i] = requests[k] /\ q[j] = requests[l]
  BY Selection
<1>2. ASSUME Apart(requests) PROVE Apart(q)
  <2> HIDE DEF q
  <2>1. DOMAIN q \subseteq Nat /\ DOMAIN requests \subseteq Nat
    BY <1>1 DEF IsSequence
  <2>2. \A i, j \in DOMAIN q : i < j => q[i].id # q[j].id
    <3> TAKE i, j \in DOMAIN q
    <3> HAVE i < j
    <3>1. PICK k \in places, l \in places : k < l /\ q[i] = requests[k] /\ q[j] = requests[l]
      BY <1>1
    <3>2. k # l
      BY <2>1, <3>1
    <3> QED BY <3>1, <3>2, <1>2 DEF Apart
  <2> QED BY <2>1, <2>2 DEF Apart
<1> QED BY <1>1, <1>2

\* What a request of an id that is taken out leaves.
LEMMA WithoutLeaves ==
  ASSUME NEW requests, IsSequence(requests), NEW id,
         \A i, j \in DOMAIN requests : requests[i].id = requests[j].id => i = j
  PROVE  LET q == Without(requests, id)
         IN  /\ IsSequence(q)
             /\ Range(q) = {r \in Range(requests) : r.id # id}
             /\ \A i, j \in DOMAIN q : q[i].id = q[j].id => i = j
<1> DEFINE places == {i \in DOMAIN requests : requests[i].id # id}
           q == ElementsAt(requests, places)
<1>1. /\ IsSequence(q) /\ Range(q) = {requests[k] : k \in places}
      /\ \A i, j \in DOMAIN q : q[i].id = q[j].id => i = j
  <2>1. places \in SUBSET DOMAIN requests
    OBVIOUS
  <2> HIDE DEF places
  <2> QED BY <2>1, SelectedRequests DEF Apart
<1>2. Without(requests, id) = q
  BY DEF Without
<1>3. Range(q) = {r \in Range(requests) : r.id # id}
  BY <1>1 DEF Range
<1> QED BY <1>1, <1>2, <1>3

\* The times at which something is to be cleared are times.
LEMMA ClearsTimes ==
  ASSUME SchedInv, NEW c \in clears
  PROVE  c.at \in Nat
<1>1. PICK m \in Entries("applied") :
        Bounded(EventOf(log[m].id)) /\ c = [at |-> EndOf(m), id |-> log[m].id]
  BY DEF SchedInv, ClearsInv
<1>2. log[m].t \in Nat /\ \E e \in Known : e.id = log[m].id
  BY DEF SchedInv, AppliedInv
<1>3. PICK e \in Known : e.id = log[m].id
  BY <1>2
<1>4. scenario \in Scenarios /\ DistinctIds(scenario)
  BY DEF SchedInv, MissionInv
<1>5. EventOf(log[m].id) = e /\ IsEvent(e)
  BY <1>3, <1>4, EventInIs, ListsEvents DEF EventOf, Known
<1>6. e.duration \in Nat
  BY <1>5, <1>1 DEF Bounded, IsEvent
<1>7. PICK t, d : t = log[m].t /\ d = e.duration
  OBVIOUS
<1>8. EndOf(m) = t + d
  BY <1>5, <1>7 DEF EndOf
<1>9. c.at = EndOf(m)
  BY <1>1
<1>10. t + d \in Nat
  BY <1>2, <1>6, <1>7
<1> QED BY <1>8, <1>9, <1>10

\* A bounded injection is cleared.
LEMMA SchedClear ==
  ASSUME SchedInv, TeleInv,
         UNCHANGED <<scenario, pc, token, clock, pending, sent, batch, exc>>, pc = "scheduled",
         NEW c \in clears, NEW at \in Nat, c.at = at, at <= clock, IsActive(c.id),
         clears' = clears \ {c}, active' = Without(active, c.id), target' = target \ {c.id},
         log' = log \o <<Cleared(c.id, clock, "duration_elapsed")>>
  PROVE  SchedInv'
<1> DEFINE more == <<Cleared(c.id, clock, "duration_elapsed")>>
<1>0. PICK n : n = Len(log) + 1
  OBVIOUS
<1>1. /\ scenario \in Scenarios /\ DistinctIds(scenario) /\ clock \in Nat /\ IsSequence(log)
      /\ IsSequence(active) /\ exc = None /\ pc \in Mission
  BY DEF SchedInv, MissionInv, ActiveInv, Mission, InTry
<1>2. Applied(c.id) /\ ~HasCleared(c.id)
  BY DEF SchedInv, ActiveInv, IsActive, Range
<1>3. PICK m \in Entries("applied") :
        Bounded(EventOf(log[m].id)) /\ c = [at |-> EndOf(m), id |-> log[m].id]
  BY DEF SchedInv, ClearsInv
<1>4. c.at = EndOf(m) /\ c.id = log[m].id
  BY <1>3
<1>5. /\ IsSequence(more) /\ DOMAIN more = {1}
      /\ more[1].kind = "cleared" /\ more[1].id = c.id /\ more[1].t = clock
  <2> DEFINE entry == Cleared(c.id, clock, "duration_elapsed")
  <2>1. entry.kind = "cleared" /\ entry.id = c.id /\ entry.t = clock
    BY DEF Cleared
  <2> HIDE DEF entry
  <2>2. IsSequence(<<entry>>) /\ DOMAIN <<entry>> = {1} /\ <<entry>>[1] = entry
    BY OneEntry
  <2>3. more = <<entry>>
    BY DEF entry
  <2> HIDE DEF more
  <2> QED BY <2>1, <2>2, <2>3
<1> HIDE DEF more
<1>6. /\ IsSequence(log') /\ n \in DOMAIN log' /\ n \notin DOMAIN log /\ log'[n] = more[1]
      /\ \A i \in DOMAIN log : i \in DOMAIN log' /\ log'[i] = log[i]
      /\ \A i \in DOMAIN log' : i \in DOMAIN log \/ i = n
  <2>1. log' = log \o more
    BY DEF more
  <2>2. \A k \in DOMAIN more : k = 1
    BY <1>5
  <2>3. 1 \in DOMAIN more
    BY <1>5
  <2>4. /\ IsSequence(log')
        /\ \A i \in DOMAIN log : i \in DOMAIN log' /\ log'[i] = log[i]
    BY <2>1, <1>1, <1>5, LogGrows
  <2>5. \A k \in DOMAIN more :
          Len(log) + k \in DOMAIN log' /\ log'[Len(log) + k] = more[k] /\ Len(log) + k \notin DOMAIN log
    BY <2>1, <1>1, <1>5, LogGrows
  <2>6. \A i \in DOMAIN log' : i \in DOMAIN log \/ \E k \in DOMAIN more : i = Len(log) + k
    BY <2>1, <1>1, <1>5, LogGrows
  <2> QED BY <2>2, <2>3, <2>4, <2>5, <2>6, <1>0
<1>7. log'[n].kind = "cleared" /\ log'[n].id = c.id /\ log'[n].t = clock
  BY <1>5, <1>6
<1>8. Same("applied")
  BY <1>6, <1>7 DEF Same, Entries
<1>9. /\ Entries("cleared")' = Entries("cleared") \cup {n} /\ n \notin Entries("cleared")
      /\ \A i \in Entries("cleared") : log'[i] = log[i]
  BY <1>6, <1>7 DEF Entries
<1>10. /\ Entries("applied")' = Entries("applied")
       /\ \A i \in Entries("applied") : log'[i] = log[i]
  BY <1>8 DEF Same
<1>11. \A id : HasCleared(id)' <=> HasCleared(id) \/ id = c.id
  BY <1>7, <1>9 DEF HasCleared
<1>12. \A id : Applied(id)' = Applied(id)
  BY <1>10 DEF Applied
<1>13. \A id : EventOf(id)' = EventOf(id)
  BY DEF EventOf
<1>14. \A i \in Entries("applied") : EndOf(i)' = EndOf(i)
  BY <1>10, <1>13 DEF EndOf
<1>15. Known' = Known /\ History' = History
  BY DEF Known, History
<1>16. MissionInv'
  BY <1>1, <1>6 DEF MissionInv, SchedInv
<1>17. PendingInv'
  BY <1>12, <1>15 DEF SchedInv, PendingInv
<1>18. AppliedInv'
  <2>1. pc \notin Starting
    BY DEF Starting
  <2> QED BY ZenonT(40), <2>1, <1>10, <1>15 DEF SchedInv, AppliedInv
<1>19. ActiveInv'
  <2>1. \A i, j \in DOMAIN active : active[i].id = active[j].id => i = j
    BY DEF SchedInv, ActiveInv
  <2>2. /\ IsSequence(active') /\ Range(active') = {r \in Range(active) : r.id # c.id}
        /\ \A i, j \in DOMAIN active' : active'[i].id = active'[j].id => i = j
    BY <2>1, <1>1, WithoutLeaves
  <2>3. \A r \in Range(active') : (Applied(r.id) /\ ~HasCleared(r.id) /\ r = Request(EventOf(r.id)))'
    BY <2>2, <1>11, <1>12, <1>13 DEF SchedInv, ActiveInv
  <2>4. \A id : id # c.id /\ IsActive(id) => IsActive(id)'
    <3> SUFFICES ASSUME NEW id, id # c.id, IsActive(id) PROVE IsActive(id)'
      OBVIOUS
    <3>1. PICK r \in Range(active) : r.id = id
      BY DEF IsActive, Range
    <3>2. r \in Range(active')
      BY <2>2, <3>1
    <3> QED BY <3>1, <3>2 DEF IsActive, Range
  <2>5. \A i \in Entries("applied") :
          (Persistent(Request(EventOf(log[i].id))) /\ ~HasCleared(log[i].id) => IsActive(log[i].id))'
    <3> TAKE i \in Entries("applied")
    <3>1. Persistent(Request(EventOf(log[i].id))) /\ ~HasCleared(log[i].id) => IsActive(log[i].id)
      BY DEF SchedInv, ActiveInv
    <3>2. PICK id : id = log[i].id /\ id = log'[i].id
      BY <1>10
    <3>3. EventOf(log[i].id)' = EventOf(id) /\ (HasCleared(log[i].id)' <=> HasCleared(id)')
      BY <3>2 DEF EventOf, HasCleared
    <3>4. IsActive(log[i].id)' <=> IsActive(id)'
      BY <3>2 DEF IsActive
    <3> QED BY <3>1, <3>2, <3>3, <3>4, <2>4, <1>11
  <2> QED BY <2>2, <2>3, <2>5, <1>10 DEF ActiveInv
<1>20. ClearedInv'
  <2> DEFINE gone(i, j) ==
               IF Bounded(EventOf(log[i].id))
               THEN /\ log[j].t \in Nat /\ log[j].t <= clock /\ log[j].t >= EndOf(i)
                    /\ \A h \in Range(History) : h.t < log[j].t => h.t < EndOf(i)
               ELSE log[j].reason = "scenario_end" /\ pc \notin Mission
  <2>1. \A j \in Entries("cleared") : log[j].id # c.id
    BY <1>2 DEF HasCleared
  <2>2. \A i \in Entries("applied"), j \in Entries("cleared") : log[i].id = log[j].id => gone(i, j)
    BY DEF SchedInv, ClearedInv
  <2>3. \A i \in Entries("applied"), j \in Entries("cleared") : gone(i, j) => gone(i, j)'
    BY <1>9, <1>10, <1>13, <1>14, <1>15
  <2>4. ASSUME NEW i \in Entries("applied"), log[i].id = c.id PROVE gone(i, n)'
    <3>1. i = m
      BY <2>4, <1>4 DEF SchedInv, AppliedInv
    <3>2. Bounded(EventOf(log[i].id))'
      BY <3>1, <1>3, <1>10, <1>13
    <3>3. EndOf(i)' = c.at
      BY <3>1, <1>4, <1>14
    <3>4. \A h \in Range(History') : h.t < c.at
      BY <1>15 DEF SchedInv, ClearsInv
    <3>5. log'[n].t \in Nat /\ log'[n].t <= clock' /\ log'[n].t >= c.at
      <4>1. clock \in Nat /\ clock <= clock /\ clock >= c.at
        BY <1>1
      <4> QED BY <4>1, <1>7
    <3> QED BY <3>2, <3>3, <3>4, <3>5
  <2> HIDE DEF gone
  <2>5. ASSUME NEW i \in Entries("applied")', NEW j \in Entries("cleared")', log'[i].id = log'[j].id
        PROVE  gone(i, j)'
    <3>1. i \in Entries("applied") /\ log'[i] = log[i]
      BY <1>10
    <3>2. CASE j = n
      BY <3>1, <3>2, <2>4, <2>5, <1>7
    <3>3. CASE j \in Entries("cleared")
      BY <3>1, <3>3, <2>2, <2>3, <2>5, <1>9
    <3> QED BY <3>2, <3>3, <1>9
  <2>6. \A j \in Entries("cleared")' : \E i \in Entries("applied")' : log'[i].id = log'[j].id
    <3> TAKE j \in Entries("cleared")'
    <3>1. CASE j = n
      BY <3>1, <1>4, <1>7, <1>10
    <3>2. CASE j \in Entries("cleared")
      <4>1. PICK i \in Entries("applied") : log[i].id = log[j].id
        BY <3>2 DEF SchedInv, ClearedInv, Applied
      <4>2. log'[i].id = log'[j].id
        BY <3>2, <4>1, <1>9, <1>10
      <4> QED BY <4>2, <1>10
    <3> QED BY <3>1, <3>2, <1>9
  <2>7. \A j, k \in Entries("cleared")' : log'[j].id = log'[k].id => j = k
    <3>1. \A j, k \in Entries("cleared") : log[j].id = log[k].id => j = k
      BY DEF SchedInv, ClearedInv
    <3>2. \A j \in Entries("cleared") : log'[j].id # log'[n].id
      BY <2>1, <1>7, <1>9
    <3> QED BY <3>1, <3>2, <1>9
  <2>8. \A j \in Entries("cleared")' : (\E i \in Entries("applied") : log[i].id = log[j].id)'
    BY <2>6
  <2> QED BY <2>5, <2>7, <2>8 DEF ClearedInv, Applied, gone
<1>21. ClearsInv'
  <2>1. ASSUME NEW d \in clears'
        PROVE  /\ \E i \in Entries("applied")' :
                    (Bounded(EventOf(log[i].id)) /\ d = [at |-> EndOf(i), id |-> log[i].id])'
               /\ \A h \in Range(History') : h.t < d.at
    <3>1. PICK i \in Entries("applied") :
            Bounded(EventOf(log[i].id)) /\ d = [at |-> EndOf(i), id |-> log[i].id]
      BY DEF SchedInv, ClearsInv
    <3>2. (Bounded(EventOf(log[i].id)) /\ d = [at |-> EndOf(i), id |-> log[i].id])'
      BY <3>1, <1>10, <1>13, <1>14
    <3>3. \A h \in Range(History') : h.t < d.at
      BY <1>15 DEF SchedInv, ClearsInv
    <3> QED BY <3>2, <3>3, <1>10
  <2>2. ASSUME NEW i \in Entries("applied"),
               (Bounded(EventOf(log[i].id)) /\ ~HasCleared(log[i].id))'
        PROVE  [at |-> EndOf(i), id |-> log[i].id]' \in clears'
    <3>1. PICK id : id = log[i].id /\ id = log'[i].id
      BY <1>10
    <3>2. EventOf(log[i].id)' = EventOf(id) /\ (HasCleared(log[i].id)' <=> HasCleared(id)')
      BY <3>1 DEF EventOf, HasCleared
    <3>3. Bounded(EventOf(id)) /\ ~HasCleared(id) /\ id # c.id
      BY <2>2, <3>1, <3>2, <1>11
    <3>4. [at |-> EndOf(i), id |-> log[i].id] \in clears
      BY <3>1, <3>3, <1>1 DEF SchedInv, ClearsInv
    <3>5. [at |-> EndOf(i), id |-> log[i].id] # c
      <4>1. [at |-> EndOf(i), id |-> log[i].id].id = id
        BY <3>1
      <4> QED BY <4>1, <3>3
    <3>6. [at |-> EndOf(i), id |-> log[i].id]' = [at |-> EndOf(i), id |-> log[i].id]
      BY <3>1, <1>14
    <3> QED BY <3>4, <3>5, <3>6
  <2>3. \A i \in Entries("applied")' :
          (Bounded(EventOf(log[i].id)) /\ ~HasCleared(log[i].id) =>
            [at |-> EndOf(i), id |-> log[i].id] \in clears)'
    BY <2>2, <1>10
  <2> QED BY <2>1, <2>3 DEF ClearsInv
<1>22. TargetInv'
  <2>1. /\ \A id \in target : Applied(id)
        /\ \A i \in Entries("applied") :
             log[i].id \in target <=> ~HasCleared(log[i].id) /\ Persistent(Request(EventOf(log[i].id)))
    BY <1>1 DEF SchedInv, TargetInv
  <2>2. \A id \in target' : Applied(id)'
    BY <2>1, <1>12
  <2>3. \A i \in Entries("applied")' :
          (log[i].id \in target <=> ~HasCleared(log[i].id) /\ Persistent(Request(EventOf(log[i].id))))'
    <3> TAKE i \in Entries("applied")'
    <3>1. PICK id : id = log[i].id /\ id = log'[i].id
      BY <1>10
    <3>2. EventOf(log[i].id)' = EventOf(id) /\ (HasCleared(log[i].id)' <=> HasCleared(id)')
      BY <3>1 DEF EventOf, HasCleared
    <3>3. id \in target <=> ~HasCleared(id) /\ Persistent(Request(EventOf(id)))
      BY <2>1, <3>1, <1>10
    <3>4. (log[i].id \in target)' <=> id \in target /\ id # c.id
      BY <3>1
    <3> QED BY <3>2, <3>3, <3>4, <1>11
  <2> QED BY <2>2, <2>3 DEF TargetInv
<1> QED BY <1>16, <1>17, <1>18, <1>19, <1>20, <1>21, <1>22 DEF SchedInv

\* An injection whose time is over: it is cleared, or passed over when it is not
\* active any more.
LEMMA SchedClearDue ==
  ASSUME SchedInv, TeleInv, ClearDue
  PROVE  SchedInv'
<1>1. UNCHANGED <<scenario, pc, token, clock, pending, sent, batch, exc>> /\ pc = "scheduled"
  BY DEF ClearDue, tele, ending
<1>2. PICK c \in clears :
        /\ Due(c.at) /\ clears' = clears \ {c}
        /\ IF IsActive(c.id)
           THEN /\ active' = Without(active, c.id)
                /\ target' = target \ {c.id}
                /\ Say(<<Cleared(c.id, clock, "duration_elapsed")>>)
           ELSE UNCHANGED <<active, target, log>>
  BY DEF ClearDue
<1>3. CASE IsActive(c.id)
  <2>1. c.at \in Nat
    BY ClearsTimes
  <2>2. PICK at \in Nat : c.at = at
    BY <2>1
  <2>3. at <= clock
    BY <2>2, <1>2 DEF Due
  <2> QED BY <2>2, <2>3, <1>1, <1>2, <1>3, SchedClear DEF Say
<1>4. CASE ~IsActive(c.id)
  <2>1. UNCHANGED <<active, target, log>>
    BY <1>2, <1>4
  <2>2. /\ Entries("applied")' = Entries("applied") /\ Entries("cleared")' = Entries("cleared")
        /\ Known' = Known /\ History' = History
    BY <2>1, <1>1 DEF Entries, Known, History
  <2>3. \A id : /\ EventOf(id)' = EventOf(id) /\ Applied(id)' = Applied(id)
                /\ HasCleared(id)' = HasCleared(id) /\ IsActive(id)' = IsActive(id)
    BY <2>1, <2>2, <1>1 DEF EventOf, Applied, HasCleared, IsActive
  <2>4. \A i : EndOf(i)' = EndOf(i)
    BY <2>1, <2>3 DEF EndOf
  <2>5. HasCleared(c.id)
    <3>1. PICK m \in Entries("applied") :
            Bounded(EventOf(log[m].id)) /\ c = [at |-> EndOf(m), id |-> log[m].id]
      BY DEF SchedInv, ClearsInv
    <3>2. PICK e \in Known : e.id = log[m].id
      BY DEF SchedInv, AppliedInv
    <3>3. EventOf(log[m].id) = e /\ IsEvent(e)
      BY <3>2, EventInIs, ListsEvents DEF EventOf, Known, SchedInv, MissionInv
    <3>4. Persistent(Request(e))
      BY <3>1, <3>3 DEF Bounded, IsEvent, Persistent, Request
    <3>5. c.id = log[m].id
      BY <3>1
    <3> QED BY <3>3, <3>4, <3>5, <1>4 DEF SchedInv, ActiveInv
  <2>6. MissionInv' /\ PendingInv' /\ ActiveInv' /\ TargetInv'
    BY <2>1, <2>2, <2>3, <1>1 DEF SchedInv, MissionInv, PendingInv, ActiveInv, TargetInv
  <2>7. AppliedInv'
    BY <2>1, <2>2, <1>1 DEF SchedInv, AppliedInv, Starting
  <2>8. ClearedInv'
    BY <2>1, <2>2, <2>3, <2>4, <1>1 DEF SchedInv, ClearedInv
  <2>9. ClearsInv'
    <3>1. \A d \in clears :
            /\ \E i \in Entries("applied") :
                 Bounded(EventOf(log[i].id)) /\ d = [at |-> EndOf(i), id |-> log[i].id]
            /\ \A h \in Range(History) : h.t < d.at
      BY DEF SchedInv, ClearsInv
    <3>2. \A i \in Entries("applied") :
            Bounded(EventOf(log[i].id)) /\ ~HasCleared(log[i].id) =>
              [at |-> EndOf(i), id |-> log[i].id] \in clears'
      <4> TAKE i \in Entries("applied")
      <4> HAVE Bounded(EventOf(log[i].id)) /\ ~HasCleared(log[i].id)
      <4>1. [at |-> EndOf(i), id |-> log[i].id] \in clears
        BY <1>1 DEF SchedInv, ClearsInv, Mission, InTry
      <4>2. [at |-> EndOf(i), id |-> log[i].id].id = log[i].id
        OBVIOUS
      <4>3. [at |-> EndOf(i), id |-> log[i].id] # c
        BY <4>2, <2>5
      <4> QED BY <4>1, <4>3, <1>2
    <3>3. \A d \in clears' : d \in clears
      BY <1>2
    <3> QED BY <3>1, <3>2, <3>3, <2>1, <2>2, <2>3, <2>4, <1>1 DEF ClearsInv
  <2> QED BY <2>6, <2>7, <2>8, <2>9 DEF SchedInv
<1> QED BY <1>3, <1>4

\* The end of the mission: verdicts, and what has no duration is cleared.
LEMMA SchedLeave ==
  ASSUME SchedInv, TeleInv, ListInv, Leave
  PROVE  SchedInv'
<1> DEFINE atEnd   == {i \in DOMAIN active : ClearedAtEnd(active[i])}
           kept    == {i \in DOMAIN active : ~ClearedAtEnd(active[i]) /\ Persistent(active[i])}
           ended   == ElementsAt(active, atEnd)
           flushed == [i \in DOMAIN expectations |-> Flushed(expectations[i])]
           cleared == [i \in DOMAIN ended |-> Cleared(ended[i].id, clock, "scenario_end")]
           more    == flushed \o cleared
<1>1. /\ UNCHANGED <<scenario, token, pending, clock, exc>> /\ pc = "leaving" /\ pc' = "final"
      /\ clears' = {} /\ sent' = sent \o batch /\ batch' = <<>>
      /\ active' = ElementsAt(active, kept)
      /\ target' = target \ {r.id : r \in Range(ended)}
      /\ log' = log \o more
  BY DEF Leave, ending, Say
<1>2. /\ scenario \in Scenarios /\ DistinctIds(scenario) /\ clock \in Nat /\ IsSequence(log)
      /\ IsSequence(active) /\ exc = None /\ pc \in Mission /\ IsSequence(expectations)
      /\ \A i, j \in DOMAIN active : active[i].id = active[j].id => i = j
  BY <1>1 DEF SchedInv, MissionInv, ActiveInv, Mission, InTry, ListInv
<1>3. atEnd \in SUBSET DOMAIN active /\ kept \in SUBSET DOMAIN active
  OBVIOUS
<1>4. /\ IsSequence(ended)
      /\ \A r : r \in Range(ended) <=> r \in Range(active) /\ ClearedAtEnd(r)
      /\ \A i, j \in DOMAIN ended : ended[i].id = ended[j].id => i = j
  <2>1. /\ IsSequence(ended) /\ Range(ended) = {active[k] : k \in atEnd}
        /\ \A i, j \in DOMAIN ended : ended[i].id = ended[j].id => i = j
    <3> HIDE DEF atEnd
    <3> QED BY <1>2, <1>3, SelectedRequests DEF Apart
  <2> HIDE DEF ended
  <2> QED BY <2>1 DEF Range
<1>5. /\ IsSequence(active')
      /\ \A r : r \in Range(active') <=> r \in Range(active) /\ ~ClearedAtEnd(r) /\ Persistent(r)
      /\ \A i, j \in DOMAIN active' : active'[i].id = active'[j].id => i = j
  <2>1. /\ IsSequence(active') /\ Range(active') = {active[k] : k \in kept}
        /\ \A i, j \in DOMAIN active' : active'[i].id = active'[j].id => i = j
    <3> HIDE DEF kept
    <3> QED BY <1>1, <1>2, <1>3, SelectedRequests DEF Apart
  <2> QED BY <2>1 DEF Range
<1> HIDE DEF atEnd, kept, ended
<1>6. /\ IsSequence(flushed) /\ \A i \in DOMAIN flushed : flushed[i].kind = "verdict"
      /\ IsSequence(cleared) /\ DOMAIN cleared = DOMAIN ended
      /\ \A i \in DOMAIN cleared :
           /\ cleared[i].kind = "cleared" /\ cleared[i].id = ended[i].id
           /\ cleared[i].t = clock /\ cleared[i].reason = "scenario_end"
  <2>1. IsSequence(flushed)
    BY <1>2, MappedSequence
  <2>2. IsSequence(cleared)
    BY <1>4, MappedSequence
  <2>3. \A i \in DOMAIN flushed : flushed[i].kind = "verdict"
    BY DEF Flushed, Verdict
  <2>4. \A i \in DOMAIN cleared :
          /\ cleared[i].kind = "cleared" /\ cleared[i].id = ended[i].id
          /\ cleared[i].t = clock /\ cleared[i].reason = "scenario_end"
    BY DEF Cleared
  <2>5. DOMAIN cleared = DOMAIN ended
    OBVIOUS
  <2> HIDE DEF flushed, cleared
  <2> QED BY <2>1, <2>2, <2>3, <2>4, <2>5
<1> HIDE DEF flushed, cleared
<1>7. PICK F, L : F = Len(flushed) /\ L = Len(log)
  OBVIOUS
<1>8. /\ IsSequence(more) /\ F \in Nat /\ DOMAIN ended \subseteq Nat
      /\ \A k \in DOMAIN more : (k \in DOMAIN flushed /\ more[k] = flushed[k])
                                \/ \E i \in DOMAIN ended : k = F + i /\ more[k] = cleared[i]
      /\ \A i \in DOMAIN ended : F + i \in DOMAIN more /\ more[F + i] = cleared[i]
  <2>1. /\ IsSequence(more) /\ F \in Nat /\ Len(cleared) \in Nat /\ Len(more) = F + Len(cleared)
        /\ \A i \in 1..F : more[i] = flushed[i]
        /\ \A i \in 1..Len(cleared) : more[F + i] = cleared[i]
    <3>1. /\ IsSequence(more) /\ Len(flushed) \in Nat /\ Len(cleared) \in Nat
          /\ Len(more) = Len(flushed) + Len(cleared)
          /\ \A i \in 1..Len(flushed) : more[i] = flushed[i]
          /\ \A i \in 1..Len(cleared) : more[Len(flushed) + i] = cleared[i]
      BY <1>6, ConcatSequence
    <3> HIDE DEF more
    <3> QED BY <3>1, <1>7
  <2>2. DOMAIN flushed = 1..F /\ DOMAIN cleared = 1..Len(cleared) /\ DOMAIN more = 1..Len(more)
    BY <2>1, <1>6, <1>7 DEF IsSequence
  <2> HIDE DEF more
  <2>3. ASSUME NEW k \in DOMAIN more, k \notin DOMAIN flushed
        PROVE  \E i \in DOMAIN ended : k = F + i /\ more[k] = cleared[i]
    <3>1. PICK i : i = k - F
      OBVIOUS
    <3>2. i \in 1..Len(cleared) /\ k = F + i
      BY <2>1, <2>2, <2>3, <3>1
    <3> QED BY <3>2, <2>1, <2>2, <1>6
  <2>4. \A i \in DOMAIN ended : F + i \in DOMAIN more /\ i \in 1..Len(cleared)
    BY <2>1, <2>2, <1>6
  <2>5. DOMAIN ended \subseteq Nat
    BY <2>2, <1>6
  <2> QED BY <2>1, <2>2, <2>3, <2>4, <2>5
<1> HIDE DEF more
<1>9. /\ IsSequence(log') /\ L \in Nat
      /\ \A i \in DOMAIN log : i \in DOMAIN log' /\ log'[i] = log[i]
      /\ \A k \in DOMAIN more : L + k \in DOMAIN log' /\ log'[L + k] = more[k] /\ L + k \notin DOMAIN log
      /\ \A i \in DOMAIN log' : i \in DOMAIN log \/ \E k \in DOMAIN more : i = L + k
  <2>1. /\ IsSequence(log') /\ L \in Nat
        /\ \A i \in DOMAIN log : i \in DOMAIN log' /\ log'[i] = log[i]
    BY <1>1, <1>2, <1>7, <1>8, LogGrows
  <2>4. \A k \in DOMAIN more : /\ Len(log) + k \in DOMAIN log' /\ log'[Len(log) + k] = more[k]
                               /\ Len(log) + k \notin DOMAIN log
    BY <1>1, <1>2, <1>8, LogGrows
  <2>5. \A i \in DOMAIN log' : i \in DOMAIN log \/ \E k \in DOMAIN more : i = Len(log) + k
    BY <1>1, <1>2, <1>8, LogGrows
  <2>2. \A k \in DOMAIN more : L + k \in DOMAIN log' /\ log'[L + k] = more[k] /\ L + k \notin DOMAIN log
    BY <2>4, <1>7
  <2>3. \A i \in DOMAIN log' : i \in DOMAIN log \/ \E k \in DOMAIN more : i = L + k
    BY <2>5, <1>7
  <2> QED BY <2>1, <2>2, <2>3
<1>10. Same("applied")
  <2>1. \A k \in DOMAIN more : more[k].kind # "applied"
    BY <1>6, <1>8
  <2> QED BY <2>1, <1>1, <1>2, <1>8, Unnoted
<1>11. \A j \in Entries("cleared") : j \in Entries("cleared")' /\ log'[j] = log[j]
  BY <1>9 DEF Entries
<1>12. ASSUME NEW j \in Entries("cleared")', j \notin Entries("cleared")
       PROVE  \E i \in DOMAIN ended : /\ j = L + (F + i) /\ log'[j].id = ended[i].id
                                      /\ log'[j].t = clock /\ log'[j].reason = "scenario_end"
  <2>1. j \in DOMAIN log' /\ log'[j].kind = "cleared"
    BY DEF Entries
  <2>2. j \notin DOMAIN log
    BY <2>1, <1>9, <1>12 DEF Entries
  <2>3. PICK k \in DOMAIN more : j = L + k /\ log'[j] = more[k]
    BY <2>1, <2>2, <1>9
  <2>4. PICK i \in DOMAIN ended : k = F + i /\ more[k] = cleared[i]
    BY <2>1, <2>3, <1>6, <1>8
  <2> QED BY <2>3, <2>4, <1>6
<1>13. \A i \in DOMAIN ended : L + (F + i) \in Entries("cleared")' /\ log'[L + (F + i)].id = ended[i].id
  BY <1>6, <1>8, <1>9 DEF Entries
<1>14. \A id : HasCleared(id)' <=> HasCleared(id) \/ \E r \in Range(ended) : r.id = id
  <2> SUFFICES ASSUME NEW id PROVE HasCleared(id)' <=> HasCleared(id) \/ \E r \in Range(ended) : r.id = id
    OBVIOUS
  <2>1. HasCleared(id) => HasCleared(id)'
    BY <1>11 DEF HasCleared
  <2>2. (\E r \in Range(ended) : r.id = id) => HasCleared(id)'
    BY <1>13 DEF HasCleared, Range
  <2>3. ASSUME NEW j \in Entries("cleared")', log'[j].id = id
        PROVE  HasCleared(id) \/ \E r \in Range(ended) : r.id = id
    <3>1. CASE j \in Entries("cleared")
      BY <2>3, <3>1, <1>11 DEF HasCleared
    <3>2. CASE j \notin Entries("cleared")
      BY <2>3, <3>2, <1>12 DEF Range
    <3> QED BY <3>1, <3>2
  <2> QED BY <2>1, <2>2, <2>3 DEF HasCleared
<1>15. \A r \in Range(active) : Applied(r.id) /\ ~HasCleared(r.id) /\ r = Request(EventOf(r.id))
  BY DEF SchedInv, ActiveInv
<1>16. \A r, q \in Range(active) : r.id = q.id => r = q
  BY <1>2 DEF Range
<1>17. /\ Entries("applied")' = Entries("applied")
       /\ \A i \in Entries("applied") : log'[i] = log[i]
  BY <1>10 DEF Same
<1>18. \A id : /\ Applied(id)' = Applied(id) /\ EventOf(id)' = EventOf(id)
               /\ (IsActive(id) <=> \E r \in Range(active) : r.id = id)
               /\ (IsActive(id)' <=> \E r \in Range(active') : r.id = id)
  BY <1>1, <1>17 DEF Applied, EventOf, IsActive, Range
<1>19. \A i \in Entries("applied") : EndOf(i)' = EndOf(i)
  BY <1>17, <1>18 DEF EndOf
<1>20. Known' = Known /\ Range(History') = Range(History)
  <2>1. IsSequence(sent) /\ IsSequence(batch)
    BY DEF TeleInv, TeleType
  <2>2. IsSequence(sent \o batch)
    BY <2>1, ConcatSequence
  <2>3. (sent \o batch) \o <<>> = sent \o batch
    BY <2>2 DEF IsSequence
  <2> QED BY <2>3, <1>1 DEF Known, History
<1>21. MissionInv' /\ PendingInv' /\ AppliedInv'
  <2>1. MissionInv'
    BY <1>1, <1>2, <1>9 DEF MissionInv, Mission, InTry
  <2>2. PendingInv'
    BY <1>1, <1>18, <1>20 DEF SchedInv, PendingInv
  <2>3. AppliedInv'
    BY <1>1, <1>17, <1>20 DEF SchedInv, AppliedInv, Starting
  <2> QED BY <2>1, <2>2, <2>3
<1>22. \A i \in Entries("applied") :
         \E id : /\ id = log[i].id /\ id = log'[i].id
                /\ EventOf(log[i].id)' = EventOf(id) /\ (HasCleared(log[i].id)' <=> HasCleared(id)')
                /\ (IsActive(log[i].id)' <=> IsActive(id)')
  <2> TAKE i \in Entries("applied")
  <2>1. PICK id : id = log[i].id /\ id = log'[i].id
    BY <1>17
  <2>2. EventOf(log[i].id)' = EventOf(id) /\ (HasCleared(log[i].id)' <=> HasCleared(id)')
        /\ (IsActive(log[i].id)' <=> IsActive(id)')
    BY <2>1, <1>1 DEF EventOf, HasCleared, IsActive
  <2> QED BY <2>1, <2>2
\* What is persistent and was not cleared is left if it is bounded, and cleared otherwise.
<1>23. ASSUME NEW i \in Entries("applied"), ~HasCleared(log[i].id), Persistent(Request(EventOf(log[i].id)))
       PROVE  \E r \in Range(active) : r.id = log[i].id /\ r = Request(EventOf(r.id))
  <2>1. IsActive(log[i].id)
    BY <1>23 DEF SchedInv, ActiveInv
  <2> QED BY <2>1, <1>15, <1>18
<1>24. ActiveInv'
  <2>1. \A r \in Range(active') : ~HasCleared(r.id)'
    BY <1>4, <1>5, <1>14, <1>15, <1>16
  <2>2. \A r \in Range(active') : (Applied(r.id) /\ ~HasCleared(r.id) /\ r = Request(EventOf(r.id)))'
    BY <2>1, <1>5, <1>15, <1>18
  <2>3. \A i \in Entries("applied") :
          (Persistent(Request(EventOf(log[i].id))) /\ ~HasCleared(log[i].id) => IsActive(log[i].id))'
    <3> TAKE i \in Entries("applied")
    <3>1. PICK id : /\ id = log[i].id /\ id = log'[i].id
                    /\ EventOf(log[i].id)' = EventOf(id) /\ (HasCleared(log[i].id)' <=> HasCleared(id)')
                    /\ (IsActive(log[i].id)' <=> IsActive(id)')
      BY <1>22
    <3>2. ASSUME Persistent(Request(EventOf(id))), ~HasCleared(id)' PROVE IsActive(id)'
      <4>1. PICK r \in Range(active) : r.id = id /\ r = Request(EventOf(id))
        BY <3>1, <3>2, <1>14, <1>23
      <4>2. r \notin Range(ended)
        BY <3>2, <4>1, <1>14
      <4>3. r \in Range(active')
        BY <3>2, <4>1, <4>2, <1>4, <1>5
      <4> QED BY <4>1, <4>3, <1>18
    <3> QED BY <3>1, <3>2
  <2> QED BY <2>2, <2>3, <1>5, <1>17 DEF ActiveInv
<1>25. ClearedInv'
  <2> DEFINE gone(i, j) ==
               IF Bounded(EventOf(log[i].id))
               THEN /\ log[j].t \in Nat /\ log[j].t <= clock /\ log[j].t >= EndOf(i)
                    /\ \A h \in Range(History) : h.t < log[j].t => h.t < EndOf(i)
               ELSE log[j].reason = "scenario_end" /\ pc \notin Mission
  <2>1. pc' \notin Mission
    BY <1>1 DEF Mission, InTry
  <2>2. \A i \in Entries("applied"), j \in Entries("cleared") : log[i].id = log[j].id => gone(i, j)
    BY DEF SchedInv, ClearedInv
  <2>3. \A i \in Entries("applied"), j \in Entries("cleared") : gone(i, j) => gone(i, j)'
    BY <2>1, <1>1, <1>11, <1>17, <1>18, <1>19, <1>20
  <2>4. ASSUME NEW i \in Entries("applied"), NEW j \in Entries("cleared")', j \notin Entries("cleared"),
               log'[i].id = log'[j].id
        PROVE  gone(i, j)'
    <3>1. PICK k \in DOMAIN ended : log'[j].id = ended[k].id /\ log'[j].reason = "scenario_end"
      BY <2>4, <1>12
    <3>2. ended[k] \in Range(active) /\ ClearedAtEnd(ended[k])
      BY <1>4 DEF Range
    <3>3. PICK id : id = ended[k].id /\ EventOf(log[i].id)' = EventOf(id)
      BY <2>4, <3>1, <1>22
    <3>4. EventOf(id).duration = None
      BY <3>2, <3>3, <1>15 DEF ClearedAtEnd, Request
    <3>5. ~Bounded(EventOf(log[i].id))'
      BY <3>3, <3>4 DEF Bounded
    <3> QED BY <3>1, <3>5, <2>1
  <2> HIDE DEF gone
  <2>5. ASSUME NEW i \in Entries("applied")', NEW j \in Entries("cleared")', log'[i].id = log'[j].id
        PROVE  gone(i, j)'
    <3>1. CASE j \in Entries("cleared")
      BY <2>2, <2>3, <2>5, <3>1, <1>11, <1>17
    <3>2. CASE j \notin Entries("cleared")
      BY <2>4, <2>5, <3>2, <1>17
    <3> QED BY <3>1, <3>2
  <2>6. \A j \in Entries("cleared")' : \E i \in Entries("applied")' : log'[i].id = log'[j].id
    <3> TAKE j \in Entries("cleared")'
    <3>1. PICK i \in Entries("applied") : log[i].id = log'[j].id
      <4>1. CASE j \in Entries("cleared")
        BY <4>1, <1>11 DEF SchedInv, ClearedInv, Applied
      <4>2. CASE j \notin Entries("cleared")
        <5>1. PICK k \in DOMAIN ended : log'[j].id = ended[k].id
          BY <4>2, <1>12
        <5>2. Applied(ended[k].id)
          BY <1>4, <1>15 DEF Range
        <5> QED BY <5>1, <5>2 DEF Applied
      <4> QED BY <4>1, <4>2
    <3> QED BY <3>1, <1>17
  <2>7. ASSUME NEW j \in Entries("cleared")', NEW k \in Entries("cleared")', log'[j].id = log'[k].id
        PROVE  j = k
    <3>1. \A l \in Entries("cleared")', m \in Entries("cleared") :
            l \notin Entries("cleared") => log'[l].id # log'[m].id
      <4> TAKE l \in Entries("cleared")', m \in Entries("cleared")
      <4> HAVE l \notin Entries("cleared")
      <4>1. PICK i \in DOMAIN ended : log'[l].id = ended[i].id
        BY <1>12
      <4>2. ~HasCleared(ended[i].id)
        BY <1>4, <1>15 DEF Range
      <4> QED BY <4>1, <4>2, <1>11 DEF HasCleared
    <3>2. CASE j \in Entries("cleared") /\ k \in Entries("cleared")
      BY <2>7, <3>2, <1>11 DEF SchedInv, ClearedInv
    <3>3. CASE j \notin Entries("cleared") /\ k \notin Entries("cleared")
      <4>1. PICK i \in DOMAIN ended : j = L + (F + i) /\ log'[j].id = ended[i].id
        BY <3>3, <1>12
      <4>2. PICK m \in DOMAIN ended : k = L + (F + m) /\ log'[k].id = ended[m].id
        BY <3>3, <1>12
      <4> QED BY <2>7, <4>1, <4>2, <1>4
    <3> QED BY <2>7, <3>1, <3>2, <3>3
  <2>8. \A j \in Entries("cleared")' : (\E i \in Entries("applied") : log[i].id = log[j].id)'
    BY <2>6
  <2> QED BY <2>5, <2>7, <2>8 DEF ClearedInv, Applied, gone
<1>26. ClearsInv'
  <2>1. ~token =>
          \A i \in Entries("applied") :
            Bounded(EventOf(log[i].id)) /\ ~HasCleared(log[i].id) => clock < EndOf(i)
    <3> SUFFICES ASSUME ~token, NEW i \in Entries("applied"),
                        Bounded(EventOf(log[i].id)), ~HasCleared(log[i].id)
                 PROVE  clock < EndOf(i)
      OBVIOUS
    <3>1. [at |-> EndOf(i), id |-> log[i].id] \in clears
      BY <1>2 DEF SchedInv, ClearsInv
    <3>2. \A c \in clears : clock < c.at
      BY <1>1 DEF SchedInv, ClearsInv
    <3>3. [at |-> EndOf(i), id |-> log[i].id].at = EndOf(i)
      OBVIOUS
    <3>4. clock < [at |-> EndOf(i), id |-> log[i].id].at
      BY <3>1, <3>2
    <3> QED BY <3>3, <3>4
  <2>2. ~token' =>
          \A i \in Entries("applied")' :
            (Bounded(EventOf(log[i].id)) /\ ~HasCleared(log[i].id) => clock < EndOf(i))'
    <3> HAVE ~token'
    <3> TAKE i \in Entries("applied")'
    <3>1. i \in Entries("applied") /\ clock' = clock /\ EndOf(i)' = EndOf(i) /\ ~token
      BY <1>1, <1>17, <1>19
    <3>2. PICK id : /\ id = log[i].id /\ id = log'[i].id
                    /\ EventOf(log[i].id)' = EventOf(id) /\ (HasCleared(log[i].id)' <=> HasCleared(id)')
      BY <3>1, <1>22
    <3>3. ASSUME Bounded(EventOf(id)), ~HasCleared(id)' PROVE clock < EndOf(i)
      BY <3>1, <3>2, <3>3, <2>1, <1>14
    <3>4. Bounded(EventOf(log[i].id))' <=> Bounded(EventOf(id))
      BY <3>2 DEF Bounded
    <3> QED BY <3>1, <3>2, <3>3, <3>4
  <2> QED BY <2>2, <1>1 DEF ClearsInv, Mission, InTry
<1>27. TargetInv'
  <2>1. /\ \A id \in target : Applied(id)
        /\ \A i \in Entries("applied") :
             log[i].id \in target <=> ~HasCleared(log[i].id) /\ Persistent(Request(EventOf(log[i].id)))
    BY <1>2 DEF SchedInv, TargetInv
  <2>2. \A id \in target' : Applied(id)'
    BY <2>1, <1>1, <1>18
  <2>3. \A i \in Entries("applied")' :
          (/\ log[i].id \in target <=> ~HasCleared(log[i].id) /\ Persistent(Request(EventOf(log[i].id)))
           /\ ClearedAtEnd(Request(EventOf(log[i].id))) => HasCleared(log[i].id))'
    <3> TAKE i \in Entries("applied")'
    <3>0. i \in Entries("applied")
      BY <1>17
    <3>1. PICK id : /\ id = log[i].id /\ id = log'[i].id
                    /\ EventOf(log[i].id)' = EventOf(id) /\ (HasCleared(log[i].id)' <=> HasCleared(id)')
      BY <3>0, <1>22
    <3>2. id \in target <=> ~HasCleared(id) /\ Persistent(Request(EventOf(id)))
      BY <2>1, <3>0, <3>1
    <3>3. (log[i].id \in target)' <=> id \in target /\ ~\E r \in Range(ended) : r.id = id
      BY <3>1, <1>1
    <3>4. ASSUME ClearedAtEnd(Request(EventOf(id))), ~HasCleared(id) PROVE \E r \in Range(ended) : r.id = id
      <4>1. Persistent(Request(EventOf(id)))
        BY <3>4 DEF ClearedAtEnd
      <4>2. PICK r \in Range(active) : r.id = id /\ r = Request(EventOf(id))
        BY <3>0, <3>1, <3>4, <4>1, <1>23
      <4> QED BY <3>4, <4>2, <1>4
    <3>5. (log[i].id \in target)' <=> ~HasCleared(id)' /\ Persistent(Request(EventOf(id)))
      BY <3>2, <3>3, <1>14
    <3>6. ClearedAtEnd(Request(EventOf(id))) => HasCleared(id)'
      BY <3>4, <1>14
    <3> QED BY <3>1, <3>5, <3>6
  <2> QED BY <2>2, <2>3, <1>17 DEF TargetInv
<1> QED BY <1>21, <1>24, <1>25, <1>26, <1>27 DEF SchedInv

\* Changed applies each change to what the one before made.
LEMMA ChangedSteps ==
  ASSUME NEW m, NEW changes, Len(changes) \in Nat
  PROVE  \E f : /\ f[0] = m
                /\ \A n \in 1..Len(changes) : f[n] = Change(f[n - 1], changes[n])
                /\ Changed(m, changes) = f[Len(changes)]
<1> DEFINE N == Len(changes)
           Goes(g, k) == /\ g[0] = m
                         /\ \A n \in 1..k : g[n] = Change(g[n - 1], changes[n])
           Good == {k \in Nat : \E g : Goes(g, k)}
<1>1. 0 \in Good
  <2>1. Goes([n \in {0} |-> m], 0)
    OBVIOUS
  <2> QED BY <2>1
<1>2. ASSUME NEW k \in 0..(N - 1), k \in Good PROVE k + 1 \in Good
  <2>1. PICK g : Goes(g, k)
    BY <1>2
  <2> DEFINE h == [n \in 0..(k + 1) |-> IF n <= k THEN g[n] ELSE Change(g[k], changes[k + 1])]
  <2>2. k \in Nat /\ k + 1 \in Nat
    OBVIOUS
  <2>3. h[0] = m
    BY <2>1, <2>2
  <2>4. ASSUME NEW n \in 1..(k + 1) PROVE h[n] = Change(h[n - 1], changes[n])
    <3>1. n \in 0..(k + 1) /\ n - 1 \in 0..(k + 1) /\ n - 1 <= k
      BY <2>2
    <3>2. h[n - 1] = g[n - 1]
      BY <3>1
    <3>3. CASE n <= k
      <4>1. h[n] = g[n] /\ n \in 1..k
        BY <3>1, <3>3, <2>2
      <4>2. g[n] = Change(g[n - 1], changes[n])
        BY <4>1, <2>1
      <4> HIDE DEF h
      <4> QED BY <3>2, <4>1, <4>2
    <3>4. CASE ~(n <= k)
      <4>1. n = k + 1 /\ n - 1 = k
        BY <3>4, <2>2
      <4>2. h[n] = Change(g[k], changes[k + 1])
        BY <3>1, <3>4
      <4> HIDE DEF h
      <4> QED BY <3>2, <4>1, <4>2
    <3> QED BY <3>3, <3>4
  <2> HIDE DEF h
  <2>5. Goes(h, k + 1)
    BY <2>3, <2>4
  <2> QED BY <2>2, <2>5
<1> HIDE DEF Goes
<1>3. \A k \in 0..N : k \in Good
  <2> HIDE DEF Good
  <2> QED BY <1>1, <1>2, Induction
<1>4. PICK g : Goes(g, N)
  BY <1>3
<1> DEFINE after == [n \in 0..N |-> g[n]]
           Recursive(f) == f = [n \in 0..N |-> IF n = 0 THEN m ELSE Change(f[n - 1], changes[n])]
<1>5. Recursive(after)
  <2> DEFINE b(n) == IF n = 0 THEN m ELSE Change(after[n - 1], changes[n])
  <2>1. ASSUME NEW n \in 0..N PROVE g[n] = b(n)
    <3>1. CASE n = 0
      BY <3>1, <1>4 DEF Goes
    <3>2. CASE n # 0
      <4>1. n \in 1..N /\ n - 1 \in 0..N
        BY <3>2
      <4>2. after[n - 1] = g[n - 1]
        BY <4>1
      <4>3. g[n] = Change(g[n - 1], changes[n])
        BY <4>1, <1>4 DEF Goes
      <4> HIDE DEF after
      <4> QED BY <3>2, <4>2, <4>3
    <3> QED BY <3>1, <3>2
  <2> QED BY <2>1
<1> HIDE DEF after
<1>6. Changed(m, changes) = (CHOOSE g0 : Recursive(g0))[N]
  BY DEF Changed
<1>7. PICK f : f = (CHOOSE g0 : Recursive(g0)) /\ Recursive(f)
  BY <1>5
<1> HIDE DEF Recursive
<1>8. f[0] = m
  <2>1. 0 \in 0..N
    OBVIOUS
  <2> QED BY <1>7, <2>1 DEF Recursive
<1>9. \A n \in 1..N : f[n] = Change(f[n - 1], changes[n])
  <2> TAKE n \in 1..N
  <2>1. n \in 0..N /\ n # 0
    OBVIOUS
  <2> QED BY <1>7, <2>1 DEF Recursive
<1> QED BY <1>6, <1>7, <1>8, <1>9

\* What the changes of an observation leave of the active requests: all persistent
\* ones; and they say nothing of injections.
Keeps(requests, m) ==
  /\ IsSequence(m.active) /\ Range(m.active) \subseteq Range(requests)
  /\ \A r \in Range(requests) : Persistent(r) => r \in Range(m.active)
  /\ Apart(requests) => Apart(m.active)
  /\ IsSequence(m.said)
  /\ \A k \in DOMAIN m.said : m.said[k].kind \in {"recovery", "effect", "normalized"}

\* One change keeps that.
LEMMA ChangeKeeps ==
  ASSUME NEW requests, NEW m, Keeps(requests, m), NEW change
  PROVE  Keeps(requests, Change(m, change))
<1> DEFINE places == {i \in DOMAIN m.active : m.active[i].sub # change.sub \/ Persistent(m.active[i])}
<1>1. CASE m.states[change.sub] = change.after
  BY <1>1 DEF Change
<1>2. CASE m.states[change.sub] # change.after
  <2>1. PICK e : /\ Change(m, change).said = Append(m.said, e)
                 /\ e.kind \in {"recovery", "effect", "normalized"}
                 /\ \/ Change(m, change).active = m.active
                    \/ Change(m, change).active = Forgotten(m.active, change.sub)
    <3> DEFINE before   == m.states[change.sub]
               recovers == change.after \in Healthy /\ before \notin Healthy
               hit      == change.after \notin Healthy
               cause    == IF change.cause # None THEN change.cause
                           ELSE AttributeCause(m.active, change.sub)
               took     == IF ~recovers \/ m.open[change.sub] = None THEN None
                           ELSE clock - m.open[change.sub]
               entry    == [kind |-> IF recovers THEN "recovery"
                                     ELSE IF hit THEN "effect" ELSE "normalized",
                            sub |-> change.sub, before |-> before, after |-> change.after,
                            t |-> clock, cause |-> cause, took |-> took]
               known    == [m.states EXCEPT ![change.sub] = change.after]
               open     == IF recovers THEN [m.open EXCEPT ![change.sub] = None]
                           ELSE IF hit THEN Opened(m, change) ELSE m.open
               requests1 == IF recovers THEN Forgotten(m.active, change.sub) ELSE m.active
               next     == [states |-> known, open |-> open, active |-> requests1,
                            said |-> Append(m.said, entry)]
    <3>1. Change(m, change) = next
      BY <1>2, Zenon DEF Change
    <3>2. entry.kind \in {"recovery", "effect", "normalized"}
      OBVIOUS
    <3>3. requests1 = m.active \/ requests1 = Forgotten(m.active, change.sub)
      OBVIOUS
    <3> HIDE DEF entry, known, open, requests1
    <3>4. next.said = Append(m.said, entry) /\ next.active = requests1
      OBVIOUS
    <3> HIDE DEF next
    <3> QED BY <3>1, <3>2, <3>3, <3>4
  <2>2. PICK q : q = Change(m, change)
    OBVIOUS
  <2>3. IsSequence(q.said) /\ \A k \in DOMAIN q.said : q.said[k].kind \in {"recovery", "effect", "normalized"}
    <3>1. IsSequence(m.said) /\ q.said = Append(m.said, e)
      BY <2>1, <2>2 DEF Keeps
    <3>2. /\ IsSequence(q.said) /\ Len(m.said) \in Nat /\ DOMAIN m.said = 1..Len(m.said)
          /\ DOMAIN q.said = 1..(Len(m.said) + 1) /\ q.said[Len(m.said) + 1] = e
          /\ \A i \in 1..Len(m.said) : q.said[i] = m.said[i]
      BY <3>1, AppendSequence DEF IsSequence
    <3> SUFFICES ASSUME NEW k \in DOMAIN q.said PROVE q.said[k].kind \in {"recovery", "effect", "normalized"}
      BY <3>2
    <3>3. k \in 1..Len(m.said) \/ k = Len(m.said) + 1
      BY <3>2
    <3>4. CASE k \in 1..Len(m.said)
      BY <3>2, <3>4 DEF Keeps
    <3>5. CASE k = Len(m.said) + 1
      BY <3>2, <3>5, <2>1
    <3> QED BY <3>3, <3>4, <3>5
  <2>4. CASE q.active = m.active
    BY <2>2, <2>3, <2>4 DEF Keeps
  <2>5. CASE q.active = Forgotten(m.active, change.sub)
    <3>1. places \in SUBSET DOMAIN m.active /\ q.active = ElementsAt(m.active, places)
      BY <2>5 DEF Forgotten
    <3>2. /\ IsSequence(q.active) /\ Range(q.active) = {m.active[k] : k \in places}
          /\ Apart(m.active) => Apart(q.active)
      <4> HIDE DEF places
      <4>1. IsSequence(m.active)
        BY DEF Keeps
      <4> QED BY <3>1, <4>1, SelectedRequests
    <3>3. Range(q.active) \subseteq Range(m.active)
      BY <3>2 DEF Range
    <3>4. \A r \in Range(m.active) : Persistent(r) => r \in Range(q.active)
      BY <3>2 DEF Range
    <3> QED BY <3>2, <3>3, <3>4, <2>2, <2>3 DEF Keeps
  <2> QED BY <2>1, <2>2, <2>4, <2>5
<1> QED BY <1>1, <1>2

\* So do all of an observation.
LEMMA ChangedKeeps ==
  ASSUME NEW requests, NEW m, Keeps(requests, m), NEW changes, Len(changes) \in Nat
  PROVE  Keeps(requests, Changed(m, changes))
<1>1. PICK f : /\ f[0] = m
               /\ \A n \in 1..Len(changes) : f[n] = Change(f[n - 1], changes[n])
               /\ Changed(m, changes) = f[Len(changes)]
  BY ChangedSteps
<1> DEFINE N == Len(changes)
           Good == {n \in 0..N : Keeps(requests, f[n])}
<1>2. 0 \in Good
  BY <1>1
<1>3. ASSUME NEW n \in 0..(N - 1), n \in Good PROVE n + 1 \in Good
  <2>1. n + 1 \in 1..N /\ n + 1 \in 0..N /\ (n + 1) - 1 = n
    OBVIOUS
  <2>2. f[n + 1] = Change(f[n], changes[n + 1])
    BY <2>1, <1>1
  <2>3. Keeps(requests, f[n])
    BY <1>3
  <2>4. Keeps(requests, f[n + 1])
    BY <2>2, <2>3, ChangeKeeps
  <2> QED BY <2>1, <2>4
<1>4. \A n \in 0..N : n \in Good
  <2> HIDE DEF Good, N
  <2>1. N \in Nat
    BY DEF N
  <2> QED BY <2>1, <1>2, <1>3, Induction
<1>5. N \in 0..N
  OBVIOUS
<1> QED BY <1>1, <1>4, <1>5

\* The changes of an observation, and what is said of them.
LEMMA Processed ==
  ASSUME SchedInv, ListInv, ProcessObservation
  PROVE  /\ \E m : Keeps(active, m) /\ active' = m.active
         /\ IsSequence(log') /\ Same("applied") /\ Same("cleared") /\ Same("verdict")
<1> DEFINE start == [states |-> states, open |-> openSince, active |-> active, said |-> <<>>]
           tail  == IF runState' = runState THEN <<>> ELSE <<Lifecycle(runState')>>
<1>1. PICK m : m = Changed(start, obs.changes)
  OBVIOUS
<1>2. /\ UNCHANGED <<scenario, token, clock, pending, clears, target, sent, batch, exc>>
      /\ pc = "scheduled" /\ pc' = "observed" /\ NothingDue
      /\ active' = m.active /\ log' = log \o (m.said \o tail)
  BY <1>1 DEF ProcessObservation, tele, ending, Say
<1>3. Keeps(active, start)
  <2>1. start.active = active /\ start.said = <<>>
    OBVIOUS
  <2>2. DOMAIN <<>> = {}
    OBVIOUS
  <2> HIDE DEF start
  <2> QED BY <2>1, <2>2, EmptySequence DEF Keeps, SchedInv, ActiveInv
<1> HIDE DEF start
<1>4. Keeps(active, m)
  <2>1. obs.changes \in Seq(Range(obs.changes))
    BY <1>2, EngineAssumption DEF ListInv
  <2>2. Len(obs.changes) \in Nat
    BY <2>1
  <2> QED BY <2>2, <1>1, <1>3, ChangedKeeps
<1>5. IsSequence(tail) /\ \A k \in DOMAIN tail : tail[k].kind \notin {"applied", "cleared", "verdict"}
  <2>1. CASE runState' = runState
    <3>1. DOMAIN <<>> = {}
      OBVIOUS
    <3> QED BY <2>1, <3>1, EmptySequence
  <2>2. CASE runState' # runState
    <3>1. Lifecycle(runState').kind = "lifecycle"
      BY DEF Lifecycle
    <3>2. PICK e : e = Lifecycle(runState') /\ e.kind = "lifecycle"
      BY <3>1
    <3>3. tail = <<e>>
      BY <2>2, <3>2
    <3> QED BY <3>2, <3>3, OneEntry
  <2> QED BY <2>1, <2>2
<1> HIDE DEF tail
<1>6. PICK more : /\ more = m.said \o tail /\ IsSequence(more)
                  /\ \A k \in DOMAIN more : more[k].kind \notin {"applied", "cleared", "verdict"}
  <2>1. IsSequence(m.said) /\ \A k \in DOMAIN m.said : m.said[k].kind \notin {"applied", "cleared", "verdict"}
    BY <1>4 DEF Keeps
  <2>2. IsSequence(m.said \o tail) /\ Range(m.said \o tail) = Range(m.said) \cup Range(tail)
    BY <2>1, <1>5, ConcatSequence, ConcatRange
  <2>3. \A e \in Range(m.said) \cup Range(tail) : e.kind \notin {"applied", "cleared", "verdict"}
    BY <2>1, <1>5 DEF Range
  <2>4. PICK more : more = m.said \o tail
    OBVIOUS
  <2>5. \A k \in DOMAIN more : more[k] \in Range(m.said) \cup Range(tail)
    BY <2>2, <2>4 DEF Range
  <2> QED BY <2>2, <2>3, <2>4, <2>5
<1>7. IsSequence(log') /\ Same("applied") /\ Same("cleared") /\ Same("verdict")
  <2>1. IsSequence(log)
    BY DEF SchedInv, MissionInv
  <2>2. IsSequence(more) /\ log' = log \o more
    BY <1>2, <1>6
  <2>3. IsSequence(log')
    BY <2>1, <2>2, LogGrows
  <2>4. \A k \in DOMAIN more : more[k].kind # "applied"
    BY <1>6
  <2>5. \A k \in DOMAIN more : more[k].kind # "cleared"
    BY <1>6
  <2>6. Same("applied")
    BY <2>1, <2>2, <2>4, Unnoted
  <2>7. Same("cleared")
    BY <2>1, <2>2, <2>5, Unnoted
  <2>8. \A k \in DOMAIN more : more[k].kind # "verdict"
    BY <1>6
  <2>9. Same("verdict")
    BY <2>1, <2>2, <2>8, Unnoted
  <2> QED BY <2>3, <2>6, <2>7, <2>9
<1> QED BY <1>2, <1>4, <1>7

\* The injections stay as they are, but for transient ones on what has recovered.
LEMMA SchedProcess ==
  ASSUME SchedInv, ListInv, ProcessObservation
  PROVE  SchedInv'
<1>2. /\ UNCHANGED <<scenario, token, clock, pending, clears, target, sent, batch, exc>>
      /\ pc = "scheduled" /\ pc' = "observed" /\ NothingDue
  BY DEF ProcessObservation, tele, ending
<1>4. PICK m : Keeps(active, m) /\ active' = m.active
  BY Processed
<1>5. Apart(active)
  BY DEF SchedInv, ActiveInv, Apart
<1>7. IsSequence(log') /\ Same("applied") /\ Same("cleared")
  BY Processed
<1>8. PendingInv'
  BY <1>2, <1>7, StillPending DEF SchedInv
<1>9. ActiveInv'
  <2>1. \A id : Applied(id)' = Applied(id) /\ HasCleared(id)' = HasCleared(id)
    BY <1>7, SameNotes
  <2>2. \A id : EventOf(id)' = EventOf(id)
    BY <1>2 DEF EventOf
  <2>3. \A r \in Range(active) : Applied(r.id) /\ ~HasCleared(r.id) /\ r = Request(EventOf(r.id))
    BY DEF SchedInv, ActiveInv
  <2>4. Range(active') \subseteq Range(active)
    BY <1>2, <1>4 DEF Keeps
  <2>5. \A r \in Range(active') : (Applied(r.id) /\ ~HasCleared(r.id) /\ r = Request(EventOf(r.id)))'
    BY <2>1, <2>2, <2>3, <2>4
  <2>6. \A i \in Entries("applied") :
          (Persistent(Request(EventOf(log[i].id))) /\ ~HasCleared(log[i].id) => IsActive(log[i].id))'
    <3> TAKE i \in Entries("applied")
    <3>1. PICK id : id = log[i].id /\ id = log'[i].id
      BY <1>7 DEF Same
    <3>2. EventOf(log[i].id)' = EventOf(id) /\ (HasCleared(log[i].id)' <=> HasCleared(id)')
          /\ (IsActive(log[i].id)' <=> IsActive(id)')
      BY <3>1, <1>2 DEF EventOf, HasCleared, IsActive
    <3>3. ASSUME Persistent(Request(EventOf(id))), ~HasCleared(id) PROVE IsActive(id)'
      <4>1. IsActive(id)
        BY <3>1, <3>3 DEF SchedInv, ActiveInv
      <4>2. PICK r \in Range(active) : r.id = id
        BY <4>1 DEF IsActive, Range
      <4>3. Persistent(r)
        BY <4>2, <3>3, <2>3
      <4>4. r \in Range(active')
        BY <4>2, <4>3, <1>2, <1>4 DEF Keeps
      <4> QED BY <4>2, <4>4 DEF IsActive, Range
    <3> QED BY <2>1, <3>2, <3>3
  <2>7. IsSequence(active') /\ \A i, j \in DOMAIN active' : active'[i].id = active'[j].id => i = j
    BY <1>2, <1>4, <1>5 DEF Keeps, Apart
  <2>8. Entries("applied")' = Entries("applied")
    BY <1>7 DEF Same
  <2> QED BY <2>5, <2>6, <2>7, <2>8 DEF ActiveInv
<1>10. \A c \in clears : clock < c.at
  <2> TAKE c \in clears
  <2>1. c.at \in Nat /\ clock \in Nat
    BY ClearsTimes DEF SchedInv, MissionInv
  <2>2. ~(c.at <= clock)
    BY <1>2 DEF NothingDue, Due
  <2> QED BY <2>1, <2>2
<1>11. exc = None /\ clock' \in Nat /\ clock <= clock' /\ History' = History
  BY <1>2 DEF SchedInv, MissionInv, Mission, InTry, History
<1> QED BY <1>2, <1>7, <1>8, <1>9, <1>10, <1>11, Calm DEF Mission, InTry, Starting

\* Every step keeps it.
LEMMA SchedNext ==
  ASSUME SchedInv, TeleInv, ListInv, [Next]_vars
  PROVE  SchedInv'
<1>1. CASE Prepare
  BY <1>1, SchedPrepare
<1>2. CASE \/ Prepared \/ PreparationCancelled \/ StartMission \/ TargetFails \/ Handle
           \/ CollectArtifacts \/ Stop \/ Pop \/ PublishArtifactFails \/ Finish \/ Cancel
           \/ UNCHANGED vars
  BY <1>2, SchedMove
<1>3. CASE Inject
  BY <1>3, SchedInject
<1>4. CASE ClearDue
  BY <1>4, SchedClearDue
<1>5. CASE ProcessObservation
  BY <1>5, SchedProcess
<1>6. CASE FinishSample
  BY <1>6, SchedFinishSample
<1>7. CASE Leave
  BY <1>7, SchedLeave
<1>8. CASE Collect
  BY <1>8, SchedCollect
<1>9. CASE Observe
  BY <1>9, SchedObserve
<1>10. CASE SinkFails
  BY <1>10, SchedSinkFails
<1> QED BY <1>1, <1>2, <1>3, <1>4, <1>5, <1>6, <1>7, <1>8, <1>9, <1>10 DEF Next, Step

\* The invariant says all that is claimed of the injections.
LEMMA SchedEnough ==
  ASSUME SchedInv
  PROVE  OnlyBoundedOutlive
<1> DEFINE cleared(id) == {j \in Entries("cleared") : log[j].id = id}
<1> SUFFICES ASSUME Settled, NEW i \in Entries("applied")
             PROVE  LET e    == EventOf(log[i].id)
                        over == /\ e.duration # None /\ clock >= log[i].t + e.duration
                                /\ ~(pc = "final" /\ token)
                    IN  /\ Cardinality(cleared(e.id)) <= 1
                        /\ \A j \in cleared(e.id) :
                             IF e.duration = None THEN log[j].reason = "scenario_end" /\ pc = "final"
                             ELSE /\ log[j].t >= log[i].t + e.duration
                                  /\ \A h \in Range(History) : h.t < log[j].t => h.t < log[i].t + e.duration
                        /\ e.id \in target <=> cleared(e.id) = {} /\ e.effect \notin TRANSIENT_EFFECTS
                        /\ over => cleared(e.id) # {}
                        /\ pc = "final" /\ e.duration = None => e.id \notin target
  BY DEF OnlyBoundedOutlive
<1>1. PICK e \in Known : e.id = log[i].id
  BY DEF SchedInv, AppliedInv
<1>2. scenario \in Scenarios /\ DistinctIds(scenario)
  BY DEF SchedInv, MissionInv
<1>3. EventOf(log[i].id) = e /\ IsEvent(e)
  BY <1>1, <1>2, EventInIs, ListsEvents DEF EventOf, Known
<1>4. pc \in {"waiting", "final"} /\ exc = None
  BY DEF Settled
<1>5. cleared(e.id) = {} <=> ~HasCleared(e.id)
  BY DEF HasCleared
<1>6. Cardinality(cleared(e.id)) <= 1
  <2>1. \A j, k \in cleared(e.id) : j = k
    BY DEF SchedInv, ClearedInv
  <2>2. CASE cleared(e.id) = {}
    <3>1. Cardinality(cleared(e.id)) = 0
      BY <2>2, FS_EmptySet
    <3> QED BY <3>1
  <2>3. CASE cleared(e.id) # {}
    <3>1. PICK j : cleared(e.id) = {j}
      BY <2>1, <2>3
    <3>2. Cardinality(cleared(e.id)) = 1
      BY <3>1, FS_Singleton
    <3> QED BY <3>2
  <2> QED BY <2>2, <2>3
<1>7. EndOf(i) = log[i].t + e.duration
  BY <1>3 DEF EndOf
<1>8. ASSUME NEW j \in cleared(e.id)
      PROVE  IF e.duration = None THEN log[j].reason = "scenario_end" /\ pc = "final"
             ELSE /\ log[j].t >= EndOf(i)
                  /\ \A h \in Range(History) : h.t < log[j].t => h.t < EndOf(i)
  <2>1. j \in Entries("cleared") /\ log[i].id = log[j].id
    BY <1>1
  <2>2. IF Bounded(e)
        THEN /\ log[j].t \in Nat /\ log[j].t <= clock /\ log[j].t >= EndOf(i)
             /\ \A h \in Range(History) : h.t < log[j].t => h.t < EndOf(i)
        ELSE log[j].reason = "scenario_end" /\ pc \notin Mission
    BY <2>1, <1>3 DEF SchedInv, ClearedInv
  <2>3. pc \notin Mission => pc = "final"
    BY <1>4 DEF Mission, InTry
  <2> QED BY <2>2, <2>3 DEF Bounded
<1>9. e.id \in target <=> ~HasCleared(e.id) /\ e.effect \notin TRANSIENT_EFFECTS
  <2>1. log[i].id \in target <=> ~HasCleared(log[i].id) /\ Persistent(Request(EventOf(log[i].id)))
    BY <1>4 DEF SchedInv, TargetInv, Mission, InTry
  <2>2. Persistent(Request(e)) <=> e.effect \notin TRANSIENT_EFFECTS
    BY DEF Persistent, Request
  <2> QED BY <2>1, <2>2, <1>1, <1>3
<1>10. ASSUME e.duration # None, clock >= EndOf(i), ~(pc = "final" /\ token)
       PROVE  HasCleared(e.id)
  <2> SUFFICES ASSUME ~HasCleared(e.id) PROVE FALSE
    OBVIOUS
  <2>1. Bounded(EventOf(log[i].id)) /\ ~HasCleared(log[i].id)
    BY <1>1, <1>3, <1>10 DEF Bounded
  <2>2. clock < EndOf(i)
    <3>1. CASE pc = "waiting"
      <4>1. [at |-> EndOf(i), id |-> log[i].id] \in clears
        BY <2>1, <3>1 DEF SchedInv, ClearsInv, Mission, InTry
      <4>2. \A c \in clears : clock < c.at
        BY <3>1 DEF SchedInv, ClearsInv
      <4>3. [at |-> EndOf(i), id |-> log[i].id].at = EndOf(i)
        OBVIOUS
      <4>4. clock < [at |-> EndOf(i), id |-> log[i].id].at
        BY <4>1, <4>2
      <4> QED BY <4>3, <4>4
    <3>2. CASE pc = "final"
      BY <2>1, <3>2, <1>4, <1>10 DEF SchedInv, ClearsInv
    <3> QED BY <3>1, <3>2, <1>4
  <2>3. clock \in Nat /\ EndOf(i) \in Nat
    <3>1. e.duration \in Nat
      BY <1>3, <1>10 DEF IsEvent
    <3>2. log[i].t \in Nat /\ clock \in Nat
      BY DEF SchedInv, AppliedInv, MissionInv
    <3>3. PICK t, d : t = log[i].t /\ d = e.duration
      OBVIOUS
    <3>4. EndOf(i) = t + d
      BY <3>3, <1>7
    <3>5. t + d \in Nat
      BY <3>1, <3>2, <3>3
    <3> QED BY <3>2, <3>4, <3>5
  <2> QED BY <2>2, <2>3, <1>10
<1>11. ASSUME pc = "final", e.duration = None PROVE e.id \notin target
  <2>1. Persistent(Request(e)) => ClearedAtEnd(Request(e))
    BY <1>11 DEF ClearedAtEnd, Request
  <2>2. ClearedAtEnd(Request(e)) => HasCleared(e.id)
    BY <1>1, <1>3, <1>4, <1>11 DEF SchedInv, TargetInv
  <2>3. e.effect \notin TRANSIENT_EFFECTS => Persistent(Request(e))
    BY DEF Persistent, Request
  <2> QED BY <2>1, <2>2, <2>3, <1>9
<1> HIDE DEF cleared
<1> QED BY <1>3, <1>5, <1>6, <1>7, <1>8, <1>9, <1>10, <1>11

\* For every scenario whose events have different ids, whatever adapter and whatever
\* fails: a bounded injection is cleared once, at the first sample that finds its time
\* over, an unbounded one at the end, and what outlives the mission in the target is
\* bounded and was not over.
THEOREM Outlives ==
  ASSUME \A s \in Scenarios : DistinctIds(s)
  PROVE  Spec => []OnlyBoundedOutlive
<1>1. Init => TeleInv /\ SchedInv /\ ListInv
  BY TeleInit, SchedInit, EmptySequence DEF Init, ListInv
<1>2. TeleInv /\ SchedInv /\ ListInv /\ [Next]_vars => (TeleInv /\ SchedInv /\ ListInv)'
  BY TeleNext, SchedNext, StaysList
<1>3. SchedInv => OnlyBoundedOutlive
  BY SchedEnough
<1> QED BY <1>1, <1>2, <1>3, PTL DEF Spec

-----------------------------------------------------------------------------
(* Verdicts: what an expectation is, and what the samples say of it. *)

\* The fields of what is expected of a component.
ExpectationFields == {"of", "sub", "state", "requested", "deadline", "left"}

\* What an expectation says of some samples, in the order of their times.
Held(x, S) ==
  IF x.state = "RECOVERED"
    THEN \E g, h \in S : g.t < h.t /\ g.health[x.sub] \notin Healthy /\ h.health[x.sub] \in Healthy
  ELSE IF x.state \in Healthy THEN \A h \in S : h.health[x.sub] \in Healthy
  ELSE \E h \in S : h.health[x.sub] = x.state

\* Expected to be well throughout: a sample may deny it, none can settle it early.
StaysWell(x) == x.state \in Healthy \ {"RECOVERED"}

\* The samples of a later time.
Later(S, t) == {h \in S : h.t > t}

\* An expectation that was not decided: the samples after the injection are within its
\* time and do not decide it.
Unsettled(x, S) ==
  /\ Held(x, Later(S, x.requested)) <=> StaysWell(x)
  /\ x.left <=> x.state = "RECOVERED" /\ \E h \in Later(S, x.requested) : h.health[x.sub] \notin Healthy
  /\ \A h \in Later(S, x.requested) : h.t <= x.deadline

\* The samples a verdict at a time is about, of an injection at another.
Judging(S, a, t) ==
  LET after == {h \in S : h.t > a /\ h.t <= t}
  IN  IF after # {} THEN after ELSE {h \in S : h.t = a}

\* A verdict as it is to be: on samples within the time, but for the last, and not
\* before it is certain.
Earned(v, x, a, S, end) ==
  /\ v.passed <=> Held(x, Judging(S, a, v.t))
  /\ \A g, h \in S : g.t > a /\ g.t < h.t /\ h.t <= v.t => g.t <= a + x.within
  /\ (v.passed <=> StaysWell(x)) => v.t > a + x.within \/ end

\* What is held is about the component and the state alone.
LEMMA HeldAlike ==
  ASSUME NEW x, NEW y, x.sub = y.sub, x.state = y.state, NEW S
  PROVE  Held(x, S) <=> Held(y, S)
BY DEF Held

\* A verdict goes on being earned when later samples are taken.
LEMMA StaysEarned ==
  ASSUME NEW v, NEW x, NEW a \in Nat, v.t \in Nat, a <= v.t, NEW S, NEW T, NEW end, NEW end2,
         Earned(v, x, a, S, end), end => end2,
         S \subseteq T, \A h \in T : h.t \in Nat /\ (h \in S \/ v.t < h.t)
  PROVE  Earned(v, x, a, T, end2)
<1>1. Judging(T, a, v.t) = Judging(S, a, v.t)
  <2>1. \A h \in T : h.t <= v.t => h \in S
    BY Zenon, SMT
  <2>2. ASSUME NEW h \in T, h.t = a PROVE h \in S
    <3> PICK t : t = v.t
      OBVIOUS
    <3>1. t \in Nat /\ a <= t /\ ~(t < a)
      OBVIOUS
    <3>2. h \in S \/ t < h.t
      BY Zenon
    <3> QED BY <2>2, <3>1, <3>2, Zenon
  <2> QED BY <2>1, <2>2 DEF Judging
<1>2. \A g, h \in T : g.t > a /\ g.t < h.t /\ h.t <= v.t => g.t <= a + x.within
  <2> SUFFICES ASSUME NEW g \in T, NEW h \in T, g.t > a, g.t < h.t, h.t <= v.t
               PROVE  g.t <= a + x.within
    OBVIOUS
  <2>1. h \in S
    OBVIOUS
  <2>2. g \in S
    OBVIOUS
  <2> QED BY <2>1, <2>2 DEF Earned
<1> QED BY <1>1, <1>2 DEF Earned

\* One of some samples is the latest.
LEMMA LatestOf ==
  ASSUME NEW S, NEW s \in S, NEW c \in Nat, \A h \in S : h.t \in Nat /\ h.t <= c
  PROVE  \E h \in S : \A g \in S : g.t <= h.t
<1> DEFINE left == {c - h.t : h \in S}
<1>1. left \in SUBSET Nat /\ c - s.t \in left
  OBVIOUS
<1>2. PICK m \in left : \A k \in left : m <= k
  <2> HIDE DEF left
  <2> QED BY <1>1, LeastNumber
<1>3. PICK h \in S : m = c - h.t
  BY <1>2
<1>4. \A g \in S : g.t <= h.t
  <2> TAKE g \in S
  <2>1. c - h.t <= c - g.t
    BY <1>2, <1>3
  <2>2. c - h.t \in Nat /\ c - g.t \in Nat /\ {c, g.t, h.t} \subseteq Nat
    OBVIOUS
  <2> QED BY <2>1, <2>2
<1> QED BY <1>4

\* What a sample makes of an expectation.
LEMMA WatchedFields ==
  ASSUME NEW x, DOMAIN x = ExpectationFields
  PROVE  LET y == Watched(x)
         IN  /\ DOMAIN y = ExpectationFields
             /\ y.of = x.of /\ y.sub = x.sub /\ y.state = x.state
             /\ y.requested = x.requested /\ y.deadline = x.deadline
             /\ y.left <=> x.left \/ (x.state = "RECOVERED" /\ states[x.sub] \notin Healthy)
BY DEF Watched, ExpectationFields

\* A sample of a later time than the injection, the last one: it may decide.
LEMMA Sampled ==
  ASSUME NEW x, DOMAIN x = ExpectationFields, NEW S, NEW w,
         clock \in Nat, x.requested \in Nat, x.deadline \in Nat, x.requested < clock,
         \A h \in S : h.t \in Nat /\ h.t < clock,
         Unsettled(x, S), w.sub = x.sub, w.state = x.state, x.deadline = x.requested + w.within
  PROVE  LET y == Watched(x)
             T == S \cup {Sample}
         IN  /\ Undecided(y) => Unsettled(y, T)
             /\ ~Undecided(y) =>
                  Earned(Verdict(y, ExpectationStatus(y, clock) = "passed"), w, x.requested, T, FALSE)
<1> DEFINE y == Watched(x)
           T == S \cup {Sample}
           well == states[x.sub] \in Healthy
           after == Later(S, x.requested)
           now   == Later(T, x.requested)
           status == ExpectationStatus(y, clock)
<1>1. /\ y.of = x.of /\ y.sub = x.sub /\ y.state = x.state
      /\ y.requested = x.requested /\ y.deadline = x.deadline
      /\ y.left <=> x.left \/ (x.state = "RECOVERED" /\ ~well)
  BY WatchedFields
<1>2. PICK s : s = Sample /\ s.t = clock /\ s.health = states
  <2>1. Sample.t = clock /\ Sample.health = states
    BY DEF Sample
  <2>2. PICK s : s = Sample
    OBVIOUS
  <2> QED BY <2>1, <2>2
<1>3. T = S \cup {s} /\ now = after \cup {s} /\ \A h \in after : h.t < s.t
  <2>1. T = S \cup {s}
    BY <1>2
  <2>2. s.t > x.requested
    BY <1>2
  <2>3. now = after \cup {s}
    BY <2>1, <2>2 DEF Later
  <2> QED BY <2>1, <2>3, <1>2 DEF Later
<1>4. /\ Held(x, after) <=> StaysWell(x)
      /\ x.left <=> x.state = "RECOVERED" /\ \E h \in after : h.health[x.sub] \notin Healthy
      /\ \A h \in after : h.t <= x.deadline
  BY DEF Unsettled
<1>5. /\ status = "open" \/ status = "passed" \/ status = "failed"
      /\ x.state = "RECOVERED" =>
           /\ status = "passed" <=> well /\ y.left
           /\ status = "failed" => clock > x.deadline
           /\ status = "open" => ~(clock > x.deadline)
      /\ StaysWell(x) =>
           /\ status = "failed" <=> ~well
           /\ status = "passed" => clock > x.deadline
           /\ status = "open" => ~(clock > x.deadline)
      /\ x.state \notin Healthy =>
           /\ status = "passed" <=> states[x.sub] = x.state
           /\ status = "failed" => clock > x.deadline
           /\ status = "open" => ~(clock > x.deadline)
  <2> HIDE DEF y
  <2> QED BY <1>1 DEF ExpectationStatus, StaysWell, Healthy
<1> HIDE DEF y, T, after, now, status
<1>6. Held(x, now) <=>
        IF x.state = "RECOVERED" THEN well /\ y.left
        ELSE IF x.state \in Healthy THEN well
        ELSE states[x.sub] = x.state
  <2>1. CASE x.state = "RECOVERED"
    <3>1. ~Held(x, after)
      BY <2>1, <1>4 DEF StaysWell
    <3>2. ASSUME Held(x, now) PROVE well /\ y.left
      <4>1. PICK g \in now, h \in now : g.t < h.t /\ g.health[x.sub] \notin Healthy /\ h.health[x.sub] \in Healthy
        BY <2>1, <3>2 DEF Held
      <4>2. g # s
        <5>1. \A k \in now : k = s \/ k.t < s.t
          BY <1>3
        <5>2. s.t \in Nat /\ \A k \in now : k.t \in Nat
          BY <1>2, <1>3 DEF after, Later
        <5> QED BY <4>1, <5>1, <5>2
      <4>3. g \in after
        BY <4>2, <1>3
      <4>4. h = s
        BY <2>1, <3>1, <4>1, <4>3, <1>3 DEF Held
      <4> QED BY <4>1, <4>3, <4>4, <2>1, <1>1, <1>2, <1>4
    <3>3. ASSUME well, y.left PROVE Held(x, now)
      <4>1. x.left
        BY <3>3, <1>1
      <4>2. PICK g \in after : g.health[x.sub] \notin Healthy
        BY <4>1, <1>4
      <4>3. g \in now /\ s \in now /\ g.t < s.t /\ s.health[x.sub] \in Healthy
        BY <4>2, <3>3, <1>2, <1>3
      <4> QED BY <4>2, <4>3, <2>1 DEF Held
    <3> QED BY <2>1, <3>2, <3>3
  <2>2. CASE StaysWell(x)
    <3>1. x.state \in Healthy /\ x.state # "RECOVERED"
      BY <2>2 DEF StaysWell
    <3>2. \A h \in after : h.health[x.sub] \in Healthy
      BY <2>2, <3>1, <1>4 DEF Held
    <3> QED BY <3>1, <3>2, <1>2, <1>3 DEF Held
  <2>3. CASE x.state \notin Healthy
    <3>1. x.state # "RECOVERED"
      BY <2>3 DEF Healthy
    <3>2. ~Held(x, after)
      BY <2>3, <1>4 DEF StaysWell
    <3> QED BY <2>3, <3>1, <3>2, <1>2, <1>3 DEF Held
  <2> QED BY <2>1, <2>2, <2>3 DEF StaysWell
<1>7. Undecided(y) <=> status = "open"
  <2>1. ~(clock <= x.requested)
    OBVIOUS
  <2> QED BY <2>1, <1>1 DEF Undecided, status
<1>8. ASSUME status = "open" PROVE Unsettled(y, T)
  <2>1. Held(x, now) <=> StaysWell(x)
    BY <1>5, <1>6, <1>8 DEF StaysWell
  <2>2. y.left <=> x.state = "RECOVERED" /\ \E h \in now : h.health[x.sub] \notin Healthy
    BY <1>1, <1>2, <1>3, <1>4
  <2>3. clock <= x.deadline
    <3>1. ~(clock > x.deadline)
      BY <1>5, <1>8 DEF StaysWell
    <3> QED BY <3>1
  <2>4. \A h \in now : h.t <= x.deadline
    BY <2>3, <1>2, <1>3, <1>4
  <2>5. Held(y, now) <=> Held(x, now)
    BY <1>1, HeldAlike
  <2>6. StaysWell(y) <=> StaysWell(x)
    BY <1>1 DEF StaysWell
  <2>7. now = Later(T, y.requested)
    BY <1>1 DEF now
  <2> QED BY <2>1, <2>2, <2>4, <2>5, <2>6, <2>7, <1>1 DEF Unsettled
<1>9. ASSUME status # "open"
      PROVE  Earned(Verdict(y, status = "passed"), w, x.requested, T, FALSE)
  <2> DEFINE passed == status = "passed"
             v == Verdict(y, passed)
  <2>1. v.t = clock /\ (v.passed <=> status = "passed")
    <3>1. v.t = clock /\ v.passed = passed
      <4> HIDE DEF passed
      <4> QED BY DEF Verdict
    <3> QED BY <3>1
  <2> HIDE DEF v
  <2>2. Judging(T, x.requested, v.t) = now
    <3>1. {h \in T : h.t > x.requested /\ h.t <= v.t} = now
      <4>1. \A h \in T : h.t <= clock
        BY <1>2, <1>3
      <4> QED BY <4>1, <2>1 DEF now, Later
    <3>2. now # {}
      BY <1>3
    <3> QED BY <3>1, <3>2 DEF Judging
  <2>3. Held(w, now) <=> Held(x, now)
    BY HeldAlike
  <2>4. v.passed <=> Held(x, now)
    BY <2>1, <1>5, <1>6, <1>9 DEF StaysWell
  <2>5. \A g, h \in T : g.t > x.requested /\ g.t < h.t /\ h.t <= v.t => g.t <= x.deadline
    <3> SUFFICES ASSUME NEW g \in T, NEW h \in T, g.t > x.requested, g.t < h.t PROVE g.t <= x.deadline
      OBVIOUS
    <3>1. g # s
      BY <1>2, <1>3
    <3>2. g \in after
      BY <3>1, <1>3 DEF after, Later
    <3> QED BY <3>2, <1>4
  <2>6. (v.passed <=> StaysWell(x)) => v.t > x.deadline
    BY <2>1, <1>5, <1>9 DEF StaysWell
  <2>7. StaysWell(w) <=> StaysWell(x)
    BY DEF StaysWell
  <2>8. Earned(v, w, x.requested, T, FALSE)
    BY <2>2, <2>3, <2>4, <2>5, <2>6, <2>7 DEF Earned
  <2> QED BY <2>8 DEF v
<1> QED BY <1>7, <1>8, <1>9 DEF y, T, status

\* What the end of the mission makes of one that was not decided: the last sample is
\* what is known then.
LEMMA FlushedEarned ==
  ASSUME NEW x, NEW S, NEW w,
         clock \in Nat, x.requested \in Nat, x.deadline \in Nat, x.requested <= clock,
         \A h \in S : h.t \in Nat /\ h.t <= clock,
         \A g, h \in S : g.t = h.t => g = h,
         \A h \in S : (\A g \in S : g.t <= h.t) => h.health = states,
         \E h \in S : h.t = x.requested,
         Unsettled(x, S), w.sub = x.sub, w.state = x.state, x.deadline = x.requested + w.within
  PROVE  Earned(Flushed(x), w, x.requested, S, TRUE)
<1> DEFINE well == states[x.sub] \in Healthy
           after == Later(S, x.requested)
           status == ExpectationStatus(x, clock + x.deadline + 1)
           passed == status = "passed"
           v == Verdict(x, passed)
<1>1. v = Flushed(x)
  BY DEF Flushed
<1>2. v.t = clock /\ (v.passed <=> passed)
  <2>1. v.t = clock /\ v.passed = passed
    <3> HIDE DEF passed
    <3> QED BY DEF Verdict
  <2> QED BY <2>1
<1>3. passed <=> IF x.state = "RECOVERED" THEN well /\ x.left
                 ELSE IF x.state \in Healthy THEN well
                 ELSE states[x.sub] = x.state
  <2>1. clock + x.deadline + 1 > x.deadline
    OBVIOUS
  <2>2. PICK t : t = clock + x.deadline + 1 /\ t > x.deadline
    BY <2>1
  <2> QED BY <2>2 DEF ExpectationStatus
<1>4. /\ Held(x, after) <=> StaysWell(x)
      /\ x.left <=> x.state = "RECOVERED" /\ \E h \in after : h.health[x.sub] \notin Healthy
      /\ \A h \in after : h.t <= x.deadline
  BY DEF Unsettled
<1>5. PICK l \in S : l.health = states /\ \A g \in S : g.t <= l.t
  <2>1. PICK s \in S : s.t = x.requested
    OBVIOUS
  <2>2. PICK l \in S : \A g \in S : g.t <= l.t
    BY <2>1, LatestOf
  <2> QED BY <2>2
<1> HIDE DEF v, passed, status
<1>6. Held(x, Judging(S, x.requested, clock)) <=> passed
  <2>1. {h \in S : h.t > x.requested /\ h.t <= clock} = after
    BY DEF Later
  <2>2. CASE after # {}
    <3>1. Judging(S, x.requested, clock) = after
      BY <2>1, <2>2 DEF Judging
    <3>2. l \in after
      <4>1. PICK h \in after : TRUE
        BY <2>2
      <4>2. h \in S /\ h.t > x.requested /\ h.t <= l.t
        BY <4>1, <1>5 DEF Later
      <4>3. l.t > x.requested
        BY <4>2
      <4> QED BY <4>3 DEF Later
    <3>3. CASE x.state = "RECOVERED"
      <4>1. ~Held(x, after)
        BY <3>3, <1>4 DEF StaysWell
      <4>2. ASSUME well, x.left PROVE FALSE
        <5>1. PICK g \in after : g.health[x.sub] \notin Healthy
          BY <4>2, <1>4
        <5>2. g # l
          BY <4>2, <5>1, <1>5
        <5>3. g \in S /\ g.t <= l.t /\ g.t # l.t
          BY <5>2, <1>5 DEF Later
        <5>4. g.t < l.t
          BY <5>3
        <5>5. l.health[x.sub] \in Healthy
          BY <4>2, <1>5
        <5>6. Held(x, after)
          BY <5>1, <5>4, <5>5, <3>2, <3>3 DEF Held
        <5> QED BY <4>1, <5>6
      <4> QED BY <3>1, <3>3, <4>1, <4>2, <1>3
    <3>4. CASE StaysWell(x)
      <4>1. x.state \in Healthy /\ x.state # "RECOVERED" /\ Held(x, after)
        BY <3>4, <1>4 DEF StaysWell
      <4>2. well
        BY <4>1, <3>2, <1>5 DEF Held
      <4> QED BY <3>1, <4>1, <4>2, <1>3
    <3>5. CASE x.state \notin Healthy
      <4>1. x.state # "RECOVERED" /\ ~Held(x, after)
        BY <3>5, <1>4 DEF StaysWell, Healthy
      <4>2. states[x.sub] # x.state
        BY <4>1, <3>2, <3>5, <1>5 DEF Held
      <4> QED BY <3>1, <3>5, <4>1, <4>2, <1>3
    <3> QED BY <3>3, <3>4, <3>5 DEF StaysWell
  <2>3. CASE after = {}
    <3>1. PICK s \in S : s.t = x.requested
      OBVIOUS
    <3>2. Judging(S, x.requested, clock) = {s}
      <4>1. Judging(S, x.requested, clock) = {h \in S : h.t = x.requested}
        BY <2>1, <2>3 DEF Judging
      <4> QED BY <3>1, <4>1
    <3>3. s.health = states
      <4>1. ASSUME NEW g \in S PROVE g.t <= s.t
        <5>1. ~(g.t > x.requested)
          BY <2>3 DEF Later
        <5> QED BY <5>1, <3>1
      <4> QED BY <4>1
    <3>4. ~x.left
      BY <2>3, <1>4
    <3>5. ~(s.t < s.t)
      BY <3>1
    <3>6. /\ x.state = "RECOVERED" => ~Held(x, {s})
          /\ x.state # "RECOVERED" /\ x.state \in Healthy => (Held(x, {s}) <=> well)
          /\ x.state # "RECOVERED" /\ x.state \notin Healthy => (Held(x, {s}) <=> states[x.sub] = x.state)
      BY <3>3, <3>5 DEF Held
    <3> HIDE DEF well
    <3> QED BY <3>2, <3>4, <3>6, <1>3
  <2> QED BY <2>2, <2>3
<1>7. Held(w, Judging(S, x.requested, clock)) <=> Held(x, Judging(S, x.requested, clock))
  BY HeldAlike
<1>8. \A g, h \in S : g.t > x.requested /\ g.t < h.t /\ h.t <= v.t => g.t <= x.requested + w.within
  BY <1>4 DEF Later
<1>9. Earned(v, w, x.requested, S, TRUE)
  BY <1>2, <1>6, <1>7, <1>8 DEF Earned
<1> QED BY <1>1, <1>9

-----------------------------------------------------------------------------
(* Each expectation is judged. *)

\* The samples taken so far.
Past == Range(History)

\* Where the log, the samples and the state of the engine go together.
Live == pc \in Mission \/ (pc = "final" /\ exc = None)

\* The expectation that is the second of a pair, of the event that is its first.
Wanted(of) == EventOf(of[1]).expect[of[2]]

\* Its event was applied.
Asked(of) ==
  of = <<of[1], of[2]>> /\ Applied(of[1]) /\ of[2] \in DOMAIN EventOf(of[1]).expect

\* It has a verdict, or is still expected.
Judged(of) == \E i \in Entries("verdict") : log[i].of = of

Open(of) == \E x \in Range(expectations) : x.of = of

\* What is expected goes back to the scenario and to an injection that was applied.
Traced(x) ==
  /\ DOMAIN x = ExpectationFields /\ Asked(x.of)
  /\ x.sub = Wanted(x.of).sub /\ x.state = Wanted(x.of).state
  /\ \E i \in Entries("applied") : log[i].id = x.of[1] /\ x.requested = log[i].t
  /\ x.deadline = x.requested + Wanted(x.of).within

\* The sample of the injection was taken, or is about to be.
Seen(x) == (pc \in Sampling /\ x.requested = clock) \/ \E h \in Past : h.t = x.requested

OpenInv ==
  /\ \A i, j \in DOMAIN expectations : expectations[i].of = expectations[j].of => i = j
  /\ \A x \in Range(expectations) : Traced(x) /\ ~Judged(x.of) /\ Unsettled(x, Past) /\ Seen(x)

\* A verdict that is as it is to be.
Sound(v) ==
  /\ Asked(v.of) /\ v.passed \in BOOLEAN
  /\ v.t \in Nat /\ v.t <= clock /\ (pc \in Sampling => v.t < clock)
  /\ \A i \in Entries("applied") :
       log[i].id = v.of[1] =>
         /\ log[i].t <= v.t
         /\ Earned(v, Wanted(v.of), log[i].t, Past, pc = "final" /\ v.t = clock)

VerdictInv == \A i \in Entries("verdict") : Sound(log[i])

\* Between two samples the last one is of what is known of the components.
LatestInv ==
  pc \in {"waiting", "leaving"} =>
    \A h \in Past : (\A g \in Past : g.t <= h.t) => h.health = states

\* No two verdicts are of the same expectation.
OnceJudged == \A i, j \in Entries("verdict") : log[i].of = log[j].of => i = j

\* No expectation is judged twice; and while the engine is on its way, or ended well, what
\* was asked is judged or open, what is open is not settled by the samples so far, and a
\* verdict is earned.  A run that fails leaves what it had open without a verdict.
JudgeInv ==
  /\ OnceJudged
  /\ Live =>
       /\ faults = 0
       /\ pc \in Starting => sent = <<>>
       /\ pc = "final" => expectations = <<>>
       /\ \A of : Asked(of) => Judged(of) \/ Open(of)
       /\ OpenInv /\ VerdictInv /\ LatestInv

\* What was applied goes on being noted.
Grown == \A i \in Entries("applied") : i \in Entries("applied")' /\ log'[i] = log[i]

\* What was asked goes on being asked.
LEMMA AskedStays ==
  ASSUME scenario' = scenario, Grown
  PROVE  \A of : Wanted(of)' = Wanted(of) /\ (Asked(of) => Asked(of)')
<1>1. \A id : EventOf(id)' = EventOf(id)
  BY DEF EventOf
<1>2. \A id : Applied(id) => Applied(id)'
  BY DEF Grown, Applied
<1> QED BY <1>1, <1>2 DEF Wanted, Asked

\* What goes back to the scenario goes on doing so.
LEMMA TracedStays ==
  ASSUME scenario' = scenario, Grown, NEW x, Traced(x)
  PROVE  Traced(x)'
<1>1. Asked(x.of)' /\ Wanted(x.of)' = Wanted(x.of)
  BY AskedStays DEF Traced
<1>2. \E i \in Entries("applied")' : log'[i].id = x.of[1] /\ x.requested = log'[i].t
  BY DEF Traced, Grown
<1> QED BY <1>1, <1>2 DEF Traced

\* The times of an expectation.
LEMMA TracedTimes ==
  ASSUME SchedInv, NEW x, Traced(x)
  PROVE  /\ clock \in Nat /\ x.requested \in Nat /\ x.requested <= clock
         /\ x.deadline \in Nat /\ Wanted(x.of).within \in Nat
         /\ \A i \in Entries("applied") : log[i].id = x.of[1] => log[i].t = x.requested
<1>1. PICK i \in Entries("applied") : log[i].id = x.of[1] /\ x.requested = log[i].t
  BY DEF Traced
<1>2. clock \in Nat /\ x.requested \in Nat /\ x.requested <= clock
  BY <1>1 DEF SchedInv, AppliedInv, MissionInv
<1>3. PICK e \in Known : e.id = x.of[1]
  BY <1>1 DEF SchedInv, AppliedInv
<1>4. EventOf(x.of[1]) = e /\ IsEvent(e)
  BY <1>3, EventInIs, ListsEvents DEF EventOf, Known, SchedInv, MissionInv
<1>5. Wanted(x.of).within \in Nat
  <2>1. x.of[2] \in DOMAIN e.expect /\ Wanted(x.of) = e.expect[x.of[2]]
    BY <1>4 DEF Traced, Asked, Wanted
  <2>2. Wanted(x.of) \in Range(e.expect)
    BY <2>1 DEF Range
  <2> QED BY <2>2, <1>4 DEF IsEvent
<1>6. x.deadline \in Nat
  <2>1. PICK w : w = Wanted(x.of).within
    OBVIOUS
  <2>2. x.deadline = x.requested + w
    BY <2>1 DEF Traced
  <2> QED BY <2>1, <2>2, <1>2, <1>5
<1>7. \A j \in Entries("applied") : log[j].id = x.of[1] => j = i
  BY <1>1 DEF SchedInv, AppliedInv
<1> QED BY <1>1, <1>2, <1>5, <1>6, <1>7

\* Samples are of different times, unless some are lost.
LEMMA TimesDiffer ==
  ASSUME TeleInv, faults = 0
  PROVE  \A g, h \in Past : g.t = h.t => g = h
<1>1. DOMAIN History = 1..Len(History) /\ Len(History) \in Nat
  <2>1. IsSequence(History)
    BY ConcatSequence DEF TeleInv, TeleType, History
  <2> QED BY <2>1 DEF IsSequence
<1>2. \A i, j \in 1..Len(History) : i < j => History[i].t < History[j].t
  BY DEF TeleInv, Ordered, History
<1>3. \A i \in 1..Len(History) : History[i].t \in Nat
  BY <1>1, TakenEarlier DEF Range
<1>4. ASSUME NEW i \in 1..Len(History), NEW j \in 1..Len(History), History[i].t = History[j].t
      PROVE  i = j
  <2>1. ~(i < j) /\ ~(j < i)
    BY <1>2, <1>3, <1>4
  <2> QED BY <2>1, <1>1
<1> QED BY <1>1, <1>4 DEF Past, Range

\* A sound verdict goes on being sound.
LEMMA SoundStays ==
  ASSUME SchedInv, NEW v, Sound(v), scenario' = scenario, Grown,
         \A i \in Entries("applied")' : i \in Entries("applied") \/ ~Applied(log'[i].id),
         clock' \in Nat, clock <= clock', pc' \in Sampling => v.t < clock',
         Past \subseteq Past', \A h \in Past' : h.t \in Nat /\ (h \in Past \/ v.t < h.t),
         pc = "final" => pc' = "final" /\ clock' = clock
  PROVE  Sound(v)'
<1>1. /\ Asked(v.of) /\ v.passed \in BOOLEAN
      /\ v.t \in Nat /\ v.t <= clock /\ clock \in Nat
  BY DEF Sound, SchedInv, MissionInv
<1>2. Asked(v.of)' /\ Wanted(v.of)' = Wanted(v.of)
  BY <1>1, AskedStays
<1>3. v.t <= clock'
  BY <1>1
<1>4. ASSUME NEW i \in Entries("applied")', log'[i].id = v.of[1]
      PROVE  /\ log'[i].t <= v.t
             /\ Earned(v, Wanted(v.of), log'[i].t, Past', pc' = "final" /\ v.t = clock')
  <2>1. i \in Entries("applied") /\ log'[i] = log[i]
    BY <1>1, <1>4 DEF Asked, Grown
  <2>2. PICK w, a, S, T, end, end2 :
          /\ w = Wanted(v.of) /\ a = log[i].t /\ S = Past /\ T = Past'
          /\ end = (pc = "final" /\ v.t = clock) /\ end2 = (pc' = "final" /\ v.t = clock')
    OBVIOUS
  <2>3. log[i].t <= v.t /\ Earned(v, Wanted(v.of), log[i].t, Past, pc = "final" /\ v.t = clock)
    BY <2>1, <1>4 DEF Sound
  <2>4. a <= v.t /\ Earned(v, w, a, S, end)
    BY <2>2, <2>3
  <2>5. a \in Nat
    BY <2>1, <2>2 DEF SchedInv, AppliedInv
  <2>6. end => end2
    BY <2>2
  <2>7. S \subseteq T /\ \A h \in T : h.t \in Nat /\ (h \in S \/ v.t < h.t)
    BY <2>2
  <2>8. Earned(v, w, a, T, end2)
    BY <2>4, <2>5, <2>6, <2>7, <1>1, StaysEarned
  <2> QED BY <2>1, <2>2, <2>4, <2>8
<1>5. \A i \in Entries("applied")' :
        (log[i].id = v.of[1] =>
           /\ log[i].t <= v.t
           /\ Earned(v, Wanted(v.of), log[i].t, Past, pc = "final" /\ v.t = clock))'
  BY <1>2, <1>4
<1> QED BY <1>1, <1>2, <1>3, <1>5 DEF Sound

\* A step that registers nothing, takes no sample and gives no verdict.
LEMMA JudgeCalm ==
  ASSUME SchedInv, TeleInv, JudgeInv, scenario' = scenario, Same("applied"), Same("verdict"),
         Live' => /\ Live /\ UNCHANGED <<expectations, sent, batch, faults>>
                  /\ clock' \in Nat /\ clock <= clock'
                  /\ pc' \in Starting => pc \in Starting
                  /\ pc' = "final" => pc = "final"
                  /\ pc = "final" => pc' = "final" /\ clock' = clock
                  /\ pc \in Sampling => pc' \in Sampling /\ clock' = clock
                  /\ pc' \in Sampling => pc \in Sampling \/ clock < clock'
                  /\ pc' \in {"waiting", "leaving"} =>
                       (pc \in {"waiting", "leaving"} /\ states' = states) \/ pc \in Starting
  PROVE  JudgeInv'
<1>1. /\ Entries("verdict")' = Entries("verdict") /\ \A i \in Entries("verdict") : log'[i] = log[i]
      /\ Entries("applied")' = Entries("applied") /\ Grown
  BY DEF Same, Grown
<1>2. OnceJudged'
  BY <1>1 DEF JudgeInv, OnceJudged
<1> SUFFICES ASSUME Live'
             PROVE  /\ faults' = 0
                    /\ pc' \in Starting => sent' = <<>>
                    /\ pc' = "final" => expectations' = <<>>
                    /\ \A of : Asked(of)' => Judged(of)' \/ Open(of)'
                    /\ OpenInv' /\ VerdictInv' /\ LatestInv'
  BY <1>2 DEF JudgeInv
<1>3. /\ Live /\ UNCHANGED <<expectations, sent, batch, faults>> /\ Past' = Past
      /\ clock' \in Nat /\ clock <= clock' /\ clock \in Nat
  BY DEF Past, History, SchedInv, MissionInv
<1>4. /\ faults = 0 /\ (pc \in Starting => sent = <<>>) /\ (pc = "final" => expectations = <<>>)
      /\ \A of : Asked(of) => Judged(of) \/ Open(of)
      /\ OpenInv /\ VerdictInv /\ LatestInv
  BY <1>3 DEF JudgeInv
<1>5. \A of : Judged(of)' = Judged(of) /\ Open(of)' = Open(of) /\ (Asked(of)' => Asked(of))
  <2>1. \A id : Applied(id)' = Applied(id) /\ EventOf(id)' = EventOf(id)
    BY <1>1, SameNotes DEF Applied, EventOf, Same
  <2> QED BY <2>1, <1>1, <1>3 DEF Judged, Open, Asked
<1>6. OpenInv'
  <2>1. ASSUME NEW x \in Range(expectations)
        PROVE  Traced(x)' /\ ~Judged(x.of)' /\ Unsettled(x, Past) /\ Seen(x)'
    <3>1. Traced(x) /\ ~Judged(x.of) /\ Unsettled(x, Past) /\ Seen(x)
      BY <1>4 DEF OpenInv
    <3>2. Traced(x)'
      BY <3>1, <1>1, TracedStays
    <3>3. ~Judged(x.of)'
      BY <3>1, <1>5
    <3>4. Seen(x)'
      BY <3>1, <1>3 DEF Seen
    <3> QED BY <3>1, <3>2, <3>3, <3>4
  <2>2. \A x \in Range(expectations') : (Traced(x) /\ ~Judged(x.of) /\ Unsettled(x, Past) /\ Seen(x))'
    BY <2>1, <1>3
  <2> QED BY <2>2, <1>3, <1>4 DEF OpenInv
<1>7. VerdictInv'
  <2>1. ASSUME NEW i \in Entries("verdict") PROVE Sound(log[i])'
    <3>1. PICK v : v = log[i] /\ v = log'[i]
      BY <1>1
    <3>2. Sound(v)
      BY <3>1, <1>4 DEF VerdictInv
    <3>3. pc' \in Sampling => v.t < clock'
      BY <3>2, <1>3 DEF Sound
    <3>4. \A h \in Past' : h.t \in Nat /\ (h \in Past \/ v.t < h.t)
      BY <1>3, TakenEarlier DEF Past
    <3>5. pc = "final" => pc' = "final" /\ clock' = clock
      OBVIOUS
    <3>6. Sound(v)'
      BY <3>2, <3>3, <3>4, <3>5, <1>1, <1>3, SoundStays
    <3> QED BY <3>1, <3>6 DEF Sound
  <2> QED BY <2>1, <1>1 DEF VerdictInv
<1>8. LatestInv'
  <2>1. pc \in Starting => Past = {}
    <3>1. pc \in Starting => sent = <<>> /\ batch = <<>>
      BY <1>4 DEF TeleInv
    <3>2. <<>> \o <<>> = <<>> /\ Range(<<>>) = {}
      BY DEF Range
    <3> QED BY <3>1, <3>2 DEF Past, History
  <2> QED BY <2>1, <1>3, <1>4 DEF LatestInv
<1> QED BY <1>3, <1>4, <1>5, <1>6, <1>7, <1>8

\* What is said by the steps that have nothing to do with expectations.
LEMMA SaysLittle ==
  ASSUME SchedInv, ListInv, [Next]_vars, ~Inject, ~FinishSample, ~Leave
  PROVE  Same("applied") /\ Same("verdict")
<1>1. CASE ProcessObservation
  BY <1>1, Processed
<1>2. CASE log' = log
  BY <1>2 DEF Same, Entries
<1>3. CASE ~ProcessObservation /\ log' # log
  <2>1. \E entry : log' = log \o <<entry>> /\ entry.kind \notin {"applied", "verdict"}
    <3>1. /\ \A s : Lifecycle(s).kind = "lifecycle" /\ Marked(s).kind = s
          /\ \A id, t, r : Cleared(id, t, r).kind = "cleared"
      BY DEF Lifecycle, Marked, Cleared
    <3>2. \/ log' = log \o <<Lifecycle("PREPARING")>> \/ log' = log \o <<Lifecycle("RUNNING")>>
          \/ log' = log \o <<Lifecycle("COLLECTING")>> \/ log' = log \o <<Marked("finished")>>
          \/ \E id, r : log' = log \o <<Cleared(id, clock, r)>>
      BY <1>3 DEF Next, Step, Prepare, Prepared, PreparationCancelled, StartMission, ClearDue,
           Handle, Collect, CollectArtifacts, Stop, Pop, Finish, Observe, TargetFails, SinkFails,
           PublishArtifactFails, Cancel, vars, Say
    <3>3. CASE \E s : log' = log \o <<Lifecycle(s)>>
      <4>1. PICK s : log' = log \o <<Lifecycle(s)>>
        BY <3>3
      <4> QED BY <4>1, <3>1
    <3>4. CASE log' = log \o <<Marked("finished")>>
      <4>1. PICK entry : entry = Marked("finished") /\ entry.kind = "finished"
        BY <3>1
      <4> QED BY <4>1, <3>4
    <3>5. CASE \E id, r : log' = log \o <<Cleared(id, clock, r)>>
      <4>1. PICK id, r : log' = log \o <<Cleared(id, clock, r)>>
        BY <3>5
      <4> QED BY <4>1, <3>1
    <3> QED BY <3>2, <3>3, <3>4, <3>5
  <2>2. PICK entry : log' = log \o <<entry>> /\ entry.kind \notin {"applied", "verdict"}
    BY <2>1
  <2>3. IsSequence(<<entry>>) /\ \A k \in DOMAIN <<entry>> : <<entry>>[k].kind \notin {"applied", "verdict"}
    BY <2>2, OneEntry
  <2>4. IsSequence(log)
    BY DEF SchedInv, MissionInv
  <2> QED BY <2>2, <2>3, <2>4, Unnoted
<1> QED BY <1>1, <1>2, <1>3

\* The steps that have nothing to do with expectations.
LEMMA JudgeMove ==
  ASSUME SchedInv, TeleInv, ListInv, JudgeInv, [Next]_vars, ~Inject, ~FinishSample, ~Leave
  PROVE  JudgeInv'
<1>1. Same("applied") /\ Same("verdict")
  BY SaysLittle
<1>2. scenario' = scenario
  BY DEF Next, Step, vars, Prepare, Prepared, PreparationCancelled, StartMission, ClearDue,
     ProcessObservation, Handle, Collect, CollectArtifacts, Stop, Pop, Finish, Observe, TargetFails,
     SinkFails, PublishArtifactFails, Cancel
<1>3. clock \in Nat /\ clock <= clock
  BY DEF SchedInv, MissionInv
<1>4. (pc = "raised" => exc # None) /\ (pc \in Mission => exc = None)
  BY DEF SchedInv, MissionInv
<1> USE DEF Live, Mission, InTry, Starting, Sampling
<1>5. CASE Prepare
  <2>1. None # "unsupported"
    BY EngineAssumption
  <2>2. Live' => pc' = "preparing"
    BY <1>5, <2>1 DEF Prepare
  <2> QED BY <1>5, <1>1, <1>2, <1>3, <2>2, JudgeCalm DEF Prepare, watch, tele
<1>6. CASE Prepared
  BY <1>6, <1>1, <1>2, <1>3, JudgeCalm DEF Prepared, sched, watch, tele, ending
<1>7. CASE StartMission
  BY <1>7, <1>1, <1>2, <1>3, JudgeCalm DEF StartMission, mission, watch, tele, ending
<1>8. CASE ClearDue
  BY <1>8, <1>1, <1>2, <1>3, JudgeCalm DEF ClearDue, watch, tele, ending
<1>9. CASE ProcessObservation
  BY <1>9, <1>1, <1>2, <1>3, JudgeCalm DEF ProcessObservation, tele, ending
<1>10. CASE Observe
  <2>1. clock' \in Nat /\ clock <= clock' /\ (pc' = "scheduled" => clock < clock')
    <3>1. \/ clock' = clock /\ pc' # "scheduled"
          \/ \E o \in Observations : clock' = clock + o.step
      BY <1>10 DEF Observe
    <3>2. \A o \in Observations : o.step \in Nat \ {0}
      BY EngineAssumption
    <3> QED BY <3>1, <3>2, <1>3
  <2> QED BY <1>10, <1>1, <1>2, <1>3, <2>1, JudgeCalm DEF Observe, watch, tele
<1>11. CASE Cancel \/ UNCHANGED vars
  BY <1>11, <1>1, <1>2, <1>3, JudgeCalm DEF Cancel, vars, mission, watch, tele, ending
<1>12. CASE PreparationCancelled \/ TargetFails \/ SinkFails \/ Handle \/ Collect \/ CollectArtifacts
              \/ Stop \/ Pop \/ Finish \/ PublishArtifactFails
  <2>1. ~Live'
    BY <1>12, <1>4, EngineAssumption
       DEF PreparationCancelled, TargetFails, SinkFails, Handle, Collect, CollectArtifacts, Stop, Pop,
           Finish, PublishArtifactFails
  <2> QED BY <2>1, <1>1, <1>2, JudgeCalm
<1> QED BY <1>5, <1>6, <1>7, <1>8, <1>9, <1>10, <1>11, <1>12 DEF Next, Step

\* An expectation of an event as it is registered.
Fresh(x, e, t, i) ==
  /\ DOMAIN x = ExpectationFields
  /\ x.of = <<e.id, i>> /\ x.sub = e.expect[i].sub /\ x.state = e.expect[i].state
  /\ x.requested = t /\ x.deadline = t + e.expect[i].within /\ x.left = FALSE

\* What an event registers.
LEMMA RegisteredFields ==
  ASSUME NEW e, NEW t, NEW i \in DOMAIN e.expect
  PROVE  Fresh(Registered(e, t)[i], e, t, i)
<1> DEFINE sub == e.expect[i].sub
           state == e.expect[i].state
           deadline == t + e.expect[i].within
           of == <<e.id, i>>
<1>1. Registered(e, t)[i] = [of |-> of, sub |-> sub, state |-> state, requested |-> t,
                             deadline |-> deadline, left |-> FALSE]
  BY DEF Registered
<1> HIDE DEF sub, state, deadline, of
<1>2. PICK x : x = [of |-> of, sub |-> sub, state |-> state, requested |-> t,
                    deadline |-> deadline, left |-> FALSE]
  OBVIOUS
<1>3. /\ DOMAIN x = ExpectationFields /\ x.of = of /\ x.sub = sub /\ x.state = state
      /\ x.requested = t /\ x.deadline = deadline /\ x.left = FALSE
  BY <1>2 DEF ExpectationFields
<1>4. Fresh(x, e, t, i)
  BY <1>3 DEF Fresh, sub, state, deadline, of
<1> QED BY <1>1, <1>2, <1>4

\* Where no sample is later than the injection, its expectations are open.
LEMMA FreshUnsettled ==
  ASSUME NEW x, NEW S, x.left = FALSE, Later(S, x.requested) = {}
  PROVE  Unsettled(x, S)
BY DEF Unsettled, Held, StaysWell

\* An event is applied: what it expects is registered.
LEMMA JudgeApply ==
  ASSUME SchedInv, TeleInv, ListInv, JudgeInv, NEW e \in Known, ~Applied(e.id),
         UNCHANGED <<scenario, pc, clock, sent, batch, exc, faults>>, pc = "scheduled",
         expectations' = expectations \o Registered(e, clock),
         log' = log \o <<Note("requested", e.id, clock), Note("applied", e.id, clock)>>
  PROVE  JudgeInv'
<1> DEFINE more == Registered(e, clock)
<1>1. /\ scenario \in Scenarios /\ DistinctIds(scenario) /\ clock \in Nat /\ IsSequence(log)
      /\ exc = None /\ IsSequence(expectations) /\ pc \in Sampling
  BY DEF SchedInv, MissionInv, Mission, InTry, ListInv, Sampling
<1>2. EventOf(e.id) = e /\ EventOf(e.id)' = e
  BY <1>1, EventInIs DEF EventOf, Known
<1>3. /\ Live
      /\ faults = 0 /\ \A of : Asked(of) => Judged(of) \/ Open(of)
      /\ OpenInv /\ VerdictInv /\ OnceJudged
  BY DEF JudgeInv, Live, Mission, InTry
<1>4. Same("verdict")
  BY <1>1, AppliedNoted
<1>5. PICK n : /\ Entries("applied")' = Entries("applied") \cup {n} /\ n \notin Entries("applied")
               /\ \A i \in Entries("applied") : log'[i] = log[i]
               /\ log'[n].id = e.id /\ log'[n].t = clock
  <2>1. PICK id, t : /\ id = e.id /\ t = clock /\ IsSequence(log)
                     /\ log' = log \o <<Note("requested", id, t), Note("applied", id, t)>>
    BY <1>1
  <2>2. \E n : /\ Entries("applied")' = Entries("applied") \cup {n} /\ n \notin Entries("applied")
               /\ \A i \in Entries("applied") : log'[i] = log[i]
               /\ log'[n].id = id /\ log'[n].t = t
    BY ZenonT(40), <2>1, AppliedNoted
  <2> QED BY <2>1, <2>2
<1>6. Grown /\ Past' = Past
  BY <1>5 DEF Grown, Past, History
<1>7. \A id : (Applied(id)' <=> Applied(id) \/ id = e.id) /\ EventOf(id)' = EventOf(id)
  BY <1>5 DEF Applied, EventOf
<1>8. \A of : Judged(of)' = Judged(of)
  BY <1>4 DEF Same, Judged
<1>9. \A i \in DOMAIN e.expect : ~Judged(<<e.id, i>>)
  <2>1. \A j \in Entries("verdict") : Applied(log[j].of[1])
    BY <1>3 DEF VerdictInv, Sound, Asked
  <2> QED BY <2>1 DEF Judged
<1>10. /\ IsSequence(more) /\ DOMAIN more = DOMAIN e.expect
       /\ \A i \in DOMAIN e.expect : Fresh(more[i], e, clock, i)
  <2>1. IsSequence(more)
    BY <1>1, RegistersList DEF Known
  <2>2. DOMAIN more = DOMAIN e.expect
    BY DEF Registered
  <2>3. \A i \in DOMAIN e.expect : Fresh(more[i], e, clock, i)
    BY RegisteredFields
  <2> QED BY <2>1, <2>2, <2>3
<1> HIDE DEF more
<1>11. PICK L : L = Len(expectations)
  OBVIOUS
<1>12. /\ L \in Nat /\ DOMAIN expectations = 1..L
       /\ Range(expectations') = Range(expectations) \cup Range(more)
       /\ DOMAIN more \subseteq Nat
       /\ \A i \in DOMAIN expectations' :
            \/ i \in DOMAIN expectations /\ expectations'[i] = expectations[i]
            \/ \E k \in DOMAIN more : i = L + k /\ expectations'[i] = more[k]
  <2>1. expectations' = expectations \o more
    BY DEF more
  <2>2. /\ IsSequence(expectations') /\ Len(expectations) \in Nat /\ Len(more) \in Nat
        /\ Len(expectations') = Len(expectations) + Len(more)
        /\ \A i \in 1..Len(expectations) : expectations'[i] = expectations[i]
        /\ \A i \in 1..Len(more) : expectations'[Len(expectations) + i] = more[i]
    BY <2>1, <1>1, <1>10, ConcatSequence
  <2>3. /\ DOMAIN expectations = 1..L /\ DOMAIN more = 1..Len(more)
        /\ DOMAIN expectations' = 1..Len(expectations')
    BY <2>2, <1>1, <1>10, <1>11 DEF IsSequence
  <2>4. Range(expectations') = Range(expectations) \cup Range(more)
    BY <2>1, <1>1, <1>10, ConcatRange
  <2>5. ASSUME NEW i \in DOMAIN expectations', i \notin DOMAIN expectations
        PROVE  \E k \in DOMAIN more : i = L + k /\ expectations'[i] = more[k]
    <3>1. PICK k : k = i - L
      OBVIOUS
    <3>2. k \in 1..Len(more) /\ i = L + k
      BY <2>2, <2>3, <2>5, <3>1, <1>11
    <3> QED BY <3>2, <2>2, <2>3, <1>11
  <2>6. \A i \in DOMAIN expectations : expectations'[i] = expectations[i]
    BY <2>2, <2>3, <1>11
  <2>7. DOMAIN more \subseteq Nat /\ L \in Nat
    BY <2>2, <2>3, <1>11
  <2> QED BY <2>3, <2>4, <2>5, <2>6, <2>7
<1>13. OpenInv'
  <2>1. \A x \in Range(expectations) : Traced(x) /\ ~Judged(x.of) /\ Unsettled(x, Past) /\ Seen(x)
    BY <1>3 DEF OpenInv
  <2>2. ASSUME NEW i \in DOMAIN expectations', NEW j \in DOMAIN expectations',
               expectations'[i].of = expectations'[j].of
        PROVE  i = j
    <3>1. \A k \in DOMAIN expectations : Applied(expectations[k].of[1])
      BY <2>1 DEF Traced, Asked, Range
    <3>2. \A k \in DOMAIN more : more[k].of[1] = e.id /\ more[k].of[2] = k
      BY <1>10 DEF Fresh
    <3>3. \A k, l \in DOMAIN expectations : expectations[k].of = expectations[l].of => k = l
      BY <1>3 DEF OpenInv
    <3>4. CASE i \in DOMAIN expectations /\ expectations'[i] = expectations[i]
      <4>1. ~\E k \in DOMAIN more : expectations'[j] = more[k]
        BY <2>2, <3>1, <3>2, <3>4
      <4> QED BY <2>2, <3>3, <3>4, <4>1, <1>12
    <3>5. CASE \E k \in DOMAIN more : i = L + k /\ expectations'[i] = more[k]
      <4>1. PICK k \in DOMAIN more : i = L + k /\ expectations'[i] = more[k]
        BY <3>5
      <4>2. ~(j \in DOMAIN expectations /\ expectations'[j] = expectations[j])
        BY <2>2, <3>1, <3>2, <4>1
      <4>3. PICK l \in DOMAIN more : j = L + l /\ expectations'[j] = more[l]
        BY <4>2, <1>12
      <4> QED BY <2>2, <3>2, <4>1, <4>3
    <3> QED BY <3>4, <3>5, <1>12
  <2>3. ASSUME NEW x \in Range(expectations)
        PROVE  Traced(x)' /\ ~Judged(x.of)' /\ Unsettled(x, Past') /\ Seen(x)'
    <3>1. Traced(x)'
      BY <2>1, <1>6, TracedStays
    <3>2. Seen(x)'
      BY <2>1, <1>6 DEF Seen
    <3> QED BY <2>1, <3>1, <3>2, <1>6, <1>8
  <2>4. ASSUME NEW x \in Range(more)
        PROVE  Traced(x)' /\ ~Judged(x.of)' /\ Unsettled(x, Past') /\ Seen(x)'
    <3>1. PICK i \in DOMAIN e.expect : x = more[i]
      BY <1>10 DEF Range
    <3>2. /\ DOMAIN x = ExpectationFields
          /\ x.of = <<e.id, i>> /\ x.sub = e.expect[i].sub /\ x.state = e.expect[i].state
          /\ x.requested = clock /\ x.deadline = clock + e.expect[i].within /\ x.left = FALSE
      BY <3>1, <1>10 DEF Fresh
    <3>3. x.of[1] = e.id /\ x.of[2] = i
      BY <3>2
    <3>4. Wanted(x.of)' = e.expect[i]
      BY <3>3, <1>2, <1>7 DEF Wanted
    <3>5. Asked(x.of)'
      BY <3>2, <3>3, <1>2, <1>7 DEF Asked
    <3>6. \E k \in Entries("applied")' : log'[k].id = x.of[1] /\ x.requested = log'[k].t
      BY <3>2, <3>3, <1>5
    <3>7. Traced(x)'
      BY <3>2, <3>4, <3>5, <3>6 DEF Traced
    <3>8. ~Judged(x.of)'
      BY <3>2, <1>8, <1>9
    <3>9. Later(Past, x.requested) = {}
      <4>1. \A h \in Past : h.t \in Nat /\ h.t < clock
        BY <1>1, TakenEarlier DEF Past
      <4>2. \A h \in Past : ~(h.t > clock)
        BY <4>1, <1>1
      <4> QED BY <4>2, <3>2 DEF Later
    <3>10. Unsettled(x, Past)
      BY <3>2, <3>9, FreshUnsettled
    <3>11. Seen(x)'
      BY <3>2, <1>1 DEF Seen
    <3> QED BY <3>7, <3>8, <3>10, <3>11, <1>6
  <2>5. \A x \in Range(expectations') : (Traced(x) /\ ~Judged(x.of) /\ Unsettled(x, Past) /\ Seen(x))'
    BY <2>3, <2>4, <1>12
  <2> QED BY <2>2, <2>5 DEF OpenInv
<1>14. \A of : Asked(of)' => Judged(of)' \/ Open(of)'
  <2> SUFFICES ASSUME NEW of, Asked(of)' PROVE Judged(of) \/ Open(of)'
    BY <1>8
  <2>1. /\ of = <<of[1], of[2]>> /\ (Applied(of[1]) \/ of[1] = e.id)
        /\ of[2] \in DOMAIN EventOf(of[1]).expect
    BY <1>7 DEF Asked
  <2>2. CASE Applied(of[1])
    <3>1. Judged(of) \/ Open(of)
      BY <2>1, <2>2, <1>3 DEF Asked
    <3> QED BY <3>1, <1>12 DEF Open
  <2>3. CASE of[1] = e.id
    <3>1. of[2] \in DOMAIN more /\ more[of[2]].of = of
      BY <2>1, <2>3, <1>2, <1>10 DEF Fresh
    <3>2. more[of[2]] \in Range(expectations')
      BY <3>1, <1>12 DEF Range
    <3> QED BY <3>1, <3>2 DEF Open
  <2> QED BY <2>1, <2>2, <2>3
<1>15. VerdictInv'
  <2>1. /\ Entries("verdict")' = Entries("verdict")
        /\ \A i \in Entries("verdict") : log'[i] = log[i]
    BY <1>4 DEF Same
  <2>2. ASSUME NEW i \in Entries("verdict") PROVE Sound(log[i])'
    <3>1. PICK v : v = log[i] /\ v = log'[i]
      BY <2>1
    <3>2. Sound(v)
      BY <3>1, <1>3 DEF VerdictInv
    <3>3. \A j \in Entries("applied")' : j \in Entries("applied") \/ ~Applied(log'[j].id)
      BY <1>5
    <3>4. clock' \in Nat /\ clock <= clock' /\ v.t < clock'
      BY <3>2, <1>1 DEF Sound
    <3>5. Past \subseteq Past' /\ \A h \in Past' : h.t \in Nat /\ (h \in Past \/ v.t < h.t)
      BY <1>6, TakenEarlier DEF Past
    <3>6. pc # "final"
      OBVIOUS
    <3>7. Sound(v)'
      BY <3>2, <3>3, <3>4, <3>5, <3>6, <1>6, SoundStays
    <3> QED BY <3>1, <3>7 DEF Sound
  <2> QED BY <2>1, <2>2 DEF VerdictInv
<1>16. OnceJudged'
  BY <1>3, <1>4 DEF OnceJudged, Same
<1>17. faults' = 0 /\ pc' \notin Starting /\ pc' # "final" /\ LatestInv'
  BY <1>3 DEF Starting, LatestInv
<1> QED BY <1>13, <1>14, <1>15, <1>16, <1>17 DEF JudgeInv

\* An event that is due is injected: applied or rejected.
LEMMA JudgeInject ==
  ASSUME SchedInv, TeleInv, ListInv, JudgeInv, Inject
  PROVE  JudgeInv'
<1>1. /\ UNCHANGED <<scenario, pc, clock, sent, batch, exc, faults, states>>
      /\ pc = "scheduled" /\ pending # <<>>
  BY DEF Inject, tele, ending
<1>2. PICK e : e = Head(pending)
  OBVIOUS
<1>3. e \in Known /\ ~Applied(e.id)
  <2>1. IsSequence(pending) /\ Range(pending) \subseteq Known /\ \A i \in DOMAIN pending : ~Applied(pending[i].id)
    BY DEF SchedInv, PendingInv
  <2>2. e = pending[1] /\ 1 \in DOMAIN pending
    BY <1>1, <1>2, <2>1, TailSequence DEF IsSequence
  <2> QED BY <2>1, <2>2 DEF Range
<1>4. CASE /\ expectations' = expectations \o Registered(e, clock)
           /\ log' = log \o <<Note("requested", e.id, clock), Note("applied", e.id, clock)>>
  BY <1>1, <1>3, <1>4, JudgeApply
<1>5. CASE /\ log' = log \o <<Note("requested", e.id, clock), Note("rejected", e.id, clock)>>
           /\ expectations' = expectations
  <2> DEFINE more == <<Note("requested", e.id, clock), Note("rejected", e.id, clock)>>
  <2>1. IsSequence(more) /\ \A k \in DOMAIN more : more[k].kind \notin {"applied", "verdict"}
    BY DEF Note, IsSequence, Range
  <2>2. IsSequence(log) /\ clock \in Nat /\ clock <= clock
    BY DEF SchedInv, MissionInv
  <2>3. Same("applied") /\ Same("verdict")
    <3> HIDE DEF more
    <3> QED BY <2>1, <2>2, <1>5, Unnoted DEF more
  <2> QED BY <2>2, <2>3, <1>1, <1>5, JudgeCalm DEF Live, Mission, InTry, Starting, Sampling
<1> QED BY <1>2, <1>4, <1>5 DEF Inject, Say

\* Verdicts are given on some of what is open.
LEMMA JudgeDecide ==
  ASSUME SchedInv, TeleInv, JudgeInv, Live, UNCHANGED <<scenario, clock>>,
         pc # "final", pc' \notin Sampling,
         NEW more, IsSequence(more), log' = log \o more,
         \A k \in DOMAIN more : more[k].kind # "applied",
         Past \subseteq Past', \A h \in Past' : h \in Past \/ (h.t = clock /\ pc \in Sampling),
         \A k \in DOMAIN more : more[k].kind = "verdict" =>
           /\ more[k].t = clock /\ more[k].passed \in BOOLEAN
           /\ \E x \in Range(expectations) :
                /\ more[k].of = x.of
                /\ Earned(more[k], Wanted(x.of), x.requested, Past', pc' = "final"),
         \A k, l \in DOMAIN more :
           more[k].kind = "verdict" /\ more[l].kind = "verdict" /\ more[k].of = more[l].of => k = l
  PROVE  /\ OnceJudged' /\ VerdictInv' /\ Same("applied")
         /\ \A of : Judged(of)' <=>
              Judged(of) \/ \E k \in DOMAIN more : more[k].kind = "verdict" /\ more[k].of = of
<1> DEFINE given == {k \in DOMAIN more : more[k].kind = "verdict"}
<1>1. IsSequence(log) /\ clock \in Nat /\ clock' = clock
  BY DEF SchedInv, MissionInv
<1>2. PICK L : L = Len(log)
  OBVIOUS
<1>3. /\ \A i \in DOMAIN log : i \in DOMAIN log' /\ log'[i] = log[i]
      /\ \A k \in DOMAIN more : L + k \in DOMAIN log' /\ log'[L + k] = more[k] /\ L + k \notin DOMAIN log
      /\ \A i \in DOMAIN log' : i \in DOMAIN log \/ \E k \in DOMAIN more : i = L + k
  <2>1. \A i \in DOMAIN log : i \in DOMAIN log' /\ log'[i] = log[i]
    BY <1>1, LogGrows
  <2>2. \A k \in DOMAIN more : /\ Len(log) + k \in DOMAIN log' /\ log'[Len(log) + k] = more[k]
                               /\ Len(log) + k \notin DOMAIN log
    BY <1>1, LogGrows
  <2>3. \A i \in DOMAIN log' : i \in DOMAIN log \/ \E k \in DOMAIN more : i = Len(log) + k
    BY <1>1, LogGrows
  <2> QED BY <2>1, <2>2, <2>3, <1>2
<1>4. /\ \A i \in Entries("verdict") : i \in Entries("verdict")' /\ log'[i] = log[i]
      /\ \A k \in given : L + k \in Entries("verdict")' /\ log'[L + k] = more[k]
      /\ \A i \in Entries("verdict")' : i \in Entries("verdict") \/ \E k \in given : i = L + k
  BY <1>3 DEF Entries
<1>5. Same("applied") /\ Grown
  <2>1. Same("applied")
    BY <1>1, Unnoted
  <2> QED BY <2>1 DEF Same, Grown
<1>6. OnceJudged /\ VerdictInv /\ OpenInv
  BY DEF JudgeInv
<1>7. \A k \in given : ~Judged(more[k].of)
  BY <1>6 DEF OpenInv
<1>8. OnceJudged'
  <2> SUFFICES ASSUME NEW i \in Entries("verdict")', NEW j \in Entries("verdict")', log'[i].of = log'[j].of
               PROVE  i = j
    BY DEF OnceJudged
  <2>1. CASE i \in Entries("verdict") /\ j \in Entries("verdict")
    BY <2>1, <1>4, <1>6 DEF OnceJudged
  <2>2. CASE i \in Entries("verdict") /\ \E k \in given : j = L + k
    <3>1. PICK k \in given : j = L + k
      BY <2>2
    <3>2. log[i].of = more[k].of
      BY <2>2, <3>1, <1>4
    <3> QED BY <2>2, <3>1, <3>2, <1>7 DEF Judged
  <2>3. CASE j \in Entries("verdict") /\ \E k \in given : i = L + k
    <3>1. PICK k \in given : i = L + k
      BY <2>3
    <3>2. log[j].of = more[k].of
      BY <2>3, <3>1, <1>4
    <3> QED BY <2>3, <3>1, <3>2, <1>7 DEF Judged
  <2>4. CASE (\E k \in given : i = L + k) /\ (\E k \in given : j = L + k)
    <3>1. PICK k \in given, l \in given : i = L + k /\ j = L + l
      BY <2>4
    <3>2. more[k].of = more[l].of
      BY <3>1, <1>4
    <3> QED BY <3>1, <3>2
  <2> QED BY <2>1, <2>2, <2>3, <2>4, <1>4
<1>9. \A of : Judged(of)' <=> Judged(of) \/ \E k \in given : more[k].of = of
  <2> TAKE of
  <2>1. Judged(of)' <=> \E i \in Entries("verdict")' : log'[i].of = of
    BY DEF Judged
  <2>2. ASSUME NEW i \in Entries("verdict")', log'[i].of = of
        PROVE  Judged(of) \/ \E k \in given : more[k].of = of
    <3>1. CASE i \in Entries("verdict")
      BY <2>2, <3>1, <1>4 DEF Judged
    <3>2. CASE \E k \in given : i = L + k
      <4>1. PICK k \in given : i = L + k
        BY <3>2
      <4> QED BY <2>2, <4>1, <1>4
    <3> QED BY <3>1, <3>2, <1>4
  <2>3. ASSUME Judged(of) PROVE \E i \in Entries("verdict")' : log'[i].of = of
    BY <2>3, <1>4 DEF Judged
  <2>4. ASSUME NEW k \in given, more[k].of = of PROVE \E i \in Entries("verdict")' : log'[i].of = of
    <3>1. PICK i : i = L + k
      OBVIOUS
    <3>2. i \in Entries("verdict")' /\ log'[i] = more[k]
      BY <3>1, <1>4
    <3> QED BY <2>4, <3>2
  <2> QED BY <2>1, <2>2, <2>3, <2>4
<1>10. ASSUME NEW i \in Entries("verdict") PROVE Sound(log[i])'
  <2>1. PICK v : v = log[i] /\ v = log'[i]
    BY <1>4
  <2>2. Sound(v)
    BY <2>1, <1>6 DEF VerdictInv
  <2>3. \A j \in Entries("applied")' : j \in Entries("applied")
    BY <1>5 DEF Same
  <2>4. \A h \in Past' : h.t \in Nat
    <3>1. \A h \in Past : h.t \in Nat
      BY TakenEarlier DEF Past
    <3> QED BY <3>1, <1>1
  <2>5. \A h \in Past' : h.t \in Nat /\ (h \in Past \/ v.t < h.t)
    BY <2>2, <2>4 DEF Sound
  <2>6. clock' \in Nat /\ clock <= clock'
    BY <1>1
  <2>7. Sound(v)'
    BY <2>2, <2>3, <2>5, <2>6, <1>5, SoundStays
  <2> QED BY <2>1, <2>7 DEF Sound
<1>11. ASSUME NEW k \in given PROVE Sound(log[L + k])'
  <2>1. PICK v : v = more[k] /\ v = log'[L + k]
    BY <1>4
  <2>2. PICK x \in Range(expectations) :
          v.of = x.of /\ Earned(v, Wanted(x.of), x.requested, Past', pc' = "final")
    BY <2>1
  <2>3. v.t = clock /\ v.passed \in BOOLEAN
    BY <2>1
  <2>4. Traced(x)
    BY <1>6 DEF OpenInv
  <2>5. Asked(v.of)' /\ Wanted(v.of)' = Wanted(x.of)
    BY <2>2, <2>4, <1>5, AskedStays DEF Traced
  <2>6. ASSUME NEW i \in Entries("applied")', log'[i].id = v.of[1]
        PROVE  log'[i].t = x.requested /\ x.requested <= clock
    <3>1. i \in Entries("applied") /\ log'[i] = log[i]
      BY <1>5 DEF Same
    <3> QED BY <3>1, <2>2, <2>4, <2>6, TracedTimes
  <2>7. v.t <= clock
    BY <2>3, <1>1
  <2>8. \A i \in Entries("applied")' :
          (log[i].id = v.of[1] =>
             /\ log[i].t <= v.t
             /\ Earned(v, Wanted(v.of), log[i].t, Past, pc = "final" /\ v.t = clock))'
    <3> SUFFICES ASSUME NEW i \in Entries("applied")', log'[i].id = v.of[1]
                 PROVE  /\ log'[i].t <= v.t
                        /\ Earned(v, Wanted(v.of)', log'[i].t, Past', pc' = "final" /\ v.t = clock')
      OBVIOUS
    <3>1. log'[i].t = x.requested /\ x.requested <= clock
      BY <2>6
    <3>2. (pc' = "final" /\ v.t = clock') = (pc' = "final")
      BY <2>3
    <3> QED BY <3>1, <3>2, <2>2, <2>3, <2>5
  <2>9. Sound(v)'
    BY <2>3, <2>5, <2>7, <2>8, <1>1 DEF Sound
  <2> QED BY <2>1, <2>9 DEF Sound
<1>12. VerdictInv'
  <2>1. \A i \in Entries("verdict")' : Sound(log[i])'
    BY <1>4, <1>10, <1>11
  <2> QED BY <2>1 DEF VerdictInv
<1> QED BY <1>5, <1>8, <1>9, <1>12

\* The samples that were taken, with the one that is.
LEMMA SampleTaken ==
  ASSUME TeleInv, FinishSample
  PROVE  Past' = Past \cup {Sample}
<1> DEFINE full == Append(batch, Sample)
<1>1. IsSequence(sent) /\ IsSequence(batch) /\ IsSequence(full)
  BY AppendSequence DEF TeleInv, TeleType
<1>2. Range(full) = Range(batch) \cup {Sample}
  <2> DEFINE L == Len(batch)
  <2>1. /\ DOMAIN full = 1..(L + 1) /\ L \in Nat /\ DOMAIN batch = 1..L
        /\ full[L + 1] = Sample /\ \A i \in 1..L : full[i] = batch[i]
    BY <1>1, AppendSequence DEF IsSequence
  <2>2. (\A i \in 1..(L + 1) : i \in 1..L \/ i = L + 1) /\ (\A i \in 1..L : i \in 1..(L + 1))
        /\ L + 1 \in 1..(L + 1)
    BY <2>1
  <2> HIDE DEF full, L
  <2> QED BY <2>1, <2>2 DEF Range
<1>3. Range(History) = Range(sent) \cup Range(batch)
  BY <1>1, ConcatRange DEF History
<1>4. IsSequence(sent \o full) /\ Range(sent \o full) = Range(sent) \cup Range(full)
  <2> HIDE DEF full
  <2> QED BY <1>1, ConcatRange, ConcatSequence
<1>5. History' = sent \o full
  <2>1. CASE BatchDue(clock)
    <3>1. sent' = sent \o full /\ batch' = <<>>
      BY <2>1 DEF FinishSample, BufferSample
    <3>2. (sent \o full) \o <<>> = sent \o full
      BY <1>4 DEF IsSequence
    <3> HIDE DEF full
    <3> QED BY <3>1, <3>2 DEF History
  <2>2. CASE ~BatchDue(clock)
    BY <2>2 DEF FinishSample, BufferSample, History
  <2> QED BY <2>1, <2>2
<1> HIDE DEF full
<1> QED BY <1>2, <1>3, <1>4, <1>5 DEF Past

\* What a sample makes of an open expectation.
LEMMA SampledOne ==
  ASSUME SchedInv, TeleInv, JudgeInv, FinishSample, NEW m \in DOMAIN expectations
  PROVE  LET x == expectations[m]
             y == IF clock <= x.requested THEN x ELSE Watched(x)
         IN  /\ y.of = x.of /\ (Traced(x) => Traced(y)) /\ (Seen(x) => Seen(y))
             /\ Undecided(y) => Unsettled(y, Past')
             /\ ~Undecided(y) =>
                  Earned(Verdict(y, ExpectationStatus(y, clock) = "passed"), Wanted(x.of),
                         x.requested, Past', FALSE)
<1>1. pc = "observed" /\ Live /\ pc \in Sampling
  BY DEF FinishSample, Live, Mission, InTry, Sampling
<1>2. PICK x \in Range(expectations) : x = expectations[m]
  BY DEF Range
<1>3. Traced(x) /\ Unsettled(x, Past)
  BY <1>1 DEF JudgeInv, OpenInv
<1>4. /\ clock \in Nat /\ x.requested \in Nat /\ x.requested <= clock /\ x.deadline \in Nat
      /\ DOMAIN x = ExpectationFields
  BY <1>3, TracedTimes DEF Traced
<1>5. Past' = Past \cup {Sample} /\ Sample.t = clock
  BY SampleTaken DEF Sample
<1>6. \A h \in Past : h.t \in Nat /\ h.t < clock
  BY <1>1, TakenEarlier DEF Past
<1>7. CASE clock <= x.requested
  <2>1. Undecided(x)
    BY <1>7 DEF Undecided
  <2>2. Later(Past', x.requested) = Later(Past, x.requested)
    <3>1. ~(Sample.t > x.requested)
      BY <1>4, <1>5, <1>7
    <3> QED BY <3>1, <1>5 DEF Later
  <2>3. Unsettled(x, Past')
    BY <2>2, <1>3 DEF Unsettled
  <2> QED BY <2>1, <2>3, <1>2, <1>7
<1>8. CASE ~(clock <= x.requested)
  <2>1. PICK y : y = Watched(x)
    OBVIOUS
  <2>2. /\ DOMAIN y = ExpectationFields
        /\ y.of = x.of /\ y.sub = x.sub /\ y.state = x.state
        /\ y.requested = x.requested /\ y.deadline = x.deadline
    BY <2>1, <1>4, WatchedFields
  <2>3. (Traced(x) => Traced(y)) /\ (Seen(x) => Seen(y))
    BY <2>2 DEF Traced, Seen
  <2>4. PICK w, S : w = Wanted(x.of) /\ S = Past
    OBVIOUS
  <2>5. w.sub = x.sub /\ w.state = x.state /\ x.deadline = x.requested + w.within
    BY <2>4, <1>3 DEF Traced
  <2>6. x.requested < clock
    BY <1>4, <1>8
  <2>7. Unsettled(x, S) /\ \A h \in S : h.t \in Nat /\ h.t < clock
    BY <2>4, <1>3, <1>6
  <2>8. /\ Undecided(y) => Unsettled(y, S \cup {Sample})
        /\ ~Undecided(y) =>
             Earned(Verdict(y, ExpectationStatus(y, clock) = "passed"), w, x.requested, S \cup {Sample}, FALSE)
    BY <2>1, <2>5, <2>6, <2>7, <1>4, Sampled
  <2> QED BY <2>1, <2>2, <2>3, <2>4, <2>8, <1>2, <1>5, <1>8
<1> QED BY <1>7, <1>8

\* A sample is taken: what it decides is judged, and the rest goes on being open.
LEMMA JudgeFinishSample ==
  ASSUME SchedInv, TeleInv, ListInv, JudgeInv, FinishSample
  PROVE  JudgeInv'
<1> DEFINE W == [i \in DOMAIN expectations |->
                   IF clock <= expectations[i].requested THEN expectations[i]
                   ELSE Watched(expectations[i])]
           U == {i \in DOMAIN W : Undecided(W[i])}
           D == {i \in DOMAIN W : ~Undecided(W[i])}
           decided == ElementsAt(W, D)
           more == Decisions(W)
<1>1. /\ pc = "observed" /\ pc' \in {"leaving", "waiting"} /\ UNCHANGED <<scenario, clock, states, exc, faults>>
      /\ log' = log \o more /\ expectations' = ElementsAt(W, U)
  BY DEF FinishSample, ending, Say
<1>2. /\ Live /\ pc \in Sampling /\ clock \in Nat /\ IsSequence(expectations)
      /\ faults = 0 /\ OpenInv /\ \A of : Asked(of) => Judged(of) \/ Open(of)
  BY <1>1 DEF Live, Mission, InTry, Sampling, SchedInv, MissionInv, ListInv, JudgeInv
<1>3. IsSequence(W) /\ DOMAIN W = DOMAIN expectations /\ U \in SUBSET DOMAIN W /\ D \in SUBSET DOMAIN W
      /\ \A m \in DOMAIN W : m \in U \/ m \in D
  <2>1. IsSequence(W) /\ DOMAIN W = DOMAIN expectations
    BY <1>2, MappedSequence
  <2> QED BY <2>1
<1>4. \A m \in DOMAIN W :
        /\ W[m].of = expectations[m].of /\ Traced(W[m]) /\ Seen(W[m])
        /\ m \in U => Unsettled(W[m], Past')
        /\ m \in D => Earned(Verdict(W[m], ExpectationStatus(W[m], clock) = "passed"),
                             Wanted(expectations[m].of), expectations[m].requested, Past', FALSE)
  <2> TAKE m \in DOMAIN W
  <2>1. PICK x, y : /\ x = expectations[m] /\ y = W[m]
                    /\ y = IF clock <= x.requested THEN x ELSE Watched(x)
    BY <1>3
  <2>2. /\ y.of = x.of /\ (Traced(x) => Traced(y)) /\ (Seen(x) => Seen(y))
        /\ Undecided(y) => Unsettled(y, Past')
        /\ ~Undecided(y) =>
             Earned(Verdict(y, ExpectationStatus(y, clock) = "passed"), Wanted(x.of),
                    x.requested, Past', FALSE)
    BY <2>1, <1>3, SampledOne
  <2>3. Traced(x) /\ Seen(x)
    BY <2>1, <1>2, <1>3 DEF OpenInv, Range
  <2>4. (m \in U => Undecided(y)) /\ (m \in D => ~Undecided(y))
    BY <2>1
  <2> HIDE DEF W, U, D
  <2> QED BY <2>1, <2>2, <2>3, <2>4
<1>5. \A m, n \in DOMAIN W : W[m].of = W[n].of => m = n
  <2> HIDE DEF W
  <2> QED BY <1>2, <1>3, <1>4 DEF OpenInv
<1>6. \A m \in DOMAIN W : ~Judged(W[m].of)
  <2> HIDE DEF W
  <2> QED BY <1>2, <1>3, <1>4 DEF OpenInv, Range
<1>7. /\ IsSequence(decided) /\ Range(decided) = {W[m] : m \in D}
      /\ \A i, j \in DOMAIN decided : i < j =>
           \E m, n \in D : m < n /\ decided[i] = W[m] /\ decided[j] = W[n]
      /\ IsSequence(expectations') /\ Range(expectations') = {W[m] : m \in U}
      /\ \A i, j \in DOMAIN expectations' : i < j =>
           \E m, n \in U : m < n /\ expectations'[i] = W[m] /\ expectations'[j] = W[n]
  <2> HIDE DEF W, U, D
  <2> QED BY <1>1, <1>3, Selection
<1>8. /\ more = [k \in DOMAIN decided |->
                   Verdict(decided[k], ExpectationStatus(decided[k], clock) = "passed")]
      /\ IsSequence(more) /\ DOMAIN more = DOMAIN decided
  <2>1. more = [k \in DOMAIN decided |->
                  Verdict(decided[k], ExpectationStatus(decided[k], clock) = "passed")]
    BY DEF Decisions
  <2> HIDE DEF decided
  <2> QED BY <2>1, <1>7, MappedSequence
<1> HIDE DEF W, U, D, decided, more
<1>9. \A k \in DOMAIN more :
        /\ more[k].kind = "verdict" /\ more[k].of = decided[k].of /\ more[k].t = clock
        /\ more[k].passed \in BOOLEAN
        /\ more[k] = Verdict(decided[k], ExpectationStatus(decided[k], clock) = "passed")
  <2> TAKE k \in DOMAIN more
  <2> DEFINE passed == ExpectationStatus(decided[k], clock) = "passed"
  <2>1. passed \in BOOLEAN
    OBVIOUS
  <2>2. more[k] = Verdict(decided[k], passed)
    BY <1>8
  <2> HIDE DEF passed
  <2>3. PICK v : v = Verdict(decided[k], passed)
    OBVIOUS
  <2>4. v.kind = "verdict" /\ v.of = decided[k].of /\ v.t = clock /\ v.passed = passed
    BY <2>3 DEF Verdict
  <2> QED BY <2>1, <2>2, <2>3, <2>4 DEF passed
<1>10. DOMAIN decided \subseteq Nat /\ DOMAIN expectations' \subseteq Nat /\ D \subseteq Nat /\ U \subseteq Nat
  <2>1. DOMAIN W \subseteq Nat
    BY <1>3 DEF IsSequence
  <2> QED BY <2>1, <1>3, <1>7 DEF IsSequence
<1>11. \A k, l \in DOMAIN more : more[k].of = more[l].of => k = l
  <2> TAKE k, l \in DOMAIN more
  <2> HAVE more[k].of = more[l].of
  <2>1. decided[k].of = decided[l].of
    BY <1>9
  <2>2. \A m, n \in D : W[m].of = W[n].of => ~(m < n) /\ ~(n < m)
    BY <1>3, <1>5, <1>10
  <2>3. ~(k < l) /\ ~(l < k)
    BY <2>1, <2>2, <1>7, <1>8
  <2> QED BY <2>3, <1>8, <1>10
<1>12. Past' = Past \cup {Sample} /\ Sample.t = clock /\ Sample.health = states
  BY SampleTaken DEF Sample
<1>13. \A k \in DOMAIN more :
         \E x \in Range(expectations) :
           /\ more[k].of = x.of
           /\ Earned(more[k], Wanted(x.of), x.requested, Past', pc' = "final")
  <2> TAKE k \in DOMAIN more
  <2>1. PICK m \in D : decided[k] = W[m]
    BY <1>7, <1>8 DEF Range
  <2>2. PICK x \in Range(expectations) : x = expectations[m]
    BY <1>3 DEF Range
  <2>3. Earned(more[k], Wanted(x.of), x.requested, Past', FALSE)
    BY <2>1, <2>2, <1>3, <1>4, <1>9
  <2>4. (pc' = "final") = FALSE
    BY <1>1
  <2>5. Earned(more[k], Wanted(x.of), x.requested, Past', pc' = "final")
    BY <2>3, <2>4
  <2>6. more[k].of = x.of
    BY <2>1, <2>2, <1>3, <1>4, <1>9
  <2> QED BY <2>5, <2>6
<1>14. /\ OnceJudged' /\ VerdictInv' /\ Same("applied")
       /\ \A of : Judged(of)' <=>
            Judged(of) \/ \E k \in DOMAIN more : more[k].kind = "verdict" /\ more[k].of = of
  <2>1. \A k \in DOMAIN more : more[k].kind # "applied"
    BY <1>9
  <2>2. pc # "final" /\ pc' \notin Sampling
    BY <1>1 DEF Sampling
  <2>3. Past \subseteq Past' /\ \A h \in Past' : h \in Past \/ (h.t = clock /\ pc \in Sampling)
    BY <1>2, <1>12
  <2> QED BY <2>1, <2>2, <2>3, <1>1, <1>2, <1>8, <1>9, <1>11, <1>13, JudgeDecide
<1>15. OpenInv'
  <2>1. ASSUME NEW i \in DOMAIN expectations', NEW j \in DOMAIN expectations',
               expectations'[i].of = expectations'[j].of
        PROVE  i = j
    <3>1. \A m, n \in U : W[m].of = W[n].of => ~(m < n) /\ ~(n < m)
      BY <1>3, <1>5, <1>10
    <3>2. ~(i < j) /\ ~(j < i)
      BY <2>1, <3>1, <1>7
    <3> QED BY <3>2, <1>10
  <2>2. ASSUME NEW x \in Range(expectations')
        PROVE  Traced(x)' /\ ~Judged(x.of)' /\ Unsettled(x, Past') /\ Seen(x)'
    <3>1. PICK m \in U : x = W[m]
      BY <1>7
    <3>2. Traced(x) /\ Seen(x) /\ Unsettled(x, Past') /\ ~Judged(x.of)
      BY <3>1, <1>3, <1>4, <1>6
    <3>3. Traced(x)'
      <4>1. Grown
        BY <1>14 DEF Same, Grown
      <4> QED BY <3>2, <4>1, <1>1, TracedStays
    <3>4. Seen(x)'
      BY <3>2, <1>1, <1>12 DEF Seen
    <3>5. ~Judged(x.of)'
      <4>1. ASSUME NEW k \in DOMAIN more, more[k].of = x.of PROVE FALSE
        <5>1. PICK n \in D : decided[k] = W[n]
          BY <1>7, <1>8 DEF Range
        <5>2. W[n].of = W[m].of
          BY <3>1, <4>1, <5>1, <1>9
        <5>3. n = m
          BY <5>2, <1>3, <1>5
        <5> QED BY <5>3 DEF U, D
      <4> QED BY <3>2, <4>1, <1>14
    <3> QED BY <3>2, <3>3, <3>4, <3>5
  <2>3. \A x \in Range(expectations') : (Traced(x) /\ ~Judged(x.of) /\ Unsettled(x, Past) /\ Seen(x))'
    BY <2>2
  <2> QED BY <2>1, <2>3 DEF OpenInv
<1>16. \A of : Asked(of)' => Judged(of)' \/ Open(of)'
  <2> SUFFICES ASSUME NEW of, Asked(of)' PROVE Judged(of)' \/ Open(of)'
    OBVIOUS
  <2>1. Asked(of)
    <3>1. \A id : (Applied(id)' <=> Applied(id)) /\ EventOf(id)' = EventOf(id)
      BY <1>1, <1>14 DEF Same, Applied, EventOf
    <3> QED BY <3>1 DEF Asked
  <2>2. CASE Judged(of)
    BY <2>2, <1>14
  <2>3. CASE Open(of)
    <3>1. PICK m \in DOMAIN W : W[m].of = of
      BY <2>3, <1>3, <1>4 DEF Open, Range
    <3>2. CASE m \in U
      BY <3>1, <3>2, <1>7 DEF Open
    <3>3. CASE m \in D
      <4>1. PICK k \in DOMAIN decided : decided[k] = W[m]
        BY <3>3, <1>7 DEF Range
      <4> QED BY <3>1, <4>1, <1>8, <1>9, <1>14
    <3> QED BY <3>2, <3>3, <1>3
  <2> QED BY <2>1, <2>2, <2>3, <1>2
<1>17. LatestInv'
  <2>1. ASSUME NEW h \in Past', \A g \in Past' : g.t <= h.t PROVE h.health = states
    <3>1. \A g \in Past : g.t \in Nat /\ g.t < clock
      BY <1>2, TakenEarlier DEF Past
    <3>2. Sample.t <= h.t
      BY <2>1, <1>12
    <3>3. h \notin Past
      BY <3>1, <3>2, <1>2, <1>12
    <3> QED BY <2>1, <3>3, <1>12
  <2> QED BY <2>1, <1>1 DEF LatestInv
<1>18. faults' = 0 /\ pc' \notin Starting /\ pc' # "final"
  BY <1>1, <1>2 DEF Starting
<1> QED BY <1>14, <1>15, <1>16, <1>17, <1>18 DEF JudgeInv

\* The end of the mission: what is open is judged.
LEMMA JudgeLeave ==
  ASSUME SchedInv, TeleInv, ListInv, JudgeInv, Leave
  PROVE  JudgeInv'
<1> DEFINE ended   == ElementsAt(active, {i \in DOMAIN active : ClearedAtEnd(active[i])})
           flushed == [i \in DOMAIN expectations |-> Flushed(expectations[i])]
           cleared == [i \in DOMAIN ended |-> Cleared(ended[i].id, clock, "scenario_end")]
           more    == flushed \o cleared
<1>1. /\ UNCHANGED <<scenario, clock, exc, faults>> /\ pc = "leaving" /\ pc' = "final"
      /\ sent' = sent \o batch /\ batch' = <<>> /\ expectations' = <<>>
      /\ log' = log \o more
  BY DEF Leave, ending, Say
<1>2. /\ Live /\ clock \in Nat /\ IsSequence(expectations) /\ IsSequence(active) /\ exc = None
      /\ faults = 0 /\ OpenInv /\ LatestInv /\ \A of : Asked(of) => Judged(of) \/ Open(of)
  BY <1>1 DEF Live, Mission, InTry, SchedInv, MissionInv, ActiveInv, ListInv, JudgeInv
<1>3. Past' = Past
  <2>1. IsSequence(sent \o batch)
    BY ConcatSequence DEF TeleInv, TeleType
  <2>2. (sent \o batch) \o <<>> = sent \o batch
    BY <2>1 DEF IsSequence
  <2> QED BY <2>2, <1>1 DEF Past, History
<1>4. IsSequence(ended)
  <2> DEFINE places == {i \in DOMAIN active : ClearedAtEnd(active[i])}
  <2>1. places \in SUBSET DOMAIN active
    OBVIOUS
  <2> HIDE DEF places
  <2>2. IsSequence(ElementsAt(active, places))
    BY <2>1, <1>2, Selection
  <2> QED BY <2>2 DEF places
<1> HIDE DEF ended
<1>5. /\ IsSequence(flushed) /\ DOMAIN flushed = DOMAIN expectations
      /\ IsSequence(cleared) /\ \A i \in DOMAIN cleared : cleared[i].kind = "cleared"
  <2>1. IsSequence(flushed) /\ DOMAIN flushed = DOMAIN expectations
    BY <1>2, MappedSequence
  <2>2. IsSequence(cleared)
    BY <1>4, MappedSequence
  <2>3. \A i \in DOMAIN cleared : cleared[i].kind = "cleared"
    BY DEF Cleared
  <2> HIDE DEF flushed, cleared
  <2> QED BY <2>1, <2>2, <2>3
<1>6. ASSUME NEW m \in DOMAIN expectations
      PROVE  /\ flushed[m].kind = "verdict" /\ flushed[m].t = clock /\ flushed[m].passed \in BOOLEAN
             /\ flushed[m].of = expectations[m].of
             /\ Earned(flushed[m], Wanted(expectations[m].of), expectations[m].requested, Past, TRUE)
  <2>1. PICK x \in Range(expectations) : x = expectations[m]
    BY DEF Range
  <2>2. flushed[m] = Flushed(x)
    BY <2>1
  <2>3. Traced(x) /\ Unsettled(x, Past) /\ Seen(x)
    BY <1>2 DEF OpenInv
  <2>4. /\ x.requested \in Nat /\ x.requested <= clock /\ x.deadline \in Nat
    BY <2>3, TracedTimes
  <2>5. PICK w, S : w = Wanted(x.of) /\ S = Past
    OBVIOUS
  <2>6. w.sub = x.sub /\ w.state = x.state /\ x.deadline = x.requested + w.within
    BY <2>3, <2>5 DEF Traced
  <2>7. \A h \in S : h.t \in Nat /\ h.t <= clock
    BY <2>5, TakenEarlier DEF Past
  <2>8. \A g, h \in S : g.t = h.t => g = h
    BY <2>5, <1>2, TimesDiffer
  <2>9. \A h \in S : (\A g \in S : g.t <= h.t) => h.health = states
    BY <2>5, <1>1, <1>2 DEF LatestInv
  <2>10. \E h \in S : h.t = x.requested
    BY <2>3, <2>5, <1>1 DEF Seen, Sampling
  <2>11. Earned(Flushed(x), w, x.requested, S, TRUE)
    BY <2>3, <2>4, <2>5, <2>6, <2>7, <2>8, <2>9, <2>10, <1>2, FlushedEarned
  <2>12. /\ Flushed(x).kind = "verdict" /\ Flushed(x).t = clock /\ Flushed(x).passed \in BOOLEAN
         /\ Flushed(x).of = x.of
    <3> DEFINE passed == ExpectationStatus(x, clock + x.deadline + 1) = "passed"
    <3>1. passed \in BOOLEAN
      OBVIOUS
    <3>2. Flushed(x) = Verdict(x, passed)
      BY DEF Flushed
    <3> HIDE DEF passed
    <3>3. PICK v : v = Verdict(x, passed)
      OBVIOUS
    <3>4. v.kind = "verdict" /\ v.of = x.of /\ v.t = clock /\ v.passed = passed
      BY <3>3 DEF Verdict
    <3> QED BY <3>1, <3>2, <3>3, <3>4
  <2> HIDE DEF flushed
  <2> QED BY <2>1, <2>2, <2>5, <2>11, <2>12
<1> HIDE DEF flushed, cleared
<1>7. PICK F : F = Len(flushed)
  OBVIOUS
<1>8. /\ IsSequence(more) /\ DOMAIN flushed \subseteq DOMAIN more
      /\ \A k \in DOMAIN flushed : more[k] = flushed[k]
      /\ \A k \in DOMAIN more : k \in DOMAIN flushed \/ more[k].kind = "cleared"
  <2>1. /\ IsSequence(more) /\ F \in Nat /\ Len(cleared) \in Nat /\ Len(more) = F + Len(cleared)
        /\ \A i \in 1..F : more[i] = flushed[i]
        /\ \A i \in 1..Len(cleared) : more[F + i] = cleared[i]
    <3>1. /\ IsSequence(more) /\ Len(flushed) \in Nat /\ Len(cleared) \in Nat
          /\ Len(more) = Len(flushed) + Len(cleared)
          /\ \A i \in 1..Len(flushed) : more[i] = flushed[i]
          /\ \A i \in 1..Len(cleared) : more[Len(flushed) + i] = cleared[i]
      BY <1>5, ConcatSequence
    <3> HIDE DEF more
    <3> QED BY <3>1, <1>7
  <2>2. DOMAIN flushed = 1..F /\ DOMAIN cleared = 1..Len(cleared) /\ DOMAIN more = 1..Len(more)
    BY <2>1, <1>5, <1>7 DEF IsSequence
  <2> HIDE DEF more
  <2>3. ASSUME NEW k \in DOMAIN more, k \notin DOMAIN flushed PROVE more[k].kind = "cleared"
    <3>1. PICK i : i = k - F
      OBVIOUS
    <3>2. i \in 1..Len(cleared) /\ k = F + i
      BY <2>1, <2>2, <2>3, <3>1
    <3> QED BY <3>2, <2>1, <2>2, <1>5
  <2>4. DOMAIN flushed \subseteq DOMAIN more
    BY <2>1, <2>2
  <2> QED BY <2>1, <2>2, <2>3, <2>4
<1> HIDE DEF more
<1>9. /\ OnceJudged' /\ VerdictInv' /\ Same("applied")
      /\ \A of : Judged(of)' <=>
           Judged(of) \/ \E k \in DOMAIN more : more[k].kind = "verdict" /\ more[k].of = of
  <2>1. \A k \in DOMAIN more : more[k].kind # "applied"
    BY <1>5, <1>6, <1>8
  <2>2. pc # "final" /\ pc' \notin Sampling
    BY <1>1 DEF Sampling
  <2>3. ASSUME NEW k \in DOMAIN more, more[k].kind = "verdict"
        PROVE  /\ k \in DOMAIN expectations /\ more[k].of = expectations[k].of
               /\ more[k].t = clock /\ more[k].passed \in BOOLEAN
               /\ \E x \in Range(expectations) :
                    /\ more[k].of = x.of
                    /\ Earned(more[k], Wanted(x.of), x.requested, Past', pc' = "final")
    <3>1. k \in DOMAIN flushed /\ more[k] = flushed[k] /\ k \in DOMAIN expectations
      BY <2>3, <1>5, <1>8
    <3>2. PICK x \in Range(expectations) : x = expectations[k]
      BY <3>1 DEF Range
    <3>3. Earned(more[k], Wanted(x.of), x.requested, Past, TRUE) /\ more[k].of = x.of
          /\ more[k].t = clock /\ more[k].passed \in BOOLEAN
      BY <3>1, <3>2, <1>6
    <3>4. (pc' = "final") = TRUE
      BY <1>1
    <3>5. Earned(more[k], Wanted(x.of), x.requested, Past', pc' = "final")
      BY <3>3, <3>4, <1>3
    <3> QED BY <3>1, <3>2, <3>3, <3>5
  <2>4. \A k, l \in DOMAIN more :
          more[k].kind = "verdict" /\ more[l].kind = "verdict" /\ more[k].of = more[l].of => k = l
    BY <2>3, <1>2 DEF OpenInv
  <2> QED BY <2>1, <2>2, <2>3, <2>4, <1>1, <1>2, <1>3, <1>8, JudgeDecide
<1>10. OpenInv'
  <2>1. DOMAIN expectations' = {} /\ Range(expectations') = {}
    BY <1>1 DEF Range
  <2> QED BY <2>1 DEF OpenInv
<1>11. \A of : Asked(of)' => Judged(of)' \/ Open(of)'
  <2> SUFFICES ASSUME NEW of, Asked(of)' PROVE Judged(of)'
    OBVIOUS
  <2>1. Asked(of)
    <3>1. \A id : (Applied(id)' <=> Applied(id)) /\ EventOf(id)' = EventOf(id)
      BY <1>1, <1>9 DEF Same, Applied, EventOf
    <3> QED BY <3>1 DEF Asked
  <2>2. CASE Judged(of)
    BY <2>2, <1>9
  <2>3. CASE Open(of)
    <3>1. PICK m \in DOMAIN expectations : expectations[m].of = of
      BY <2>3 DEF Open, Range
    <3>2. m \in DOMAIN more /\ more[m].kind = "verdict" /\ more[m].of = of
      BY <3>1, <1>5, <1>6, <1>8
    <3> QED BY <3>2, <1>9
  <2> QED BY <2>1, <2>2, <2>3, <1>2
<1>12. faults' = 0 /\ pc' \notin Starting /\ LatestInv'
  BY <1>1, <1>2 DEF Starting, LatestInv
<1> QED BY <1>1, <1>9, <1>10, <1>11, <1>12 DEF JudgeInv

\* Nothing is expected or judged when the execution is accepted.
LEMMA JudgeInit ==
  ASSUME Init
  PROVE  JudgeInv
<1>1. /\ Entries("verdict") = {} /\ Entries("applied") = {} /\ faults = 0 /\ sent = <<>>
      /\ expectations = <<>> /\ pc = "accepted"
  BY DEF Init, Entries
<1>2. DOMAIN expectations = {} /\ Range(expectations) = {}
  BY <1>1 DEF Range
<1> QED BY <1>1, <1>2 DEF JudgeInv, OnceJudged, OpenInv, VerdictInv, LatestInv, Asked, Applied

\* Every step keeps it.
LEMMA JudgeNext ==
  ASSUME SchedInv, TeleInv, ListInv, JudgeInv, [Next]_vars
  PROVE  JudgeInv'
<1>1. CASE Inject
  BY <1>1, JudgeInject
<1>2. CASE FinishSample
  BY <1>2, JudgeFinishSample
<1>3. CASE Leave
  BY <1>3, JudgeLeave
<1>4. CASE ~Inject /\ ~FinishSample /\ ~Leave
  BY <1>4, JudgeMove
<1> QED BY <1>1, <1>2, <1>3, <1>4

\* The time of the injection that a verdict is about.
LEMMA AppliedWhen ==
  ASSUME NEW id, Applied(id)
  PROVE  \E i \in Entries("applied") : log[i].id = id /\ AppliedAt(id) = log[i].t
BY DEF Applied, AppliedAt

\* The invariant says all that is claimed of the verdicts.
LEMMA JudgeEnough ==
  ASSUME SchedInv, JudgeInv
  PROVE  JudgedRight
<1>1. ASSUME Settled PROVE Live /\ VerdictInv
  BY <1>1 DEF Settled, Live, Mission, InTry, JudgeInv
<1>2. VerdictsAreEarned
  <2> SUFFICES ASSUME Settled, NEW i \in Entries("verdict")
               PROVE  LET v        == log[i]
                          x        == EventOf(v.of[1]).expect[v.of[2]]
                          applied  == AppliedAt(v.of[1])
                          deadline == applied + x.within
                          after    == {h \in Range(History) : h.t > applied /\ h.t <= v.t}
                          judged   == IF after # {} THEN after ELSE {h \in Range(History) : h.t = applied}
                          well(h)  == h.health[x.sub] \in Healthy
                          held     == IF x.state = "RECOVERED"
                                        THEN \E g, h \in judged : g.t < h.t /\ ~well(g) /\ well(h)
                                      ELSE IF x.state \in Healthy THEN \A h \in judged : well(h)
                                      ELSE \E h \in judged : h.health[x.sub] = x.state
                          closed   == v.t > deadline \/ (pc = "final" /\ v.t = clock)
                      IN  /\ v.passed = held
                          /\ \A g, h \in after : g.t < h.t => g.t <= deadline
                          /\ v.passed = (x.state \in Healthy \ {"RECOVERED"}) => closed
    BY DEF VerdictsAreEarned
  <2>1. PICK v, x, a, S, end :
          /\ v = log[i] /\ x = EventOf(v.of[1]).expect[v.of[2]] /\ a = AppliedAt(v.of[1])
          /\ S = Range(History) /\ end = (pc = "final" /\ v.t = clock)
    OBVIOUS
  <2>2. Sound(v)
    BY <2>1, <1>1 DEF VerdictInv
  <2>3. Asked(v.of) /\ v.passed \in BOOLEAN
    BY <2>2 DEF Sound
  <2>4. PICK j \in Entries("applied") : log[j].id = v.of[1] /\ a = log[j].t
    BY <2>1, <2>3, AppliedWhen DEF Asked
  <2>5. Earned(v, x, a, S, end)
    <3>1. Earned(v, Wanted(v.of), log[j].t, Past, pc = "final" /\ v.t = clock)
      BY <2>2, <2>4 DEF Sound
    <3> QED BY <3>1, <2>1, <2>4 DEF Wanted, Past
  <2> DEFINE after  == {h \in S : h.t > a /\ h.t <= v.t}
             judged == IF after # {} THEN after ELSE {h \in S : h.t = a}
             held   == IF x.state = "RECOVERED"
                         THEN \E g, h \in judged :
                                g.t < h.t /\ ~(g.health[x.sub] \in Healthy) /\ h.health[x.sub] \in Healthy
                       ELSE IF x.state \in Healthy THEN \A h \in judged : h.health[x.sub] \in Healthy
                       ELSE \E h \in judged : h.health[x.sub] = x.state
             well   == x.state \in Healthy \ {"RECOVERED"}
  <2>6. judged = Judging(S, a, v.t)
    BY DEF Judging
  <2>7. held <=> Held(x, judged)
    <3> HIDE DEF judged
    <3> QED BY DEF Held
  <2>8. v.passed = held
    <3>1. v.passed <=> held
      <4> HIDE DEF held
      <4> QED BY <2>5, <2>6, <2>7 DEF Earned
    <3>2. held \in BOOLEAN
      OBVIOUS
    <3> HIDE DEF held
    <3> QED BY <3>1, <3>2, <2>3
  <2>9. \A g, h \in after : g.t < h.t => g.t <= a + x.within
    BY <2>5 DEF Earned
  <2>10. v.passed = well => v.t > a + x.within \/ end
    <3>1. well <=> StaysWell(x)
      BY DEF StaysWell
    <3> HIDE DEF well
    <3> QED BY <3>1, <2>5 DEF Earned
  <2> HIDE DEF held, well
  <2> QED BY ZenonT(40), <2>1, <2>8, <2>9, <2>10 DEF held, well
<1>3. EachIsJudgedOnce
  <2>1. \A i, j \in Entries("verdict") : log[i].of = log[j].of => i = j
    BY DEF JudgeInv, OnceJudged
  <2>2. ASSUME pc = "final", exc = None
        PROVE  {log[i].of : i \in Entries("verdict")} =
                 UNION {{<<log[i].id, n>> : n \in DOMAIN EventOf(log[i].id).expect} : i \in Entries("applied")}
    <3>1. /\ VerdictInv /\ expectations = <<>> /\ \A of : Asked(of) => Judged(of) \/ Open(of)
      BY <2>2 DEF JudgeInv, Live
    <3>2. \A of : ~Open(of)
      BY <3>1 DEF Open, Range
    <3>3. ASSUME NEW i \in Entries("verdict")
          PROVE  \E j \in Entries("applied") :
                   \E n \in DOMAIN EventOf(log[j].id).expect : log[i].of = <<log[j].id, n>>
      BY <3>1 DEF VerdictInv, Sound, Asked, Applied
    <3>4. ASSUME NEW i \in Entries("applied"), NEW n \in DOMAIN EventOf(log[i].id).expect
          PROVE  \E j \in Entries("verdict") : log[j].of = <<log[i].id, n>>
      <4>1. PICK of : of = <<log[i].id, n>> /\ of[1] = log[i].id /\ of[2] = n
        <5>1. PICK id : id = log[i].id
          OBVIOUS
        <5>2. <<id, n>>[1] = id /\ <<id, n>>[2] = n
          OBVIOUS
        <5> QED BY <5>1, <5>2
      <4>2. Asked(of)
        BY <4>1 DEF Asked, Applied
      <4>3. Judged(of)
        BY <4>2, <3>1, <3>2
      <4> QED BY <4>1, <4>3 DEF Judged
    <3> DEFINE given    == {log[i].of : i \in Entries("verdict")}
               those(i) == {<<log[i].id, n>> : n \in DOMAIN EventOf(log[i].id).expect}
    <3>5. ASSUME NEW of \in given
          PROVE  of \in UNION {those(i) : i \in Entries("applied")}
      <4>1. PICK i \in Entries("verdict") : of = log[i].of
        OBVIOUS
      <4>2. PICK j \in Entries("applied") :
              \E n \in DOMAIN EventOf(log[j].id).expect : log[i].of = <<log[j].id, n>>
        BY <3>3
      <4>3. of \in those(j)
        BY <4>1, <4>2
      <4> HIDE DEF those
      <4> QED BY <4>3
    <3>6. ASSUME NEW of \in UNION {those(i) : i \in Entries("applied")}
          PROVE  of \in given
      <4>1. PICK i \in Entries("applied") : of \in those(i)
        <5> HIDE DEF those
        <5> QED OBVIOUS
      <4>2. PICK n \in DOMAIN EventOf(log[i].id).expect : of = <<log[i].id, n>>
        BY <4>1
      <4>3. PICK j \in Entries("verdict") : log[j].of = <<log[i].id, n>>
        BY <3>4
      <4> QED BY <4>2, <4>3
    <3>7. given = UNION {those(i) : i \in Entries("applied")}
      <4> HIDE DEF given, those
      <4> QED BY <3>5, <3>6
    <3> QED BY <3>7
  <2> QED BY <2>1, <2>2 DEF EachIsJudgedOnce
<1> QED BY <1>2, <1>3 DEF JudgedRight

\* For every scenario whose events have different ids, whatever adapter and whatever
\* fails: a verdict is what the samples after the injection say, and is given neither
\* before it is certain nor after the first sample past the deadline; and every
\* expectation of an injection that was applied gets one, and no other does.
THEOREM Judges ==
  ASSUME \A s \in Scenarios : DistinctIds(s)
  PROVE  Spec => []JudgedRight
<1>1. Init => TeleInv /\ SchedInv /\ ListInv /\ JudgeInv
  BY TeleInit, SchedInit, JudgeInit, EmptySequence DEF Init, ListInv
<1>2. TeleInv /\ SchedInv /\ ListInv /\ JudgeInv /\ [Next]_vars => (TeleInv /\ SchedInv /\ ListInv /\ JudgeInv)'
  BY TeleNext, SchedNext, StaysList, JudgeNext
<1>3. SchedInv /\ JudgeInv => JudgedRight
  BY JudgeEnough
<1> QED BY <1>1, <1>2, <1>3, PTL DEF Spec

-----------------------------------------------------------------------------
(* The execution as RunPipeline has it. *)

AfterMission == {"final", "collecting", "stopping", "returned", "popped", "done"}

\* What the engine has in its hands are lists.
ListsInv ==
  /\ scenario \in Scenarios
  /\ IsSequence(log) /\ IsSequence(active) /\ IsSequence(expectations)
  /\ IsSequence(pending) /\ Range(pending) \subseteq Known
  /\ pc = "scheduled" => obs \in Observations

\* What was said so far, and how the state of the engine goes with the run state it
\* announced.
SaidInv ==
  /\ pc \in Mission \cup {"raised", "final"} =>
       \A i \in DOMAIN log : log[i].kind = "lifecycle" => log[i].state # "COLLECTING"
  /\ pc # "done" => \A i \in DOMAIN log : log[i].kind # "finished"

StageInv ==
  /\ pc \in Mission \cup {"raised"} \cup AfterMission
  /\ pc = "accepted" => runState = "QUEUED"
  /\ pc \in {"preparing", "prepared"} => runState = "PREPARING"
  /\ pc \in {"waiting", "scheduled", "observed", "leaving"} => runState \in {"RUNNING", "RECOVERING"}
  /\ pc = "raised" /\ exc # "sink" => runState \in {"PREPARING", "RUNNING", "RECOVERING"}
  /\ pc \in Mission => exc = None
  /\ pc = "raised" => exc \in {"unsupported", "cancelled", "target", "sink"}
  /\ pc \in Mission \cup {"raised"} => ~raised
  /\ raised \in BOOLEAN /\ token \in BOOLEAN
  /\ exc = "cancelled" => token
  /\ pc \in Mission => final = "COLLECTING" \/ (final = "CANCELLED" /\ token)

-----------------------------------------------------------------------------
(* The messages of the log. *)

\* What a message of the pipeline's log says of a run state.
Announces(state) == [kind |-> "lifecycle", state |-> state, from |-> Runner]

\* The states a runner announces before the mission is over.
UnderWay == {"PREPARING", "RUNNING", "RECOVERING"}

\* What does not announce any of some states changes nothing of what was told of them.
LEMMA ToldStays ==
  ASSUME IsSequence(log), NEW more, IsSequence(more), log' = log \o more, NEW A,
         \A k \in DOMAIN more : ~(more[k].kind = "lifecycle" /\ more[k].state \in A)
  PROVE  ToldAt(A)' = ToldAt(A) /\ Told(A)' = Told(A)
<1>1. /\ \A i \in DOMAIN log : i \in DOMAIN log' /\ log'[i] = log[i]
      /\ \A i \in DOMAIN log' : i \in DOMAIN log \/ \E k \in DOMAIN more : log'[i] = more[k]
  BY LogGrows
<1>2. ToldAt(A)' = ToldAt(A)
  BY <1>1 DEF ToldAt
<1>3. ToldAt(A) \in SUBSET DOMAIN log
  BY DEF ToldAt
<1>4. PICK after : after = log'
  OBVIOUS
<1>5. ElementsAt(after, ToldAt(A)) = ElementsAt(log, ToldAt(A))
  BY <1>1, <1>3, <1>4, SelectionStays
<1>6. ElementsAt(log, ToldAt(A))' = ElementsAt(log, ToldAt(A))
  BY <1>2, <1>4, <1>5
<1> QED BY <1>2, <1>6 DEF Told

\* What was told is a list.
LEMMA ToldList ==
  ASSUME IsSequence(log), NEW A
  PROVE  IsSequence(Told(A)) /\ (ToldAt(A) = {} => Told(A) = <<>>)
<1> DEFINE told == ElementsAt(log, ToldAt(A))
<1>1. IsSequence(told) /\ Len(told) = Cardinality(ToldAt(A))
  BY Selection DEF ToldAt
<1>2. Told(A) = [i \in DOMAIN told |-> [kind |-> "lifecycle", state |-> told[i].state, from |-> Runner]]
  BY DEF Told
<1> HIDE DEF told
<1>3. IsSequence(Told(A)) /\ DOMAIN Told(A) = DOMAIN told
  BY <1>1, <1>2, MappedSequence
<1>4. ASSUME ToldAt(A) = {} PROVE Told(A) = <<>>
  <2>1. Cardinality(ToldAt(A)) = 0
    BY <1>4, FS_EmptySet
  <2>2. DOMAIN told = {}
    BY <1>1, <2>1 DEF IsSequence
  <2> QED BY <1>3, <2>2 DEF IsSequence
<1> QED BY <1>3, <1>4

\* What announces one of them is told last.
LEMMA ToldMore ==
  ASSUME IsSequence(log), NEW more, IsSequence(more), log' = log \o more, NEW A,
         NEW state \in A, NEW n \in DOMAIN more, more[n] = Lifecycle(state),
         \A k \in DOMAIN more : k # n => more[k].kind # "lifecycle"
  PROVE  Told(A)' = Append(Told(A), Announces(state))
<1>1. /\ IsSequence(log') /\ Len(log) \in Nat
      /\ \A i \in DOMAIN log : i \in DOMAIN log' /\ log'[i] = log[i]
      /\ \A k \in DOMAIN more : /\ Len(log) + k \in DOMAIN log' /\ log'[Len(log) + k] = more[k]
                                /\ Len(log) + k \notin DOMAIN log
      /\ \A i \in DOMAIN log' : i \in DOMAIN log \/ \E k \in DOMAIN more : i = Len(log) + k
  BY LogGrows
<1>2. PICK at : at = Len(log) + n
  OBVIOUS
<1>3. PICK e : e = Lifecycle(state) /\ e.kind = "lifecycle" /\ e.state = state
  BY DEF Lifecycle
<1>4. at \in DOMAIN log' /\ at \notin DOMAIN log /\ log'[at] = e
  BY <1>1, <1>2, <1>3
<1>5. ToldAt(A)' = ToldAt(A) \cup {at}
  <2>1. ASSUME NEW i \in DOMAIN log', i \notin DOMAIN log, i # at PROVE log'[i].kind # "lifecycle"
    <3>1. PICK k \in DOMAIN more : i = Len(log) + k
      BY <1>1, <2>1
    <3>2. log'[i] = more[k] /\ k # n
      BY <1>1, <1>2, <2>1, <3>1
    <3> QED BY <3>2
  <2>2. log'[at].kind = "lifecycle" /\ log'[at].state \in A
    BY <1>3, <1>4
  <2> QED BY <1>1, <1>4, <2>1, <2>2 DEF ToldAt
<1>6. ToldAt(A) \in SUBSET DOMAIN log
  BY DEF ToldAt
<1>7. PICK after : after = log'
  OBVIOUS
<1>8. ElementsAt(after, ToldAt(A) \cup {at}) = Append(ElementsAt(log, ToldAt(A)), e)
  <2>1. /\ IsSequence(after) /\ \A i \in DOMAIN log : i \in DOMAIN after /\ after[i] = log[i]
        /\ at \in DOMAIN after /\ at \notin DOMAIN log /\ after[at] = e
    BY <1>1, <1>4, <1>7
  <2>2. ElementsAt(after, ToldAt(A) \cup {at}) = Append(ElementsAt(log, ToldAt(A)), after[at])
    <3>1. PICK places \in SUBSET DOMAIN log : places = ToldAt(A)
      BY <1>6
    <3>2. OneMore(after, log, places, at)
      BY <2>1, SelectionAppends
    <3> QED BY <3>1, <3>2 DEF OneMore
  <2> QED BY <2>1, <2>2
<1> DEFINE told == ElementsAt(log, ToldAt(A))
           next == Append(told, e)
<1>9. IsSequence(told)
  BY <1>6, Selection
<1>10. Told(A) = [i \in DOMAIN told |-> Announces(told[i].state)]
  BY DEF Told, Announces
<1>11. Told(A)' = [i \in DOMAIN next |-> Announces(next[i].state)]
  BY <1>5, <1>7, <1>8 DEF Told, Announces
<1> HIDE DEF told
<1>12. PICK N \in Nat : N = Len(told) /\ DOMAIN told = 1..N
  BY <1>9 DEF IsSequence
<1>13. /\ DOMAIN next = 1..(N + 1) /\ next[N + 1] = e
       /\ \A i \in 1..N : next[i] = told[i]
  BY <1>9, <1>12, AppendSequence DEF IsSequence
<1> HIDE DEF next
<1>14. IsSequence(Told(A)) /\ DOMAIN Told(A) = 1..N
  BY <1>10, <1>12, ToldList
<1> DEFINE x == Announces(state)
           z == Append(Told(A), x)
<1>15. /\ IsSequence(z) /\ DOMAIN z = 1..(N + 1) /\ z[N + 1] = x
       /\ \A i \in 1..N : z[i] = Told(A)[i]
  BY <1>14, AppendSequence DEF IsSequence
<1> HIDE DEF z
<1>16. z = [i \in 1..(N + 1) |-> z[i]]
  BY <1>15 DEF IsSequence
<1>17. ASSUME NEW i \in 1..(N + 1) PROVE z[i] = Announces(next[i].state)
  <2>1. CASE i \in 1..N
    BY <1>10, <1>12, <1>13, <1>15, <2>1
  <2>2. CASE i = N + 1
    BY <1>3, <1>13, <1>15, <2>2
  <2> QED BY <2>1, <2>2
<1>18. Told(A)' = z
  BY <1>11, <1>13, <1>16, <1>17
<1> QED BY <1>18 DEF z

-----------------------------------------------------------------------------
(* What the steps say. *)

\* The engine says something that the pipeline leaves out.
Chats ==
  \E more : /\ IsSequence(more) /\ log' = log \o more
            /\ \A k \in DOMAIN more : more[k].kind \notin {"lifecycle", "finished"}

\* It says neither that, nor that a component has changed.
Acts ==
  \E more : /\ IsSequence(more) /\ log' = log \o more
            /\ \A k \in DOMAIN more :
                 more[k].kind \notin {"lifecycle", "finished", "effect", "recovery"}

LEMMA ActsChats == Acts => Chats
BY DEF Acts, Chats

\* An injection is requested, and applied or rejected.
LEMMA InjectActs ==
  ASSUME ListsInv, Inject
  PROVE  Acts
<1> DEFINE e == Head(pending)
           a == Note("requested", e.id, clock)
           b == Note("applied", e.id, clock)
           c == Note("rejected", e.id, clock)
<1>1. log' = log \o <<a, b>> \/ log' = log \o <<a, c>>
  BY DEF Inject, Say
<1>2. /\ a.kind = "requested" /\ b.kind = "applied" /\ c.kind = "rejected"
  BY DEF Note
<1> HIDE DEF a, b, c
<1>3. IsSequence(<<a, b>>) /\ IsSequence(<<a, c>>)
  BY DEF IsSequence, Range
<1>4. /\ \A k \in DOMAIN <<a, b>> : <<a, b>>[k].kind \notin {"lifecycle", "finished", "effect", "recovery"}
      /\ \A k \in DOMAIN <<a, c>> : <<a, c>>[k].kind \notin {"lifecycle", "finished", "effect", "recovery"}
  BY <1>2
<1>5. PICK x, y : x = <<a, b>> /\ y = <<a, c>>
  OBVIOUS
<1> QED BY <1>1, <1>3, <1>4, <1>5 DEF Acts

\* One that is over is cleared.
LEMMA ClearActs ==
  ASSUME ListsInv, ClearDue
  PROVE  Acts
<1>1. log' = log \/ \E id : log' = log \o <<Cleared(id, clock, "duration_elapsed")>>
  BY DEF ClearDue, Say
<1>2. CASE log' = log
  <2>1. log = log \o <<>> /\ IsSequence(<<>>) /\ \A k \in DOMAIN <<>> : FALSE
    BY EmptySequence DEF ListsInv, IsSequence
  <2> QED BY <1>2, <2>1 DEF Acts
<1>3. ASSUME NEW id, log' = log \o <<Cleared(id, clock, "duration_elapsed")>> PROVE Acts
  <2>1. PICK e : e = Cleared(id, clock, "duration_elapsed") /\ e.kind = "cleared"
    <3>1. Cleared(id, clock, "duration_elapsed").kind = "cleared"
      BY DEF Cleared
    <3> QED BY <3>1
  <2>2. PICK more : more = <<e>>
    OBVIOUS
  <2>3. IsSequence(more) /\ log' = log \o more /\ \A k \in DOMAIN more : more[k] = e
    BY <1>3, <2>1, <2>2, OneEntry
  <2> QED BY <2>1, <2>3 DEF Acts
<1> QED BY <1>1, <1>2, <1>3

\* What is decided is told.
LEMMA FinishActs ==
  ASSUME ListsInv, FinishSample
  PROVE  Acts /\ IsSequence(expectations')
<1> DEFINE watched == [i \in DOMAIN expectations |->
                         IF clock <= expectations[i].requested THEN expectations[i]
                         ELSE Watched(expectations[i])]
           decided == ElementsAt(watched, {i \in DOMAIN watched : ~Undecided(watched[i])})
           left    == {i \in DOMAIN watched : Undecided(watched[i])}
           more    == Decisions(watched)
<1>1. IsSequence(watched)
  BY MappedSequence DEF ListsInv
<1>2. log' = log \o more /\ expectations' = ElementsAt(watched, left)
  BY DEF FinishSample, Say
<1>3. more = [i \in DOMAIN decided |->
                Verdict(decided[i], ExpectationStatus(decided[i], clock) = "passed")]
  BY DEF Decisions
<1>4. IsSequence(decided) /\ IsSequence(ElementsAt(watched, left))
  <2> HIDE DEF watched
  <2> QED BY <1>1, Selection
<1>5. \A k \in DOMAIN more : more[k].kind = "verdict"
  BY <1>3 DEF Verdict
<1> HIDE DEF decided, more, watched, left
<1>6. IsSequence(more)
  BY <1>3, <1>4, MappedSequence
<1> QED BY <1>2, <1>4, <1>5, <1>6 DEF Acts

\* At the end the rest of the verdicts, and what is cleared.
LEMMA LeaveActs ==
  ASSUME ListsInv, Leave
  PROVE  Acts /\ IsSequence(active')
<1> DEFINE kept    == {i \in DOMAIN active : ~ClearedAtEnd(active[i]) /\ Persistent(active[i])}
           atEnd   == {i \in DOMAIN active : ClearedAtEnd(active[i])}
           ended   == ElementsAt(active, atEnd)
           flushed == [i \in DOMAIN expectations |-> Flushed(expectations[i])]
           cleared == [i \in DOMAIN ended |-> Cleared(ended[i].id, clock, "scenario_end")]
<1>1. log' = log \o (flushed \o cleared) /\ active' = ElementsAt(active, kept)
  BY DEF Leave, Say
<1>2. IsSequence(ended) /\ IsSequence(ElementsAt(active, kept)) /\ IsSequence(expectations)
  <2>1. atEnd \in SUBSET DOMAIN active /\ kept \in SUBSET DOMAIN active
    OBVIOUS
  <2> HIDE DEF atEnd, kept
  <2> QED BY <2>1, Selection DEF ListsInv
<1> HIDE DEF kept, ended
<1>3. /\ \A k \in DOMAIN flushed : flushed[k].kind = "verdict"
      /\ \A k \in DOMAIN cleared : cleared[k].kind = "cleared"
  BY DEF Flushed, Verdict, Cleared
<1>4. IsSequence(flushed) /\ IsSequence(cleared)
  <2>1. IsSequence(flushed)
    BY <1>2, MappedSequence
  <2>2. IsSequence(cleared)
    BY <1>2, MappedSequence
  <2> QED BY <2>1, <2>2
<1> HIDE DEF flushed, cleared
<1>5. PICK more : more = flushed \o cleared
  OBVIOUS
<1>6. IsSequence(more) /\ Range(more) = Range(flushed) \cup Range(cleared)
  BY <1>4, <1>5, ConcatSequence, ConcatRange
<1>7. \A k \in DOMAIN more : more[k].kind \notin {"lifecycle", "finished", "effect", "recovery"}
  BY <1>3, <1>6 DEF Range
<1> QED BY <1>1, <1>2, <1>5, <1>6, <1>7 DEF Acts

\* The changes of an observation, and a run state that goes with them.
LEMMA ObservationSays ==
  ASSUME ListsInv, ProcessObservation
  PROVE  /\ IsSequence(active')
         /\ \E said : /\ IsSequence(said)
                      /\ \A k \in DOMAIN said : said[k].kind \notin {"lifecycle", "finished"}
                      /\ log' = log \o (said \o IF runState' = runState THEN <<>>
                                                ELSE <<Lifecycle(runState')>>)
<1> DEFINE start == [states |-> states, open |-> openSince, active |-> active, said |-> <<>>]
           tail  == IF runState' = runState THEN <<>> ELSE <<Lifecycle(runState')>>
<1>1. PICK m : m = Changed(start, obs.changes)
  OBVIOUS
<1>2. pc = "scheduled" /\ active' = m.active /\ log' = log \o (m.said \o tail)
  BY <1>1 DEF ProcessObservation, Say
<1>3. Keeps(active, start)
  <2>1. start.active = active /\ start.said = <<>> /\ DOMAIN <<>> = {}
    OBVIOUS
  <2> HIDE DEF start
  <2> QED BY <2>1, EmptySequence DEF Keeps, ListsInv
<1> HIDE DEF start
<1>4. Keeps(active, m)
  <2>1. obs.changes \in Seq(Range(obs.changes))
    BY <1>2, EngineAssumption DEF ListsInv
  <2>2. Len(obs.changes) \in Nat
    BY <2>1
  <2> QED BY <2>2, <1>1, <1>3, ChangedKeeps
<1> HIDE DEF tail
<1>5. PICK said : said = m.said
  OBVIOUS
<1>6. IsSequence(said) /\ \A k \in DOMAIN said : said[k].kind \notin {"lifecycle", "finished"}
  BY <1>4, <1>5 DEF Keeps
<1>7. log' = log \o (said \o tail)
  BY <1>2, <1>5
<1> QED BY <1>2, <1>4, <1>6, <1>7 DEF Keeps, tail

\* A request that is taken up is added, or takes the place of one with its id.
LEMMA ActivatedList ==
  ASSUME IsSequence(active), NEW request
  PROVE  IsSequence(Activated(request))
<1> DEFINE at == {i \in DOMAIN active : active[i].id = request.id}
<1>1. CASE at = {}
  BY <1>1, AppendSequence DEF Activated
<1>2. CASE at # {}
  <2> DEFINE k == CHOOSE i \in at : TRUE
             q == [active EXCEPT ![k] = request]
  <2>1. Activated(request) = q
    BY <1>2 DEF Activated
  <2>2. PICK N \in Nat : DOMAIN active = 1..N
    BY DEF IsSequence
  <2>3. q = [i \in 1..N |-> q[i]]
    BY <2>2
  <2> HIDE DEF q
  <2>4. q \in [1..N -> Range(q)]
    BY <2>3 DEF Range
  <2> QED BY <2>1, <2>4 DEF IsSequence
<1> QED BY <1>1, <1>2

\* An injection leaves lists.
LEMMA InjectLists ==
  ASSUME ListsInv, Inject
  PROVE  /\ IsSequence(active') /\ IsSequence(expectations')
         /\ IsSequence(pending') /\ Range(pending') \subseteq Known
<1> DEFINE e == Head(pending)
<1>1. /\ pending # <<>> /\ pending' = Tail(pending)
      /\ active' = active \/ active' = Activated(Request(e))
      /\ expectations' = expectations \/ expectations' = expectations \o Registered(e, clock)
  BY DEF Inject
<1>2. /\ IsSequence(pending') /\ Len(pending) \in Nat \ {0} /\ Len(pending') = Len(pending) - 1
      /\ e = pending[1] /\ \A i \in 1..(Len(pending) - 1) : pending'[i] = pending[i + 1]
      /\ DOMAIN pending = 1..Len(pending) /\ DOMAIN pending' = 1..Len(pending')
  <2>1. IsSequence(pending)
    BY DEF ListsInv
  <2>2. /\ IsSequence(Tail(pending)) /\ Len(pending) \in Nat \ {0}
        /\ Len(Tail(pending)) = Len(pending) - 1 /\ Head(pending) = pending[1]
        /\ \A i \in 1..(Len(pending) - 1) : Tail(pending)[i] = pending[i + 1]
    BY <1>1, <2>1, TailSequence
  <2> QED BY <1>1, <2>1, <2>2 DEF IsSequence
<1>3. Range(pending') \subseteq Range(pending) /\ e \in Range(pending)
  BY SMTT(30), <1>2 DEF Range
<1>4. IsSequence(Registered(e, clock))
  <2>1. scenario \in Scenarios /\ e \in Range(AllEvents(scenario))
    BY <1>3 DEF ListsInv, Known
  <2> HIDE DEF e
  <2> QED BY <2>1, RegistersList
<1>5. IsSequence(active')
  BY <1>1, ActivatedList DEF ListsInv
<1>6. IsSequence(expectations')
  <2> HIDE DEF e
  <2> QED BY <1>1, <1>4, ConcatSequence DEF ListsInv
<1> QED BY <1>2, <1>3, <1>5, <1>6 DEF ListsInv

\* The log is added to by each step.
LEMMA LogIsList ==
  ASSUME ListsInv, [Next]_vars
  PROVE  IsSequence(log')
<1>0. IsSequence(log)
  BY DEF ListsInv
<1>1. ASSUME Chats PROVE IsSequence(log')
  BY <1>0, <1>1, ConcatSequence DEF Chats
<1>2. CASE Inject
  BY <1>1, <1>2, InjectActs, ActsChats
<1>3. CASE ClearDue
  BY <1>1, <1>3, ClearActs, ActsChats
<1>4. CASE FinishSample
  BY <1>1, <1>4, FinishActs, ActsChats
<1>5. CASE Leave
  BY <1>1, <1>5, LeaveActs, ActsChats
<1>6. CASE ProcessObservation
  <2>1. PICK said : /\ IsSequence(said)
                    /\ log' = log \o (said \o IF runState' = runState THEN <<>> ELSE <<Lifecycle(runState')>>)
    BY <1>6, ObservationSays
  <2>2. PICK tail : tail = IF runState' = runState THEN <<>> ELSE <<Lifecycle(runState')>>
    OBVIOUS
  <2>3. IsSequence(tail)
    BY <2>2, EmptySequence, OneEntry
  <2> QED BY <1>0, <2>1, <2>2, <2>3, ConcatSequence
<1>7. CASE ~(Inject \/ ClearDue \/ FinishSample \/ Leave \/ ProcessObservation)
  <2>1. log' = log \/ \E e : log' = log \o <<e>>
    BY <1>7 DEF Next, Step, vars, mission, Prepare, Prepared, PreparationCancelled, StartMission,
         Handle, Collect, CollectArtifacts, Stop, Pop, Finish, Observe,
         TargetFails, SinkFails, PublishArtifactFails, Cancel, Say
  <2>2. ASSUME NEW e, log' = log \o <<e>> PROVE IsSequence(log')
    <3>1. PICK more : more = <<e>> /\ IsSequence(more)
      BY OneEntry
    <3>2. IsSequence(log \o more)
      BY <1>0, <3>1, ConcatSequence
    <3> QED BY <2>2, <3>1, <3>2
  <2> QED BY <1>0, <2>1, <2>2
<1> QED BY <1>2, <1>3, <1>4, <1>5, <1>6, <1>7

\* Every step leaves lists.
LEMMA ListsNext ==
  ASSUME ListsInv, [Next]_vars
  PROVE  ListsInv'
<1>1. IsSequence(log')
  BY LogIsList
<1>2. scenario' = scenario /\ Known' = Known
  BY DEF Next, Step, vars, mission, Prepare, Prepared, PreparationCancelled, StartMission,
       Inject, ClearDue, ProcessObservation, FinishSample, Leave, Handle, Collect, CollectArtifacts,
       Stop, Pop, Finish, Observe, TargetFails, SinkFails, PublishArtifactFails, Cancel, Known
<1>3. pc' = "scheduled" => obs' \in Observations
  <2>1. CASE Observe
    BY <2>1 DEF Observe, ListsInv
  <2>2. CASE ~Observe
    <3>1. pc' = "scheduled" => pc = "scheduled" /\ obs' = obs
      BY <2>2 DEF Next, Step, vars, mission, watch, Prepare, Prepared, PreparationCancelled, StartMission,
         Inject, ClearDue, ProcessObservation, FinishSample, Leave, Handle, Collect, CollectArtifacts,
         Stop, Pop, Finish, TargetFails, SinkFails, PublishArtifactFails, Cancel
    <3> QED BY <3>1 DEF ListsInv
  <2> QED BY <2>1, <2>2
<1>4. CASE Inject
  BY <1>1, <1>2, <1>3, <1>4, InjectLists DEF ListsInv
<1>5. CASE ClearDue
  <2>1. UNCHANGED <<pending, expectations>>
    BY <1>5 DEF ClearDue, watch
  <2>2. active' = active \/ \E id : active' = Without(active, id)
    BY <1>5 DEF ClearDue
  <2>3. \A id : IsSequence(Without(active, id))
    BY Selection DEF Without, ListsInv
  <2> QED BY <1>1, <1>2, <1>3, <2>1, <2>2, <2>3 DEF ListsInv
<1>6. CASE FinishSample
  <2>1. UNCHANGED <<pending, active>>
    BY <1>6 DEF FinishSample, sched
  <2> QED BY <1>1, <1>2, <1>3, <1>6, <2>1, FinishActs, ActsChats DEF ListsInv
<1>7. CASE Leave
  <2>1. pending' = pending /\ expectations' = <<>>
    BY <1>7 DEF Leave
  <2> QED BY <1>1, <1>2, <1>3, <1>7, <2>1, LeaveActs, ActsChats, EmptySequence DEF ListsInv
<1>8. CASE ProcessObservation
  <2>1. UNCHANGED <<pending, expectations>>
    BY <1>8 DEF ProcessObservation
  <2> QED BY <1>1, <1>2, <1>3, <1>8, <2>1, ObservationSays DEF ListsInv
<1>9. CASE Prepare
  <2>1. pending' = expandedEvents(scenario) /\ UNCHANGED <<active, expectations>>
    BY <1>9 DEF Prepare, watch
  <2> QED BY <1>1, <1>2, <1>3, <2>1, Expanded DEF ListsInv, Known
<1>10. CASE ~(Inject \/ ClearDue \/ FinishSample \/ Leave \/ ProcessObservation \/ Prepare)
  <2>1. UNCHANGED <<pending, active, expectations>>
    BY <1>10 DEF Next, Step, vars, mission, sched, watch, Prepared, PreparationCancelled, StartMission,
         Handle, Collect, CollectArtifacts, Stop, Pop, Finish, Observe,
         TargetFails, SinkFails, PublishArtifactFails, Cancel
  <2> QED BY <1>1, <1>2, <1>3, <2>1 DEF ListsInv
<1> QED BY <1>4, <1>5, <1>6, <1>7, <1>8, <1>9, <1>10

\* They are lists when the execution is accepted.
LEMMA ListsInit == Init => ListsInv
<1> SUFFICES ASSUME Init PROVE ListsInv
  OBVIOUS
<1>1. Range(pending) = {}
  BY DEF Init, Range
<1> QED BY <1>1, EmptySequence DEF Init, ListsInv

\* Where the engine is after a step goes with the run state it announced.
LEMMA StageNext ==
  ASSUME StageInv, [Next]_vars
  PROVE  StageInv'
<1> USE DEF StageInv, Mission, InTry, AfterMission
<1>0. None \notin {"unsupported", "cancelled", "target", "sink"}
  BY EngineAssumption
<1>1. CASE Prepare
  BY <1>0, <1>1 DEF Prepare
<1>2. CASE Prepared
  BY <1>2 DEF Prepared, ending
<1>3. CASE PreparationCancelled
  BY <1>0, <1>3 DEF PreparationCancelled
<1>4. CASE StartMission
  BY <1>4 DEF StartMission, ending
<1>5. CASE Inject \/ ClearDue \/ FinishSample \/ Leave
  BY <1>5 DEF Inject, ClearDue, FinishSample, Leave, ending
<1>6. CASE ProcessObservation
  <2>1. runState' \in {"RUNNING", "RECOVERING"}
    <3>1. runState \in {"RUNNING", "RECOVERING"}
      BY <1>6 DEF ProcessObservation
    <3>2. \A known : RunStateOf(known) \in {"RUNNING", "RECOVERING"}
      BY <3>1 DEF RunStateOf
    <3> QED BY <1>6, <3>2 DEF ProcessObservation
  <2> QED BY <1>6, <2>1 DEF ProcessObservation, ending
<1>7. CASE Observe
  BY <1>7 DEF Observe
<1>8. CASE TargetFails
  BY <1>8 DEF TargetFails
<1>9. CASE SinkFails
  BY <1>9 DEF SinkFails
<1>10. CASE Handle
  BY <1>10 DEF Handle
<1>11. CASE Collect
  BY <1>11 DEF Collect
<1>12. CASE CollectArtifacts \/ Stop \/ Pop \/ PublishArtifactFails \/ Finish
  BY <1>12 DEF CollectArtifacts, Stop, Pop, PublishArtifactFails, Finish, ending
<1>13. CASE Cancel
  BY <1>13 DEF Cancel, ending
<1>14. CASE UNCHANGED vars
  BY <1>14 DEF vars, ending
<1> QED BY <1>1, <1>2, <1>3, <1>4, <1>5, <1>6, <1>7, <1>8, <1>9, <1>10, <1>11, <1>12, <1>13, <1>14
     DEF Next, Step

\* COLLECTING is announced after the mission, and a run is finished only once.
LEMMA SaidNext ==
  ASSUME ListsInv, StageInv, SaidInv, [Next]_vars
  PROVE  SaidInv'
<1>1. IsSequence(log)
  BY DEF ListsInv
<1>2. /\ pc' \in Mission \cup {"raised", "final"} => pc \in Mission \cup {"raised", "final"}
      /\ pc' # "done" => pc # "done"
  BY DEF StageInv, AfterMission, Mission, InTry, Next, Step, vars, mission, Prepare, Prepared,
       PreparationCancelled, StartMission, Inject, ClearDue, ProcessObservation, FinishSample,
       Leave, Handle, Collect, CollectArtifacts, Stop, Pop, Finish, Observe, TargetFails, SinkFails,
       PublishArtifactFails, Cancel
<1>3. ASSUME NEW more, IsSequence(more), log' = log \o more,
             \A k \in DOMAIN more :
               /\ pc' \in Mission \cup {"raised", "final"} /\ more[k].kind = "lifecycle" => more[k].state # "COLLECTING"
               /\ pc' # "done" => more[k].kind # "finished"
      PROVE  SaidInv'
  <2>1. \A i \in DOMAIN log' : (i \in DOMAIN log /\ log'[i] = log[i]) \/ \E k \in DOMAIN more : log'[i] = more[k]
    BY <1>1, <1>3, LogGrows
  <2> QED BY <1>2, <1>3, <2>1 DEF SaidInv
<1>4. CASE log' = log
  BY <1>2, <1>4 DEF SaidInv
<1>5. CASE Chats
  BY <1>3, <1>5 DEF Chats
<1>6. CASE Inject \/ ClearDue \/ FinishSample \/ Leave
  BY <1>5, <1>6, InjectActs, ClearActs, FinishActs, LeaveActs, ActsChats
<1>7. ASSUME NEW e, log' = log \o <<e>>,
             pc' \in Mission \cup {"raised", "final"} /\ e.kind = "lifecycle" => e.state # "COLLECTING",
             pc' # "done" => e.kind # "finished"
      PROVE  SaidInv'
  <2>1. PICK more : more = <<e>> /\ IsSequence(more) /\ \A k \in DOMAIN more : more[k] = e
    BY OneEntry
  <2> QED BY <1>3, <1>7, <2>1
<1>8. \A state : Lifecycle(state).kind = "lifecycle" /\ Lifecycle(state).state = state
  BY DEF Lifecycle
<1>9. CASE Prepare
  <2>1. PICK e : e = Lifecycle("PREPARING") /\ e.kind = "lifecycle" /\ e.state = "PREPARING"
    BY <1>8
  <2> QED BY <1>7, <1>9, <2>1 DEF Prepare, Say
<1>10. CASE StartMission
  <2>1. PICK e : e = Lifecycle("RUNNING") /\ e.kind = "lifecycle" /\ e.state = "RUNNING"
    BY <1>8
  <2> QED BY <1>7, <1>10, <2>1 DEF StartMission, Say
<1>11. CASE Collect
  <2>1. PICK e : e = Lifecycle("COLLECTING") /\ e.kind = "lifecycle"
    BY <1>8
  <2>2. log' = log \/ (log' = log \o <<e>> /\ pc' = "collecting")
    BY <1>11, <2>1 DEF Collect, Say
  <2> QED BY <1>4, <1>7, <2>1, <2>2 DEF Mission, InTry
<1>12. CASE Finish
  <2>1. PICK e : e = Marked("finished") /\ e.kind = "finished"
    <3>1. Marked("finished").kind = "finished"
      BY DEF Marked
    <3> QED BY <3>1
  <2>2. pc' = "done" /\ (log' = log \/ log' = log \o <<e>>)
    BY <1>12, <2>1 DEF Finish, Say
  <2> QED BY <1>4, <1>7, <2>1, <2>2 DEF Mission, InTry
<1>13. CASE ProcessObservation
  <2>1. PICK said : /\ IsSequence(said)
                    /\ \A k \in DOMAIN said : said[k].kind \notin {"lifecycle", "finished"}
                    /\ log' = log \o (said \o IF runState' = runState THEN <<>> ELSE <<Lifecycle(runState')>>)
    BY <1>13, ObservationSays
  <2>2. runState' # "COLLECTING"
    <3>1. pc = "scheduled" /\ \E known : runState' = RunStateOf(known)
      BY <1>13 DEF ProcessObservation
    <3> QED BY <3>1 DEF RunStateOf, StageInv
  <2>3. PICK e : e = Lifecycle(runState') /\ e.kind = "lifecycle" /\ e.state # "COLLECTING"
    BY <1>8, <2>2
  <2>4. PICK tail : /\ tail = IF runState' = runState THEN <<>> ELSE <<Lifecycle(runState')>>
                    /\ IsSequence(tail) /\ \A k \in DOMAIN tail : tail[k] = e
    <3>1. DOMAIN <<>> = {}
      OBVIOUS
    <3> QED BY <2>3, <3>1, EmptySequence, OneEntry
  <2>5. PICK more : more = said \o tail
    OBVIOUS
  <2>6. IsSequence(more) /\ Range(more) = Range(said) \cup Range(tail)
    BY <2>1, <2>4, <2>5, ConcatSequence, ConcatRange
  <2>7. \A k \in DOMAIN more : more[k] \in Range(said) \/ more[k] = e
    BY <2>4, <2>6 DEF Range
  <2>8. \A k \in DOMAIN more : /\ more[k].kind = "lifecycle" => more[k].state # "COLLECTING"
                               /\ more[k].kind # "finished"
    BY <2>1, <2>3, <2>7 DEF Range
  <2> QED BY <1>3, <2>1, <2>4, <2>5, <2>6, <2>8
<1>14. CASE ~(Inject \/ ClearDue \/ FinishSample \/ Leave \/ Prepare \/ StartMission \/ Collect
                \/ Finish \/ ProcessObservation)
  <2>1. log' = log
    BY <1>14 DEF Next, Step, vars, mission, Prepared, PreparationCancelled,
         Handle, CollectArtifacts, Stop, Pop, Observe,
         TargetFails, SinkFails, PublishArtifactFails, Cancel
  <2> QED BY <1>4, <2>1
<1> QED BY <1>6, <1>9, <1>10, <1>11, <1>12, <1>13, <1>14

-----------------------------------------------------------------------------
(* The steps of the pipeline, on what it sees of the execution. *)

View(phase, seq, cancel, outcome) ==
  [pc |-> phase, attempt |-> 1, seq |-> seq, cancel |-> cancel, outcome |-> outcome]

\* The last event of an execution.
LastEvent == [kind |-> "event", event |-> [seq |-> 1, attempt |-> 1]]

\* What the pipeline sees goes from x to y.
Becomes(x, y) == ExecutionOf = x /\ ExecutionOf' = y

\* The phases from which the mission may end.
Early == {"preparing", "running", "recovering"}

\* One field of what it sees is another.
LEMMA ViewChanges ==
  ASSUME NEW p, NEW s, NEW c, NEW o, NEW v
  PROVE  /\ View(p, s, c, o).pc = p /\ View(p, s, c, o).attempt = 1 /\ View(p, s, c, o).seq = s
         /\ View(p, s, c, o).cancel = c /\ View(p, s, c, o).outcome = o
         /\ [View(p, s, c, o) EXCEPT !.pc = v] = View(v, s, c, o)
         /\ [View(p, s, c, o) EXCEPT !.seq = v] = View(p, v, c, o)
         /\ [View(p, s, c, o) EXCEPT !.cancel = v] = View(p, s, v, o)
         /\ [View(p, s, c, o) EXCEPT !.outcome = v] = View(p, s, c, v)
<1>1. /\ View(p, s, c, o).pc = p /\ View(p, s, c, o).attempt = 1 /\ View(p, s, c, o).seq = s
      /\ View(p, s, c, o).cancel = c /\ View(p, s, c, o).outcome = o
  BY DEF View
<1>2. [View(p, s, c, o) EXCEPT !.pc = v] = View(v, s, c, o)
  BY DEF View
<1>3. [View(p, s, c, o) EXCEPT !.seq = v] = View(p, v, c, o)
  BY DEF View
<1>4. [View(p, s, c, o) EXCEPT !.cancel = v] = View(p, s, v, o)
  BY DEF View
<1>5. [View(p, s, c, o) EXCEPT !.outcome = v] = View(p, s, c, v)
  BY DEF View
<1> QED BY <1>1, <1>2, <1>3, <1>4, <1>5

\* Nothing else of the pipeline moves.
LEMMA RestStays ==
  ASSUME token' = token
  PROVE  Pipeline!ExecStep(Runner)
<1>1. (IF token THEN {} ELSE {Runner})' = (IF token THEN {} ELSE {Runner})
  OBVIOUS
<1> QED BY <1>1 DEF Pipeline!ExecStep, Pipeline!apiVars, Pipeline!dbVars, Pipeline!consumerVars,
     Pipeline!clockVars

\* The execution goes on to a phase.
LEMMA GoesTo ==
  ASSUME NEW from, NEW to, NEW s, NEW c, NEW o, Becomes(View(from, s, c, o), View(to, s, c, o))
  PROVE  Pipeline!Goto(Runner, to) /\ ExecutionOf.pc = from
<1> DEFINE x == View(from, s, c, o)
           y == View(to, s, c, o)
<1>1. y = [x EXCEPT !.pc = to] /\ x.pc = from
  BY DEF View
<1> HIDE DEF x, y
<1>2. [n \in {Runner} |-> y] = [[n \in {Runner} |-> x] EXCEPT ![Runner].pc = to]
  BY <1>1
<1>3. ExecutionOf = x /\ ExecutionOf' = y
  BY DEF Becomes, x, y
<1> QED BY <1>1, <1>2, <1>3 DEF Pipeline!Goto

\* One that does nothing to what the pipeline sees.
LEMMA AsStutter ==
  ASSUME ExecutionOf' = ExecutionOf, LogOf' = LogOf, token' = token, faults' = faults
  PROVE  UNCHANGED Pipeline!vars
<1>1. (IF token THEN {} ELSE {Runner})' = (IF token THEN {} ELSE {Runner})
  OBVIOUS
<1> QED BY <1>1 DEF Pipeline!vars, Pipeline!apiVars, Pipeline!dbVars, Pipeline!consumerVars,
     Pipeline!runnerVars, Pipeline!clockVars

\* A step that announces a run state and goes on to its phase.
LEMMA AsAnnouncement ==
  ASSUME NEW from, NEW to, NEW state, NEW s, NEW c, NEW o, IsSequence(LogOf),
         <<from, to, state>> \in {<<"accepted", "preparing", "PREPARING">>,
                                  <<"preparing", "running", "RUNNING">>,
                                  <<"running", "recovering", "RECOVERING">>,
                                  <<"recovering", "running", "RUNNING">>,
                                  <<"ending", "collecting", "COLLECTING">>},
         Becomes(View(from, s, c, o), View(to, s, c, o)),
         LogOf' = Append(LogOf, Announces(state)), token' = token, faults' = faults
  PROVE  Pipeline!Execution(Runner)
<1>1. Pipeline!Goto(Runner, to) /\ ExecutionOf.pc = from
  BY GoesTo
<1>2. Pipeline!Publish(Pipeline!Lifecycle(Runner, state))
  BY DEF Pipeline!Publish, Pipeline!Lifecycle, Announces
<1>3. Pipeline!ExecStep(Runner)
  BY RestStays
<1>4. Len(LogOf) \in Nat
  BY DEF IsSequence
<1>5. CASE from = "accepted"
  <2>1. to = "preparing" /\ state = "PREPARING"
    BY <1>5
  <2>2. Pipeline!Prepare(Runner)
    BY <1>1, <1>2, <1>3, <1>5, <2>1 DEF Pipeline!Prepare
  <2> QED BY <2>2 DEF Pipeline!Execution, Pipeline!Progress
<1>6. CASE from = "preparing"
  <2>1. to = "running" /\ state = "RUNNING"
    BY <1>6
  <2>2. Pipeline!StartRunning(Runner)
    BY <1>1, <1>2, <1>3, <1>6, <2>1 DEF Pipeline!StartRunning
  <2> QED BY <2>2 DEF Pipeline!Execution
<1>7. CASE from \in {"running", "recovering"}
  <2>1. \/ from = "running" /\ to = "recovering" /\ state = "RECOVERING"
        \/ from = "recovering" /\ to = "running" /\ state = "RUNNING"
    BY <1>7
  <2>2. Pipeline!Toggle(Runner)
    BY <1>1, <1>2, <1>3, <1>4, <2>1 DEF Pipeline!Toggle
  <2> QED BY <2>2 DEF Pipeline!Execution
<1>8. CASE from = "ending"
  <2>1. to = "collecting" /\ state = "COLLECTING"
    BY <1>8
  <2>2. Pipeline!Collect(Runner)
    BY <1>1, <1>2, <1>3, <1>8, <2>1 DEF Pipeline!Collect
  <2> QED BY <2>2 DEF Pipeline!Execution, Pipeline!Progress
<1> QED BY <1>5, <1>6, <1>7, <1>8

\* The pipeline sees the execution end.
Ends(outcome) ==
  [n \in {Runner} |-> ExecutionOf]' =
    [[n \in {Runner} |-> ExecutionOf] EXCEPT ![Runner].pc = "ending", ![Runner].outcome = outcome,
                                             ![Runner].cancel = FALSE, ![Runner].seq = @ + 1]

\* What the pipeline sees when the mission ends.
LEMMA EndsWith ==
  ASSUME NEW from, NEW c, NEW o, Becomes(View(from, 0, c, "failed"), View("ending", 1, FALSE, o))
  PROVE  /\ Ends(o) /\ Pipeline!Event(Runner) = LastEvent
         /\ ExecutionOf.pc = from /\ ExecutionOf.cancel = c
<1>0. PICK no : no = FALSE
  OBVIOUS
<1> DEFINE x == View(from, 0, c, "failed")
           x1 == View("ending", 0, c, "failed")
           x2 == View("ending", 0, c, o)
           x3 == View("ending", 0, no, o)
           y == View("ending", 1, no, o)
<1>1. /\ x.pc = from /\ x.cancel = c /\ x.seq = 0 /\ x.attempt = 1
      /\ [x EXCEPT !.pc = "ending"] = x1 /\ [x1 EXCEPT !.outcome = o] = x2
      /\ [x2 EXCEPT !.cancel = no] = x3 /\ [x3 EXCEPT !.seq = 1] = y
  <2>1. x.pc = from /\ x.cancel = c /\ x.seq = 0 /\ x.attempt = 1
    BY ViewChanges
  <2>2. [x EXCEPT !.pc = "ending"] = x1
    BY ViewChanges
  <2>3. [x1 EXCEPT !.outcome = o] = x2
    BY ViewChanges
  <2>4. [x2 EXCEPT !.cancel = no] = x3
    BY ViewChanges
  <2>5. [x3 EXCEPT !.seq = 1] = y
    BY ViewChanges
  <2> HIDE DEF x, x1, x2, x3, y
  <2> QED BY <2>1, <2>2, <2>3, <2>4, <2>5
<1> HIDE DEF x, x1, x2, x3, y
<1>2. ExecutionOf = x /\ ExecutionOf' = y
  BY <1>0 DEF Becomes, x, y
<1>3. Pipeline!Event(Runner) = LastEvent
  BY <1>1, <1>2 DEF Pipeline!Event, LastEvent
<1>4. y = [[[[x EXCEPT !.pc = "ending"] EXCEPT !.outcome = o] EXCEPT !.cancel = no] EXCEPT !.seq = 1]
  BY <1>1
<1>5. x.seq + 1 = 1
  BY <1>1
<1>6. [n \in {Runner} |-> [[[[x EXCEPT !.pc = "ending"] EXCEPT !.outcome = o] EXCEPT !.cancel = no]
                             EXCEPT !.seq = x.seq + 1]] =
        [[n \in {Runner} |-> x] EXCEPT ![Runner].pc = "ending", ![Runner].outcome = o,
                                       ![Runner].cancel = no, ![Runner].seq = @ + 1]
  OBVIOUS
<1>7. [n \in {Runner} |-> y] =
        [[n \in {Runner} |-> x] EXCEPT ![Runner].pc = "ending", ![Runner].outcome = o,
                                       ![Runner].cancel = no, ![Runner].seq = @ + 1]
  BY <1>4, <1>5, <1>6
<1> QED BY <1>0, <1>1, <1>2, <1>3, <1>7 DEF Ends

\* The mission ends with a last event.
LEMMA AsEnd ==
  ASSUME NEW from \in Early, NEW c, NEW o \in Pipeline!Outcomes,
         o = "completed" => from # "preparing", o = "cancelled" => c,
         Becomes(View(from, 0, c, "failed"), View("ending", 1, FALSE, o)),
         LogOf' = Append(LogOf, LastEvent), token' = token, faults' = faults
  PROVE  Pipeline!Execution(Runner)
<1>1. /\ Ends(o) /\ Pipeline!Event(Runner) = LastEvent
      /\ ExecutionOf.pc = from /\ ExecutionOf.cancel = c
  BY EndsWith
<1>2. Pipeline!MayEnd(Runner, o)
  BY <1>1 DEF Pipeline!MayEnd, Early
<1>3. Pipeline!Publish(Pipeline!Event(Runner))
  BY <1>1 DEF Pipeline!Publish
<1>4. Pipeline!ExecStep(Runner)
  BY RestStays
<1>5. Pipeline!End(Runner, o)
  BY <1>1, <1>2, <1>3, <1>4 DEF Pipeline!End, Ends
<1> QED BY <1>5 DEF Pipeline!Execution

\* A publish raises before its end.
LEMMA AsFailure ==
  ASSUME NEW from \in Early \cup {"accepted"}, NEW c,
         Becomes(View(from, 0, c, "failed"), View("ending", 1, FALSE, "failed")),
         LogOf' = Append(LogOf, LastEvent), token' = token, Fault
  PROVE  Pipeline!Execution(Runner)
<1>1. /\ Ends("failed") /\ Pipeline!Event(Runner) = LastEvent
      /\ ExecutionOf.pc = from /\ ExecutionOf.cancel = c
  BY EndsWith
<1>2. ExecutionOf.pc \in {"accepted", "preparing", "running", "recovering"}
  BY <1>1 DEF Early
<1>3. Pipeline!Publish(Pipeline!Event(Runner))
  BY <1>1 DEF Pipeline!Publish
<1>4. Pipeline!ExecStep(Runner) /\ Pipeline!Fault("publish")
  BY RestStays DEF Pipeline!Fault, Fault
<1>5. Pipeline!PublishFails(Runner)
  BY <1>1, <1>2, <1>3, <1>4 DEF Pipeline!PublishFails, Ends
<1> QED BY <1>5 DEF Pipeline!Execution

\* The last event of a failed run does not get through either.
LEMMA AsUnheard ==
  ASSUME ExecutionOf = View("ending", 1, FALSE, "failed"), ExecutionOf' = ExecutionOf,
         LogOf' = LogOf, token' = token, Fault
  PROVE  Pipeline!Execution(Runner)
<1>1. ExecutionOf.pc = "ending" /\ ExecutionOf.outcome = "failed"
  BY DEF View
<1>2. Pipeline!ExecStep(Runner) /\ Pipeline!Fault("publish")
  BY RestStays DEF Pipeline!Fault, Fault
<1>3. Pipeline!PublishFails(Runner)
  BY <1>1, <1>2 DEF Pipeline!PublishFails
<1> QED BY <1>3 DEF Pipeline!Execution

\* COLLECTING is not announced.
LEMMA AsLost ==
  ASSUME NEW o, NEW then \in {o, "failed"},
         Becomes(View("ending", 1, FALSE, o), View("collecting", 1, FALSE, then)),
         LogOf' = LogOf, token' = token, Fault
  PROVE  Pipeline!Execution(Runner)
<1>0. PICK no : no = FALSE
  OBVIOUS
<1> DEFINE x == View("ending", 1, no, o)
           y == View("collecting", 1, no, then)
<1>1. x.pc = "ending" /\ x.outcome = o /\ y = [[x EXCEPT !.pc = "collecting"] EXCEPT !.outcome = then]
  <2> DEFINE z == View("collecting", 1, no, o)
  <2>1. x.pc = "ending" /\ x.outcome = o
    BY ViewChanges
  <2>2. z = [x EXCEPT !.pc = "collecting"]
    BY ViewChanges
  <2>3. y = [z EXCEPT !.outcome = then]
    BY ViewChanges
  <2> HIDE DEF x, y, z
  <2> QED BY <2>1, <2>2, <2>3
<1> HIDE DEF x, y
<1>2. [n \in {Runner} |-> y] =
        [[n \in {Runner} |-> x] EXCEPT ![Runner].pc = "collecting", ![Runner].outcome = then]
  BY <1>1
<1>3. ExecutionOf = x /\ ExecutionOf' = y
  BY <1>0 DEF Becomes, x, y
<1>4. Pipeline!ExecStep(Runner) /\ Pipeline!Fault("publish")
  BY RestStays DEF Pipeline!Fault, Fault
<1>5. Pipeline!PublishFails(Runner)
  BY <1>1, <1>2, <1>3, <1>4 DEF Pipeline!PublishFails, Ends
<1> QED BY <1>5 DEF Pipeline!Execution

\* Something of the artifacts is not said.
LEMMA AsArtifact ==
  ASSUME NEW o, Becomes(View("collecting", 1, FALSE, o), View("collecting", 1, FALSE, "failed")),
         LogOf' = LogOf, token' = token, Fault
  PROVE  Pipeline!Execution(Runner)
<1>0. PICK no : no = FALSE
  OBVIOUS
<1> DEFINE x == View("collecting", 1, no, o)
           y == View("collecting", 1, no, "failed")
<1>1. x.pc = "collecting" /\ y = [x EXCEPT !.outcome = "failed"]
  <2>1. x.pc = "collecting"
    BY ViewChanges
  <2>2. y = [x EXCEPT !.outcome = "failed"]
    BY ViewChanges
  <2> QED BY <2>1, <2>2
<1> HIDE DEF x, y
<1>2. [n \in {Runner} |-> y] = [[n \in {Runner} |-> x] EXCEPT ![Runner].outcome = "failed"]
  BY <1>1
<1>3. ExecutionOf = x /\ ExecutionOf' = y
  BY <1>0 DEF Becomes, x, y
<1>4. Pipeline!ExecStep(Runner) /\ Pipeline!Fault("publish")
  BY RestStays DEF Pipeline!Fault, Fault
<1>5. Pipeline!PublishFails(Runner)
  BY <1>1, <1>2, <1>3, <1>4 DEF Pipeline!PublishFails, Ends
<1> QED BY <1>5 DEF Pipeline!Execution

\* The runner takes the run from its list.
LEMMA AsPop ==
  ASSUME NEW o, Becomes(View("collecting", 1, FALSE, o), View("popped", 1, FALSE, o)),
         LogOf' = LogOf, token' = token, faults' = faults
  PROVE  Pipeline!Execution(Runner)
<1>1. Pipeline!Goto(Runner, "popped") /\ ExecutionOf.pc = "collecting"
  BY GoesTo
<1>2. Pipeline!Pop(Runner)
  BY <1>1, RestStays DEF Pipeline!Pop
<1> QED BY <1>2 DEF Pipeline!Execution, Pipeline!Progress

\* The finished message is published, or not.
LEMMA AsFinish ==
  ASSUME NEW o, Becomes(View("popped", 1, FALSE, o), Pipeline!IdleExec), token' = token,
         \/ /\ LogOf' = Append(LogOf, [kind |-> "finished", outcome |-> o, from |-> Runner])
            /\ faults' = faults
         \/ LogOf' = LogOf /\ Fault
  PROVE  Pipeline!Execution(Runner)
<1> DEFINE x == View("popped", 1, FALSE, o)
           y == Pipeline!IdleExec
<1>1. x.pc = "popped" /\ x.outcome = o
  BY DEF View
<1> HIDE DEF x, y
<1>2. [n \in {Runner} |-> y] = [[n \in {Runner} |-> x] EXCEPT ![Runner] = y]
  OBVIOUS
<1>3. ExecutionOf = x /\ ExecutionOf' = y
  BY DEF Becomes, x, y
<1>4. [n \in {Runner} |-> ExecutionOf]' =
        [[n \in {Runner} |-> ExecutionOf] EXCEPT ![Runner] = Pipeline!IdleExec]
  BY <1>2, <1>3 DEF y
<1>5. \/ Pipeline!Publish(Pipeline!Finished(Runner)) /\ faults' = faults
      \/ LogOf' = LogOf /\ Pipeline!Fault("publish")
  BY <1>1, <1>3 DEF Pipeline!Publish, Pipeline!Finished, Pipeline!Fault, Fault
<1>6. Pipeline!PublishFinished(Runner)
  BY <1>1, <1>3, <1>4, <1>5, RestStays DEF Pipeline!PublishFinished
<1> QED BY <1>6 DEF Pipeline!Execution, Pipeline!Progress

\* A cancel comes in.
LEMMA AsCancel ==
  ASSUME NEW p, NEW s, NEW o,
         Becomes(View(p, s, FALSE, o), View(p, s, p \in Early \cup {"accepted"}, o)),
         LogOf' = LogOf, token = FALSE, token' = TRUE, faults' = faults
  PROVE  Pipeline!OnControl(Runner)
<1> DEFINE now == p \in Early \cup {"accepted"}
           x == View(p, s, FALSE, o)
           y == View(p, s, now, o)
<1>1. x.pc = p /\ x.cancel = FALSE /\ y = [x EXCEPT !.cancel = now]
  BY DEF View
<1> HIDE DEF x, y
<1>2. [n \in {Runner} |-> y] = [[n \in {Runner} |-> x] EXCEPT ![Runner].cancel = now]
  BY <1>1
<1>3. ExecutionOf = x /\ ExecutionOf' = y
  BY DEF Becomes, x, y
<1>4. Pipeline!Cancellable(Runner) <=> now
  BY <1>1, <1>3 DEF Pipeline!Cancellable, Early
<1>5. [n \in {Runner} |-> x][Runner].cancel = FALSE
  BY <1>1
<1>6. [n \in {Runner} |-> ExecutionOf]' =
        [[n \in {Runner} |-> ExecutionOf] EXCEPT ![Runner].cancel = @ \/ Pipeline!Cancellable(Runner)]
  <2> DEFINE then == [n \in {Runner} |-> x][Runner].cancel \/ Pipeline!Cancellable(Runner)
  <2>1. then <=> now
    BY <1>4, <1>5
  <2>2. then \in BOOLEAN /\ now \in BOOLEAN
    BY DEF now
  <2> HIDE DEF now, then
  <2>3. then = now
    BY <2>1, <2>2
  <2>4. [n \in {Runner} |-> y] = [[n \in {Runner} |-> x] EXCEPT ![Runner].cancel = then]
    BY <1>2, <2>3
  <2>5. [n \in {Runner} |-> y] =
          [[n \in {Runner} |-> x] EXCEPT ![Runner].cancel = @ \/ Pipeline!Cancellable(Runner)]
    BY <2>4 DEF then
  <2> QED BY <1>3, <2>5
<1>7. /\ (IF token THEN {} ELSE {Runner}) = {Runner}
      /\ (IF token THEN {} ELSE {Runner})' = {}
  OBVIOUS
<1> QED BY <1>6, <1>7 DEF Pipeline!OnControl, Pipeline!apiVars, Pipeline!dbVars, Pipeline!consumerVars,
     Pipeline!clockVars

-----------------------------------------------------------------------------
(* The log as the pipeline has it. *)

\* What it is before the mission is over, after it, and when the runner has done with it.
LogInv ==
  /\ IsSequence(LogOf)
  /\ ~Over => LogOf = Told(UnderWay)
  /\ Over /\ pc \in {"raised", "final"} => LogOf = Append(Told(UnderWay), LastEvent)
  /\ Over /\ pc # "done" => LogOf = (Told(UnderWay) \o <<LastEvent>>) \o Told({"COLLECTING"})

\* What an empty sequence or one entry adds to a sequence.
LEMMA AddsLittle ==
  ASSUME NEW s, IsSequence(s), NEW x
  PROVE  s \o <<>> = s /\ s \o <<x>> = Append(s, x)
<1>1. s \in Seq(Range(s) \cup {x})
  BY DEF IsSequence
<1> QED BY <1>1

\* The log is so wherever the engine is.
LEMMA LogIs == ListsInv /\ StageInv /\ SaidInv => LogInv
<1> SUFFICES ASSUME ListsInv, StageInv, SaidInv PROVE LogInv
  OBVIOUS
<1> DEFINE way   == Told(UnderWay)
           last  == IF Over THEN <<LastEvent>> ELSE <<>>
           after == Told({"COLLECTING"})
           fin   == IF \E i \in DOMAIN log : log[i].kind = "finished"
                      THEN <<[kind |-> "finished", outcome |-> Outcome, from |-> Runner]>> ELSE <<>>
<1>1. LogOf = way \o last \o after \o fin
  BY DEF LogOf, UnderWay, LastEvent
<1>2. IsSequence(way) /\ IsSequence(after)
  BY ToldList DEF ListsInv
<1>3. IsSequence(last) /\ IsSequence(fin)
  BY EmptySequence, OneEntry
<1>4. pc \in Mission \cup {"raised", "final"} => after = <<>>
  <2> SUFFICES ASSUME pc \in Mission \cup {"raised", "final"} PROVE after = <<>>
    OBVIOUS
  <2>1. ToldAt({"COLLECTING"}) = {}
    BY DEF SaidInv, ToldAt
  <2> QED BY <2>1, ToldList DEF ListsInv
<1>5. pc # "done" => fin = <<>>
  BY DEF SaidInv
<1>6. Over => last = <<LastEvent>>
  OBVIOUS
<1>7. ~Over => last = <<>> /\ pc \in Mission \cup {"raised"} /\ pc # "done"
  BY DEF Over, StageInv, AfterMission, Mission, InTry
<1> HIDE DEF way, last, after, fin
<1>8. /\ IsSequence(way \o last) /\ IsSequence(way \o last \o after)
      /\ IsSequence(way \o last \o after \o fin)
  BY <1>2, <1>3, ConcatSequence
<1>9. /\ way \o <<>> = way /\ way \o <<LastEvent>> = Append(way, LastEvent)
      /\ (way \o last) \o <<>> = way \o last
      /\ (way \o last \o after) \o <<>> = way \o last \o after
  BY <1>2, <1>8, AddsLittle
<1>10. IsSequence(LogOf)
  BY <1>1, <1>8
<1>11. ASSUME ~Over PROVE LogOf = way
  BY <1>1, <1>4, <1>5, <1>7, <1>9, <1>11
<1>12. ASSUME Over, pc \in {"raised", "final"} PROVE LogOf = Append(way, LastEvent)
  BY <1>1, <1>4, <1>5, <1>6, <1>9, <1>12
<1>13. ASSUME Over, pc # "done" PROVE LogOf = (way \o <<LastEvent>>) \o after
  BY <1>1, <1>5, <1>6, <1>9, <1>13
<1> QED BY <1>10, <1>11, <1>12, <1>13 DEF LogInv, way, after

\* So it is after a step.
LEMMA LogIsNext == ListsInv' /\ StageInv' /\ SaidInv' => LogInv'
BY LogIs, PTL

-----------------------------------------------------------------------------
(* The steps of the engine, as the pipeline sees them. *)

\* What the pipeline sees of the execution, before the mission is over and after.
ViewInv ==
  /\ ~Over => ExecutionOf = View(Phase, 0, token, "failed") /\ Phase \in Early \cup {"accepted"}
  /\ Over /\ pc # "done" => ExecutionOf = View(Phase, 1, FALSE, Outcome)

\* The pipeline sees the engine where it is.
LEMMA ViewIs == StageInv => ViewInv
<1> SUFFICES ASSUME StageInv PROVE ViewInv
  OBVIOUS
<1>1. ASSUME ~Over PROVE pc # "done" /\ (token /\ ~Over) = token
  BY <1>1 DEF Over, StageInv
<1>2. ASSUME ~Over PROVE Phase \in Early \cup {"accepted"}
  BY <1>2 DEF Over, StageInv, Phase, Trying, Early, Mission, InTry, AfterMission
<1>3. ASSUME ~Over PROVE ExecutionOf = View(Phase, 0, token, "failed")
  BY <1>1, <1>3 DEF ExecutionOf, View
<1>4. ASSUME Over, pc # "done" PROVE ExecutionOf = View(Phase, 1, FALSE, Outcome)
  <2>1. (token /\ ~Over) = FALSE
    BY <1>4
  <2> QED BY <1>4, <2>1 DEF ExecutionOf, View
<1> QED BY <1>2, <1>3, <1>4 DEF ViewInv

\* So it does after a step.
LEMMA ViewIsNext == StageInv' => ViewInv'
BY ViewIs, PTL

\* What is known of an execution before a step and after it.
StepInv ==
  /\ ListsInv /\ StageInv /\ SaidInv /\ LogInv /\ ViewInv
  /\ StageInv' /\ LogInv' /\ ViewInv'

\* All of it is known.
LEMMA KnownOf ==
  ASSUME ListsInv, StageInv, SaidInv, [Next]_vars
  PROVE  StepInv
BY ListsNext, StageNext, SaidNext, LogIs, LogIsNext, ViewIs, ViewIsNext DEF StepInv

\* A step that says nothing, or only what the pipeline leaves out.
LEMMA ToldSame ==
  ASSUME ListsInv, Chats \/ log' = log, NEW A
  PROVE  Told(A)' = Told(A)
<1>1. CASE Chats
  <2>1. PICK more : /\ IsSequence(more) /\ log' = log \o more
                    /\ \A k \in DOMAIN more : more[k].kind \notin {"lifecycle", "finished"}
    BY <1>1 DEF Chats
  <2> QED BY <2>1, ToldStays DEF ListsInv
<1>2. CASE log' = log
  BY <1>2 DEF Told, ToldAt
<1> QED BY <1>1, <1>2

\* A step of the engine that the pipeline does not see.
LEMMA Unseen ==
  ASSUME StepInv, Trying, Trying', runState' = runState, Chats \/ log' = log,
         token' = token, faults' = faults
  PROVE  UNCHANGED Pipeline!vars
<1>1. ~Over /\ ~Over' /\ Phase' = Phase
  BY DEF Trying, Over, Phase, InTry
<1>2. Told(UnderWay)' = Told(UnderWay)
  BY ToldSame DEF StepInv
<1>3. LogOf' = LogOf
  BY <1>1, <1>2 DEF StepInv, LogInv
<1>4. ExecutionOf' = ExecutionOf
  <2>1. ExecutionOf = View(Phase, 0, token, "failed") /\ ExecutionOf' = View(Phase, 0, token, "failed")'
    BY <1>1 DEF StepInv, ViewInv
  <2>2. View(Phase, 0, token, "failed")' = View(Phase, 0, token, "failed")
    BY <1>1 DEF View
  <2> QED BY <2>1, <2>2
<1> QED BY <1>3, <1>4, AsStutter

\* The phases an execution goes between before the mission is over, with what it says.
Turns == {<<"accepted", "preparing", "PREPARING">>,
          <<"preparing", "running", "RUNNING">>,
          <<"running", "recovering", "RECOVERING">>,
          <<"recovering", "running", "RUNNING">>}

\* A step that announces a run state before the mission is over.
LEMMA Announced ==
  ASSUME StepInv, NEW from, NEW to, NEW state, <<from, to, state>> \in Turns,
         ~Over, ~Over', Phase = from, Phase' = to,
         NEW said, IsSequence(said), \A k \in DOMAIN said : said[k].kind \notin {"lifecycle", "finished"},
         log' = log \o (said \o <<Lifecycle(state)>>), token' = token, faults' = faults
  PROVE  Pipeline!Execution(Runner)
<1> USE DEF Turns
<1>1. PICK more : more = said \o <<Lifecycle(state)>>
  OBVIOUS
<1>2. PICK e : e = Lifecycle(state)
  OBVIOUS
<1>3. PICK tail : tail = <<e>> /\ IsSequence(tail) /\ Len(tail) = 1 /\ tail[1] = e
  BY OneEntry
<1>4. /\ IsSequence(more) /\ Len(said) \in Nat /\ Len(more) = Len(said) + 1
      /\ \A i \in 1..Len(said) : more[i] = said[i]
      /\ more[Len(said) + 1] = e
  BY <1>1, <1>2, <1>3, ConcatSequence
<1>5. /\ DOMAIN said = 1..Len(said) /\ DOMAIN more = 1..(Len(said) + 1)
  BY <1>4 DEF IsSequence
<1>6. PICK n : n = Len(said) + 1
  OBVIOUS
<1>7. n \in DOMAIN more /\ more[n] = Lifecycle(state) /\ \A k \in DOMAIN more : k # n => more[k].kind # "lifecycle"
  BY <1>2, <1>4, <1>5, <1>6
<1>8. state \in UnderWay
  BY DEF UnderWay
<1>9. Told(UnderWay)' = Append(Told(UnderWay), Announces(state))
  BY <1>1, <1>4, <1>7, <1>8, ToldMore DEF StepInv, ListsInv
<1>10. LogOf' = Append(LogOf, Announces(state)) /\ IsSequence(LogOf)
  BY <1>9 DEF StepInv, LogInv
<1>11. PICK c : c = token
  OBVIOUS
<1>12. Becomes(View(from, 0, c, "failed"), View(to, 0, c, "failed"))
  BY <1>11 DEF StepInv, ViewInv, Becomes
<1> QED BY <1>10, <1>12, AsAnnouncement

\* A step that ends the mission.
LEMMA Ended ==
  ASSUME StepInv, ~Over, Over', pc' \in {"raised", "final"}, Chats \/ log' = log, token' = token
  PROVE  /\ \E from \in Early \cup {"accepted"} : \E c, o :
              /\ from = Phase /\ c = token /\ o = Outcome'
              /\ Becomes(View(from, 0, c, "failed"), View("ending", 1, FALSE, o))
         /\ LogOf' = Append(LogOf, LastEvent)
<1>1. Told(UnderWay)' = Told(UnderWay)
  BY ToldSame DEF StepInv
<1>2. LogOf' = Append(LogOf, LastEvent)
  BY <1>1 DEF StepInv, LogInv
<1>3. Phase' = "ending" /\ pc' # "done"
  <2>1. pc' = "final" \/ (pc' = "raised" /\ exc' = "sink")
    BY DEF Over
  <2>2. CASE pc' = "final"
    BY <2>2 DEF Phase, Trying, InTry
  <2>3. CASE pc' = "raised" /\ exc' = "sink"
    BY <2>3 DEF Phase, Trying, InTry
  <2> QED BY <2>1, <2>2, <2>3
<1>4. PICK from, c, o : from = Phase /\ c = token /\ o = Outcome'
  OBVIOUS
<1>5. from \in Early \cup {"accepted"} /\ Becomes(View(from, 0, c, "failed"), View("ending", 1, FALSE, o))
  BY <1>3, <1>4 DEF StepInv, ViewInv, Becomes
<1> QED BY <1>2, <1>4, <1>5

-----------------------------------------------------------------------------
(* The steps, one by one. *)

\* The preparation and the mission start.
LEMMA SeesStart ==
  ASSUME StepInv, Prepare \/ StartMission
  PROVE  Pipeline!Execution(Runner)
<1>1. PICK said : said = <<>> /\ IsSequence(said) /\ DOMAIN said = {}
  BY EmptySequence
<1>2. \A x : said \o <<x>> = <<x>>
  <2> TAKE x
  <2>1. <<x>> \in Seq({x}) /\ <<>> \in Seq({x})
    OBVIOUS
  <2>2. <<>> \o <<x>> = <<x>>
    BY <2>1
  <2> QED BY <1>1, <2>2
<1>3. CASE Prepare
  <2>1. /\ ~Over /\ ~Over' /\ Phase = "accepted" /\ Phase' = "preparing"
        /\ token' = token /\ faults' = faults
    BY <1>3, EngineAssumption DEF Prepare, Over, Phase, Trying, InTry, StepInv, StageInv, Mission
  <2>2. log' = log \o (said \o <<Lifecycle("PREPARING")>>)
    BY <1>2, <1>3 DEF Prepare, Say
  <2>3. <<"accepted", "preparing", "PREPARING">> \in Turns
    BY DEF Turns
  <2>4. \A k \in DOMAIN said : said[k].kind \notin {"lifecycle", "finished"}
    BY <1>1
  <2> QED BY <1>1, <2>1, <2>2, <2>3, <2>4, Announced, SMTT(30)
<1>4. CASE StartMission
  <2>1. /\ ~Over /\ ~Over' /\ Phase = "preparing" /\ Phase' = "running"
        /\ token' = token /\ faults' = faults
    BY <1>4 DEF StartMission, Over, Phase, Trying, InTry, StepInv, StageInv, Mission
  <2>2. log' = log \o (said \o <<Lifecycle("RUNNING")>>)
    BY <1>2, <1>4 DEF StartMission, Say
  <2>3. <<"preparing", "running", "RUNNING">> \in Turns
    BY DEF Turns
  <2>4. \A k \in DOMAIN said : said[k].kind \notin {"lifecycle", "finished"}
    BY <1>1
  <2> QED BY <1>1, <2>1, <2>2, <2>3, <2>4, Announced, SMTT(30)
<1> QED BY <1>3, <1>4

\* What the engine does between two announcements.
LEMMA SeesNothing ==
  ASSUME StepInv,
         Prepared \/ PreparationCancelled \/ Observe \/ TargetFails \/ Inject \/ ClearDue \/ FinishSample
  PROVE  UNCHANGED Pipeline!vars
<1>1. Chats \/ log' = log
  <2>1. CASE Inject \/ ClearDue \/ FinishSample
    BY <2>1, InjectActs, ClearActs, FinishActs, ActsChats DEF StepInv
  <2>2. CASE Prepared \/ PreparationCancelled \/ Observe \/ TargetFails
    BY <2>2 DEF Prepared, PreparationCancelled, Observe, TargetFails
  <2> QED BY <2>1, <2>2
<1>2. Trying /\ Trying' /\ runState' = runState /\ token' = token /\ faults' = faults
  <2>1. pc \in InTry /\ runState' = runState /\ token' = token /\ faults' = faults
    BY DEF Prepared, PreparationCancelled, Observe, TargetFails, Inject, ClearDue, FinishSample, InTry
  <2>2. pc' \in InTry \/ (pc' = "raised" /\ exc' # "sink")
    BY DEF Prepared, PreparationCancelled, Observe, TargetFails, Inject, ClearDue, FinishSample, InTry
  <2> QED BY <2>1, <2>2 DEF Trying
<1> QED BY <1>1, <1>2, Unseen

\* An observation that enters or leaves RECOVERING, or does neither.
LEMMA SeesObservation ==
  ASSUME StepInv, ProcessObservation
  PROVE  Pipeline!Execution(Runner) \/ UNCHANGED Pipeline!vars
<1>1. PICK said : /\ IsSequence(said)
                  /\ \A k \in DOMAIN said : said[k].kind \notin {"lifecycle", "finished"}
                  /\ log' = log \o (said \o IF runState' = runState THEN <<>> ELSE <<Lifecycle(runState')>>)
  BY ObservationSays DEF StepInv
<1>2. /\ pc = "scheduled" /\ pc' = "observed" /\ token' = token /\ faults' = faults
      /\ \E known : runState' = RunStateOf(known)
  BY DEF ProcessObservation
<1>3. runState \in {"RUNNING", "RECOVERING"}
  BY <1>2 DEF StepInv, StageInv
<1>4. runState' \in {"RUNNING", "RECOVERING"}
  BY <1>2, <1>3 DEF RunStateOf
<1>5. CASE runState' = runState
  <2>1. said \o <<>> = said
    BY <1>1, AddsLittle
  <2>2. Chats
    BY <1>1, <1>5, <2>1 DEF Chats
  <2>3. Trying /\ Trying'
    BY <1>2 DEF Trying, InTry
  <2> QED BY <1>2, <1>5, <2>2, <2>3, Unseen
<1>6. CASE runState' # runState
  <2>1. PICK state : state = runState'
    OBVIOUS
  <2>2. log' = log \o (said \o <<Lifecycle(state)>>)
    BY <1>1, <1>6, <2>1
  <2>3. ~Over /\ ~Over'
    BY <1>2 DEF Over
  <2>4. /\ IsSequence(said)
        /\ \A k \in DOMAIN said : said[k].kind \notin {"lifecycle", "finished"}
        /\ token' = token /\ faults' = faults
    BY <1>1, <1>2
  <2>5. CASE runState = "RUNNING"
    <3>1. state = "RECOVERING" /\ Phase = "running" /\ Phase' = "recovering"
      BY <1>2, <1>4, <1>6, <2>1, <2>5 DEF Phase, Trying, InTry
    <3>2. log' = log \o (said \o <<Lifecycle("RECOVERING")>>)
      BY <2>2, <3>1
    <3>3. Phase = "running" /\ Phase' = "recovering"
      BY <3>1
    <3>4. <<"running", "recovering", "RECOVERING">> \in Turns
      BY DEF Turns
    <3> QED BY <2>3, <2>4, <3>2, <3>3, <3>4, Announced, SMTT(30)
  <2>6. CASE runState = "RECOVERING"
    <3>1. state = "RUNNING" /\ Phase = "recovering" /\ Phase' = "running"
      BY <1>2, <1>4, <1>6, <2>1, <2>6 DEF Phase, Trying, InTry
    <3>2. log' = log \o (said \o <<Lifecycle("RUNNING")>>)
      BY <2>2, <3>1
    <3>3. Phase = "recovering" /\ Phase' = "running"
      BY <3>1
    <3>4. <<"recovering", "running", "RUNNING">> \in Turns
      BY DEF Turns
    <3> QED BY <2>3, <2>4, <3>2, <3>3, <3>4, Announced, SMTT(30)
  <2> QED BY <1>3, <2>5, <2>6
<1> QED BY <1>5, <1>6

\* The mission ends of itself, or because a cancel was seen.
LEMMA SeesLeave ==
  ASSUME StepInv, Leave
  PROVE  Pipeline!Execution(Runner)
<1>1. /\ pc = "leaving" /\ pc' = "final" /\ token' = token /\ faults' = faults /\ UNCHANGED ending
      /\ exc = None /\ raised = FALSE /\ (final = "COLLECTING" \/ (final = "CANCELLED" /\ token))
      /\ runState \in {"RUNNING", "RECOVERING"}
  BY DEF Leave, StepInv, StageInv, Mission, InTry
<1>2. Chats
  BY LeaveActs, ActsChats DEF StepInv
<1>3. ~Over /\ Over'
  BY <1>1 DEF Over
<1>4. PICK from, c, o :
        /\ from \in Early \cup {"accepted"} /\ from = Phase /\ c = token /\ o = Outcome'
        /\ Becomes(View(from, 0, c, "failed"), View("ending", 1, FALSE, o))
  BY <1>1, <1>2, <1>3, Ended
<1>5. LogOf' = Append(LogOf, LastEvent)
  BY <1>1, <1>2, <1>3, Ended
<1>6. from \in {"running", "recovering"}
  BY <1>1, <1>4 DEF Phase, Trying, InTry
<1>7. o = IF final = "COLLECTING" THEN "completed" ELSE "cancelled"
  BY <1>1, <1>4, EngineAssumption DEF Outcome, ending
<1>8. o \in Pipeline!Outcomes /\ (o = "cancelled" => c)
  BY <1>1, <1>4, <1>7 DEF Pipeline!Outcomes
<1>9. from \in Early /\ from # "preparing"
  BY <1>6 DEF Early
<1> QED BY <1>1, <1>4, <1>5, <1>8, <1>9, AsEnd

\* A publish raises inside the mission.
LEMMA SeesSinkFail ==
  ASSUME StepInv, SinkFails
  PROVE  Pipeline!Execution(Runner)
<1>1. /\ pc \in InTry \cup {"accepted"} /\ pc' = "raised" /\ exc' = "sink" /\ token' = token
      /\ log' = log /\ Fault
  BY DEF SinkFails
<1>2. ~Over /\ Over' /\ Outcome' = "failed"
  BY <1>1 DEF Over, InTry, Outcome
<1>3. PICK from, c :
        /\ from \in Early \cup {"accepted"}
        /\ Becomes(View(from, 0, c, "failed"), View("ending", 1, FALSE, "failed"))
  BY <1>1, <1>2, Ended
<1>4. LogOf' = Append(LogOf, LastEvent)
  BY <1>1, <1>2, Ended
<1> QED BY <1>1, <1>3, <1>4, AsFailure

\* The last event of a mission that was ended by an exception.
LEMMA SeesHandle ==
  ASSUME StepInv, Handle
  PROVE  Pipeline!Execution(Runner) \/ UNCHANGED Pipeline!vars
<1>1. /\ pc = "raised" /\ pc' = "final" /\ token' = token /\ log' = log /\ exc' = exc
      /\ final' = IF exc = "cancelled" THEN "CANCELLED" ELSE "FAILED"
      /\ (raised' = raised /\ faults' = faults) \/ (raised' = TRUE /\ Fault)
      /\ raised = FALSE /\ (exc = "cancelled" => token)
  BY DEF Handle, StepInv, StageInv
<1>2. CASE exc = "sink"
  <2>1. /\ Over /\ Over' /\ Phase = "ending" /\ Phase' = "ending" /\ Outcome = "failed" /\ Outcome' = "failed"
        /\ pc # "done" /\ pc' # "done"
    <3>1. Over /\ Over' /\ Outcome = "failed" /\ Outcome' = "failed" /\ pc # "done" /\ pc' # "done"
      BY <1>1, <1>2 DEF Over, Outcome
    <3>2. Phase = "ending"
      BY <1>1, <1>2 DEF Phase, Trying, InTry
    <3>3. Phase' = "ending"
      BY <1>1, <1>2 DEF Phase, Trying, InTry
    <3> QED BY <3>1, <3>2, <3>3
  <2>2. ExecutionOf = View("ending", 1, FALSE, "failed") /\ ExecutionOf' = ExecutionOf
    BY <2>1 DEF StepInv, ViewInv
  <2>3. Told(UnderWay)' = Told(UnderWay)
    BY <1>1, ToldSame DEF StepInv
  <2>4. LogOf' = LogOf
    BY <1>1, <2>1, <2>3 DEF StepInv, LogInv
  <2>5. CASE faults' = faults
    BY <1>1, <2>2, <2>4, <2>5, AsStutter
  <2>6. CASE Fault
    BY <1>1, <2>2, <2>4, <2>6, AsUnheard
  <2> QED BY <1>1, <2>5, <2>6
<1>3. CASE exc # "sink"
  <2>1. ~Over /\ Over' /\ runState \in {"PREPARING", "RUNNING", "RECOVERING"}
    BY <1>1, <1>3 DEF Over, StepInv, StageInv
  <2>2. PICK from, c, o :
          /\ from \in Early \cup {"accepted"} /\ from = Phase /\ c = token /\ o = Outcome'
          /\ Becomes(View(from, 0, c, "failed"), View("ending", 1, FALSE, o))
    BY <1>1, <2>1, Ended
  <2>3. LogOf' = Append(LogOf, LastEvent)
    BY <1>1, <2>1, Ended
  <2>4. from \in Early
    BY <1>1, <1>3, <2>1, <2>2 DEF Phase, Trying, InTry, Early
  <2>5. CASE raised' = raised /\ faults' = faults
    <3>1. o = IF exc = "cancelled" THEN "cancelled" ELSE "failed"
      BY <1>1, <1>3, <2>2, <2>5 DEF Outcome
    <3>2. o \in Pipeline!Outcomes /\ o # "completed" /\ (o = "cancelled" => c)
      BY <1>1, <2>2, <3>1 DEF Pipeline!Outcomes
    <3> QED BY <1>1, <2>2, <2>3, <2>4, <2>5, <3>2, AsEnd
  <2>6. CASE raised' = TRUE /\ Fault
    <3>1. o = "failed"
      BY <2>2, <2>6 DEF Outcome
    <3> QED BY <1>1, <2>2, <2>3, <2>6, <3>1, AsFailure
  <2> QED BY <1>1, <2>5, <2>6
<1> QED BY <1>2, <1>3

\* COLLECTING is announced, or lost.
LEMMA SeesCollect ==
  ASSUME StepInv, Collect
  PROVE  Pipeline!Execution(Runner)
<1>1. /\ pc = "final" /\ pc' \in {"collecting", "returned"} /\ token' = token /\ exc' = exc /\ final' = final
      /\ Over /\ Over' /\ pc # "done" /\ pc' # "done"
  BY DEF Collect, Over
<1>2. Phase = "ending" /\ Phase' = "collecting"
  <2>1. Phase = "ending"
    BY <1>1 DEF Phase, Trying, InTry
  <2>2. Phase' = "collecting"
    BY <1>1 DEF Phase, Trying, InTry
  <2> QED BY <2>1, <2>2
<1>3. PICK o, then : /\ o = Outcome /\ then = Outcome'
                     /\ Becomes(View("ending", 1, FALSE, o), View("collecting", 1, FALSE, then))
  BY <1>1, <1>2 DEF StepInv, ViewInv, Becomes
<1>4. CASE /\ log' = log \o <<Lifecycle("COLLECTING")>> /\ raised' = raised /\ faults' = faults
  <2>1. then = o
    BY <1>1, <1>3, <1>4 DEF Outcome
  <2>2. PICK more : more = <<Lifecycle("COLLECTING")>>
    OBVIOUS
  <2>3. IsSequence(more) /\ DOMAIN more = {1} /\ more[1] = Lifecycle("COLLECTING")
    <3>1. PICK e : e = Lifecycle("COLLECTING")
      OBVIOUS
    <3>2. more = <<e>> /\ DOMAIN more = 1..1 /\ more[1] = e
      BY <2>2, <3>1
    <3> QED BY <3>1, <3>2, OneEntry
  <2>4. Told({"COLLECTING"})' = Append(Told({"COLLECTING"}), Announces("COLLECTING"))
    BY <1>4, <2>2, <2>3, ToldMore DEF StepInv, ListsInv
  <2>5. Told(UnderWay)' = Told(UnderWay)
    <3>1. Lifecycle("COLLECTING").state = "COLLECTING"
      BY DEF Lifecycle
    <3>2. \A k \in DOMAIN more : ~(more[k].kind = "lifecycle" /\ more[k].state \in UnderWay)
      BY <2>3, <3>1 DEF UnderWay
    <3> QED BY <1>4, <2>2, <2>3, <3>2, ToldStays DEF StepInv, ListsInv
  <2>6. LogOf = Append(Told(UnderWay), LastEvent) /\ IsSequence(LogOf)
    BY <1>1 DEF StepInv, LogInv
  <2>7. Told({"COLLECTING"}) = <<>>
    <3>1. ToldAt({"COLLECTING"}) = {}
      BY <1>1 DEF StepInv, SaidInv, ToldAt
    <3> QED BY <3>1, ToldList DEF StepInv, ListsInv
  <2>8. LogOf' = LogOf \o <<Announces("COLLECTING")>>
    <3>1. LogOf' = (Told(UnderWay)' \o <<LastEvent>>) \o Told({"COLLECTING"})'
      BY <1>1 DEF StepInv, LogInv
    <3>2. Told(UnderWay) \o <<LastEvent>> = LogOf
      BY <2>6, ToldList, AddsLittle DEF StepInv, ListsInv
    <3>3. Append(<<>>, Announces("COLLECTING")) = <<Announces("COLLECTING")>>
      OBVIOUS
    <3> QED BY <2>4, <2>5, <2>7, <3>1, <3>2, <3>3
  <2>9. LogOf' = Append(LogOf, Announces("COLLECTING"))
    BY <2>6, <2>8, AddsLittle
  <2> QED BY <1>1, <1>3, <1>4, <2>1, <2>6, <2>9, AsAnnouncement
<1>5. CASE log' = log /\ (raised' = raised \/ raised' = TRUE) /\ Fault
  <2>1. then \in {o, "failed"}
    BY <1>1, <1>3, <1>5 DEF Outcome
  <2>2. Told(UnderWay)' = Told(UnderWay) /\ Told({"COLLECTING"})' = Told({"COLLECTING"})
    BY <1>5, ToldSame DEF StepInv
  <2>3. LogOf' = LogOf
    BY <1>1, <2>2 DEF StepInv, LogInv
  <2> QED BY <1>1, <1>3, <1>5, <2>1, <2>3, AsLost
<1> QED BY <1>4, <1>5 DEF Collect, Say

\* The artifacts and the end of the target, and what cannot be said of them.
LEMMA SeesArtifacts ==
  ASSUME StepInv, CollectArtifacts \/ Stop \/ PublishArtifactFails
  PROVE  Pipeline!Execution(Runner) \/ UNCHANGED Pipeline!vars
<1>1. /\ pc \in {"collecting", "stopping", "returned"} /\ pc' \in {"collecting", "stopping", "returned"}
      /\ token' = token /\ exc' = exc /\ final' = final /\ log' = log
      /\ (raised' = raised /\ faults' = faults) \/ (raised' = TRUE /\ Fault)
  BY DEF CollectArtifacts, Stop, PublishArtifactFails
<1>2. Over /\ Over' /\ pc # "done" /\ pc' # "done"
  BY <1>1 DEF Over
<1>3. Phase = "collecting" /\ Phase' = "collecting"
  <2>1. Phase = "collecting"
    BY <1>1 DEF Phase, Trying, InTry
  <2>2. Phase' = "collecting"
    BY <1>1 DEF Phase, Trying, InTry
  <2> QED BY <2>1, <2>2
<1>4. PICK o, then : /\ o = Outcome /\ then = Outcome'
                     /\ Becomes(View("collecting", 1, FALSE, o), View("collecting", 1, FALSE, then))
  BY <1>2, <1>3 DEF StepInv, ViewInv, Becomes
<1>5. LogOf' = LogOf
  <2>1. Told(UnderWay)' = Told(UnderWay) /\ Told({"COLLECTING"})' = Told({"COLLECTING"})
    BY <1>1, ToldSame DEF StepInv
  <2> QED BY <1>2, <2>1 DEF StepInv, LogInv
<1>6. CASE raised' = raised /\ faults' = faults
  <2>1. then = o
    BY <1>1, <1>4, <1>6 DEF Outcome
  <2> QED BY <1>1, <1>4, <1>5, <1>6, <2>1, AsStutter DEF Becomes
<1>7. CASE raised' = TRUE /\ Fault
  <2>1. then = "failed"
    BY <1>4, <1>7 DEF Outcome
  <2> QED BY <1>1, <1>4, <1>5, <1>7, <2>1, AsArtifact
<1> QED BY <1>1, <1>6, <1>7

\* The runner takes the run from its list.
LEMMA SeesPop ==
  ASSUME StepInv, Pop
  PROVE  Pipeline!Execution(Runner)
<1>1. /\ pc = "returned" /\ pc' = "popped" /\ token' = token /\ faults' = faults /\ log' = log
      /\ exc' = exc /\ final' = final /\ raised' = raised
  BY DEF Pop, ending
<1>2. Over /\ Over' /\ pc # "done" /\ pc' # "done"
  BY <1>1 DEF Over
<1>3. Phase = "collecting" /\ Phase' = "popped"
  <2>1. Phase = "collecting"
    BY <1>1 DEF Phase, Trying, InTry
  <2>2. Phase' = "popped"
    BY <1>1 DEF Phase, Trying, InTry
  <2> QED BY <2>1, <2>2
<1>4. PICK o : o = Outcome /\ o = Outcome'
  BY <1>1 DEF Outcome
<1>5. Becomes(View("collecting", 1, FALSE, o), View("popped", 1, FALSE, o))
  BY <1>2, <1>3, <1>4 DEF StepInv, ViewInv, Becomes
<1>6. LogOf' = LogOf
  <2>1. Told(UnderWay)' = Told(UnderWay) /\ Told({"COLLECTING"})' = Told({"COLLECTING"})
    BY <1>1, ToldSame DEF StepInv
  <2> QED BY <1>2, <2>1 DEF StepInv, LogInv
<1> QED BY <1>1, <1>5, <1>6, AsPop

\* The finished message.
LEMMA SeesFinish ==
  ASSUME StepInv, Finish
  PROVE  Pipeline!Execution(Runner)
<1>1. /\ pc = "popped" /\ pc' = "done" /\ token' = token
      /\ exc' = exc /\ final' = final /\ raised' = raised
      /\ (log' = log \o <<Marked("finished")>> /\ faults' = faults) \/ (log' = log /\ Fault)
  BY DEF Finish, ending, Say
<1>2. Over /\ Over' /\ pc # "done"
  BY <1>1 DEF Over
<1>3. Phase = "popped"
  BY <1>1 DEF Phase, Trying, InTry
<1>4. PICK o : o = Outcome /\ o = Outcome'
  BY <1>1 DEF Outcome
<1>5. Becomes(View("popped", 1, FALSE, o), Pipeline!IdleExec)
  <2>1. ExecutionOf = View("popped", 1, FALSE, o)
    BY <1>2, <1>3, <1>4 DEF StepInv, ViewInv
  <2>2. ExecutionOf' = Pipeline!IdleExec
    BY <1>1 DEF ExecutionOf, Pipeline!IdleExec, Pipeline!Fresh
  <2> QED BY <2>1, <2>2 DEF Becomes
<1>6. PICK e : e = Marked("finished") /\ e.kind = "finished"
  <2>1. Marked("finished").kind = "finished"
    BY DEF Marked
  <2> QED BY <2>1
<1>7. PICK fin : fin = [kind |-> "finished", outcome |-> o, from |-> Runner]
  OBVIOUS
<1>8. /\ LogOf = (Told(UnderWay) \o <<LastEvent>>) \o Told({"COLLECTING"})
      /\ IsSequence(LogOf)
  BY <1>2 DEF StepInv, LogInv
<1>9. LogOf' = (((Told(UnderWay)' \o <<LastEvent>>) \o Told({"COLLECTING"})')
                  \o IF \E i \in DOMAIN log' : log'[i].kind = "finished" THEN <<fin>> ELSE <<>>)
  BY <1>2, <1>4, <1>7 DEF LogOf, UnderWay, LastEvent
<1>10. CASE log' = log \o <<Marked("finished")>> /\ faults' = faults
  <2>1. PICK more : more = <<e>> /\ IsSequence(more) /\ \A k \in DOMAIN more : more[k] = e
    BY OneEntry
  <2>2. Told(UnderWay)' = Told(UnderWay) /\ Told({"COLLECTING"})' = Told({"COLLECTING"})
    BY <1>6, <1>10, <2>1, ToldStays DEF StepInv, ListsInv
  <2>3. \E i \in DOMAIN log' : log'[i].kind = "finished"
    <3>1. 1 \in DOMAIN more
      BY <2>1
    <3>2. Len(log) + 1 \in DOMAIN log' /\ log'[Len(log) + 1] = more[1]
      BY <1>6, <1>10, <2>1, <3>1, LogGrows DEF StepInv, ListsInv
    <3> QED BY <1>6, <2>1, <3>1, <3>2
  <2>4. LogOf' = LogOf \o <<fin>>
    BY <1>8, <1>9, <2>2, <2>3
  <2>5. LogOf' = Append(LogOf, fin)
    BY <1>8, <2>4, AddsLittle
  <2> QED BY <1>1, <1>5, <1>7, <1>10, <2>5, AsFinish
<1>11. CASE log' = log /\ Fault
  <2>1. Told(UnderWay)' = Told(UnderWay) /\ Told({"COLLECTING"})' = Told({"COLLECTING"})
    BY <1>11, ToldSame DEF StepInv
  <2>2. ~ \E i \in DOMAIN log' : log'[i].kind = "finished"
    BY <1>1, <1>11 DEF StepInv, SaidInv
  <2>3. LogOf' = LogOf \o <<>>
    BY <1>8, <1>9, <2>1, <2>2
  <2>4. LogOf' = LogOf
    BY <1>8, <2>3, AddsLittle
  <2> QED BY <1>1, <1>5, <1>11, <2>4, AsFinish
<1> QED BY <1>1, <1>10, <1>11

\* A cancel is seen by the mission, or comes too late.
LEMMA SeesCancel ==
  ASSUME StepInv, Cancel
  PROVE  Pipeline!OnControl(Runner)
<1>1. /\ pc' = pc /\ pc \notin {"popped", "done"} /\ token = FALSE /\ token' = TRUE /\ faults' = faults
      /\ log' = log /\ exc' = exc /\ final' = final /\ raised' = raised /\ runState' = runState
  BY DEF Cancel, ending, StepInv, StageInv
<1>2. Over' = Over /\ Phase' = Phase /\ Outcome' = Outcome
  BY <1>1 DEF Over, Phase, Trying, Outcome
<1>3. Told(UnderWay)' = Told(UnderWay) /\ Told({"COLLECTING"})' = Told({"COLLECTING"})
  BY <1>1, ToldSame DEF StepInv
<1>4. LogOf' = LogOf
  BY <1>1, <1>2, <1>3 DEF StepInv, LogInv
<1>5. PICK p, o : p = Phase /\ o = Outcome
  OBVIOUS
<1>6. CASE ~Over
  <2>1. p \in Early \cup {"accepted"}
    BY <1>5, <1>6 DEF StepInv, ViewInv
  <2>2. (p \in Early \cup {"accepted"}) = TRUE
    BY <2>1
  <2>3. Becomes(View(p, 0, FALSE, "failed"), View(p, 0, p \in Early \cup {"accepted"}, "failed"))
    BY <1>1, <1>2, <1>5, <1>6, <2>2 DEF StepInv, ViewInv, Becomes
  <2> QED BY <1>1, <1>4, <2>3, AsCancel
<1>7. CASE Over
  <2>1. p \in {"ending", "collecting"}
    BY <1>1, <1>5, <1>7 DEF Over, Phase, Trying, InTry
  <2>2. (p \in Early \cup {"accepted"}) = FALSE
    BY <2>1 DEF Early
  <2>3. Becomes(View(p, 1, FALSE, o), View(p, 1, p \in Early \cup {"accepted"}, o))
    BY <1>1, <1>2, <1>5, <1>7, <2>2 DEF StepInv, ViewInv, Becomes
  <2> QED BY <1>1, <1>4, <2>3, AsCancel
<1> QED BY <1>6, <1>7

\* What the pipeline sees of an execution that is accepted.
LEMMA SeesAccepted ==
  ASSUME Init
  PROVE  StageInv /\ SaidInv /\ ExecutionOf = Pipeline!Fresh("accepted", 1)
<1>1. StageInv
  BY EngineAssumption DEF Init, StageInv, Mission, InTry, AfterMission
<1>2. SaidInv
  BY DEF Init, SaidInv
<1>3. pc = "accepted" /\ ~Over /\ token = FALSE
  BY DEF Init, Over
<1>4. Phase = "accepted"
  BY <1>3 DEF Phase, Trying, InTry
<1>5. (token /\ ~Over) = FALSE
  BY <1>3
<1>6. ExecutionOf = Pipeline!Fresh("accepted", 1)
  BY <1>3, <1>4, <1>5 DEF ExecutionOf, Pipeline!Fresh
<1> QED BY <1>1, <1>2, <1>6

\* Each step of an execution is one of the pipeline, or the pipeline does not see it.
LEMMA SeesSteps ==
  ASSUME ListsInv, StageInv, SaidInv, [Next]_vars
  PROVE  [Pipeline!Execution(Runner) \/ Pipeline!OnControl(Runner)]_(Pipeline!vars)
<1>1. StepInv
  BY KnownOf
<1>2. CASE Prepare \/ StartMission
  BY <1>1, <1>2, SeesStart
<1>3. CASE Prepared \/ PreparationCancelled \/ Observe \/ TargetFails \/ Inject \/ ClearDue \/ FinishSample
  BY <1>1, <1>3, SeesNothing
<1>4. CASE ProcessObservation
  BY <1>1, <1>4, SeesObservation
<1>5. CASE Leave
  BY <1>1, <1>5, SeesLeave
<1>6. CASE SinkFails
  BY <1>1, <1>6, SeesSinkFail
<1>7. CASE Handle
  BY <1>1, <1>7, SeesHandle
<1>8. CASE Collect
  BY <1>1, <1>8, SeesCollect
<1>9. CASE CollectArtifacts \/ Stop \/ PublishArtifactFails
  BY <1>1, <1>9, SeesArtifacts
<1>10. CASE Pop
  BY <1>1, <1>10, SeesPop
<1>11. CASE Finish
  BY <1>1, <1>11, SeesFinish
<1>12. CASE Cancel
  BY <1>1, <1>12, SeesCancel
<1>13. CASE UNCHANGED vars
  <2>1. /\ pc' = pc /\ token' = token /\ faults' = faults /\ log' = log /\ exc' = exc /\ final' = final
        /\ raised' = raised /\ runState' = runState
    BY <1>13 DEF vars, ending
  <2>2. Over' = Over /\ Phase' = Phase /\ Outcome' = Outcome
    BY <2>1 DEF Over, Phase, Trying, Outcome
  <2>3. \A A : Told(A)' = Told(A)
    BY <2>1 DEF Told, ToldAt
  <2>4. ExecutionOf' = ExecutionOf /\ LogOf' = LogOf
    BY <2>1, <2>2, <2>3 DEF ExecutionOf, LogOf
  <2> QED BY <2>1, <2>4, AsStutter
<1> QED BY <1>2, <1>3, <1>4, <1>5, <1>6, <1>7, <1>8, <1>9, <1>10, <1>11, <1>12, <1>13 DEF Next, Step

\* RunsAsPipeline: an execution is one of RunPipeline.  Whatever the scenario, the adapter
\* and the publishes that raise, each step of the engine and of the runner around it is a
\* step that RunPipeline has a runner take, or one that it does not see.
THEOREM RefinesPipeline == Spec => RunsAsPipeline
<1>1. Init => ListsInv /\ StageInv /\ SaidInv
  BY ListsInit, SeesAccepted
<1>2. ListsInv /\ StageInv /\ SaidInv /\ [Next]_vars => (ListsInv /\ StageInv /\ SaidInv)'
  BY ListsNext, StageNext, SaidNext
<1>3. Init => ExecutionOf = Pipeline!Fresh("accepted", 1)
  BY SeesAccepted
<1>4. ListsInv /\ StageInv /\ SaidInv /\ [Next]_vars
        => [Pipeline!Execution(Runner) \/ Pipeline!OnControl(Runner)]_(Pipeline!vars)
  BY SeesSteps
<1> QED BY <1>1, <1>2, <1>3, <1>4, PTL DEF Spec, RunsAsPipeline

-----------------------------------------------------------------------------
(* Faults: what the samples say of a component. *)

\* It was healthy at the start, or in one of some samples.
Well(S, c) == InitialHealth[c] \in Healthy \/ \E h \in S : h.health[c] \in Healthy

\* It is healthy in the latest of them.
EndsWell(S, c) == \A g \in S : \E h \in S : g.t <= h.t /\ h.health[c] \in Healthy

\* From a time on it is not healthy; and before, it was to the last, if it ever was.
Began(S, c, o) ==
  /\ \A h \in S : o <= h.t => h.health[c] \notin Healthy
  /\ Well(S, c) =>
       \A g \in S : g.t < o => \E h \in S : g.t <= h.t /\ h.t < o /\ h.health[c] \in Healthy

\* What is known of a component at a time and since when its fault is open, after some
\* samples: the fault opened with one of them, or opens with the one to come.
StillOpen(S, t, c, state, since) ==
  IF state \in Healthy THEN since = None
  ELSE IF since = None THEN ~Well(S, c)
  ELSE since \in Nat /\ since <= t /\ Began(S, c, since) /\ (since = t \/ \E h \in S : h.t = since)

\* The last sample was of what is known.
Shown(S, c, state, since) ==
  IF state \in Healthy THEN EndsWell(S, c) ELSE since # None => \E h \in S : h.t = since

FaultOf(c) ==
  /\ StillOpen(Past, clock, c, states[c], openSince[c])
  /\ pc # "observed" => Shown(Past, c, states[c], openSince[c])

\* The samples before a time, and those since which a component is not healthy.
Before(S, t) == {h \in S : h.t < t}

Whole(S, c) == {h \in S : \A g \in S : h.t <= g.t => g.health[c] \notin Healthy}

\* The duration of a fault that is over, by the samples before.
Timed(S, r) ==
  Well(Before(S, r.t), r.sub) =>
    \E h \in Before(S, r.t) : r.took = r.t - h.t /\ Began(Before(S, r.t), r.sub, h.t)

\* Of a component that was not prepared no fault is open; of the others one is or not, and
\* those that were over are timed.
FaultInv ==
  /\ DOMAIN states = Components /\ DOMAIN openSince = Components
  /\ Live =>
       /\ pc \in {"accepted", "preparing"} => \A c \in Components : openSince[c] = None
       /\ pc \notin {"accepted", "preparing"} => \A c \in Components : FaultOf(c)
       /\ \A i \in Entries("recovery") :
            log[i].t \in Nat /\ log[i].t <= clock /\ Timed(Past, log[i])

\* One more sample in which it is not healthy.
LEMMA BeganOn ==
  ASSUME NEW S, NEW c, NEW o \in Nat, Began(S, c, o), NEW x, x.t \in Nat, o <= x.t,
         x.health[c] \notin Healthy, \A h \in S : h.t \in Nat
  PROVE  Began(S \cup {x}, c, o)
<1>1. Well(S \cup {x}, c) => Well(S, c)
  BY DEF Well
<1>2. \A h \in S \cup {x} : o <= h.t => h.health[c] \notin Healthy
  BY DEF Began
<1>3. ASSUME Well(S \cup {x}, c), NEW g \in S \cup {x}, g.t < o
      PROVE  \E h \in S : g.t <= h.t /\ h.t < o /\ h.health[c] \in Healthy
  <2>1. g # x
    BY <1>3
  <2> QED BY <1>1, <1>3, <2>1 DEF Began
<1> QED BY <1>2, <1>3 DEF Began

\* Later samples have no say in the duration.
LEMMA TimedOn ==
  ASSUME NEW S, NEW T, S \subseteq T, NEW r, Timed(S, r), \A h \in T : h \in S \/ ~(h.t < r.t)
  PROVE  Timed(T, r)
<1>1. Before(T, r.t) = Before(S, r.t)
  BY DEF Before
<1> QED BY <1>1 DEF Timed

\* The duration is from the first of the samples since which it was not healthy.
LEMMA TimedTells ==
  ASSUME NEW S, \A h \in S : h.t \in Nat, NEW r, Timed(S, r), Well(Before(S, r.t), r.sub)
  PROVE  LET whole == Whole(Before(S, r.t), r.sub)
         IN  \E o \in whole : r.took = r.t - o.t /\ \A h \in whole : o.t <= h.t
<1>1. PICK before, whole : before = Before(S, r.t) /\ whole = Whole(before, r.sub)
  OBVIOUS
<1>2. PICK o \in before : r.took = r.t - o.t /\ Began(before, r.sub, o.t)
  BY <1>1 DEF Timed
<1>3. \A h \in before : h.t \in Nat
  BY <1>1 DEF Before
<1>4. o \in whole
  BY <1>1, <1>2 DEF Began, Whole
<1>5. ASSUME NEW h \in whole PROVE o.t <= h.t
  <2>1. SUFFICES ASSUME h.t < o.t PROVE FALSE
    BY <1>1, <1>3, <1>5 DEF Whole
  <2>2. Well(before, r.sub) /\ h \in before
    BY <1>1, <1>5 DEF Whole
  <2>3. PICK g \in before : h.t <= g.t /\ g.health[r.sub] \in Healthy
    BY <1>2, <2>1, <2>2 DEF Began
  <2> QED BY <1>1, <1>5, <2>3 DEF Whole
<1> QED BY <1>1, <1>2, <1>4, <1>5

-----------------------------------------------------------------------------
(* What one change makes of what is known. *)

\* It says one thing.
Says(m, change, e) ==
  /\ Change(m, change).said = Append(m.said, e)
  /\ e.kind \in {"recovery", "effect", "normalized"}
  /\ e.sub = change.sub /\ e.t = clock
  /\ e.cause = IF change.cause # None THEN change.cause ELSE AttributeCause(m.active, change.sub)
  /\ e.kind = "recovery" <=> change.after \in Healthy /\ m.states[change.sub] \notin Healthy
  /\ e.kind = "recovery" =>
       e.took = IF m.open[change.sub] = None THEN None ELSE clock - m.open[change.sub]

LEMMA ChangeMakes ==
  ASSUME NEW m, NEW change, m.states[change.sub] # change.after
  PROVE  LET recovers == change.after \in Healthy /\ m.states[change.sub] \notin Healthy
             n        == Change(m, change)
         IN  /\ n.states = [m.states EXCEPT ![change.sub] = change.after]
             /\ n.open = IF recovers THEN [m.open EXCEPT ![change.sub] = None]
                         ELSE IF change.after \notin Healthy THEN Opened(m, change) ELSE m.open
             /\ n.active = IF recovers THEN Forgotten(m.active, change.sub) ELSE m.active
             /\ \E e : Says(m, change, e)
<1> DEFINE before   == m.states[change.sub]
           recovers == change.after \in Healthy /\ before \notin Healthy
           hit      == change.after \notin Healthy
           cause    == IF change.cause # None THEN change.cause
                       ELSE AttributeCause(m.active, change.sub)
           took     == IF ~recovers \/ m.open[change.sub] = None THEN None
                       ELSE clock - m.open[change.sub]
           entry    == [kind |-> IF recovers THEN "recovery"
                                 ELSE IF hit THEN "effect" ELSE "normalized",
                        sub |-> change.sub, before |-> before, after |-> change.after,
                        t |-> clock, cause |-> cause, took |-> took]
           known    == [m.states EXCEPT ![change.sub] = change.after]
           open     == IF recovers THEN [m.open EXCEPT ![change.sub] = None]
                       ELSE IF hit THEN Opened(m, change) ELSE m.open
           requests == IF recovers THEN Forgotten(m.active, change.sub) ELSE m.active
           next     == [states |-> known, open |-> open, active |-> requests,
                        said |-> Append(m.said, entry)]
<1>1. Change(m, change) = next
  BY Zenon DEF Change
<1>2. /\ entry.kind \in {"recovery", "effect", "normalized"}
      /\ entry.sub = change.sub /\ entry.t = clock /\ entry.cause = cause /\ entry.took = took
      /\ entry.kind = "recovery" <=> recovers
  <2> HIDE DEF took, cause
  <2> QED OBVIOUS
<1> HIDE DEF entry, known, open, requests
<1>3. /\ next.states = known /\ next.open = open /\ next.active = requests
      /\ next.said = Append(m.said, entry)
  OBVIOUS
<1> HIDE DEF next
<1>4. Says(m, change, entry)
  BY <1>1, <1>2, <1>3 DEF Says
<1> QED BY <1>1, <1>3, <1>4 DEF known, open, requests

\* What is known before the first change of an observation.
Start == [states |-> states, open |-> openSince, active |-> active, said |-> <<>>]

\* What the changes make of it, one after the other.
Steps(f, changes) ==
  /\ f[0] = Start
  /\ \A n \in 1..Len(changes) : f[n] = Change(f[n - 1], changes[n])

\* An observation makes of the state of the engine what its changes do.
LEMMA ObservationMakes ==
  ASSUME IsSequence(active), pc = "scheduled" => obs \in Observations, ProcessObservation
  PROVE  \E f, N :
           /\ N \in Nat /\ N = Len(obs.changes) /\ Steps(f, obs.changes)
           /\ states' = f[N].states /\ openSince' = f[N].open /\ active' = f[N].active
           /\ \A n \in 0..N : Keeps(active, f[n])
           /\ log' = log \o (f[N].said \o IF runState' = runState THEN <<>> ELSE <<Lifecycle(runState')>>)
<1>1. pc = "scheduled" /\ obs \in Observations
  BY DEF ProcessObservation
<1>2. Len(obs.changes) \in Nat
  <2>1. obs.changes \in Seq(Range(obs.changes))
    BY <1>1, EngineAssumption
  <2> QED BY <2>1
<1>3. PICK N \in Nat : N = Len(obs.changes)
  BY <1>2
<1>4. PICK m : m = Changed(Start, obs.changes)
  OBVIOUS
<1>5. /\ states' = m.states /\ openSince' = m.open /\ active' = m.active
      /\ log' = log \o (m.said \o IF runState' = runState THEN <<>> ELSE <<Lifecycle(runState')>>)
  BY <1>4 DEF ProcessObservation, Say, Start
<1>6. PICK f : Steps(f, obs.changes) /\ m = f[N]
  <2>1. PICK f : /\ f[0] = Start
                 /\ \A n \in 1..Len(obs.changes) : f[n] = Change(f[n - 1], obs.changes[n])
                 /\ Changed(Start, obs.changes) = f[Len(obs.changes)]
    BY <1>2, ChangedSteps
  <2> QED BY <2>1, <1>3, <1>4 DEF Steps
<1>7. Keeps(active, f[0])
  <2>1. PICK s : s = Start
    OBVIOUS
  <2>2. s.active = active /\ s.said = <<>> /\ DOMAIN <<>> = {}
    BY <2>1 DEF Start
  <2>3. f[0] = s
    BY <1>6, <2>1 DEF Steps
  <2> QED BY <2>2, <2>3, EmptySequence DEF Keeps
<1> DEFINE Good == {n \in 0..N : Keeps(active, f[n])}
<1>8. ASSUME NEW n \in 0..(N - 1), n \in Good PROVE n + 1 \in Good
  <2>1. n + 1 \in 1..N /\ n + 1 \in 0..N /\ (n + 1) - 1 = n
    OBVIOUS
  <2>2. f[n + 1] = Change(f[n], obs.changes[n + 1])
    BY <2>1, <1>3, <1>6 DEF Steps
  <2>3. Keeps(active, f[n])
    BY <1>8
  <2>4. Keeps(active, f[n + 1])
    BY <2>2, <2>3, ChangeKeeps
  <2> QED BY <2>1, <2>4
<1>9. \A n \in 0..N : n \in Good
  <2>1. 0 \in Good
    BY <1>7
  <2> HIDE DEF Good
  <2> QED BY <2>1, <1>8, Induction
<1> QED BY <1>3, <1>5, <1>6, <1>9

\* What the changes of some components made of what is known, and what was said of them.
Watching(m, subs) ==
  /\ DOMAIN m.states = Components /\ DOMAIN m.open = Components /\ IsSequence(m.said)
  /\ \A c \in Components : StillOpen(Past, clock, c, m.states[c], m.open[c])
  /\ \A c \in Components \ subs : m.states[c] = states[c] /\ m.open[c] = openSince[c]
  /\ \A k \in DOMAIN m.said :
       m.said[k].kind = "recovery" => m.said[k].t = clock /\ Timed(Past, m.said[k])

\* One change more, of a component that has not changed yet.
LEMMA ChangeWatched ==
  ASSUME clock \in Nat, \A h \in Past : h.t \in Nat /\ h.t < clock,
         \A c \in Components : Shown(Past, c, states[c], openSince[c]),
         NEW m, NEW subs, Watching(m, subs),
         NEW change, change.sub \in Components \ subs
  PROVE  Watching(Change(m, change), subs \cup {change.sub})
<1>1. CASE m.states[change.sub] = change.after
  <2>1. Change(m, change) = m
    BY <1>1 DEF Change
  <2> QED BY <2>1 DEF Watching
<1>2. CASE m.states[change.sub] # change.after
  <2>1. PICK c, after, n :
          c = change.sub /\ after = change.after /\ n = Change(m, change)
    OBVIOUS
  <2>2. PICK before, since :
          /\ before = m.states[c] /\ since = m.open[c]
          /\ before = states[c] /\ since = openSince[c]
    BY <2>1 DEF Watching
  <2>3. c \in Components /\ StillOpen(Past, clock, c, before, since) /\ Shown(Past, c, before, since)
    BY <2>1, <2>2 DEF Watching
  <2>4. DOMAIN m.states = Components /\ DOMAIN m.open = Components
    BY DEF Watching
  <2> DEFINE recovers == after \in Healthy /\ before \notin Healthy
             opens    == after \notin Healthy /\ before \in Healthy \cup {"UNKNOWN"} /\ since = None
  <2>5. n.states = [m.states EXCEPT ![c] = after]
    BY <1>2, <2>1, ChangeMakes
  <2>6. n.open = IF recovers THEN [m.open EXCEPT ![c] = None]
                 ELSE IF after \notin Healthy THEN Opened(m, change) ELSE m.open
    <3>1. Change(m, change).open =
            IF change.after \in Healthy /\ m.states[change.sub] \notin Healthy
            THEN [m.open EXCEPT ![change.sub] = None]
            ELSE IF change.after \notin Healthy THEN Opened(m, change) ELSE m.open
      BY <1>2, ChangeMakes
    <3>2. m.states[change.sub] = before /\ change.sub = c /\ change.after = after /\ Change(m, change) = n
      BY <2>1, <2>2
    <3> QED BY <3>1, <3>2
  <2>7. PICK e : Says(m, change, e)
    BY <1>2, ChangeMakes
  <2>8. Opened(m, change) = IF before \in Healthy \cup {"UNKNOWN"} /\ since = None
                            THEN [m.open EXCEPT ![c] = clock] ELSE m.open
    BY <2>1, <2>2 DEF Opened
  <2>9. DOMAIN n.states = Components /\ DOMAIN n.open = Components
    BY <2>4, <2>5, <2>6, <2>8
  <2>10. /\ n.states[c] = after
         /\ n.open[c] = IF recovers THEN None ELSE IF opens THEN clock ELSE since
    BY <2>2, <2>3, <2>4, <2>5, <2>6, <2>8
  <2>11. ASSUME NEW d \in Components, d # c
         PROVE  n.states[d] = m.states[d] /\ n.open[d] = m.open[d]
    BY <2>4, <2>5, <2>6, <2>8, <2>11
  <2>12. StillOpen(Past, clock, c, after, n.open[c])
    <3>1. CASE after \in Healthy
      BY <2>3, <2>10, <3>1 DEF StillOpen
    <3>2. CASE after \notin Healthy /\ ~opens
      <4>1. before \notin Healthy
        BY <2>3, <3>2 DEF StillOpen
      <4> QED BY <2>3, <2>10, <3>2, <4>1 DEF StillOpen
    <3>3. CASE opens
      <4>1. n.open[c] = clock /\ clock # None
        BY <2>10, <3>3, EngineAssumption
      <4>2. Well(Past, c) => EndsWell(Past, c)
        <5>1. "UNKNOWN" \notin Healthy
          BY DEF Healthy
        <5> QED BY <2>3, <3>3, <5>1 DEF StillOpen, Shown
      <4>3. Began(Past, c, clock)
        <5>1. \A h \in Past : ~(clock <= h.t)
          OBVIOUS
        <5> QED BY <4>2, <5>1 DEF Began, EndsWell
      <4> QED BY <3>3, <4>1, <4>3 DEF StillOpen
    <3> QED BY <3>1, <3>2, <3>3
  <2>13. e.kind = "recovery" => e.t = clock /\ Timed(Past, e)
    <3> SUFFICES ASSUME e.kind = "recovery" PROVE e.t = clock /\ Timed(Past, e)
      OBVIOUS
    <3>1. /\ e.t = clock /\ e.sub = c /\ before \notin Healthy
          /\ e.took = IF since = None THEN None ELSE clock - since
      BY <2>1, <2>2, <2>7 DEF Says
    <3>2. Before(Past, e.t) = Past
      BY <3>1 DEF Before
    <3>3. Well(Past, c) => \E h \in Past : e.took = e.t - h.t /\ Began(Past, c, h.t)
      BY <2>3, <3>1 DEF StillOpen, Shown
    <3> QED BY <3>1, <3>2, <3>3 DEF Timed
  <2>14. /\ IsSequence(n.said)
         /\ \A k \in DOMAIN n.said : (k \in DOMAIN m.said /\ n.said[k] = m.said[k]) \/ n.said[k] = e
    <3>1. IsSequence(m.said) /\ n.said = Append(m.said, e)
      BY <2>1, <2>7 DEF Watching, Says
    <3>2. /\ IsSequence(n.said) /\ Len(m.said) \in Nat /\ DOMAIN m.said = 1..Len(m.said)
          /\ DOMAIN n.said = 1..(Len(m.said) + 1) /\ n.said[Len(m.said) + 1] = e
          /\ \A i \in 1..Len(m.said) : n.said[i] = m.said[i]
      BY <3>1, AppendSequence DEF IsSequence
    <3>3. \A k \in 1..(Len(m.said) + 1) : k \in 1..Len(m.said) \/ k = Len(m.said) + 1
      BY <3>2
    <3> QED BY <3>2, <3>3
  <2>15. \A d \in Components : StillOpen(Past, clock, d, n.states[d], n.open[d])
    BY <2>10, <2>11, <2>12 DEF Watching
  <2>16. \A d \in Components \ (subs \cup {c}) : n.states[d] = states[d] /\ n.open[d] = openSince[d]
    BY <2>11 DEF Watching
  <2>17. \A k \in DOMAIN n.said :
           n.said[k].kind = "recovery" => n.said[k].t = clock /\ Timed(Past, n.said[k])
    BY <2>13, <2>14 DEF Watching
  <2>18. Watching(n, subs \cup {c})
    BY <2>9, <2>14, <2>15, <2>16, <2>17 DEF Watching
  <2> QED BY <2>1, <2>18
<1> QED BY <1>1, <1>2

\* What the changes of an observation make of it.
LEMMA ChangesWatched ==
  ASSUME SchedInv, TeleInv, FaultInv, pc = "scheduled", obs \in Observations,
         NEW f, NEW N \in Nat, N = Len(obs.changes), Steps(f, obs.changes)
  PROVE  \E subs : Watching(f[N], subs)
<1>1. clock \in Nat /\ \A h \in Past : h.t \in Nat /\ h.t < clock
  BY TakenEarlier DEF SchedInv, MissionInv, Past, Sampling
<1>2. /\ DOMAIN states = Components /\ DOMAIN openSince = Components
      /\ \A c \in Components : FaultOf(c)
  BY DEF FaultInv, Live, Mission, InTry
<1>3. /\ DOMAIN obs.changes = 1..N
      /\ \A k \in 1..N : obs.changes[k].sub \in Components
      /\ \A k, l \in 1..N : obs.changes[k].sub = obs.changes[l].sub => k = l
  <2>1. /\ obs.changes \in Seq(Range(obs.changes))
        /\ \A c \in Range(obs.changes) : c.sub \in Components
        /\ \A k, l \in DOMAIN obs.changes : obs.changes[k].sub = obs.changes[l].sub => k = l
    BY EngineAssumption
  <2>2. DOMAIN obs.changes = 1..N
    BY <2>1
  <2> QED BY <2>1, <2>2 DEF Range
<1> DEFINE subs(n) == {obs.changes[k].sub : k \in 1..n}
           Good == {n \in 0..N : Watching(f[n], subs(n))}
<1>4. 0 \in Good
  <2>1. PICK s : s = Start
    OBVIOUS
  <2>2. s.states = states /\ s.open = openSince /\ s.said = <<>> /\ DOMAIN <<>> = {}
    BY <2>1 DEF Start
  <2>3. f[0] = s
    BY <2>1 DEF Steps
  <2>4. \A c \in Components : StillOpen(Past, clock, c, states[c], openSince[c])
    BY <1>2 DEF FaultOf
  <2>5. Watching(s, subs(0))
    <3> HIDE DEF subs
    <3> QED BY <1>2, <2>2, <2>4, EmptySequence DEF Watching
  <2> QED BY <2>3, <2>5
<1>5. ASSUME NEW n \in 0..(N - 1), n \in Good PROVE n + 1 \in Good
  <2>1. n + 1 \in 1..N /\ n + 1 \in 0..N /\ (n + 1) - 1 = n /\ n + 1 \notin 1..n
        /\ 1..(n + 1) = (1..n) \cup {n + 1} /\ 1..n \subseteq 1..N
    OBVIOUS
  <2>2. PICK change : change = obs.changes[n + 1]
    OBVIOUS
  <2>3. f[n + 1] = Change(f[n], change)
    BY <2>1, <2>2 DEF Steps
  <2>4. change.sub \in Components \ subs(n)
    BY <1>3, <2>1, <2>2
  <2>5. subs(n + 1) = subs(n) \cup {change.sub}
    BY <2>1, <2>2
  <2>6. \A c \in Components : Shown(Past, c, states[c], openSince[c])
    BY <1>2 DEF FaultOf
  <2>7. Watching(f[n], subs(n))
    BY <1>5
  <2>8. Watching(Change(f[n], change), subs(n) \cup {change.sub})
    <3> HIDE DEF subs
    <3> QED BY <1>1, <2>4, <2>6, <2>7, ChangeWatched
  <2> QED BY <2>1, <2>3, <2>5, <2>8
<1>6. \A n \in 0..N : n \in Good
  <2> HIDE DEF Good
  <2> QED BY <1>4, <1>5, Induction
<1>7. N \in 0..N
  OBVIOUS
<1> QED BY <1>6, <1>7

\* What an observation makes of the state of the components and of their faults.
LEMMA FaultProcess ==
  ASSUME SchedInv, TeleInv, ListInv, FaultInv, ProcessObservation
  PROVE  FaultInv'
<1>1. /\ UNCHANGED <<clock, sent, batch>> /\ pc = "scheduled" /\ pc' = "observed"
      /\ obs \in Observations /\ IsSequence(active) /\ IsSequence(log)
  BY DEF ProcessObservation, tele, ListInv, SchedInv, ActiveInv, MissionInv
<1>2. Past' = Past
  BY <1>1 DEF Past, History
<1>3. PICK f, N :
        /\ N \in Nat /\ N = Len(obs.changes) /\ Steps(f, obs.changes)
        /\ states' = f[N].states /\ openSince' = f[N].open
        /\ log' = log \o (f[N].said \o IF runState' = runState THEN <<>> ELSE <<Lifecycle(runState')>>)
  BY <1>1, ObservationMakes DEF ListInv
<1>4. PICK subs : Watching(f[N], subs)
  BY <1>1, <1>3, ChangesWatched
<1>5. PICK m, tail : /\ m = f[N] /\ IsSequence(tail) /\ \A k \in DOMAIN tail : tail[k].kind = "lifecycle"
                     /\ log' = log \o (m.said \o tail)
  <2>1. PICK e : e = Lifecycle(runState') /\ e.kind = "lifecycle"
    <3>1. Lifecycle(runState').kind = "lifecycle"
      BY DEF Lifecycle
    <3> QED BY <3>1
  <2>2. PICK tail : tail = IF runState' = runState THEN <<>> ELSE <<e>>
    OBVIOUS
  <2>3. IsSequence(tail) /\ \A k \in DOMAIN tail : tail[k] = e
    <3>1. DOMAIN <<>> = {}
      OBVIOUS
    <3> QED BY <2>2, <3>1, EmptySequence, OneEntry
  <2> QED BY <1>3, <2>1, <2>2, <2>3
<1>6. Watching(m, subs) /\ IsSequence(m.said)
  BY <1>4, <1>5 DEF Watching
<1>7. PICK more : more = m.said \o tail /\ IsSequence(more)
                  /\ Range(more) = Range(m.said) \cup Range(tail)
  BY <1>5, <1>6, ConcatSequence, ConcatRange
<1>8. \A k \in DOMAIN more : more[k].kind = "recovery" => more[k].t = clock /\ Timed(Past, more[k])
  <2>1. \A e \in Range(m.said) : e.kind = "recovery" => e.t = clock /\ Timed(Past, e)
    BY <1>6 DEF Watching, Range
  <2>2. \A e \in Range(tail) : e.kind # "recovery"
    BY <1>5 DEF Range
  <2>3. \A k \in DOMAIN more : more[k] \in Range(m.said) \cup Range(tail)
    BY <1>7 DEF Range
  <2> QED BY <2>1, <2>2, <2>3
<1>9. clock \in Nat
  BY DEF SchedInv, MissionInv
<1>10. ASSUME NEW i \in Entries("recovery")'
       PROVE  log'[i].t \in Nat /\ log'[i].t <= clock /\ Timed(Past, log'[i])
  <2>1. \/ i \in DOMAIN log /\ log'[i] = log[i]
        \/ \E k \in DOMAIN more : log'[i] = more[k]
    BY <1>1, <1>5, <1>7, LogGrows DEF Entries
  <2>2. CASE i \in DOMAIN log /\ log'[i] = log[i]
    BY <1>1, <1>10, <2>2 DEF Entries, FaultInv, Live, Mission, InTry
  <2>3. CASE \E k \in DOMAIN more : log'[i] = more[k]
    BY <1>8, <1>9, <1>10, <2>3 DEF Entries
  <2> QED BY <2>1, <2>2, <2>3
<1>11. DOMAIN states' = Components /\ DOMAIN openSince' = Components
  BY <1>3, <1>5, <1>6 DEF Watching
<1>12. \A c \in Components : FaultOf(c)'
  BY <1>1, <1>2, <1>3, <1>5, <1>6 DEF FaultOf, Watching
<1> QED BY <1>1, <1>2, <1>10, <1>11, <1>12 DEF FaultInv

\* What is said of injections and verdicts is nothing of the state of the run, and nothing
\* of changes.
LEMMA ActsSame ==
  ASSUME ListsInv, Acts, NEW kind \in {"lifecycle", "effect", "recovery"}
  PROVE  Same(kind)
<1>1. PICK more :
        /\ IsSequence(more) /\ log' = log \o more
        /\ \A k \in DOMAIN more : more[k].kind \notin {"lifecycle", "finished", "effect", "recovery"}
  BY DEF Acts
<1>2. \A k \in DOMAIN more : more[k].kind # kind
  BY <1>1
<1> QED BY <1>1, <1>2, Unnoted DEF ListsInv

\* An announcement is nothing else.
LEMMA AnnouncesOnly ==
  ASSUME ListsInv, NEW state, log' = log \o <<Lifecycle(state)>>, NEW kind, kind # "lifecycle"
  PROVE  Same(kind)
<1>1. PICK e : e = Lifecycle(state) /\ e.kind = "lifecycle"
  <2>1. Lifecycle(state).kind = "lifecycle"
    BY DEF Lifecycle
  <2> QED BY <2>1
<1>2. PICK more : more = <<e>> /\ IsSequence(more) /\ \A k \in DOMAIN more : more[k] = e
  BY OneEntry
<1>3. \A k \in DOMAIN more : more[k].kind # kind
  BY <1>1, <1>2
<1> QED BY <1>1, <1>2, <1>3, Unnoted DEF ListsInv

\* One sample more: what is known is in it.
LEMMA FaultFinishSample ==
  ASSUME SchedInv, TeleInv, ListsInv, FaultInv, FinishSample
  PROVE  FaultInv'
<1>1. /\ UNCHANGED <<clock, states, openSince>> /\ pc = "observed" /\ pc' \in {"leaving", "waiting"}
      /\ clock \in Nat
  BY DEF FinishSample, SchedInv, MissionInv
<1>2. Same("recovery")
  BY FinishActs, ActsSame
<1>3. PICK x : x = Sample /\ x.t = clock /\ x.health = states
  <2>1. Sample.t = clock /\ Sample.health = states
    BY DEF Sample
  <2> QED BY <2>1
<1>4. Past' = Past \cup {x}
  BY <1>3, SampleTaken
<1>5. \A h \in Past : h.t \in Nat /\ h.t < clock
  BY <1>1, TakenEarlier DEF Past, Sampling
<1>6. /\ \A c \in Components : FaultOf(c)
      /\ \A i \in Entries("recovery") : log[i].t \in Nat /\ log[i].t <= clock /\ Timed(Past, log[i])
  BY <1>1 DEF FaultInv, Live, Mission, InTry
<1>7. ASSUME NEW c \in Components
      PROVE  StillOpen(Past', clock, c, states[c], openSince[c]) /\ Shown(Past', c, states[c], openSince[c])
  <2>1. PICK state, since : state = states[c] /\ since = openSince[c]
    OBVIOUS
  <2>2. StillOpen(Past, clock, c, state, since)
    BY <1>6, <2>1 DEF FaultOf
  <2>3. CASE state \in Healthy
    <3>1. EndsWell(Past', c)
      BY <1>3, <1>4, <1>5, <1>1, <2>1, <2>3 DEF EndsWell
    <3> QED BY <2>1, <2>2, <2>3, <3>1 DEF StillOpen, Shown
  <2>4. CASE state \notin Healthy /\ since = None
    BY <1>3, <1>4, <2>1, <2>2, <2>4 DEF StillOpen, Shown, Well
  <2>5. CASE state \notin Healthy /\ since # None
    <3>1. since \in Nat /\ since <= clock /\ Began(Past, c, since) /\ (since = clock \/ \E h \in Past : h.t = since)
      BY <2>2, <2>5 DEF StillOpen
    <3>2. Began(Past', c, since)
      BY <1>1, <1>3, <1>4, <1>5, <2>1, <2>5, <3>1, BeganOn
    <3>3. \E h \in Past' : h.t = since
      BY <1>3, <1>4, <3>1
    <3> QED BY <2>1, <2>5, <3>1, <3>2, <3>3 DEF StillOpen, Shown
  <2> QED BY <2>3, <2>4, <2>5
<1>8. ASSUME NEW i \in Entries("recovery")'
      PROVE  log'[i].t \in Nat /\ log'[i].t <= clock /\ Timed(Past', log'[i])
  <2>1. PICK r : r = log[i] /\ r = log'[i] /\ r.t \in Nat /\ r.t <= clock /\ Timed(Past, r)
    BY <1>2, <1>6 DEF Same
  <2>2. \A h \in Past' : h \in Past \/ ~(h.t < r.t)
    BY <1>1, <1>3, <1>4, <2>1
  <2>3. Timed(Past', r)
    BY <1>4, <2>1, <2>2, TimedOn
  <2> QED BY <2>1, <2>3
<1> QED BY <1>1, <1>7, <1>8 DEF FaultInv, FaultOf

\* The health of the target once it is prepared: of what is not healthy it is not known
\* since when.
LEMMA FaultPrepared ==
  ASSUME SchedInv, TeleInv, JudgeInv, FaultInv, Prepared
  PROVE  FaultInv'
<1>1. /\ states' = InitialHealth /\ UNCHANGED <<openSince, log, clock, sent, batch>>
      /\ pc = "preparing" /\ pc' = "prepared"
  BY DEF Prepared, tele
<1>2. DOMAIN InitialHealth = Components
  BY EngineAssumption
<1>3. Past = {} /\ Past' = {}
  <2>1. sent = <<>> /\ batch = <<>>
    BY <1>1 DEF JudgeInv, Live, Mission, InTry, Starting, TeleInv
  <2>2. <<>> \o <<>> = <<>> /\ Range(<<>>) = {}
    BY DEF Range
  <2> QED BY <1>1, <2>1, <2>2 DEF Past, History
<1>4. \A c \in Components : openSince[c] = None
  BY <1>1 DEF FaultInv, Live, Mission, InTry
<1>5. \A c \in Components : FaultOf(c)'
  BY <1>1, <1>3, <1>4 DEF FaultOf, StillOpen, Shown, Well, EndsWell
<1>6. \A i \in Entries("recovery") : log[i].t \in Nat /\ log[i].t <= clock /\ Timed(Past, log[i])
  BY <1>1 DEF FaultInv, Live, Mission, InTry
<1> QED BY <1>1, <1>2, <1>3, <1>5, <1>6 DEF FaultInv, Entries

\* A step that changes nothing of what is known, takes no sample and tells of no recovery.
LEMMA FaultCalm ==
  ASSUME FaultInv, UNCHANGED <<states, openSince>>,
         Live' => /\ Live /\ Past' = Past /\ Same("recovery")
                  /\ clock \in Nat /\ clock' \in Nat /\ clock <= clock'
                  /\ pc' \in {"accepted", "preparing"} <=> pc \in {"accepted", "preparing"}
                  /\ pc' = "observed" <=> pc = "observed"
                  /\ pc = "observed" => clock' = clock
  PROVE  FaultInv'
<1> SUFFICES ASSUME Live'
             PROVE  /\ pc' \in {"accepted", "preparing"} => \A c \in Components : openSince'[c] = None
                    /\ pc' \notin {"accepted", "preparing"} => \A c \in Components : FaultOf(c)'
                    /\ \A i \in Entries("recovery")' :
                         log'[i].t \in Nat /\ log'[i].t <= clock' /\ Timed(Past', log'[i])
  BY DEF FaultInv
<1>1. /\ pc \in {"accepted", "preparing"} => \A c \in Components : openSince[c] = None
      /\ pc \notin {"accepted", "preparing"} => \A c \in Components : FaultOf(c)
      /\ \A i \in Entries("recovery") :
           log[i].t \in Nat /\ log[i].t <= clock /\ Timed(Past, log[i])
  BY DEF FaultInv
<1>2. ASSUME NEW c \in Components, FaultOf(c) PROVE FaultOf(c)'
  <2>1. PICK state, since : state = states[c] /\ since = openSince[c]
    OBVIOUS
  <2>2. StillOpen(Past, clock, c, state, since) /\ (pc # "observed" => Shown(Past, c, state, since))
    BY <1>2, <2>1 DEF FaultOf
  <2>3. StillOpen(Past, clock', c, state, since)
    BY <2>2 DEF StillOpen, Shown
  <2> QED BY <2>1, <2>2, <2>3 DEF FaultOf
<1>3. ASSUME NEW i \in Entries("recovery")'
      PROVE  log'[i].t \in Nat /\ log'[i].t <= clock' /\ Timed(Past', log'[i])
  <2>1. PICK r : r = log[i] /\ r = log'[i] /\ r.t \in Nat /\ r.t <= clock /\ Timed(Past, r)
    BY <1>1, <1>3 DEF Same
  <2>2. r.t <= clock'
    BY <2>1
  <2> QED BY <2>1, <2>2
<1> QED BY <1>1, <1>2, <1>3

\* The end of the mission: the last samples are sent.
LEMMA FaultLeave ==
  ASSUME SchedInv, TeleInv, ListsInv, FaultInv, Leave
  PROVE  FaultInv'
<1>1. /\ UNCHANGED <<states, openSince, clock, exc>> /\ pc = "leaving" /\ pc' = "final"
      /\ sent' = sent \o batch /\ batch' = <<>>
  BY DEF Leave, ending
<1>2. Same("recovery")
  BY LeaveActs, ActsSame
<1>3. Past' = Past
  <2>1. IsSequence(sent \o batch)
    BY ConcatSequence DEF TeleInv, TeleType
  <2>2. (sent \o batch) \o <<>> = sent \o batch
    BY <2>1 DEF IsSequence
  <2> QED BY <1>1, <2>2 DEF Past, History
<1>4. clock \in Nat
  BY DEF SchedInv, MissionInv
<1> QED BY <1>1, <1>2, <1>3, <1>4, FaultCalm DEF Live, Mission, InTry

\* The steps that have nothing to do with what is known.
LEMMA FaultMove ==
  ASSUME SchedInv, ListsInv, FaultInv, [Next]_vars,
         ~Prepared, ~ProcessObservation, ~FinishSample, ~Leave
  PROVE  FaultInv'
<1> USE DEF Live, Mission, InTry
<1>1. clock \in Nat /\ clock <= clock
  BY DEF SchedInv, MissionInv
<1>2. (pc = "raised" => exc # None) /\ (pc \in Mission => exc = None)
  BY DEF SchedInv, MissionInv
<1>3. UNCHANGED <<sent, batch>> => Past' = Past
  BY DEF Past, History
<1>4. log' = log => Same("recovery")
  BY DEF Same, Entries
<1>5. CASE Prepare
  <2>1. Same("recovery")
    BY <1>5, AnnouncesOnly DEF Prepare, Say
  <2>2. Live' => pc' = "preparing"
    <3>1. None # "unsupported"
      BY EngineAssumption
    <3> QED BY <1>5, <3>1 DEF Prepare
  <2> QED BY <1>1, <1>3, <1>5, <2>1, <2>2, FaultCalm DEF Prepare, watch, tele
<1>6. CASE StartMission
  <2>1. Same("recovery")
    BY <1>6, AnnouncesOnly DEF StartMission, Say
  <2> QED BY <1>1, <1>3, <1>6, <2>1, FaultCalm DEF StartMission, mission, watch, tele
<1>7. CASE Inject \/ ClearDue
  <2>1. Same("recovery")
    BY <1>7, InjectActs, ClearActs, ActsSame
  <2> QED BY <1>1, <1>3, <1>7, <2>1, FaultCalm DEF Inject, ClearDue, watch, tele
<1>8. CASE Observe
  <2>1. clock' \in Nat /\ clock <= clock'
    <3>1. clock' = clock \/ \E o \in Observations : clock' = clock + o.step
      BY <1>8 DEF Observe
    <3>2. \A o \in Observations : o.step \in Nat
      BY EngineAssumption
    <3> QED BY <3>1, <3>2, <1>1
  <2> QED BY <1>1, <1>3, <1>4, <1>8, <2>1, FaultCalm DEF Observe, watch, tele
<1>9. CASE Cancel \/ UNCHANGED vars
  <2>1. UNCHANGED <<states, openSince, clock, sent, batch, log, exc>>
    BY <1>9 DEF Cancel, vars, mission, watch, tele, ending
  <2>2. pc' = pc
    BY <1>9 DEF Cancel, vars
  <2> QED BY <1>1, <1>3, <1>4, <2>1, <2>2, FaultCalm
<1>10. CASE PreparationCancelled \/ TargetFails \/ SinkFails \/ Handle \/ Collect \/ CollectArtifacts
              \/ Stop \/ Pop \/ Finish \/ PublishArtifactFails
  <2>1. ~Live'
    BY <1>10, <1>2, EngineAssumption
       DEF PreparationCancelled, TargetFails, SinkFails, Handle, Collect, CollectArtifacts, Stop, Pop,
           Finish, PublishArtifactFails
  <2>2. UNCHANGED <<states, openSince>>
    BY <1>10 DEF PreparationCancelled, TargetFails, SinkFails, Handle, Collect, CollectArtifacts,
         Stop, Pop, Finish, PublishArtifactFails, mission, watch
  <2> QED BY <2>1, <2>2, FaultCalm
<1> QED BY <1>5, <1>6, <1>7, <1>8, <1>9, <1>10 DEF Next, Step

LEMMA FaultInit ==
  ASSUME Init
  PROVE  FaultInv
<1>1. /\ states = [c \in Components |-> "UNKNOWN"] /\ openSince = [c \in Components |-> None]
      /\ pc = "accepted" /\ log = <<>>
  BY DEF Init
<1>2. Entries("recovery") = {}
  BY <1>1 DEF Entries
<1> QED BY <1>1, <1>2 DEF FaultInv

\* Every step keeps it.
LEMMA FaultNext ==
  ASSUME SchedInv, TeleInv, ListInv, ListsInv, JudgeInv, FaultInv, [Next]_vars
  PROVE  FaultInv'
<1>1. CASE Prepared
  BY <1>1, FaultPrepared
<1>2. CASE ProcessObservation
  BY <1>2, FaultProcess
<1>3. CASE FinishSample
  BY <1>3, FaultFinishSample
<1>4. CASE Leave
  BY <1>4, FaultLeave
<1>5. CASE ~Prepared /\ ~ProcessObservation /\ ~FinishSample /\ ~Leave
  BY <1>5, FaultMove
<1> QED BY <1>1, <1>2, <1>3, <1>4, <1>5

\* The invariant says all that is claimed of the durations.
LEMMA FaultEnough ==
  ASSUME TeleInv, FaultInv
  PROVE  FaultsAreTimed
<1> SUFFICES ASSUME Settled, NEW i \in Entries("recovery")
             PROVE  LET r      == log[i]
                        before == {h \in Range(History) : h.t < r.t}
                        whole  == {h \in before : \A g \in before : h.t <= g.t => g.health[r.sub] \notin Healthy}
                    IN  InitialHealth[r.sub] \in Healthy \/ (\E h \in before : h.health[r.sub] \in Healthy) =>
                          r.took = r.t - (CHOOSE t \in {h.t : h \in whole} : \A h \in whole : t <= h.t)
  BY DEF FaultsAreTimed
<1>1. PICK r : r = log[i]
  OBVIOUS
<1>2. Live
  BY DEF Settled, Live, Mission, InTry
<1>3. Timed(Past, r)
  BY <1>1, <1>2 DEF FaultInv
<1>4. \A h \in Past : h.t \in Nat
  BY TakenEarlier DEF Past
<1>5. PICK before, whole : before = Before(Past, r.t) /\ whole = Whole(before, r.sub)
  OBVIOUS
<1>6. ASSUME Well(before, r.sub)
      PROVE  r.took = r.t - (CHOOSE t \in {h.t : h \in whole} : \A h \in whole : t <= h.t)
  <2>1. PICK o \in whole : r.took = r.t - o.t /\ \A h \in whole : o.t <= h.t
    BY <1>3, <1>4, <1>5, <1>6, TimedTells
  <2>2. \A h \in whole : h.t \in Nat
    BY <1>4, <1>5 DEF Before, Whole
  <2>3. \A t \in {h.t : h \in whole} : (\A h \in whole : t <= h.t) => t = o.t
    BY <2>1, <2>2
  <2>4. o.t \in {h.t : h \in whole}
    OBVIOUS
  <2>5. (CHOOSE t \in {h.t : h \in whole} : \A h \in whole : t <= h.t) = o.t
    BY <2>1, <2>3, <2>4
  <2> QED BY <2>1, <2>5
<1>7. /\ before = {h \in Past : h.t < r.t}
      /\ whole = {h \in before : \A g \in before : h.t <= g.t => g.health[r.sub] \notin Healthy}
  BY <1>5 DEF Before, Whole
<1>8. Well(before, r.sub) <=>
        InitialHealth[r.sub] \in Healthy \/ (\E h \in before : h.health[r.sub] \in Healthy)
  BY DEF Well
<1> QED BY <1>1, <1>6, <1>7, <1>8 DEF Past

-----------------------------------------------------------------------------
(* Whether the run is recovering. *)

\* The run state announced last.
LastTold(state) ==
  \E i \in Entries("lifecycle") : log[i].state = state /\ \A j \in Entries("lifecycle") : j <= i

\* It is the one that goes with the components, once an observation was made something of.
TellInv ==
  /\ pc \in Starting => samples = 0
  /\ pc \in Mission \ {"accepted"} => LastTold(runState)
  /\ (pc \in {"waiting", "scheduled"} /\ samples > 0) \/ pc = "observed" =>
       (runState = "RECOVERING" <=> \E c \in Components : states[c] = "RECOVERING")

\* What is announced last is told last.
LEMMA ToldLast ==
  ASSUME IsSequence(log), NEW more, IsSequence(more), log' = log \o more,
         NEW n \in DOMAIN more, \A k \in DOMAIN more : k <= n,
         NEW state, more[n].kind = "lifecycle", more[n].state = state
  PROVE  LastTold(state)'
<1>1. PICK L : L = Len(log) /\ L \in Nat /\ DOMAIN log = 1..L
  <2>1. Len(log) \in Nat /\ DOMAIN log = 1..Len(log)
    BY DEF IsSequence
  <2> QED BY <2>1
<1>2. DOMAIN more \subseteq Nat
  BY DEF IsSequence
<1>3. L + n \in DOMAIN log' /\ log'[L + n] = more[n]
  BY <1>1, LogGrows
<1>4. ASSUME NEW j \in DOMAIN log' PROVE j <= L + n
  <2>1. j \in DOMAIN log \/ \E k \in DOMAIN more : j = L + k
    BY <1>1, LogGrows
  <2>2. CASE j \in DOMAIN log
    BY <1>1, <1>2, <2>2
  <2>3. CASE \E k \in DOMAIN more : j = L + k
    BY <1>1, <1>2, <2>3
  <2> QED BY <2>1, <2>2, <2>3
<1> QED BY <1>3, <1>4 DEF LastTold, Entries

\* A single announcement is.
LEMMA AnnouncedLast ==
  ASSUME IsSequence(log), NEW state, log' = log \o <<Lifecycle(state)>>
  PROVE  LastTold(state)'
<1>1. Lifecycle(state).kind = "lifecycle" /\ Lifecycle(state).state = state
  BY DEF Lifecycle
<1>2. PICK e : e = Lifecycle(state) /\ e.kind = "lifecycle" /\ e.state = state
  BY <1>1
<1>3. PICK more : more = <<e>> /\ IsSequence(more) /\ DOMAIN more = {1} /\ \A k \in DOMAIN more : more[k] = e
  BY OneEntry
<1>4. 1 \in DOMAIN more /\ (\A k \in DOMAIN more : k <= 1) /\ more[1] = e
  BY <1>3
<1> QED BY <1>2, <1>3, <1>4, ToldLast

\* And it goes on being, as long as nothing is announced.
LEMMA ToldSameLast ==
  ASSUME Same("lifecycle"), NEW state, LastTold(state)
  PROVE  LastTold(state)'
BY DEF Same, LastTold

\* An observation: the run state that goes with what is known.
LEMMA TellProcess ==
  ASSUME ListsInv, StageInv, TellInv, ProcessObservation
  PROVE  TellInv'
<1>1. /\ pc = "scheduled" /\ pc' = "observed" /\ runState' = RunStateOf(states')
      /\ IsSequence(log) /\ runState \in {"RUNNING", "RECOVERING"} /\ LastTold(runState)
  BY DEF ProcessObservation, ListsInv, StageInv, TellInv, Mission, InTry
<1>2. runState' = "RECOVERING" <=> \E c \in Components : states'[c] = "RECOVERING"
  BY <1>1 DEF RunStateOf
<1>3. PICK said : /\ IsSequence(said)
                  /\ \A k \in DOMAIN said : said[k].kind \notin {"lifecycle", "finished"}
                  /\ log' = log \o (said \o IF runState' = runState THEN <<>> ELSE <<Lifecycle(runState')>>)
  BY ObservationSays
<1>4. LastTold(runState)'
  <2>1. CASE runState' = runState
    <3>1. said \o <<>> = said
      BY <1>3 DEF IsSequence
    <3>2. log' = log \o said
      BY <1>3, <2>1, <3>1
    <3>3. Same("lifecycle")
      <4>1. \A k \in DOMAIN said : said[k].kind # "lifecycle"
        BY <1>3
      <4> QED BY <1>1, <1>3, <3>2, <4>1, Unnoted
    <3>4. PICK state : state = runState
      OBVIOUS
    <3>5. LastTold(state)'
      BY <1>1, <3>3, <3>4, ToldSameLast
    <3> QED BY <2>1, <3>4, <3>5 DEF LastTold
  <2>2. CASE runState' # runState
    <3>1. Lifecycle(runState').kind = "lifecycle" /\ Lifecycle(runState').state = runState'
      BY DEF Lifecycle
    <3>2. PICK e, state : e = Lifecycle(runState') /\ state = runState' /\ e.kind = "lifecycle" /\ e.state = state
      BY <3>1
    <3>3. PICK tail : tail = <<e>> /\ IsSequence(tail) /\ DOMAIN tail = {1} /\ tail[1] = e
      <4>1. IsSequence(<<e>>) /\ DOMAIN <<e>> = {1} /\ \A k \in DOMAIN <<e>> : <<e>>[k] = e
        BY OneEntry
      <4> QED BY <4>1
    <3>4. Len(tail) = 1
      BY <3>3
    <3>5. PICK more : more = said \o tail
      OBVIOUS
    <3>6. /\ IsSequence(more) /\ Len(said) \in Nat /\ Len(more) = Len(said) + 1
          /\ more[Len(said) + 1] = e
      BY <1>3, <3>3, <3>4, <3>5, ConcatSequence
    <3>7. DOMAIN more = 1..(Len(said) + 1)
      BY <3>6 DEF IsSequence
    <3>8. log' = log \o more
      BY <1>3, <2>2, <3>2, <3>3, <3>5
    <3>9. LastTold(state)'
      <4>1. PICK n \in DOMAIN more : n = Len(said) + 1 /\ \A k \in DOMAIN more : k <= n
        BY <3>6, <3>7
      <4> QED BY <1>1, <3>2, <3>6, <3>8, <4>1, ToldLast
    <3> QED BY <3>2, <3>9 DEF LastTold
  <2> QED BY <2>1, <2>2
<1> QED BY <1>1, <1>2, <1>4 DEF TellInv, Starting

\* Every step keeps it.
LEMMA TellNext ==
  ASSUME TeleInv, ListsInv, StageInv, TellInv, [Next]_vars
  PROVE  TellInv'
<1> USE DEF Starting, Mission, InTry
<1>0. IsSequence(log) /\ samples \in Nat
  BY DEF ListsInv, TeleInv, TeleType
<1>1. CASE Prepare
  <2>1. runState' = "PREPARING" /\ UNCHANGED samples /\ pc' \in {"preparing", "raised"} /\ pc = "accepted"
        /\ log' = log \o <<Lifecycle("PREPARING")>>
    BY <1>1 DEF Prepare, tele, Say
  <2>2. LastTold("PREPARING")'
    BY <1>0, <2>1, AnnouncedLast
  <2> QED BY <2>1, <2>2 DEF TellInv
<1>2. CASE StartMission
  <2>1. runState' = "RUNNING" /\ UNCHANGED samples /\ pc' = "waiting" /\ pc = "prepared"
        /\ log' = log \o <<Lifecycle("RUNNING")>>
    BY <1>2 DEF StartMission, mission, tele, Say
  <2>2. LastTold("RUNNING")'
    BY <1>0, <2>1, AnnouncedLast
  <2> QED BY <2>1, <2>2 DEF TellInv
<1>3. CASE ProcessObservation
  BY <1>3, TellProcess
<1>4. ASSUME Same("lifecycle"), runState' = runState,
             pc' \in Mission => pc \in Mission \ {"accepted"} \/ (pc = "accepted" /\ pc' = "accepted"),
             pc' \in Starting => pc \in Starting /\ samples' = samples,
             (pc' \in {"waiting", "scheduled"} /\ samples' > 0) \/ pc' = "observed" =>
               states' = states /\ ((pc \in {"waiting", "scheduled"} /\ samples > 0) \/ pc = "observed")
      PROVE  TellInv'
  <2>1. ASSUME pc' \in Mission \ {"accepted"} PROVE LastTold(runState)'
    <3>1. PICK state : state = runState /\ LastTold(state)
      BY <1>4, <2>1 DEF TellInv
    <3>2. LastTold(state)'
      BY <1>4, <3>1, ToldSameLast
    <3> QED BY <1>4, <3>1, <3>2 DEF LastTold
  <2> QED BY <1>4, <2>1 DEF TellInv
<1>5. CASE Inject \/ ClearDue \/ FinishSample \/ Leave
  <2>1. Same("lifecycle")
    BY <1>5, InjectActs, ClearActs, FinishActs, LeaveActs, ActsSame
  <2>2. CASE Inject \/ ClearDue
    <3>1. UNCHANGED <<pc, states, samples, runState>>
      BY <2>2 DEF Inject, ClearDue, watch, tele
    <3> QED BY <1>4, <2>1, <3>1
  <2>4. CASE Leave
    <3>1. runState' = runState /\ pc = "leaving" /\ pc' = "final"
      BY <2>4 DEF Leave
    <3> QED BY <1>4, <2>1, <3>1
  <2>3. CASE FinishSample
    <3>1. /\ UNCHANGED <<states, runState>> /\ pc = "observed" /\ pc' \in {"leaving", "waiting"}
      BY <2>3 DEF FinishSample
    <3> QED BY <1>4, <2>1, <3>1
  <2> QED BY <1>5, <2>2, <2>3, <2>4
<1>6. log' = log => Same("lifecycle")
  BY DEF Same, Entries
<1>7. CASE Prepared
  BY <1>4, <1>6, <1>7 DEF Prepared, tele
<1>8. CASE Observe
  BY <1>4, <1>6, <1>8 DEF Observe, watch, tele
<1>9. CASE Cancel \/ UNCHANGED vars
  <2>1. UNCHANGED <<pc, states, samples, log, runState>>
    BY <1>9 DEF Cancel, vars, mission, watch, tele
  <2> QED BY <1>4, <1>6, <2>1
<1>10. CASE PreparationCancelled \/ TargetFails \/ SinkFails \/ Handle \/ Collect \/ CollectArtifacts
              \/ Stop \/ Pop \/ Finish \/ PublishArtifactFails
  <2>1. pc' \notin Mission
    BY <1>10 DEF PreparationCancelled, TargetFails, SinkFails, Handle, Collect, CollectArtifacts,
         Stop, Pop, Finish, PublishArtifactFails
  <2> QED BY <2>1 DEF TellInv
<1> QED BY <1>1, <1>2, <1>3, <1>5, <1>7, <1>8, <1>9, <1>10 DEF Next, Step

LEMMA TellInit == Init => TellInv
BY DEF Init, TellInv, Starting, Mission, InTry

\* The invariant says all that is claimed of it.
LEMMA TellEnough ==
  ASSUME ListsInv, TellInv
  PROVE  RecoveringIsTold
<1> SUFFICES ASSUME pc = "waiting", samples > 0
             PROVE  (log[Max(Entries("lifecycle"))].state = "RECOVERING")
                      <=> \E c \in Components : states[c] = "RECOVERING"
  BY DEF RecoveringIsTold
<1>1. PICK i \in Entries("lifecycle") :
        log[i].state = runState /\ \A j \in Entries("lifecycle") : j <= i
  BY DEF TellInv, LastTold, Mission, InTry
<1>2. Entries("lifecycle") \subseteq Nat
  BY DEF ListsInv, IsSequence, Entries
<1>3. Max(Entries("lifecycle")) = i
  <2>1. PICK T : T = Entries("lifecycle")
    OBVIOUS
  <2>2. \A x \in T : (\A y \in T : x >= y) => x = i
    BY <1>1, <1>2, <2>1
  <2>3. i \in T /\ \A y \in T : i >= y
    BY <1>1, <1>2, <2>1
  <2>4. Max(T) = i
    BY <2>2, <2>3 DEF Max
  <2> QED BY <2>1, <2>4
<1> QED BY <1>1, <1>3 DEF TellInv

-----------------------------------------------------------------------------
(* What the changes of components are attributed to. *)

\* An entry of the log does not end an injection: it is not cleared, nor does the component
\* recover that it was to recover by itself.
Spares(s, id, e) ==
  /\ ~(e.kind = "cleared" /\ e.id = id)
  /\ EventIn(s, id).effect \in TRANSIENT_EFFECTS =>
       ~(e.kind = "recovery" /\ e.sub = EventIn(s, id).sub)

\* The injection applied at one place of a log was not over before another.
Stands(s, q, j, i) ==
  /\ j \in DOMAIN q /\ q[j].kind = "applied" /\ j < i
  /\ \A k \in j..(i - 1) : Spares(s, q[j].id, q[k])

\* What is said at a place of a log is attributed to an injection that was not over.
Caused(s, q, i) ==
  q[i].kind \in {"effect", "recovery"} /\ q[i].cause # None =>
    \E j \in DOMAIN q : q[j].id = q[i].cause /\ Stands(s, q, j, i)

\* So it is with all of the log; and what is active is not over.
CauseInv ==
  /\ \A i \in DOMAIN log : Caused(scenario, log, i)
  /\ pc \in Mission =>
       \A r \in Range(active) :
         \E j \in DOMAIN log : log[j].id = r.id /\ Stands(scenario, log, j, Len(log) + 1)

\* The adapter leaves it to the engine to say what a change is caused by.
AttributionLeft == \A o \in Observations : \A c \in Range(o.changes) : c.cause = None

\* What is said later changes nothing of that.
LEMMA CausedOn ==
  ASSUME NEW s, NEW q, IsSequence(q), NEW more, IsSequence(more),
         NEW i \in DOMAIN q, Caused(s, q, i)
  PROVE  Caused(s, q \o more, i)
<1>1. PICK r : r = q \o more
  OBVIOUS
<1>2. /\ DOMAIN q = 1..Len(q) /\ Len(q) \in Nat /\ \A k \in DOMAIN q : k \in DOMAIN r /\ r[k] = q[k]
  <2>1. /\ DOMAIN q = 1..Len(q) /\ DOMAIN r = 1..Len(r) /\ Len(q) \in Nat /\ Len(more) \in Nat
        /\ Len(r) = Len(q) + Len(more) /\ \A k \in 1..Len(q) : r[k] = q[k]
    BY <1>1, ConcatSequence DEF IsSequence
  <2> QED BY <2>1
<1>3. ASSUME NEW j \in DOMAIN q, Stands(s, q, j, i) PROVE Stands(s, r, j, i)
  <2>1. \A k \in j..(i - 1) : k \in DOMAIN q
    BY <1>2
  <2> QED BY <1>2, <1>3, <2>1 DEF Stands
<1>4. Caused(s, r, i)
  BY <1>2, <1>3 DEF Caused
<1> QED BY <1>1, <1>4

\* An injection that is not over stands as long as nothing ends it.
LEMMA StandsOn ==
  ASSUME NEW s, NEW q, IsSequence(q), NEW more, IsSequence(more),
         NEW j, Stands(s, q, j, Len(q) + 1),
         NEW n \in 1..(Len(more) + 1), \A k \in 1..(n - 1) : Spares(s, q[j].id, more[k])
  PROVE  /\ j \in DOMAIN (q \o more) /\ (q \o more)[j].id = q[j].id
         /\ Stands(s, q \o more, j, Len(q) + n)
<1>1. PICK r : r = q \o more
  OBVIOUS
<1>2. /\ DOMAIN q = 1..Len(q) /\ DOMAIN r = 1..Len(r) /\ Len(q) \in Nat /\ Len(more) \in Nat
      /\ Len(r) = Len(q) + Len(more)
      /\ \A k \in 1..Len(q) : r[k] = q[k]
      /\ \A k \in 1..Len(more) : r[Len(q) + k] = more[k]
  BY <1>1, ConcatSequence DEF IsSequence
<1>3. /\ j \in 1..Len(q) /\ q[j].kind = "applied"
      /\ \A k \in j..Len(q) : Spares(s, q[j].id, q[k])
  BY <1>2 DEF Stands
<1>4. ASSUME NEW k \in j..(Len(q) + n - 1) PROVE Spares(s, q[j].id, r[k])
  <2>1. CASE k <= Len(q)
    <3>1. k \in j..Len(q) /\ k \in 1..Len(q)
      BY <1>2, <1>3, <1>4, <2>1
    <3> QED BY <1>2, <1>3, <3>1
  <2>2. CASE k > Len(q)
    <3>1. k - Len(q) \in 1..(n - 1) /\ k - Len(q) \in 1..Len(more) /\ k = Len(q) + (k - Len(q))
      BY <1>2, <1>3, <1>4, <2>2
    <3> QED BY <1>2, <3>1
  <2> QED BY <1>2, <1>3, <2>1, <2>2
<1>5. j \in DOMAIN r /\ r[j] = q[j] /\ j < Len(q) + n
  BY <1>2, <1>3
<1>6. Stands(s, r, j, Len(q) + n)
  <2>1. (Len(q) + n) - 1 = Len(q) + n - 1
    OBVIOUS
  <2> QED BY <1>3, <1>4, <1>5, <2>1 DEF Stands
<1> QED BY <1>1, <1>5, <1>6

\* A step that says nothing of changes.
LEMMA CauseCalm ==
  ASSUME CauseInv, IsSequence(log), ActiveInv', scenario' = scenario,
         NEW more, IsSequence(more), log' = log \o more,
         \A k \in DOMAIN more : more[k].kind \notin {"effect", "recovery"},
         pc' \in Mission =>
           /\ pc \in Mission
           /\ \A r \in Range(active') :
                r \in Range(active) \/ \E n \in DOMAIN more : more[n].kind = "applied" /\ more[n].id = r.id
  PROVE  CauseInv'
<1>1. /\ DOMAIN more = 1..Len(more) /\ Len(more) \in Nat /\ DOMAIN log' = 1..Len(log')
      /\ Len(log') = Len(log) + Len(more) /\ Len(log) \in Nat /\ DOMAIN log = 1..Len(log)
  BY ConcatSequence DEF IsSequence
<1>2. /\ \A k \in DOMAIN more : Len(log) + k \in DOMAIN log' /\ log'[Len(log) + k] = more[k]
      /\ \A i \in DOMAIN log' : i \in DOMAIN log \/ \E k \in DOMAIN more : i = Len(log) + k
  BY LogGrows
<1>3. ASSUME NEW i \in DOMAIN log' PROVE Caused(scenario, log', i)
  <2>1. CASE i \in DOMAIN log
    BY <2>1, CausedOn DEF CauseInv
  <2>2. CASE \E k \in DOMAIN more : i = Len(log) + k
    BY <1>2, <2>2 DEF Caused
  <2> QED BY <1>2, <2>1, <2>2
<1>4. ASSUME pc' \in Mission, NEW r \in Range(active')
      PROVE  \E j \in DOMAIN log' : log'[j].id = r.id /\ Stands(scenario, log', j, Len(log') + 1)
  <2>1. ASSUME NEW k \in DOMAIN more PROVE Spares(scenario, r.id, more[k])
    <3>1. \A i \in DOMAIN log' : ~(log'[i].kind = "cleared" /\ log'[i].id = r.id)
      BY <1>4 DEF ActiveInv, HasCleared, Entries
    <3> QED BY <1>2, <3>1 DEF Spares
  <2>2. CASE r \in Range(active)
    <3>1. PICK j \in DOMAIN log : log[j].id = r.id /\ Stands(scenario, log, j, Len(log) + 1)
      BY <1>4, <2>2 DEF CauseInv
    <3>2. PICK n : n = Len(more) + 1
      OBVIOUS
    <3>3. n \in 1..(Len(more) + 1) /\ \A k \in 1..(n - 1) : k \in DOMAIN more
      BY <1>1, <3>2
    <3>4. \A k \in 1..(n - 1) : Spares(scenario, log[j].id, more[k])
      BY <2>1, <3>1, <3>3
    <3>5. j \in DOMAIN log' /\ log'[j].id = log[j].id /\ Stands(scenario, log', j, Len(log) + n)
      BY <3>1, <3>3, <3>4, StandsOn
    <3>6. Len(log) + n = Len(log') + 1
      BY <1>1, <3>2
    <3> QED BY <3>1, <3>5, <3>6
  <2>3. CASE \E n \in DOMAIN more : more[n].kind = "applied" /\ more[n].id = r.id
    <3>1. PICK n \in DOMAIN more : more[n].kind = "applied" /\ more[n].id = r.id
      BY <2>3
    <3>2. PICK j : j = Len(log) + n
      OBVIOUS
    <3>3. j \in DOMAIN log' /\ log'[j] = more[n] /\ j < Len(log') + 1
      BY <1>1, <1>2, <3>2
    <3>4. ASSUME NEW k \in j..Len(log') PROVE Spares(scenario, r.id, log'[k])
      <4>1. k - Len(log) \in DOMAIN more /\ k = Len(log) + (k - Len(log))
        BY <1>1, <3>2, <3>4
      <4> QED BY <1>2, <2>1, <4>1
    <3>5. Stands(scenario, log', j, Len(log') + 1)
      <4>1. (Len(log') + 1) - 1 = Len(log')
        BY <1>1
      <4> QED BY <3>1, <3>3, <3>4, <4>1 DEF Stands
    <3> QED BY <3>1, <3>3, <3>5
  <2> QED BY <1>4, <2>2, <2>3
<1> QED BY <1>3, <1>4 DEF CauseInv

\* A cause is an active request, if there is one.
LEMMA CauseIsActive ==
  ASSUME NEW requests, IsSequence(requests), NEW sub, AttributeCause(requests, sub) # None
  PROVE  \E r \in Range(requests) : r.id = AttributeCause(requests, sub)
<1> DEFINE on(subs) == {i \in DOMAIN requests : requests[i].sub \in subs}
<1>1. ASSUME NEW subs, on(subs) # {}
      PROVE  Min(on(subs)) \in DOMAIN requests
  <2>1. PICK S : S = on(subs)
    OBVIOUS
  <2>2. S \in SUBSET Nat /\ S \subseteq DOMAIN requests
    BY <2>1 DEF IsSequence
  <2>3. PICK x \in S : TRUE
    BY <1>1, <2>1
  <2>4. PICK m \in S : \A k \in S : m <= k
    BY <2>2, <2>3, LeastNumber
  <2>5. Min(S) \in S
    BY <2>4 DEF Min
  <2> QED BY <2>1, <2>2, <2>5
<1>2. CASE on({sub}) # {}
  <2>1. AttributeCause(requests, sub) = requests[Min(on({sub}))].id
    BY <1>2 DEF AttributeCause
  <2> HIDE DEF on
  <2> QED BY <1>1, <1>2, <2>1 DEF Range
<1>3. CASE on({sub}) = {} /\ on(Upstream[sub]) # {}
  <2>1. AttributeCause(requests, sub) = requests[Min(on(Upstream[sub]))].id
    BY <1>3 DEF AttributeCause
  <2> HIDE DEF on
  <2> QED BY <1>1, <1>3, <2>1 DEF Range
<1>4. CASE on({sub}) = {} /\ on(Upstream[sub]) = {}
  BY <1>4 DEF AttributeCause
<1> QED BY <1>2, <1>3, <1>4

\* What the changes of an observation say is attributed to requests that were active and
\* that none of them had ended before; and what they leave active none of them has ended.
Attributed(m) ==
  /\ IsSequence(m.said) /\ IsSequence(m.active)
  /\ \A r \in Range(m.active) :
       r \in Range(active) /\ \A k \in DOMAIN m.said : Spares(scenario, r.id, m.said[k])
  /\ \A n \in DOMAIN m.said :
       /\ m.said[n].kind \in {"recovery", "effect", "normalized"}
       /\ m.said[n].cause # None =>
            \E r \in Range(active) :
              r.id = m.said[n].cause /\ \A k \in 1..(n - 1) : Spares(scenario, r.id, m.said[k])

\* One change more.
LEMMA ChangeAttributed ==
  ASSUME \A r \in Range(active) : r = Request(EventOf(r.id)),
         NEW m, Attributed(m), NEW change, change.cause = None
  PROVE  Attributed(Change(m, change))
<1>1. CASE m.states[change.sub] = change.after
  <2>1. Change(m, change) = m
    BY <1>1 DEF Change
  <2> QED BY <2>1
<1>2. CASE m.states[change.sub] # change.after
  <2>1. PICK n : n = Change(m, change)
    OBVIOUS
  <2>2. PICK e : Says(m, change, e)
    BY <1>2, ChangeMakes
  <2>3. /\ n.said = Append(m.said, e) /\ e.kind \in {"recovery", "effect", "normalized"}
        /\ e.sub = change.sub
        /\ e.cause = AttributeCause(m.active, change.sub)
        /\ e.kind = "recovery" <=> change.after \in Healthy /\ m.states[change.sub] \notin Healthy
    BY <2>1, <2>2 DEF Says
  <2>4. n.active = IF change.after \in Healthy /\ m.states[change.sub] \notin Healthy
                   THEN Forgotten(m.active, change.sub) ELSE m.active
    BY <1>2, <2>1, ChangeMakes
  <2>5. IsSequence(m.said) /\ IsSequence(m.active)
    BY DEF Attributed
  <2>6. PICK L \in Nat : L = Len(m.said)
    BY <2>5, AppendSequence
  <2>7. /\ IsSequence(n.said) /\ DOMAIN m.said = 1..L /\ DOMAIN n.said = 1..(L + 1)
        /\ n.said[L + 1] = e /\ \A k \in 1..L : n.said[k] = m.said[k]
    BY <2>3, <2>5, <2>6, AppendSequence DEF IsSequence
  <2>8. ASSUME NEW r \in Range(m.active)
        PROVE  r \in Range(active) /\ \A k \in 1..L : Spares(scenario, r.id, n.said[k])
    BY <2>7 DEF Attributed
  <2>9. IsSequence(n.active) /\ Range(n.active) \subseteq Range(m.active)
        /\ (e.kind = "recovery" => \A r \in Range(n.active) : r.sub # e.sub \/ Persistent(r))
    <3>1. CASE e.kind = "recovery"
      <4> DEFINE places == {i \in DOMAIN m.active : m.active[i].sub # change.sub \/ Persistent(m.active[i])}
      <4>1. n.active = ElementsAt(m.active, places)
        BY <2>3, <2>4, <3>1 DEF Forgotten
      <4>2. IsSequence(n.active) /\ Range(n.active) = {m.active[k] : k \in places}
        <5>1. places \in SUBSET DOMAIN m.active
          OBVIOUS
        <5> HIDE DEF places
        <5> QED BY <2>5, <4>1, <5>1, Selection
      <4> QED BY <2>3, <4>2 DEF Range
    <3>2. CASE e.kind # "recovery"
      BY <2>3, <2>4, <2>5, <3>2
    <3> QED BY <3>1, <3>2
  <2>10. ASSUME NEW r \in Range(n.active) PROVE Spares(scenario, r.id, e)
    <3>1. r = Request(EventOf(r.id))
      BY <2>8, <2>9
    <3>2. r.sub = EventOf(r.id).sub /\ r.effect = EventOf(r.id).effect
      BY <3>1 DEF Request
    <3>3. e.kind = "recovery" => r.sub # e.sub \/ r.effect \notin TRANSIENT_EFFECTS
      BY <2>9 DEF Persistent
    <3> QED BY <2>3, <3>2, <3>3 DEF Spares, EventOf
  <2>11. ASSUME NEW r \in Range(n.active)
         PROVE  r \in Range(active) /\ \A k \in DOMAIN n.said : Spares(scenario, r.id, n.said[k])
    <3>1. \A k \in 1..(L + 1) : k \in 1..L \/ k = L + 1
      OBVIOUS
    <3> QED BY <2>7, <2>8, <2>9, <2>10, <3>1
  <2>12. ASSUME NEW k \in DOMAIN n.said
         PROVE  /\ n.said[k].kind \in {"recovery", "effect", "normalized"}
                /\ n.said[k].cause # None =>
                     \E r \in Range(active) :
                       r.id = n.said[k].cause /\ \A l \in 1..(k - 1) : Spares(scenario, r.id, n.said[l])
    <3>1. CASE k \in 1..L
      <4>1. \A l \in 1..(k - 1) : l \in 1..L
        BY <3>1
      <4>2. /\ m.said[k].kind \in {"recovery", "effect", "normalized"}
            /\ m.said[k].cause # None =>
                 \E r \in Range(active) :
                   r.id = m.said[k].cause /\ \A l \in 1..(k - 1) : Spares(scenario, r.id, m.said[l])
        BY <2>7, <3>1 DEF Attributed
      <4> QED BY <2>7, <3>1, <4>1, <4>2
    <3>2. CASE k = L + 1
      <4>1. n.said[k] = e /\ k - 1 = L
        BY <2>7, <3>2
      <4>2. ASSUME e.cause # None
            PROVE  \E r \in Range(active) :
                     r.id = e.cause /\ \A l \in 1..L : Spares(scenario, r.id, n.said[l])
        <5>1. PICK r \in Range(m.active) : r.id = e.cause
          BY <2>3, <2>5, <4>2, CauseIsActive
        <5> QED BY <2>8, <5>1
      <4> QED BY <2>3, <4>1, <4>2
    <3> QED BY <2>7, <3>1, <3>2
  <2>13. Attributed(n)
    BY <2>7, <2>9, <2>11, <2>12 DEF Attributed
  <2> QED BY <2>1, <2>13
<1> QED BY <1>1, <1>2

\* All changes of an observation.
LEMMA ChangesAttributed ==
  ASSUME AttributionLeft, SchedInv, obs \in Observations,
         NEW f, NEW N \in Nat, N = Len(obs.changes), Steps(f, obs.changes)
  PROVE  Attributed(f[N])
<1>1. IsSequence(active) /\ \A r \in Range(active) : r = Request(EventOf(r.id))
  BY DEF SchedInv, ActiveInv
<1>2. \A k \in 1..N : obs.changes[k].cause = None
  <2>1. obs.changes \in Seq(Range(obs.changes)) /\ \A c \in Range(obs.changes) : c.cause = None
    BY EngineAssumption DEF AttributionLeft
  <2>2. DOMAIN obs.changes = 1..N
    BY <2>1
  <2> QED BY <2>1, <2>2 DEF Range
<1> DEFINE Good == {n \in 0..N : Attributed(f[n])}
<1>3. 0 \in Good
  <2>1. PICK s : s = Start
    OBVIOUS
  <2>2. s.active = active /\ s.said = <<>> /\ DOMAIN <<>> = {}
    BY <2>1 DEF Start
  <2>3. f[0] = s
    BY <2>1 DEF Steps
  <2>4. Attributed(s)
    BY <1>1, <2>2, EmptySequence DEF Attributed
  <2> QED BY <2>3, <2>4
<1>4. ASSUME NEW n \in 0..(N - 1), n \in Good PROVE n + 1 \in Good
  <2>1. n + 1 \in 1..N /\ n + 1 \in 0..N /\ (n + 1) - 1 = n
    OBVIOUS
  <2>2. f[n + 1] = Change(f[n], obs.changes[n + 1])
    BY <2>1 DEF Steps
  <2>3. Attributed(f[n])
    BY <1>4
  <2>4. Attributed(f[n + 1])
    BY <1>1, <1>2, <2>1, <2>2, <2>3, ChangeAttributed
  <2> QED BY <2>1, <2>4
<1>5. \A n \in 0..N : n \in Good
  <2> HIDE DEF Good
  <2> QED BY <1>3, <1>4, Induction
<1>6. N \in 0..N
  OBVIOUS
<1> QED BY <1>5, <1>6

\* An observation attributes changes to what is not over, and leaves what it has not ended.
LEMMA CauseProcess ==
  ASSUME AttributionLeft, SchedInv, ListInv, CauseInv, ProcessObservation
  PROVE  CauseInv'
<1>1. /\ scenario' = scenario /\ pc = "scheduled" /\ obs \in Observations
      /\ IsSequence(active) /\ IsSequence(log)
  BY DEF ProcessObservation, ListInv, SchedInv, ActiveInv, MissionInv
<1>2. PICK f, N :
        /\ N \in Nat /\ N = Len(obs.changes) /\ Steps(f, obs.changes) /\ active' = f[N].active
        /\ log' = log \o (f[N].said \o IF runState' = runState THEN <<>> ELSE <<Lifecycle(runState')>>)
  BY <1>1, ObservationMakes DEF ListInv
<1>3. PICK m, tail : /\ m = f[N] /\ IsSequence(tail) /\ \A k \in DOMAIN tail : tail[k].kind = "lifecycle"
                     /\ log' = log \o (m.said \o tail)
  <2>1. PICK e : e = Lifecycle(runState') /\ e.kind = "lifecycle"
    <3>1. Lifecycle(runState').kind = "lifecycle"
      BY DEF Lifecycle
    <3> QED BY <3>1
  <2>2. PICK tail : tail = IF runState' = runState THEN <<>> ELSE <<e>>
    OBVIOUS
  <2>3. IsSequence(tail) /\ \A k \in DOMAIN tail : tail[k] = e
    <3>1. DOMAIN <<>> = {}
      OBVIOUS
    <3> QED BY <2>2, <3>1, EmptySequence, OneEntry
  <2> QED BY <1>2, <2>1, <2>2, <2>3
<1>4. Attributed(m) /\ IsSequence(m.said) /\ active' = m.active
  <2>1. Attributed(f[N])
    BY <1>1, <1>2, ChangesAttributed
  <2> QED BY <1>2, <1>3, <2>1 DEF Attributed
<1>5. PICK more, M, T : more = m.said \o tail /\ M = Len(m.said) /\ T = Len(more)
  OBVIOUS
<1>6. /\ IsSequence(more) /\ M \in Nat /\ T \in Nat /\ M <= T
      /\ DOMAIN m.said = 1..M /\ DOMAIN more = 1..T
      /\ \A k \in 1..M : more[k] = m.said[k]
      /\ \A k \in 1..T : k \in 1..M \/ more[k].kind = "lifecycle"
  <2>1. /\ IsSequence(more) /\ M \in Nat /\ Len(tail) \in Nat /\ T = M + Len(tail)
        /\ DOMAIN m.said = 1..M /\ DOMAIN more = 1..T /\ DOMAIN tail = 1..Len(tail)
        /\ \A k \in 1..M : more[k] = m.said[k]
        /\ \A k \in 1..Len(tail) : more[M + k] = tail[k]
    BY <1>3, <1>4, <1>5, ConcatSequence DEF IsSequence
  <2>2. ASSUME NEW k \in 1..T, k \notin 1..M PROVE more[k].kind = "lifecycle"
    <3>1. k - M \in 1..Len(tail) /\ k = M + (k - M)
      BY <2>1, <2>2
    <3> QED BY ZenonT(40), <1>3, <2>1, <3>1
  <2> QED BY <2>1, <2>2
<1>7. log' = log \o more /\ Len(log) \in Nat /\ Len(log') = Len(log) + T
  BY <1>1, <1>3, <1>5, <1>6, ConcatSequence
<1>8. \A r : \A k \in 1..T : k \notin 1..M => Spares(scenario, r, more[k])
  BY <1>6 DEF Spares
<1>9. ASSUME NEW r \in Range(active), NEW n \in 1..(T + 1),
             \A k \in 1..(n - 1) : Spares(scenario, r.id, more[k])
      PROVE  \E j \in DOMAIN log' : log'[j].id = r.id /\ Stands(scenario, log', j, Len(log) + n)
  <2>1. PICK j \in DOMAIN log : log[j].id = r.id /\ Stands(scenario, log, j, Len(log) + 1)
    BY <1>1, <1>9 DEF CauseInv, Mission, InTry
  <2>2. n \in 1..(Len(more) + 1) /\ \A k \in 1..(n - 1) : Spares(scenario, log[j].id, more[k])
    BY <1>5, <1>9, <2>1
  <2>3. j \in DOMAIN log' /\ log'[j].id = log[j].id /\ Stands(scenario, log', j, Len(log) + n)
    <3>1. IsSequence(log) /\ IsSequence(more) /\ log' = log \o more
      BY <1>1, <1>6, <1>7
    <3>2. /\ j \in DOMAIN (log \o more) /\ (log \o more)[j].id = log[j].id
          /\ Stands(scenario, log \o more, j, Len(log) + n)
      BY <2>1, <2>2, <3>1, StandsOn
    <3> QED BY <3>1, <3>2
  <2> QED BY <2>1, <2>3
<1>10. ASSUME NEW i \in DOMAIN log' PROVE Caused(scenario, log', i)
  <2>1. i \in DOMAIN log \/ \E n \in DOMAIN more : i = Len(log) + n /\ log'[i] = more[n]
    <3>1. IsSequence(log) /\ IsSequence(more) /\ log' = log \o more
      BY <1>1, <1>6, <1>7
    <3>2. /\ \A k \in DOMAIN more : log'[Len(log) + k] = more[k]
          /\ \A l \in DOMAIN log' : l \in DOMAIN log \/ \E k \in DOMAIN more : l = Len(log) + k
      BY <3>1, LogGrows
    <3> QED BY <3>2
  <2>2. CASE i \in DOMAIN log
    BY <1>1, <1>6, <1>7, <2>2, CausedOn DEF CauseInv
  <2>3. ASSUME NEW n \in DOMAIN more, i = Len(log) + n, log'[i] = more[n] PROVE Caused(scenario, log', i)
    <3>1. CASE n \in 1..M
      <4>1. more[n] = m.said[n]
        BY <1>6, <3>1
      <4>2. SUFFICES ASSUME more[n].cause # None
                     PROVE  \E j \in DOMAIN log' : log'[j].id = log'[i].cause /\ Stands(scenario, log', j, i)
        BY <2>3 DEF Caused
      <4>3. PICK r \in Range(active) :
              r.id = more[n].cause /\ \A k \in 1..(n - 1) : Spares(scenario, r.id, m.said[k])
        BY <1>4, <1>6, <3>1, <4>1, <4>2 DEF Attributed
      <4>4. \A k \in 1..(n - 1) : k \in 1..M
        BY <1>6, <3>1
      <4>5. n \in 1..(T + 1) /\ \A k \in 1..(n - 1) : Spares(scenario, r.id, more[k])
        BY <1>6, <3>1, <4>3, <4>4
      <4> QED BY <1>9, <2>3, <4>3, <4>5
    <3>2. CASE n \notin 1..M
      BY <1>6, <2>3, <3>2 DEF Caused
    <3> QED BY <3>1, <3>2
  <2> QED BY <2>1, <2>2, <2>3
<1>11. ASSUME NEW r \in Range(active')
       PROVE  \E j \in DOMAIN log' : log'[j].id = r.id /\ Stands(scenario, log', j, Len(log') + 1)
  <2>1. r \in Range(active) /\ \A k \in 1..M : Spares(scenario, r.id, m.said[k])
    BY <1>4, <1>6 DEF Attributed
  <2>2. \A k \in 1..T : Spares(scenario, r.id, more[k])
    BY <1>6, <1>8, <2>1
  <2>3. PICK n \in 1..(T + 1) : n = T + 1 /\ n - 1 = T
    BY <1>6
  <2>4. Len(log) + n = Len(log') + 1
    BY <1>6, <1>7, <2>3
  <2> QED BY <1>9, <2>1, <2>2, <2>3, <2>4
<1> QED BY <1>1, <1>10, <1>11 DEF CauseInv

\* A request that is taken up is one more, or takes the place of another.
LEMMA ActivatedRange ==
  ASSUME IsSequence(active), NEW request
  PROVE  Range(Activated(request)) \subseteq Range(active) \cup {request}
<1> DEFINE at == {i \in DOMAIN active : active[i].id = request.id}
<1>1. CASE at = {}
  <2>1. PICK q : q = Append(active, request) /\ q = Activated(request)
    BY <1>1 DEF Activated
  <2>2. /\ Len(active) \in Nat /\ DOMAIN active = 1..Len(active) /\ DOMAIN q = 1..(Len(active) + 1)
        /\ q[Len(active) + 1] = request /\ \A i \in 1..Len(active) : q[i] = active[i]
    <3>1. /\ IsSequence(q) /\ Len(active) \in Nat /\ Len(q) = Len(active) + 1
          /\ q[Len(active) + 1] = request /\ \A i \in 1..Len(active) : q[i] = active[i]
      <4>1. /\ IsSequence(Append(active, request)) /\ Len(active) \in Nat
            /\ Len(Append(active, request)) = Len(active) + 1
            /\ Append(active, request)[Len(active) + 1] = request
            /\ \A i \in 1..Len(active) : Append(active, request)[i] = active[i]
        BY AppendSequence
      <4> QED BY <2>1, <4>1
    <3>2. DOMAIN active = 1..Len(active) /\ DOMAIN q = 1..Len(q)
      BY <3>1 DEF IsSequence
    <3> QED BY <3>1, <3>2
  <2>3. \A i \in 1..(Len(active) + 1) : i \in 1..Len(active) \/ i = Len(active) + 1
    BY <2>2
  <2> QED BY <2>1, <2>2, <2>3 DEF Range
<1>2. CASE at # {}
  <2> DEFINE k == CHOOSE i \in at : TRUE
             q == [active EXCEPT ![k] = request]
  <2>1. Activated(request) = q
    BY <1>2 DEF Activated
  <2>2. DOMAIN q = DOMAIN active /\ \A i \in DOMAIN active : q[i] = request \/ q[i] = active[i]
    OBVIOUS
  <2> HIDE DEF q
  <2> QED BY <2>1, <2>2 DEF Range
<1> QED BY <1>1, <1>2

\* What the other steps say is of the run.
LEMMA SaysOther ==
  ASSUME ListsInv, [Next]_vars, ~Inject, ~ClearDue, ~FinishSample, ~Leave, ~ProcessObservation
  PROVE  \E more : /\ IsSequence(more) /\ log' = log \o more
                   /\ \A k \in DOMAIN more : more[k].kind \in {"lifecycle", "finished"}
<1>1. CASE log' = log
  <2>1. log = log \o <<>> /\ DOMAIN <<>> = {}
    BY DEF ListsInv, IsSequence
  <2> QED BY <1>1, <2>1, EmptySequence
<1>2. CASE log' # log
  <2>1. PICK e : log' = log \o <<e>> /\ e.kind \in {"lifecycle", "finished"}
    <3>1. /\ \A s : Lifecycle(s).kind = "lifecycle"
          /\ Marked("finished").kind = "finished"
      BY DEF Lifecycle, Marked
    <3>2. (\E s : log' = log \o <<Lifecycle(s)>>) \/ log' = log \o <<Marked("finished")>>
      BY <1>2 DEF Next, Step, Prepare, Prepared, PreparationCancelled, StartMission,
           Handle, Collect, CollectArtifacts, Stop, Pop, Finish, Observe, TargetFails, SinkFails,
           PublishArtifactFails, Cancel, vars, mission, Say
    <3>3. PICK e : /\ e.kind \in {"lifecycle", "finished"}
                   /\ (\E s : e = Lifecycle(s) /\ log' = log \o <<Lifecycle(s)>>)
                        \/ (e = Marked("finished") /\ log' = log \o <<Marked("finished")>>)
      BY <3>1, <3>2
    <3> QED BY <3>3
  <2>2. PICK more : more = <<e>> /\ IsSequence(more) /\ \A k \in DOMAIN more : more[k] = e
    BY OneEntry
  <2> QED BY <2>1, <2>2
<1> QED BY <1>1, <1>2

\* Every step keeps it.
LEMMA CauseNext ==
  ASSUME AttributionLeft, TeleInv, SchedInv, ListInv, ListsInv, CauseInv, [Next]_vars
  PROVE  CauseInv'
<1> USE DEF Mission, InTry
<1>1. IsSequence(log) /\ ActiveInv' /\ IsSequence(active)
  BY SchedNext DEF ListsInv, SchedInv
<1>2. CASE ProcessObservation
  BY <1>2, CauseProcess
<1>3. CASE ClearDue \/ FinishSample \/ Leave
  <2>1. PICK more :
          /\ IsSequence(more) /\ log' = log \o more
          /\ \A k \in DOMAIN more :
               more[k].kind \notin {"lifecycle", "finished", "effect", "recovery"}
    BY <1>3, ClearActs, FinishActs, LeaveActs DEF Acts
  <2>2. CASE ClearDue
    <3>1. scenario' = scenario /\ pc' = pc
      BY <2>2 DEF ClearDue
    <3>2. Range(active') \subseteq Range(active)
      <4>1. active' = active \/ \E id : active' = Without(active, id)
        BY <2>2 DEF ClearDue
      <4>2. ASSUME NEW id, active' = Without(active, id) PROVE Range(active') \subseteq Range(active)
        <5> DEFINE places == {i \in DOMAIN active : active[i].id # id}
        <5>1. active' = ElementsAt(active, places)
          BY <4>2 DEF Without
        <5>2. Range(active') = {active[k] : k \in places}
          <6>1. places \in SUBSET DOMAIN active
            OBVIOUS
          <6> HIDE DEF places
          <6> QED BY <1>1, <5>1, <6>1, Selection
        <5> QED BY <5>2 DEF Range
      <4> QED BY <4>1, <4>2
    <3> QED BY <1>1, <2>1, <3>1, <3>2, CauseCalm
  <2>3. CASE FinishSample
    <3>1. scenario' = scenario /\ pc = "observed" /\ active' = active
      BY <2>3 DEF FinishSample, sched
    <3> QED BY <1>1, <2>1, <3>1, CauseCalm
  <2>4. CASE Leave
    <3>1. scenario' = scenario /\ pc' = "final"
      BY <2>4 DEF Leave
    <3> QED BY <1>1, <2>1, <3>1, CauseCalm
  <2> QED BY <1>3, <2>2, <2>3, <2>4
<1>4. CASE Inject
  <2>1. scenario' = scenario /\ pc' = pc
    BY <1>4 DEF Inject
  <2>2. PICK e, a, b, c :
          /\ e = Head(pending) /\ a = Note("requested", e.id, clock)
          /\ b = Note("applied", e.id, clock) /\ c = Note("rejected", e.id, clock)
    OBVIOUS
  <2>3. /\ a.kind = "requested" /\ b.kind = "applied" /\ c.kind = "rejected" /\ b.id = e.id
        /\ Request(e).id = e.id
    BY <2>2 DEF Note, Request
  <2>4. \/ log' = log \o <<a, b>> /\ active' = Activated(Request(e))
        \/ log' = log \o <<a, c>> /\ active' = active
    BY <1>4, <2>2 DEF Inject, Say
  <2>5. IsSequence(<<a, b>>) /\ IsSequence(<<a, c>>)
    BY DEF IsSequence, Range
  <2>6. CASE log' = log \o <<a, b>> /\ active' = Activated(Request(e))
    <3>1. PICK more : more = <<a, b>>
      OBVIOUS
    <3>2. DOMAIN more = {1, 2} /\ more[1] = a /\ more[2] = b
      BY <3>1
    <3>3. ASSUME NEW r \in Range(active')
          PROVE  r \in Range(active) \/ \E n \in DOMAIN more : more[n].kind = "applied" /\ more[n].id = r.id
      <4>1. r \in Range(active) \/ r = Request(e)
        BY <1>1, <2>6, <3>3, ActivatedRange
      <4> QED BY <2>3, <3>2, <4>1
    <3>4. \A k \in DOMAIN more : more[k].kind \notin {"effect", "recovery"}
      BY <2>3, <3>2
    <3>5. IsSequence(more) /\ log' = log \o more
      BY <2>5, <2>6, <3>1
    <3> QED BY <1>1, <2>1, <3>3, <3>4, <3>5, CauseCalm
  <2>7. CASE log' = log \o <<a, c>> /\ active' = active
    <3>1. PICK more : more = <<a, c>>
      OBVIOUS
    <3>2. DOMAIN more = {1, 2} /\ more[1] = a /\ more[2] = c
      BY <3>1
    <3>4. \A k \in DOMAIN more : more[k].kind \notin {"effect", "recovery"}
      BY <2>3, <3>2
    <3>3. IsSequence(more) /\ log' = log \o more
      BY <2>5, <2>7, <3>1
    <3> QED BY <1>1, <2>1, <2>7, <3>3, <3>4, CauseCalm
  <2> QED BY <2>4, <2>6, <2>7
<1>5. CASE ~(Inject \/ ClearDue \/ FinishSample \/ Leave \/ ProcessObservation)
  <2>1. PICK more : /\ IsSequence(more) /\ log' = log \o more
                    /\ \A k \in DOMAIN more : more[k].kind \in {"lifecycle", "finished"}
    BY <1>5, SaysOther
  <2>2. scenario' = scenario /\ (pc' \in Mission => pc \in Mission /\ active' = active)
    BY <1>5 DEF Next, Step, vars, mission, sched, Prepare, Prepared, PreparationCancelled, StartMission,
         Handle, Collect, CollectArtifacts, Stop, Pop, Finish, Observe, TargetFails, SinkFails,
         PublishArtifactFails, Cancel
  <2>3. \A k \in DOMAIN more : more[k].kind \notin {"effect", "recovery"}
    BY <2>1
  <2> QED BY <1>1, <2>1, <2>2, <2>3, CauseCalm
<1> QED BY <1>2, <1>3, <1>4, <1>5

LEMMA CauseInit == Init => CauseInv
BY DEF Init, CauseInv, Range

\* The invariant says all that is claimed of the causes.
LEMMA CauseEnough ==
  ASSUME CauseInv
  PROVE  CausesAreOpen
<1> SUFFICES ASSUME NEW i \in Entries("effect") \cup Entries("recovery"), log[i].cause # None
             PROVE  \E j \in Entries("applied") :
                      /\ j < i /\ log[j].id = log[i].cause
                      /\ \A k \in j..(i - 1) : ~(log[k].kind = "cleared" /\ log[k].id = log[j].id)
                      /\ EventOf(log[j].id).effect \in TRANSIENT_EFFECTS =>
                           \A k \in j..(i - 1) :
                             ~(log[k].kind = "recovery" /\ log[k].sub = EventOf(log[j].id).sub)
  BY DEF CausesAreOpen
<1>1. PICK j \in DOMAIN log : log[j].id = log[i].cause /\ Stands(scenario, log, j, i)
  BY DEF CauseInv, Caused, Entries
<1> QED BY <1>1 DEF Stands, Spares, Entries, EventOf

-----------------------------------------------------------------------------
(* What events tell. *)

\* For every scenario whose events have different ids, whatever the adapter says of causes:
\* the duration of a fault is that of the samples, and the run is said to be recovering when
\* a component is.
THEOREM TimesFaults ==
  ASSUME \A s \in Scenarios : DistinctIds(s)
  PROVE  Spec => [](FaultsAreTimed /\ RecoveringIsTold)
<1> DEFINE Inv == /\ TeleInv /\ SchedInv /\ ListInv /\ JudgeInv /\ ListsInv /\ StageInv
                  /\ FaultInv /\ TellInv
<1>1. Init => Inv
  <2>1. Init => TeleInv /\ SchedInv /\ ListInv /\ JudgeInv /\ ListsInv /\ StageInv
    BY TeleInit, SchedInit, JudgeInit, EmptySequence, ListsInit, SeesAccepted DEF Init, ListInv
  <2> QED BY <2>1, FaultInit, TellInit
<1>2. Inv /\ [Next]_vars => Inv'
  <2>1. Inv /\ [Next]_vars => (TeleInv /\ SchedInv /\ ListInv /\ JudgeInv /\ ListsInv /\ StageInv)'
    BY TeleNext, SchedNext, StaysList, JudgeNext, ListsNext, StageNext
  <2>2. Inv /\ [Next]_vars => (FaultInv /\ TellInv)'
    BY FaultNext, TellNext
  <2> QED BY <2>1, <2>2
<1>3. Inv => FaultsAreTimed /\ RecoveringIsTold
  BY FaultEnough, TellEnough
<1> QED BY <1>1, <1>2, <1>3, PTL DEF Spec

\* And if the adapter leaves the attribution to the engine, a change is attributed to an
\* injection that was applied and was not over.
THEOREM TellsTrue ==
  ASSUME \A s \in Scenarios : DistinctIds(s), AttributionLeft
  PROVE  Spec => []EventsTellTrue
<1> DEFINE Inv == TeleInv /\ SchedInv /\ ListInv /\ ListsInv /\ CauseInv
<1>1. Init => Inv
  BY TeleInit, SchedInit, EmptySequence, ListsInit, CauseInit DEF Init, ListInv
<1>2. Inv /\ [Next]_vars => Inv'
  BY TeleNext, SchedNext, StaysList, ListsNext, CauseNext
<1>3. Inv => CausesAreOpen
  BY CauseEnough
<1>4. Spec => []CausesAreOpen
  BY <1>1, <1>2, <1>3, PTL DEF Spec
<1>5. FaultsAreTimed /\ RecoveringIsTold /\ CausesAreOpen => EventsTellTrue
  BY DEF EventsTellTrue
<1> QED BY <1>4, <1>5, TimesFaults, PTL
=============================================================================
