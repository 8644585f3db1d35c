---------------------------- MODULE RunPagesProofs ----------------------------
(***************************************************************************)
(* What the pages show of the runs, proved for every database of runs,     *)
(* every analysis of them and every size of a page: what was asked for,    *)
(* and a comparison that tells the opposite when its runs trade places.    *)
(*                                                                         *)
(* The inductive invariant follows what a click may lead to: every key and *)
(* every address is of runs that were completed when they were listed, and *)
(* completed runs stay so; every answer in the cache is about its key.     *)
(* ListInv follows the turning of pages: what was listed of a filter that  *)
(* only gains runs moves to no earlier place of the list.                  *)
(***************************************************************************)
EXTENDS RunPages, SequenceLemmas

-----------------------------------------------------------------------------
(* Comparisons. *)

\* The outcome of each assertion that is not the same in both was decided.
Decided(b, c) ==
  /\ \A a \in DOMAIN AssertionRows(b, c) : AssertionRows(b, c)[a] # "changed"
  /\ \A a \in DOMAIN AssertionRows(c, b) : AssertionRows(c, b)[a] # "changed"

IsDefinition(def) ==
  def.better \in {"higher", "lower", "neutral"} /\ def.tolerance \in Nat

\* One metric: what is better one way is worse the other way, and a change within
\* the tolerance is one both ways.
LEMMA VerdictMirrored ==
  ASSUME NEW def, IsDefinition(def),
         NEW x \in Int \cup {None}, NEW y \in Int \cup {None}
  PROVE  Verdict(def, y, x) = Opposite(Verdict(def, x, y))
<1>1. CASE None \in {x, y}
  BY <1>1 DEF Verdict, Opposite
<1>2. CASE x \in Int /\ y \in Int
  <2>1. None \notin {x, y} /\ None \notin {y, x}
    BY <1>2, ComparisonAssumption
  <2>2. CASE Abs(y - x) <= def.tolerance
    <3>1. Abs(x - y) <= def.tolerance
      BY <1>2, <2>2 DEF Abs, IsDefinition
    <3> QED BY <2>1, <2>2, <3>1 DEF Verdict, Opposite
  <2>3. CASE ~(Abs(y - x) <= def.tolerance)
    <3>1. ~(Abs(x - y) <= def.tolerance)
      BY <1>2, <2>3 DEF Abs, IsDefinition
    <3>2. x > y <=> ~(y > x)
      BY <1>2, <2>3 DEF Abs, IsDefinition
    <3>3. (y > x) \in BOOLEAN /\ (x > y) \in BOOLEAN
      BY <1>2
    <3>4. CASE y > x
      BY <2>1, <2>3, <3>1, <3>2, <3>4 DEF Verdict, Opposite
    <3>5. CASE ~(y > x)
      BY <2>1, <2>3, <3>1, <3>2, <3>5 DEF Verdict, Opposite
    <3> QED BY <3>4, <3>5
  <2> QED BY <2>2, <2>3
<1> QED BY <1>1, <1>2

\* The value of a metric that a run has is a number, of any other None.
LEMMA ValueType ==
  ASSUME NEW run, IsAnalysis(run), NEW k
  PROVE  Value(run, k) \in Int \cup {None}
<1>1. CASE run = None
  BY <1>1 DEF Value, Context
<1>2. CASE run # None
  BY <1>2 DEF Value, Context, IsAnalysis
<1> QED BY <1>1, <1>2

\* Every metric has a definition, one of the table or the common one.
LEMMA DefinitionType ==
  ASSUME NEW k
  PROVE  IsDefinition(Definition(k))
BY ComparisonAssumption DEF Definition, IsDefinition

\* The table of the metrics.
LEMMA MetricsMirrored ==
  ASSUME NEW b, IsAnalysis(b), NEW c, IsAnalysis(c)
  PROVE  /\ DOMAIN MetricRows(c, b) = DOMAIN MetricRows(b, c)
         /\ \A k \in DOMAIN MetricRows(b, c) :
              MetricRows(c, b)[k] = Opposite(MetricRows(b, c)[k])
<1>1. DOMAIN MetricRows(c, b) = DOMAIN MetricRows(b, c)
  BY DEF MetricRows
<1>2. ASSUME NEW k \in DOMAIN MetricRows(b, c)
      PROVE  MetricRows(c, b)[k] = Opposite(MetricRows(b, c)[k])
  <2>1. /\ MetricRows(b, c)[k] = Verdict(Definition(k), Value(b, k), Value(c, k))
        /\ MetricRows(c, b)[k] = Verdict(Definition(k), Value(c, k), Value(b, k))
    BY DEF MetricRows
  <2>2. Value(b, k) \in Int \cup {None} /\ Value(c, k) \in Int \cup {None}
    BY ValueType
  <2>3. Verdict(Definition(k), Value(c, k), Value(b, k))
          = Opposite(Verdict(Definition(k), Value(b, k), Value(c, k)))
    <3>1. PICK def, x, y : def = Definition(k) /\ x = Value(b, k) /\ y = Value(c, k)
      OBVIOUS
    <3>2. IsDefinition(def) /\ x \in Int \cup {None} /\ y \in Int \cup {None}
      BY <2>2, <3>1, DefinitionType
    <3>3. Verdict(def, y, x) = Opposite(Verdict(def, x, y))
      BY <3>2, VerdictMirrored
    <3> QED BY <3>1, <3>3
  <2> QED BY <2>1, <2>3
<1> QED BY <1>1, <1>2

\* The dimensions of the score: those that are listed both ways, which are the same
\* when the scores leave out the same.
LEMMA DimensionsMirrored ==
  ASSUME NEW b, IsAnalysis(b), NEW c, IsAnalysis(c)
  PROVE  /\ ScoredAlike(b, c) => DOMAIN DimensionRows(c, b) = DOMAIN DimensionRows(b, c)
         /\ \A d \in DOMAIN DimensionRows(b, c) \cap DOMAIN DimensionRows(c, b) :
              DimensionRows(c, b)[d] = Opposite(DimensionRows(b, c)[d])
<1> DEFINE both == DOMAIN Score(b) \cap DOMAIN Score(c)
           def  == [better |-> "higher", tolerance |-> 0]
<1>1. ASSUME ScoredAlike(b, c)
      PROVE  DOMAIN DimensionRows(c, b) = DOMAIN DimensionRows(b, c)
  <2>1. \A d \in DOMAIN Score(b) \cup DOMAIN Score(c) : Weighs(b, c, d) <=> Weighs(c, b, d)
    BY <1>1 DEF Weighs, ScoredAlike
  <2> QED BY <2>1 DEF DimensionRows
<1>2. ASSUME NEW d \in DOMAIN DimensionRows(b, c) \cap DOMAIN DimensionRows(c, b)
      PROVE  DimensionRows(c, b)[d] = Opposite(DimensionRows(b, c)[d])
  <2>1. /\ DimensionRows(b, c)[d] = IF d \notin both THEN "not_comparable"
                                    ELSE Verdict(def, Score(b)[d].points, Score(c)[d].points)
        /\ DimensionRows(c, b)[d] = IF d \notin both THEN "not_comparable"
                                    ELSE Verdict(def, Score(c)[d].points, Score(b)[d].points)
    BY DEF DimensionRows
  <2>2. CASE d \notin both
    BY <2>1, <2>2 DEF Opposite
  <2>3. CASE d \in both
    <3>1. Score(b)[d].points \in Int /\ Score(c)[d].points \in Int
      BY <2>3 DEF IsAnalysis, Score
    <3>2. IsDefinition(def)
      BY DEF IsDefinition
    <3> HIDE DEF def
    <3>3. Verdict(def, Score(c)[d].points, Score(b)[d].points)
            = Opposite(Verdict(def, Score(b)[d].points, Score(c)[d].points))
      BY <3>1, <3>2, VerdictMirrored
    <3> QED BY <2>1, <2>3, <3>3
  <2> QED BY <2>2, <2>3
<1> QED BY <1>1, <1>2

\* The assertions, when each was decided.
LEMMA AssertionsMirrored ==
  ASSUME NEW b, NEW c, Decided(b, c)
  PROVE  /\ DOMAIN AssertionRows(c, b) = DOMAIN AssertionRows(b, c)
         /\ \A a \in DOMAIN AssertionRows(b, c) :
              AssertionRows(c, b)[a] = Opposite(AssertionRows(b, c)[a])
<1>1. DOMAIN AssertionRows(c, b) = DOMAIN AssertionRows(b, c)
  BY DEF AssertionRows
<1>2. ASSUME NEW a \in DOMAIN AssertionRows(b, c)
      PROVE  AssertionRows(c, b)[a] = Opposite(AssertionRows(b, c)[a])
  BY DEF AssertionRows, Opposite, Decided
<1> QED BY <1>1, <1>2

\* What is worse one way is counted as better the other way.
LEMMA CountMirrored ==
  ASSUME NEW there, NEW back, DOMAIN back = DOMAIN there,
         \A k \in DOMAIN there : back[k] = Opposite(there[k])
  PROVE  /\ Count(back, "regression") = Count(there, "improvement")
         /\ Count(back, "improvement") = Count(there, "regression")
<1>1. {k \in DOMAIN back : back[k] = "regression"}
        = {k \in DOMAIN there : there[k] = "improvement"}
  BY DEF Opposite
<1>2. {k \in DOMAIN back : back[k] = "improvement"}
        = {k \in DOMAIN there : there[k] = "regression"}
  BY DEF Opposite
<1> QED BY <1>1, <1>2 DEF Count

\* compare_runs of two runs and of the same runs the other way round: every metric
\* tells the opposite, and so does every dimension of the score that is listed both
\* ways; the same ones are, unless the profile of one run leaves out a dimension that
\* has a weight in the other's.  When each assertion was decided, the counts and the
\* verdict on the runs tell the opposite too.
THEOREM ComparisonMirrors ==
  ASSUME NEW b, IsAnalysis(b), NEW c, IsAnalysis(c)
  PROVE  /\ \A k \in DOMAIN Compare(b, c).metrics :
              Compare(c, b).metrics[k] = Opposite(Compare(b, c).metrics[k])
         /\ ScoredAlike(b, c) =>
              DOMAIN Compare(c, b).dimensions = DOMAIN Compare(b, c).dimensions
         /\ \A d \in DOMAIN Compare(b, c).dimensions \cap DOMAIN Compare(c, b).dimensions :
              Compare(c, b).dimensions[d] = Opposite(Compare(b, c).dimensions[d])
         /\ Decided(b, c) =>
              /\ Compare(c, b).regressions = Compare(b, c).improvements
              /\ Compare(c, b).improvements = Compare(b, c).regressions
              /\ Compare(c, b).verdict = Opposite(Compare(b, c).verdict)
<1>1. /\ Compare(b, c).metrics = MetricRows(b, c) /\ Compare(c, b).metrics = MetricRows(c, b)
      /\ Compare(b, c).dimensions = DimensionRows(b, c)
      /\ Compare(c, b).dimensions = DimensionRows(c, b)
  BY DEF Compare
<1>2. ASSUME Decided(b, c)
      PROVE  /\ Compare(c, b).regressions = Compare(b, c).improvements
             /\ Compare(c, b).improvements = Compare(b, c).regressions
             /\ Compare(c, b).verdict = Opposite(Compare(b, c).verdict)
  <2>1. /\ Count(MetricRows(c, b), "regression") = Count(MetricRows(b, c), "improvement")
        /\ Count(MetricRows(c, b), "improvement") = Count(MetricRows(b, c), "regression")
    BY MetricsMirrored, CountMirrored
  <2>2. /\ Count(AssertionRows(c, b), "regression") = Count(AssertionRows(b, c), "improvement")
        /\ Count(AssertionRows(c, b), "improvement") = Count(AssertionRows(b, c), "regression")
    BY <1>2, AssertionsMirrored, CountMirrored
  <2> DEFINE worse  == Count(MetricRows(b, c), "regression") + Count(AssertionRows(b, c), "regression")
             better == Count(MetricRows(b, c), "improvement") + Count(AssertionRows(b, c), "improvement")
             verdict(r, i) == IF None \in {b, c} THEN "not_comparable"
                              ELSE IF r > 0 /\ i > 0 THEN "mixed"
                              ELSE IF r > 0 THEN "regression"
                              ELSE IF i > 0 THEN "improvement"
                              ELSE "unchanged"
  <2>3. /\ Compare(b, c).regressions = worse /\ Compare(b, c).improvements = better
        /\ Compare(b, c).verdict = verdict(worse, better)
    BY DEF Compare
  <2>4. /\ Compare(c, b).regressions = better /\ Compare(c, b).improvements = worse
        /\ Compare(c, b).verdict = verdict(better, worse)
    BY <2>1, <2>2 DEF Compare
  <2> HIDE DEF worse, better
  <2>5. verdict(better, worse) = Opposite(verdict(worse, better))
    BY DEF Opposite
  <2> QED BY <2>3, <2>4, <2>5
<1> QED BY <1>1, <1>2, MetricsMirrored, DimensionsMirrored

-----------------------------------------------------------------------------
(* The invariant. *)

Rows == Seq([id : Runs, state : States])

Data ==
  [runs : Rows, total : Nat] \cup [baseline : Runs, candidate : Runs]
    \cup [run : Runs] \cup [run : Runs, state : States] \cup {None}

Statuses == {"pending", "ok", "error"}

CompletedRuns == {r \in DOMAIN stored : stored[r] = "COMPLETED"}

\* An offset is that of the first page or of one with a run.
Reached(offset) == offset \in Nat /\ (offset = 0 \/ offset < Len(stored))

\* The keys that are asked for: of a page of runs, and of completed runs.
IsKey(key) ==
  \/ \E f \in Filters, l \in Nat \ {0}, o \in Nat :
       key = ListKey(f, l, o) /\ Reached(o)
  \/ \E b, c \in CompletedRuns : key = CompareKey(b, c)
  \/ \E r \in CompletedRuns : key = <<"report", r>> \/ key = <<"run", r>>

\* Rows of a filter, the newest first, as they were at some time: what was
\* completed then still is.
IsPage(d, filter) ==
  /\ d \in [runs : Rows, total : Nat] /\ d.total <= Len(stored)
  /\ \A row \in Range(d.runs) :
       /\ row.id \in DOMAIN stored
       /\ row.state = "COMPLETED" => stored[row.id] = "COMPLETED"
       /\ filter.state \in {ANY, row.state}
       /\ filter.scenario \in {ANY, ScenarioOf[row.id]}
  /\ \A i, j \in DOMAIN d.runs : i < j => d.runs[i].id > d.runs[j].id
  /\ filter = NoFilter /\ d.runs = <<>> => d.total = 0

\* An answer is about what was asked.
Answers(key, d) ==
  /\ key[1] = "runs" => IsPage(d, key[2])
  /\ key[1] = "compare" => d = [baseline |-> key[2], candidate |-> key[3]]
  /\ key[1] = "report" => d = [run |-> key[2]]

CacheInv ==
  /\ cache \in [DOMAIN cache -> [status : Statuses, data : Data, busy : BOOLEAN]]
  /\ \A key \in DOMAIN cache :
       IsKey(key) /\ (cache[key].data = None \/ Answers(key, cache[key].data))

\* What an address names are completed runs.
IsAddress(addr) ==
  \/ addr = History
  \/ \E b, c \in CompletedRuns \cup {None} : addr = CompareOf(b, c)
  \/ \E r \in CompletedRuns \cup {None} : addr = ReportOf(r)

IsList(l) ==
  /\ \E f \in Filters, o \in Nat : Reached(o) /\ l = [filter |-> f, offset |-> o, last |-> l.last]
  /\ l.last # None => l.last \in DOMAIN cache /\ l.last[1] = "runs" /\ IsPage(cache[l.last].data, l.last[2])

PagesInv ==
  /\ stored \in Seq(States) /\ Len(stored) \in Runs
  /\ CacheInv
  /\ IsAddress(address) /\ (pending = None \/ IsAddress(pending))
  /\ IsList(list)

-----------------------------------------------------------------------------
(* Runs go on. *)

\* No run is lost, and a completed run stays so.
GoesOn ==
  /\ stored \in Seq(States) /\ stored' \in Seq(States)
  /\ Len(stored) <= Len(stored')
  /\ \A r \in DOMAIN stored : stored[r] = "COMPLETED" => stored'[r] = "COMPLETED"

\* The runs there may be are numbered from one.
LEMMA NumberedRuns ==
  /\ Runs = 1..Len(ScenarioOf) /\ Len(ScenarioOf) \in Nat /\ None \notin Runs
  /\ \A n \in Runs : 1..n \subseteq Runs
<1>1. ScenarioOf \in Seq(Range(ScenarioOf))
  BY PagesAssumption
<1>2. Runs = 1..Len(ScenarioOf) /\ Len(ScenarioOf) \in Nat
  BY <1>1 DEF Runs
<1> QED BY <1>2, ComparisonAssumption

\* What was true of keys, answers and addresses is so when runs have gone on.
LEMMA GoneOn ==
  ASSUME GoesOn
  PROVE  /\ CompletedRuns \subseteq CompletedRuns' /\ DOMAIN stored \subseteq DOMAIN stored'
         /\ \A o : Reached(o) => Reached(o)'
         /\ \A key : IsKey(key) => IsKey(key)'
         /\ \A d, f : IsPage(d, f) => IsPage(d, f)'
         /\ \A key, d : Answers(key, d) => Answers(key, d)'
         /\ \A addr : IsAddress(addr) => IsAddress(addr)'
<1>1. /\ DOMAIN stored = 1..Len(stored) /\ DOMAIN stored' = 1..Len(stored')
      /\ Len(stored) \in Nat /\ Len(stored') \in Nat /\ Len(stored) <= Len(stored')
  BY DEF GoesOn
<1>2. DOMAIN stored \subseteq DOMAIN stored'
  BY <1>1
<1>3. CompletedRuns \subseteq CompletedRuns'
  BY <1>2 DEF CompletedRuns, GoesOn
<1>4. \A o : Reached(o) => Reached(o)'
  BY <1>1 DEF Reached
<1>5. ASSUME NEW key, IsKey(key) PROVE IsKey(key)'
  BY <1>3, <1>4, <1>5 DEF IsKey
<1>6. ASSUME NEW d, NEW f, IsPage(d, f) PROVE IsPage(d, f)'
  <2>1. d.total <= Len(stored')
    BY <1>1, <1>6 DEF IsPage
  <2>2. \A row \in Range(d.runs) :
          row.id \in DOMAIN stored' /\ (row.state = "COMPLETED" => stored'[row.id] = "COMPLETED")
    BY <1>2, <1>6 DEF IsPage, GoesOn
  <2> QED BY <1>6, <2>1, <2>2 DEF IsPage
<1>7. \A key, d : Answers(key, d) => Answers(key, d)'
  BY <1>6 DEF Answers
<1>8. ASSUME NEW addr, IsAddress(addr) PROVE IsAddress(addr)'
  BY <1>3, <1>8 DEF IsAddress
<1> QED BY <1>2, <1>3, <1>4, <1>5, <1>6, <1>7, <1>8

-----------------------------------------------------------------------------
(* The answers of the API. *)

\* A function of the numbers up to n is a sequence.
LEMMA FunctionSequence ==
  ASSUME NEW S, NEW n \in Nat, NEW q \in [1..n -> S]
  PROVE  q \in Seq(S)
OBVIOUS

\* There are n numbers up to n.
LEMMA FirstNumbers ==
  ASSUME NEW n \in Nat
  PROVE  IsFiniteSet(1..n) /\ Cardinality(1..n) = n
<1>1. 1 \in Int /\ n \in Int /\ (1 > n => n = 0)
  OBVIOUS
<1> QED BY <1>1, FS_Interval

\* The runs of a filter are numbers of runs, finitely many.
LEMMA MatchingRuns ==
  ASSUME stored \in Seq(States), NEW f
  PROVE  /\ Matching(f) \in SUBSET Nat /\ IsFiniteSet(Matching(f))
         /\ Cardinality(Matching(f)) \in Nat /\ Cardinality(Matching(f)) <= Len(stored)
<1>1. /\ DOMAIN stored = 1..Len(stored) /\ Len(stored) \in Nat
  OBVIOUS
<1>2. IsFiniteSet(1..Len(stored)) /\ Cardinality(1..Len(stored)) = Len(stored)
  BY <1>1, FirstNumbers
<1>3. Matching(f) \in SUBSET (1..Len(stored))
  BY <1>1 DEF Matching
<1>4. IsFiniteSet(Matching(f)) /\ Cardinality(Matching(f)) <= Len(stored)
  BY <1>2, <1>3, FS_Subset
<1> QED BY <1>1, <1>3, <1>4, FS_CardinalityType

\* The i-th newest of some runs is one of them, and older than those before it.
LEMMA NewestRanked ==
  ASSUME NEW S \in SUBSET Nat, IsFiniteSet(S), Cardinality(S) \in Nat
  PROVE  /\ \A i \in 1..Cardinality(S) : Newest(S, i) \in S
         /\ \A i, j \in 1..Cardinality(S) : i < j => Newest(S, i) > Newest(S, j)
<1> DEFINE n == Cardinality(S)
<1>1. /\ Ranked(S) \in Seq(Nat) /\ Range(Ranked(S)) = S /\ Len(Ranked(S)) = n
      /\ Grows(Ranked(S))
  BY RankedSet
<1>2. ASSUME NEW i \in 1..n
      PROVE  /\ n - i + 1 \in 1..n /\ Newest(S, i) = Ranked(S)[n - i + 1]
  <2>1. n - i + 1 \in 1..n /\ (n - i + 1) - 1 = n - i
    OBVIOUS
  <2>2. Ranked(S)[n - i + 1] = CHOOSE x \in S : Cardinality({y \in S : y < x}) = (n - i + 1) - 1
    BY <2>1 DEF Ranked
  <2> QED BY <2>1, <2>2 DEF Newest
<1>3. DOMAIN Ranked(S) = 1..n
  BY <1>1
<1> HIDE DEF n
<1>4. \A i \in 1..n : Newest(S, i) \in S
  BY <1>1, <1>2, <1>3 DEF Range
<1>5. ASSUME NEW i \in 1..n, NEW j \in 1..n, i < j
      PROVE  Newest(S, i) > Newest(S, j)
  <2>1. n - j + 1 < n - i + 1
    BY <1>5 DEF n
  <2>2. Ranked(S)[n - j + 1] < Ranked(S)[n - i + 1]
    BY <1>1, <1>2, <1>3, <2>1 DEF Grows
  <2> QED BY <1>2, <2>2
<1> QED BY <1>4, <1>5 DEF n

\* list_runs answers with rows of the filter, the newest first; without a filter
\* there are some on every page that was reached.
LEMMA ListRunsAnswers ==
  ASSUME stored \in Seq(States), Len(stored) \in Runs,
         NEW f \in Filters, NEW l \in Nat \ {0}, NEW o \in Nat, Reached(o)
  PROVE  IsPage(ListRuns(f, l, o), f) /\ ListRuns(f, l, o) \in Data
<1> DEFINE found == Matching(f)
           total == Cardinality(found)
           size  == Minimum(o + l, total) - o
           rows  == [i \in 1..size |->
                       LET r == Newest(found, o + i) IN [id |-> r, state |-> stored[r]]]
<1>1. ListRuns(f, l, o) = [runs |-> rows, total |-> total]
  BY DEF ListRuns
<1>2. found \in SUBSET Nat /\ IsFiniteSet(found) /\ total \in Nat /\ total <= Len(stored)
  BY MatchingRuns
<1>3. /\ \A i \in 1..total : Newest(found, i) \in found
      /\ \A i, j \in 1..total : i < j => Newest(found, i) > Newest(found, j)
  BY <1>2, NewestRanked
<1>4. size \in Int /\ \A i \in 1..size : i \in Nat /\ o + i \in 1..total
  <2> HIDE DEF total
  <2> QED BY <1>2 DEF Minimum
<1>5. found \subseteq DOMAIN stored /\ found \subseteq Runs /\ DOMAIN stored = 1..Len(stored)
  <2>1. DOMAIN stored = 1..Len(stored)
    OBVIOUS
  <2>2. 1..Len(stored) \subseteq Runs
    BY NumberedRuns
  <2> QED BY <2>1, <2>2 DEF Matching
<1> HIDE DEF total, found, size
<1>6. ASSUME NEW i \in 1..size
      PROVE  /\ rows[i] = [id |-> Newest(found, o + i), state |-> stored[Newest(found, o + i)]]
             /\ Newest(found, o + i) \in found
  BY <1>3, <1>4
<1>7. ASSUME NEW i \in 1..size
      PROVE  /\ rows[i] \in [id : Runs, state : States]
             /\ rows[i].id \in DOMAIN stored
             /\ rows[i].state = stored[rows[i].id]
             /\ f.state \in {ANY, rows[i].state}
             /\ f.scenario \in {ANY, ScenarioOf[rows[i].id]}
  <2>1. PICK r : r = Newest(found, o + i)
    OBVIOUS
  <2>2. r \in found /\ rows[i] = [id |-> r, state |-> stored[r]]
    BY <1>6, <2>1
  <2>3. r \in Runs /\ r \in DOMAIN stored /\ stored[r] \in States
    BY <1>5, <2>2
  <2>4. Matches(r, f)
    BY <2>2 DEF found, Matching
  <2> HIDE DEF rows
  <2> QED BY <2>2, <2>3, <2>4 DEF Matches
<1>8. ASSUME NEW i \in 1..size, NEW j \in 1..size, i < j
      PROVE  rows[i].id > rows[j].id
  <2>0. i \in Nat /\ j \in Nat /\ o + i \in 1..total /\ o + j \in 1..total
    BY <1>4
  <2>1. o + i < o + j
    BY <1>8, <2>0
  <2>2. Newest(found, o + i) > Newest(found, o + j)
    BY <1>3, <2>0, <2>1
  <2> QED BY <1>6, <2>2
<1>9. ASSUME f = NoFilter, total # 0
      PROVE  1 \in 1..size
  <2>1. found = 1..Len(stored)
    BY <1>5, <1>9 DEF found, Matching, Matches, NoFilter
  <2>2. total = Len(stored)
    <3>1. Len(stored) \in Nat
      OBVIOUS
    <3> QED BY <2>1, <3>1, FirstNumbers DEF total
  <2>3. o < total
    BY <1>2, <1>9, <2>2 DEF Reached
  <2> QED BY <1>2, <2>3 DEF size, Minimum
<1>10. DOMAIN rows = 1..size
  OBVIOUS
<1> HIDE DEF rows
<1>11. rows \in Rows /\ Range(rows) = {rows[i] : i \in 1..size}
  <2>1. rows \in [1..size -> [id : Runs, state : States]]
    <3>1. rows = [i \in DOMAIN rows |-> rows[i]]
      BY DEF rows
    <3> QED BY <1>7, <1>10, <3>1
  <2>2. CASE size \in Nat
    <3>1. rows \in Rows
      BY <2>1, <2>2, FunctionSequence DEF Rows
    <3> QED BY <1>10, <3>1 DEF Range
  <2>3. CASE size \notin Nat
    <3>1. 1..size = 1..0
      BY <1>4, <2>3
    <3>2. rows \in Rows
      BY <2>1, <3>1, FunctionSequence DEF Rows
    <3> QED BY <1>10, <3>2 DEF Range
  <2> QED BY <2>2, <2>3
<1>12. f = NoFilter /\ rows = <<>> => total = 0
  BY <1>9, <1>10
<1> QED
  <2> DEFINE d == [runs |-> rows, total |-> total]
  <2>1. d \in [runs : Rows, total : Nat] /\ d \in Data /\ d.runs = rows /\ d.total = total
    BY <1>2, <1>11 DEF Data
  <2> HIDE DEF d
  <2>2. IsPage(d, f)
    BY <1>2, <1>7, <1>8, <1>10, <1>11, <1>12, <2>1 DEF IsPage
  <2> QED BY <1>1, <2>1, <2>2 DEF d

\* What is answered to a key is about it.
LEMMA AnswerAnswers ==
  ASSUME stored \in Seq(States), Len(stored) \in Runs, NEW key, IsKey(key)
  PROVE  Answers(key, AnswerTo(key)) /\ AnswerTo(key) \in Data
<1>0. DOMAIN stored = 1..Len(stored) /\ CompletedRuns \subseteq Runs
      /\ \A r \in CompletedRuns : stored[r] \in States
  <2>1. DOMAIN stored = 1..Len(stored)
    OBVIOUS
  <2> QED BY <2>1, NumberedRuns DEF CompletedRuns
<1>1. ASSUME NEW f \in Filters, NEW l \in Nat \ {0}, NEW o \in Nat,
             key = ListKey(f, l, o), Reached(o)
      PROVE  Answers(key, AnswerTo(key)) /\ AnswerTo(key) \in Data
  <2>1. key[1] = "runs" /\ key[2] = f /\ key[3] = l /\ key[4] = o
    BY <1>1 DEF ListKey
  <2>2. AnswerTo(key) = ListRuns(f, l, o)
    BY <2>1 DEF AnswerTo
  <2>3. IsPage(ListRuns(f, l, o), f) /\ ListRuns(f, l, o) \in Data
    BY <1>1, ListRunsAnswers
  <2> QED BY <2>1, <2>2, <2>3 DEF Answers
<1>2. ASSUME NEW b \in CompletedRuns, NEW c \in CompletedRuns, key = CompareKey(b, c)
      PROVE  Answers(key, AnswerTo(key)) /\ AnswerTo(key) \in Data
  <2>1. key[1] = "compare" /\ key[2] = b /\ key[3] = c
    BY <1>2 DEF CompareKey
  <2>2. AnswerTo(key) = [baseline |-> b, candidate |-> c]
    BY <2>1 DEF AnswerTo
  <2> QED BY <1>0, <2>1, <2>2 DEF Answers, Data
<1>3. ASSUME NEW r \in CompletedRuns, key = <<"report", r>>
      PROVE  Answers(key, AnswerTo(key)) /\ AnswerTo(key) \in Data
  <2>1. key[1] = "report" /\ key[2] = r
    BY <1>3
  <2>2. AnswerTo(key) = [run |-> r]
    BY <2>1 DEF AnswerTo
  <2> QED BY <1>0, <2>1, <2>2 DEF Answers, Data
<1>4. ASSUME NEW r \in CompletedRuns, key = <<"run", r>>
      PROVE  Answers(key, AnswerTo(key)) /\ AnswerTo(key) \in Data
  <2>1. key[1] = "run" /\ key[2] = r
    BY <1>4
  <2>2. AnswerTo(key) = [run |-> r, state |-> stored[r]]
    BY <2>1 DEF AnswerTo
  <2> QED BY <1>0, <2>1, <2>2 DEF Answers, Data
<1> QED BY <1>1, <1>2, <1>3, <1>4 DEF IsKey

-----------------------------------------------------------------------------
(* The cache. *)

\* What a page uses are keys.
LEMMA ObservedKeys ==
  ASSUME NEW addr, IsAddress(addr), NEW f \in Filters, NEW o \in Nat, Reached(o),
         NEW l, l.filter = f, l.offset = o
  PROVE  \A key \in Observed(addr, l) : IsKey(key)
<1>1. IsKey(HistoryKey(l))
  BY PagesAssumption DEF HistoryKey, IsKey
<1>2. IsKey(PickKey)
  <2>1. [NoFilter EXCEPT !.state = "COMPLETED"] \in Filters
    BY DEF NoFilter, Filters
  <2>2. Reached(0)
    BY DEF Reached
  <2> QED BY <2>1, <2>2, PagesAssumption DEF PickKey, IsKey
<1>3. CASE addr = History
  <2>1. Observed(addr, l) = {HistoryKey(l)}
    BY <1>3 DEF Observed, History
  <2> QED BY <1>1, <2>1
<1>4. ASSUME NEW b \in CompletedRuns \cup {None}, NEW c \in CompletedRuns \cup {None},
             addr = CompareOf(b, c), NEW key \in Observed(addr, l)
      PROVE  IsKey(key)
  <2>1. addr.page = "compare" /\ addr.baseline = b /\ addr.candidate = c
    BY <1>4 DEF CompareOf
  <2>2. Observed(addr, l) =
          {PickKey} \cup (IF None \in {b, c} THEN {} ELSE {CompareKey(b, c)})
    BY <2>1 DEF Observed
  <2> QED BY <1>2, <1>4, <2>2 DEF IsKey
<1>5. ASSUME NEW r \in CompletedRuns \cup {None}, addr = ReportOf(r),
             NEW key \in Observed(addr, l)
      PROVE  IsKey(key)
  <2>1. addr.page = "reports" /\ addr.run = r
    BY <1>5 DEF ReportOf
  <2>2. Observed(addr, l) =
          {PickKey} \cup (IF r = None THEN {} ELSE {<<"report", r>>, <<"run", r>>})
    BY <2>1 DEF Observed
  <2> QED BY <1>2, <1>5, <2>2 DEF IsKey
<1> QED BY <1>3, <1>4, <1>5 DEF IsAddress

\* A page that uses keys has them asked for, and takes no answer away.
LEMMA UsesKeys ==
  ASSUME CacheInv, NEW keys, \A key \in keys : IsKey(key), NEW stale \in BOOLEAN
  PROVE  LET c == Uses(keys, stale)
         IN  /\ DOMAIN c = DOMAIN cache \cup keys
             /\ c \in [DOMAIN c -> [status : Statuses, data : Data, busy : BOOLEAN]]
             /\ \A key \in DOMAIN cache : c[key].data = cache[key].data
             /\ \A key \in DOMAIN c : IsKey(key)
             /\ \A key \in DOMAIN c :
                  c[key].data = None \/ (key \in DOMAIN cache /\ c[key].data = cache[key].data)
<1> DEFINE c == Uses(keys, stale)
           Queries == [status : Statuses, data : Data, busy : BOOLEAN]
<1>1. DOMAIN c = DOMAIN cache \cup keys
  BY DEF Uses
<1>2. ASSUME NEW q \in Queries
      PROVE  Fetching(q) \in Queries /\ Fetching(q).data = q.data
  <2>1. PICK s \in Statuses : Fetching(q) = [q EXCEPT !.busy = TRUE, !.status = s]
    BY DEF Fetching, Statuses
  <2> QED BY <2>1
<1>3. Unasked \in Queries /\ Unasked.data = None
  BY DEF Unasked, Statuses, Data
<1> HIDE DEF Queries
<1>4. ASSUME NEW key \in DOMAIN c
      PROVE  /\ c[key] \in Queries
             /\ key \in DOMAIN cache => c[key].data = cache[key].data
             /\ key \notin DOMAIN cache => c[key].data = None
  <2>1. c[key] = IF key \notin DOMAIN cache THEN Unasked
                 ELSE IF key \in keys /\ (stale \/ ~HasData(cache[key])) THEN Fetching(cache[key])
                 ELSE cache[key]
    BY DEF Uses
  <2>2. key \in DOMAIN cache => cache[key] \in Queries
    BY DEF CacheInv, Queries
  <2> QED BY <1>2, <1>3, <2>1, <2>2
<1>5. \A key \in DOMAIN c : IsKey(key)
  BY <1>1 DEF CacheInv
<1>6. c = [key \in DOMAIN c |-> c[key]]
  BY DEF Uses
<1> HIDE DEF c
<1>7. c \in [DOMAIN c -> Queries]
  BY <1>4, <1>6
<1> QED BY <1>1, <1>4, <1>5, <1>7 DEF c, Queries

\* An answer that a page has is in the cache, about the page's key.
LEMMA QueryAnswers ==
  ASSUME CacheInv, NEW key, HasData(Query(key))
  PROVE  key \in DOMAIN cache /\ Answers(key, Query(key).data) /\ Query(key) = cache[key]
BY DEF CacheInv, HasData, Query, Unasked

\* What the history shows are rows of its filters, or of those it had before.
LEMMA ShownPage ==
  ASSUME PagesInv
  PROVE  /\ \E f : IsPage(Shown, f)
         /\ ~Placeholder => IsPage(Shown, list.filter)
<1>1. CASE Placeholder
  BY <1>1 DEF Placeholder, Shown, PagesInv, IsList
<1>2. CASE ~Placeholder /\ HasData(Query(HistoryKey(list)))
  <2>1. Answers(HistoryKey(list), Query(HistoryKey(list)).data)
    BY <1>2, QueryAnswers DEF PagesInv
  <2>2. HistoryKey(list)[1] = "runs" /\ HistoryKey(list)[2] = list.filter
    BY DEF HistoryKey, ListKey
  <2>3. Shown = Query(HistoryKey(list)).data
    BY <1>2 DEF Shown
  <2> QED BY <1>2, <2>1, <2>2, <2>3 DEF Answers
<1>3. CASE ~Placeholder /\ ~HasData(Query(HistoryKey(list)))
  <2>1. PICK d : d = [runs |-> <<>>, total |-> 0]
    OBVIOUS
  <2>2. d.runs = <<>> /\ d.total = 0 /\ d \in [runs : Rows, total : Nat]
    BY <2>1 DEF Rows
  <2>3. Range(<<>>) = {} /\ DOMAIN <<>> = {} /\ Len(stored) \in Nat
    BY DEF Range, PagesInv
  <2>4. IsPage(d, list.filter)
    BY <2>2, <2>3 DEF IsPage
  <2> QED BY <1>3, <2>1, <2>4 DEF Shown
<1> QED BY <1>1, <1>2, <1>3

\* The runs that are offered, and those with buttons, are completed.
LEMMA OfferedCompleted ==
  ASSUME PagesInv
  PROVE  /\ \A r \in Offered : r.id \in CompletedRuns
         /\ \A r \in Completed(Shown.runs) : r.id \in CompletedRuns
<1>1. ASSUME NEW r \in Offered
      PROVE  r.id \in CompletedRuns
  <2>1. HasData(Query(PickKey)) /\ r \in Range(Query(PickKey).data.runs)
    BY DEF Offered
  <2>2. Answers(PickKey, Query(PickKey).data)
    BY <2>1, QueryAnswers DEF PagesInv
  <2>3. PickKey[1] = "runs" /\ PickKey[2] = [NoFilter EXCEPT !.state = "COMPLETED"]
    BY DEF PickKey, ListKey
  <2>4. PickKey[2].state = "COMPLETED"
    BY <2>3 DEF NoFilter
  <2>5. IsPage(Query(PickKey).data, PickKey[2])
    BY <2>2, <2>3 DEF Answers
  <2>6. r.id \in DOMAIN stored /\ (r.state = "COMPLETED" => stored[r.id] = "COMPLETED")
        /\ "COMPLETED" \in {ANY, r.state}
    BY <2>1, <2>4, <2>5 DEF IsPage
  <2> QED BY <2>6, PagesAssumption DEF CompletedRuns
<1>2. ASSUME NEW r \in Completed(Shown.runs)
      PROVE  r.id \in CompletedRuns
  <2>1. PICK f : IsPage(Shown, f)
    BY ShownPage
  <2> QED BY <2>1 DEF Completed, IsPage, CompletedRuns
<1> QED BY <1>1, <1>2

-----------------------------------------------------------------------------
(* The steps. *)

\* What a history may have shown last is a page that was answered.
WasShown(last) ==
  last \in DOMAIN cache /\ last[1] = "runs" /\ IsPage(cache[last].data, last[2])

\* A list is one when what it showed last was, and the cache keeps the answer.
LEMMA ListKept ==
  ASSUME stored' = stored, DOMAIN cache \subseteq DOMAIN cache',
         \A key \in DOMAIN cache : cache'[key].data = cache[key].data,
         NEW f \in Filters, NEW o \in Nat, Reached(o), NEW last,
         last # None => WasShown(last),
         list' = [filter |-> f, offset |-> o, last |-> last]
  PROVE  IsList(list)'
<1>1. Reached(o)'
  BY DEF Reached
<1>2. ASSUME last # None
      PROVE  last \in DOMAIN cache' /\ last[1] = "runs" /\ IsPage(cache[last].data, last[2])'
  <2>1. last \in DOMAIN cache /\ last[1] = "runs" /\ IsPage(cache[last].data, last[2])
    BY <1>2 DEF WasShown
  <2>2. cache'[last].data = cache[last].data
    BY <2>1
  <2>3. IsPage(cache[last].data, last[2])'
    BY <2>1, <2>2 DEF IsPage
  <2> QED BY <2>1, <2>3
<1>3. list'.last = last /\ list' = [filter |-> f, offset |-> o, last |-> list'.last]
  OBVIOUS
<1>4. list'.last # None => list'.last \in DOMAIN cache' /\ list'.last[1] = "runs"
                           /\ IsPage(cache[list.last].data, list.last[2])'
  BY <1>2, <1>3
<1> QED BY <1>1, <1>3, <1>4 DEF IsList

\* What the list is.
LEMMA TheList ==
  ASSUME PagesInv
  PROVE  /\ list = [filter |-> list.filter, offset |-> list.offset, last |-> list.last]
         /\ list.filter \in Filters /\ list.offset \in Nat /\ Reached(list.offset)
         /\ list.last # None => WasShown(list.last)
BY DEF PagesInv, IsList, WasShown

\* A step in which runs stay as they are.
LEMMA StoredStays ==
  ASSUME PagesInv, stored' = stored
  PROVE  /\ CompletedRuns' = CompletedRuns
         /\ \A o : Reached(o) => Reached(o)'
         /\ \A key : IsKey(key) => IsKey(key)'
         /\ \A d, f : IsPage(d, f) => IsPage(d, f)'
         /\ \A key, d : Answers(key, d) => Answers(key, d)'
         /\ \A addr : IsAddress(addr) => IsAddress(addr)'
<1>1. GoesOn
  <2>1. stored \in Seq(States) /\ Len(stored) \in Nat
    BY DEF PagesInv
  <2> QED BY <2>1 DEF GoesOn
<1>2. CompletedRuns' = CompletedRuns
  BY DEF CompletedRuns
<1> QED BY <1>1, <1>2, GoneOn

\* The cache once a page uses other keys.
LEMMA CacheUses ==
  ASSUME PagesInv, stored' = stored, NEW keys, \A key \in keys : IsKey(key),
         NEW stale \in BOOLEAN, cache' = Uses(keys, stale)
  PROVE  /\ CacheInv' /\ DOMAIN cache \subseteq DOMAIN cache'
         /\ \A key \in DOMAIN cache : cache'[key].data = cache[key].data
<1>1. /\ cache' \in [DOMAIN cache' -> [status : Statuses, data : Data, busy : BOOLEAN]]
      /\ DOMAIN cache' = DOMAIN cache \cup keys
      /\ \A key \in DOMAIN cache : cache'[key].data = cache[key].data
      /\ \A key \in DOMAIN cache' : IsKey(key)
      /\ \A key \in DOMAIN cache' :
           cache'[key].data = None \/ (key \in DOMAIN cache /\ cache'[key].data = cache[key].data)
  BY UsesKeys DEF PagesInv
<1>2. ASSUME NEW key \in DOMAIN cache'
      PROVE  /\ IsKey(key)'
             /\ cache'[key].data = None \/ Answers(key, cache[key].data)'
  <2>1. IsKey(key)'
    BY <1>1, StoredStays
  <2>2. CASE cache'[key].data # None
    <3>1. key \in DOMAIN cache /\ cache'[key].data = cache[key].data
      BY <1>1, <2>2
    <3>2. Answers(key, cache[key].data)
      BY <2>2, <3>1 DEF PagesInv, CacheInv
    <3>3. \A d : Answers(key, d) => Answers(key, d)'
      BY StoredStays
    <3>4. PICK d : d = cache[key].data
      OBVIOUS
    <3>5. Answers(key, d)' /\ d = cache'[key].data
      BY <3>1, <3>2, <3>3, <3>4
    <3>6. Answers(key, cache[key].data)'
      BY <3>5 DEF Answers, IsPage
    <3> QED BY <2>1, <3>6
  <2> QED BY <2>1, <2>2
<1> QED BY <1>1, <1>2 DEF CacheInv

\* What it is for runs to be created and to end.
LEMMA RunStep ==
  ASSUME PagesInv, Create \/ Finish
  PROVE  stored' \in Seq(States) /\ Len(stored') \in Runs /\ GoesOn
<1>1. stored \in Seq(States) /\ Len(stored) \in Runs
      /\ DOMAIN stored = 1..Len(stored) /\ Len(stored) \in Nat
  BY DEF PagesInv
<1>2. CASE Create
  <2>1. stored' = Append(stored, "RUNNING") /\ Len(stored) + 1 \in Runs
    BY <1>2 DEF Create
  <2>2. /\ stored' \in Seq(States) /\ Len(stored') = Len(stored) + 1
        /\ \A r \in 1..Len(stored) : stored'[r] = stored[r]
    BY <1>1, <2>1 DEF States
  <2> QED BY <1>1, <2>1, <2>2 DEF GoesOn
<1>3. CASE Finish
  <2>1. PICK r \in DOMAIN stored :
          stored[r] = "RUNNING" /\ stored' = [stored EXCEPT ![r] = EndsAs[r]]
    BY <1>3 DEF Finish
  <2>2. r \in Runs
    BY <1>1, NumberedRuns
  <2>3. EndsAs[r] \in States
    BY <2>2, PagesAssumption DEF States
  <2>4. stored' \in Seq(States) /\ Len(stored') = Len(stored)
    BY <1>1, <2>1, <2>3
  <2>5. \A s \in DOMAIN stored : stored[s] = "COMPLETED" => stored'[s] = "COMPLETED"
    BY <2>1
  <2> QED BY <1>1, <2>4, <2>5 DEF GoesOn
<1> QED BY <1>2, <1>3

\* Runs are created and end.
LEMMA RunsGoOn ==
  ASSUME PagesInv, Create \/ Finish
  PROVE  PagesInv'
<1>1. UNCHANGED <<cache, address, pending, list, counts>>
  BY DEF Create, Finish
<1>2. stored' \in Seq(States) /\ Len(stored') \in Runs /\ GoesOn
  BY RunStep
<1>3. CacheInv'
  <2>1. ASSUME NEW key \in DOMAIN cache
        PROVE  IsKey(key)' /\ (cache[key].data = None \/ Answers(key, cache[key].data)')
    <3>1. IsKey(key)'
      BY <1>2, GoneOn DEF PagesInv, CacheInv
    <3>2. PICK d : d = cache[key].data
      OBVIOUS
    <3>3. d = None \/ Answers(key, d)'
      BY <1>2, <3>2, GoneOn DEF PagesInv, CacheInv
    <3>4. cache'[key].data = d
      BY <1>1, <3>2
    <3>5. cache[key].data = None \/ Answers(key, cache[key].data)'
      BY <3>2, <3>3, <3>4 DEF Answers, IsPage
    <3> QED BY <3>1, <3>5
  <2> QED BY <1>1, <2>1 DEF PagesInv, CacheInv
<1>4. IsAddress(address)' /\ (pending' = None \/ IsAddress(pending)')
  BY <1>1, <1>2, GoneOn DEF PagesInv, IsAddress
<1>5. IsList(list)'
  <2>1. Reached(list.offset)'
    BY <1>1, <1>2, TheList, GoneOn DEF Reached
  <2>2. ASSUME list.last # None
        PROVE  IsPage(cache[list.last].data, list.last[2])'
    <3>1. PICK d, f : d = cache[list.last].data /\ f = list.last[2]
      OBVIOUS
    <3>2. IsPage(d, f)
      BY <2>2, <3>1, TheList DEF WasShown
    <3>3. IsPage(d, f)'
      BY <1>2, <3>2, GoneOn
    <3>4. cache'[list'.last].data = d /\ list'.last[2] = f
      BY <1>1, <3>1
    <3> QED BY <3>3, <3>4 DEF IsPage
  <2>3. /\ list.filter \in Filters /\ list.offset \in Nat
        /\ list' = [filter |-> list.filter, offset |-> list.offset, last |-> list'.last]
    BY <1>1, TheList
  <2>4. list'.last # None => list'.last \in DOMAIN cache' /\ list'.last[1] = "runs"
    BY <1>1, TheList DEF WasShown
  <2> QED BY <1>1, <2>1, <2>2, <2>3, <2>4 DEF IsList
<1> QED BY <1>2, <1>3, <1>4, <1>5 DEF PagesInv

\* The way to another page or other filters.
LEMMA TurnStep ==
  ASSUME PagesInv, NEW f \in Filters, NEW o \in Nat, Turn(f, o)
  PROVE  /\ \E stale \in BOOLEAN : cache' = Uses({ListKey(f, PAGE_SIZE, o)}, stale)
         /\ \E last :
              /\ list' = [filter |-> f, offset |-> o, last |-> last]
              /\ \/ last = list.last
                 \/ last = ListKey(f, PAGE_SIZE, o) /\ HasData(Query(last))
         /\ UNCHANGED <<stored, address, pending>>
<1>1. PICK l : l = [filter |-> f, offset |-> o, last |-> list.last]
  OBVIOUS
<1>2. l = [list EXCEPT !.filter = f, !.offset = o]
  <2>1. PICK a, b, c : list = [filter |-> a, offset |-> b, last |-> c]
    BY TheList
  <2>2. PICK x : x = [list EXCEPT !.filter = f]
    OBVIOUS
  <2>3. x = [filter |-> f, offset |-> b, last |-> c]
    BY <2>1, <2>2
  <2>4. [list EXCEPT !.filter = f, !.offset = o] = [x EXCEPT !.offset = o]
    BY <2>2
  <2>5. [x EXCEPT !.offset = o] = [filter |-> f, offset |-> o, last |-> c]
    BY <2>3
  <2> QED BY <1>1, <2>1, <2>4, <2>5
<1>3. HistoryKey(l) = ListKey(f, PAGE_SIZE, o)
  BY <1>1 DEF HistoryKey
<1>4. \E stale \in BOOLEAN : cache' = Uses({ListKey(f, PAGE_SIZE, o)}, stale)
  BY <1>2, <1>3 DEF Turn
<1>5. PICK last : last = IF HasData(Query(HistoryKey(l))) THEN HistoryKey(l) ELSE list.last
  OBVIOUS
<1>6. list' = [l EXCEPT !.last = last]
  BY <1>2, <1>5 DEF Turn
<1>7. list' = [filter |-> f, offset |-> o, last |-> last]
  BY <1>1, <1>6
<1>8. last = list.last \/ (last = ListKey(f, PAGE_SIZE, o) /\ HasData(Query(last)))
  BY <1>3, <1>5
<1> QED BY <1>4, <1>7, <1>8 DEF Turn

\* Another filter or another page that was reached.
LEMMA Turning ==
  ASSUME PagesInv, NEW f \in Filters, NEW o \in Nat, Reached(o), Turn(f, o)
  PROVE  PagesInv'
<1>1. PICK stale \in BOOLEAN : cache' = Uses({ListKey(f, PAGE_SIZE, o)}, stale)
  BY TurnStep
<1>2. PICK last :
        /\ list' = [filter |-> f, offset |-> o, last |-> last]
        /\ last = list.last \/ (last = ListKey(f, PAGE_SIZE, o) /\ HasData(Query(last)))
  BY TurnStep
<1>3. UNCHANGED <<stored, address, pending>>
  BY TurnStep
<1>4. PICK key : key = ListKey(f, PAGE_SIZE, o)
  OBVIOUS
<1>5. IsKey(key) /\ key[1] = "runs" /\ key[2] = f
  BY <1>4, PagesAssumption DEF IsKey, ListKey
<1>6. /\ CacheInv' /\ DOMAIN cache \subseteq DOMAIN cache'
      /\ \A k \in DOMAIN cache : cache'[k].data = cache[k].data
  BY <1>1, <1>3, <1>4, <1>5, CacheUses
<1>7. last # None => WasShown(last)
  <2>1. CASE last = key /\ HasData(Query(last))
    BY <1>5, <2>1, QueryAnswers DEF WasShown, Answers, PagesInv
  <2>2. CASE last = list.last
    BY <2>2, TheList
  <2> QED BY <1>2, <1>4, <2>1, <2>2
<1>8. IsList(list)'
  BY <1>2, <1>3, <1>6, <1>7, ListKept
<1>9. IsAddress(address)' /\ (pending' = None \/ IsAddress(pending)')
  BY <1>3, StoredStays DEF PagesInv, IsAddress
<1> QED BY <1>3, <1>6, <1>8, <1>9 DEF PagesInv

\* The controls of the history: no page is reached behind what was listed.
LEMMA Controls ==
  ASSUME PagesInv, SetFilter \/ ResetFilters \/ NextPage \/ PreviousPage
  PROVE  PagesInv'
<1>1. Reached(0) /\ Len(stored) \in Nat /\ PAGE_SIZE \in Nat
  BY PagesAssumption DEF Reached, PagesInv
<1>2. CASE SetFilter
  BY <1>1, <1>2, Turning DEF SetFilter
<1>3. CASE ResetFilters
  <2>1. NoFilter \in Filters
    BY DEF NoFilter, Filters
  <2> QED BY <1>1, <1>3, <2>1, Turning DEF ResetFilters
<1>4. CASE NextPage
  <2>1. Shown.total \in Nat /\ Shown.total <= Len(stored)
    BY ShownPage DEF IsPage
  <2>2. list.offset + PAGE_SIZE \in Nat /\ list.offset + PAGE_SIZE < Shown.total
    BY <1>1, <1>4, <2>1, TheList DEF NextPage, LastPage
  <2>3. Reached(list.offset + PAGE_SIZE)
    BY <1>1, <2>1, <2>2 DEF Reached
  <2>4. Turn(list.filter, list.offset + PAGE_SIZE)
    BY <1>4 DEF NextPage
  <2> QED BY <2>2, <2>3, <2>4, TheList, Turning
<1>5. CASE PreviousPage
  <2>1. PICK o : o = IF list.offset > PAGE_SIZE THEN list.offset - PAGE_SIZE ELSE 0
    OBVIOUS
  <2>2. o \in Nat /\ Reached(o)
    BY <1>1, <2>1, TheList DEF Reached
  <2>3. Turn(list.filter, o)
    BY <1>5, <2>1 DEF PreviousPage
  <2> QED BY <2>2, <2>3, TheList, Turning
<1> QED BY <1>2, <1>3, <1>4, <1>5

\* A request is answered, or fails; a failed one is sent again.
LEMMA Requests ==
  ASSUME PagesInv, NEW key \in DOMAIN cache, Serve(key) \/ Fail(key)
  PROVE  PagesInv'
<1> DEFINE Queries == [status : Statuses, data : Data, busy : BOOLEAN]
<1>1. /\ UNCHANGED <<stored, address, pending>> /\ IsKey(key)
      /\ cache \in [DOMAIN cache -> Queries]
  BY DEF Serve, Fail, PagesInv, CacheInv
<1>2. Answers(key, AnswerTo(key)) /\ AnswerTo(key) \in Data
  BY <1>1, AnswerAnswers DEF PagesInv
<1>3. PICK q \in Queries :
        /\ cache' = [cache EXCEPT ![key] = q]
        /\ q.data = cache[key].data \/ Answers(key, q.data)
        /\ q.data = cache[key].data \/ Serve(key)
  <2>1. CASE Serve(key)
    <3>1. PICK q : q = [status |-> "ok", data |-> AnswerTo(key), busy |-> FALSE]
      OBVIOUS
    <3>2. q \in Queries /\ q.data = AnswerTo(key)
      BY <1>2, <3>1 DEF Statuses
    <3> QED BY <1>2, <2>1, <3>1, <3>2 DEF Serve
  <2>2. CASE Fail(key)
    <3>1. PICK q : q = [cache[key] EXCEPT !.status = "error", !.busy = FALSE]
      OBVIOUS
    <3>2. cache[key] \in Queries
      BY <1>1
    <3>3. q = [status |-> "error", data |-> cache[key].data, busy |-> FALSE]
      BY <3>1, <3>2
    <3>4. q \in Queries /\ q.data = cache[key].data
      BY <3>2, <3>3 DEF Statuses
    <3>5. cache' = [cache EXCEPT ![key] = q]
      BY <1>1, <2>2, <3>1 DEF Fail
    <3> QED BY <3>4, <3>5
  <2> QED BY <2>1, <2>2
<1> HIDE DEF Queries
<1>4. /\ cache' \in [DOMAIN cache' -> Queries] /\ DOMAIN cache' = DOMAIN cache
      /\ cache'[key] = q /\ \A k \in DOMAIN cache \ {key} : cache'[k] = cache[k]
  BY <1>1, <1>3
<1>5. ASSUME NEW k \in DOMAIN cache
      PROVE  /\ IsKey(k) /\ (cache'[k].data = None \/ Answers(k, cache'[k].data))
             /\ k # key => cache'[k].data = cache[k].data
  BY <1>1, <1>3, <1>4 DEF PagesInv, CacheInv
<1>6. CacheInv'
  <2>1. ASSUME NEW k \in DOMAIN cache
        PROVE  IsKey(k)' /\ (cache'[k].data = None \/ Answers(k, cache[k].data)')
    <3>1. PICK d : d = cache'[k].data
      OBVIOUS
    <3>2. d = None \/ Answers(k, d)'
      BY <1>1, <1>5, <3>1, StoredStays
    <3>3. cache'[k].data = None \/ Answers(k, cache[k].data)'
      BY <3>1, <3>2 DEF Answers, IsPage
    <3> QED BY <1>1, <1>5, <3>3, StoredStays
  <2> QED BY <1>4, <2>1 DEF CacheInv, Queries
<1>7. IsList(list)'
  <2>1. PICK f, o, last :
          /\ f \in Filters /\ o \in Nat
          /\ Reached(o) /\ list' = [filter |-> f, offset |-> o, last |-> last]
          /\ last = list.last \/ (last = key /\ Serve(key) /\ last[1] = "runs")
    <3>1. PICK a, b, c : list = [filter |-> a, offset |-> b, last |-> c]
      BY TheList
    <3>2. a \in Filters /\ b \in Nat /\ Reached(b) /\ c = list.last
      BY <3>1, TheList
    <3>3. CASE list' = list
      BY <3>1, <3>2, <3>3
    <3>4. CASE Serve(key) /\ key = HistoryKey(list) /\ list' = [list EXCEPT !.last = key]
      <4>1. key[1] = "runs"
        BY <3>4 DEF HistoryKey, ListKey
      <4>2. list' = [filter |-> a, offset |-> b, last |-> key]
        BY <3>1, <3>4
      <4> QED BY <3>2, <3>4, <4>1, <4>2
    <3> QED BY <3>3, <3>4 DEF Serve, Fail
  <2>2. Reached(o)'
    BY <1>1, <2>1, StoredStays
  <2>3. ASSUME last # None
        PROVE  last \in DOMAIN cache' /\ last[1] = "runs" /\ IsPage(cache[last].data, last[2])'
    <3>1. last \in DOMAIN cache /\ last[1] = "runs" /\ IsPage(cache'[last].data, last[2])
      <4>1. CASE last = key /\ Serve(key)
        <5>1. last[1] = "runs"
          BY <2>1, <2>3, TheList, <4>1 DEF WasShown
        <5>2. cache'[key].data = AnswerTo(key)
          BY <1>1, <4>1 DEF Serve
        <5> QED BY <1>2, <4>1, <5>1, <5>2 DEF Answers
      <4>2. CASE last = list.last /\ (last # key \/ ~Serve(key))
        <5>1. WasShown(last)
          BY <2>3, <4>2, TheList
        <5>2. cache'[last].data = cache[last].data
          BY <1>3, <1>4, <1>5, <4>2, <5>1 DEF WasShown
        <5> QED BY <5>1, <5>2 DEF WasShown
      <4> QED BY <2>1, <4>1, <4>2
    <3>2. PICK d, f2 : d = cache'[last].data /\ f2 = last[2]
      OBVIOUS
    <3>3. IsPage(d, f2)'
      BY <1>1, <3>1, <3>2, StoredStays
    <3>4. IsPage(cache[last].data, last[2])'
      BY <3>2, <3>3 DEF IsPage
    <3> QED BY <1>4, <3>1, <3>4
  <2>4. list'.last = last /\ list' = [filter |-> f, offset |-> o, last |-> list'.last]
    BY <2>1
  <2>5. list'.last # None => list'.last \in DOMAIN cache' /\ list'.last[1] = "runs"
                             /\ IsPage(cache[list.last].data, list.last[2])'
    BY <2>3, <2>4
  <2>6. f \in Filters /\ o \in Nat
    BY <2>1
  <2> QED BY <2>2, <2>4, <2>5, <2>6 DEF IsList
<1>8. IsAddress(address)' /\ (pending' = None \/ IsAddress(pending)')
  BY <1>1, StoredStays DEF PagesInv, IsAddress
<1> QED BY <1>1, <1>6, <1>7, <1>8 DEF PagesInv

\* A request that is sent again leaves the answers.
LEMMA RetryStep ==
  ASSUME PagesInv, Retry
  PROVE  /\ DOMAIN cache' = DOMAIN cache
         /\ cache' \in [DOMAIN cache -> [status : Statuses, data : Data, busy : BOOLEAN]]
         /\ \A k \in DOMAIN cache : cache'[k].data = cache[k].data
<1> DEFINE Queries == [status : Statuses, data : Data, busy : BOOLEAN]
<1>1. PICK key : /\ cache' = [cache EXCEPT ![key] = Fetching(@)]
                 /\ Query(key).status = "error"
  BY DEF Retry
<1>2. key \in DOMAIN cache /\ cache \in [DOMAIN cache -> Queries]
  BY <1>1 DEF Query, Unasked, PagesInv, CacheInv
<1>3. /\ Fetching(cache[key]) \in Queries
      /\ Fetching(cache[key]).data = cache[key].data
  <2>1. cache[key] \in Queries
    BY <1>2
  <2>2. PICK s \in Statuses : Fetching(cache[key]) = [cache[key] EXCEPT !.busy = TRUE, !.status = s]
    BY <2>1 DEF Fetching, Statuses
  <2>3. Fetching(cache[key]) = [status |-> s, data |-> cache[key].data, busy |-> TRUE]
    BY <2>1, <2>2
  <2> QED BY <2>1, <2>3
<1> HIDE DEF Queries
<1>4. /\ cache' \in [DOMAIN cache -> Queries] /\ DOMAIN cache' = DOMAIN cache
      /\ \A k \in DOMAIN cache : cache'[k].data = cache[k].data
  BY <1>1, <1>2, <1>3
<1> QED BY <1>4 DEF Queries

\* A failed request is sent again.
LEMMA Retrying ==
  ASSUME PagesInv, Retry
  PROVE  PagesInv'
<1>1. UNCHANGED <<stored, address, pending, list>>
  BY DEF Retry
<1>2. /\ cache' \in [DOMAIN cache' -> [status : Statuses, data : Data, busy : BOOLEAN]]
      /\ DOMAIN cache' = DOMAIN cache
      /\ \A k \in DOMAIN cache : cache'[k].data = cache[k].data
  BY RetryStep
<1>3. CacheInv'
  <2>1. ASSUME NEW k \in DOMAIN cache
        PROVE  IsKey(k)' /\ (cache'[k].data = None \/ Answers(k, cache[k].data)')
    <3>1. PICK d : d = cache[k].data
      OBVIOUS
    <3>2. d = None \/ Answers(k, d)'
      BY <1>1, <3>1, StoredStays DEF PagesInv, CacheInv
    <3>3. cache'[k].data = None \/ Answers(k, cache[k].data)'
      BY <1>2, <3>1, <3>2 DEF Answers, IsPage
    <3> QED BY <1>1, <3>3, StoredStays DEF PagesInv, CacheInv
  <2> QED BY <1>2, <2>1 DEF CacheInv
<1>4. IsList(list)'
  <2>1. PICK f, o, last :
          /\ f \in Filters /\ o \in Nat
          /\ Reached(o) /\ list = [filter |-> f, offset |-> o, last |-> last]
          /\ last # None => WasShown(last)
    BY TheList
  <2> QED BY <1>1, <1>2, <2>1, ListKept
<1>5. IsAddress(address)' /\ (pending' = None \/ IsAddress(pending)')
  BY <1>1, StoredStays DEF PagesInv, IsAddress
<1> QED BY <1>1, <1>3, <1>4, <1>5 DEF PagesInv

\* A click leads to an address of completed runs.
LEMMA Clicks ==
  ASSUME PagesInv, Follow \/ FollowRow \/ Pick \/ SelectReport
  PROVE  PagesInv'
<1>1. PICK addr : IsAddress(addr) /\ Go(addr)
  <2>1. CASE Follow
    BY <2>1 DEF Follow, IsAddress
  <2>2. CASE FollowRow
    BY <2>2, OfferedCompleted DEF FollowRow, IsAddress
  <2>3. CASE Pick
    <3>1. PICK b \in CompletedRuns \cup {None}, c \in CompletedRuns \cup {None} :
            address = CompareOf(b, c)
      BY <2>3 DEF Pick, PagesInv, IsAddress, History, ReportOf
    <3>2. PICK r \in Offered :
            Go([address EXCEPT !.baseline = r.id]) \/ Go([address EXCEPT !.candidate = r.id])
      BY <2>3 DEF Pick
    <3>3. r.id \in CompletedRuns
      BY OfferedCompleted
    <3>4. /\ [address EXCEPT !.baseline = r.id] = CompareOf(r.id, c)
          /\ [address EXCEPT !.candidate = r.id] = CompareOf(b, r.id)
      BY <3>1 DEF CompareOf
    <3> QED BY <3>2, <3>3, <3>4 DEF IsAddress
  <2>4. CASE SelectReport
    BY <2>4, OfferedCompleted DEF SelectReport, IsAddress
  <2> QED BY <2>1, <2>2, <2>3, <2>4
<1>2. pending' = addr /\ UNCHANGED <<stored, cache, address, list>>
  BY <1>1 DEF Go
<1>3. CacheInv'
  <2>1. ASSUME NEW k \in DOMAIN cache
        PROVE  IsKey(k)' /\ (cache[k].data = None \/ Answers(k, cache[k].data)')
    <3>1. PICK d : d = cache[k].data
      OBVIOUS
    <3>2. d = None \/ Answers(k, d)'
      BY <1>2, <3>1, StoredStays DEF PagesInv, CacheInv
    <3>3. cache[k].data = None \/ Answers(k, cache[k].data)'
      BY <1>2, <3>1, <3>2 DEF Answers, IsPage
    <3> QED BY <1>2, <3>3, StoredStays DEF PagesInv, CacheInv
  <2> QED BY <1>2, <2>1 DEF PagesInv, CacheInv
<1>4. IsList(list)'
  <2>1. PICK f, o, last :
          /\ f \in Filters /\ o \in Nat
          /\ Reached(o) /\ list = [filter |-> f, offset |-> o, last |-> last]
          /\ last # None => WasShown(last)
    BY TheList
  <2> QED BY <1>2, <2>1, ListKept
<1>5. IsAddress(address)' /\ IsAddress(pending)'
  <2>1. IsAddress(addr)'
    BY <1>1, <1>2, StoredStays
  <2> QED BY <1>2, <2>1, StoredStays DEF PagesInv, IsAddress
<1> QED BY <1>2, <1>3, <1>4, <1>5 DEF PagesInv

\* The new page is rendered, and uses its keys.
LEMMA Navigating ==
  ASSUME PagesInv, Navigate
  PROVE  PagesInv'
<1>1. /\ UNCHANGED stored /\ address' = pending /\ pending' = None /\ IsAddress(pending)
  BY DEF Navigate, PagesInv
<1>2. /\ NewList.filter = NoFilter /\ NewList.offset = 0 /\ NewList.last = None
      /\ NoFilter \in Filters /\ Reached(0)
  BY DEF NewList, NoFilter, Filters, Reached
<1>3. PICK f, o, last :
        /\ f \in Filters /\ o \in Nat
        /\ Reached(o) /\ list' = [filter |-> f, offset |-> o, last |-> last]
        /\ last # None => WasShown(last)
  <2>1. CASE list' = list
    <3>1. PICK f, o, last :
            /\ f \in Filters /\ o \in Nat
            /\ Reached(o) /\ list = [filter |-> f, offset |-> o, last |-> last]
            /\ last # None => WasShown(last)
      BY TheList
    <3> QED BY <2>1, <3>1
  <2>2. CASE list' = NewList
    BY <1>2, <2>2 DEF NewList
  <2>3. CASE /\ HasData(Query(HistoryKey(NewList)))
             /\ list' = [NewList EXCEPT !.last = HistoryKey(NewList)]
    <3>1. PICK last : last = HistoryKey(NewList)
      OBVIOUS
    <3>2. list' = [filter |-> NoFilter, offset |-> 0, last |-> last]
      BY <2>3, <3>1 DEF NewList
    <3>3. last[1] = "runs"
      BY <3>1 DEF HistoryKey, ListKey
    <3>4. WasShown(last)
      BY <2>3, <3>1, <3>3, QueryAnswers DEF WasShown, Answers, PagesInv
    <3> QED BY <1>2, <3>2, <3>4
  <2> QED BY <2>1, <2>2, <2>3 DEF Navigate
<1>4. PICK stale \in BOOLEAN :
        cache' = Uses(IF pending.page = address.page
                        THEN Observed(pending, list) \ Observed(address, list)
                        ELSE Observed(pending, NewList), stale)
  BY DEF Navigate
<1>5. /\ \A key \in Observed(pending, list) : IsKey(key)
      /\ \A key \in Observed(pending, NewList) : IsKey(key)
  BY <1>1, <1>2, TheList, ObservedKeys
<1>6. PICK keys : keys = IF pending.page = address.page
                           THEN Observed(pending, list) \ Observed(address, list)
                           ELSE Observed(pending, NewList)
  OBVIOUS
<1>7. \A key \in keys : IsKey(key)
  BY <1>5, <1>6
<1>8. /\ CacheInv' /\ DOMAIN cache \subseteq DOMAIN cache'
      /\ \A key \in DOMAIN cache : cache'[key].data = cache[key].data
  BY <1>1, <1>4, <1>6, <1>7, CacheUses
<1>9. IsList(list)'
  BY <1>1, <1>3, <1>8, ListKept
<1>10. IsAddress(address)'
  BY <1>1, StoredStays DEF IsAddress
<1> QED BY <1>1, <1>8, <1>9, <1>10 DEF PagesInv

-----------------------------------------------------------------------------
(* The invariant, and what follows from it. *)

\* Every key, answer and address is as PagesInv has it, whatever runs are created
\* and end and whatever is clicked meanwhile.
LEMMA Invariance == Spec => []PagesInv
<1>1. Init => PagesInv
  <2> SUFFICES ASSUME Init PROVE PagesInv
    OBVIOUS
  <2>1. stored \in Seq(States) /\ Len(stored) = StoredRuns /\ StoredRuns \in Nat \ {0}
    <3>1. StoredRuns \in Nat \ {0} /\ 1 \in Runs
      BY PagesAssumption, NumberedRuns
    <3>2. EndsAs[1] \in States /\ "RUNNING" \in States
      BY <3>1, PagesAssumption DEF States
    <3>3. stored = [r \in 1..StoredRuns |-> IF r = 1 THEN EndsAs[1] ELSE "RUNNING"]
      BY DEF Init
    <3>4. stored \in [1..StoredRuns -> States]
      BY <3>2, <3>3
    <3>5. stored \in Seq(States) /\ Len(stored) = StoredRuns
      BY <3>1, <3>4
    <3> QED BY <3>1, <3>5
  <2>2. PICK f \in Filters : list = [filter |-> f, offset |-> 0, last |-> None]
    <3>1. {NoFilter, [NoFilter EXCEPT !.state = "RUNNING"]} \subseteq Filters
      BY DEF NoFilter, Filters
    <3>2. list \in [filter : {NoFilter, [NoFilter EXCEPT !.state = "RUNNING"]},
                    offset : {0}, last : {None}]
      BY DEF Init
    <3> QED BY <3>1, <3>2
  <2>3. Reached(0) /\ IsList(list)
    <3>1. Reached(0)
      BY DEF Reached
    <3> QED BY <2>2, <3>1 DEF IsList
  <2>4. IsAddress(address)
    BY DEF Init, IsAddress, CompletedRuns
  <2>5. \A key \in Observed(address, list) : IsKey(key)
    BY <2>2, <2>3, <2>4, ObservedKeys
  <2>6. CacheInv
    <3>1. Unasked \in [status : Statuses, data : Data, busy : BOOLEAN] /\ Unasked.data = None
      BY DEF Unasked, Statuses, Data
    <3>2. cache = [key \in Observed(address, list) |-> Unasked]
      BY DEF Init
    <3> QED BY <2>5, <3>1, <3>2 DEF CacheInv
  <2> QED BY <2>1, <2>3, <2>4, <2>6, PagesAssumption DEF PagesInv, Init
<1>2. PagesInv /\ [Next]_vars => PagesInv'
  <2> SUFFICES ASSUME PagesInv, [Next]_vars PROVE PagesInv'
    OBVIOUS
  <2>1. CASE Create \/ Finish
    BY <2>1, RunsGoOn
  <2>2. ASSUME NEW key \in DOMAIN cache, Serve(key) \/ Fail(key) PROVE PagesInv'
    BY <2>2, Requests
  <2>3. CASE Retry
    BY <2>3, Retrying
  <2>4. CASE SetFilter \/ ResetFilters \/ NextPage \/ PreviousPage
    BY <2>4, Controls
  <2>5. CASE Follow \/ FollowRow \/ Pick \/ SelectReport
    BY <2>5, Clicks
  <2>6. CASE Navigate
    BY <2>6, Navigating
  <2>7. CASE UNCHANGED vars
    BY <2>7 DEF vars, PagesInv, CacheInv, IsKey, Reached, CompletedRuns, Answers, IsPage,
                IsAddress, IsList
  <2> QED BY <2>1, <2>2, <2>3, <2>4, <2>5, <2>6, <2>7 DEF Next
<1> QED BY <1>1, <1>2, PTL DEF Spec

\* A comparison that is shown is of the two runs of the address, both completed.
LEMMA SidesCompleted ==
  ASSUME PagesInv, address.page = "compare", ComparisonBody = "shown"
  PROVE  /\ address.baseline \in CompletedRuns /\ address.candidate \in CompletedRuns
         /\ Compared = [baseline |-> address.baseline, candidate |-> address.candidate]
<1>1. PICK b \in CompletedRuns \cup {None}, c \in CompletedRuns \cup {None} :
        address = CompareOf(b, c)
  BY DEF PagesInv, IsAddress, History, ReportOf
<1>2. address.baseline = b /\ address.candidate = c
  BY <1>1 DEF CompareOf
<1>3. None \notin {b, c} /\ HasData(Query(CompareKey(b, c)))
  BY <1>2 DEF ComparisonBody
<1>4. Answers(CompareKey(b, c), Query(CompareKey(b, c)).data)
  BY <1>3, QueryAnswers DEF PagesInv
<1>5. Compared = [baseline |-> b, candidate |-> c]
  BY <1>2, <1>4 DEF Answers, CompareKey, Compared
<1> QED BY <1>2, <1>3, <1>5

\* The bars of the score are those of the dimensions that are listed.
LEMMA BarsListed ==
  ASSUME NEW b, NEW c
  PROVE  DOMAIN DimensionBars(b, c) = DOMAIN DimensionRows(b, c)
<1>1. Compare(b, c).dimensions = DimensionRows(b, c)
  BY DEF Compare
<1> QED BY <1>1 DEF DimensionBars

\* A bar of each run, and which is better.
LEMMA BarsMirrored ==
  ASSUME NEW b, IsAnalysis(b), NEW c, IsAnalysis(c),
         NEW d \in DOMAIN DimensionBars(b, c) \cap DOMAIN DimensionBars(c, b)
  PROVE  DimensionBars(c, b)[d] =
           [base    |-> DimensionBars(b, c)[d].cand, cand |-> DimensionBars(b, c)[d].base,
            verdict |-> Opposite(DimensionBars(b, c)[d].verdict)]
<1> DEFINE points(run) == IF d \in DOMAIN Score(run) THEN Score(run)[d].points ELSE 0
<1>1. /\ Compare(b, c).dimensions = DimensionRows(b, c)
      /\ Compare(c, b).dimensions = DimensionRows(c, b)
  BY DEF Compare
<1>2. d \in DOMAIN DimensionRows(b, c) /\ d \in DOMAIN DimensionRows(c, b)
  BY BarsListed
<1>3. /\ DimensionBars(b, c)[d] = [base |-> points(b), cand |-> points(c),
                                   verdict |-> DimensionRows(b, c)[d]]
      /\ DimensionBars(c, b)[d] = [base |-> points(c), cand |-> points(b),
                                   verdict |-> DimensionRows(c, b)[d]]
  BY <1>1, <1>2 DEF DimensionBars
<1>4. DimensionRows(c, b)[d] = Opposite(DimensionRows(b, c)[d])
  BY <1>2, DimensionsMirrored
<1> HIDE DEF points
<1> QED BY <1>3, <1>4

\* The pages show what was asked for, and rows where there are any, whatever the
\* cache holds of other keys and whatever the runs do in between.
THEOREM PagesShowWhatIsAsked == Spec => []ShowsWhatIsAsked
<1>1. PagesInv => ShowsWhatIsAsked
  <2> SUFFICES ASSUME PagesInv PROVE ShowsWhatIsAsked
    OBVIOUS
  <2>1. ASSUME address.page = "runs", ~Placeholder
        PROVE  /\ \A row \in Range(Shown.runs) :
                    /\ list.filter.state \in {ANY, row.state}
                    /\ list.filter.scenario \in {ANY, ScenarioOf[row.id]}
               /\ \A i, j \in DOMAIN Shown.runs :
                    i < j => Shown.runs[i].id > Shown.runs[j].id
    <3>1. IsPage(Shown, list.filter)
      BY <2>1, ShownPage
    <3> QED BY <3>1 DEF IsPage
  <2>2. ASSUME address.page = "compare", ComparisonBody = "shown"
        PROVE  /\ Compared = [baseline |-> address.baseline, candidate |-> address.candidate]
               /\ \A r \in Sides : stored[r] = "COMPLETED"
    BY <2>2, SidesCompleted DEF Sides, CompletedRuns
  <2>3. ASSUME address.page = "reports", ReportBody = "shown"
        PROVE  Query(<<"report", address.run>>).data.run = address.run
    <3>1. HasData(Query(<<"report", address.run>>))
      BY <2>3 DEF ReportBody
    <3>2. Answers(<<"report", address.run>>, Query(<<"report", address.run>>).data)
      BY <3>1, QueryAnswers DEF PagesInv
    <3> QED BY <3>2 DEF Answers
  <2>4. NoEmptyPage
    <3> SUFFICES ASSUME list.filter = NoFilter, ~Placeholder, ListBody = "empty"
                 PROVE  Shown.total = 0
      BY DEF NoEmptyPage
    <3>1. IsPage(Shown, NoFilter)
      BY ShownPage
    <3>2. Shown.runs = <<>>
      BY DEF ListBody
    <3> QED BY <3>1, <3>2 DEF IsPage
  <2> QED BY <2>1, <2>2, <2>3, <2>4 DEF ShowsWhatIsAsked, ShownIsAsked
<1> QED BY <1>1, Invariance, PTL

\* The comparison that is shown tells the opposite when its runs trade places: its
\* sides are completed runs, and what analysis they have is compared the same both
\* ways.
THEOREM ShownComparisonMirrors == Spec => []VerdictMirrors
<1>1. PagesInv => VerdictMirrors
  <2> SUFFICES ASSUME PagesInv, address.page = "compare", ComparisonBody = "shown"
               PROVE  VerdictMirrors
    BY DEF VerdictMirrors
  <2>1. Compared.baseline \in CompletedRuns /\ Compared.candidate \in CompletedRuns
    BY SidesCompleted
  <2>2. PICK b, c : b = Analysis(Compared.baseline) /\ c = Analysis(Compared.candidate)
    OBVIOUS
  <2>3. IsAnalysis(b) /\ IsAnalysis(c)
    <3>1. CompletedRuns \subseteq Runs
      <4>1. DOMAIN stored = 1..Len(stored) /\ Len(stored) \in Runs
        BY DEF PagesInv
      <4> QED BY <4>1, NumberedRuns DEF CompletedRuns
    <3> QED BY <2>1, <2>2, <3>1, PagesAssumption DEF Analysis, CompletedRuns
  <2>4. \A k \in DOMAIN Compare(b, c).metrics :
          Compare(c, b).metrics[k] = Opposite(Compare(b, c).metrics[k])
    BY <2>3, ComparisonMirrors
  <2>5. \A d \in DOMAIN DimensionBars(b, c) \cap DOMAIN DimensionBars(c, b) :
          DimensionBars(c, b)[d] =
            [base    |-> DimensionBars(b, c)[d].cand, cand |-> DimensionBars(b, c)[d].base,
             verdict |-> Opposite(DimensionBars(b, c)[d].verdict)]
    BY <2>3, BarsMirrored
  <2>7. ScoredAlike(b, c) => DOMAIN DimensionBars(c, b) = DOMAIN DimensionBars(b, c)
    BY <2>3, BarsListed, DimensionsMirrored
  <2>6. ASSUME ~Undecided(Compare(b, c)), ~Undecided(Compare(c, b))
        PROVE  Headline(Compare(c, b)) =
                 [ verdict      |-> Opposite(Compare(b, c).verdict),
                   improvements |-> Compare(b, c).regressions,
                   regressions  |-> Compare(b, c).improvements ]
    <3>1. /\ Compare(b, c).assertions = AssertionRows(b, c)
          /\ Compare(c, b).assertions = AssertionRows(c, b)
      BY DEF Compare
    <3>2. \A r : ~(\E a \in DOMAIN r.assertions : AssertionTable(r)[a] = "changed") =>
                  \A a \in DOMAIN r.assertions : r.assertions[a] # "changed"
      BY DEF AssertionTable
    <3>3. Decided(b, c)
      BY <2>6, <3>1, <3>2 DEF Undecided, Decided
    <3>4. /\ Compare(c, b).regressions = Compare(b, c).improvements
          /\ Compare(c, b).improvements = Compare(b, c).regressions
          /\ Compare(c, b).verdict = Opposite(Compare(b, c).verdict)
      BY <2>3, <3>3, ComparisonMirrors
    <3> QED BY <3>4 DEF Headline
  <2> QED BY <2>2, <2>4, <2>5, <2>6, <2>7 DEF VerdictMirrors, MetricTable
<1> QED BY <1>1, Invariance, PTL

-----------------------------------------------------------------------------
(* Turning pages while runs are created. *)

\* A page of a filter that runs do not leave: as many runs match by now, and as
\* many are no older than each row as there were.
Listed(key, d) ==
  key[1] = "runs" /\ Growing(key[2]) =>
    /\ d.total <= Cardinality(Matching(key[2]))
    /\ DOMAIN d.runs = 1..(Minimum(key[4] + key[3], d.total) - key[4])
    /\ \A i \in DOMAIN d.runs :
         Cardinality({s \in Matching(key[2]) : s >= d.runs[i].id}) >= key[4] + i

\* Each of some rows is at its place in the list of all, from an offset.
Placed(rows, filter, offset) ==
  \A i \in DOMAIN rows :
    /\ rows[i].id \in Matching(filter)
    /\ Cardinality({s \in Matching(filter) : s >= rows[i].id}) = offset + i

\* So it is of every answer in the cache.
ListInv ==
  \A key \in DOMAIN cache : cache[key].data = None \/ Listed(key, cache[key].data)

\* Of some numbers, those below one of them and the others.
LEMMA SplitAt ==
  ASSUME NEW S \in SUBSET Nat, IsFiniteSet(S), NEW x \in Nat
  PROVE  /\ IsFiniteSet({s \in S : s < x}) /\ IsFiniteSet({s \in S : s >= x})
         /\ Cardinality({s \in S : s < x}) \in Nat /\ Cardinality({s \in S : s >= x}) \in Nat
         /\ Cardinality({s \in S : s < x}) + Cardinality({s \in S : s >= x}) = Cardinality(S)
<1> DEFINE below == {s \in S : s < x}
           rest  == {s \in S : s >= x}
<1>1. IsFiniteSet(below) /\ IsFiniteSet(rest)
  BY FS_Subset
<1>2. Cardinality(below) \in Nat /\ Cardinality(rest) \in Nat
  BY <1>1, FS_CardinalityType
<1>3. below \cup rest = S /\ below \cap rest = {}
  <2>1. \A s \in S : s \in Nat /\ (s < x \/ s >= x) /\ ~(s < x /\ s >= x)
    OBVIOUS
  <2> QED BY <2>1
<1>4. Cardinality(S) = Cardinality(below) + Cardinality(rest) - Cardinality({})
  BY <1>1, <1>3, FS_Union
<1> HIDE DEF below, rest
<1>5. Cardinality({}) = 0
  BY FS_EmptySet
<1>6. Cardinality(below) + Cardinality(rest) = Cardinality(S)
  BY <1>2, <1>4, <1>5
<1> QED BY <1>1, <1>2, <1>6 DEF below, rest

\* No more than i of them are newer than the i-th newest, and itself.
LEMMA NewestPlace ==
  ASSUME NEW S \in SUBSET Nat, IsFiniteSet(S), Cardinality(S) \in Nat,
         NEW i \in 1..Cardinality(S)
  PROVE  /\ Newest(S, i) \in S
         /\ Cardinality({s \in S : s >= Newest(S, i)}) = i
<1> DEFINE n == Cardinality(S)
<1>1. \A j \in 1..n : Ranked(S)[j] \in S /\ Cardinality({s \in S : s < Ranked(S)[j]}) = j - 1
  BY RankedSet
<1>2. Newest(S, i) \in S
  BY NewestRanked
<1>3. Cardinality({s \in S : s < Newest(S, i)}) = n - i
  <2>1. \E r \in S : Cardinality({s \in S : s < r}) = n - i
    <3>1. n - i + 1 \in 1..n /\ (n - i + 1) - 1 = n - i
      OBVIOUS
    <3> QED BY <1>1, <3>1
  <2>2. PICK m : m = n - i
    OBVIOUS
  <2>3. Newest(S, i) = CHOOSE r \in S : Cardinality({s \in S : s < r}) = m
    BY <2>2 DEF Newest
  <2> QED BY <2>1, <2>2, <2>3
<1>4. Newest(S, i) \in Nat
  BY <1>2
<1>5. Cardinality({s \in S : s < Newest(S, i)})
        + Cardinality({s \in S : s >= Newest(S, i)}) = n
  BY <1>4, SplitAt
<1>6. Cardinality({s \in S : s >= Newest(S, i)}) \in Nat
  BY <1>4, SplitAt
<1>7. i \in Nat
  OBVIOUS
<1> QED BY <1>2, <1>3, <1>5, <1>6, <1>7

\* The runs of a filter that runs do not leave become no fewer, from any on.
LEMMA MatchingGoesOn ==
  ASSUME GoesOn, NEW f \in Filters, Growing(f)
  PROVE  /\ Matching(f) \subseteq Matching(f)'
         /\ Cardinality(Matching(f)) <= Cardinality(Matching(f)')
         /\ Cardinality(Matching(f)) \in Nat /\ Cardinality(Matching(f)') \in Nat
         /\ \A x \in Nat :
              LET before == {s \in Matching(f) : s >= x}
                  after  == {s \in Matching(f)' : s >= x}
              IN  /\ Cardinality(before) \in Nat /\ Cardinality(after) \in Nat
                  /\ Cardinality(before) <= Cardinality(after)
<1>1. /\ DOMAIN stored = 1..Len(stored) /\ DOMAIN stored' = 1..Len(stored')
      /\ Len(stored) \in Nat /\ Len(stored') \in Nat /\ Len(stored) <= Len(stored')
  BY DEF GoesOn
<1>2. DOMAIN stored \subseteq DOMAIN stored'
  BY <1>1
<1>3. f.state \in {ANY, "COMPLETED"}
  BY DEF Filters, Growing
<1>4. ASSUME NEW r \in DOMAIN stored, Matches(r, f)
      PROVE  Matches(r, f)'
  BY <1>3, <1>4 DEF Matches, GoesOn
<1>5. Matching(f) \subseteq Matching(f)'
  BY <1>2, <1>4 DEF Matching
<1>6. IsFiniteSet(Matching(f)')
  <2>1. IsFiniteSet(1..Len(stored'))
    BY <1>1, FirstNumbers
  <2>2. Matching(f)' \in SUBSET (1..Len(stored'))
    BY <1>1 DEF Matching
  <2> QED BY <2>1, <2>2, FS_Subset
<1>7. ASSUME NEW S, S \in SUBSET Matching(f), NEW T, T \in SUBSET Matching(f)', S \subseteq T
      PROVE  /\ Cardinality(S) \in Nat /\ Cardinality(T) \in Nat
             /\ Cardinality(S) <= Cardinality(T)
  <2>1. IsFiniteSet(T)
    BY <1>6, <1>7, FS_Subset
  <2>2. IsFiniteSet(S) /\ Cardinality(S) <= Cardinality(T)
    BY <1>7, <2>1, FS_Subset
  <2> QED BY <2>1, <2>2, FS_CardinalityType
<1>8. \A x : {s \in Matching(f) : s >= x} \subseteq {s \in Matching(f)' : s >= x}
  BY <1>5
<1> QED BY <1>5, <1>7, <1>8

\* What was listed of such a filter stays so when runs have gone on.
LEMMA ListedGoesOn ==
  ASSUME GoesOn, NEW key, IsKey(key), NEW d, Answers(key, d), Listed(key, d)
  PROVE  Listed(key, d)'
<1> SUFFICES ASSUME key[1] = "runs", Growing(key[2]) PROVE Listed(key, d)'
  BY DEF Listed
<1>1. key[2] \in Filters
  BY DEF IsKey, ListKey, CompareKey
<1>2. PICK f \in Filters : f = key[2]
  BY <1>1
<1>3. IsPage(d, f)
  BY <1>2 DEF Answers
<1>4. /\ d.total <= Cardinality(Matching(f))
      /\ DOMAIN d.runs = 1..(Minimum(key[4] + key[3], d.total) - key[4])
      /\ \A i \in DOMAIN d.runs :
           Cardinality({s \in Matching(f) : s >= d.runs[i].id}) >= key[4] + i
  BY <1>2 DEF Listed
<1>5. /\ Cardinality(Matching(f)) <= Cardinality(Matching(f)')
      /\ Cardinality(Matching(f)) \in Nat /\ Cardinality(Matching(f)') \in Nat
      /\ \A x \in Nat :
           LET before == {s \in Matching(f) : s >= x}
               after  == {s \in Matching(f)' : s >= x}
           IN  /\ Cardinality(before) \in Nat /\ Cardinality(after) \in Nat
               /\ Cardinality(before) <= Cardinality(after)
  BY <1>2, MatchingGoesOn
<1>6. d.total \in Nat
  BY <1>3 DEF IsPage
<1>7. d.total <= Cardinality(Matching(f)')
  BY <1>4, <1>5, <1>6
<1>8. ASSUME NEW i \in DOMAIN d.runs
      PROVE  Cardinality({s \in Matching(f)' : s >= d.runs[i].id}) >= key[4] + i
  <2>1. d.runs[i].id \in Nat
    <3>1. d.runs[i].id \in DOMAIN stored /\ DOMAIN stored = 1..Len(stored)
      BY <1>3 DEF IsPage, Range, GoesOn
    <3> QED BY <3>1
  <2>2. key[4] \in Nat /\ i \in Int
    <3>1. key[4] \in Nat /\ key[3] \in Nat
      BY DEF IsKey, ListKey, CompareKey
    <3> QED BY <1>4, <1>6, <3>1 DEF Minimum
  <2>3. PICK m, n : /\ m = Cardinality({s \in Matching(f) : s >= d.runs[i].id})
                    /\ n = Cardinality({s \in Matching(f)' : s >= d.runs[i].id})
    OBVIOUS
  <2>4. m \in Nat /\ n \in Nat /\ m <= n
    BY <1>5, <2>1, <2>3
  <2>5. m >= key[4] + i
    BY <1>4, <2>3
  <2>6. n >= key[4] + i
    BY <2>2, <2>4, <2>5
  <2> QED BY <2>3, <2>6
<1>9. /\ d.total <= Cardinality(Matching(key[2])')
      /\ DOMAIN d.runs = 1..(Minimum(key[4] + key[3], d.total) - key[4])
      /\ \A i \in DOMAIN d.runs :
           Cardinality({s \in Matching(key[2])' : s >= d.runs[i].id}) >= key[4] + i
  BY <1>2, <1>4, <1>7, <1>8
<1> QED BY <1>9 DEF Listed, Minimum

\* list_runs answers with all the runs there are, each row at its place.
LEMMA ListRunsListed ==
  ASSUME stored \in Seq(States), NEW f, NEW l \in Nat \ {0}, NEW o \in Nat
  PROVE  /\ Listed(ListKey(f, l, o), ListRuns(f, l, o))
         /\ ListRuns(f, l, o).total = Cardinality(Matching(f))
         /\ Placed(ListRuns(f, l, o).runs, f, o)
<1> DEFINE found == Matching(f)
           total == Cardinality(found)
           size  == Minimum(o + l, total) - o
           rows  == [i \in 1..size |->
                       LET r == Newest(found, o + i) IN [id |-> r, state |-> stored[r]]]
           d     == ListRuns(f, l, o)
<1>1. d.runs = rows /\ d.total = total
  BY DEF ListRuns
<1>2. found \in SUBSET Nat /\ IsFiniteSet(found) /\ total \in Nat
  BY MatchingRuns
<1>3. size \in Int /\ \A i \in 1..size : i \in Nat /\ o + i \in 1..total
  <2> HIDE DEF total
  <2> QED BY <1>2 DEF Minimum
<1> HIDE DEF total, found, size
<1>4. ASSUME NEW i \in 1..size
      PROVE  /\ rows[i].id \in found
             /\ Cardinality({s \in found : s >= rows[i].id}) = o + i
  <2>1. rows[i].id = Newest(found, o + i)
    OBVIOUS
  <2>2. /\ Newest(found, o + i) \in found
        /\ Cardinality({s \in found : s >= Newest(found, o + i)}) = o + i
    BY <1>2, <1>3, NewestPlace DEF total
  <2> QED BY <2>1, <2>2
<1>5. DOMAIN rows = 1..size
  OBVIOUS
<1> HIDE DEF rows
<1>6. \A i \in DOMAIN d.runs :
        d.runs[i].id \in found /\ Cardinality({s \in found : s >= d.runs[i].id}) = o + i
  BY <1>1, <1>4, <1>5
<1>7. \A i \in DOMAIN d.runs : o + i \in Int /\ o + i >= o + i
  BY <1>1, <1>3, <1>5
<1>8. total <= total
  BY <1>2
<1> HIDE DEF d
<1>9. PICK key : key = ListKey(f, l, o)
  OBVIOUS
<1>10. key[1] = "runs" /\ key[2] = f /\ key[3] = l /\ key[4] = o
  BY <1>9 DEF ListKey
<1>11. Listed(key, d)
  BY <1>1, <1>5, <1>6, <1>7, <1>8, <1>10 DEF Listed, found, total, size
<1>12. Placed(d.runs, f, o)
  BY <1>6 DEF Placed, found
<1> QED BY <1>1, <1>9, <1>11, <1>12 DEF d, found, total

\* Runs are created and end.
LEMMA ListedWhileRunsGoOn ==
  ASSUME PagesInv, ListInv, Create \/ Finish
  PROVE  ListInv'
<1>1. UNCHANGED <<cache, address, pending, list, counts>>
  BY DEF Create, Finish
<1>2. GoesOn
  BY RunStep
<1>3. ASSUME NEW key, IsKey(key), NEW d, Answers(key, d), Listed(key, d)
      PROVE  Listed(key, d)'
  BY <1>2, <1>3, ListedGoesOn
<1>4. ASSUME NEW key \in DOMAIN cache, cache[key].data # None
      PROVE  Listed(key, cache[key].data)'
  <2>1. PICK d : d = cache[key].data
    OBVIOUS
  <2>2. Listed(key, d)'
    BY <1>3, <1>4, <2>1 DEF PagesInv, CacheInv, ListInv
  <2> QED BY <1>1, <2>1, <2>2 DEF Listed
<1> QED BY <1>1, <1>4 DEF ListInv

\* A step that gives no answer.
LEMMA ListedStays ==
  ASSUME ListInv, stored' = stored,
         \A key \in DOMAIN cache' :
           cache'[key].data = None \/ (key \in DOMAIN cache /\ cache'[key].data = cache[key].data)
  PROVE  ListInv'
<1>1. \A key, d : Listed(key, d) => Listed(key, d)'
  BY DEF Listed, Matching, Matches
<1>2. ASSUME NEW key \in DOMAIN cache', cache'[key].data # None
      PROVE  Listed(key, cache[key].data)'
  <2>1. key \in DOMAIN cache /\ cache'[key].data = cache[key].data
    BY <1>2
  <2>2. PICK d : d = cache[key].data
    OBVIOUS
  <2>3. Listed(key, d)' /\ d = cache'[key].data
    BY <1>1, <1>2, <2>1, <2>2 DEF ListInv
  <2> QED BY <2>3 DEF Listed
<1> QED BY <1>2 DEF ListInv

\* What an answer or an error does to the cache.
LEMMA RequestStep ==
  ASSUME PagesInv, NEW key \in DOMAIN cache, Serve(key) \/ Fail(key)
  PROVE  /\ DOMAIN cache' = DOMAIN cache
         /\ \A k \in DOMAIN cache : k # key => cache'[k].data = cache[k].data
         /\ Serve(key) => cache'[key].data = AnswerTo(key)
         /\ ~Serve(key) => cache'[key].data = cache[key].data /\ list' = list
<1>1. cache \in [DOMAIN cache -> [status : Statuses, data : Data, busy : BOOLEAN]]
  BY DEF PagesInv, CacheInv
<1>2. CASE Serve(key)
  BY <1>1, <1>2 DEF Serve
<1>3. CASE Fail(key) /\ ~Serve(key)
  <2>1. PICK q, r : /\ q = cache[key] /\ r = [q EXCEPT !.status = "error"]
                    /\ cache' = [cache EXCEPT ![key] = [r EXCEPT !.busy = FALSE]]
    BY <1>1, <1>3 DEF Fail
  <2>2. q \in [status : Statuses, data : Data, busy : BOOLEAN]
    BY <1>1, <2>1
  <2>3. r.data = q.data /\ r \in [status : Statuses, data : Data, busy : BOOLEAN]
    BY <2>1, <2>2 DEF Statuses
  <2>4. [r EXCEPT !.busy = FALSE].data = q.data
    BY <2>3
  <2> QED BY <1>1, <1>3, <2>1, <2>4 DEF Fail
<1> QED BY <1>2, <1>3

\* A list is answered.
LEMMA ListedServed ==
  ASSUME PagesInv, ListInv, NEW key \in DOMAIN cache, Serve(key)
  PROVE  ListInv'
<1>1. /\ stored' = stored /\ stored \in Seq(States) /\ IsKey(key)
      /\ DOMAIN cache' = DOMAIN cache /\ cache'[key].data = AnswerTo(key)
      /\ \A k \in DOMAIN cache : k # key => cache'[k].data = cache[k].data
  BY RequestStep DEF Serve, PagesInv, CacheInv
<1>2. Listed(key, AnswerTo(key))
  <2>1. CASE key[1] = "runs"
    <3>1. PICK f \in Filters, l \in Nat \ {0}, o \in Nat : key = ListKey(f, l, o)
      <4>1. ~\E b, c \in CompletedRuns : key = CompareKey(b, c)
        BY <2>1 DEF CompareKey
      <4>2. ~\E r \in CompletedRuns : key = <<"report", r>> \/ key = <<"run", r>>
        BY <2>1
      <4> QED BY <1>1, <4>1, <4>2 DEF IsKey
    <3>2. AnswerTo(key) = ListRuns(f, l, o)
      BY <3>1 DEF ListKey, AnswerTo
    <3> QED BY <1>1, <3>1, <3>2, ListRunsListed
  <2>2. CASE key[1] # "runs"
    BY <2>2 DEF Listed
  <2> QED BY <2>1, <2>2
<1>3. \A k, d : Listed(k, d) => Listed(k, d)'
  BY <1>1 DEF Listed, Matching, Matches
<1>4. ASSUME NEW k \in DOMAIN cache', cache'[k].data # None
      PROVE  Listed(k, cache[k].data)'
  <2>1. PICK d : d = cache'[k].data
    OBVIOUS
  <2>2. Listed(k, d)
    BY <1>1, <1>2, <1>4, <2>1 DEF ListInv
  <2>3. Listed(k, d)'
    BY <1>3, <2>2
  <2> QED BY <2>1, <2>3 DEF Listed
<1> QED BY <1>4 DEF ListInv

\* Keys are used, by a page that is turned or one that is rendered.
LEMMA ListedUsing ==
  ASSUME PagesInv, ListInv, UNCHANGED stored,
         NEW keys, \A key \in keys : IsKey(key), NEW stale \in BOOLEAN, cache' = Uses(keys, stale)
  PROVE  ListInv'
<1>1. PICK c : c = Uses(keys, stale)
  OBVIOUS
<1>2. \A key \in DOMAIN c :
        c[key].data = None \/ (key \in DOMAIN cache /\ c[key].data = cache[key].data)
  BY <1>1, UsesKeys DEF PagesInv
<1> QED BY <1>1, <1>2, ListedStays

\* The controls of the history.
LEMMA ListedControls ==
  ASSUME PagesInv, ListInv, SetFilter \/ ResetFilters \/ NextPage \/ PreviousPage
  PROVE  ListInv'
<1>1. /\ PAGE_SIZE \in Nat \ {0} /\ Reached(0) /\ Len(stored) \in Nat
      /\ list.filter \in Filters /\ list.offset \in Nat /\ Reached(list.offset)
  BY PagesAssumption, TheList DEF PagesInv, Reached
<1>2. ASSUME NEW f \in Filters, NEW o \in Nat, Reached(o), Turn(f, o)
      PROVE  ListInv'
  <2>1. UNCHANGED stored
    BY <1>2 DEF Turn
  <2>2. PICK key : key = ListKey(f, PAGE_SIZE, o)
    OBVIOUS
  <2>3. IsKey(key)
    BY <1>1, <1>2, <2>2 DEF IsKey
  <2>4. PICK stale \in BOOLEAN : cache' = Uses({key}, stale)
    BY <1>2, <2>2, TurnStep
  <2>5. PICK keys : keys = {key}
    OBVIOUS
  <2>6. \A k \in keys : IsKey(k)
    BY <2>3, <2>5
  <2> QED BY <2>1, <2>4, <2>5, <2>6, ListedUsing
<1>3. CASE SetFilter
  BY <1>1, <1>2, <1>3 DEF SetFilter
<1>4. CASE ResetFilters
  <2>1. NoFilter \in Filters
    BY DEF NoFilter, Filters
  <2> QED BY <1>1, <1>2, <1>4, <2>1 DEF ResetFilters
<1>5. CASE NextPage
  <2>1. Shown.total \in Nat /\ Shown.total <= Len(stored)
    BY ShownPage DEF IsPage
  <2>2. PICK o : o = list.offset + PAGE_SIZE
    OBVIOUS
  <2>3. o \in Nat /\ Reached(o) /\ Turn(list.filter, o)
    BY <1>1, <1>5, <2>1, <2>2 DEF NextPage, LastPage, Reached
  <2> QED BY <1>1, <1>2, <2>3
<1>6. CASE PreviousPage
  <2>1. PICK o : o = IF list.offset > PAGE_SIZE THEN list.offset - PAGE_SIZE ELSE 0
    OBVIOUS
  <2>2. o \in Nat /\ Reached(o)
    BY <1>1, <2>1 DEF Reached
  <2>3. Turn(list.filter, o)
    BY <1>6, <2>1 DEF PreviousPage
  <2> QED BY <1>1, <1>2, <2>2, <2>3
<1> QED BY <1>3, <1>4, <1>5, <1>6

\* Another page is rendered.
LEMMA ListedNavigating ==
  ASSUME PagesInv, ListInv, Navigate
  PROVE  ListInv'
<1>1. UNCHANGED stored /\ IsAddress(pending)
  BY DEF Navigate, PagesInv
<1>2. /\ NewList.filter = NoFilter /\ NewList.offset = 0 /\ NewList.last = None
      /\ NoFilter \in Filters /\ Reached(0)
  BY DEF NewList, NoFilter, Filters, Reached
<1>3. PICK keys : keys = IF pending.page = address.page
                           THEN Observed(pending, list) \ Observed(address, list)
                           ELSE Observed(pending, NewList)
  OBVIOUS
<1>4. PICK stale \in BOOLEAN : cache' = Uses(keys, stale)
  BY <1>3 DEF Navigate
<1>5. \A key \in keys : IsKey(key)
  <2>1. /\ \A key \in Observed(pending, list) : IsKey(key)
        /\ \A key \in Observed(pending, NewList) : IsKey(key)
    BY <1>1, <1>2, TheList, ObservedKeys
  <2> QED BY <1>3, <2>1
<1> QED BY <1>1, <1>4, <1>5, ListedUsing

\* What is listed stays so.
LEMMA ListInvariance == Spec => []ListInv
<1>1. Init => ListInv
  BY DEF Init, ListInv, Unasked
<1>2. ListInv /\ PagesInv /\ [Next]_vars => ListInv'
  <2> SUFFICES ASSUME ListInv, PagesInv, [Next]_vars PROVE ListInv'
    OBVIOUS
  <2>1. CASE Create \/ Finish
    BY <2>1, ListedWhileRunsGoOn
  <2>2. ASSUME NEW key \in DOMAIN cache, Serve(key) PROVE ListInv'
    BY <2>2, ListedServed
  <2>3. ASSUME NEW key \in DOMAIN cache, Fail(key), ~Serve(key) PROVE ListInv'
    <3>1. UNCHANGED stored
      BY <2>3 DEF Fail
    <3>2. DOMAIN cache' = DOMAIN cache /\ \A k \in DOMAIN cache : cache'[k].data = cache[k].data
      BY <2>3, RequestStep
    <3> QED BY <3>1, <3>2, ListedStays
  <2>4. CASE Retry
    <3>1. UNCHANGED stored
      BY <2>4 DEF Retry
    <3>2. DOMAIN cache' = DOMAIN cache /\ \A k \in DOMAIN cache : cache'[k].data = cache[k].data
      BY <2>4, RetryStep
    <3> QED BY <3>1, <3>2, ListedStays
  <2>5. CASE SetFilter \/ ResetFilters \/ NextPage \/ PreviousPage
    BY <2>5, ListedControls
  <2>6. CASE Follow \/ FollowRow \/ Pick \/ SelectReport
    <3>1. UNCHANGED <<stored, cache, list>>
      BY <2>6 DEF Follow, FollowRow, Pick, SelectReport, Go
    <3> QED BY <3>1, ListedStays
  <2>7. CASE Navigate
    BY <2>7, ListedNavigating
  <2>8. CASE UNCHANGED vars
    BY <2>8, ListedStays DEF vars
  <2> QED BY <2>1, <2>2, <2>3, <2>4, <2>5, <2>6, <2>7, <2>8 DEF Next
<1> QED BY <1>1, <1>2, Invariance, PTL DEF Spec

\* What is answered to the page after a full one: its first row is no older than the
\* first run behind the last row of the full page.
LEMMA SkipsNone ==
  ASSUME stored \in Seq(States), NEW f \in Filters, Growing(f),
         NEW o \in Nat, NEW p \in Nat, o = p + PAGE_SIZE,
         NEW d, IsPage(d, f), Listed(ListKey(f, PAGE_SIZE, p), d), Len(d.runs) = PAGE_SIZE,
         NEW r \in DOMAIN stored, Matches(r, f), r < Last(d.runs).id
  PROVE  LET rows == ListRuns(f, PAGE_SIZE, o).runs
         IN  rows # <<>> /\ ~(r > rows[1].id)
<1> DEFINE M == Matching(f)
           rows == ListRuns(f, PAGE_SIZE, o).runs
           size == Minimum(o + PAGE_SIZE, Cardinality(M)) - o
<1>1. /\ M \in SUBSET Nat /\ IsFiniteSet(M) /\ Cardinality(M) \in Nat /\ PAGE_SIZE \in Nat \ {0}
      /\ d.total \in Nat /\ r \in M
  <2>1. r \in M
    BY DEF Matching
  <2> QED BY <2>1, MatchingRuns, PagesAssumption DEF IsPage
<1>2. PICK key : key = ListKey(f, PAGE_SIZE, p)
  OBVIOUS
<1>3. key[1] = "runs" /\ key[2] = f /\ key[3] = PAGE_SIZE /\ key[4] = p
  BY <1>2 DEF ListKey
<1>4. /\ d.total <= Cardinality(M)
      /\ DOMAIN d.runs = 1..(Minimum(p + PAGE_SIZE, d.total) - p)
      /\ \A i \in DOMAIN d.runs : Cardinality({s \in M : s >= d.runs[i].id}) >= p + i
  BY <1>2, <1>3 DEF Listed
<1> HIDE DEF M
<1>5. DOMAIN d.runs = 1..PAGE_SIZE /\ PAGE_SIZE \in DOMAIN d.runs
  <2>1. d.runs \in Seq([id : Runs, state : States])
    BY DEF IsPage, Rows
  <2> QED BY <1>1, <2>1
<1>6. PICK x : x = d.runs[PAGE_SIZE].id
  OBVIOUS
<1>7. /\ Last(d.runs).id = x /\ x \in Nat
      /\ Cardinality({s \in M : s >= x}) >= o
  <2>1. d.runs[PAGE_SIZE].id \in DOMAIN stored /\ DOMAIN stored = 1..Len(stored)
    BY <1>5 DEF IsPage, Range
  <2> QED BY <1>4, <1>5, <1>6, <2>1 DEF Last
<1>8. Cardinality(M) >= o + 1
  <2> DEFINE S == {s \in M : s >= x}
  <2>1. IsFiniteSet(S) /\ Cardinality(S) \in Nat /\ Cardinality(S) >= o
    <3>1. IsFiniteSet(S)
      BY <1>1, FS_Subset
    <3> QED BY <1>7, <3>1, FS_CardinalityType
  <2>2. r \in M /\ r \notin S /\ S \cup {r} \in SUBSET M
    BY <1>1, <1>7
  <2> HIDE DEF S
  <2>3. Cardinality(S \cup {r}) = Cardinality(S) + 1
    BY <2>1, <2>2, FS_AddElement
  <2>4. Cardinality(S \cup {r}) <= Cardinality(M)
    BY <1>1, <2>2, FS_Subset
  <2> QED BY <1>1, <2>1, <2>3, <2>4
<1>9. DOMAIN rows = 1..size /\ 1 \in 1..size
  <2>1. DOMAIN rows = 1..size
    BY DEF ListRuns, M
  <2>2. PICK C \in Nat, P \in Nat : C = Cardinality(M) /\ P = PAGE_SIZE /\ P # 0
    BY <1>1
  <2>3. C > o
    BY <1>8, <2>2
  <2>4. 1 \in 1..(Minimum(o + P, C) - o)
    BY <2>2, <2>3 DEF Minimum
  <2> HIDE DEF rows
  <2> QED BY <2>1, <2>2, <2>4
<1>10. rows[1].id \in M /\ Cardinality({s \in M : s >= rows[1].id}) = o + 1
  <2>1. PAGE_SIZE \in Nat \ {0}
    BY <1>1
  <2>2. Placed(rows, f, o)
    BY <2>1, ListRunsListed
  <2>3. 1 \in DOMAIN rows
    BY <1>9
  <2> HIDE DEF rows
  <2> QED BY <2>2, <2>3 DEF Placed, M
<1> HIDE DEF rows
<1>11. PICK y : y = rows[1].id
  OBVIOUS
<1>12. ASSUME r > y PROVE FALSE
  <2> DEFINE S == {s \in M : s >= x}
             T == {s \in M : s >= y}
  <2>1. y \in M /\ Cardinality(T) = o + 1 /\ Cardinality(S) >= o
    BY <1>7, <1>10, <1>11
  <2>2. r \in Nat /\ y \in Nat /\ r < x /\ y < r /\ y < x
    BY <1>1, <1>7, <1>12, <2>1
  <2>3. IsFiniteSet(S) /\ IsFiniteSet(T) /\ Cardinality(S) \in Nat /\ Cardinality(T) \in Nat
    <3>1. IsFiniteSet(S) /\ IsFiniteSet(T)
      BY <1>1, FS_Subset
    <3> QED BY <3>1, FS_CardinalityType
  <2>4. r \notin S /\ y \notin S /\ r # y /\ r \in T /\ y \in T /\ S \subseteq T
    <3>1. \A s \in M : s \in Nat
      BY <1>1
    <3>2. ~(r >= x) /\ ~(y >= x) /\ r # y /\ r >= y /\ y >= y
      BY <1>7, <2>2
    <3>3. \A s \in M : s >= x => s >= y
      BY <1>7, <2>2, <3>1
    <3> QED BY <1>1, <2>1, <3>2, <3>3
  <2> HIDE DEF S, T
  <2>5. /\ IsFiniteSet(S \cup {r}) /\ Cardinality(S \cup {r}) = Cardinality(S) + 1
    BY <2>3, <2>4, FS_AddElement
  <2>6. /\ IsFiniteSet((S \cup {r}) \cup {y})
        /\ Cardinality((S \cup {r}) \cup {y}) = Cardinality(S) + 1 + 1
    <3>1. y \notin S \cup {r}
      BY <2>4
    <3> QED BY <2>5, <3>1, FS_AddElement
  <2>7. Cardinality((S \cup {r}) \cup {y}) <= Cardinality(T)
    <3>1. (S \cup {r}) \cup {y} \in SUBSET T
      BY <2>4
    <3> QED BY <2>3, <3>1, FS_Subset
  <2> QED BY <2>1, <2>3, <2>6, <2>7
<1>13. rows # <<>>
  <2>1. 1 \in DOMAIN rows /\ DOMAIN <<>> = {}
    BY <1>9
  <2> QED BY <2>1
<1> QED BY <1>11, <1>12, <1>13 DEF rows

\* An answer to the page that is shown passes over no run behind the last row of the
\* page before it, as that was answered last, whatever was created and ended in
\* between, unless runs leave the filter.
THEOREM PageAnswersSkipNone == Spec => PagesSkipNone
<1> DEFINE Step ==
      LET key    == HistoryKey(list)
          before == Query(ListKey(list.filter, PAGE_SIZE, list.offset - PAGE_SIZE))
          rows   == cache'[key].data.runs
      IN  (/\ address.page = "runs" /\ key \in DOMAIN cache /\ Serve(key)
           /\ HasData(before) /\ Len(before.data.runs) = PAGE_SIZE
           /\ Growing(list.filter)) =>
            ~\E r \in DOMAIN stored :
               /\ Matches(r, list.filter) /\ r < Last(before.data.runs).id
               /\ rows = <<>> \/ r > rows[1].id
<1>1. PagesInv /\ ListInv /\ [Next]_vars => [Step]_vars
  <2>1. PICK key, last : /\ key = HistoryKey(list)
                         /\ last = ListKey(list.filter, PAGE_SIZE, list.offset - PAGE_SIZE)
    OBVIOUS
  <2> SUFFICES ASSUME PagesInv, ListInv, Next,
                      address.page = "runs", key \in DOMAIN cache, Serve(key),
                      HasData(Query(last)), Len(Query(last).data.runs) = PAGE_SIZE,
                      Growing(list.filter)
               PROVE  ~\E r \in DOMAIN stored :
                         /\ Matches(r, list.filter) /\ r < Last(Query(last).data.runs).id
                         /\ cache'[key].data.runs = <<>> \/ r > cache'[key].data.runs[1].id
    BY <2>1
  <2>2. PICK f \in Filters, o \in Nat : f = list.filter /\ o = list.offset
    BY TheList
  <2>3. PICK d : d = Query(last).data
    OBVIOUS
  <2>4. last \in DOMAIN cache /\ d = cache[last].data /\ d # None
    BY <2>3, QueryAnswers DEF PagesInv, HasData
  <2>5. PICK p : p = o - PAGE_SIZE
    OBVIOUS
  <2>6. last[1] = "runs" /\ last[2] = f /\ last[4] = p /\ last = ListKey(f, PAGE_SIZE, p)
    BY <2>1, <2>2, <2>5 DEF ListKey
  <2>7. IsKey(last) /\ Answers(last, d) /\ Listed(last, d)
    BY <2>4 DEF PagesInv, CacheInv, ListInv
  <2>8. p \in Nat /\ o = p + PAGE_SIZE
    <3>1. last[4] \in Nat
      BY <2>6, <2>7 DEF IsKey, ListKey, CompareKey
    <3> QED BY <2>5, <2>6, <3>1, PagesAssumption
  <2>9. IsPage(d, f)
    BY <2>6, <2>7 DEF Answers
  <2>10. cache'[key].data.runs = ListRuns(f, PAGE_SIZE, o).runs
    <3>1. cache'[key].data = AnswerTo(key)
      BY RequestStep
    <3>2. AnswerTo(key) = ListRuns(f, PAGE_SIZE, o)
      BY <2>1, <2>2 DEF HistoryKey, ListKey, AnswerTo
    <3> QED BY <3>1, <3>2
  <2>11. ASSUME NEW r \in DOMAIN stored, Matches(r, f), r < Last(d.runs).id
         PROVE  LET rows == ListRuns(f, PAGE_SIZE, o).runs
                IN  rows # <<>> /\ ~(r > rows[1].id)
    <3>1. Growing(f) /\ stored \in Seq(States) /\ Len(d.runs) = PAGE_SIZE
      BY <2>2, <2>3 DEF PagesInv
    <3> QED BY <2>6, <2>7, <2>8, <2>9, <2>11, <3>1, SkipsNone
  <2> QED BY <2>2, <2>3, <2>10, <2>11
<1>2. PagesSkipNone <=> [][Step]_vars
  BY DEF PagesSkipNone
<1> QED BY <1>1, <1>2, Invariance, ListInvariance, PTL DEF Spec

=============================================================================
