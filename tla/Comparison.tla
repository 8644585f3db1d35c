----------------------------- MODULE Comparison ------------------------------
(***************************************************************************)
(* What GET /compare says of two runs (services/compare.py).               *)
(*                                                                         *)
(* A run is compared by its analysis: the context of its metrics, the      *)
(* score by dimension, and the outcomes of its assertions; a run without  *)
(* one has None.  Values are whole multiples of the finest tolerance; a    *)
(* truth value is 1 or 0, and then the tolerance is 0.  The score is one   *)
(* more metric; deltas and the rounding of them are left out.              *)
(***************************************************************************)
EXTENDS Integers, FiniteSets

CONSTANTS Metrics,  \* METRIC_DEFINITIONS: which way is better, and the tolerance
          AnyOther, \* the definition made for a recovery metric of its own name
          None

ASSUME ComparisonAssumption ==
  /\ \A k \in DOMAIN Metrics :
       Metrics[k].better \in {"higher", "lower", "neutral"} /\ Metrics[k].tolerance \in Nat
  /\ AnyOther.better = "lower" /\ AnyOther.tolerance \in Nat
  /\ None \notin Int

MetricVerdict == {"improvement", "regression", "unchanged", "changed", "not_comparable"}

Definition(key) == IF key \in DOMAIN Metrics THEN Metrics[key] ELSE AnyOther

Abs(n) == IF n < 0 THEN -n ELSE n

\* Mutant: what fell is within every tolerance.
VerdictSigned(def, b, c) ==
  IF None \in {b, c} THEN "not_comparable"
  ELSE IF c - b <= def.tolerance THEN "unchanged"
  ELSE IF def.better = "neutral" THEN "changed"
  ELSE IF (c > b) = (def.better = "higher") THEN "improvement" ELSE "regression"

\* _verdict of one metric.
Verdict(def, b, c) ==
  IF None \in {b, c} THEN "not_comparable"
  ELSE IF Abs(c - b) <= def.tolerance THEN "unchanged"
  ELSE IF def.better = "neutral" THEN "changed"
  ELSE IF (c > b) = (def.better = "higher") THEN "improvement" ELSE "regression"

\* What is read of a run that was analysed: numbers, and of each dimension of its
\* score the points and the weight it had in the profile of the run.
IsAnalysis(run) ==
  run # None =>
    /\ \A k \in DOMAIN run.context : run.context[k] \in Int
    /\ \A d \in DOMAIN run.score : run.score[d].points \in Int /\ run.score[d].weight \in Nat

Context(run) == IF run = None THEN [k \in {} |-> None] ELSE run.context

Value(run, key) == IF key \in DOMAIN Context(run) THEN Context(run)[key] ELSE None

\* One row for each metric that one of the two runs has, and the score always.
MetricRows(b, c) ==
  [k \in DOMAIN Context(b) \cup DOMAIN Context(c) \cup {"score.total"} |->
     Verdict(Definition(k), Value(b, k), Value(c, k))]

Outcomes(run) == IF run = None THEN [a \in {} |-> None] ELSE run.outcomes

\* The verdict on an assertion, by the outcome of the candidate.
AssertionRows(b, c) ==
  [a \in DOMAIN Outcomes(b) \cup DOMAIN Outcomes(c) |->
     IF a \notin DOMAIN Outcomes(b) \cap DOMAIN Outcomes(c) THEN "not_comparable"
     ELSE IF Outcomes(b)[a] = Outcomes(c)[a] THEN "unchanged"
     ELSE CASE Outcomes(c)[a] = "passed" -> "improvement"
            [] Outcomes(c)[a] = "failed" -> "regression"
            [] OTHER -> "changed"]

Score(run) == IF run = None THEN [d \in {} |-> None] ELSE run.score

\* Whether a dimension is listed: by its weight in the candidate, or in the baseline
\* when the candidate does not have it.
Weighs(b, c, d) ==
  IF d \in DOMAIN Score(c) THEN Score(c)[d].weight # 0 ELSE Score(b)[d].weight # 0

\* The dimensions of the score; they do not count in the verdict on the runs.
DimensionRows(b, c) ==
  [d \in {x \in DOMAIN Score(b) \cup DOMAIN Score(c) : Weighs(b, c, x)} |->
     IF d \notin DOMAIN Score(b) \cap DOMAIN Score(c) THEN "not_comparable"
     ELSE Verdict([better |-> "higher", tolerance |-> 0], Score(b)[d].points, Score(c)[d].points)]

Count(rows, verdict) == Cardinality({k \in DOMAIN rows : rows[k] = verdict})

\* The verdict on the runs: what is neither better nor worse does not count.
Compare(b, c) ==
  LET metrics      == MetricRows(b, c)
      assertions   == AssertionRows(b, c)
      regressions  == Count(metrics, "regression") + Count(assertions, "regression")
      improvements == Count(metrics, "improvement") + Count(assertions, "improvement")
  IN  [ metrics      |-> metrics,
        assertions   |-> assertions,
        dimensions   |-> DimensionRows(b, c),
        regressions  |-> regressions,
        improvements |-> improvements,
        verdict      |-> IF None \in {b, c} THEN "not_comparable"
                         ELSE IF regressions > 0 /\ improvements > 0 THEN "mixed"
                         ELSE IF regressions > 0 THEN "regression"
                         ELSE IF improvements > 0 THEN "improvement"
                         ELSE "unchanged" ]

\* Two scores that leave out the same dimensions, as those of one profile do.
ScoredAlike(b, c) ==
  \A d \in DOMAIN Score(b) \cap DOMAIN Score(c) :
    Score(b)[d].weight = 0 <=> Score(c)[d].weight = 0

\* The same verdict when the runs trade places.
Opposite(verdict) ==
  CASE verdict = "improvement" -> "regression"
    [] verdict = "regression"  -> "improvement"
    [] OTHER -> verdict
=============================================================================
