------------------------- MODULE CalibrationMetrics -------------------------
(***************************************************************************)
(* What an evaluator audit computes from its observations: the metrics of   *)
(* kpo.calibration_metrics, the coverage and the summary of                 *)
(* kpo.evaluator_calibration_report, and the comparison of two reports in    *)
(* kpo.evaluator_drift.  Scores are integers in 0..Full, and a mean is its   *)
(* sum beside the number of its terms, so that nothing is rounded.          *)
(***************************************************************************)
EXTENDS Integers, FiniteSets, FiniteSetsExt

CONSTANTS Anchors, Dims, Full

Absent == [state |-> "absent"]
Pending == [state |-> "pending"]
Completed(scores) == [state |-> "completed", scores |-> scores]
Unavailable(kind) == [state |-> "unavailable", kind |-> kind]
IsScore(f) == f \in [Dims -> 0..Full]

(* _record: an observation is made once, and completes a pending one.         *)
Recordable(old, new) ==
  \/ old = Absent
  \/ old = Pending /\ new # Pending
  \/ old = new

Magnitude(n) == IF n < 0 THEN -n ELSE n
Scored(obs, s) == {a \in Anchors : obs[a][s].state = "completed"}
Missed(obs, s) == {a \in Anchors : obs[a][s].state = "unavailable"}
KindsOf(obs, s) == {obs[a][s].kind : a \in Missed(obs, s)}
Largest(S) == IF S = {} THEN {} ELSE {Max(S)}   \* {} stands for null

(* The variance is stated as n^2 times itself.                                *)
Metric(obs, expected, s, d) ==
  LET error(a) == obs[a][s].scores[d] - expected[a][d]
      sum(f(_)) == MapThenSumSet(f, Scored(obs, s))
      square(a) == error(a) * error(a)
      magnitude(a) == Magnitude(error(a))
      n == Cardinality(Scored(obs, s))
  IN  [comparable |-> n, signed |-> sum(error), absolute |-> sum(magnitude),
       squares |-> sum(square), variance |-> n * sum(square) - sum(error) * sum(error),
       max |-> Largest({magnitude(a) : a \in Scored(obs, s)})]

Coverage(obs, s) == [completed |-> Cardinality(Scored(obs, s)),
                     unavailable |-> Cardinality(Missed(obs, s))]
Totals(obs, s) == [k \in KindsOf(obs, s) |->
                     Cardinality({a \in Missed(obs, s) : obs[a][s].kind = k})]

Summary(obs, expected, slots) ==
  [coverage |-> [s \in slots |-> Coverage(obs, s)],
   totals |-> [s \in slots |-> Totals(obs, s)],
   maxima |-> [d \in Dims |-> Largest(UNION {Metric(obs, expected, s, d).max : s \in slots})]]

-----------------------------------------------------------------------------
(* Mutant: an anchor without a score counts as a score of zero.               *)
DeltasZero(base, target, s, d) ==
  LET graded(obs, a) == IF a \in Scored(obs, s) THEN obs[a][s].scores[d] ELSE 0
  IN  [a \in Anchors |-> graded(target, a) - graded(base, a)]

(* Only the anchors both campaigns scored are compared.                       *)
Deltas(base, target, s, d) ==
  [a \in Scored(base, s) \cap Scored(target, s) |->
     target[a][s].scores[d] - base[a][s].scores[d]]

(* | sum / n | > threshold, and no drift without a comparison.                *)
Detected(deltas, threshold) ==
  LET n == Cardinality(DOMAIN deltas)
      delta(a) == deltas[a]
  IN  n > 0 /\ Magnitude(MapThenSumSet(delta, DOMAIN deltas)) > threshold * n

Drift(base, target, baseSlots, targetSlots, threshold) ==
  LET matched == baseSlots \cap targetSlots
      drifts(s, d) == Detected(Deltas(base, target, s, d), threshold[d])
  IN  [added |-> targetSlots \ baseSlots, removed |-> baseSlots \ targetSlots,
       drifted |-> {s \in matched : \E d \in Dims : drifts(s, d)}]
=============================================================================
