---------------------------- MODULE VectorGates ----------------------------
(***************************************************************************)
(* What a campaign decides from scores: the diagnosis of an evaluation       *)
(* (kpo.diagnosis), the gates of a candidate (kpo.vector_regression) and the *)
(* failed gates a rejection tells the proposer (kpo.campaign).  Scores,      *)
(* weights and thresholds are integers, on one scale; a weighted mean is     *)
(* compared with its threshold without the division.                         *)
(***************************************************************************)
EXTENDS Integers, FiniteSetsExt

CONSTANTS Cases,        \* the gated cases of the dataset: all but the train ones
          PartitionOf,  \* their partitions
          Weight,       \* and weights
          Dimensions,
          Threshold     \* profile.gates: a bound per gate and dimension

Partitions == {"validation", "holdout", "regression"}
Gates == Partitions \cup {"ablation"}

ASSUME GateAssumption ==
  /\ PartitionOf \in [Cases -> Partitions] /\ Weight \in [Cases -> Nat \ {0}]
  /\ \A p \in Partitions : \E c \in Cases : PartitionOf[c] = p
  /\ Dimensions # {} /\ Threshold \in [Gates -> [Dimensions -> Int]]

(* Signals are ranked 0 to 8, by _DIAGNOSIS_PRIORITY: 6 to 8 permit a patch.  *)
PatchableRanks == 6..8
Diagnosis(signals) == Min(signals)
Patchable(signals) == signals # {} /\ Diagnosis(signals) \in PatchableRanks

(* parent and candidate are the scores of the gated cases: the measurements.  *)
Gated(gate) == IF gate = "ablation" THEN Cases ELSE {c \in Cases : PartitionOf[c] = gate}
Gain(S, d, parent, candidate) ==
  MapThenSumSet(LAMBDA c : Weight[c] * (candidate[c][d] - parent[c][d]), S)
Reaches(gate, d, parent, candidate) ==
  Gain(Gated(gate), d, parent, candidate)
    >= Threshold[gate][d] * MapThenSumSet(LAMBDA c : Weight[c], Gated(gate))

(* Mutant: a candidate passes on its matched gains, ablation left out.        *)
PassedUnablated(parent, candidate) ==
  \A gate \in Partitions, d \in Dimensions : Reaches(gate, d, parent, candidate)

Passed(parent, candidate) ==
  \A gate \in Gates, d \in Dimensions : Reaches(gate, d, parent, candidate)

(* _failed_non_holdout_gates.                                                 *)
FailedGates(parent, candidate) ==
  {g \in (Gates \ {"holdout"}) \X Dimensions : ~Reaches(g[1], g[2], parent, candidate)}
=============================================================================
