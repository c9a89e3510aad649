-------------------------- MODULE MCCampaignLoop --------------------------
(***************************************************************************)
(* Two train cases, of which the second may need no patch, one gated case in *)
(* each partition, two candidates and one observer.  The first candidate     *)
(* reaches every gate or fails the ablation gate alone, as its holdout score *)
(* has it; the second fails validation.                                      *)
(***************************************************************************)
EXTENDS CampaignLoop

CONSTANTS first, second, score, observer

MCTrain == <<"train1", "train2">>
MCRest == <<"validation1", "holdout1", "regression1">>
MCCases == ToSet(MCRest)
MCPartitionOf == ("validation1" :> "validation") @@ ("holdout1" :> "holdout") @@ ("regression1" :> "regression")
MCWeight == ("validation1" :> 2) @@ ("holdout1" :> 1) @@ ("regression1" :> 1)
MCDimensions == {score}
Bound(n) == (score :> n)
MCThreshold == ("validation" :> Bound(1)) @@ ("holdout" :> Bound(0)) @@ ("regression" :> Bound(0))
                 @@ ("ablation" :> Bound(1))
MCCandidates == {first, second}
MCObserverOrder == <<observer>>
MCObservers == {observer}

\* The score of a gated case, by policy; 1 under the parent.
MayScore(case, policy) ==
  IF policy = first
  THEN CASE case = "validation1" -> {2} [] case = "holdout1" -> {1, 3} [] OTHER -> {1}
  ELSE {1}
Signals(case) ==
  CASE case = "train1" -> {{3, 8}} [] case = "train2" -> {{}, {6}} [] OTHER -> {{}}
MCAll == (MCCases \cup ToSet(MCTrain)) \X ({Parent} \cup MCCandidates)
MCEvaluations ==
  [x \in MCAll |-> [scores : {Bound(n) : n \in MayScore(x[1], x[2])}, signals : Signals(x[1])]]
MCObservations ==
  [x \in MCObservers \X (MCCases \cup ToSet(MCTrain)) \X ({Parent} \cup MCCandidates) |-> {Bound(2)}]
===========================================================================
