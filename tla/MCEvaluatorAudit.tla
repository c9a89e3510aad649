-------------------------- MODULE MCEvaluatorAudit --------------------------
(***************************************************************************)
(* A baseline with one slot and a target with an observer added and fewer   *)
(* calls than coordinates; two versions of two anchors.  Answers differ by  *)
(* the target's threshold exactly, or by more than the baseline's.          *)
(***************************************************************************)
EXTENDS EvaluatorAudit, TLC

CONSTANTS base, target, anchor1, anchor2, score

MCCampaigns == {base, target}
MCAnchors == {anchor1, anchor2}
MCDims == {score}
MCOrder == <<anchor2, anchor1>>
MCSlots == (base :> <<"primary">>) @@ (target :> <<"primary", "observer">>)
MCMaxCalls == (base :> 2) @@ (target :> 3)
MCAnswers == {(score :> 0), (score :> 2)}
MCThreshold == [c \in MCCampaigns |-> (score :> IF c = base THEN 1 ELSE 2)]
MCVersions == {"reviewed", "edited"}
MCExpected == [v \in MCVersions |-> [a \in MCAnchors |-> (score :> IF v = "edited" THEN 1 ELSE 2)]]
=============================================================================
