------------------------- MODULE MCCurriculumGrowth -------------------------
(***************************************************************************)
(* Two commands; a dataset of a train and a holdout case, two eligible      *)
(* candidates, and one with the content of an untouched case.               *)
(***************************************************************************)
EXTENDS CurriculumGrowth, TLC

CONSTANTS p1, p2, seed, held, near, far, spoiled, untouched

MCProcs == {p1, p2}
MCCases == {seed, held, near, far, spoiled, untouched}
MCRank == (seed :> 1) @@ (held :> 2) @@ (near :> 3) @@ (far :> 4) @@ (spoiled :> 5) @@ (untouched :> 6)
MCText == [c \in MCCases |-> IF c = spoiled THEN untouched ELSE c]
MCUntouched == {untouched}
MCKinds == {"missing", "surplus"}
MCGaps == [c \in MCCases |-> IF c = near THEN {"missing"} ELSE {"surplus"}]
MCFeatures == [c \in MCCases |-> MCGaps[c] \cup (IF c = far THEN {"boundary"} ELSE {"causal"})]
(* The points behind the lock or after a write; a death elsewhere leaves what a *)
(* refused command leaves.                                                    *)
MCCrashPoints == Locked \cup Growing \cup {"done", "restored", "unlocking"}
MCSeeds == {[case |-> seed, part |-> "train"], [case |-> held, part |-> "holdout"]}
MCInboxes == {{near, far}, {far}}
MCReports == {[previewed |-> TRUE, counts |-> ("missing" :> 2) @@ ("surplus" :> 1)]}
MCAdditions == {[case |-> far, part |-> "train"], [case |-> near, part |-> "holdout"],
                [case |-> spoiled, part |-> "train"]}
=============================================================================
