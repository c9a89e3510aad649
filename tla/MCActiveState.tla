---------------------------- MODULE MCActiveState ----------------------------
(* The policy and one component.  SafePoints are the two places the code can  *)
(* recover from; the fault injection of the tests is there.                   *)
EXTENDS ActiveState

CONSTANTS policy, k1, d1, d2, e1, e2

SafePoints == {"pointer", "committed"}
==============================================================================
