------------------------- MODULE MCExternalPromotion -------------------------
(* Two artifacts, one listed and one not: c1 and c2 edit the listed one, c3   *)
(* adds the other.                                                            *)
EXTENDS ExternalPromotion

CONSTANTS c1, c2, c3, a1, a2

MCTarget == [c \in Campaigns |-> IF c = c3 THEN a2 ELSE a1]
MCInitialVersion == [a \in Artifacts |-> IF a = a1 THEN 1 ELSE 0]
AllPoints == ApplyPoints \cup RecoverPoints
LockWritten == AllPoints \ {"creating"}
Revalidated == AllPoints \ {"creating", "locked"}
==============================================================================
