------------------------- MODULE CurriculumSelection -------------------------
(***************************************************************************)
(* The pure part of kpo.curriculum: which campaign of the series gives the  *)
(* signal, which inbox is eligible, and select_curriculum's greedy choice.  *)
(* Scores are rationals with the common denominator Scale * total * Of, so  *)
(* that they compare as integers; the rounding to twelve places in the code *)
(* cannot merge two of them.                                                *)
(***************************************************************************)
EXTENDS Integers, Sequences, FiniteSets, FiniteSetsExt

CONSTANTS Cases,     \* case ids, of the dataset, of the inbox and of the generalization manifest
          Rank,      \* their lexicographic order
          Text,      \* the normalized prompt and context of a case
          Untouched, \* the cases of the generalization manifest
          Gaps,      \* gap_kinds of a candidate
          Features,  \* its gap and facet features
          Kinds,     \* the actionable kinds
          MaxSelection, Diversity, Of  \* diversity_weight is Diversity / Of

ASSUME SelectionAssumption ==
  /\ Rank \in [Cases -> Nat] /\ \A c, d \in Cases : Rank[c] = Rank[d] => c = d
  /\ DOMAIN Text = Cases /\ Untouched \subseteq Cases
  /\ Gaps \in [Cases -> SUBSET Kinds] /\ DOMAIN Features = Cases
  /\ MaxSelection \in Nat \ {0} /\ Diversity \in 0..Of /\ Of \in Nat \ {0}

(* load_curriculum_signal: entries carry the actionable counts of their       *)
(* differential summary; without an available summary they are all zero.     *)
Total(counts) == MapThenSumSet(LAMBDA k : counts[k], Kinds)
Actionable(entries) == {i \in DOMAIN entries : Total(entries[i].counts) > 0}
Signals(entries) ==
  LET found == Actionable(entries)
      first == {i \in found : entries[i].previewed}
  IN  IF first # {} THEN {Max(first)} ELSE IF found # {} THEN {Max(found)} ELSE {}

(* validate_curriculum_eligibility: the whole inbox, or nothing.              *)
Eligible(inbox, dataset) ==
  /\ inbox # {}
  /\ \A c \in inbox, d \in dataset \cup Untouched : Text[c] # Text[d]
  /\ \A c, d \in inbox : Text[c] = Text[d] => c = d

Scale == 840   \* a multiple of every union of at most eight features
Jaccard(c, d) == (Scale * Cardinality(Features[c] \cap Features[d]))
                 \div Cardinality(Features[c] \cup Features[d])
Relevance(c, counts) == MapThenSumSet(LAMBDA k : counts[k], Gaps[c])
Novelty(c, chosen) == IF chosen = {} THEN Scale
                      ELSE Scale - Max({Jaccard(c, d) : d \in chosen})
Score(c, chosen, counts) == (Of - Diversity) * Relevance(c, counts) * Scale
                            + Diversity * Novelty(c, chosen) * Total(counts)

Before(c, d, chosen, counts) ==
  LET sc == Score(c, chosen, counts)   sd == Score(d, chosen, counts)
      rc == Relevance(c, counts)       rd == Relevance(d, counts)
  IN  \/ sc > sd
      \/ sc = sd /\ rc > rd
      \/ sc = sd /\ rc = rd /\ Rank[c] < Rank[d]

(* select_curriculum: the cases chosen after at most n steps.                 *)
Selection(inbox, counts) ==
  LET chosen[n \in 0..MaxSelection] ==
        IF n = 0 THEN {}
        ELSE LET left == inbox \ chosen[n - 1]
             IN  chosen[n - 1] \cup {c \in left : \A d \in left \ {c} :
                                        Before(c, d, chosen[n - 1], counts)}
  IN  chosen[MaxSelection]
=============================================================================
