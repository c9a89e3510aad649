--------------------------- MODULE AtomicPromotion ---------------------------
(***************************************************************************)
(* What `kpo promote` promises an operator: the profile moves to a          *)
(* candidate in one indivisible step, only while it is still the profile    *)
(* the campaign was started from, and once per campaign.  No interrupted,   *)
(* recovered or stale promotion ever takes effect.                          *)
(***************************************************************************)
EXTENDS PolicyProfile

VARIABLES profile,   \* the profile in effect
          parent,    \* the profile each campaign was started from
          promoted   \* the campaigns whose promotion took effect

vars == <<profile, parent, promoted>>

Init ==
  /\ profile = InitialProfile
  /\ parent = [c \in Campaigns |-> NoProfile]
  /\ promoted = {}

(* A campaign records the profile it reads when it starts.                  *)
Open(c) ==
  /\ parent[c] = NoProfile
  /\ parent'[c] \in Profiles
  /\ parent' = [parent EXCEPT ![c] = parent'[c]]
  /\ UNCHANGED <<profile, promoted>>

(* The owner approved c and nothing changed the profile since c started.    *)
Commit(c) ==
  /\ c \notin promoted
  /\ parent[c] = profile
  /\ profile' = Promote(profile, c)
  /\ promoted' = promoted \cup {c}
  /\ UNCHANGED parent

(* The owner edits a policy file by hand, between promotions.               *)
Edit(a) ==
  /\ profile' = [profile EXCEPT !.content[a] = Edited]
  /\ UNCHANGED <<parent, promoted>>

Next ==
  \/ \E c \in Campaigns : Open(c) \/ Commit(c)
  \/ \E a \in Artifacts : Edit(a)

Spec == Init /\ [][Next]_vars
==============================================================================
