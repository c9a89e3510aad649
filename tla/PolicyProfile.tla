---------------------------- MODULE PolicyProfile ----------------------------
(***************************************************************************)
(* The part of an external profile that a promotion can change: the files   *)
(* of the policy artifacts and the policy manifest that lists them with a   *)
(* version.  Bytes are tokens: a campaign stands for the content of its     *)
(* own candidate, and equal tokens are equal digests.                       *)
(***************************************************************************)
EXTENDS Naturals

CONSTANTS Campaigns,       \* campaign identifiers
          Artifacts,       \* policy artifacts of the profile
          Target,          \* the artifact each campaign's candidate writes
          Original,        \* the bytes of a listed artifact before KPO ran
          Edited,          \* the bytes the owner writes by hand
          Absent,          \* no file at the artifact's path
          InitialVersion   \* manifest version of each artifact, 0 = no row

ASSUME ProfileAssumption ==
  /\ Target \in [Campaigns -> Artifacts]
  /\ InitialVersion \in [Artifacts -> Nat]
  /\ Original # Absent /\ Edited # Absent
  /\ Absent \notin Campaigns

Bytes == Campaigns \cup {Original, Edited, Absent}
Profiles == [content : [Artifacts -> Bytes], manifest : [Artifacts -> Nat]]
NoProfile == [content |-> <<>>, manifest |-> <<>>]

InitialProfile ==
  [content  |-> [a \in Artifacts |-> IF InitialVersion[a] = 0 THEN Absent ELSE Original],
   manifest |-> InitialVersion]

(* load_profile reads every file the manifest lists, and fails on a missing one. *)
Loadable(p) == \A a \in Artifacts : p.manifest[a] > 0 => p.content[a] # Absent

(* What a loaded profile's policy digest identifies: the listed artifacts,   *)
(* each with its version and content.  An unlisted file is not part of it.   *)
PolicyOf(p) ==
  [a \in Artifacts |-> IF p.manifest[a] = 0 THEN <<0, Absent>>
                       ELSE <<p.manifest[a], p.content[a]>>]

(* The reviewed content, the reviewed manifest, and both: an edit bumps the  *)
(* version of the existing row, an add appends a row with version 1.         *)
ReviewedContent(p, c)  == [p.content EXCEPT ![Target[c]] = c]
ReviewedManifest(p, c) == [p.manifest EXCEPT ![Target[c]] = @ + 1]
Promote(p, c) == [content  |-> ReviewedContent(p, c),
                  manifest |-> ReviewedManifest(p, c)]
==============================================================================
