----------------------- MODULE ExternalPromotionProofs -----------------------
(***************************************************************************)
(* Proofs about ExternalPromotion for any number of processes, campaigns    *)
(* and artifacts and any number of crashes: who owns apply.lock as long as  *)
(* no recovery meets a live command, and everything else when commands are  *)
(* Orderly, that is run one at a time, or are applies that overlap.         *)
(***************************************************************************)
EXTENDS ExternalPromotion, TLAPS

(* A death at "locked" leaves the name of a campaign in apply.lock whose second *)
(* validation did not come: if an apply had committed since the first one, a  *)
(* recovery would restore the profile before it (README, "Divergences").      *)
Orderly == Overlap = "none" \/ (Overlap = "apply" /\ "locked" \notin CrashPoints)

(* What makes the types inductive: a campaign that started has the profile it *)
(* read, and a running command works on a campaign with a preview.           *)
Bound ==
  /\ \A c \in Campaigns : pstate[c] # "none" => bundle[c] \in Profiles
  /\ \A p \in Procs : ~Idle(p) => cmd[p] \in Campaigns /\ pstate[cmd[p]] \in Previewed

(* Who owns the lock.                                                         *)
LockInv ==
  /\ MutualExclusion
  /\ \A p \in Procs : pc[p] = "creating" => lock = [maker |-> p, names |-> Nobody]
  /\ Overlap = "none" => \A p, q \in Procs : ~Idle(p) /\ ~Idle(q) => p = q

(* Where the files are at every point of the two commands from the second     *)
(* validation on, and behind a lock that a dead command left.                 *)
AtParent(c) == content = bundle[c].content /\ manifest = bundle[c].manifest
AtCandidate(c) == /\ content = ReviewedContent(bundle[c], c)
                  /\ manifest = ReviewedManifest(bundle[c], c)
InTransition(c) == /\ content \in {bundle[c].content, ReviewedContent(bundle[c], c)}
                   /\ manifest = bundle[c].manifest \/ AtCandidate(c)

Validated == \A p \in Procs : pc[p] # "locked"
Trusts(p) == pc[p] \notin {"idle", "checked", "creating", "locked"}

FilesAt(p, c) ==
  /\ pc[p] \in {"validated", "journaled", "applying", "restored", "parent verified", "recovered"} =>
       AtParent(c)
  /\ pc[p] = "content" => content = ReviewedContent(bundle[c], c)
  /\ pc[p] \in {"content", "manifest restored"} => manifest = bundle[c].manifest
  /\ pc[p] \in {"manifest", "verified"} => AtCandidate(c)
JournalAt(p, c) ==
  Trusts(p) =>
    (journal[c] = "committed" <=> pc[p] \in {"committed", "applied", "finalizing", "finalized"})

(* Before it, the first validation holds as long as nothing else runs.        *)
AloneAt(p, c) ==
  Overlap = "none" =>
    /\ pc[p] \in {"checked", "creating", "locked"} => AtParent(c)
    /\ pc[p] = "checked" => lock # NoLock \/ journal[c] # "committed"
    /\ pc[p] \in {"creating", "locked"} => journal[c] # "committed"

CommandAt(p, c) == FilesAt(p, c) /\ JournalAt(p, c) /\ AloneAt(p, c)

BehindLock(c) ==
  LockNames(c) =>
    /\ pstate[c] \in Previewed
    /\ Validated => IF journal[c] = "committed" THEN AtCandidate(c) ELSE InTransition(c)
Recorded(c) ==
  /\ journal[c] # "none" => pstate[c] \in Previewed
  /\ pstate[c] = "none" => bundle[c] = NoProfile
  /\ pstate[c] # "none" => Loadable(bundle[c])
Kept(c) ==
  journal[c] = "committed" =>
    /\ manifest[Target[c]] > bundle[c].manifest[Target[c]]
    /\ \A d \in Campaigns : LockNames(d) /\ Validated /\ journal[d] # "committed" =>
         bundle[d].manifest[Target[c]] > bundle[c].manifest[Target[c]]

PromotionInv ==
  /\ \A p \in Procs : ~Idle(p) => CommandAt(p, cmd[p])
  /\ \A c \in Campaigns : BehindLock(c) /\ Recorded(c) /\ Kept(c)
  /\ AlwaysLoadable

(* A campaign's promotion state and its journal agree unless apply.lock names  *)
(* the campaign; behind the lock the state follows the journal, and a command  *)
(* that is about to unlink the lock has brought them together.                 *)
Agree(c) == (pstate[c] = "applied" <=> journal[c] = "committed") /\ pstate[c] # "applying"
StateAt(p, c) ==
  /\ pc[p] \in {"locked", "validated", "journaled"} => Agree(c)
  /\ pc[p] \in {"applied", "finalized"} => pstate[c] = "applied"
  /\ pc[p] = "recovered" => pstate[c] = "recovered"
StateInv ==
  /\ \A c \in Campaigns : /\ ~LockNames(c) => Agree(c)
                          /\ pstate[c] = "applied" => journal[c] = "committed"
  /\ \A p \in Procs : ~Idle(p) => StateAt(p, cmd[p])

USE DEF Goto, Leave, Enter, SetState, SetJournal, files, counters, disk

-----------------------------------------------------------------------------
(* Every reachable state is well typed (all writes of the two commands).      *)
THEOREM TypeCorrect == Spec => [](TypeOK /\ Bound)
<1>1. Init => TypeOK /\ Bound
  BY ProfileAssumption, ControlAssumption
     DEF Init, TypeOK, Bound, Idle, InitialProfile, Bytes
<1>2. TypeOK /\ Bound /\ [Next]_vars => (TypeOK /\ Bound)'
  <2> SUFFICES ASSUME TypeOK, Bound, [Next]_vars PROVE (TypeOK /\ Bound)'
    OBVIOUS
  <2> USE ProfileAssumption, ControlAssumption DEF TypeOK, Bound, Idle, Previewed
  <2>1. ASSUME NEW c \in Campaigns, StartCampaign(c) PROVE (TypeOK /\ Bound)'
    BY <2>1 DEF StartCampaign, Profiles
  <2>2. ASSUME NEW c \in Campaigns, FinishCampaign(c) PROVE (TypeOK /\ Bound)'
    BY <2>2 DEF FinishCampaign
  <2>3. ASSUME NEW a \in Artifacts, OwnerEdit(a) PROVE (TypeOK /\ Bound)'
    BY <2>3 DEF OwnerEdit, Bytes
  <2>4. ASSUME NEW p \in Procs, NEW c \in Campaigns, CheckApply(p, c) PROVE (TypeOK /\ Bound)'
    BY <2>4 DEF CheckApply, MayApply, ApplyPoints
  <2>5. ASSUME NEW p \in Procs, NEW c \in Campaigns, CheckRecover(p, c) PROVE (TypeOK /\ Bound)'
    BY <2>5, ZenonT(40) DEF CheckRecover, MayRecover, RecoverPoints
  <2>6. ASSUME NEW p \in Procs, CreateLock(p) PROVE (TypeOK /\ Bound)'
    BY <2>6 DEF CreateLock, ApplyPoints
  <2>7. ASSUME NEW p \in Procs, RefuseLock(p) PROVE (TypeOK /\ Bound)'
    BY <2>7 DEF RefuseLock
  <2>8. ASSUME NEW p \in Procs, WriteLock(p) PROVE (TypeOK /\ Bound)'
    BY <2>8 DEF WriteLock, ApplyPoints
  <2>9. ASSUME NEW p \in Procs, Revalidate(p) PROVE (TypeOK /\ Bound)'
    BY <2>9 DEF Revalidate, ApplyPoints
  <2>10. ASSUME NEW p \in Procs, AbortApply(p) PROVE (TypeOK /\ Bound)'
    BY <2>10 DEF AbortApply
  <2>11. ASSUME NEW p \in Procs, WritePrepared(p) PROVE (TypeOK /\ Bound)'
    BY <2>11 DEF WritePrepared, ApplyPoints
  <2>12. ASSUME NEW p \in Procs, MarkApplying(p) PROVE (TypeOK /\ Bound)'
    BY <2>12 DEF MarkApplying, ApplyPoints
  <2>13. ASSUME NEW p \in Procs, ReplaceContent(p) PROVE (TypeOK /\ Bound)'
    BY <2>13 DEF ReplaceContent, ApplyPoints, Bytes
  <2>14. ASSUME NEW p \in Procs, ReplaceManifest(p) PROVE (TypeOK /\ Bound)'
    BY <2>14 DEF ReplaceManifest, ApplyPoints, ReviewedManifest, Profiles
  <2>15. ASSUME NEW p \in Procs, VerifyApplied(p) PROVE (TypeOK /\ Bound)'
    BY <2>15 DEF VerifyApplied, ApplyPoints
  <2>16. ASSUME NEW p \in Procs, MarkCommitted(p) PROVE (TypeOK /\ Bound)'
    BY <2>16 DEF MarkCommitted, ApplyPoints
  <2>17. ASSUME NEW p \in Procs, MarkApplied(p) PROVE (TypeOK /\ Bound)'
    BY <2>17 DEF MarkApplied, ApplyPoints
  <2>18. ASSUME NEW p \in Procs, ReleaseLock(p) PROVE (TypeOK /\ Bound)'
    BY <2>18 DEF ReleaseLock
  <2>19. ASSUME NEW p \in Procs, WriteRecoveryJournal(p) PROVE (TypeOK /\ Bound)'
    BY <2>19, ZenonT(40) DEF WriteRecoveryJournal, RecoverPoints
  <2>20. ASSUME NEW p \in Procs, RestoreManifest(p) PROVE (TypeOK /\ Bound)'
    <3>1. bundle[cmd[p]] \in Profiles
      BY <2>20 DEF RestoreManifest
    <3>2. manifest' \in [Artifacts -> Nat]
      BY <2>20, <3>1, ZenonT(40) DEF RestoreManifest, Profiles
    <3>. QED
      BY <2>20, <3>2 DEF RestoreManifest, RecoverPoints
  <2>21. ASSUME NEW p \in Procs, RestoreContent(p) PROVE (TypeOK /\ Bound)'
    <3>1. bundle[cmd[p]] \in Profiles
      BY <2>21 DEF RestoreContent
    <3>2. content' \in [Artifacts -> Bytes]
      BY <2>21, <3>1 DEF RestoreContent, Profiles
    <3>. QED
      BY <2>21, <3>2 DEF RestoreContent, RecoverPoints
  <2>22. ASSUME NEW p \in Procs, VerifyRestored(p) PROVE (TypeOK /\ Bound)'
    <3>1. CASE Restored(cmd[p])
      BY <2>22, <3>1, ZenonT(40) DEF VerifyRestored, RecoverPoints
    <3>2. CASE ~Restored(cmd[p])
      <4>1. pc' = [pc EXCEPT ![p] = "idle"] /\ cmd' = [cmd EXCEPT ![p] = Nobody]
            /\ UNCHANGED <<content, manifest, bundle, pstate, journal, lock, counters>>
        BY <2>22, <3>2 DEF VerifyRestored
      <4>. QED
        BY <4>1
    <3>. QED
      BY <3>1, <3>2
  <2>23. ASSUME NEW p \in Procs, MarkRecovered(p) PROVE (TypeOK /\ Bound)'
    BY <2>23, ZenonT(40) DEF MarkRecovered, RecoverPoints
  <2>24. ASSUME NEW p \in Procs, FinalizeApplied(p) PROVE (TypeOK /\ Bound)'
    BY <2>24, ZenonT(40) DEF FinalizeApplied, RecoverPoints
  <2>25. ASSUME NEW p \in Procs, Crash(p) PROVE (TypeOK /\ Bound)'
    BY <2>25 DEF Crash
  <2>26. CASE UNCHANGED vars
    BY <2>26 DEF vars
  <2>. QED
    BY <2>1, <2>2, <2>3, <2>4, <2>5, <2>6, <2>7, <2>8, <2>9, <2>10, <2>11, <2>12, <2>13,
       <2>14, <2>15, <2>16, <2>17, <2>18, <2>19, <2>20, <2>21, <2>22, <2>23, <2>24, <2>25, <2>26
       DEF Next, Step, ApplyStep, RecoverStep, Recover
<1>. QED
  BY <1>1, <1>2, PTL DEF Spec

-----------------------------------------------------------------------------
(* A write of a recovery keeps its command behind the lock, and no other moves.  *)
LEMMA RecoveryWrites ==
  ASSUME NEW p \in Procs, TypeOK,
         \/ RestoreManifest(p) \/ RestoreContent(p) \/ MarkRecovered(p)
         \/ VerifyRestored(p) /\ Restored(cmd[p])
  PROVE  /\ pc[p] \notin {"idle", "checked", "creating"}
         /\ pc'[p] \notin {"idle", "checked", "creating"}
         /\ \A q \in Procs \ {p} : pc'[q] = pc[q]
         /\ lock' = lock /\ cmd' = cmd
<1>1. \E s, t \in RecoverPoints :
        pc[p] = s /\ pc' = [pc EXCEPT ![p] = t] /\ lock' = lock /\ cmd' = cmd
  <2>1. CASE RestoreManifest(p)
    BY <2>1, Zenon DEF RestoreManifest, RecoverPoints
  <2>2. CASE RestoreContent(p)
    BY <2>2, Zenon DEF RestoreContent, RecoverPoints
  <2>3. CASE MarkRecovered(p)
    BY <2>3, Zenon DEF MarkRecovered, RecoverPoints
  <2>4. CASE VerifyRestored(p) /\ Restored(cmd[p])
    BY <2>4, Zenon DEF VerifyRestored, RecoverPoints
  <2>. QED
    BY <2>1, <2>2, <2>3, <2>4
<1>. QED
  BY <1>1 DEF TypeOK, RecoverPoints

(* While no recovery starts beside a live command, apply.lock has one owner.   *)
LEMMA LockAlways == ASSUME Overlap # "any" PROVE Spec => []LockInv
<1>1. Init => LockInv
  <2> SUFFICES ASSUME Init PROVE LockInv
    OBVIOUS
  <2>1. \A p \in Procs : pc[p] = "idle"
    BY DEF Init
  <2>. QED
    BY <2>1 DEF LockInv, MutualExclusion, Holding, Idle
<1>2. TypeOK /\ Bound /\ LockInv /\ [Next]_vars => LockInv'
  <2> SUFFICES ASSUME TypeOK, Bound, LockInv, [Next]_vars PROVE LockInv'
    OBVIOUS
  <2> USE ControlAssumption DEF LockInv, MutualExclusion, Holding, LockNames,
          Idle, TypeOK
  <2>1. ASSUME NEW c \in Campaigns, StartCampaign(c) PROVE LockInv'
    BY <2>1 DEF StartCampaign
  <2>2. ASSUME NEW c \in Campaigns, FinishCampaign(c) PROVE LockInv'
    BY <2>2 DEF FinishCampaign
  <2>3. ASSUME NEW a \in Artifacts, OwnerEdit(a) PROVE LockInv'
    BY <2>3 DEF OwnerEdit
  <2>4. ASSUME NEW p \in Procs, NEW c \in Campaigns, CheckApply(p, c) PROVE LockInv'
    <3>1. /\ pc' = [pc EXCEPT ![p] = "checked"] /\ cmd' = [cmd EXCEPT ![p] = c]
          /\ pc[p] = "idle" /\ lock' = lock
          /\ Overlap = "none" => \A q \in Procs : pc[q] = "idle"
      BY <2>4 DEF CheckApply, MayApply, AllIdle
    <3>2. \A q \in Procs : /\ pc'[q] \notin {"idle", "checked"} => pc'[q] = pc[q] /\ cmd'[q] = cmd[q]
                           /\ pc'[q] = "creating" => pc[q] = "creating"
                           /\ Overlap = "none" /\ pc'[q] # "idle" => q = p
      BY <3>1
    <3>. QED
      BY <3>1, <3>2
  <2>5. ASSUME NEW p \in Procs, NEW c \in Campaigns, CheckRecover(p, c) PROVE LockInv'
    <3>1. \A q \in Procs : q # p => pc'[q] = "idle"
      BY <2>5 DEF CheckRecover, MayRecover, AllIdle
    <3>2. pc'[p] # "creating" /\ lock' = lock /\ LockNames(c) /\ cmd'[p] = c
      BY <2>5 DEF CheckRecover
    <3>. QED
      BY <3>1, <3>2
  <2>6. ASSUME NEW p \in Procs, CreateLock(p) PROVE LockInv'
    BY <2>6 DEF CreateLock
  <2>7. ASSUME NEW p \in Procs, RefuseLock(p) PROVE LockInv'
    BY <2>7 DEF RefuseLock
  <2>8. ASSUME NEW p \in Procs, WriteLock(p) PROVE LockInv'
    BY <2>8 DEF WriteLock
  <2>9. ASSUME NEW p \in Procs, Revalidate(p) PROVE LockInv'
    BY <2>9 DEF Revalidate
  <2>10. ASSUME NEW p \in Procs, AbortApply(p) PROVE LockInv'
    BY <2>10 DEF AbortApply
  <2>11. ASSUME NEW p \in Procs, WritePrepared(p) PROVE LockInv'
    BY <2>11 DEF WritePrepared
  <2>12. ASSUME NEW p \in Procs, MarkApplying(p) PROVE LockInv'
    BY <2>12 DEF MarkApplying
  <2>13. ASSUME NEW p \in Procs, ReplaceContent(p) PROVE LockInv'
    BY <2>13 DEF ReplaceContent
  <2>14. ASSUME NEW p \in Procs, ReplaceManifest(p) PROVE LockInv'
    BY <2>14 DEF ReplaceManifest
  <2>15. ASSUME NEW p \in Procs, VerifyApplied(p) PROVE LockInv'
    BY <2>15 DEF VerifyApplied
  <2>16. ASSUME NEW p \in Procs, MarkCommitted(p) PROVE LockInv'
    BY <2>16 DEF MarkCommitted
  <2>17. ASSUME NEW p \in Procs, MarkApplied(p) PROVE LockInv'
    BY <2>17 DEF MarkApplied
  <2>18. ASSUME NEW p \in Procs, ReleaseLock(p) PROVE LockInv'
    BY <2>18 DEF ReleaseLock
  <2>19. ASSUME NEW p \in Procs, WriteRecoveryJournal(p) PROVE LockInv'
    BY <2>19 DEF WriteRecoveryJournal
  <2>20. ASSUME NEW p \in Procs, RestoreManifest(p) PROVE LockInv'
    BY <2>20, RecoveryWrites
  <2>21. ASSUME NEW p \in Procs, RestoreContent(p) PROVE LockInv'
    BY <2>21, RecoveryWrites
  <2>22. ASSUME NEW p \in Procs, VerifyRestored(p) PROVE LockInv'
    <3>1. CASE Restored(cmd[p])
      BY <2>22, <3>1, RecoveryWrites
    <3>2. CASE ~Restored(cmd[p])
      BY <2>22, <3>2 DEF VerifyRestored
    <3>. QED
      BY <3>1, <3>2
  <2>23. ASSUME NEW p \in Procs, MarkRecovered(p) PROVE LockInv'
    BY <2>23, RecoveryWrites
  <2>24. ASSUME NEW p \in Procs, FinalizeApplied(p) PROVE LockInv'
    BY <2>24 DEF FinalizeApplied
  <2>25. ASSUME NEW p \in Procs, Crash(p) PROVE LockInv'
    BY <2>25 DEF Crash
  <2>26. CASE UNCHANGED vars
    BY <2>26 DEF vars
  <2>. QED
    BY <2>1, <2>2, <2>3, <2>4, <2>5, <2>6, <2>7, <2>8, <2>9, <2>10, <2>11, <2>12, <2>13,
       <2>14, <2>15, <2>16, <2>17, <2>18, <2>19, <2>20, <2>21, <2>22, <2>23, <2>24, <2>25, <2>26
       DEF Next, Step, ApplyStep, RecoverStep, Recover
<1>. QED
  BY <1>1, <1>2, TypeCorrect, PTL DEF Spec

(* However many applies overlap, and wherever a command dies, at most one live  *)
(* command is behind apply.lock and the lock names what it is writing, as long  *)
(* as no recovery is started while a command is alive (apply, 919-965).         *)
THEOREM ExclusiveWriter ==
  ASSUME Overlap # "any" PROVE Spec => []MutualExclusion
<1>1. LockInv => MutualExclusion
  BY DEF LockInv
<1>. QED
  BY <1>1, LockAlways, PTL

-----------------------------------------------------------------------------
(* What promoting c makes of a profile b: the version of its target grows, no *)
(* other does, and the profile can still be loaded before and after the      *)
(* manifest is replaced.                                                     *)
LEMMA Reviewed ==
  ASSUME NEW c \in Campaigns, NEW b \in Profiles
  PROVE  /\ ReviewedManifest(b, c) \in [Artifacts -> Nat]
         /\ \A a \in Artifacts : ReviewedManifest(b, c)[a] >= b.manifest[a]
         /\ ReviewedManifest(b, c)[Target[c]] > b.manifest[Target[c]]
         /\ ReviewedContent(b, c) \in [Artifacts -> Bytes]
         /\ Loadable(b) =>
              /\ Loadable([content |-> ReviewedContent(b, c), manifest |-> b.manifest])
              /\ Loadable([content  |-> ReviewedContent(b, c),
                           manifest |-> ReviewedManifest(b, c)])
<1> b.content \in [Artifacts -> Bytes] /\ b.manifest \in [Artifacts -> Nat]
  BY DEF Profiles
<1> Target[c] \in Artifacts /\ c # Absent /\ c \in Bytes
  BY ProfileAssumption DEF Bytes
<1>. QED
  BY DEF ReviewedManifest, ReviewedContent, Loadable

(* The invariant of orderly operation: where the files, the lock and the       *)
(* journal are at every program point behind the lock, however many applies    *)
(* have made their first check and wait, or go, for it.                        *)
THEOREM PromotionInvariant == ASSUME Orderly PROVE Spec => []PromotionInv
<1>1. Init => PromotionInv
  BY ProfileAssumption, ControlAssumption
     DEF Init, PromotionInv, Idle, BehindLock, LockNames, Recorded, Kept,
         AlwaysLoadable, Loadable, InitialProfile
<1>2. TypeOK /\ Bound /\ LockInv /\ PromotionInv /\ [Next]_vars => PromotionInv'
  <2> SUFFICES ASSUME TypeOK, Bound, LockInv, PromotionInv, [Next]_vars PROVE PromotionInv'
    OBVIOUS
  <2> USE ProfileAssumption, ControlAssumption, Orderly DEF Idle
  <2> DEFINE Campaign(d) == BehindLock(d) /\ Recorded(d) /\ Kept(d)
             Waiting(q) == pc[q] \in {"idle", "checked"} /\ (Overlap = "none" => pc[q] = "idle")
  (* what a step needs to know of the process that holds the lock *)
  <2>a. ASSUME NEW p \in Procs, pc[p] \notin {"idle", "checked"}
        PROVE  \E c \in Campaigns :
                 /\ cmd[p] = c /\ pstate[c] \in Previewed /\ pstate[c] # "none"
                 /\ bundle[c] \in Profiles /\ Loadable(bundle[c])
                 /\ CommandAt(p, c) /\ BehindLock(c)
                 /\ pc[p] # "creating" => LockNames(c) /\ \A d \in Campaigns : LockNames(d) => d = c
                 /\ pc[p] # "locked" => Validated
                 /\ \A q \in Procs \ {p} : Waiting(q)
    <3>1. PICK c \in Campaigns : c = cmd[p] /\ pstate[c] \in Previewed
      BY <2>a DEF Bound
    <3>2. pstate[c] # "none" /\ bundle[c] \in Profiles /\ Loadable(bundle[c])
      BY <3>1 DEF Bound, PromotionInv, Recorded, Previewed
    <3>3. CommandAt(p, c) /\ BehindLock(c)
      BY <2>a, <3>1 DEF PromotionInv
    <3>4. pc[p] # "creating" => LockNames(c) /\ \A d \in Campaigns : LockNames(d) => d = c
      BY <2>a, <3>1 DEF LockInv, MutualExclusion, Holding, LockNames
    <3>5. \A q \in Procs \ {p} : Waiting(q)
      BY <2>a DEF LockInv, MutualExclusion, Holding
    <3>6. pc[p] # "locked" => Validated
      BY <3>5 DEF Validated
    <3>. QED
      BY <3>1, <3>2, <3>3, <3>4, <3>5, <3>6
  (* what a step of that process has to establish *)
  <2>b. ASSUME NEW p \in Procs, NEW c \in Campaigns, cmd'[p] = c,
               \A q \in Procs \ {p} : Waiting(q) /\ pc'[q] = pc[q],
               pc'[p] # "idle" => CommandAt(p, c)',
               \A d \in Campaigns : Campaign(d)', AlwaysLoadable'
        PROVE  PromotionInv'
    <3>1. ASSUME NEW q \in Procs, pc'[q] # "idle" PROVE CommandAt(q, cmd[q])'
      <4>1. CASE q = p
        BY <2>b, <3>1, <4>1
      <4>2. CASE q # p
        BY <2>b, <3>1, <4>2 DEF CommandAt, FilesAt, JournalAt, AloneAt, Trusts
      <4>. QED
        BY <4>1, <4>2
    <3>. QED
      BY <2>b, <3>1 DEF PromotionInv
  (* a step that leaves the files, the lock and every verdict alone *)
  <2>c. ASSUME UNCHANGED <<content, manifest, bundle, lock>>, Validated' => Validated,
               \A d \in Campaigns : /\ journal'[d] = "committed" <=> journal[d] = "committed"
                                    /\ journal'[d] # "none" => journal[d] # "none" \/ pstate'[d] \in Previewed
                                    /\ pstate[d] \in Previewed => pstate'[d] \in Previewed
                                    /\ pstate'[d] = "none" <=> pstate[d] = "none"
        PROVE  (\A d \in Campaigns : Campaign(d)') /\ AlwaysLoadable'
    <3>1. ASSUME NEW d \in Campaigns PROVE BehindLock(d)' /\ Recorded(d)' /\ Kept(d)'
      <4>1. BehindLock(d) /\ Recorded(d) /\ Kept(d)
        BY DEF PromotionInv
      <4>2. BehindLock(d)'
        BY <2>c, <4>1 DEF BehindLock, LockNames, AtCandidate, InTransition
      <4>3. Recorded(d)'
        BY <2>c, <4>1 DEF Recorded
      <4>4. Kept(d)'
        BY <2>c, <4>1 DEF Kept, LockNames
      <4>. QED
        BY <4>2, <4>3, <4>4
    <3>2. AlwaysLoadable'
      BY <2>c DEF PromotionInv, AlwaysLoadable
    <3>. QED
      BY <3>1, <3>2
  (* a command that the step leaves where it is *)
  <2>d. ASSUME NEW q \in Procs, pc[q] # "idle", pc'[q] = pc[q], cmd'[q] = cmd[q],
               UNCHANGED <<content, manifest, journal, lock>>, bundle'[cmd[q]] = bundle[cmd[q]]
        PROVE  CommandAt(q, cmd[q])'
    <3>1. PICK c \in Campaigns : c = cmd[q] /\ c = cmd'[q] /\ CommandAt(q, c)
      BY <2>d DEF Bound, PromotionInv
    <3>2. CommandAt(q, c)'
      BY <2>d, <3>1 DEF CommandAt, FilesAt, JournalAt, AloneAt, Trusts, AtParent, AtCandidate
    <3>. QED
      BY <3>1, <3>2
  (* a profile that a campaign started from *)
  <2>e. \A d \in Campaigns : pstate[d] # "none" =>
          /\ bundle[d].content \in [Artifacts -> Bytes]
          /\ bundle[d].manifest \in [Artifacts -> Nat]
    BY DEF Bound, Profiles
  <2>1. ASSUME NEW c \in Campaigns, StartCampaign(c) PROVE PromotionInv'
    <3>1. /\ pstate[c] = "none" /\ Loadable(disk)
          /\ bundle' = [bundle EXCEPT ![c] = disk] /\ pstate' = [pstate EXCEPT ![c] = "running"]
          /\ UNCHANGED <<content, manifest, journal, lock, pc, cmd>>
      BY <2>1 DEF StartCampaign
    <3>2. \A q \in Procs : pc'[q] # "idle" => CommandAt(q, cmd[q])'
      BY <2>d, <3>1 DEF Bound, TypeOK, Previewed
    <3>3. ~LockNames(c) /\ journal[c] = "none"
      BY <3>1 DEF PromotionInv, BehindLock, Recorded, TypeOK, Previewed
    <3>4. ASSUME NEW d \in Campaigns PROVE BehindLock(d)' /\ Recorded(d)' /\ Kept(d)'
      <4>1. BehindLock(d) /\ Recorded(d) /\ Kept(d)
        BY DEF PromotionInv
      <4>2. CASE d = c
        BY <3>1, <3>3, <4>2
           DEF TypeOK, BehindLock, Recorded, Kept, LockNames, Loadable
      <4>3. CASE d # c
        <5>1. bundle'[d] = bundle[d] /\ pstate'[d] = pstate[d]
          BY <3>1, <4>3 DEF TypeOK
        <5>2. Recorded(d)'
          BY <3>1, <4>1, <5>1 DEF Recorded
        <5>3. BehindLock(d)'
          BY <3>1, <4>1, <5>1 DEF BehindLock, LockNames, Validated, AtCandidate, InTransition
        <5>4. \A e \in Campaigns : LockNames(e)' => LockNames(e) /\ bundle'[e] = bundle[e]
          BY <3>1, <3>3 DEF LockNames, TypeOK
        <5>5. Kept(d)'
          BY <3>1, <4>1, <5>1, <5>4 DEF Kept, Validated
        <5>. QED
          BY <5>2, <5>3, <5>5
      <4>. QED
        BY <4>2, <4>3
    <3>5. AlwaysLoadable'
      BY <3>1 DEF AlwaysLoadable
    <3>. QED
      BY <3>2, <3>4, <3>5 DEF PromotionInv
  <2>2. ASSUME NEW c \in Campaigns, FinishCampaign(c) PROVE PromotionInv'
    <3>1. /\ pstate[c] \in {"running", "failed"}
          /\ \E s \in {"previewed", "failed"} : pstate' = [pstate EXCEPT ![c] = s]
          /\ UNCHANGED <<content, manifest, bundle, journal, lock, pc, cmd>>
      BY <2>2 DEF FinishCampaign
    <3>2. (\A d \in Campaigns : Campaign(d)') /\ AlwaysLoadable'
      BY <2>c, <3>1 DEF Validated, TypeOK, Previewed
    <3>3. \A q \in Procs : pc'[q] # "idle" => CommandAt(q, cmd[q])'
      BY <2>d, <3>1
    <3>. QED
      BY <3>2, <3>3 DEF PromotionInv
  <2>3. ASSUME NEW a \in Artifacts, OwnerEdit(a) PROVE PromotionInv'
    <3>1. /\ lock = NoLock /\ content[a] # Absent /\ content' = [content EXCEPT ![a] = Edited]
          /\ \A q \in Procs : pc[q] = "idle"
          /\ UNCHANGED <<manifest, bundle, pstate, journal, lock, pc, cmd>>
      BY <2>3 DEF OwnerEdit, AllIdle
    <3>2. \A d \in Campaigns : Campaign(d)'
      BY <3>1 DEF PromotionInv, BehindLock, Recorded, Kept, LockNames
    <3>3. AlwaysLoadable'
      BY <3>1 DEF PromotionInv, AlwaysLoadable, Loadable, TypeOK
    <3>. QED
      BY <3>1, <3>2, <3>3 DEF PromotionInv
  <2>4. ASSUME NEW p \in Procs, NEW c \in Campaigns, CheckApply(p, c) PROVE PromotionInv'
    <3>1. /\ pc[p] = "idle" /\ disk = bundle[c] /\ (lock # NoLock \/ journal[c] # "committed")
          /\ pc' = [pc EXCEPT ![p] = "checked"] /\ cmd' = [cmd EXCEPT ![p] = c]
          /\ UNCHANGED <<content, manifest, bundle, pstate, journal, lock>>
      BY <2>4 DEF CheckApply, MayApply, Fresh, AlreadyCommitted
    <3>2. (\A d \in Campaigns : Campaign(d)') /\ AlwaysLoadable'
      BY <2>c, <3>1 DEF Validated, TypeOK
    <3>3. CommandAt(p, c)'
      <4>1. pc'[p] = "checked" /\ AtParent(c)'
        BY <3>1 DEF TypeOK, AtParent
      <4>. QED
        BY <3>1, <4>1 DEF CommandAt, FilesAt, JournalAt, AloneAt, Trusts
    <3>4. ASSUME NEW q \in Procs, pc'[q] # "idle" PROVE CommandAt(q, cmd[q])'
      <4>1. CASE q = p
        BY <3>1, <3>3, <4>1 DEF TypeOK
      <4>2. CASE q # p
        BY <2>d, <3>1, <3>4, <4>2 DEF TypeOK
      <4>. QED
        BY <4>1, <4>2
    <3>. QED
      BY <3>2, <3>4 DEF PromotionInv
  <2>5. ASSUME NEW p \in Procs, NEW c \in Campaigns, CheckRecover(p, c) PROVE PromotionInv'
    <3>1. /\ \A q \in Procs : pc[q] = "idle"
          /\ UNCHANGED <<content, manifest, bundle, pstate, journal, lock>>
          /\ pc'[p] = IF journal[c] = "committed" THEN "finalizing"
                      ELSE IF journal[c] = "prepared" THEN "restoring" ELSE "unjournaled"
          /\ \A q \in Procs \ {p} : pc'[q] = pc[q]
          /\ cmd'[p] = c
      <4>1. /\ \A q \in Procs : pc[q] = "idle"
            /\ UNCHANGED <<content, manifest, bundle, pstate, journal, lock>>
            /\ pc' = [pc EXCEPT ![p] = CASE journal[c] = "committed" -> "finalizing"
                                         [] journal[c] = "prepared"  -> "restoring"
                                         [] journal[c] = "none"      -> "unjournaled"]
            /\ cmd' = [cmd EXCEPT ![p] = c]
        BY <2>5, Zenon DEF CheckRecover, MayRecover, AllIdle, Orderly
      <4>2. /\ journal[c] \in {"none", "prepared", "committed"}
            /\ pc \in [Procs -> {"idle"} \cup ApplyPoints \cup RecoverPoints]
            /\ cmd \in [Procs -> Campaigns \cup {Nobody}]
        BY DEF TypeOK
      <4>. QED
        BY <4>1, <4>2
    <3>2. (\A d \in Campaigns : Campaign(d)') /\ AlwaysLoadable'
      BY <2>c, <3>1 DEF Validated
    <3>3. CommandAt(p, c)'
      BY <3>1 DEF CommandAt, FilesAt, JournalAt, AloneAt, Trusts
    <3>. QED
      BY <2>b, <3>1, <3>2, <3>3
  <2>6. ASSUME NEW p \in Procs, CreateLock(p) PROVE PromotionInv'
    <3>1. /\ lock = NoLock /\ lock' = [maker |-> p, names |-> Nobody] /\ pc[p] = "checked"
          /\ pc' = [pc EXCEPT ![p] = "creating"]
          /\ UNCHANGED <<content, manifest, bundle, pstate, journal, cmd>>
      BY <2>6 DEF CreateLock
    <3>2. \A q \in Procs \ {p} : Waiting(q) /\ pc'[q] = pc[q]
      <4>1. \A q \in Procs \ {p} : pc'[q] = pc[q] /\ pc[q] \in {"idle", "checked"}
        BY <3>1 DEF TypeOK, LockInv, MutualExclusion, Holding, LockNames
      <4>2. Overlap = "none" => \A q \in Procs \ {p} : pc[q] = "idle"
        BY <3>1 DEF LockInv
      <4>. QED
        BY <4>1, <4>2
    <3>3. PICK c \in Campaigns : cmd'[p] = c /\ CommandAt(p, c)
      BY <3>1 DEF Bound, PromotionInv
    <3>4. CommandAt(p, c)'
      BY <3>1, <3>3 DEF CommandAt, FilesAt, JournalAt, AloneAt, Trusts, AtParent, TypeOK
    <3>5. \A d \in Campaigns : ~LockNames(d)'
      BY <3>1 DEF LockNames
    <3>6. (\A d \in Campaigns : Campaign(d)') /\ AlwaysLoadable'
      BY <3>1, <3>5 DEF PromotionInv, BehindLock, Recorded, Kept, AlwaysLoadable
    <3>. QED
      BY <2>b, <3>2, <3>3, <3>4, <3>6
  <2>7. ASSUME NEW p \in Procs, RefuseLock(p) PROVE PromotionInv'
    <3>1. /\ pc[p] = "checked" /\ pc' = [pc EXCEPT ![p] = "idle"] /\ cmd' = [cmd EXCEPT ![p] = Nobody]
          /\ UNCHANGED <<content, manifest, bundle, pstate, journal, lock>>
      BY <2>7 DEF RefuseLock
    <3>2. (\A d \in Campaigns : Campaign(d)') /\ AlwaysLoadable'
      BY <2>c, <3>1 DEF Validated, TypeOK
    <3>3. \A q \in Procs : pc'[q] # "idle" => CommandAt(q, cmd[q])'
      BY <2>d, <3>1 DEF TypeOK
    <3>. QED
      BY <3>2, <3>3 DEF PromotionInv
  <2>8. ASSUME NEW p \in Procs, WriteLock(p) PROVE PromotionInv'
    <3>1. /\ pc[p] = "creating" /\ pc' = [pc EXCEPT ![p] = "locked"]
          /\ lock' = [maker |-> p, names |-> cmd[p]]
          /\ UNCHANGED <<content, manifest, bundle, pstate, journal, cmd>>
      BY <2>8 DEF WriteLock, LockInv
    <3>2. PICK c \in Campaigns : /\ cmd[p] = c /\ pstate[c] \in Previewed /\ CommandAt(p, c)
                                 /\ \A q \in Procs \ {p} : Waiting(q)
      BY <2>a, <3>1
    <3>3. pc'[p] = "locked" /\ \A q \in Procs \ {p} : pc'[q] = pc[q]
      BY <3>1 DEF TypeOK
    <3>4. CommandAt(p, c)'
      BY <3>1, <3>2, <3>3 DEF CommandAt, FilesAt, JournalAt, AloneAt, Trusts, AtParent
    <3>5. ~Validated'
      BY <3>3 DEF Validated
    <3>6. \A d \in Campaigns : LockNames(d)' => d = c
      BY <3>1, <3>2 DEF LockNames
    <3>7. (\A d \in Campaigns : Campaign(d)') /\ AlwaysLoadable'
      BY <3>1, <3>2, <3>5, <3>6 DEF PromotionInv, BehindLock, Recorded, Kept, AlwaysLoadable
    <3>. QED
      BY <2>b, <3>1, <3>2, <3>3, <3>4, <3>7
  <2>9. ASSUME NEW p \in Procs, Revalidate(p) PROVE PromotionInv'
    <3>1. /\ pc[p] = "locked" /\ pc' = [pc EXCEPT ![p] = "validated"] /\ Fresh(cmd[p])
          /\ UNCHANGED <<content, manifest, bundle, pstate, journal, lock, cmd>>
      BY <2>9 DEF Revalidate
    <3>2. PICK c \in Campaigns : /\ cmd[p] = c /\ pstate[c] \in Previewed /\ pstate[c] # "none"
                                 /\ \A q \in Procs \ {p} : Waiting(q)
                                 /\ LockNames(c) /\ \A d \in Campaigns : LockNames(d) => d = c
      BY <2>a, <3>1
    <3>3. AtParent(c)
      BY <3>1, <3>2 DEF Fresh, AtParent
    <3>4. manifest[Target[c]] \in Nat
      BY DEF TypeOK
    <3>5. journal[c] # "committed"
      BY <3>3, <3>4 DEF PromotionInv, Kept, AtParent
    <3>6. pc'[p] = "validated" /\ \A q \in Procs \ {p} : pc'[q] = pc[q]
      BY <3>1 DEF TypeOK
    <3>7. AtParent(c)'
      BY <3>1, <3>3 DEF AtParent
    <3>8. CommandAt(p, c)'
      BY <3>1, <3>5, <3>6, <3>7 DEF CommandAt, FilesAt, JournalAt, AloneAt, Trusts
    <3>9. ASSUME NEW d \in Campaigns PROVE BehindLock(d)' /\ Recorded(d)' /\ Kept(d)'
      <4>1. BehindLock(d) /\ Recorded(d) /\ Kept(d)
        BY DEF PromotionInv
      <4>2. LockNames(d)' => d = c
        BY <3>1, <3>2 DEF LockNames
      <4>3. BehindLock(d)'
        BY <3>1, <3>2, <3>5, <3>7, <4>2 DEF BehindLock, InTransition, AtParent
      <4>4. Recorded(d)'
        BY <3>1, <4>1 DEF Recorded
      <4>5. Kept(d)'
        BY <3>1, <3>2, <3>3, <4>1 DEF Kept, LockNames, AtParent
      <4>. QED
        BY <4>3, <4>4, <4>5
    <3>10. AlwaysLoadable'
      BY <3>1 DEF PromotionInv, AlwaysLoadable
    <3>. QED
      BY <2>b, <3>1, <3>2, <3>6, <3>8, <3>9, <3>10
  <2>10. ASSUME NEW p \in Procs, AbortApply(p) PROVE PromotionInv'
    <3>1. /\ pc[p] \in {"locked", "validated", "journaled"} /\ lock' = NoLock
          /\ pc' = [pc EXCEPT ![p] = "idle"]
          /\ UNCHANGED <<content, manifest, bundle, pstate, journal>>
      BY <2>10 DEF AbortApply
    <3>2. \A q \in Procs \ {p} : Waiting(q)
      BY <2>a, <3>1
    <3>3. pc'[p] = "idle" /\ \A q \in Procs \ {p} : pc'[q] = pc[q]
      BY <3>1 DEF TypeOK
    <3>4. ASSUME NEW q \in Procs, pc'[q] # "idle" PROVE CommandAt(q, cmd[q])'
      BY <3>2, <3>3, <3>4 DEF CommandAt, FilesAt, JournalAt, AloneAt, Trusts
    <3>5. \A d \in Campaigns : ~LockNames(d)'
      BY <3>1 DEF LockNames
    <3>6. (\A d \in Campaigns : Campaign(d)') /\ AlwaysLoadable'
      BY <3>1, <3>5 DEF PromotionInv, BehindLock, Recorded, Kept, AlwaysLoadable
    <3>. QED
      BY <3>4, <3>6 DEF PromotionInv
  <2>11. ASSUME NEW p \in Procs, WritePrepared(p) PROVE PromotionInv'
    <3>1. /\ pc[p] = "validated" /\ pc' = [pc EXCEPT ![p] = "journaled"]
          /\ journal' = [journal EXCEPT ![cmd[p]] = "prepared"]
          /\ UNCHANGED <<content, manifest, bundle, pstate, lock, cmd>>
      BY <2>11 DEF WritePrepared
    <3>2. PICK c \in Campaigns : /\ cmd[p] = c /\ pstate[c] \in Previewed /\ CommandAt(p, c)
                                 /\ Validated /\ \A q \in Procs \ {p} : Waiting(q)
      BY <2>a, <3>1
    <3>3. pc'[p] = "journaled" /\ \A q \in Procs \ {p} : pc'[q] = pc[q]
      BY <3>1 DEF TypeOK
    <3>4. (\A d \in Campaigns : Campaign(d)') /\ AlwaysLoadable'
      BY <2>c, <3>1, <3>2 DEF CommandAt, JournalAt, Trusts, TypeOK, Previewed
    <3>5. CommandAt(p, c)'
      BY <3>1, <3>2, <3>3
         DEF CommandAt, FilesAt, JournalAt, AloneAt, Trusts, AtParent, AtCandidate, TypeOK
    <3>. QED
      BY <2>b, <3>1, <3>2, <3>3, <3>4, <3>5
  <2>12. ASSUME NEW p \in Procs, MarkApplying(p) PROVE PromotionInv'
    <3>1. /\ pc[p] = "journaled" /\ pc' = [pc EXCEPT ![p] = "applying"]
          /\ pstate' = [pstate EXCEPT ![cmd[p]] = "applying"]
          /\ UNCHANGED <<content, manifest, bundle, journal, lock, cmd>>
      BY <2>12 DEF MarkApplying
    <3>2. PICK c \in Campaigns : /\ cmd[p] = c /\ pstate[c] \in Previewed /\ CommandAt(p, c)
                                 /\ Validated /\ \A q \in Procs \ {p} : Waiting(q)
      BY <2>a, <3>1
    <3>3. pc'[p] = "applying" /\ \A q \in Procs \ {p} : pc'[q] = pc[q]
      BY <3>1 DEF TypeOK
    <3>4. (\A d \in Campaigns : Campaign(d)') /\ AlwaysLoadable'
      BY <2>c, <3>1, <3>2 DEF CommandAt, JournalAt, Trusts, TypeOK, Previewed
    <3>5. CommandAt(p, c)'
      BY <3>1, <3>2, <3>3
         DEF CommandAt, FilesAt, JournalAt, AloneAt, Trusts, AtParent, AtCandidate, TypeOK
    <3>. QED
      BY <2>b, <3>1, <3>2, <3>3, <3>4, <3>5
  <2>13. ASSUME NEW p \in Procs, ReplaceContent(p) PROVE PromotionInv'
    <3>1. /\ pc[p] = "applying" /\ pc' = [pc EXCEPT ![p] = "content"]
          /\ content' = [content EXCEPT ![Target[cmd[p]]] = cmd[p]]
          /\ UNCHANGED <<manifest, bundle, pstate, journal, lock, cmd>>
      BY <2>13 DEF ReplaceContent
    <3>2. PICK c \in Campaigns :
            /\ cmd[p] = c /\ pstate[c] \in Previewed /\ pstate[c] # "none"
            /\ bundle[c] \in Profiles /\ Loadable(bundle[c]) /\ CommandAt(p, c) /\ BehindLock(c)
            /\ LockNames(c) /\ \A d \in Campaigns : LockNames(d) => d = c
            /\ Validated /\ \A q \in Procs \ {p} : Waiting(q)
      BY <2>a, <3>1
    <3>3. pc'[p] = "content" /\ \A q \in Procs \ {p} : pc'[q] = pc[q]
      BY <3>1 DEF TypeOK
    <3>4. /\ bundle[c].content \in [Artifacts -> Bytes] /\ bundle[c].manifest \in [Artifacts -> Nat]
          /\ Target[c] \in Artifacts
      BY <2>e, <3>2
    <3>5. journal[c] # "committed" /\ AtParent(c)
      BY <3>1, <3>2 DEF CommandAt, FilesAt, JournalAt, Trusts
    <3>6. content' = ReviewedContent(bundle[c], c) /\ manifest' = bundle[c].manifest
      BY <3>1, <3>2, <3>5 DEF AtParent, ReviewedContent
    <3>7. CommandAt(p, c)'
      BY <3>1, <3>2, <3>3, <3>5, <3>6 DEF CommandAt, FilesAt, JournalAt, AloneAt, Trusts
    <3>8. ASSUME NEW d \in Campaigns PROVE BehindLock(d)' /\ Recorded(d)' /\ Kept(d)'
      <4>1. BehindLock(d) /\ Recorded(d) /\ Kept(d)
        BY DEF PromotionInv
      <4>2. BehindLock(d)'
        BY <3>1, <3>2, <3>5, <3>6 DEF BehindLock, LockNames, InTransition, AtParent, AtCandidate
      <4>3. Recorded(d)'
        BY <3>1, <3>2, <4>1 DEF Recorded, TypeOK
      <4>4. Kept(d)'
        BY <3>1, <3>2, <4>1 DEF Kept, LockNames
      <4>. QED
        BY <4>2, <4>3, <4>4
    <3>9. AlwaysLoadable'
      <4>1. Loadable([content |-> ReviewedContent(bundle[c], c), manifest |-> bundle[c].manifest])
        BY <3>2, Reviewed
      <4>. QED
        BY <3>6, <4>1 DEF AlwaysLoadable
    <3>. QED
      BY <2>b, <3>1, <3>2, <3>3, <3>7, <3>8, <3>9
  <2>14. ASSUME NEW p \in Procs, ReplaceManifest(p) PROVE PromotionInv'
    <3>1. /\ pc[p] = "content" /\ pc' = [pc EXCEPT ![p] = "manifest"]
          /\ manifest' = ReviewedManifest(bundle[cmd[p]], cmd[p])
          /\ UNCHANGED <<content, bundle, pstate, journal, lock, cmd>>
      BY <2>14 DEF ReplaceManifest
    <3>2. PICK c \in Campaigns :
            /\ cmd[p] = c /\ pstate[c] \in Previewed /\ pstate[c] # "none"
            /\ bundle[c] \in Profiles /\ Loadable(bundle[c]) /\ CommandAt(p, c) /\ BehindLock(c)
            /\ LockNames(c) /\ \A d \in Campaigns : LockNames(d) => d = c
            /\ Validated /\ \A q \in Procs \ {p} : Waiting(q)
      BY <2>a, <3>1
    <3>3. pc'[p] = "manifest" /\ \A q \in Procs \ {p} : pc'[q] = pc[q]
      BY <3>1 DEF TypeOK
    <3>4. /\ bundle[c].content \in [Artifacts -> Bytes] /\ bundle[c].manifest \in [Artifacts -> Nat]
          /\ Target[c] \in Artifacts
      BY <2>e, <3>2
    <3>5. /\ journal[c] # "committed" /\ content = ReviewedContent(bundle[c], c)
          /\ manifest = bundle[c].manifest
      BY <3>1, <3>2 DEF CommandAt, FilesAt, JournalAt, Trusts
    <3>6. AtCandidate(c)'
      BY <3>1, <3>2, <3>5 DEF AtCandidate
    <3>7. CommandAt(p, c)'
      BY <3>1, <3>2, <3>3, <3>5, <3>6 DEF CommandAt, FilesAt, JournalAt, AloneAt, Trusts
    <3>8. ASSUME NEW d \in Campaigns PROVE BehindLock(d)' /\ Recorded(d)' /\ Kept(d)'
      <4>1. BehindLock(d) /\ Recorded(d) /\ Kept(d)
        BY DEF PromotionInv
      <4>2. BehindLock(d)'
        BY <3>1, <3>2, <3>5, <3>6 DEF BehindLock, LockNames, InTransition, AtParent, AtCandidate
      <4>3. Recorded(d)'
        BY <3>1, <3>2, <4>1 DEF Recorded, TypeOK
      <4>4. Kept(d)'
        <5> SUFFICES ASSUME journal[d] = "committed" PROVE Kept(d)'
          BY <3>1 DEF Kept
        <5>1. Target[d] \in Artifacts /\ pstate[d] # "none"
          BY <4>1 DEF Recorded, Previewed
        <5>2. bundle[c].manifest[Target[d]] > bundle[d].manifest[Target[d]]
          BY <3>2, <3>5, <4>1 DEF Kept
        <5>3. /\ ReviewedManifest(bundle[c], c) \in [Artifacts -> Nat]
              /\ ReviewedManifest(bundle[c], c)[Target[d]] >= bundle[c].manifest[Target[d]]
          BY <3>2, <5>1, Reviewed
        <5>4. bundle[d].manifest \in [Artifacts -> Nat]
          BY <2>e, <5>1
        <5>5. manifest'[Target[d]] > bundle[d].manifest[Target[d]]
          BY <3>1, <3>2, <3>4, <5>1, <5>2, <5>3, <5>4
        <5>6. \A e \in Campaigns : LockNames(e)' => e = c
          BY <3>1, <3>2 DEF LockNames
        <5>. QED
          BY <3>1, <5>2, <5>5, <5>6 DEF Kept
      <4>. QED
        BY <4>2, <4>3, <4>4
    <3>9. AlwaysLoadable'
      <4>1. Loadable([content  |-> ReviewedContent(bundle[c], c),
                      manifest |-> ReviewedManifest(bundle[c], c)])
        BY <3>2, Reviewed
      <4>. QED
        BY <3>1, <3>2, <3>6, <4>1 DEF AlwaysLoadable, AtCandidate
    <3>. QED
      BY <2>b, <3>1, <3>2, <3>3, <3>7, <3>8, <3>9
  <2>15. ASSUME NEW p \in Procs, VerifyApplied(p) PROVE PromotionInv'
    <3>1. /\ pc[p] = "manifest" /\ pc'[p] \in {"verified", "idle"}
          /\ \A q \in Procs \ {p} : pc'[q] = pc[q] /\ cmd'[q] = cmd[q]
          /\ pc'[p] = "verified" => cmd' = cmd
          /\ UNCHANGED <<content, manifest, bundle, pstate, journal, lock>>
      BY <2>15 DEF VerifyApplied, TypeOK
    <3>2. PICK c \in Campaigns : /\ cmd[p] = c /\ CommandAt(p, c) /\ Validated
                                 /\ \A q \in Procs \ {p} : Waiting(q)
      BY <2>a, <3>1
    <3>3. (\A d \in Campaigns : Campaign(d)') /\ AlwaysLoadable'
      BY <2>c, <3>1, <3>2
    <3>4. pc'[p] # "idle" => CommandAt(p, c)'
      BY <3>1, <3>2
         DEF CommandAt, FilesAt, JournalAt, AloneAt, Trusts, AtParent, AtCandidate
    <3>5. ASSUME NEW q \in Procs, pc'[q] # "idle" PROVE CommandAt(q, cmd[q])'
      <4>1. CASE q = p
        BY <3>1, <3>2, <3>4, <3>5, <4>1
      <4>2. CASE q # p
        BY <3>1, <3>2, <3>5, <4>2 DEF CommandAt, FilesAt, JournalAt, AloneAt, Trusts
      <4>. QED
        BY <4>1, <4>2
    <3>. QED
      BY <3>3, <3>5 DEF PromotionInv
  <2>16. ASSUME NEW p \in Procs, MarkCommitted(p) PROVE PromotionInv'
    <3>1. /\ pc[p] = "verified" /\ pc' = [pc EXCEPT ![p] = "committed"]
          /\ journal' = [journal EXCEPT ![cmd[p]] = "committed"]
          /\ UNCHANGED <<content, manifest, bundle, pstate, lock, cmd>>
      BY <2>16 DEF MarkCommitted
    <3>2. PICK c \in Campaigns :
            /\ cmd[p] = c /\ pstate[c] \in Previewed /\ pstate[c] # "none"
            /\ bundle[c] \in Profiles /\ Loadable(bundle[c]) /\ CommandAt(p, c) /\ BehindLock(c)
            /\ LockNames(c) /\ \A d \in Campaigns : LockNames(d) => d = c
            /\ Validated /\ \A q \in Procs \ {p} : Waiting(q)
      BY <2>a, <3>1
    <3>3. pc'[p] = "committed" /\ \A q \in Procs \ {p} : pc'[q] = pc[q]
      BY <3>1 DEF TypeOK
    <3>4. /\ bundle[c].content \in [Artifacts -> Bytes] /\ bundle[c].manifest \in [Artifacts -> Nat]
          /\ Target[c] \in Artifacts
      BY <2>e, <3>2
    <3>5. journal[c] # "committed" /\ AtCandidate(c)
      BY <3>1, <3>2 DEF CommandAt, FilesAt, JournalAt, Trusts
    <3>6. AtCandidate(c)' /\ journal'[c] = "committed"
      BY <3>1, <3>2, <3>5 DEF AtCandidate, TypeOK
    <3>7. CommandAt(p, c)'
      BY <3>1, <3>2, <3>3, <3>5, <3>6 DEF CommandAt, FilesAt, JournalAt, AloneAt, Trusts
    <3>8. ASSUME NEW d \in Campaigns PROVE BehindLock(d)' /\ Recorded(d)' /\ Kept(d)'
      <4>1. BehindLock(d) /\ Recorded(d) /\ Kept(d)
        BY DEF PromotionInv
      <4>2. BehindLock(d)'
        BY <3>1, <3>2, <3>5, <3>6 DEF BehindLock, LockNames, InTransition, AtParent, AtCandidate
      <4>3. Recorded(d)'
        BY <3>1, <3>2, <4>1 DEF Recorded, TypeOK
      <4>4. Kept(d)'
        <5>1. manifest[Target[c]] > bundle[c].manifest[Target[c]]
          BY <3>2, <3>5, Reviewed DEF AtCandidate
        <5>2. \A e \in Campaigns : LockNames(e)' => journal'[e] = "committed"
          BY <3>1, <3>2, <3>6 DEF LockNames
        <5>3. d # c => journal'[d] = journal[d]
          BY <3>1, <3>2 DEF TypeOK
        <5>4. journal'[d] = "committed" => manifest[Target[d]] > bundle[d].manifest[Target[d]]
          BY <4>1, <5>1, <5>3 DEF Kept
        <5>. QED
          BY <3>1, <5>2, <5>4 DEF Kept
      <4>. QED
        BY <4>2, <4>3, <4>4
    <3>9. AlwaysLoadable'
      BY <3>1 DEF PromotionInv, AlwaysLoadable
    <3>. QED
      BY <2>b, <3>1, <3>2, <3>3, <3>7, <3>8, <3>9
  <2>17. ASSUME NEW p \in Procs, MarkApplied(p) PROVE PromotionInv'
    <3>1. /\ pc[p] = "committed" /\ pc' = [pc EXCEPT ![p] = "applied"]
          /\ pstate' = [pstate EXCEPT ![cmd[p]] = "applied"]
          /\ UNCHANGED <<content, manifest, bundle, journal, lock, cmd>>
      BY <2>17 DEF MarkApplied
    <3>2. PICK c \in Campaigns : /\ cmd[p] = c /\ pstate[c] \in Previewed /\ CommandAt(p, c)
                                 /\ Validated /\ \A q \in Procs \ {p} : Waiting(q)
      BY <2>a, <3>1
    <3>3. pc'[p] = "applied" /\ \A q \in Procs \ {p} : pc'[q] = pc[q]
      BY <3>1 DEF TypeOK
    <3>4. (\A d \in Campaigns : Campaign(d)') /\ AlwaysLoadable'
      BY <2>c, <3>1, <3>2 DEF CommandAt, JournalAt, Trusts, TypeOK, Previewed
    <3>5. CommandAt(p, c)'
      BY <3>1, <3>2, <3>3
         DEF CommandAt, FilesAt, JournalAt, AloneAt, Trusts, AtParent, AtCandidate, TypeOK
    <3>. QED
      BY <2>b, <3>1, <3>2, <3>3, <3>4, <3>5
  <2>18. ASSUME NEW p \in Procs, ReleaseLock(p) PROVE PromotionInv'
    <3>1. /\ pc[p] \in {"applied", "recovered", "finalized"} /\ lock' = NoLock
          /\ pc' = [pc EXCEPT ![p] = "idle"]
          /\ UNCHANGED <<content, manifest, bundle, pstate, journal>>
      BY <2>18 DEF ReleaseLock
    <3>2. \A q \in Procs \ {p} : Waiting(q)
      BY <2>a, <3>1
    <3>3. pc'[p] = "idle" /\ \A q \in Procs \ {p} : pc'[q] = pc[q]
      BY <3>1 DEF TypeOK
    <3>4. ASSUME NEW q \in Procs, pc'[q] # "idle" PROVE CommandAt(q, cmd[q])'
      BY <3>2, <3>3, <3>4 DEF CommandAt, FilesAt, JournalAt, AloneAt, Trusts
    <3>5. \A d \in Campaigns : ~LockNames(d)'
      BY <3>1 DEF LockNames
    <3>6. (\A d \in Campaigns : Campaign(d)') /\ AlwaysLoadable'
      BY <3>1, <3>5 DEF PromotionInv, BehindLock, Recorded, Kept, AlwaysLoadable
    <3>. QED
      BY <3>4, <3>6 DEF PromotionInv
  <2>19. ASSUME NEW p \in Procs, WriteRecoveryJournal(p) PROVE PromotionInv'
    <3>1. /\ pc[p] = "unjournaled" /\ pc' = [pc EXCEPT ![p] = "restoring"]
          /\ journal' = [journal EXCEPT ![cmd[p]] = "prepared"]
          /\ UNCHANGED <<content, manifest, bundle, pstate, lock, cmd>>
      BY <2>19 DEF WriteRecoveryJournal
    <3>2. PICK c \in Campaigns : /\ cmd[p] = c /\ pstate[c] \in Previewed /\ CommandAt(p, c)
                                 /\ Validated /\ \A q \in Procs \ {p} : Waiting(q)
      BY <2>a, <3>1
    <3>3. pc'[p] = "restoring" /\ \A q \in Procs \ {p} : pc'[q] = pc[q]
      BY <3>1 DEF TypeOK
    <3>4. (\A d \in Campaigns : Campaign(d)') /\ AlwaysLoadable'
      BY <2>c, <3>1, <3>2 DEF CommandAt, JournalAt, Trusts, TypeOK, Previewed
    <3>5. CommandAt(p, c)'
      BY <3>1, <3>2, <3>3
         DEF CommandAt, FilesAt, JournalAt, AloneAt, Trusts, AtParent, AtCandidate, TypeOK
    <3>. QED
      BY <2>b, <3>1, <3>2, <3>3, <3>4, <3>5
  <2>20. ASSUME NEW p \in Procs, RestoreManifest(p) PROVE PromotionInv'
    <3>1. /\ pc[p] = "restoring" /\ pc' = [pc EXCEPT ![p] = "manifest restored"]
          /\ manifest' = bundle[cmd[p]].manifest
          /\ UNCHANGED <<content, bundle, pstate, journal, lock, cmd>>
      BY <2>20 DEF RestoreManifest
    <3>2. PICK c \in Campaigns :
            /\ cmd[p] = c /\ pstate[c] \in Previewed /\ pstate[c] # "none"
            /\ bundle[c] \in Profiles /\ Loadable(bundle[c]) /\ CommandAt(p, c) /\ BehindLock(c)
            /\ LockNames(c) /\ \A d \in Campaigns : LockNames(d) => d = c
            /\ Validated /\ \A q \in Procs \ {p} : Waiting(q)
      BY <2>a, <3>1
    <3>3. pc'[p] = "manifest restored" /\ \A q \in Procs \ {p} : pc'[q] = pc[q]
      BY <3>1 DEF TypeOK
    <3>4. /\ bundle[c].content \in [Artifacts -> Bytes] /\ bundle[c].manifest \in [Artifacts -> Nat]
          /\ Target[c] \in Artifacts
      BY <2>e, <3>2
    <3>5. journal[c] # "committed" /\ content \in {bundle[c].content, ReviewedContent(bundle[c], c)}
      BY <3>1, <3>2 DEF CommandAt, JournalAt, Trusts, BehindLock, InTransition
    <3>6. manifest' = bundle[c].manifest
      BY <3>1, <3>2
    <3>7. CommandAt(p, c)'
      BY <3>1, <3>2, <3>3, <3>5, <3>6 DEF CommandAt, FilesAt, JournalAt, AloneAt, Trusts
    <3>8. ASSUME NEW d \in Campaigns PROVE BehindLock(d)' /\ Recorded(d)' /\ Kept(d)'
      <4>1. BehindLock(d) /\ Recorded(d) /\ Kept(d)
        BY DEF PromotionInv
      <4>2. BehindLock(d)'
        BY <3>1, <3>2, <3>5, <3>6 DEF BehindLock, LockNames, InTransition
      <4>3. Recorded(d)'
        BY <3>1, <3>2, <4>1 DEF Recorded, TypeOK
      <4>4. Kept(d)'
        BY <3>1, <3>2, <3>5, <3>6, <4>1 DEF Kept, LockNames
      <4>. QED
        BY <4>2, <4>3, <4>4
    <3>9. AlwaysLoadable'
      <4>1. Loadable([content |-> bundle[c].content, manifest |-> bundle[c].manifest])
        BY <3>2 DEF Loadable
      <4>2. Loadable([content |-> ReviewedContent(bundle[c], c), manifest |-> bundle[c].manifest])
        BY <3>2, Reviewed
      <4>. QED
        BY <3>1, <3>5, <3>6, <4>1, <4>2 DEF AlwaysLoadable
    <3>. QED
      BY <2>b, <3>1, <3>2, <3>3, <3>7, <3>8, <3>9
  <2>21. ASSUME NEW p \in Procs, RestoreContent(p) PROVE PromotionInv'
    <3>1. /\ pc[p] = "manifest restored" /\ pc' = [pc EXCEPT ![p] = "restored"]
          /\ content' = [content EXCEPT ![Target[cmd[p]]] = bundle[cmd[p]].content[Target[cmd[p]]]]
          /\ UNCHANGED <<manifest, bundle, pstate, journal, lock, cmd>>
      BY <2>21 DEF RestoreContent
    <3>2. PICK c \in Campaigns :
            /\ cmd[p] = c /\ pstate[c] \in Previewed /\ pstate[c] # "none"
            /\ bundle[c] \in Profiles /\ Loadable(bundle[c]) /\ CommandAt(p, c) /\ BehindLock(c)
            /\ LockNames(c) /\ \A d \in Campaigns : LockNames(d) => d = c
            /\ Validated /\ \A q \in Procs \ {p} : Waiting(q)
      BY <2>a, <3>1
    <3>3. pc'[p] = "restored" /\ \A q \in Procs \ {p} : pc'[q] = pc[q]
      BY <3>1 DEF TypeOK
    <3>4. /\ bundle[c].content \in [Artifacts -> Bytes] /\ bundle[c].manifest \in [Artifacts -> Nat]
          /\ Target[c] \in Artifacts
      BY <2>e, <3>2
    <3>5. /\ journal[c] # "committed" /\ manifest = bundle[c].manifest
          /\ content \in {bundle[c].content, ReviewedContent(bundle[c], c)}
      BY <3>1, <3>2 DEF CommandAt, FilesAt, JournalAt, Trusts, BehindLock, InTransition
    <3>6. AtParent(c)'
      <4>1. content' = bundle[c].content
        BY <3>1, <3>2, <3>4, <3>5 DEF ReviewedContent
      <4>. QED
        BY <3>1, <3>5, <4>1 DEF AtParent
    <3>7. CommandAt(p, c)'
      BY <3>1, <3>2, <3>3, <3>5, <3>6 DEF CommandAt, FilesAt, JournalAt, AloneAt, Trusts
    <3>8. ASSUME NEW d \in Campaigns PROVE BehindLock(d)' /\ Recorded(d)' /\ Kept(d)'
      <4>1. BehindLock(d) /\ Recorded(d) /\ Kept(d)
        BY DEF PromotionInv
      <4>2. BehindLock(d)'
        BY <3>1, <3>2, <3>5, <3>6 DEF BehindLock, LockNames, InTransition, AtParent
      <4>3. Recorded(d)'
        BY <3>1, <3>2, <4>1 DEF Recorded, TypeOK
      <4>4. Kept(d)'
        BY <3>1, <3>2, <4>1 DEF Kept, LockNames
      <4>. QED
        BY <4>2, <4>3, <4>4
    <3>9. AlwaysLoadable'
      <4>1. content' = bundle[c].content /\ manifest' = bundle[c].manifest
        BY <3>1, <3>6 DEF AtParent
      <4>. QED
        BY <3>2, <4>1 DEF AlwaysLoadable, Loadable
    <3>. QED
      BY <2>b, <3>1, <3>2, <3>3, <3>7, <3>8, <3>9
  <2>22. ASSUME NEW p \in Procs, VerifyRestored(p) PROVE PromotionInv'
    <3>1. /\ pc[p] = "restored" /\ pc'[p] \in {"parent verified", "idle"}
          /\ \A q \in Procs \ {p} : pc'[q] = pc[q] /\ cmd'[q] = cmd[q]
          /\ pc'[p] = "parent verified" => cmd' = cmd
          /\ UNCHANGED <<content, manifest, bundle, pstate, journal, lock>>
      BY <2>22 DEF VerifyRestored, TypeOK
    <3>2. PICK c \in Campaigns : /\ cmd[p] = c /\ CommandAt(p, c) /\ Validated
                                 /\ \A q \in Procs \ {p} : Waiting(q)
      BY <2>a, <3>1
    <3>3. (\A d \in Campaigns : Campaign(d)') /\ AlwaysLoadable'
      BY <2>c, <3>1, <3>2
    <3>4. pc'[p] # "idle" => CommandAt(p, c)'
      BY <3>1, <3>2
         DEF CommandAt, FilesAt, JournalAt, AloneAt, Trusts, AtParent, AtCandidate
    <3>5. ASSUME NEW q \in Procs, pc'[q] # "idle" PROVE CommandAt(q, cmd[q])'
      <4>1. CASE q = p
        BY <3>1, <3>2, <3>4, <3>5, <4>1
      <4>2. CASE q # p
        BY <3>1, <3>2, <3>5, <4>2 DEF CommandAt, FilesAt, JournalAt, AloneAt, Trusts
      <4>. QED
        BY <4>1, <4>2
    <3>. QED
      BY <3>3, <3>5 DEF PromotionInv
  <2>23. ASSUME NEW p \in Procs, MarkRecovered(p) PROVE PromotionInv'
    <3>1. /\ pc[p] = "parent verified" /\ pc' = [pc EXCEPT ![p] = "recovered"]
          /\ pstate' = [pstate EXCEPT ![cmd[p]] = "recovered"]
          /\ UNCHANGED <<content, manifest, bundle, journal, lock, cmd>>
      BY <2>23 DEF MarkRecovered
    <3>2. PICK c \in Campaigns : /\ cmd[p] = c /\ pstate[c] \in Previewed /\ CommandAt(p, c)
                                 /\ Validated /\ \A q \in Procs \ {p} : Waiting(q)
      BY <2>a, <3>1
    <3>3. pc'[p] = "recovered" /\ \A q \in Procs \ {p} : pc'[q] = pc[q]
      BY <3>1 DEF TypeOK
    <3>4. (\A d \in Campaigns : Campaign(d)') /\ AlwaysLoadable'
      BY <2>c, <3>1, <3>2 DEF CommandAt, JournalAt, Trusts, TypeOK, Previewed
    <3>5. CommandAt(p, c)'
      BY <3>1, <3>2, <3>3
         DEF CommandAt, FilesAt, JournalAt, AloneAt, Trusts, AtParent, AtCandidate, TypeOK
    <3>. QED
      BY <2>b, <3>1, <3>2, <3>3, <3>4, <3>5
  <2>24. ASSUME NEW p \in Procs, FinalizeApplied(p) PROVE PromotionInv'
    <3>1. /\ pc[p] = "finalizing" /\ pc' = [pc EXCEPT ![p] = "finalized"]
          /\ pstate' = [pstate EXCEPT ![cmd[p]] = "applied"]
          /\ UNCHANGED <<content, manifest, bundle, journal, lock, cmd>>
      BY <2>24 DEF FinalizeApplied
    <3>2. PICK c \in Campaigns : /\ cmd[p] = c /\ pstate[c] \in Previewed /\ CommandAt(p, c)
                                 /\ Validated /\ \A q \in Procs \ {p} : Waiting(q)
      BY <2>a, <3>1
    <3>3. pc'[p] = "finalized" /\ \A q \in Procs \ {p} : pc'[q] = pc[q]
      BY <3>1 DEF TypeOK
    <3>4. (\A d \in Campaigns : Campaign(d)') /\ AlwaysLoadable'
      BY <2>c, <3>1, <3>2 DEF CommandAt, JournalAt, Trusts, TypeOK, Previewed
    <3>5. CommandAt(p, c)'
      BY <3>1, <3>2, <3>3
         DEF CommandAt, FilesAt, JournalAt, AloneAt, Trusts, AtParent, AtCandidate, TypeOK
    <3>. QED
      BY <2>b, <3>1, <3>2, <3>3, <3>4, <3>5
  <2>25. ASSUME NEW p \in Procs, Crash(p) PROVE PromotionInv'
    <3>1. /\ pc[p] \in CrashPoints /\ pc[p] # "idle"
          /\ pc' = [pc EXCEPT ![p] = "idle"] /\ cmd' = [cmd EXCEPT ![p] = Nobody]
          /\ UNCHANGED <<content, manifest, bundle, pstate, journal, lock>>
      BY <2>25 DEF Crash, ApplyPoints, RecoverPoints
    <3>2. \A q \in Procs : pc'[q] # "idle" => CommandAt(q, cmd[q])'
      BY <2>d, <3>1 DEF TypeOK
    <3>3. CASE pc[p] # "locked"
      <4>1. (\A d \in Campaigns : Campaign(d)') /\ AlwaysLoadable'
        BY <2>c, <3>1, <3>3 DEF Validated, TypeOK
      <4>. QED
        BY <3>2, <4>1 DEF PromotionInv
    <3>4. CASE pc[p] = "locked"
      <4>1. PICK c \in Campaigns : /\ CommandAt(p, c) /\ pstate[c] \in Previewed /\ LockNames(c)
                                   /\ \A d \in Campaigns : LockNames(d) => d = c
        BY <2>a, <3>4
      <4>2. AtParent(c) /\ journal[c] # "committed"
        BY <3>1, <3>4, <4>1 DEF Orderly, CommandAt, AloneAt
      <4>3. ASSUME NEW d \in Campaigns PROVE BehindLock(d)' /\ Recorded(d)' /\ Kept(d)'
        <5>1. BehindLock(d) /\ Recorded(d) /\ Kept(d)
          BY DEF PromotionInv
        <5>2. LockNames(d)' => d = c
          BY <3>1, <4>1 DEF LockNames
        <5>3. BehindLock(d)'
          BY <3>1, <4>1, <4>2, <5>2 DEF BehindLock, InTransition, AtParent
        <5>4. Recorded(d)'
          BY <3>1, <5>1 DEF Recorded
        <5>5. Kept(d)'
          BY <3>1, <4>1, <4>2, <5>1 DEF Kept, LockNames, AtParent
        <5>. QED
          BY <5>3, <5>4, <5>5
      <4>4. AlwaysLoadable'
        BY <3>1 DEF PromotionInv, AlwaysLoadable
      <4>. QED
        BY <3>2, <4>3, <4>4 DEF PromotionInv
    <3>. QED
      BY <3>3, <3>4
  <2>26. CASE UNCHANGED vars
    <3>1. UNCHANGED <<content, manifest, bundle, pstate, journal, lock, pc, cmd>>
      BY <2>26 DEF vars
    <3>2. (\A d \in Campaigns : Campaign(d)') /\ AlwaysLoadable'
      BY <2>c, <3>1 DEF Validated
    <3>3. \A q \in Procs : pc'[q] # "idle" => CommandAt(q, cmd[q])'
      BY <2>d, <3>1
    <3>. QED
      BY <3>2, <3>3 DEF PromotionInv
  <2>. QED
    BY <2>1, <2>2, <2>3, <2>4, <2>5, <2>6, <2>7, <2>8, <2>9, <2>10, <2>11, <2>12, <2>13,
       <2>14, <2>15, <2>16, <2>17, <2>18, <2>19, <2>20, <2>21, <2>22, <2>23, <2>24, <2>25, <2>26
       DEF Next, Step, ApplyStep, RecoverStep, Recover
<1>3. Overlap # "any"
  BY DEF Orderly
<1>. QED
  BY <1>1, <1>2, <1>3, LockAlways, TypeCorrect, PTL DEF Spec

-----------------------------------------------------------------------------
(* A committed promotion is never rolled back: recovery either finalizes it    *)
(* or restores a transaction that was opened later (recover, 1020-1059).       *)
THEOREM CommittedNeverRolledBack == ASSUME Orderly PROVE Spec => []CommittedSurvives
<1>1. PromotionInv => CommittedSurvives
  BY DEF PromotionInv, Kept, CommittedSurvives
<1>. QED
  BY <1>1, PromotionInvariant, PTL

(* The profile can be loaded in every state, so recovery can always start      *)
(* (recover loads it at 1007 before it restores a byte).                       *)
THEOREM ProfileAlwaysLoadable == ASSUME Orderly PROVE Spec => []AlwaysLoadable
<1>1. PromotionInv => AlwaysLoadable
  BY DEF PromotionInv
<1>. QED
  BY <1>1, PromotionInvariant, PTL

-----------------------------------------------------------------------------
(* Once no lock is left, a campaign is `applied` exactly when its journal is   *)
(* committed, and none is left `applying` (apply, 944-965; recover, 1020-1070). *)
THEOREM StateFollowsJournal == ASSUME Orderly PROVE Spec => []StateMatchesJournal
<1>1. Init => StateInv
  BY ControlAssumption DEF Init, StateInv, Agree, Idle
<1>2. TypeOK /\ Bound /\ LockInv /\ PromotionInv /\ StateInv /\ [Next]_vars => StateInv'
  <2> SUFFICES ASSUME TypeOK, Bound, LockInv, PromotionInv, StateInv, [Next]_vars PROVE StateInv'
    OBVIOUS
  <2> USE ControlAssumption, Orderly DEF Idle, StateInv, TypeOK
  <2>a. /\ \A p \in Procs : pc[p] # "idle" =>
             /\ cmd[p] \in Campaigns /\ pstate[cmd[p]] \in Previewed
             /\ JournalAt(p, cmd[p]) /\ StateAt(p, cmd[p])
             /\ pc[p] \notin {"checked", "creating"} => LockNames(cmd[p])
             /\ pc[p] = "creating" => lock.names = Nobody
        /\ \A p, q \in Procs : pc[p] \notin {"idle", "checked"} /\ pc[q] \notin {"idle", "checked"}
                                 => p = q
        /\ \A c \in Campaigns : journal[c] # "none" => pstate[c] \in Previewed
    BY DEF PromotionInv, CommandAt, Bound, Recorded, LockInv, MutualExclusion, Holding
  <2>1. ASSUME NEW c \in Campaigns, StartCampaign(c) PROVE StateInv'
    BY <2>1, <2>a DEF StartCampaign, StateAt, Agree, LockNames, Previewed
  <2>2. ASSUME NEW c \in Campaigns, FinishCampaign(c) PROVE StateInv'
    BY <2>2, <2>a DEF FinishCampaign, StateAt, Agree, LockNames, Previewed
  <2>3. ASSUME NEW a \in Artifacts, OwnerEdit(a) PROVE StateInv'
    BY <2>3, <2>a DEF OwnerEdit, StateAt, Agree, LockNames
  <2>4. ASSUME NEW p \in Procs, NEW c \in Campaigns, CheckApply(p, c) PROVE StateInv'
    BY <2>4, <2>a DEF CheckApply, StateAt, Agree, LockNames
  <2>5. ASSUME NEW p \in Procs, NEW c \in Campaigns, CheckRecover(p, c) PROVE StateInv'
    BY <2>5, <2>a DEF CheckRecover, StateAt, Agree, LockNames
  <2>6. ASSUME NEW p \in Procs, CreateLock(p) PROVE StateInv'
    BY <2>6, <2>a DEF CreateLock, StateAt, JournalAt, Trusts, Agree, LockNames, Previewed
  <2>7. ASSUME NEW p \in Procs, RefuseLock(p) PROVE StateInv'
    BY <2>7, <2>a DEF RefuseLock, StateAt, JournalAt, Trusts, Agree, LockNames, Previewed
  <2>8. ASSUME NEW p \in Procs, WriteLock(p) PROVE StateInv'
    BY <2>8, <2>a DEF WriteLock, StateAt, JournalAt, Trusts, Agree, LockNames, Previewed
  <2>9. ASSUME NEW p \in Procs, Revalidate(p) PROVE StateInv'
    BY <2>9, <2>a DEF Revalidate, StateAt, JournalAt, Trusts, Agree, LockNames, Previewed
  <2>10. ASSUME NEW p \in Procs, AbortApply(p) PROVE StateInv'
    BY <2>10, <2>a DEF AbortApply, StateAt, JournalAt, Trusts, Agree, LockNames, Previewed
  <2>11. ASSUME NEW p \in Procs, WritePrepared(p) PROVE StateInv'
    BY <2>11, <2>a DEF WritePrepared, StateAt, JournalAt, Trusts, Agree, LockNames, Previewed
  <2>12. ASSUME NEW p \in Procs, MarkApplying(p) PROVE StateInv'
    BY <2>12, <2>a DEF MarkApplying, StateAt, JournalAt, Trusts, Agree, LockNames, Previewed
  <2>13. ASSUME NEW p \in Procs, ReplaceContent(p) PROVE StateInv'
    BY <2>13, <2>a DEF ReplaceContent, StateAt, JournalAt, Trusts, Agree, LockNames, Previewed
  <2>14. ASSUME NEW p \in Procs, ReplaceManifest(p) PROVE StateInv'
    BY <2>14, <2>a DEF ReplaceManifest, StateAt, JournalAt, Trusts, Agree, LockNames, Previewed
  <2>15. ASSUME NEW p \in Procs, VerifyApplied(p) PROVE StateInv'
    BY <2>15, <2>a DEF VerifyApplied, StateAt, JournalAt, Trusts, Agree, LockNames, Previewed
  <2>16. ASSUME NEW p \in Procs, MarkCommitted(p) PROVE StateInv'
    BY <2>16, <2>a DEF MarkCommitted, StateAt, JournalAt, Trusts, Agree, LockNames, Previewed
  <2>17. ASSUME NEW p \in Procs, MarkApplied(p) PROVE StateInv'
    BY <2>17, <2>a DEF MarkApplied, StateAt, JournalAt, Trusts, Agree, LockNames, Previewed
  <2>18. ASSUME NEW p \in Procs, ReleaseLock(p) PROVE StateInv'
    BY <2>18, <2>a DEF ReleaseLock, StateAt, JournalAt, Trusts, Agree, LockNames, Previewed
  <2>19. ASSUME NEW p \in Procs, WriteRecoveryJournal(p) PROVE StateInv'
    BY <2>19, <2>a DEF WriteRecoveryJournal, StateAt, JournalAt, Trusts, Agree, LockNames, Previewed
  <2>20. ASSUME NEW p \in Procs, RestoreManifest(p) PROVE StateInv'
    <3> HIDE DEF TypeOK, StateInv
    <3>1. /\ pc' = [pc EXCEPT ![p] = "manifest restored"] /\ pc[p] = "restoring"
          /\ UNCHANGED <<pstate, journal, lock, cmd>>
      BY <2>20, Zenon DEF RestoreManifest
    <3>2. pc' = [pc EXCEPT ![p] = pc'[p]] /\ pc[p] # "idle"
          /\ pc'[p] \notin {"locked", "validated", "journaled", "applied", "finalized", "recovered"}
      BY <3>1, Zenon DEF TypeOK
    <3>3. UNCHANGED <<pstate, journal, lock, cmd>>
      BY <3>1
    <3>. QED
      BY <2>a, <3>2, <3>3 DEF TypeOK, StateInv, StateAt, Agree, LockNames
  <2>21. ASSUME NEW p \in Procs, RestoreContent(p) PROVE StateInv'
    <3> HIDE DEF TypeOK, StateInv
    <3>1. /\ pc' = [pc EXCEPT ![p] = "restored"] /\ pc[p] = "manifest restored"
          /\ UNCHANGED <<pstate, journal, lock, cmd>>
      BY <2>21, Zenon DEF RestoreContent
    <3>2. pc' = [pc EXCEPT ![p] = pc'[p]] /\ pc[p] # "idle"
          /\ pc'[p] \notin {"locked", "validated", "journaled", "applied", "finalized", "recovered"}
      BY <3>1, Zenon DEF TypeOK
    <3>3. UNCHANGED <<pstate, journal, lock, cmd>>
      BY <3>1
    <3>. QED
      BY <2>a, <3>2, <3>3 DEF TypeOK, StateInv, StateAt, Agree, LockNames
  <2>22. ASSUME NEW p \in Procs, VerifyRestored(p) PROVE StateInv'
    <3>1. CASE Restored(cmd[p])
      <4> HIDE DEF TypeOK, StateInv
      <4>1. /\ pc[p] = "restored" /\ pc' = [pc EXCEPT ![p] = "parent verified"]
            /\ UNCHANGED <<pstate, journal, lock, cmd>>
        BY <2>22, <3>1, Zenon DEF VerifyRestored
      <4>2. pc' = [pc EXCEPT ![p] = pc'[p]] /\ pc[p] # "idle"
            /\ pc'[p] \notin {"locked", "validated", "journaled", "applied", "finalized", "recovered"}
        BY <4>1, Zenon DEF TypeOK
      <4>3. UNCHANGED <<pstate, journal, lock, cmd>>
        BY <4>1
      <4>. QED
        BY <2>a, <4>2, <4>3 DEF TypeOK, StateInv, StateAt, Agree, LockNames
    <3>2. CASE ~Restored(cmd[p])
      <4>1. /\ pc' = [pc EXCEPT ![p] = "idle"] /\ cmd' = [cmd EXCEPT ![p] = Nobody]
            /\ UNCHANGED <<pstate, journal, lock>>
        BY <2>22, <3>2 DEF VerifyRestored
      <4>. QED
        BY <2>a, <4>1 DEF StateAt, Agree, LockNames
    <3>. QED
      BY <3>1, <3>2
  <2>23. ASSUME NEW p \in Procs, MarkRecovered(p) PROVE StateInv'
    <3>1. /\ pc' = [pc EXCEPT ![p] = "recovered"] /\ pc[p] # "idle"
          /\ pstate' = [pstate EXCEPT ![cmd[p]] = "recovered"]
          /\ UNCHANGED <<journal, lock, cmd>>
          /\ journal[cmd[p]] # "committed" /\ LockNames(cmd[p]) /\ cmd[p] \in Campaigns
      <4>1. /\ pc[p] = "parent verified" /\ pc' = [pc EXCEPT ![p] = "recovered"]
            /\ pstate' = [pstate EXCEPT ![cmd[p]] = "recovered"]
            /\ UNCHANGED <<journal, lock, cmd>>
        BY <2>23, Zenon DEF MarkRecovered
      <4>. QED
        BY <2>a, <4>1 DEF JournalAt, Trusts
    <3>. QED
      BY <2>a, <3>1 DEF StateAt, Agree, LockNames
  <2>24. ASSUME NEW p \in Procs, FinalizeApplied(p) PROVE StateInv'
    BY <2>24, <2>a DEF FinalizeApplied, StateAt, JournalAt, Trusts, Agree, LockNames, Previewed
  <2>25. ASSUME NEW p \in Procs, Crash(p) PROVE StateInv'
    BY <2>25, <2>a DEF Crash, StateAt, JournalAt, Trusts, Agree, LockNames, Previewed
  <2>26. CASE UNCHANGED vars
    BY <2>26, <2>a DEF vars, StateAt, Agree, LockNames
  <2>. QED
    BY <2>1, <2>2, <2>3, <2>4, <2>5, <2>6, <2>7, <2>8, <2>9, <2>10, <2>11, <2>12, <2>13,
       <2>14, <2>15, <2>16, <2>17, <2>18, <2>19, <2>20, <2>21, <2>22, <2>23, <2>24, <2>25, <2>26
       DEF Next, Step, ApplyStep, RecoverStep, Recover
<1>3. StateInv => StateMatchesJournal
  BY ControlAssumption DEF StateInv, StateMatchesJournal, Agree, LockNames
<1>4. Overlap # "any"
  BY DEF Orderly
<1>. QED
  BY <1>1, <1>2, <1>3, <1>4, TypeCorrect, LockAlways, PromotionInvariant, PTL DEF Spec

-----------------------------------------------------------------------------
(* The two cases of the refinement mapping InEffect.                           *)
EffectIs ==
  /\ lock = NoLock \/ lock.names = Nobody \/ (\E p \in Procs : pc[p] = "locked")
       => InEffect = disk
  /\ \A c \in Campaigns : LockNames(c) /\ (\A p \in Procs : pc[p] # "locked")
       => InEffect = IF journal[c] = "committed" THEN Promote(bundle[c], c) ELSE bundle[c]

(* InEffect is the files with no transaction in effect, and what the journal   *)
(* says behind a lock that was validated.                                      *)
LEMMA Effect == EffectIs
  BY ControlAssumption DEF EffectIs, InEffect, LockNames

(* Every step of the program is a step of the atomic promotion or leaves the    *)
(* profile in effect, the parents and the committed campaigns as they are:     *)
(* only the commit marker (apply, 959-960) makes a promotion take effect.      *)
THEOREM ImplementsAtomicPromotion == ASSUME Orderly PROVE Spec => ImplementsAtomic
<1>1. Init => Atomic!Init
  BY DEF Init, Atomic!Init, Atomic!InitialProfile, Atomic!NoProfile, NoProfile,
         InEffect, Committed, InitialProfile
<1>2. TypeOK /\ Bound /\ LockInv /\ PromotionInv /\ EffectIs /\ EffectIs' /\ [Next]_vars
        => [Atomic!Next]_Atomic!vars
  <2> SUFFICES ASSUME TypeOK, Bound, LockInv, PromotionInv, EffectIs, EffectIs', [Next]_vars
               PROVE  [Atomic!Next]_Atomic!vars
    OBVIOUS
  <2> USE ControlAssumption, Orderly DEF Idle
  <2> DEFINE Unmoved == InEffect' = InEffect /\ bundle' = bundle /\ Committed' = Committed
  <2>a. Unmoved => [Atomic!Next]_Atomic!vars
    BY DEF Atomic!vars
  (* the command behind the lock: its campaign, its place, and no other *)
  <2>b. ASSUME NEW p \in Procs, pc[p] \notin {"idle", "checked"}
        PROVE  /\ cmd[p] \in Campaigns /\ bundle[cmd[p]] \in Profiles
               /\ CommandAt(p, cmd[p])
               /\ pc[p] # "creating" => LockNames(cmd[p])
               /\ pc[p] # "locked" => \A q \in Procs : pc[q] # "locked"
               /\ pc' = [pc EXCEPT ![p] = pc'[p]] /\ pc'[p] # "locked"
                    => \A q \in Procs : pc'[q] # "locked"
    BY <2>b DEF PromotionInv, LockInv, MutualExclusion, Holding, Bound, TypeOK, Previewed
  (* a write behind the lock that does not touch the journal's verdict *)
  <2>c. ASSUME NEW p \in Procs, UNCHANGED <<bundle, journal, lock>>,
               pc' = [pc EXCEPT ![p] = pc'[p]], pc'[p] # "locked",
               pc[p] \notin {"idle", "checked", "creating", "locked"}
        PROVE  Unmoved
    <3>2. cmd[p] \in Campaigns /\ LockNames(cmd[p])
      BY <2>b, <2>c
    <3>3. \A q \in Procs : pc[q] # "locked" /\ pc'[q] # "locked"
      BY <2>b, <2>c
    <3>4. PICK c \in Campaigns : c = cmd[p] /\ LockNames(c) /\ LockNames(c)'
      BY <2>c, <3>2 DEF LockNames
    <3>. QED
      BY <2>c, <3>3, <3>4 DEF EffectIs, Committed
  (* nothing that decides what is in effect changes *)
  <2>d. ASSUME UNCHANGED <<content, manifest, bundle, journal, lock>>,
               \A q \in Procs : pc[q] = "locked" <=> pc'[q] = "locked"
        PROVE  Unmoved
    BY <2>d DEF InEffect, Committed, disk
  <2>1. ASSUME NEW c \in Campaigns, StartCampaign(c) PROVE Atomic!Open(c)
    <3>1. bundle[c] = NoProfile /\ disk \in Profiles /\ ~LockNames(c)
      BY <2>1 DEF StartCampaign, PromotionInv, Recorded, BehindLock, Previewed, TypeOK, Profiles
    <3>2. bundle' = [bundle EXCEPT ![c] = disk] /\ bundle'[c] = disk
      BY <2>1 DEF StartCampaign, TypeOK
    <3>3. UNCHANGED <<content, manifest, journal, lock, pc>>
      BY <2>1 DEF StartCampaign
    <3>4. InEffect' = InEffect
      BY <3>1, <3>2, <3>3 DEF InEffect, LockNames, TypeOK
    <3>. QED
      BY <3>1, <3>2, <3>3, <3>4 DEF Atomic!Open, Committed, Atomic!NoProfile, NoProfile, Atomic!Profiles, Profiles, Atomic!Bytes, Bytes
  <2>2. ASSUME NEW c \in Campaigns, FinishCampaign(c) PROVE Unmoved
    BY <2>2, <2>d DEF FinishCampaign
  <2>3. ASSUME NEW a \in Artifacts, OwnerEdit(a) PROVE Atomic!Edit(a)
    <3>1. InEffect = disk /\ InEffect' = disk'
      BY <2>3 DEF OwnerEdit, EffectIs
    <3>. QED
      BY <2>3, <3>1 DEF OwnerEdit, Atomic!Edit, Committed
  <2>4. ASSUME NEW p \in Procs, NEW c \in Campaigns, CheckApply(p, c) PROVE Unmoved
    BY <2>4, <2>d DEF CheckApply, MayApply, AllIdle, TypeOK
  <2>5. ASSUME NEW p \in Procs, NEW c \in Campaigns, CheckRecover(p, c) PROVE Unmoved
    BY <2>5, <2>d DEF CheckRecover, MayRecover, AllIdle, TypeOK
  <2>6. ASSUME NEW p \in Procs, CreateLock(p) PROVE Unmoved
    BY <2>6 DEF CreateLock, EffectIs, Committed
  <2>7. ASSUME NEW p \in Procs, RefuseLock(p) PROVE Unmoved
    BY <2>7, <2>d DEF RefuseLock, TypeOK
  <2>8. ASSUME NEW p \in Procs, WriteLock(p) PROVE Unmoved
    <3>1. pc[p] = "creating" /\ lock.names = Nobody /\ pc'[p] = "locked"
      BY <2>8 DEF WriteLock, LockInv, TypeOK
    <3>. QED
      BY <2>8, <3>1 DEF WriteLock, EffectIs, Committed
  <2>9. ASSUME NEW p \in Procs, Revalidate(p) PROVE Unmoved
    <3>1. pc[p] = "locked" /\ InEffect = disk
      BY <2>9 DEF Revalidate, EffectIs
    <3>2. PICK c \in Campaigns : c = cmd[p] /\ LockNames(c) /\ journal[c] # "committed"
      <4>1. /\ cmd[p] \in Campaigns /\ LockNames(cmd[p]) /\ Kept(cmd[p])
            /\ manifest = bundle[cmd[p]].manifest /\ manifest[Target[cmd[p]]] \in Nat
        BY <2>9, <2>b, <3>1, ProfileAssumption DEF Revalidate, Fresh, PromotionInv, TypeOK
      <4>. QED
        BY <4>1 DEF Kept
    <3>3. disk = bundle[c] /\ UNCHANGED <<content, manifest, bundle, journal, lock>>
      BY <2>9, <3>2 DEF Revalidate, Fresh
    <3>4. \A q \in Procs : pc'[q] # "locked"
      BY <2>9, <2>b DEF Revalidate, TypeOK
    <3>. QED
      BY <3>1, <3>2, <3>3, <3>4 DEF EffectIs, Committed, LockNames
  <2>10. ASSUME NEW p \in Procs, AbortApply(p) PROVE Unmoved
    <3>1. InEffect' = disk /\ UNCHANGED <<bundle, journal>>
      BY <2>10 DEF AbortApply, EffectIs
    <3>2. InEffect = disk
      <4>1. CASE pc[p] = "locked"
        BY <4>1 DEF EffectIs
      <4>2. CASE pc[p] # "locked"
        <5>1. PICK c \in Campaigns : c = cmd[p] /\ LockNames(c) /\ journal[c] # "committed"
                                     /\ AtParent(c) /\ bundle[c] \in Profiles
          BY <2>10, <2>b, <4>2 DEF AbortApply, CommandAt, FilesAt, JournalAt, Trusts
        <5>. QED
          BY <2>10, <2>b, <4>2, <5>1 DEF AbortApply, EffectIs, AtParent, Profiles
      <4>. QED
        BY <4>1, <4>2
    <3>. QED
      BY <3>1, <3>2 DEF Committed
  <2>11. ASSUME NEW p \in Procs, WritePrepared(p) PROVE Unmoved
    <3>1. PICK c \in Campaigns : c = cmd[p] /\ LockNames(c) /\ journal[c] # "committed"
      BY <2>11, <2>b DEF WritePrepared, CommandAt, JournalAt, Trusts
    <3>2. /\ journal' = [journal EXCEPT ![c] = "prepared"]
          /\ UNCHANGED <<bundle, lock>> /\ LockNames(c)'
      BY <2>11, <3>1 DEF WritePrepared, LockNames
    <3>3. \A q \in Procs : pc[q] # "locked" /\ pc'[q] # "locked"
      BY <2>11, <2>b DEF WritePrepared, TypeOK
    <3>. QED
      BY <3>1, <3>2, <3>3 DEF EffectIs, Committed, TypeOK
  <2>12. ASSUME NEW p \in Procs, MarkApplying(p) PROVE Unmoved
    BY <2>12, <2>c DEF MarkApplying, TypeOK
  <2>13. ASSUME NEW p \in Procs, ReplaceContent(p) PROVE Unmoved
    BY <2>13, <2>c DEF ReplaceContent, TypeOK
  <2>14. ASSUME NEW p \in Procs, ReplaceManifest(p) PROVE Unmoved
    BY <2>14, <2>c DEF ReplaceManifest, TypeOK
  <2>15. ASSUME NEW p \in Procs, VerifyApplied(p) PROVE Unmoved
    <3>1. /\ pc[p] = "manifest" /\ pc'[p] # "locked" /\ pc' = [pc EXCEPT ![p] = pc'[p]]
          /\ UNCHANGED <<bundle, journal, lock>>
      BY <2>15 DEF VerifyApplied, TypeOK
    <3>. QED
      BY <3>1, <2>c
  <2>16. ASSUME NEW p \in Procs, MarkCommitted(p) PROVE \E c \in Campaigns : Atomic!Commit(c)
    <3>1. PICK c \in Campaigns : c = cmd[p] /\ LockNames(c) /\ journal[c] # "committed"
      BY <2>16, <2>b DEF MarkCommitted, CommandAt, JournalAt, Trusts
    <3>2. /\ journal' = [journal EXCEPT ![c] = "committed"]
          /\ UNCHANGED <<bundle, lock>> /\ LockNames(c)'
      BY <2>16, <3>1 DEF MarkCommitted, LockNames
    <3>3. \A q \in Procs : pc[q] # "locked" /\ pc'[q] # "locked"
      BY <2>16, <2>b DEF MarkCommitted, TypeOK
    <3>4. InEffect = bundle[c] /\ InEffect' = Promote(bundle[c], c)
      BY <3>1, <3>2, <3>3 DEF EffectIs, TypeOK
    <3>5. c \notin Committed /\ Committed' = Committed \cup {c}
      BY <3>1, <3>2 DEF Committed, TypeOK
    <3>. QED
      BY <3>2, <3>4, <3>5 DEF Atomic!Commit, Atomic!Promote, Promote,
         Atomic!ReviewedContent, ReviewedContent, Atomic!ReviewedManifest, ReviewedManifest
  <2>17. ASSUME NEW p \in Procs, MarkApplied(p) PROVE Unmoved
    BY <2>17, <2>c DEF MarkApplied, TypeOK
  <2>18. ASSUME NEW p \in Procs, ReleaseLock(p) PROVE Unmoved
    <3>1. InEffect' = disk /\ UNCHANGED <<bundle, journal>>
      BY <2>18 DEF ReleaseLock, EffectIs
    <3>2. PICK c \in Campaigns :
            /\ c = cmd[p] /\ LockNames(c) /\ bundle[c] \in Profiles
            /\ IF journal[c] = "committed" THEN AtCandidate(c) ELSE AtParent(c)
      BY <2>18, <2>b DEF ReleaseLock, CommandAt, FilesAt, JournalAt, Trusts, PromotionInv, BehindLock, Validated
    <3>3. InEffect = IF journal[c] = "committed" THEN Promote(bundle[c], c) ELSE bundle[c]
      BY <2>18, <2>b, <3>2 DEF ReleaseLock, EffectIs
    <3>4. InEffect = disk
      BY <3>2, <3>3 DEF AtCandidate, AtParent, Promote, Profiles
    <3>. QED
      BY <3>1, <3>4 DEF Committed
  <2>19. ASSUME NEW p \in Procs, WriteRecoveryJournal(p) PROVE Unmoved
    <3>1. PICK c \in Campaigns : c = cmd[p] /\ LockNames(c) /\ journal[c] # "committed"
      BY <2>19, <2>b DEF WriteRecoveryJournal, CommandAt, JournalAt, Trusts
    <3>2. /\ journal' = [journal EXCEPT ![c] = "prepared"]
          /\ UNCHANGED <<bundle, lock>> /\ LockNames(c)'
      BY <2>19, <3>1 DEF WriteRecoveryJournal, LockNames
    <3>3. \A q \in Procs : pc[q] # "locked" /\ pc'[q] # "locked"
      BY <2>19, <2>b DEF WriteRecoveryJournal, TypeOK
    <3>. QED
      BY <3>1, <3>2, <3>3 DEF EffectIs, Committed, TypeOK
  <2>20. ASSUME NEW p \in Procs, RestoreManifest(p) PROVE Unmoved
    BY <2>20, <2>c DEF RestoreManifest, TypeOK
  <2>21. ASSUME NEW p \in Procs, RestoreContent(p) PROVE Unmoved
    BY <2>21, <2>c DEF RestoreContent, TypeOK
  <2>22. ASSUME NEW p \in Procs, VerifyRestored(p) PROVE Unmoved
    <3>1. /\ pc[p] = "restored" /\ pc'[p] # "locked" /\ pc' = [pc EXCEPT ![p] = pc'[p]]
          /\ UNCHANGED <<bundle, journal, lock>>
      BY <2>22 DEF VerifyRestored, TypeOK
    <3>. QED
      BY <3>1, <2>c
  <2>23. ASSUME NEW p \in Procs, MarkRecovered(p) PROVE Unmoved
    BY <2>23, <2>c DEF MarkRecovered, TypeOK
  <2>24. ASSUME NEW p \in Procs, FinalizeApplied(p) PROVE Unmoved
    BY <2>24, <2>c DEF FinalizeApplied, TypeOK
  <2>25. ASSUME NEW p \in Procs, Crash(p) PROVE Unmoved
    <3>1. /\ UNCHANGED <<content, manifest, bundle, journal, lock>>
          /\ pc' = [pc EXCEPT ![p] = "idle"]
          /\ pc[p] \in CrashPoints
      BY <2>25 DEF Crash
    <3>2. CASE pc[p] = "locked"
      <4>1. PICK c \in Campaigns : /\ LockNames(c) /\ journal[c] # "committed"
                                   /\ AtParent(c) /\ bundle[c] \in Profiles
        BY <2>b, <3>1, <3>2 DEF Orderly, CommandAt, AloneAt
      <4>2. InEffect = disk
        BY <3>2 DEF EffectIs
      <4>3. InEffect' = bundle[c]
        <5>1. \A q \in Procs : pc'[q] # "locked"
          BY <2>b, <3>1, <3>2 DEF TypeOK
        <5>. QED
          BY <3>1, <4>1, <5>1 DEF EffectIs, LockNames
      <4>. QED
        BY <3>1, <4>1, <4>2, <4>3 DEF AtParent, Profiles, Committed
    <3>3. CASE pc[p] # "locked"
      BY <2>d, <3>1, <3>3 DEF TypeOK
    <3>. QED
      BY <3>2, <3>3
  <2>26. CASE UNCHANGED vars
    BY <2>26, <2>a, <2>d DEF vars
  <2>. QED
    BY <2>a, <2>1, <2>2, <2>3, <2>4, <2>5, <2>6, <2>7, <2>8, <2>9, <2>10, <2>11, <2>12, <2>13,
       <2>14, <2>15, <2>16, <2>17, <2>18, <2>19, <2>20, <2>21, <2>22, <2>23, <2>24, <2>25, <2>26
       DEF Next, Step, ApplyStep, RecoverStep, Recover, Atomic!Next
<1>3. Overlap # "any"
  BY DEF Orderly
<1>. QED
  BY <1>1, <1>2, <1>3, TypeCorrect, LockAlways, PromotionInvariant, Effect, PTL
     DEF Spec, ImplementsAtomic, Atomic!Spec
=============================================================================
