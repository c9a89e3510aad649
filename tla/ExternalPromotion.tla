-------------------------- MODULE ExternalPromotion --------------------------
(***************************************************************************)
(* kpo.external_promotion: `kpo promote --approve` and `--recover` as       *)
(* processes that share the profile (content files and policy manifest),    *)
(* the promotion journals, the campaign state files and apply.lock.  Every  *)
(* durable write is an action, so that a process may die before or after it. *)
(***************************************************************************)
EXTENDS PolicyProfile, FiniteSets

CONSTANTS Procs,        \* processes that can run a promote command
          Nobody,       \* the campaign of an idle process, of an empty lock
          NoLock,       \* apply.lock does not exist
          Overlap,      \* which commands may run at the same time
          CrashPoints,  \* the program points at which a process may die
          MaxCrashes,   \* bound on the deaths of one behaviour
          MaxEdits      \* bound on the owner's edits of one behaviour

VARIABLES content,   \* the bytes at every artifact's path
          manifest,  \* the version in every artifact's manifest row
          bundle,    \* the original profile a campaign's bundle was built on
          pstate,    \* promotion_state of every campaign ("running" before it)
          journal,   \* promotions/journals/<approval digest>.json
          lock,      \* promotions/apply.lock
          pc, cmd,   \* where every process is, and for which campaign
          crashes, edits

disk == [content |-> content, manifest |-> manifest]
files == <<content, manifest>>
counters == <<crashes, edits>>
vars == <<content, manifest, bundle, pstate, journal, lock, pc, cmd, crashes, edits>>

ApplyPoints == {"checked", "creating", "locked", "validated", "journaled",
                "applying", "content", "manifest", "verified", "committed", "applied"}
RecoverPoints == {"unjournaled", "restoring", "manifest restored", "restored",
                  "parent verified", "recovered", "finalizing", "finalized"}

(* "none": one command at a time; "apply": applies overlap each other and a  *)
(* recovery runs alone; "any": a recovery may meet a live apply.            *)
ASSUME ControlAssumption ==
  /\ Overlap \in {"none", "apply", "any"}
  /\ CrashPoints \subseteq ApplyPoints \cup RecoverPoints
  /\ MaxCrashes \in Nat /\ MaxEdits \in Nat
  /\ Nobody \notin Campaigns
  /\ \A p \in Procs, c \in Campaigns \cup {Nobody} : NoLock # [maker |-> p, names |-> c]

Previewed == {"previewed", "applying", "applied", "recovered"}

TypeOK ==
  /\ content \in [Artifacts -> Bytes]
  /\ manifest \in [Artifacts -> Nat]
  /\ bundle \in [Campaigns -> Profiles \cup {NoProfile}]
  /\ pstate \in [Campaigns -> {"none", "running", "failed"} \cup Previewed]
  /\ journal \in [Campaigns -> {"none", "prepared", "committed"}]
  /\ lock \in {NoLock} \cup [maker : Procs, names : Campaigns \cup {Nobody}]
  /\ pc \in [Procs -> {"idle"} \cup ApplyPoints \cup RecoverPoints]
  /\ cmd \in [Procs -> Campaigns \cup {Nobody}]
  /\ crashes \in Nat /\ edits \in Nat

Init ==
  /\ content = InitialProfile.content
  /\ manifest = InitialProfile.manifest
  /\ bundle = [c \in Campaigns |-> NoProfile]
  /\ pstate = [c \in Campaigns |-> "none"]
  /\ journal = [c \in Campaigns |-> "none"]
  /\ lock = NoLock
  /\ pc = [p \in Procs |-> "idle"]
  /\ cmd = [p \in Procs |-> Nobody]
  /\ crashes = 0 /\ edits = 0

Idle(p) == pc[p] = "idle"
AllIdle == \A p \in Procs : Idle(p)
MayApply(p) ==
  /\ Idle(p)
  /\ \/ AllIdle
     \/ Overlap = "apply" /\ \A q \in Procs : pc[q] \notin RecoverPoints
     \/ Overlap = "any"
MayRecover(p) == Idle(p) /\ (AllIdle \/ Overlap = "any")

Goto(p, from, to) == pc[p] = from /\ pc' = [pc EXCEPT ![p] = to] /\ UNCHANGED cmd
Leave(p) == pc' = [pc EXCEPT ![p] = "idle"] /\ cmd' = [cmd EXCEPT ![p] = Nobody]
Enter(p, c, to) == pc' = [pc EXCEPT ![p] = to] /\ cmd' = [cmd EXCEPT ![p] = c]

LockNames(c) == lock # NoLock /\ lock.names = c
SetState(c, s) == pstate' = [pstate EXCEPT ![c] = s]
SetJournal(c, s) == journal' = [journal EXCEPT ![c] = s]

------------------------------------------------------------------------------
(* The commands with one line wrong; a run finds each (README, "Mutants").   *)

(* The lock taken inside the `try` whose handler removes it.                  *)
RefuseLockUnlinks(p) ==
  /\ pc[p] = "checked" /\ lock # NoLock
  /\ lock' = NoLock
  /\ Leave(p)
  /\ UNCHANGED <<files, bundle, pstate, journal, counters>>

(* No second validation behind the lock.                                      *)
RevalidateNothing(p) ==
  /\ Goto(p, "locked", "validated")
  /\ UNCHANGED <<files, bundle, pstate, journal, lock, counters>>

(* The manifest replaced before the content it lists.                         *)
ManifestFirst(p) ==
  /\ Goto(p, "applying", "content")
  /\ manifest' = ReviewedManifest(bundle[cmd[p]], cmd[p])
  /\ UNCHANGED <<content, bundle, pstate, journal, lock, counters>>

(* Recovery that restores whatever the journal says.                          *)
RecoverByRestoring(p, c) ==
  /\ MayRecover(p) /\ Loadable(disk) /\ pstate[c] \in Previewed /\ LockNames(c)
  /\ Enter(p, c, IF journal[c] = "none" THEN "unjournaled" ELSE "restoring")
  /\ UNCHANGED <<files, bundle, pstate, journal, lock, counters>>

(* Recovery that gives up when no journal was written.                        *)
RecoverJournaled(p, c) ==
  /\ journal[c] # "none"
  /\ RecoverByRestoring(p, c)

(* The journal's word written to the campaign's promotion state.               *)
MarkRecoveredPrepared(p) ==
  /\ Goto(p, "parent verified", "recovered")
  /\ SetState(cmd[p], "prepared")
  /\ UNCHANGED <<files, bundle, journal, lock, counters>>

(* The finalizer clears the lock and does not repair the campaign's state.      *)
FinalizeNothing(p) ==
  /\ Goto(p, "finalizing", "finalized")
  /\ UNCHANGED <<files, bundle, pstate, journal, lock, counters>>

------------------------------------------------------------------------------
(* The campaigns and the owner, as far as promotion sees them.              *)

(* run_campaign loads the profile in effect; nothing looks at apply.lock.    *)
StartCampaign(c) ==
  /\ pstate[c] = "none"
  /\ Loadable(disk)
  /\ bundle' = [bundle EXCEPT ![c] = disk]
  /\ SetState(c, "running")
  /\ UNCHANGED <<files, journal, lock, pc, cmd, counters>>

(* The bundle is installed and the preview reported only if the profile is   *)
(* still what the campaign loaded and an added artifact has no file yet.     *)
CanPreview(c) ==
  /\ disk = bundle[c]
  /\ manifest[Target[c]] = 0 => content[Target[c]] = Absent

(* A run that ends, or a failed one resumed while its snapshot still holds.   *)
FinishCampaign(c) ==
  /\ pstate[c] \in {"running", "failed"}
  /\ SetState(c, IF CanPreview(c) THEN "previewed" ELSE "failed")
  /\ UNCHANGED <<files, bundle, journal, lock, pc, cmd, counters>>

(* The owner edits a policy file while no transaction is open.              *)
OwnerEdit(a) ==
  /\ edits < MaxEdits
  /\ AllIdle /\ lock = NoLock
  /\ content[a] # Absent
  /\ content' = [content EXCEPT ![a] = Edited]
  /\ edits' = edits + 1
  /\ UNCHANGED <<manifest, bundle, pstate, journal, lock, pc, cmd, crashes>>

------------------------------------------------------------------------------
(* apply_campaign_promotion.                                                *)

(* _validate_original_transaction: the profile snapshot, parent policy,      *)
(* target digest, destination and manifest are those of the bundle.          *)
Fresh(c) == Loadable(disk) /\ disk = bundle[c]

AlreadyCommitted(c) ==
  pstate[c] = "applied" \/ (journal[c] = "committed" /\ lock = NoLock)

CheckApply(p, c) ==
  /\ MayApply(p)
  /\ pstate[c] \in Previewed
  /\ ~AlreadyCommitted(c)
  /\ Fresh(c)
  /\ Enter(p, c, "checked")
  /\ UNCHANGED <<files, bundle, pstate, journal, lock, counters>>

(* os.open(O_CREAT | O_EXCL): the file exists before it names a transaction. *)
CreateLock(p) ==
  /\ lock = NoLock
  /\ lock' = [maker |-> p, names |-> Nobody]
  /\ Goto(p, "checked", "creating")
  /\ UNCHANGED <<files, bundle, pstate, journal, counters>>

RefuseLock(p) ==
  /\ pc[p] = "checked" /\ lock # NoLock
  /\ Leave(p)
  /\ UNCHANGED <<files, bundle, pstate, journal, lock, counters>>

(* os.write to the descriptor: it reaches the file this process created.     *)
WriteLock(p) ==
  /\ Goto(p, "creating", "locked")
  /\ lock' = IF lock = [maker |-> p, names |-> Nobody]
             THEN [lock EXCEPT !.names = cmd[p]] ELSE lock
  /\ UNCHANGED <<files, bundle, pstate, journal, counters>>

Revalidate(p) ==
  /\ Goto(p, "locked", "validated")
  /\ Fresh(cmd[p])
  /\ UNCHANGED <<files, bundle, pstate, journal, lock, counters>>

(* An exception before `prepared = True` removes the lock: a revalidation that *)
(* fails, or a read or write that does.                                      *)
AbortApply(p) ==
  /\ pc[p] \in {"locked", "validated", "journaled"}
  /\ lock' = NoLock
  /\ Leave(p)
  /\ UNCHANGED <<files, bundle, pstate, journal, counters>>

WritePrepared(p) ==
  /\ Goto(p, "validated", "journaled")
  /\ SetJournal(cmd[p], "prepared")
  /\ UNCHANGED <<files, bundle, pstate, lock, counters>>

MarkApplying(p) ==
  /\ Goto(p, "journaled", "applying")
  /\ SetState(cmd[p], "applying")
  /\ UNCHANGED <<files, bundle, journal, lock, counters>>

ReplaceContent(p) ==
  /\ Goto(p, "applying", "content")
  /\ content' = [content EXCEPT ![Target[cmd[p]]] = cmd[p]]
  /\ UNCHANGED <<manifest, bundle, pstate, journal, lock, counters>>

ReplaceManifest(p) ==
  /\ Goto(p, "content", "manifest")
  /\ manifest' = ReviewedManifest(bundle[cmd[p]], cmd[p])
  /\ UNCHANGED <<content, bundle, pstate, journal, lock, counters>>

(* Reload the profile and compare its policy digest with the candidate's.    *)
Applied(c) == PolicyOf(disk) = PolicyOf(Promote(bundle[c], c))

VerifyApplied(p) ==
  /\ pc[p] = "manifest"
  /\ IF Loadable(disk) /\ Applied(cmd[p]) THEN Goto(p, "manifest", "verified") ELSE Leave(p)
  /\ UNCHANGED <<files, bundle, pstate, journal, lock, counters>>

MarkCommitted(p) ==
  /\ Goto(p, "verified", "committed")
  /\ SetJournal(cmd[p], "committed")
  /\ UNCHANGED <<files, bundle, pstate, lock, counters>>

MarkApplied(p) ==
  /\ Goto(p, "committed", "applied")
  /\ SetState(cmd[p], "applied")
  /\ UNCHANGED <<files, bundle, journal, lock, counters>>

(* unlink by path: whichever lock is there is removed.                       *)
ReleaseLock(p) ==
  /\ pc[p] \in {"applied", "recovered", "finalized"}
  /\ lock' = NoLock
  /\ Leave(p)
  /\ UNCHANGED <<files, bundle, pstate, journal, counters>>

------------------------------------------------------------------------------
(* recover_campaign_promotion.                                              *)

CommitVerified(c) ==
  /\ content[Target[c]] = c
  /\ manifest = ReviewedManifest(bundle[c], c)
  /\ Applied(c)

CheckRecover(p, c) ==
  /\ MayRecover(p)
  /\ Loadable(disk)
  /\ pstate[c] \in Previewed
  /\ LockNames(c)
  /\ journal[c] = "committed" => CommitVerified(c)
  /\ Enter(p, c, CASE journal[c] = "committed" -> "finalizing"
                   [] journal[c] = "prepared"  -> "restoring"
                   [] journal[c] = "none"      -> "unjournaled")
  /\ UNCHANGED <<files, bundle, pstate, journal, lock, counters>>

WriteRecoveryJournal(p) ==
  /\ Goto(p, "unjournaled", "restoring")
  /\ SetJournal(cmd[p], "prepared")
  /\ UNCHANGED <<files, bundle, pstate, lock, counters>>

RestoreManifest(p) ==
  /\ Goto(p, "restoring", "manifest restored")
  /\ manifest' = bundle[cmd[p]].manifest
  /\ UNCHANGED <<content, bundle, pstate, journal, lock, counters>>

RestoreContent(p) ==
  /\ Goto(p, "manifest restored", "restored")
  /\ content' = [content EXCEPT ![Target[cmd[p]]] = bundle[cmd[p]].content[Target[cmd[p]]]]
  /\ UNCHANGED <<manifest, bundle, pstate, journal, lock, counters>>

Restored(c) == Loadable(disk) /\ PolicyOf(disk) = PolicyOf(bundle[c])

VerifyRestored(p) ==
  /\ pc[p] = "restored"
  /\ IF Restored(cmd[p]) THEN Goto(p, "restored", "parent verified") ELSE Leave(p)
  /\ UNCHANGED <<files, bundle, pstate, journal, lock, counters>>

MarkRecovered(p) ==
  /\ Goto(p, "parent verified", "recovered")
  /\ SetState(cmd[p], "recovered")
  /\ UNCHANGED <<files, bundle, journal, lock, counters>>

FinalizeApplied(p) ==
  /\ Goto(p, "finalizing", "finalized")
  /\ SetState(cmd[p], "applied")
  /\ UNCHANGED <<files, bundle, journal, lock, counters>>

------------------------------------------------------------------------------
(* A process dies, or an exception leaves the command after `prepared`.      *)
Crash(p) ==
  /\ crashes < MaxCrashes
  /\ pc[p] \in CrashPoints
  /\ crashes' = crashes + 1
  /\ Leave(p)
  /\ UNCHANGED <<files, bundle, pstate, journal, lock, edits>>

ApplyStep(p) ==
  \/ CreateLock(p) \/ RefuseLock(p) \/ WriteLock(p) \/ Revalidate(p) \/ AbortApply(p)
  \/ WritePrepared(p) \/ MarkApplying(p) \/ ReplaceContent(p) \/ ReplaceManifest(p)
  \/ VerifyApplied(p) \/ MarkCommitted(p) \/ MarkApplied(p)
  \/ ReleaseLock(p)

RecoverStep(p) ==
  \/ WriteRecoveryJournal(p) \/ RestoreManifest(p) \/ RestoreContent(p)
  \/ VerifyRestored(p) \/ MarkRecovered(p) \/ FinalizeApplied(p)

Step(p) == ApplyStep(p) \/ RecoverStep(p)
Recover(p) == \E c \in Campaigns : CheckRecover(p, c)

Next ==
  \/ \E c \in Campaigns : StartCampaign(c) \/ FinishCampaign(c)
  \/ \E a \in Artifacts : OwnerEdit(a)
  \/ \E p \in Procs, c \in Campaigns : CheckApply(p, c)
  \/ \E p \in Procs : Recover(p) \/ Step(p) \/ Crash(p)

Spec == Init /\ [][Next]_vars

(* A live command runs on to its end, so the operator is again and again able *)
(* to recover what a dead one left, and does.                                *)
FairSpec ==
  /\ Spec
  /\ \A p \in Procs : WF_vars(Step(p))
  /\ SF_vars(\E p \in Procs : Recover(p))

------------------------------------------------------------------------------
(* Safety.                                                                  *)

(* A promotion that was journaled as committed is never rolled back: the     *)
(* manifest never again shows the version its campaign started from          *)
(* (external_promotion.py:1020-1039 finalizes, and never restores).          *)
CommittedSurvives ==
  \A c \in Campaigns : journal[c] = "committed" =>
    manifest[Target[c]] > bundle[c].manifest[Target[c]]

(* Whatever write a process dies after, load_campaign_profile still reads    *)
(* the profile: a manifest row never precedes its file, and recovery, which  *)
(* loads the profile before it restores anything, can always start.          *)
AlwaysLoadable == Loadable(disk)

(* At most one live command is between taking apply.lock and giving it up, and *)
(* while it writes apply.lock names its campaign, so that a death at any write *)
(* leaves behind the name of what must be recovered.                          *)
Holding(p) == pc[p] \notin {"idle", "checked"}
MutualExclusion ==
  /\ \A p, q \in Procs : Holding(p) /\ Holding(q) => p = q
  /\ \A p \in Procs : Holding(p) /\ pc[p] # "creating" => LockNames(cmd[p])

(* Campaign state, journal and profile agree whenever no transaction is open: *)
(* applied exactly when committed, and never left "applying".                 *)
StateMatchesJournal ==
  lock = NoLock => \A c \in Campaigns :
    /\ pstate[c] = "applied" <=> journal[c] = "committed"
    /\ pstate[c] # "applying"

(* The profile an operator may rely on: once a transaction is validated       *)
(* behind its lock, what its journal says; otherwise the files.              *)
InEffect ==
  IF lock = NoLock THEN disk
  ELSE IF lock.names = Nobody \/ \E p \in Procs : pc[p] = "locked" THEN disk
  ELSE IF journal[lock.names] = "committed" THEN Promote(bundle[lock.names], lock.names)
  ELSE bundle[lock.names]

Committed == {c \in Campaigns : journal[c] = "committed"}

Atomic == INSTANCE AtomicPromotion
            WITH profile <- InEffect, parent <- bundle, promoted <- Committed

(* `kpo promote` implements the atomic promotion.                            *)
ImplementsAtomic == Atomic!Spec

(* A lock left by a dead command is cleared by recovery.                     *)
StaleLockCleared ==
  (lock # NoLock /\ AllIdle) ~> (lock = NoLock)
==============================================================================
