-------------------------- MODULE CurriculumGrowth --------------------------
(***************************************************************************)
(* kpo.dataset's frozen holdout and journaled growth, and the commands of   *)
(* kpo.curriculum that use it under the series lock.  Commands are           *)
(* processes; every durable write is an action, and a command may be killed *)
(* or interrupted by an exception at a program point of CrashPoints.         *)
(* The manifest is its set of rows, so that a digest of its bytes is the     *)
(* set itself and a plan or a growth is identified by its contents.          *)
(***************************************************************************)
EXTENDS CurriculumSelection

CONSTANTS Procs,
          Seeds,      \* the rows of the manifest at first
          Inboxes,    \* what the owner may put into the inbox
          Reports,    \* entries campaigns may append to the series
          Additions,  \* rows the owner may add with `dataset grow`
          NoLock, NoHoldout, NoPlan, Dead,
          Liberties,  \* what the owner does although nothing says one may
          CrashPoints, MaxCrashes, MaxEntries

VARIABLES manifest,  \* the dataset manifest
          frozen,    \* holdout-lock.json
          inbox,     \* the candidate inbox
          series,    \* entries and status of the series: what its state digest covers
          lock,      \* the series lock
          previews,  \* curriculum/previews
          journal,   \* journals/growth-*.json
          pc, mem,   \* where every command is, and what it holds
          crashes    \* stops so far, and whether one was at Between

disk == <<manifest, frozen, inbox, series, previews, journal>>
vars == <<manifest, frozen, inbox, series, lock, previews, journal, pc, mem, crashes>>

Row(c) == [case |-> c, part |-> "train"]
Rows == [case : Cases, part : {"train", "holdout"}]
CasesOf(m) == {r.case : r \in m}
Holdout(m) == {r \in m : r.part = "holdout"}

(* load_generalization_manifest: no content shared with an untouched case.    *)
Uncontaminated(m) == \A r \in m, u \in Untouched : Text[r.case] # Text[u]
(* load_dataset: no case and no content twice.                                *)
Valid(m) ==
  /\ \A r, s \in m : Text[r.case] = Text[s.case] => r = s
  /\ Uncontaminated(m)
Growth(from, to) == [from |-> from, to |-> to]
PlanOf(s, i, from, to) == [series |-> s, inbox |-> i, growth |-> Growth(from, to)]

Mutations == {"preview", "apply"}   \* the operations of series_mutation here
Locked == {"previewing", "applying", "planned"}
Growing == {"checked", "prepared", "replaced"}
Repairing == {"recovering", "examined", "restoring", "restored", "unlocking", "reconciling"}
Between == {"prepared", "restored"}  \* journal `prepared`, manifest still or again the original
Points == {"idle", "opened", "done", "growing"} \cup Locked \cup Growing \cup Repairing

Series == [entries : Seq(Reports), status : {"active", "stopped"}]
Growths == [from : SUBSET Rows, to : SUBSET Rows]
Plans == [series : Series, inbox : Inboxes, growth : Growths]
Locks == [op : Mutations, plan : Plans \cup {NoPlan}, initial : Series, owner : Procs \cup {Dead}]

(* "overlap": a growth beside another command; "blind": a rollback without    *)
(* looking at the manifest; "contend": two repairs of one stale lock.  A file  *)
(* that is absent differs from every content.                                *)
ASSUME GrowthAssumption ==
  /\ Seeds \subseteq Rows /\ Valid(Seeds) /\ Holdout(Seeds) # {}
  /\ Additions \subseteq Rows /\ Inboxes \subseteq SUBSET Cases
  /\ MaxCrashes \in Nat /\ MaxEntries \in Nat /\ Dead \notin Procs
  /\ NoLock \notin Locks /\ \A m \in SUBSET Rows : m # NoHoldout
  /\ Liberties \subseteq {"overlap", "blind", "contend"}

TypeOK ==
  /\ manifest \subseteq Rows
  /\ frozen = NoHoldout \/ frozen \subseteq Rows
  /\ inbox \in Inboxes /\ series \in Series
  /\ previews \subseteq Plans
  /\ lock \in Locks \cup {NoLock}
  /\ \A g \in DOMAIN journal : journal[g] \in {"prepared", "committed", "rolled_back"}
  /\ pc \in [Procs -> Points]
  /\ crashes \in [stops : 0..MaxCrashes, between : BOOLEAN]

NoMem == [op |-> "none", loaded |-> {}, initial |-> [entries |-> <<>>, status |-> "active"],
          plan |-> NoPlan, growth |-> Growth({}, {})]

Init ==
  /\ manifest = Seeds /\ frozen = NoHoldout /\ inbox \in Inboxes
  /\ series = [entries |-> <<>>, status |-> "active"]
  /\ lock = NoLock /\ previews = {} /\ journal = <<>>
  /\ pc = [p \in Procs |-> "idle"] /\ mem = [p \in Procs |-> NoMem]
  /\ crashes = [stops |-> 0, between |-> FALSE]

(* A command that ends takes its memory with it.                              *)
Goto(p, l) == /\ pc' = [pc EXCEPT ![p] = l]
              /\ mem' = IF l = "idle" THEN [mem EXCEPT ![p] = NoMem] ELSE mem
Stay == UNCHANGED <<disk, lock, crashes>>

-----------------------------------------------------------------------------
(* Mutant: new rows of any partition.                                        *)
GrowableAnyPartition(from, to) == from \subseteq to /\ from # to /\ Valid(to)

(* preview_growth, with the loader's checks of the proposal.                  *)
Growable(from, to) ==
  /\ Holdout(from) = frozen /\ Holdout(to) = frozen
  /\ from \subseteq to /\ from # to
  /\ Valid(to)

(* The plan that _compute_curriculum finds for the profile loaded as `loaded`. *)
Proposed(i, m) == m \cup {Row(c) : c \in i}
Proposal(s) == Proposed(Selection(inbox, series.entries[s].counts), manifest)
Computed(loaded) ==
  {PlanOf(series, inbox, manifest, Proposal(s)) :
     s \in {i \in Signals(series.entries) :
              /\ series.status = "active"
              /\ Eligible(inbox, CasesOf(loaded))
              /\ manifest = loaded
              /\ Growable(manifest, Proposal(i))}}

(* A command loads the profile, and with it the manifest, before anything;    *)
(* only the commands that take the series lock come back to what they loaded. *)
Busy(q) == pc[q] # "idle"
Alone(p) == \/ "overlap" \in Liberties
            \/ \A q \in Procs \ {p} : ~Busy(q) \/ mem[q].op \in Mutations \cup {"recover"}
Loading(op, plan, growth) ==
  [op |-> op, plan |-> plan, growth |-> growth,
   loaded |-> IF op \in Mutations THEN manifest ELSE {},
   initial |-> IF op \in Mutations THEN series ELSE NoMem.initial]
Load(p, op, plan, growth, l) ==
  /\ pc[p] = "idle" /\ Alone(p)
  /\ mem' = [mem EXCEPT ![p] = Loading(op, plan, growth)]
  /\ pc' = [pc EXCEPT ![p] = l]
  /\ UNCHANGED <<disk, lock, crashes>>

OpenPreview(p) == Load(p, "preview", NoPlan, NoMem.growth, "opened")
OpenApply(p) == \E x \in previews : Load(p, "apply", x, x.growth, "opened")
OpenGrow(p) ==
  /\ "overlap" \in Liberties \/ \A q \in Procs : ~Busy(q)
  /\ \E r \in Additions :
       /\ Growable(manifest, manifest \cup {r})
       /\ Load(p, "grow", NoPlan, Growth(manifest, manifest \cup {r}), "growing")

(* Mutant: the lock freezes case ids instead of rows.                         *)
InitializeIds ==
  /\ frozen = NoHoldout
  /\ frozen' = CasesOf(Holdout(manifest))
  /\ UNCHANGED <<manifest, inbox, series, lock, previews, journal, pc, mem, crashes>>

(* initialize_campaign_dataset.                                               *)
InitializeHoldout ==
  /\ frozen = NoHoldout
  /\ frozen' = Holdout(manifest)
  /\ UNCHANGED <<manifest, inbox, series, lock, previews, journal, pc, mem, crashes>>

-----------------------------------------------------------------------------
(* Mutant: a lock that does not exclude.                                      *)
LockShared(p) ==
  /\ pc[p] = "opened"
  /\ lock' = [op |-> mem[p].op, plan |-> mem[p].plan, initial |-> mem[p].initial, owner |-> p]
  /\ Goto(p, IF mem[p].op = "preview" THEN "previewing" ELSE "applying")
  /\ UNCHANGED <<disk, crashes>>

(* series_mutation around preview and apply.                                  *)
Lock(p) ==
  /\ pc[p] = "opened"
  /\ IF lock = NoLock
     THEN /\ lock' = [op |-> mem[p].op, plan |-> mem[p].plan,
                      initial |-> mem[p].initial, owner |-> p]
          /\ Goto(p, IF mem[p].op = "preview" THEN "previewing" ELSE "applying")
     ELSE lock' = lock /\ Goto(p, "idle")
  /\ UNCHANGED <<disk, crashes>>

Unlock(p) ==
  /\ pc[p] = "done"
  /\ lock' = IF mem[p].op \in Mutations THEN NoLock ELSE lock
  /\ Goto(p, "idle")
  /\ UNCHANGED <<disk, crashes>>

Preview(p) ==
  /\ pc[p] = "previewing"
  /\ previews' = IF series = mem[p].initial THEN previews \cup Computed(mem[p].loaded)
                 ELSE previews
  /\ Goto(p, "done")
  /\ UNCHANGED <<manifest, frozen, inbox, series, lock, journal, crashes>>

Recompute(p) ==
  /\ pc[p] = "applying"
  /\ Goto(p, IF series = mem[p].initial /\ Computed(mem[p].loaded) = {mem[p].plan}
             THEN "planned" ELSE "done")
  /\ Stay

(* DatasetManager.apply_growth: stale check and snapshot, then three writes.  *)
Check(p) ==
  /\ pc[p] \in {"planned", "growing"}
  /\ Goto(p, IF manifest = mem[p].growth.from THEN "checked" ELSE "done")
  /\ Stay

Record(p, g, state) == journal' = [h \in DOMAIN journal \cup {g} |->
                                     IF h = g THEN state ELSE journal[h]]
Prepare(p) ==
  /\ pc[p] = "checked"
  /\ Record(p, mem[p].growth, "prepared")
  /\ Goto(p, "prepared")
  /\ UNCHANGED <<manifest, frozen, inbox, series, lock, previews, crashes>>
Replace(p) ==
  /\ pc[p] = "prepared"
  /\ manifest' = mem[p].growth.to
  /\ Goto(p, "replaced")
  /\ UNCHANGED <<frozen, inbox, series, lock, previews, journal, crashes>>
Commit(p) ==
  /\ pc[p] = "replaced"
  /\ Record(p, mem[p].growth, "committed")
  /\ Goto(p, "done")
  /\ UNCHANGED <<manifest, frozen, inbox, series, lock, previews, crashes>>

-----------------------------------------------------------------------------
(* recover_curriculum: the lock and the series, then manifest and journal.    *)
Stopped(s) == [s EXCEPT !.status = "stopped"]
Matching(x) ==
  /\ lock # NoLock
  /\ lock.op = "apply" /\ lock.plan = x /\ lock.owner = Dead
  /\ lock.initial = x.series
  /\ series \in {x.series, Stopped(x.series)}
NobodyRepairs == "contend" \in Liberties \/ \A q \in Procs : pc[q] \notin Repairing

OpenRecover(p) ==
  /\ NobodyRepairs
  /\ \E x \in previews : Load(p, "recover", x, x.growth, "recovering")
FindLock(p) ==
  /\ pc[p] = "recovering"
  /\ Goto(p, IF Matching(mem[p].plan) THEN "examined" ELSE "idle")
  /\ Stay

StateOf(g) == IF g \in DOMAIN journal THEN journal[g] ELSE "absent"
(* Mutants: without the manifest; a journal is expected; without either.       *)
ExamineJournalOnly(p) ==
  /\ pc[p] = "examined"
  /\ Goto(p, IF StateOf(mem[p].growth) = "prepared" THEN "restoring" ELSE "unlocking")
  /\ Stay
ExamineJournaled(p) ==
  LET g == mem[p].growth IN
  /\ pc[p] = "examined"
  /\ Goto(p, CASE StateOf(g) = "prepared" /\ manifest = g.to -> "restoring"
               [] StateOf(g) = "committed" /\ manifest = g.to -> "unlocking"
               [] StateOf(g) = "rolled_back" /\ manifest = g.from -> "unlocking"
               [] OTHER -> "idle")
  /\ Stay
ExamineLockOnly(p) == pc[p] = "examined" /\ Goto(p, "unlocking") /\ Stay

Examine(p) ==
  LET g == mem[p].growth IN
  /\ pc[p] = "examined"
  /\ Goto(p, CASE StateOf(g) = "prepared" /\ manifest = g.to -> "restoring"
               [] StateOf(g) = "committed" /\ manifest = g.to -> "unlocking"
               [] StateOf(g) \in {"absent", "rolled_back"} /\ manifest = g.from -> "unlocking"
               [] OTHER -> "idle")
  /\ Stay

(* DatasetManager.recover_growth, also called directly by the owner: for one   *)
(* the "manual recovery" where Examine refuses a growth that was not written.  *)
OpenRollback(p) ==
  /\ NobodyRepairs
  /\ "overlap" \in Liberties \/ \A q \in Procs : ~Busy(q)
  /\ \E g \in DOMAIN journal :
       /\ "blind" \in Liberties \/ manifest \in {g.from, g.to}
       /\ Load(p, "rollback", NoPlan, g, "restoring")
Restore(p) ==
  LET g == mem[p].growth IN
  /\ pc[p] = "restoring"
  /\ IF StateOf(g) = "prepared"
     THEN manifest' = g.from /\ Goto(p, "restored")
     ELSE manifest' = manifest /\ Goto(p, "idle")
  /\ UNCHANGED <<frozen, inbox, series, lock, previews, journal, crashes>>
RolledBack(p) ==
  /\ pc[p] = "restored"
  /\ Record(p, mem[p].growth, "rolled_back")
  /\ Goto(p, IF mem[p].op = "recover" /\ manifest = mem[p].growth.from THEN "unlocking" ELSE "idle")
  /\ UNCHANGED <<manifest, frozen, inbox, series, lock, previews, crashes>>
RemoveLock(p) ==
  /\ pc[p] = "unlocking"
  /\ lock' = NoLock
  /\ Goto(p, "idle")
  /\ UNCHANGED <<disk, crashes>>

(* _recover_stale_series_lock: a dead preview's lock goes if the series has   *)
(* not moved; a dead apply's lock is never its business.                     *)
OpenReconcile(p) ==
  /\ NobodyRepairs
  /\ lock # NoLock /\ lock.op = "preview" /\ lock.owner = Dead /\ series = lock.initial
  /\ Load(p, "recover", NoPlan, NoMem.growth, "reconciling")
Reconcile(p) ==
  /\ pc[p] = "reconciling"
  /\ lock' = NoLock
  /\ Goto(p, "idle")
  /\ UNCHANGED <<disk, crashes>>

-----------------------------------------------------------------------------
(* The rest of the system: a campaign appends its entry, the owner stops the  *)
(* series (both under its lock) or edits the inbox.                          *)
Append1(e) == [series EXCEPT !.entries = Append(@, e)]
Advance ==
  /\ lock = NoLock /\ series.status = "active" /\ Len(series.entries) < MaxEntries
  /\ \E e \in Reports : series' = Append1(e)
  /\ UNCHANGED <<manifest, frozen, inbox, lock, previews, journal, pc, mem, crashes>>
StopSeries ==
  /\ lock = NoLock /\ series.status = "active" /\ series' = Stopped(series)
  /\ UNCHANGED <<manifest, frozen, inbox, lock, previews, journal, pc, mem, crashes>>
EditInbox ==
  /\ inbox' \in Inboxes \ {inbox}
  /\ UNCHANGED <<manifest, frozen, series, lock, previews, journal, pc, mem, crashes>>

(* An exception leaves series_mutation through its `finally`; a kill does not. *)
Stop(p) ==
  /\ crashes.stops < MaxCrashes
  /\ crashes' = [stops |-> crashes.stops + 1, between |-> crashes.between \/ pc[p] \in Between]
Interrupt(p) ==
  /\ Stop(p) /\ pc[p] \in CrashPoints \cap (Locked \cup Growing)
  /\ Goto(p, "done")
  /\ UNCHANGED <<disk, lock>>
Kill(p) ==
  /\ Stop(p) /\ pc[p] \in CrashPoints
  /\ Goto(p, "idle")
  /\ lock' = IF lock # NoLock /\ lock.owner = p THEN [lock EXCEPT !.owner = Dead] ELSE lock
  /\ UNCHANGED disk

Step(p) ==
  \/ Lock(p) \/ Unlock(p) \/ Preview(p) \/ Recompute(p) \/ Check(p) \/ Prepare(p)
  \/ Replace(p) \/ Commit(p) \/ FindLock(p) \/ Examine(p) \/ Restore(p)
  \/ RolledBack(p) \/ RemoveLock(p) \/ Reconcile(p)
Open(p) ==
  \/ OpenPreview(p) \/ OpenApply(p) \/ OpenGrow(p) \/ OpenRecover(p) \/ OpenRollback(p)
  \/ OpenReconcile(p)
Next ==
  \/ InitializeHoldout \/ Advance \/ StopSeries \/ EditInbox
  \/ \E p \in Procs : Step(p) \/ Open(p) \/ Interrupt(p) \/ Kill(p)

Spec == Init /\ [][Next]_vars
(* Commands run on.  An owner who sees a dead apply's lock recovers its plan,  *)
(* or where recovery refuses its growth rolls it back by hand.                *)
DeadApply == lock # NoLock /\ lock.op = "apply" /\ lock.owner = Dead
Refused(g) == StateOf(g) = "prepared" /\ manifest = g.from
Mend(p) ==
  /\ DeadApply
  /\ LET g == lock.plan.growth
     IN  IF Refused(g) THEN OpenRollback(p) /\ mem'[p].growth = g
         ELSE OpenRecover(p) /\ mem'[p].plan = lock.plan
FairSpec == /\ Spec /\ \A p \in Procs : WF_vars(Step(p))
            /\ SF_vars(\E p \in Procs : Mend(p))

-----------------------------------------------------------------------------
(* What a committed growth has added stays in the manifest: neither a         *)
(* recovery's snapshot nor a later growth takes it out again, unless a command *)
(* stopped with its growth journaled and not, or no longer, in the manifest:   *)
(* such an entry stays `prepared` and may be rolled back much later.          *)
CommittedKept ==
  ~crashes.between =>
    \A g \in DOMAIN journal : journal[g] = "committed" => g.to \subseteq manifest

(* Whatever is applied, recovered or interrupted, the manifest never holds an *)
(* untouched case or one content twice, and its holdout is the frozen one.   *)
Isolated == Valid(manifest) /\ (frozen # NoHoldout => Holdout(manifest) = frozen)

(* A curriculum changes the manifest only under its own lock and while the    *)
(* series is the one its approved plan was computed for.                     *)
ApprovedInSeries ==
  [][\A p \in Procs :
       mem[p].op = "apply" /\ pc[p] = "prepared" /\ pc'[p] = "replaced" =>
         /\ lock # NoLock /\ lock.owner = p
         /\ series = mem[p].plan.series /\ series.status = "active"]_vars

(* The lock of a dead apply goes only once its growth is settled: committed   *)
(* and in the manifest, or without a trace in it.                            *)
ClearedSettled ==
  [][DeadApply /\ lock' = NoLock =>
       LET g == lock.plan.growth IN
       \/ StateOf(g) = "committed" /\ g.to \subseteq manifest
       \/ StateOf(g) \in {"absent", "rolled_back"} /\ manifest = g.from]_vars

(* The lock of a dead apply whose plan fits the series, over the manifest it   *)
(* found or the one it proposed, goes, wherever the apply and the recoveries   *)
(* died, if commands pause now and then: recover_curriculum clears it, or, as *)
(* it refuses a `prepared` journal over the original manifest                 *)
(* (curriculum.py:1144; docs/specs/0011 section 9 says it rolls it back), does *)
(* so once the owner has rolled the growth back by hand.                      *)
Recoverable == /\ DeadApply /\ Matching(lock.plan)
               /\ manifest \in {lock.plan.growth.from, lock.plan.growth.to}
Pause == \A p \in Procs : ~Busy(p)
LockCleared == []<>Pause => (Recoverable ~> ~Recoverable)
=============================================================================
