----------------------- MODULE CurriculumGrowthProofs -----------------------
(***************************************************************************)
(* Proofs about CurriculumGrowth, for any number of commands and deaths, any *)
(* inboxes, reports and additions.                                          *)
(***************************************************************************)
EXTENDS CurriculumGrowth, FoldLemmas

Ops == {"none", "preview", "apply", "grow", "recover", "rollback"}
Memories == [op : Ops, loaded : SUBSET Rows, initial : Series, plan : Plans \cup {NoPlan},
             growth : Growths]

(* The points of a recovery that goes by a plan, and what a command at point  *)
(* l has in its memory m.                                                    *)
ByPlan == {"recovering", "examined", "unlocking"}
Undoing == {"restoring", "restored"}
OpFits(l, m) ==
  /\ l = "opened" => m.op \in Mutations
  /\ l = "previewing" => m.op = "preview"
  /\ l \in {"applying", "planned"} => m.op = "apply"
  /\ l = "growing" => m.op = "grow"
  /\ l \in Growing => m.op \in {"apply", "grow"}
  /\ l \in ByPlan \cup {"reconciling"} => m.op = "recover"
  /\ l \in Undoing => m.op \in {"recover", "rollback"}
PlanFits(l, m) ==
  m.op = "apply" \/ (m.op = "recover" /\ l # "reconciling") =>
    m.plan \in Plans /\ m.growth = m.plan.growth

FilesTyped ==
  /\ manifest \in SUBSET Rows
  /\ frozen = NoHoldout \/ frozen \subseteq Rows
  /\ inbox \in Inboxes /\ series \in Series
  /\ previews \subseteq Plans
  /\ lock \in Locks \cup {NoLock}
  /\ DOMAIN journal \subseteq Growths
  /\ \A g \in DOMAIN journal : journal[g] \in {"prepared", "committed", "rolled_back"}
  /\ crashes \in [stops : 0..MaxCrashes, between : BOOLEAN]
CommandTyped ==
  /\ pc \in [Procs -> Points] /\ mem \in [Procs -> Memories]
  /\ \A p \in Procs : OpFits(pc[p], mem[p]) /\ PlanFits(pc[p], mem[p])
TypeInv == FilesTyped /\ CommandTyped

-----------------------------------------------------------------------------
(* select_curriculum: what it takes is in the inbox.                          *)
LEMMA SelectionTaken ==
  ASSUME NEW i, NEW counts
  PROVE  Selection(i, counts) \subseteq i
<1> DEFINE More(C) == C \cup {c \in i \ C : \A d \in (i \ C) \ {c} : Before(c, d, C, counts)}
           Eq(f) == f = [n \in 0..MaxSelection |-> IF n = 0 THEN {} ELSE More(f[n - 1])]
           s == [C \in SUBSET i |-> More(C)]
           chosen == CHOOSE f : Eq(f)
<1>0. MaxSelection \in Nat
  BY SelectionAssumption
<1>1. \A C \in SUBSET i : More(C) \in SUBSET i
  OBVIOUS
<1>2. \E f : Eq(f)
  <2>1. s \in [SUBSET i -> SUBSET i] /\ \A C \in SUBSET i : s[C] = More(C)
    <3> HIDE DEF More
    <3>. QED
      BY <1>1
  <2>2. {} \in SUBSET i
    OBVIOUS
  <2> HIDE DEF s, More
  <2>3. PICK f \in [0..MaxSelection -> SUBSET i] : Iterates(f, {}, s, MaxSelection)
    BY <2>1, <2>2, <1>0, IterationExists, Zenon
  <2>4. \A n \in 0..MaxSelection : n # 0 => f[n - 1] \in SUBSET i
    BY <1>0
  <2>5. f = [n \in 0..MaxSelection |-> IF n = 0 THEN {} ELSE More(f[n - 1])]
    BY <2>1, <2>3, <2>4 DEF Iterates
  <2>. QED
    BY <2>5
<1>3. Eq(chosen)
  BY <1>2
<1>4. Selection(i, counts) = chosen[MaxSelection]
  BY DEF Selection
<1> HIDE DEF chosen, More
<1> DEFINE Good == {n \in Nat : n <= MaxSelection => chosen[n] \in SUBSET i}
<1>5. 0 \in Good
  BY <1>3, <1>0
<1>6. ASSUME NEW n \in Nat, n \in Good PROVE n + 1 \in Good
  <2> SUFFICES ASSUME n + 1 <= MaxSelection PROVE chosen[n + 1] \in SUBSET i
    OBVIOUS
  <2>1. n + 1 # 0 /\ (n + 1) - 1 = n /\ n + 1 \in 0..MaxSelection /\ chosen[n] \in SUBSET i
    BY <1>0, <1>6
  <2>2. chosen[n + 1] = More(chosen[n])
    BY <1>3, <2>1
  <2>. QED
    BY <2>1, <2>2, <1>1
<1>7. MaxSelection \in Good
  <2> HIDE DEF Good
  <2>. QED
    BY <1>0, <1>5, <1>6, NatInSet
<1>. QED
  BY <1>0, <1>4, <1>7
-----------------------------------------------------------------------------
(* How a step moves a command.                                               *)
Others(p) == \A q \in Procs : q # p => pc'[q] = pc[q] /\ mem'[q] = mem[q]
Moved(p, l, m) ==
  /\ pc' \in [Procs -> Points] /\ mem' \in [Procs -> Memories]
  /\ pc'[p] = l /\ mem'[p] = m /\ Others(p)
Left(l, m) == IF l = "idle" THEN NoMem ELSE m

LEMMA NoMemTyped == NoMem \in Memories /\ NoMem.op = "none" /\ NoMem.growth \in Growths
<1>1. <<>> \in Seq(Reports)
  OBVIOUS
<1>2. NoMem.initial \in Series
  BY <1>1 DEF NoMem, Series
<1>3. NoMem.growth \in Growths
  BY DEF NoMem, Growths, Growth
<1>. QED
  BY <1>2, <1>3 DEF NoMem, Memories, Ops

LEMMA GotoEffect ==
  ASSUME CommandTyped, NEW p \in Procs, NEW l \in Points, Goto(p, l)
  PROVE  Moved(p, l, Left(l, mem[p]))
BY NoMemTyped DEF CommandTyped, Goto, Moved, Left, Others

LEMMA LoadEffect ==
  ASSUME CommandTyped, FilesTyped, NEW p \in Procs, NEW l \in Points, NEW op \in Ops,
         NEW plan \in Plans \cup {NoPlan}, NEW growth \in Growths,
         Load(p, op, plan, growth, l)
  PROVE  Moved(p, l, Loading(op, plan, growth))
<1>1. Loading(op, plan, growth) \in Memories
  BY NoMemTyped DEF Loading, Memories, FilesTyped
<1>. QED
  BY <1>1 DEF CommandTyped, Load, Moved, Others

(* What a command that has moved must be found to fit.                        *)
LEMMA CommandMoved ==
  ASSUME CommandTyped, NEW p \in Procs, NEW l, NEW m, Moved(p, l, m),
         OpFits(l, m), PlanFits(l, m)
  PROVE  CommandTyped'
BY DEF CommandTyped, Moved, Others

-----------------------------------------------------------------------------
(* Every step of a command keeps what it has fitting to where it is.          *)
LEMMA GotoFits ==
  ASSUME CommandTyped, NEW p \in Procs, NEW l \in Points, Goto(p, l),
         l # "idle" => OpFits(l, mem[p]) /\ PlanFits(l, mem[p])
  PROVE  CommandTyped'
<1>1. Moved(p, l, Left(l, mem[p]))
  BY GotoEffect
<1>2. CASE l = "idle"
  <2>1. Left(l, mem[p]) = NoMem
    BY <1>2 DEF Left
  <2>2. OpFits(l, NoMem) /\ PlanFits(l, NoMem)
    BY <1>2, NoMemTyped DEF OpFits, PlanFits, Growing, ByPlan, Undoing
  <2>. QED
    BY <1>1, <2>1, <2>2, CommandMoved
<1>3. CASE l # "idle"
  BY <1>1, <1>3, CommandMoved DEF Left
<1>. QED
  BY <1>2, <1>3

LEMMA LoadFits ==
  ASSUME CommandTyped, FilesTyped, NEW p \in Procs, NEW l \in Points, NEW op \in Ops,
         NEW plan \in Plans \cup {NoPlan}, NEW growth \in Growths,
         Load(p, op, plan, growth, l),
         OpFits(l, Loading(op, plan, growth)), PlanFits(l, Loading(op, plan, growth))
  PROVE  CommandTyped'
BY LoadEffect, CommandMoved

Unmoved == UNCHANGED <<pc, mem>>
LEMMA CommandUnmoved == CommandTyped /\ Unmoved => CommandTyped'
BY DEF CommandTyped, Unmoved

LEMMA OpenTyped ==
  ASSUME TypeInv, NEW p \in Procs, Open(p)
  PROVE  CommandTyped'
<1>. USE DEF TypeInv
<1>a. NoMem.growth \in Growths /\ \A x \in Plans : x.growth \in Growths
  BY NoMemTyped DEF Plans
<1>b. \A op, plan, growth : /\ Loading(op, plan, growth).op = op
                            /\ Loading(op, plan, growth).plan = plan
                            /\ Loading(op, plan, growth).growth = growth
  BY DEF Loading
<1>c. DOMAIN journal \subseteq Growths
  BY DEF FilesTyped
<1>1. CASE OpenPreview(p)
  <2>1. Load(p, "preview", NoPlan, NoMem.growth, "opened")
    BY <1>1 DEF OpenPreview
  <2>2. PICK m : m = Loading("preview", NoPlan, NoMem.growth)
    OBVIOUS
  <2>3. OpFits("opened", m) /\ PlanFits("opened", m)
    BY <2>2, <1>b DEF OpFits, PlanFits, Mutations, Growing, ByPlan, Undoing
  <2>4. "preview" \in Ops /\ "opened" \in Points
    BY DEF Ops, Points
  <2>. QED
    BY <2>1, <2>2, <2>3, <2>4, <1>a, LoadFits
<1>2. CASE OpenApply(p)
  <2>1. PICK x \in previews : Load(p, "apply", x, x.growth, "opened")
    BY <1>2 DEF OpenApply
  <2>2. x \in Plans
    BY DEF FilesTyped
  <2>. QED
    BY <2>1, <2>2, <1>a, <1>b, LoadFits DEF OpFits, PlanFits, Ops, Points, Mutations,
       Growing, ByPlan, Undoing
<1>3. CASE OpenGrow(p)
  <2>1. PICK r \in Additions : Load(p, "grow", NoPlan, Growth(manifest, manifest \cup {r}), "growing")
    BY <1>3 DEF OpenGrow
  <2>2. Growth(manifest, manifest \cup {r}) \in Growths
    BY GrowthAssumption DEF FilesTyped, Growth, Growths
  <2>. QED
    BY <2>1, <2>2, <1>b, LoadFits DEF OpFits, PlanFits, Ops, Points, Mutations,
       Growing, ByPlan, Undoing
<1>4. CASE OpenRecover(p)
  <2>1. PICK x \in previews : Load(p, "recover", x, x.growth, "recovering")
    BY <1>4 DEF OpenRecover
  <2>2. x \in Plans
    BY DEF FilesTyped
  <2>. QED
    BY <2>1, <2>2, <1>a, <1>b, LoadFits DEF OpFits, PlanFits, Ops, Points, Mutations,
       Growing, ByPlan, Undoing, Repairing
<1>5. CASE OpenRollback(p)
  <2>1. PICK g \in DOMAIN journal : Load(p, "rollback", NoPlan, g, "restoring")
    BY <1>5 DEF OpenRollback
  <2>2. g \in Growths
    BY <1>c
  <2>3. PICK m : m = Loading("rollback", NoPlan, g)
    OBVIOUS
  <2>4. OpFits("restoring", m) /\ PlanFits("restoring", m)
    BY <2>3, <1>b DEF OpFits, PlanFits, Growing, ByPlan, Undoing
  <2>5. "rollback" \in Ops /\ "restoring" \in Points
    BY DEF Ops, Points, Repairing
  <2>. QED
    BY <2>1, <2>2, <2>3, <2>4, <2>5, LoadFits
<1>6. CASE OpenReconcile(p)
  <2>1. Load(p, "recover", NoPlan, NoMem.growth, "reconciling")
    BY <1>6 DEF OpenReconcile
  <2>. QED
    BY <2>1, <1>a, <1>b, LoadFits DEF OpFits, PlanFits, Ops, Points, Mutations,
       Growing, ByPlan, Undoing, Repairing
<1>. QED
  BY <1>1, <1>2, <1>3, <1>4, <1>5, <1>6 DEF Open

LEMMA StepTyped ==
  ASSUME TypeInv, NEW p \in Procs, Step(p)
  PROVE  CommandTyped'
<1>. USE DEF TypeInv
<1>a. OpFits(pc[p], mem[p]) /\ PlanFits(pc[p], mem[p]) /\ CommandTyped
  BY DEF CommandTyped
<1>b. ASSUME NEW l \in Points, Goto(p, l), pc[p] # "reconciling",
             l # "idle" => OpFits(l, mem[p])
      PROVE  CommandTyped'
  <2>1. l # "idle" => PlanFits(l, mem[p])
    BY <1>a, <1>b DEF PlanFits
  <2>. QED
    BY <1>a, <1>b, <2>1, GotoFits
<1>. USE DEF OpFits, Points, Mutations, Locked, Growing, Repairing, ByPlan, Undoing
<1>1. CASE Lock(p)
  BY <1>1, <1>a, <1>b DEF Lock
<1>2. CASE Unlock(p)
  BY <1>2, <1>a, <1>b DEF Unlock
<1>3. CASE Preview(p)
  BY <1>3, <1>a, <1>b DEF Preview
<1>4. CASE Recompute(p)
  BY <1>4, <1>a, <1>b DEF Recompute
<1>5. CASE Check(p)
  BY <1>5, <1>a, <1>b DEF Check
<1>6. CASE Prepare(p) \/ Replace(p) \/ Commit(p)
  BY <1>6, <1>a, <1>b DEF Prepare, Replace, Commit
<1>7. CASE FindLock(p)
  BY <1>7, <1>a, <1>b DEF FindLock
<1>8. CASE Examine(p)
  BY <1>8, <1>a, <1>b DEF Examine
<1>9. CASE Restore(p)
  BY <1>9, <1>a, <1>b DEF Restore
<1>10. CASE RolledBack(p)
  BY <1>10, <1>a, <1>b DEF RolledBack
<1>11. CASE RemoveLock(p)
  BY <1>11, <1>a, <1>b DEF RemoveLock
<1>12. CASE Reconcile(p)
  BY <1>12, <1>a, GotoFits DEF Reconcile
<1>. QED
  BY <1>1, <1>2, <1>3, <1>4, <1>5, <1>6, <1>7, <1>8, <1>9, <1>10, <1>11, <1>12 DEF Step

LEMMA StoppedTyped ==
  ASSUME TypeInv, NEW p \in Procs, Interrupt(p) \/ Kill(p)
  PROVE  CommandTyped'
<1>. USE DEF TypeInv
<1>1. CASE Interrupt(p)
  <2>1. OpFits("done", mem[p]) /\ PlanFits("done", mem[p])
    BY <1>1 DEF Interrupt, CommandTyped, OpFits, PlanFits, Growing, Locked, ByPlan, Undoing
  <2>. QED
    BY <1>1, <2>1, GotoFits DEF Interrupt, Points
<1>2. CASE Kill(p)
  BY <1>2, GotoFits DEF Kill, Points
<1>. QED
  BY <1>1, <1>2

-----------------------------------------------------------------------------
(* Every step keeps the files typed.  What a preview computes is a plan whose *)
(* growth preview_growth has accepted.                                       *)
LEMMA GrowthTyped ==
  ASSUME CommandTyped, NEW p \in Procs
  PROVE  /\ mem[p].growth \in Growths /\ mem[p].growth.from \in SUBSET Rows
         /\ mem[p].growth.to \in SUBSET Rows /\ mem[p].initial \in Series
         /\ mem[p].plan \in Plans \cup {NoPlan}
         /\ pc[p] \in Points
BY DEF CommandTyped, Memories, Growths

LEMMA ComputedPlans ==
  ASSUME FilesTyped, NEW m, NEW x \in Computed(m)
  PROVE  /\ x \in Plans
         /\ x.series = series /\ x.growth.from = manifest /\ series.status = "active"
         /\ Growable(x.growth.from, x.growth.to)
<1>1. PICK s \in Signals(series.entries) :
        /\ x = PlanOf(series, inbox, manifest, Proposal(s))
        /\ series.status = "active" /\ Growable(manifest, Proposal(s))
  BY DEF Computed
<1>2. inbox \subseteq Cases /\ inbox \in Inboxes
  BY GrowthAssumption DEF FilesTyped
<1>3. Proposal(s) \in SUBSET Rows
  <2>1. PICK t : t = Selection(inbox, series.entries[s].counts)
    OBVIOUS
  <2>2. t \subseteq Cases
    BY <2>1, <1>2, SelectionTaken
  <2>3. \A c \in t : Row(c) \in Rows
    BY <2>2 DEF Row, Rows
  <2>4. Proposal(s) = manifest \cup {Row(c) : c \in t}
    BY <2>1 DEF Proposal, Proposed
  <2>. QED
    BY <2>3, <2>4 DEF FilesTyped
<1>4. x = [series |-> series, inbox |-> inbox,
           growth |-> [from |-> manifest, to |-> Proposal(s)]]
  BY <1>1 DEF PlanOf, Growth
<1>. QED
  BY <1>1, <1>2, <1>3, <1>4 DEF Plans, Growths, FilesTyped

(* Recording a growth changes its entry of the journal and no other.          *)
JournalStates == {"prepared", "committed", "rolled_back"}
Recorded(g, s) ==
  /\ DOMAIN journal' = DOMAIN journal \cup {g}
  /\ journal'[g] = s
  /\ \A h \in DOMAIN journal : h # g => journal'[h] = journal[h]
LEMMA RecordEffect ==
  ASSUME NEW p, NEW g, NEW s, Record(p, g, s)
  PROVE  Recorded(g, s)
BY DEF Record, Recorded

LEMMA RecordTyped ==
  ASSUME FilesTyped, NEW g \in Growths, NEW s \in JournalStates, Recorded(g, s)
  PROVE  /\ DOMAIN journal' \subseteq Growths
         /\ \A h \in DOMAIN journal' : journal'[h] \in JournalStates
BY DEF FilesTyped, Recorded, JournalStates

LEMMA StopTyped ==
  ASSUME FilesTyped, NEW p \in Procs, Stop(p)
  PROVE  crashes' \in [stops : 0..MaxCrashes, between : BOOLEAN]
<1>1. crashes.stops \in 0..MaxCrashes /\ crashes.stops < MaxCrashes /\ MaxCrashes \in Nat
  BY GrowthAssumption DEF FilesTyped, Stop
<1>2. crashes.stops + 1 \in 0..MaxCrashes
  BY <1>1
<1>3. (crashes.between \/ pc[p] \in Between) \in BOOLEAN
  OBVIOUS
<1>. QED
  BY <1>2, <1>3 DEF Stop

LEMMA FilesStep ==
  ASSUME TypeInv, [Next]_vars
  PROVE  FilesTyped'
<1>. USE DEF TypeInv
<1>1. CASE UNCHANGED <<disk, lock, crashes>>
  BY <1>1 DEF FilesTyped, disk
<1>2. CASE InitializeHoldout
  BY <1>2 DEF InitializeHoldout, FilesTyped, Holdout
<1>3. CASE Advance
  <2>1. PICK e \in Reports : series' = Append1(e)
    BY <1>3 DEF Advance
  <2>2. series.entries \in Seq(Reports)
    BY DEF FilesTyped, Series
  <2>3. Append(series.entries, e) \in Seq(Reports)
    BY <2>2
  <2>4. series' = [series EXCEPT !.entries = Append(series.entries, e)]
    BY <2>1 DEF Append1
  <2>5. series' \in Series
    BY <2>3, <2>4 DEF FilesTyped, Series
  <2>. QED
    BY <1>3, <2>5 DEF Advance, FilesTyped
<1>4. CASE StopSeries
  BY <1>4 DEF StopSeries, Stopped, FilesTyped, Series
<1>5. CASE EditInbox
  BY <1>5 DEF EditInbox, FilesTyped
<1>6. ASSUME NEW p \in Procs, Lock(p) PROVE FilesTyped'
  <2>1. mem[p].op \in Mutations
    BY <1>6 DEF Lock, CommandTyped, OpFits
  <2>2. lock' \in Locks \cup {NoLock}
    BY <1>6, <2>1, GrowthTyped DEF Lock, Locks, FilesTyped
  <2>. QED
    BY <1>6, <2>2 DEF Lock, FilesTyped, disk
<1>7. ASSUME NEW p \in Procs, Unlock(p) \/ RemoveLock(p) \/ Reconcile(p) PROVE FilesTyped'
  BY <1>7 DEF Unlock, RemoveLock, Reconcile, FilesTyped, disk
<1>8. ASSUME NEW p \in Procs, Kill(p) PROVE FilesTyped'
  <2>1. lock' \in Locks \cup {NoLock}
    BY <1>8 DEF Kill, Locks, FilesTyped
  <2>2. crashes' \in [stops : 0..MaxCrashes, between : BOOLEAN]
    BY <1>8, StopTyped DEF Kill
  <2>. QED
    BY <1>8, <2>1, <2>2 DEF Kill, FilesTyped, disk
<1>9. ASSUME NEW p \in Procs, Interrupt(p) PROVE FilesTyped'
  <2>1. crashes' \in [stops : 0..MaxCrashes, between : BOOLEAN]
    BY <1>9, StopTyped DEF Interrupt
  <2>. QED
    BY <1>9, <2>1 DEF Interrupt, FilesTyped, disk
<1>10. ASSUME NEW p \in Procs, Preview(p) PROVE FilesTyped'
  <2>1. previews' \subseteq Plans
    BY <1>10, ComputedPlans DEF Preview, FilesTyped
  <2>. QED
    BY <1>10, <2>1 DEF Preview, FilesTyped
<1>11. ASSUME NEW p \in Procs, Prepare(p) \/ Commit(p) \/ RolledBack(p) PROVE FilesTyped'
  <2>1. PICK s \in JournalStates : Recorded(mem[p].growth, s)
    BY <1>11, RecordEffect DEF Prepare, Commit, RolledBack, JournalStates
  <2>2. mem[p].growth \in Growths
    BY GrowthTyped
  <2>3. /\ DOMAIN journal' \subseteq Growths
        /\ \A h \in DOMAIN journal' : journal'[h] \in JournalStates
    BY <2>1, <2>2, RecordTyped
  <2>. QED
    BY <1>11, <2>3 DEF Prepare, Commit, RolledBack, FilesTyped, JournalStates
<1>12. ASSUME NEW p \in Procs, Replace(p) \/ Restore(p) PROVE FilesTyped'
  <2>1. manifest' \in SUBSET Rows
    BY <1>12, GrowthTyped DEF Replace, Restore, FilesTyped
  <2>. QED
    BY <1>12, <2>1 DEF Replace, Restore, FilesTyped
<1>13. ASSUME NEW p \in Procs, Recompute(p) \/ Check(p) \/ FindLock(p) \/ Examine(p)
       PROVE  FilesTyped'
  BY <1>13, <1>1 DEF Recompute, Check, FindLock, Examine, Stay
<1>14. ASSUME NEW p \in Procs, Open(p) PROVE FilesTyped'
  BY <1>14, <1>1 DEF Open, OpenPreview, OpenApply, OpenGrow, OpenRecover, OpenRollback,
     OpenReconcile, Load
<1>15. CASE UNCHANGED vars
  BY <1>15, <1>1 DEF vars, disk
<1>. QED
  BY <1>2, <1>3, <1>4, <1>5, <1>6, <1>7, <1>8, <1>9, <1>10, <1>11, <1>12, <1>13, <1>14, <1>15
  DEF Next, Step

LEMMA TypeStep == TypeInv /\ [Next]_vars => TypeInv'
<1> SUFFICES ASSUME TypeInv, [Next]_vars PROVE CommandTyped'
  BY FilesStep DEF TypeInv
<1>1. CASE InitializeHoldout \/ Advance \/ StopSeries \/ EditInbox \/ UNCHANGED vars
  BY <1>1, CommandUnmoved DEF InitializeHoldout, Advance, StopSeries, EditInbox, vars, Unmoved,
     TypeInv
<1>. QED
  BY <1>1, OpenTyped, StepTyped, StoppedTyped DEF Next

LEMMA InitTyped == Init => TypeInv
<1> SUFFICES ASSUME Init PROVE TypeInv
  OBVIOUS
<1>1. FilesTyped
  <2>1. <<>> \in Seq(Reports)
    OBVIOUS
  <2>2. DOMAIN journal = {}
    BY DEF Init
  <2>. QED
    BY <2>1, <2>2, GrowthAssumption DEF Init, FilesTyped, Series
<1>2. CommandTyped
  BY NoMemTyped DEF Init, CommandTyped, OpFits, PlanFits, Points, Growing, ByPlan, Undoing
<1>. QED
  BY <1>1, <1>2 DEF TypeInv

(* Files, lock and commands stay what they are taken for, whatever commands    *)
(* the owner runs beside each other and wherever they die (curriculum.py and  *)
(* dataset.py).                                                              *)
THEOREM GrowthTypeCorrect == Spec => []TypeOK
<1>1. TypeInv => TypeOK
  BY DEF TypeInv, FilesTyped, CommandTyped, TypeOK
<1>. QED
  BY <1>1, InitTyped, TypeStep, PTL DEF Spec

-----------------------------------------------------------------------------
(* Every growth that a plan, a journal or a command holds is one that         *)
(* preview_growth has accepted: both of its ends may be loaded and have the    *)
(* frozen holdout, so that neither writing it nor restoring its original      *)
(* takes a case into the wrong partition.                                    *)
Accepted(g, f) ==
  /\ Valid(g.from) /\ Valid(g.to)
  /\ Holdout(g.from) = f /\ Holdout(g.to) = f
  /\ g.from \subseteq g.to /\ g.from # g.to
Carrying(l, m) == m.op \in {"apply", "grow", "rollback"} \/ (m.op = "recover" /\ l # "reconciling")

IsolatedInv ==
  /\ Isolated
  /\ \A x \in previews : Accepted(x.growth, frozen)
  /\ \A g \in DOMAIN journal : Accepted(g, frozen)
  /\ \A p \in Procs : Carrying(pc[p], mem[p]) => Accepted(mem[p].growth, frozen)

LEMMA AcceptedFrozen ==
  ASSUME NEW g \in Growths, Accepted(g, frozen)
  PROVE  frozen # NoHoldout
<1>1. Holdout(g.from) \in SUBSET Rows
  BY DEF Growths, Holdout
<1>. QED
  BY <1>1, GrowthAssumption DEF Accepted

LEMMA GrowableAccepted ==
  ASSUME Valid(manifest), NEW to, Growable(manifest, to)
  PROVE  Accepted(Growth(manifest, to), frozen)
BY DEF Growable, Accepted, Growth

LEMMA CarriedAccepted ==
  ASSUME TypeInv, IsolatedInv, NEW p \in Procs, pc[p] \in Growing \cup Undoing
  PROVE  Accepted(mem[p].growth, frozen)
<1>1. OpFits(pc[p], mem[p])
  BY DEF TypeInv, CommandTyped
<1>2. Carrying(pc[p], mem[p])
  BY <1>1 DEF OpFits, Carrying, Growing, Undoing
<1>. QED
  BY <1>2 DEF IsolatedInv

(* A step of a command hands on a growth that was accepted.                    *)
LEMMA CarriedStep ==
  ASSUME TypeInv, IsolatedInv, UNCHANGED frozen,
         NEW p \in Procs, NEW l, NEW m, Moved(p, l, m),
         Carrying(l, m) => Accepted(m.growth, frozen)
  PROVE  (\A q \in Procs : Carrying(pc[q], mem[q]) => Accepted(mem[q].growth, frozen))'
BY DEF Moved, Others, IsolatedInv

LEMMA CarriedGoto ==
  ASSUME TypeInv, IsolatedInv, UNCHANGED frozen, NEW p \in Procs, NEW l \in Points,
         Goto(p, l), pc[p] # "reconciling" \/ l = "idle"
  PROVE  (\A q \in Procs : Carrying(pc[q], mem[q]) => Accepted(mem[q].growth, frozen))'
<1>1. Moved(p, l, Left(l, mem[p]))
  BY GotoEffect DEF TypeInv
<1>2. Carrying(l, Left(l, mem[p])) => Accepted(Left(l, mem[p]).growth, frozen)
  <2>1. CASE l = "idle"
    BY <2>1, NoMemTyped DEF Left, Carrying
  <2>2. CASE l # "idle"
    <3>1. Carrying(l, mem[p]) => Carrying(pc[p], mem[p])
      BY <2>2 DEF Carrying
    <3>. QED
      BY <3>1, <2>2 DEF Left, IsolatedInv
  <2>. QED
    BY <2>1, <2>2
<1>. QED
  BY <1>1, <1>2, CarriedStep

LEMMA IsolatedOpen ==
  ASSUME TypeInv, IsolatedInv, NEW p \in Procs, Open(p)
  PROVE  (\A q \in Procs : Carrying(pc[q], mem[q]) => Accepted(mem[q].growth, frozen))'
<1>. USE DEF TypeInv
<1>a. NoMem.growth \in Growths /\ \A x \in previews : x \in Plans /\ x.growth \in Growths
  BY NoMemTyped DEF Plans, FilesTyped
<1>b. ASSUME NEW op \in Ops, NEW plan \in Plans \cup {NoPlan}, NEW g \in Growths,
             NEW l \in Points, Load(p, op, plan, g, l),
             op \in {"apply", "grow", "rollback"} \/ (op = "recover" /\ l # "reconciling")
               => Accepted(g, frozen)
      PROVE  (\A q \in Procs : Carrying(pc[q], mem[q]) => Accepted(mem[q].growth, frozen))'
  <2>1. PICK m : m = Loading(op, plan, g)
    OBVIOUS
  <2>2. m.op = op /\ m.growth = g
    BY <2>1 DEF Loading
  <2>3. Moved(p, l, m)
    BY <2>1, <1>b, LoadEffect
  <2>4. Carrying(l, m) => Accepted(m.growth, frozen)
    BY <2>2, <1>b DEF Carrying
  <2>5. UNCHANGED frozen
    BY <1>b DEF Load, disk
  <2>. QED
    BY <2>3, <2>4, <2>5, CarriedStep
<1>. USE DEF Ops, Points, Repairing
<1>1. CASE OpenPreview(p)
  BY <1>1, <1>a, <1>b DEF OpenPreview
<1>2. CASE OpenApply(p)
  <2>1. PICK x \in previews : Load(p, "apply", x, x.growth, "opened")
    BY <1>2 DEF OpenApply
  <2>2. Accepted(x.growth, frozen)
    BY DEF IsolatedInv
  <2>. QED
    BY <2>1, <2>2, <1>a, <1>b
<1>3. CASE OpenGrow(p)
  <2>1. PICK r \in Additions : /\ Growable(manifest, manifest \cup {r})
                               /\ Load(p, "grow", NoPlan, Growth(manifest, manifest \cup {r}), "growing")
    BY <1>3 DEF OpenGrow
  <2>2. Accepted(Growth(manifest, manifest \cup {r}), frozen)
    BY <2>1, GrowableAccepted DEF IsolatedInv, Isolated
  <2>3. Growth(manifest, manifest \cup {r}) \in Growths
    BY GrowthAssumption DEF FilesTyped, Growth, Growths
  <2>. QED
    BY <2>1, <2>2, <2>3, <1>b
<1>4. CASE OpenRecover(p)
  <2>1. PICK x \in previews : Load(p, "recover", x, x.growth, "recovering")
    BY <1>4 DEF OpenRecover
  <2>2. Accepted(x.growth, frozen)
    BY DEF IsolatedInv
  <2>. QED
    BY <2>1, <2>2, <1>a, <1>b
<1>5. CASE OpenRollback(p)
  <2>1. PICK g \in DOMAIN journal : Load(p, "rollback", NoPlan, g, "restoring")
    BY <1>5 DEF OpenRollback
  <2>2. Accepted(g, frozen) /\ g \in Growths
    BY DEF IsolatedInv, FilesTyped
  <2>. QED
    BY <2>1, <2>2, <1>b
<1>6. CASE OpenReconcile(p)
  BY <1>6, <1>a, <1>b DEF OpenReconcile
<1>. QED
  BY <1>1, <1>2, <1>3, <1>4, <1>5, <1>6 DEF Open

(* A step of a command under way goes to some point.                          *)
LEMMA MoveOfStep ==
  ASSUME NEW p \in Procs, Step(p) \/ Interrupt(p) \/ Kill(p)
  PROVE  \E l \in Points : Goto(p, l) /\ (pc[p] # "reconciling" \/ l = "idle")
<1>. USE DEF Points, Locked, Growing, Repairing
<1>1. CASE Interrupt(p) \/ Kill(p)
  BY <1>1 DEF Interrupt, Kill
<1>2. CASE Lock(p) \/ Unlock(p) \/ Preview(p) \/ Recompute(p) \/ Check(p)
  BY <1>2 DEF Lock, Unlock, Preview, Recompute, Check
<1>3. CASE Prepare(p) \/ Replace(p) \/ Commit(p) \/ FindLock(p)
  BY <1>3 DEF Prepare, Replace, Commit, FindLock
<1>4. CASE Examine(p)
  BY <1>4 DEF Examine
<1>5. CASE Restore(p) \/ RolledBack(p) \/ RemoveLock(p) \/ Reconcile(p)
  BY <1>5 DEF Restore, RolledBack, RemoveLock, Reconcile
<1>. QED
  BY <1>1, <1>2, <1>3, <1>4, <1>5 DEF Step

LEMMA IsolatedMove ==
  ASSUME TypeInv, IsolatedInv, NEW p \in Procs, Step(p) \/ Interrupt(p) \/ Kill(p)
  PROVE  (\A q \in Procs : Carrying(pc[q], mem[q]) => Accepted(mem[q].growth, frozen))'
<1>1. UNCHANGED frozen
  BY DEF Step, Lock, Unlock, Preview, Recompute, Check, Prepare, Replace, Commit, FindLock, Examine,
     Restore, RolledBack, RemoveLock, Reconcile, Interrupt, Kill, Stay, disk
<1>. QED
  BY <1>1, MoveOfStep, CarriedGoto

LEMMA IsolatedStep ==
  ASSUME TypeInv, IsolatedInv, [Next]_vars
  PROVE  IsolatedInv'
<1>. USE DEF TypeInv
<1>1. CASE InitializeHoldout
  <2>1. \A g \in Growths : ~Accepted(g, frozen)
    BY <1>1, AcceptedFrozen DEF InitializeHoldout
  <2>2. \A x \in previews : x.growth \in Growths
    BY DEF FilesTyped, Plans
  <2>3. previews = {} /\ DOMAIN journal = {}
    BY <2>1, <2>2 DEF IsolatedInv, FilesTyped
  <2>4. \A p \in Procs : ~Carrying(pc[p], mem[p])
    BY <2>1, GrowthTyped DEF IsolatedInv
  <2>. QED
    BY <1>1, <2>3, <2>4 DEF InitializeHoldout, IsolatedInv, Isolated
<1>2. CASE Advance \/ StopSeries \/ EditInbox \/ UNCHANGED vars
  BY <1>2 DEF Advance, StopSeries, EditInbox, vars, IsolatedInv, Isolated
<1>3. ASSUME NEW p \in Procs, Open(p) PROVE IsolatedInv'
  <2>1. UNCHANGED <<manifest, frozen, previews, journal>>
    BY <1>3 DEF Open, OpenPreview, OpenApply, OpenGrow, OpenRecover, OpenRollback,
       OpenReconcile, Load, disk
  <2>. QED
    BY <2>1, <1>3, IsolatedOpen DEF IsolatedInv, Isolated
<1>4. ASSUME NEW p \in Procs, Step(p) \/ Interrupt(p) \/ Kill(p) PROVE IsolatedInv'
  <2>. (\A q \in Procs : Carrying(pc[q], mem[q]) => Accepted(mem[q].growth, frozen))'
    BY <1>4, IsolatedMove
  <2>. SUFFICES (/\ Isolated
                 /\ \A x \in previews : Accepted(x.growth, frozen)
                 /\ \A g \in DOMAIN journal : Accepted(g, frozen))'
    BY DEF IsolatedInv
  <2>1. CASE UNCHANGED <<manifest, frozen, previews, journal>>
    BY <2>1 DEF IsolatedInv, Isolated
  <2>2. CASE Preview(p)
    <3>1. \A x \in Computed(mem[p].loaded) : Accepted(x.growth, frozen)
      <4> SUFFICES ASSUME NEW x \in Computed(mem[p].loaded) PROVE Accepted(x.growth, frozen)
        OBVIOUS
      <4>1. x.growth.from = manifest /\ Growable(x.growth.from, x.growth.to)
        BY ComputedPlans
      <4>. QED
        BY <4>1 DEF Growable, Accepted, IsolatedInv, Isolated
    <3>. QED
      BY <2>2, <3>1 DEF Preview, IsolatedInv, Isolated
  <2>3. CASE Prepare(p) \/ Commit(p) \/ RolledBack(p)
    <3>1. \E s : Recorded(mem[p].growth, s)
      BY <2>3, RecordEffect DEF Prepare, Commit, RolledBack
    <3>2. pc[p] \in Growing \cup Undoing
      BY <2>3 DEF Prepare, Commit, RolledBack, Growing, Undoing
    <3>3. Accepted(mem[p].growth, frozen)
      BY <3>2, CarriedAccepted
    <3>. QED
      BY <2>3, <3>1, <3>3 DEF Prepare, Commit, RolledBack, Recorded, IsolatedInv, Isolated
  <2>4. CASE Replace(p) \/ Restore(p)
    <3>1. pc[p] \in Growing \cup Undoing
      BY <2>4 DEF Replace, Restore, Growing, Undoing
    <3>2. Accepted(mem[p].growth, frozen)
      BY <3>1, CarriedAccepted
    <3>3. Isolated'
      BY <2>4, <3>2 DEF Replace, Restore, Isolated, IsolatedInv, Accepted
    <3>. QED
      BY <2>4, <3>3 DEF Replace, Restore, IsolatedInv
  <2>. QED
    BY <1>4, <2>1, <2>2, <2>3, <2>4
    DEF Step, Lock, Unlock, Recompute, Check, FindLock, Examine, RemoveLock, Reconcile, Stay,
        Interrupt, Kill, disk
<1>. QED
  BY <1>1, <1>2, <1>3, <1>4 DEF Next

LEMMA InitIsolated == Init => IsolatedInv
<1> SUFFICES ASSUME Init PROVE IsolatedInv
  OBVIOUS
<1>1. \A p \in Procs : ~Carrying(pc[p], mem[p])
  BY NoMemTyped DEF Init, Carrying
<1>2. DOMAIN journal = {} /\ previews = {}
  BY DEF Init
<1>. QED
  BY <1>1, <1>2, GrowthAssumption DEF Init, IsolatedInv, Isolated

(* Whatever is applied, recovered, restored or interrupted, with a lock or     *)
(* without one, the manifest holds no untouched case and no content twice, and *)
(* the holdout it was frozen with (dataset.py, curriculum.py).                *)
THEOREM ManifestIsolated == Spec => []Isolated
<1>1. Init => TypeInv /\ IsolatedInv
  BY InitTyped, InitIsolated
<1>2. TypeInv /\ IsolatedInv /\ [Next]_vars => TypeInv' /\ IsolatedInv'
  BY TypeStep, IsolatedStep
<1>3. IsolatedInv => Isolated
  BY DEF IsolatedInv
<1>. QED
  BY <1>1, <1>2, <1>3, PTL DEF Spec

-----------------------------------------------------------------------------
(* The series lock.  A preview or an apply is behind a lock that names it and  *)
(* its plan until it is done; what a recovery or a reconcile clears is the     *)
(* lock of a dead command, and one of them is at work.                        *)
Behind(l, m) == l \in Locked \/ (l \in Growing \cup {"done"} /\ m.op \in Mutations)
Mending(l, m) == l \in {"examined", "restoring", "restored", "unlocking"} /\ m.op = "recover"
LockFits(k, s, l, m, p) ==
  /\ Behind(l, m) => /\ k # NoLock /\ k.owner = p
                     /\ k.op = m.op /\ k.plan = m.plan
  /\ Mending(l, m) => /\ k # NoLock /\ k.owner = Dead
                      /\ k.op = "apply" /\ k.plan = m.plan
  /\ l = "reconciling" => k # NoLock /\ k.owner = Dead /\ k.op = "preview"
  /\ m.op = "apply" /\ l \in {"planned"} \cup Growing =>
       s = m.plan.series /\ s.status = "active"

LockInv ==
  /\ \A p \in Procs : LockFits(lock, series, pc[p], mem[p], p)
  /\ \A p, q \in Procs : pc[p] \in Repairing /\ pc[q] \in Repairing => p = q

LEMMA IdleFits ==
  ASSUME NEW k, NEW s, NEW p
  PROVE  LockFits(k, s, "idle", NoMem, p)
BY NoMemTyped DEF LockFits, Behind, Mending, Locked, Growing, Mutations

(* A step that leaves the lock and the series alone is judged by where it      *)
(* takes its own command.                                                    *)
LEMMA LockMoved ==
  ASSUME LockInv, UNCHANGED <<lock, series>>, NEW p \in Procs, NEW l, NEW m, Moved(p, l, m),
         LockFits(lock, series, l, m, p),
         l \in Repairing => \A q \in Procs : q # p => pc[q] \notin Repairing
  PROVE  LockInv'
BY DEF LockInv, Moved, Others

LEMMA LockGoto ==
  ASSUME TypeInv, LockInv, UNCHANGED <<lock, series>>, NEW p \in Procs, NEW l \in Points, Goto(p, l),
         l # "idle" => LockFits(lock, series, l, mem[p], p),
         l \in Repairing => pc[p] \in Repairing
  PROVE  LockInv'
<1>1. Moved(p, l, Left(l, mem[p]))
  BY GotoEffect DEF TypeInv
<1>2. LockFits(lock, series, l, Left(l, mem[p]), p)
  BY IdleFits DEF Left
<1>3. l \in Repairing => \A q \in Procs : q # p => pc[q] \notin Repairing
  BY DEF LockInv
<1>. QED
  BY <1>1, <1>2, <1>3, LockMoved

(* A step that changes the lock is judged by the others, too.                  *)
LEMMA LockChanged ==
  ASSUME TypeInv, LockInv, UNCHANGED series, NEW p \in Procs, NEW l \in Points, Goto(p, l),
         l # "idle" => LockFits(lock', series, l, mem[p], p), l \notin Repairing,
         \A q \in Procs : q # p => LockFits(lock', series, pc[q], mem[q], q)
  PROVE  LockInv'
<1>1. Moved(p, l, Left(l, mem[p]))
  BY GotoEffect DEF TypeInv
<1>2. LockFits(lock', series, l, Left(l, mem[p]), p)
  BY IdleFits DEF Left
<1>. QED
  BY <1>1, <1>2 DEF LockInv, Moved, Others

LEMMA LockOpen ==
  ASSUME "contend" \notin Liberties, TypeInv, LockInv, NEW p \in Procs, Open(p)
  PROVE  LockInv'
<1>. USE DEF TypeInv
<1>a. NoMem.growth \in Growths /\ \A x \in previews : x \in Plans /\ x.growth \in Growths
  BY NoMemTyped DEF Plans, FilesTyped
<1>b. ASSUME NEW op \in Ops, NEW plan \in Plans \cup {NoPlan}, NEW g \in Growths,
             NEW l \in Points, Load(p, op, plan, g, l),
             l \in {"opened", "growing", "recovering"} \/ (l = "restoring" /\ op = "rollback")
               \/ (l = "reconciling" /\ lock # NoLock /\ lock.owner = Dead /\ lock.op = "preview"),
             l \in Repairing => NobodyRepairs
      PROVE  LockInv'
  <2>1. PICK m : m = Loading(op, plan, g)
    OBVIOUS
  <2>2. m.op = op
    BY <2>1 DEF Loading
  <2>3. Moved(p, l, m)
    BY <2>1, <1>b, LoadEffect
  <2>4. LockFits(lock, series, l, m, p)
    BY <2>2, <1>b DEF LockFits, Behind, Mending, Locked, Growing
  <2>5. UNCHANGED <<lock, series>>
    BY <1>b DEF Load, disk
  <2>6. l \in Repairing => \A q \in Procs : q # p => pc[q] \notin Repairing
    BY <1>b DEF NobodyRepairs
  <2>. QED
    BY <2>3, <2>4, <2>5, <2>6, LockMoved
<1>. USE DEF Ops, Points, Repairing
<1>1. CASE OpenPreview(p)
  BY <1>1, <1>a, <1>b DEF OpenPreview
<1>2. CASE OpenApply(p)
  BY <1>2, <1>a, <1>b DEF OpenApply
<1>3. CASE OpenGrow(p)
  <2>1. PICK r \in Additions : Load(p, "grow", NoPlan, Growth(manifest, manifest \cup {r}), "growing")
    BY <1>3 DEF OpenGrow
  <2>2. Growth(manifest, manifest \cup {r}) \in Growths
    BY GrowthAssumption DEF FilesTyped, Growth, Growths
  <2>. QED
    BY <2>1, <2>2, <1>b
<1>4. CASE OpenRecover(p)
  BY <1>4, <1>a, <1>b DEF OpenRecover
<1>5. CASE OpenRollback(p)
  <2>1. DOMAIN journal \subseteq Growths
    BY DEF FilesTyped
  <2>. QED
    BY <2>1, <1>5, <1>b DEF OpenRollback
<1>6. CASE OpenReconcile(p)
  BY <1>6, <1>a, <1>b DEF OpenReconcile
<1>. QED
  BY <1>1, <1>2, <1>3, <1>4, <1>5, <1>6 DEF Open

LEMMA LockTaken ==
  ASSUME TypeInv, LockInv, NEW p \in Procs, Lock(p)
  PROVE  LockInv'
<1>. USE DEF TypeInv
<1>1. CASE lock # NoLock
  <2>1. Goto(p, "idle") /\ UNCHANGED <<lock, series>>
    BY <1>1 DEF Lock, disk
  <2>. QED
    BY <2>1, LockGoto DEF Points, Repairing
<1>2. CASE lock = NoLock
  <2>1. mem[p].op \in Mutations /\ pc[p] = "opened"
    BY DEF Lock, CommandTyped, OpFits
  <2>2. PICK k : k = [op |-> mem[p].op, plan |-> mem[p].plan, initial |-> mem[p].initial, owner |-> p]
    OBVIOUS
  <2>3. k \in Locks /\ k.op = mem[p].op /\ k.plan = mem[p].plan /\ k.owner = p
    BY <2>1, <2>2, GrowthTyped DEF Locks
  <2>4. k # NoLock
    BY <2>3, GrowthAssumption
  <2>5. PICK l \in {"previewing", "applying"} : Goto(p, l)
    BY <1>2 DEF Lock
  <2>6. lock' = k /\ UNCHANGED series
    BY <1>2, <2>2 DEF Lock, disk
  <2>7. LockFits(k, series, l, mem[p], p)
    BY <2>3, <2>4, <2>5 DEF LockFits, Behind, Mending, Locked, Growing
  <2>8. \A q \in Procs : LockFits(k, series, pc[q], mem[q], q)
    <3>1. \A q \in Procs : LockFits(NoLock, series, pc[q], mem[q], q)
      BY <1>2 DEF LockInv
    <3>. QED
      BY <3>1 DEF LockFits, Behind, Mending, Locked, Growing
  <2>. QED
    BY <2>5, <2>6, <2>7, <2>8, LockChanged DEF Points, Locked, Repairing
<1>. QED
  BY <1>1, <1>2

LEMMA LockGone ==
  ASSUME TypeInv, LockInv, NEW p \in Procs, Unlock(p) \/ RemoveLock(p) \/ Reconcile(p)
  PROVE  LockInv'
<1>. USE DEF TypeInv
<1>1. Goto(p, "idle") /\ UNCHANGED series
  BY DEF Unlock, RemoveLock, Reconcile, disk
<1>2. CASE lock' = lock
  BY <1>1, <1>2, LockGoto DEF Points, Repairing
<1>3. CASE lock' # lock
  <2>1. OpFits(pc[p], mem[p]) /\ LockFits(lock, series, pc[p], mem[p], p)
    BY DEF CommandTyped, LockInv
  <2>2. \/ Unlock(p) /\ Behind(pc[p], mem[p])
        \/ pc[p] \in Repairing /\ (Mending(pc[p], mem[p]) \/ pc[p] = "reconciling")
    BY <1>3, <2>1 DEF Unlock, RemoveLock, Reconcile, Behind, Mending, Repairing, OpFits, ByPlan
  <2>3. lock.owner = p \/ (lock.owner = Dead /\ pc[p] \in Repairing)
    BY <2>1, <2>2 DEF LockFits
  <2>4. ASSUME NEW q \in Procs, q # p PROVE LockFits(NoLock, series, pc[q], mem[q], q)
    <3>1. LockFits(lock, series, pc[q], mem[q], q)
      BY DEF LockInv
    <3>2. ~Behind(pc[q], mem[q])
      BY <2>3, <2>4, <3>1, GrowthAssumption DEF LockFits
    <3>3. ~Mending(pc[q], mem[q]) /\ pc[q] # "reconciling"
      <4>1. SUFFICES ASSUME Mending(pc[q], mem[q]) \/ pc[q] = "reconciling" PROVE FALSE
        OBVIOUS
      <4>2. pc[q] \in Repairing /\ lock.owner = Dead
        BY <3>1, <4>1 DEF LockFits, Mending, Repairing
      <4>. QED
        BY <4>2, <2>3, <2>4, GrowthAssumption DEF LockInv
    <3>. QED
      BY <3>1, <3>2, <3>3 DEF LockFits
  <2>5. lock' = NoLock
    BY <1>3 DEF Unlock, RemoveLock, Reconcile
  <2>. QED
    BY <1>1, <2>4, <2>5, LockChanged DEF Points, Repairing
<1>. QED
  BY <1>2, <1>3

LEMMA LockKilled ==
  ASSUME TypeInv, LockInv, NEW p \in Procs, Kill(p)
  PROVE  LockInv'
<1>1. Goto(p, "idle") /\ UNCHANGED series
  BY DEF Kill, disk
<1>2. ASSUME NEW q \in Procs, q # p PROVE LockFits(lock', series, pc[q], mem[q], q)
  <2>1. LockFits(lock, series, pc[q], mem[q], q)
    BY DEF LockInv
  <2>2. CASE lock' = lock
    BY <2>1, <2>2
  <2>3. CASE lock' # lock
    <3>1. lock.owner = p
      BY <2>3 DEF Kill
    <3>2. ~Behind(pc[q], mem[q]) /\ ~Mending(pc[q], mem[q]) /\ pc[q] # "reconciling"
      BY <1>2, <2>1, <3>1, GrowthAssumption DEF LockFits
    <3>. QED
      BY <2>1, <3>2 DEF LockFits
  <2>. QED
    BY <2>2, <2>3
<1>. QED
  BY <1>1, <1>2, LockChanged DEF Points, Repairing

LEMMA LockWalked ==
  ASSUME TypeInv, LockInv, NEW p \in Procs,
         Step(p) \/ Interrupt(p), ~Lock(p), ~Unlock(p), ~RemoveLock(p), ~Reconcile(p)
  PROVE  LockInv'
<1>. USE DEF TypeInv
<1>a. OpFits(pc[p], mem[p]) /\ LockFits(lock, series, pc[p], mem[p], p)
  BY DEF CommandTyped, LockInv
<1>b. UNCHANGED <<lock, series>>
  BY DEF Step, Preview, Recompute, Check, Prepare, Replace, Commit, FindLock, Examine,
     Restore, RolledBack, Interrupt, Stay, disk
<1>c. ASSUME NEW l \in Points, Goto(p, l), l # "idle" => LockFits(lock, series, l, mem[p], p),
             l \in Repairing => pc[p] \in Repairing
      PROVE  LockInv'
  BY <1>b, <1>c, LockGoto
<1>. USE DEF LockFits, OpFits, Behind, Mending, Points, Locked, Growing, Repairing, Mutations
<1>1. CASE Preview(p)
  BY <1>1, <1>a, <1>c DEF Preview
<1>2. CASE Recompute(p)
  <2>1. mem[p].op = "apply" /\ pc[p] = "applying"
    BY <1>2, <1>a DEF Recompute
  <2>2. PICK l \in {"planned", "done"} : /\ Goto(p, l)
                                         /\ l = "planned" => Computed(mem[p].loaded) = {mem[p].plan}
    BY <1>2 DEF Recompute
  <2>3. l = "planned" => mem[p].plan.series = series /\ series.status = "active"
    BY <2>2, ComputedPlans
  <2>. QED
    BY <2>1, <2>2, <2>3, <1>a, <1>c
<1>3. CASE Check(p)
  BY <1>3, <1>a, <1>c DEF Check
<1>4. CASE Prepare(p) \/ Replace(p) \/ Commit(p)
  BY <1>4, <1>a, <1>c DEF Prepare, Replace, Commit
<1>5. CASE FindLock(p)
  BY <1>5, <1>a, <1>c DEF FindLock, Matching, ByPlan
<1>6. CASE Examine(p)
  BY <1>6, <1>a, <1>c DEF Examine, ByPlan
<1>7. CASE Restore(p)
  BY <1>7, <1>a, <1>c DEF Restore, Undoing
<1>8. CASE RolledBack(p)
  BY <1>8, <1>a, <1>c DEF RolledBack, Undoing
<1>9. CASE Interrupt(p)
  BY <1>9, <1>a, <1>c DEF Interrupt
<1>. QED
  BY <1>1, <1>2, <1>3, <1>4, <1>5, <1>6, <1>7, <1>8, <1>9 DEF Step

LEMMA LockStep ==
  ASSUME "contend" \notin Liberties, TypeInv, LockInv, [Next]_vars
  PROVE  LockInv'
<1>1. CASE Advance \/ StopSeries
  <2>1. lock = NoLock /\ UNCHANGED <<lock, pc, mem>>
    BY <1>1 DEF Advance, StopSeries
  <2>2. \A p \in Procs : LockFits(NoLock, series, pc[p], mem[p], p)
    BY <2>1 DEF LockInv
  <2>3. \A p \in Procs : LockFits(NoLock, series', pc[p], mem[p], p)
    BY <2>2 DEF LockFits, Behind, Mending, Locked, Growing, Mutations
  <2>. QED
    BY <2>1, <2>3 DEF LockInv
<1>2. CASE InitializeHoldout \/ EditInbox \/ UNCHANGED vars
  BY <1>2 DEF InitializeHoldout, EditInbox, vars, LockInv
<1>. QED
  BY <1>1, <1>2, LockOpen, LockTaken, LockGone, LockKilled, LockWalked DEF Next

LEMMA InitLock == Init => LockInv
BY IdleFits DEF Init, LockInv, Repairing

LEMMA LockInvariant ==
  ASSUME "contend" \notin Liberties
  PROVE  Spec => [](TypeInv /\ LockInv)
<1>1. TypeInv /\ LockInv /\ [Next]_vars => (TypeInv /\ LockInv)'
  BY TypeStep, LockStep
<1>. QED
  BY <1>1, InitTyped, InitLock, PTL DEF Spec

-----------------------------------------------------------------------------
(* One writer.  Without the liberty to overlap, a growth or a rollback by hand *)
(* runs alone; and a command at a point of Writing goes by what the manifest   *)
(* and the journal say of its growth there.                                  *)
Writing == Growing \cup {"restoring", "restored", "unlocking"}
AloneInv ==
  \A p, q \in Procs : pc[p] # "idle" /\ mem[p].op \in {"grow", "rollback"} /\ p # q => pc[q] = "idle"

StateIn(j, g) == IF g \in DOMAIN j THEN j[g] ELSE "absent"
FilesFit(l, m, held, state) ==
  /\ l = "checked" => held = m.growth.from
  /\ l \in {"prepared", "restored"} => held = m.growth.from /\ state = "prepared"
  /\ l = "replaced" => held = m.growth.to /\ state = "prepared"
  /\ l = "restoring" /\ m.op = "recover" => held = m.growth.to
  /\ l = "restoring" /\ "blind" \notin Liberties => held \in {m.growth.from, m.growth.to}
  /\ l = "unlocking" =>
       \/ state = "committed" /\ held = m.growth.to
       \/ state \in {"absent", "rolled_back"} /\ held = m.growth.from
FilesInv == \A p \in Procs : FilesFit(pc[p], mem[p], manifest, StateIn(journal, mem[p].growth))

(* The growths that the journal holds and has not rolled back form a chain,    *)
(* and all of it is in the manifest: but for the end of it that a command has  *)
(* not written yet, or has just restored.                                    *)
Live == {g \in DOMAIN journal : journal[g] \in {"prepared", "committed"}}
Pending(g) == \E p \in Procs : pc[p] \in {"prepared", "restored"} /\ mem[p].growth = g
ChainInv ==
  /\ \A g, h \in Live : g # h => g.to \subseteq h.from \/ h.to \subseteq g.from
  /\ \A g \in Live : g.to \subseteq manifest \/ Pending(g)

LEMMA AloneStep ==
  ASSUME "overlap" \notin Liberties, TypeInv, AloneInv, [Next]_vars
  PROVE  AloneInv'
<1>. USE DEF TypeInv
<1>1. CASE Unmoved
  BY <1>1 DEF Unmoved, AloneInv
<1>2. ASSUME NEW p \in Procs, NEW l \in Points, Goto(p, l), pc[p] # "idle" PROVE AloneInv'
  <2>1. Moved(p, l, Left(l, mem[p]))
    BY <1>2, GotoEffect
  <2>. QED
    BY <1>2, <2>1 DEF Moved, Others, Left, AloneInv
<1>3. ASSUME NEW p \in Procs, NEW op \in Ops, NEW plan \in Plans \cup {NoPlan}, NEW g \in Growths,
             NEW l \in Points, Load(p, op, plan, g, l),
             op \in {"grow", "rollback"} => \A q \in Procs : ~Busy(q)
      PROVE  AloneInv'
  <2>1. PICK m : m = Loading(op, plan, g)
    OBVIOUS
  <2>2. m.op = op
    BY <2>1 DEF Loading
  <2>3. Moved(p, l, m)
    BY <2>1, <1>3, LoadEffect
  <2>4. \A q \in Procs : q # p /\ pc[q] # "idle" => mem[q].op \notin {"grow", "rollback"}
    BY <1>3 DEF Load, Alone, Busy, Mutations
  <2>. QED
    BY <1>3, <2>2, <2>3, <2>4 DEF Moved, Others, AloneInv, Busy
<1>4. ASSUME NEW p \in Procs, Open(p) PROVE AloneInv'
  <2>1. NoMem.growth \in Growths /\ \A x \in previews : x \in Plans /\ x.growth \in Growths
    BY NoMemTyped DEF Plans, FilesTyped
  <2>2. DOMAIN journal \subseteq Growths
    BY DEF FilesTyped
  <2>. USE DEF Ops, Points, Repairing
  <2>3. CASE OpenPreview(p) \/ OpenApply(p) \/ OpenRecover(p) \/ OpenReconcile(p)
    BY <2>1, <2>3, <1>3 DEF OpenPreview, OpenApply, OpenRecover, OpenReconcile
  <2>4. CASE OpenGrow(p)
    <3>1. PICK r \in Additions : Load(p, "grow", NoPlan, Growth(manifest, manifest \cup {r}), "growing")
      BY <2>4 DEF OpenGrow
    <3>2. Growth(manifest, manifest \cup {r}) \in Growths
      BY GrowthAssumption DEF FilesTyped, Growth, Growths
    <3>3. \A q \in Procs : ~Busy(q)
      BY <2>4 DEF OpenGrow
    <3>. QED
      BY <3>1, <3>2, <3>3, <1>3
  <2>5. CASE OpenRollback(p)
    <3>1. PICK g \in DOMAIN journal : Load(p, "rollback", NoPlan, g, "restoring")
      BY <2>5 DEF OpenRollback
    <3>2. \A q \in Procs : ~Busy(q)
      BY <2>5 DEF OpenRollback
    <3>. QED
      BY <3>1, <3>2, <2>2, <1>3
  <2>. QED
    BY <1>4, <2>3, <2>4, <2>5 DEF Open
<1>5. ASSUME NEW p \in Procs, Step(p) \/ Interrupt(p) \/ Kill(p), pc[p] # "idle" PROVE AloneInv'
  BY <1>5, <1>2, MoveOfStep
<1>6. ASSUME NEW p \in Procs, Kill(p), pc[p] = "idle" PROVE AloneInv'
  <2>1. Moved(p, "idle", NoMem)
    BY <1>6, GotoEffect DEF Kill, Points, Left
  <2>. QED
    BY <2>1, NoMemTyped DEF Moved, Others, AloneInv
<1>7. \A p \in Procs : Step(p) \/ Interrupt(p) => pc[p] # "idle"
  BY DEF Step, Lock, Unlock, Preview, Recompute, Check, Prepare, Replace, Commit, FindLock, Examine,
     Restore, RolledBack, RemoveLock, Reconcile, Interrupt, Locked, Growing
<1>8. CASE InitializeHoldout \/ Advance \/ StopSeries \/ EditInbox \/ UNCHANGED vars
  BY <1>1, <1>8 DEF InitializeHoldout, Advance, StopSeries, EditInbox, vars, Unmoved
<1>. QED
  BY <1>4, <1>5, <1>6, <1>7, <1>8 DEF Next

LEMMA OneWriter ==
  ASSUME TypeInv, LockInv, AloneInv, NEW p \in Procs, NEW q \in Procs,
         pc[p] \in Writing, pc[q] \in Writing
  PROVE  p = q
<1> SUFFICES ASSUME p # q PROVE FALSE
  OBVIOUS
<1>1. /\ OpFits(pc[p], mem[p]) /\ LockFits(lock, series, pc[p], mem[p], p)
      /\ OpFits(pc[q], mem[q]) /\ LockFits(lock, series, pc[q], mem[q], q)
  BY DEF TypeInv, CommandTyped, LockInv
<1>2. pc[p] # "idle" /\ pc[q] # "idle"
  BY DEF Writing, Growing
<1>3. mem[p].op \notin {"grow", "rollback"} /\ mem[q].op \notin {"grow", "rollback"}
  BY <1>2 DEF AloneInv
<1>4. \A x \in {p, q} : \/ mem[x].op = "apply" /\ Behind(pc[x], mem[x])
                        \/ /\ mem[x].op = "recover" /\ Mending(pc[x], mem[x])
                           /\ pc[x] \in Repairing
  BY <1>1, <1>3 DEF OpFits, Writing, Growing, Undoing, ByPlan, Behind, Mending, Mutations, Repairing
<1>5. \A x \in {p, q} : \/ lock.owner = x /\ Behind(pc[x], mem[x])
                        \/ lock.owner = Dead /\ pc[x] \in Repairing
  BY <1>1, <1>4 DEF LockFits
<1>. QED
  BY <1>5, GrowthAssumption DEF LockInv

-----------------------------------------------------------------------------
(* What every command behind the files goes by.                              *)
LEMMA StateInJournal == \A g : StateOf(g) = StateIn(journal, g)
BY DEF StateOf, StateIn

LEMMA RecordedState ==
  ASSUME NEW g, NEW s, Recorded(g, s)
  PROVE  /\ \A h : h = g => StateIn(journal', h) = s
         /\ \A h : h # g => StateIn(journal', h) = StateIn(journal, h)
BY DEF Recorded, StateIn

LEMMA FilesNotWriting ==
  ASSUME NEW l, NEW m, NEW held, NEW state, l \notin Writing
  PROVE  FilesFit(l, m, held, state)
BY DEF FilesFit, Writing, Growing

(* A step that leaves manifest and journal alone is judged by where it takes   *)
(* its command; one that writes them is the only one that goes by them.        *)
LEMMA FilesStay ==
  ASSUME FilesInv, UNCHANGED <<manifest, journal>>, NEW p \in Procs, NEW l, NEW m, Moved(p, l, m),
         FilesFit(l, m, manifest, StateIn(journal, m.growth))
  PROVE  FilesInv'
BY DEF FilesInv, Moved, Others

LEMMA FilesWritten ==
  ASSUME TypeInv, LockInv, AloneInv, FilesInv, NEW p \in Procs, NEW l \in Points \ {"idle"}, Goto(p, l),
         pc[p] \in Writing, FilesFit(l, mem[p], manifest', StateIn(journal', mem[p].growth))
  PROVE  FilesInv'
<1>1. Moved(p, l, mem[p])
  BY GotoEffect DEF TypeInv, Left
<1>2. ASSUME NEW q \in Procs, q # p
      PROVE  FilesFit(pc[q], mem[q], manifest', StateIn(journal', mem[q].growth))
  <2>1. pc[q] \notin Writing
    BY <1>2, OneWriter
  <2>. QED
    BY <2>1, FilesNotWriting
<1>3. ASSUME NEW q \in Procs
      PROVE  FilesFit(pc'[q], mem'[q], manifest', StateIn(journal', mem[q].growth))
  BY <1>1, <1>2 DEF Moved, Others
<1>4. \A q \in Procs : mem'[q] = mem[q]
  BY <1>1 DEF Moved, Others
<1>5. \A q \in Procs : FilesFit(pc'[q], mem'[q], manifest', StateIn(journal', mem'[q].growth))
  BY <1>3, <1>4
<1>. QED
  BY <1>5 DEF FilesInv

LEMMA FilesGoto ==
  ASSUME TypeInv, FilesInv, UNCHANGED <<manifest, journal>>, NEW p \in Procs, NEW l \in Points, Goto(p, l),
         l # "idle" => FilesFit(l, mem[p], manifest, StateIn(journal, mem[p].growth))
  PROVE  FilesInv'
<1>1. Moved(p, l, Left(l, mem[p]))
  BY GotoEffect DEF TypeInv
<1>2. FilesFit(l, Left(l, mem[p]), manifest, StateIn(journal, Left(l, mem[p]).growth))
  <2>1. CASE l = "idle"
    BY <2>1, FilesNotWriting DEF Writing, Growing
  <2>2. CASE l # "idle"
    BY <2>2 DEF Left
  <2>. QED
    BY <2>1, <2>2
<1>. QED
  BY <1>1, <1>2, FilesStay

LEMMA FilesOpen ==
  ASSUME "overlap" \notin Liberties, TypeInv, FilesInv, NEW p \in Procs, Open(p)
  PROVE  FilesInv'
<1>. USE DEF TypeInv
<1>a. NoMem.growth \in Growths /\ \A x \in previews : x \in Plans /\ x.growth \in Growths
  BY NoMemTyped DEF Plans, FilesTyped
<1>b. ASSUME NEW op \in Ops, NEW plan \in Plans \cup {NoPlan}, NEW g \in Growths,
             NEW l \in Points, Load(p, op, plan, g, l),
             l \notin Writing \/ (l = "restoring" /\ op = "rollback"
                                   /\ ("blind" \in Liberties \/ manifest \in {g.from, g.to}))
      PROVE  FilesInv'
  <2>1. PICK m : m = Loading(op, plan, g)
    OBVIOUS
  <2>2. m.op = op /\ m.growth = g
    BY <2>1 DEF Loading
  <2>3. Moved(p, l, m)
    BY <2>1, <1>b, LoadEffect
  <2>4. FilesFit(l, m, manifest, StateIn(journal, m.growth))
    <3>1. CASE l \notin Writing
      BY <3>1, FilesNotWriting
    <3>2. CASE l \in Writing
      <4>1. /\ l = "restoring" /\ m.op = "rollback"
            /\ "blind" \in Liberties \/ manifest \in {m.growth.from, m.growth.to}
        BY <2>2, <3>2, <1>b
      <4>. QED
        BY <4>1 DEF FilesFit
    <3>. QED
      BY <3>1, <3>2
  <2>5. UNCHANGED <<manifest, journal>>
    BY <1>b DEF Load, disk
  <2>. QED
    BY <2>3, <2>4, <2>5, FilesStay
<1>. USE DEF Ops, Points, Repairing, Writing, Growing
<1>1. CASE OpenPreview(p) \/ OpenApply(p) \/ OpenRecover(p) \/ OpenReconcile(p)
  BY <1>1, <1>a, <1>b DEF OpenPreview, OpenApply, OpenRecover, OpenReconcile
<1>2. CASE OpenGrow(p)
  <2>1. PICK r \in Additions : Load(p, "grow", NoPlan, Growth(manifest, manifest \cup {r}), "growing")
    BY <1>2 DEF OpenGrow
  <2>2. Growth(manifest, manifest \cup {r}) \in Growths
    BY GrowthAssumption DEF FilesTyped, Growth, Growths
  <2>. QED
    BY <2>1, <2>2, <1>b
<1>3. CASE OpenRollback(p)
  <2>1. DOMAIN journal \subseteq Growths
    BY DEF FilesTyped
  <2>. QED
    BY <2>1, <1>3, <1>b DEF OpenRollback
<1>. QED
  BY <1>1, <1>2, <1>3 DEF Open

(* The steps of a growth and of its undoing, one after the other.              *)
LEMMA FilesWriting ==
  ASSUME TypeInv, LockInv, AloneInv, FilesInv, NEW p \in Procs,
         Prepare(p) \/ Replace(p) \/ Commit(p) \/ Restore(p) \/ RolledBack(p)
  PROVE  FilesInv'
<1>. USE DEF TypeInv
<1>a. pc[p] \in Writing
  BY DEF Prepare, Replace, Commit, Restore, RolledBack, Writing, Growing
<1>b. FilesFit(pc[p], mem[p], manifest, StateIn(journal, mem[p].growth))
  BY DEF FilesInv
<1>1. CASE Prepare(p) \/ Commit(p)
  <2>1. PICK l \in {"prepared", "done"}, s \in JournalStates :
          /\ Goto(p, l) /\ Recorded(mem[p].growth, s)
          /\ l = "prepared" => s = "prepared" /\ pc[p] = "checked"
    BY <1>1, RecordEffect DEF Prepare, Commit, JournalStates
  <2>2. manifest' = manifest /\ StateIn(journal', mem[p].growth) = s
    BY <1>1, <2>1, RecordedState DEF Prepare, Commit
  <2>3. FilesFit(l, mem[p], manifest', StateIn(journal', mem[p].growth))
    BY <2>1, <2>2, <1>b DEF FilesFit
  <2>. QED
    BY <2>1, <2>3, <1>a, FilesWritten DEF Points, Growing
<1>2. CASE Replace(p)
  <2>1. Goto(p, "replaced") /\ manifest' = mem[p].growth.to /\ StateIn(journal', mem[p].growth) = "prepared"
    BY <1>2, <1>b DEF Replace, FilesFit
  <2>2. FilesFit("replaced", mem[p], manifest', StateIn(journal', mem[p].growth))
    BY <2>1 DEF FilesFit
  <2>. QED
    BY <2>1, <2>2, <1>a, FilesWritten DEF Points, Growing
<1>3. CASE Restore(p) /\ StateIn(journal, mem[p].growth) = "prepared"
  <2>1. Goto(p, "restored") /\ manifest' = mem[p].growth.from /\ StateIn(journal', mem[p].growth) = "prepared"
    BY <1>3, StateInJournal DEF Restore
  <2>2. FilesFit("restored", mem[p], manifest', StateIn(journal', mem[p].growth))
    BY <2>1 DEF FilesFit
  <2>. QED
    BY <2>1, <2>2, <1>a, FilesWritten DEF Points, Repairing
<1>4. CASE Restore(p) /\ StateIn(journal, mem[p].growth) # "prepared"
  BY <1>4, StateInJournal, FilesGoto DEF Restore, Points
<1>5. CASE RolledBack(p)
  <2>1. Recorded(mem[p].growth, "rolled_back") /\ manifest' = manifest
    BY <1>5, RecordEffect DEF RolledBack
  <2>2. StateIn(journal', mem[p].growth) = "rolled_back" /\ manifest = mem[p].growth.from
    BY <1>5, <2>1, <1>b, RecordedState DEF RolledBack, FilesFit
  <2>3. FilesFit("unlocking", mem[p], manifest', StateIn(journal', mem[p].growth))
    BY <2>1, <2>2 DEF FilesFit
  <2>4. CASE Goto(p, "unlocking")
    BY <2>3, <2>4, <1>a, FilesWritten DEF Points, Repairing
  <2>5. CASE Goto(p, "idle")
    <3>1. Moved(p, "idle", NoMem)
      BY <2>5, GotoEffect DEF Points, Left
    <3>2. ASSUME NEW q \in Procs, q # p PROVE pc[q] \notin Writing
      BY <3>2, <1>a, OneWriter
    <3>3. \A q \in Procs : pc'[q] \notin Writing
      BY <3>1, <3>2 DEF Moved, Others, Writing, Growing
    <3>4. \A q \in Procs : FilesFit(pc'[q], mem'[q], manifest', StateIn(journal', mem'[q].growth))
      BY <3>3, FilesNotWriting
    <3>. QED
      BY <3>4 DEF FilesInv
  <2>. QED
    BY <1>5, <2>4, <2>5 DEF RolledBack
<1>. QED
  BY <1>1, <1>2, <1>3, <1>4, <1>5

LEMMA FilesFollow ==
  ASSUME "overlap" \notin Liberties, TypeInv, LockInv, AloneInv, FilesInv, [Next]_vars
  PROVE  FilesInv'
<1>. USE DEF TypeInv
<1>1. CASE InitializeHoldout \/ Advance \/ StopSeries \/ EditInbox \/ UNCHANGED vars
  BY <1>1 DEF InitializeHoldout, Advance, StopSeries, EditInbox, vars, FilesInv
<1>2. ASSUME NEW p \in Procs, Interrupt(p) \/ Kill(p) \/ Lock(p) \/ Unlock(p) \/ Preview(p)
             \/ Recompute(p) \/ FindLock(p) \/ RemoveLock(p) \/ Reconcile(p)
      PROVE  FilesInv'
  <2>1. PICK l \in Points \ Writing : Goto(p, l)
    BY <1>2 DEF Interrupt, Kill, Lock, Unlock, Preview, Recompute, FindLock, RemoveLock, Reconcile,
       Points, Writing, Locked, Growing, Repairing
  <2>2. UNCHANGED <<manifest, journal>>
    BY <1>2 DEF Interrupt, Kill, Lock, Unlock, Preview, Recompute, FindLock, RemoveLock, Reconcile,
       Stay, disk
  <2>. QED
    BY <2>1, <2>2, FilesNotWriting, FilesGoto
<1>3. ASSUME NEW p \in Procs, Check(p) PROVE FilesInv'
  <2>1. PICK l \in {"checked", "done"} : Goto(p, l) /\ (l = "checked" => manifest = mem[p].growth.from)
    BY <1>3 DEF Check
  <2>2. FilesFit(l, mem[p], manifest, StateIn(journal, mem[p].growth))
    BY <2>1 DEF FilesFit
  <2>. QED
    BY <1>3, <2>1, <2>2, FilesGoto DEF Check, Stay, disk, Points, Growing
<1>4. ASSUME NEW p \in Procs, Examine(p) PROVE FilesInv'
  <2>1. PICK l \in {"restoring", "unlocking", "idle"} :
          /\ Goto(p, l)
          /\ l = "restoring" => manifest = mem[p].growth.to
          /\ l = "unlocking" => \/ StateIn(journal, mem[p].growth) = "committed" /\ manifest = mem[p].growth.to
                                \/ /\ StateIn(journal, mem[p].growth) \in {"absent", "rolled_back"}
                                   /\ manifest = mem[p].growth.from
    BY <1>4, StateInJournal DEF Examine
  <2>2. FilesFit(l, mem[p], manifest, StateIn(journal, mem[p].growth))
    BY <2>1 DEF FilesFit
  <2>. QED
    BY <1>4, <2>1, <2>2, FilesGoto DEF Examine, Stay, disk, Points, Repairing
<1>. QED
  BY <1>1, <1>2, <1>3, <1>4, FilesOpen, FilesWriting DEF Next, Step

-----------------------------------------------------------------------------
(* The chain of growths.                                                     *)
Safe == TypeInv /\ IsolatedInv /\ LockInv /\ AloneInv /\ FilesInv

LEMMA LiveState ==
  /\ \A g : g \in Live <=> StateIn(journal, g) \in {"prepared", "committed"}
  /\ \A g : g \in Live' <=> StateIn(journal', g) \in {"prepared", "committed"}
BY DEF Live, StateIn

(* A live growth but the one a writer has not written is in the manifest.      *)
LEMMA LiveHeld ==
  ASSUME Safe, ChainInv, NEW p \in Procs, pc[p] \in Writing, NEW g \in Live,
         pc[p] \in Between => g # mem[p].growth
  PROVE  g.to \subseteq manifest
<1>1. ~Pending(g)
  <2> SUFFICES ASSUME NEW q \in Procs, pc[q] \in Between, mem[q].growth = g PROVE FALSE
    BY DEF Pending, Between
  <2>1. pc[q] \in Writing
    BY DEF Between, Writing, Growing
  <2>2. p = q
    BY <2>1, OneWriter DEF Safe
  <2>. QED
    BY <2>2
<1>. QED
  BY <1>1 DEF ChainInv

LEMMA LiveAccepted ==
  ASSUME Safe, NEW g \in Live
  PROVE  Accepted(g, frozen)
BY DEF Safe, IsolatedInv, Live

(* A step that writes neither file leaves the chain as it is, unless it takes  *)
(* a command away from a growth it has not written.                           *)
LEMMA ChainStay ==
  ASSUME ChainInv, UNCHANGED <<manifest, journal>>, NEW p \in Procs, NEW l, NEW m, Moved(p, l, m),
         pc[p] \notin Between
  PROVE  ChainInv'
<1>1. Live' = Live
  BY DEF Live
<1>2. \A g : Pending(g) => \E q \in Procs : pc'[q] \in Between /\ mem'[q].growth = g
  BY DEF Pending, Moved, Others, Between
<1>. QED
  BY <1>1, <1>2 DEF ChainInv, Pending, Between

LEMMA ChainWritten ==
  ASSUME Safe, ChainInv, NEW p \in Procs,
         Prepare(p) \/ Replace(p) \/ Commit(p) \/ Restore(p) \/ RolledBack(p),
         "blind" \notin Liberties
  PROVE  ChainInv'
<1> DEFINE gr == mem[p].growth
<1>a. pc[p] \in Writing /\ pc[p] \in Growing \cup Undoing
  BY DEF Prepare, Replace, Commit, Restore, RolledBack, Writing, Growing, Undoing
<1>b. FilesFit(pc[p], mem[p], manifest, StateIn(journal, gr))
  BY DEF FilesInv, Safe
<1>c. Accepted(gr, frozen)
  BY <1>a, CarriedAccepted DEF Safe
<1>d. \A g \in Live : g # gr => g.to \subseteq manifest
  BY <1>a, LiveHeld
<1>e. pc[p] \notin Between => \A g \in Live : g.to \subseteq manifest
  BY <1>a, LiveHeld
<1>f. ASSUME NEW l \in Points \ {"idle"}, Goto(p, l) PROVE l \in Between => \A g : g = gr => Pending(g)'
  <2>1. Moved(p, l, mem[p])
    BY <1>f, GotoEffect DEF Safe, TypeInv, Left
  <2>. QED
    BY <2>1 DEF Moved, Pending, Between
<1>. HIDE DEF gr
<1>1. CASE Prepare(p)
  <2>1. Recorded(gr, "prepared") /\ manifest' = manifest /\ manifest = gr.from /\ Goto(p, "prepared")
    BY <1>1, <1>b, RecordEffect DEF Prepare, gr, FilesFit
  <2>2. \A h : h \in Live' => h = gr \/ h \in Live
    BY <2>1, RecordedState, LiveState
  <2>3. \A h \in Live : h.to \subseteq manifest
    BY <1>1, <1>e DEF Prepare, Between
  <2>4. \A g, h \in Live' : g # h => g.to \subseteq h.from \/ h.to \subseteq g.from
    BY <2>1, <2>2, <2>3 DEF ChainInv
  <2>5. \A g : g = gr => Pending(g)'
    BY <2>1, <1>f DEF Between, Points, Growing
  <2>6. \A g \in Live' : g.to \subseteq manifest' \/ Pending(g)'
    BY <2>1, <2>2, <2>3, <2>5
  <2>. QED
    BY <2>4, <2>6 DEF ChainInv
<1>2. CASE Replace(p)
  <2>1. manifest' = gr.to /\ manifest = gr.from /\ UNCHANGED journal
    BY <1>2, <1>b DEF Replace, gr, FilesFit
  <2>2. manifest \subseteq manifest'
    BY <2>1, <1>c DEF Accepted
  <2>3. Live' = Live
    BY <2>1 DEF Live
  <2>4. \A g \in Live : g.to \subseteq manifest'
    BY <2>1, <2>2, <1>d
  <2>. QED
    BY <2>3, <2>4 DEF ChainInv
<1>3. CASE Commit(p)
  <2>1. Recorded(gr, "committed") /\ manifest' = manifest /\ StateIn(journal, gr) = "prepared"
    BY <1>3, <1>b, RecordEffect DEF Commit, gr, FilesFit
  <2>2. \A h : h \in Live' => h \in Live
    BY <2>1, RecordedState, LiveState
  <2>3. \A h \in Live : h.to \subseteq manifest
    BY <1>3, <1>e DEF Commit, Between
  <2>. QED
    BY <2>1, <2>2, <2>3 DEF ChainInv
<1>4. CASE Restore(p) /\ StateIn(journal, gr) = "prepared"
  <2>a. manifest' = gr.from /\ manifest \in {gr.from, gr.to} /\ UNCHANGED journal /\ Goto(p, "restored")
    BY <1>4, <1>b, StateInJournal DEF Restore, gr, FilesFit
  <2>2. gr \in Live /\ Live' = Live
    BY <1>4, <2>a, LiveState DEF Live
  <2>b. gr.to \subseteq manifest /\ gr.from \subseteq gr.to /\ gr.from # gr.to
    BY <1>4, <2>2, <1>c, <1>e DEF Restore, Between, Accepted
  <2>1. manifest' = gr.from /\ manifest = gr.to /\ UNCHANGED journal /\ Goto(p, "restored")
    <3>1. manifest # gr.from
      BY <2>b
    <3>. QED
      BY <3>1, <2>a
  <2>3. ASSUME NEW h \in Live, h # gr PROVE h.to \subseteq manifest'
    <3>1. h.to \subseteq gr.from \/ gr.to \subseteq h.from
      BY <2>2, <2>3 DEF ChainInv
    <3>2. h.to \subseteq gr.to /\ h.from \subseteq h.to /\ h.from # h.to
      BY <2>1, <2>3, <1>d, LiveAccepted DEF Accepted
    <3>3. ~(gr.to \subseteq h.from)
      <4>1. SUFFICES ASSUME gr.to \subseteq h.from PROVE h.from = h.to
        BY <3>2
      <4>. QED
        BY <3>2, <4>1
    <3>. QED
      BY <2>1, <3>1, <3>3
  <2>4. \A g : g = gr => Pending(g)'
    BY <2>1, <1>f DEF Between, Points, Repairing
  <2>5. \A g \in Live' : g.to \subseteq manifest' \/ Pending(g)'
    BY <2>2, <2>3, <2>4
  <2>. QED
    BY <2>2, <2>5 DEF ChainInv
<1>5. CASE Restore(p) /\ StateIn(journal, gr) # "prepared"
  <2>1. Goto(p, "idle") /\ UNCHANGED <<manifest, journal>> /\ pc[p] \notin Between
    BY <1>5, StateInJournal DEF Restore, gr, Between
  <2>2. Moved(p, "idle", NoMem)
    BY <2>1, GotoEffect DEF Safe, TypeInv, Left, Points
  <2>. QED
    BY <2>1, <2>2, ChainStay
<1>6. CASE RolledBack(p)
  <2>1. Recorded(gr, "rolled_back") /\ manifest' = manifest
    BY <1>6, RecordEffect DEF RolledBack, gr
  <2>2. \A h : h \in Live' => h \in Live /\ h # gr
    BY <2>1, RecordedState, LiveState
  <2>. QED
    BY <2>1, <2>2, <1>d DEF ChainInv
<1>. QED
  BY <1>1, <1>2, <1>3, <1>4, <1>5, <1>6

LEMMA StopRecorded ==
  ASSUME NEW p \in Procs, Stop(p), ~crashes'.between
  PROVE  ~crashes.between /\ pc[p] \notin Between
<1>1. crashes' = [stops |-> crashes.stops + 1, between |-> crashes.between \/ pc[p] \in Between]
  BY DEF Stop
<1>2. crashes'.between = (crashes.between \/ pc[p] \in Between)
  BY <1>1, Zenon
<1>. QED
  BY <1>2

LEMMA ChainStep ==
  ASSUME Liberties = {}, Safe, ChainInv, [Next]_vars, ~crashes'.between
  PROVE  ChainInv'
<1>. USE DEF Safe, TypeInv
<1>1. CASE InitializeHoldout \/ Advance \/ StopSeries \/ EditInbox \/ UNCHANGED vars
  BY <1>1 DEF InitializeHoldout, Advance, StopSeries, EditInbox, vars, ChainInv, Live, Pending
<1>2. ASSUME NEW p \in Procs, Open(p) PROVE ChainInv'
  <2>1. UNCHANGED <<manifest, journal>> /\ pc[p] \notin Between
    BY <1>2 DEF Open, OpenPreview, OpenApply, OpenGrow, OpenRecover, OpenRollback,
       OpenReconcile, Load, disk, Between
  <2>2. \E l, m : Moved(p, l, m)
    <3>1. CommandTyped'
      BY <1>2, OpenTyped
    <3>2. \E l, m : pc' = [pc EXCEPT ![p] = l] /\ mem' = [mem EXCEPT ![p] = m]
      BY <1>2 DEF Open, OpenPreview, OpenApply, OpenGrow, OpenRecover, OpenRollback,
         OpenReconcile, Load
    <3>. QED
      BY <3>1, <3>2 DEF CommandTyped, Moved, Others
  <2>. QED
    BY <2>1, <2>2, ChainStay
<1>3. ASSUME NEW p \in Procs, Interrupt(p) \/ Kill(p) \/ Lock(p) \/ Unlock(p) \/ Preview(p)
             \/ Recompute(p) \/ Check(p) \/ FindLock(p) \/ Examine(p) \/ RemoveLock(p) \/ Reconcile(p)
      PROVE  ChainInv'
  <2>1. UNCHANGED <<manifest, journal>>
    BY <1>3 DEF Interrupt, Kill, Lock, Unlock, Preview, Recompute, Check, FindLock, Examine,
       RemoveLock, Reconcile, Stay, disk
  <2>2. pc[p] \notin Between
    <3>1. CASE Interrupt(p) \/ Kill(p)
      BY <3>1, StopRecorded DEF Interrupt, Kill
    <3>2. CASE ~(Interrupt(p) \/ Kill(p))
      BY <1>3, <3>2 DEF Lock, Unlock, Preview, Recompute, Check, FindLock, Examine,
         RemoveLock, Reconcile, Between
    <3>. QED
      BY <3>1, <3>2
  <2>3. PICK l \in Points : Goto(p, l)
    BY <1>3, MoveOfStep DEF Step
  <2>4. Moved(p, l, Left(l, mem[p]))
    BY <2>3, GotoEffect
  <2>. QED
    BY <2>1, <2>2, <2>4, ChainStay
<1>4. ASSUME NEW p \in Procs, Prepare(p) \/ Replace(p) \/ Commit(p) \/ Restore(p) \/ RolledBack(p)
      PROVE  ChainInv'
  BY <1>4, ChainWritten
<1>. QED
  BY <1>1, <1>2, <1>3, <1>4 DEF Next, Step

-----------------------------------------------------------------------------
LEMMA InitSafe == Init => Safe /\ ChainInv
<1> SUFFICES ASSUME Init PROVE Safe /\ ChainInv
  OBVIOUS
<1>1. TypeInv /\ LockInv
  BY InitTyped, InitLock
<1>2. IsolatedInv
  BY InitIsolated
<1>3. AloneInv
  BY DEF Init, AloneInv
<1>4. FilesInv
  BY FilesNotWriting DEF Init, FilesInv, Writing, Growing
<1>5. ChainInv
  BY DEF Init, ChainInv, Live
<1>. QED
  BY <1>1, <1>2, <1>3, <1>4, <1>5 DEF Safe

LEMMA SafeStep ==
  ASSUME "contend" \notin Liberties, "overlap" \notin Liberties
  PROVE  Safe /\ [Next]_vars => Safe'
BY TypeStep, IsolatedStep, LockStep, AloneStep, FilesFollow DEF Safe

(* A stop that left a growth between journal and manifest is remembered.       *)
LEMMA StopRemembered ==
  ASSUME [Next]_vars, ~crashes'.between
  PROVE  ~crashes.between
<1>1. CASE UNCHANGED crashes
  BY <1>1
<1>2. ASSUME NEW p \in Procs, Interrupt(p) \/ Kill(p) PROVE ~crashes.between
  BY <1>2, StopRecorded DEF Interrupt, Kill
<1>3. ASSUME NEW p \in Procs, Open(p) PROVE UNCHANGED crashes
  BY <1>3 DEF Open, OpenPreview, OpenApply, OpenGrow, OpenRecover, OpenRollback, OpenReconcile, Load
<1>4. ASSUME NEW p \in Procs, Step(p) PROVE UNCHANGED crashes
  BY <1>4 DEF Step, Lock, Unlock, Preview, Recompute, Check, Prepare, Replace, Commit, FindLock,
     Examine, Restore, RolledBack, RemoveLock, Reconcile, Stay
<1>. QED
  BY <1>1, <1>2, <1>3, <1>4 DEF Next, InitializeHoldout, Advance, StopSeries, EditInbox, vars

(* What a committed growth has added is never taken out again: neither a       *)
(* recovery's snapshot nor a later growth undoes it (dataset.py:324-372,       *)
(* curriculum.py:1038-1163), wherever commands die, until one has stopped      *)
(* between the journal's and the manifest's write; rollbacks look at the       *)
(* manifest.                                                                 *)
THEOREM CommittedGrowthStays ==
  ASSUME Liberties = {}
  PROVE  Spec => []CommittedKept
<1> DEFINE Inv == Safe /\ (~crashes.between => ChainInv)
<1>1. Inv => CommittedKept
  <2> SUFFICES ASSUME Safe, ChainInv, NEW g \in DOMAIN journal, journal[g] = "committed"
               PROVE  g.to \subseteq manifest
    BY DEF CommittedKept
  <2>1. g \in Live
    BY DEF Live
  <2>2. ~Pending(g)
    BY DEF Safe, FilesInv, FilesFit, Pending, StateIn
  <2>. QED
    BY <2>1, <2>2 DEF ChainInv
<1>2. Inv /\ [Next]_vars => Inv'
  <2> SUFFICES ASSUME Inv, [Next]_vars PROVE Inv'
    OBVIOUS
  <2>1. Safe'
    BY SafeStep
  <2>2. ~crashes'.between => ChainInv'
    BY StopRemembered, ChainStep
  <2>. QED
    BY <2>1, <2>2
<1>3. Init => Inv
  BY InitSafe
<1>. HIDE DEF Inv
<1>. QED
  BY <1>1, <1>2, <1>3, PTL DEF Spec

(* A curriculum is applied only behind its own lock, and to the series that    *)
(* its plan was approved for, wherever other commands die (apply_curriculum).  *)
Approved ==
  \A p \in Procs :
     mem[p].op = "apply" /\ pc[p] = "prepared" /\ pc'[p] = "replaced" =>
       /\ lock # NoLock /\ lock.owner = p
       /\ series = mem[p].plan.series /\ series.status = "active"
THEOREM AppliedAsApproved ==
  ASSUME "contend" \notin Liberties
  PROVE  Spec => ApprovedInSeries
<1>1. TypeInv /\ LockInv /\ [Next]_vars => [Approved]_vars
  <2> SUFFICES ASSUME LockInv, NEW p \in Procs, mem[p].op = "apply", pc[p] = "prepared"
               PROVE  /\ lock # NoLock /\ lock.owner = p
                      /\ series = mem[p].plan.series /\ series.status = "active"
    BY DEF Approved
  <2>1. LockFits(lock, series, pc[p], mem[p], p)
    BY DEF LockInv
  <2>. QED
    BY <2>1 DEF LockFits, Behind, Growing, Mutations
<1>2. ApprovedInSeries <=> [][Approved]_vars
  BY DEF ApprovedInSeries, Approved
<1>. QED
  BY <1>1, <1>2, LockInvariant, PTL DEF Spec

(* The lock of a dead apply goes only when its growth is settled: committed    *)
(* and all in the manifest, or without a trace in it (recover_curriculum).     *)
Settled(g) ==
  \/ StateOf(g) = "committed" /\ g.to \subseteq manifest
  \/ StateOf(g) \in {"absent", "rolled_back"} /\ manifest = g.from
Cleared == DeadApply /\ lock' = NoLock => Settled(lock.plan.growth)

LEMMA ClearedStep ==
  ASSUME Safe, [Next]_vars, DeadApply, lock' = NoLock
  PROVE  Settled(lock.plan.growth)
<1>. USE DEF Safe, TypeInv
<1>1. PICK p \in Procs : Unlock(p) \/ RemoveLock(p) \/ Reconcile(p)
  <2>1. CASE InitializeHoldout \/ Advance \/ StopSeries \/ EditInbox \/ UNCHANGED vars
    BY <2>1 DEF InitializeHoldout, Advance, StopSeries, EditInbox, vars, DeadApply
  <2>2. ASSUME NEW p \in Procs, Open(p) PROVE FALSE
    BY <2>2 DEF Open, OpenPreview, OpenApply, OpenGrow, OpenRecover, OpenRollback,
       OpenReconcile, Load, DeadApply
  <2>3. ASSUME NEW p \in Procs, Kill(p) PROVE FALSE
    BY <2>3, GrowthAssumption DEF Kill, DeadApply
  <2>4. ASSUME NEW p \in Procs, Interrupt(p) PROVE FALSE
    BY <2>4 DEF Interrupt, DeadApply
  <2>5. ASSUME NEW p \in Procs, Step(p) PROVE Unlock(p) \/ RemoveLock(p) \/ Reconcile(p)
    BY <2>5 DEF Step, Lock, Preview, Recompute, Check, Prepare, Replace, Commit, FindLock, Examine,
       Restore, RolledBack, Stay, DeadApply
  <2>. QED
    BY <2>1, <2>2, <2>3, <2>4, <2>5 DEF Next
<1>2. /\ OpFits(pc[p], mem[p]) /\ PlanFits(pc[p], mem[p]) /\ LockFits(lock, series, pc[p], mem[p], p)
      /\ FilesFit(pc[p], mem[p], manifest, StateIn(journal, mem[p].growth))
  BY DEF CommandTyped, LockInv, FilesInv
<1>3. CASE Unlock(p)
  BY <1>2, <1>3, GrowthAssumption DEF Unlock, DeadApply, LockFits, Behind
<1>4. CASE Reconcile(p)
  BY <1>2, <1>4 DEF Reconcile, DeadApply, LockFits
<1>5. CASE RemoveLock(p)
  <2>1. pc[p] = "unlocking" /\ mem[p].op = "recover"
    BY <1>2, <1>5 DEF RemoveLock, OpFits, ByPlan
  <2>2. lock.plan = mem[p].plan /\ mem[p].growth = mem[p].plan.growth
    BY <1>2, <2>1 DEF LockFits, Mending, PlanFits
  <2>3. Settled(mem[p].growth)
    BY <1>2, <2>1, StateInJournal DEF FilesFit, Settled
  <2>. QED
    BY <2>2, <2>3
<1>. QED
  BY <1>1, <1>3, <1>4, <1>5

THEOREM DeadApplySettled ==
  ASSUME "contend" \notin Liberties, "overlap" \notin Liberties
  PROVE  Spec => ClearedSettled
<1>1. Safe /\ [Next]_vars => [Cleared]_vars
  BY ClearedStep DEF Cleared
<1>2. ClearedSettled <=> [][Cleared]_vars
  BY DEF ClearedSettled, Cleared, Settled
<1>. QED
  BY <1>1, <1>2, InitSafe, SafeStep, PTL DEF Spec

=============================================================================
