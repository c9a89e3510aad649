----------------------------- MODULE ActiveState -----------------------------
(***************************************************************************)
(* kpo.active_state: which digest is active for the policy and for every    *)
(* component.  An append-only journal, the pointer files derived from it    *)
(* and the pending transaction are separate files; every durable write is   *)
(* an action, and a manager may stop after any write of CrashPoints.        *)
(***************************************************************************)
EXTENDS Integers, Sequences

CONSTANTS Slots,        \* the policy and the components, one pointer each
          Digests,      \* policy and component digests
          Evidence,     \* evidence digests, which tell previews apart
          None,         \* no digest, no transaction, no evidence
          Liberties,    \* what callers do although nothing says they may
          CrashPoints,  \* the program points at which a manager may stop
          MaxCrashes,   \* bound on the stops of one behaviour
          MaxJournal    \* bound on the journal entries of one behaviour

VARIABLES journal,  \* promotion-journal.jsonl
          pending,  \* promotion-pending.json
          pointer,  \* active-policy.json and active-components.json
          live,     \* an ActiveStateManager has been constructed
          pc, op,   \* how far the running operation is, and its transaction
          crashes

vars == <<journal, pending, pointer, live, pc, op, crashes>>

AdvancePoints == {"pending", "prepared", "pointer", "committed"}
OtherPoints == {"initializing", "rolling back", "restored", "rejournaled"}

(* "continue": the next operation starts before a pending one is recovered;  *)
(* "reuse": a preview that was committed once is applied again.              *)
ASSUME StateAssumption ==
  /\ None \notin Digests
  /\ Liberties \subseteq {"continue", "reuse"}
  /\ CrashPoints \subseteq AdvancePoints \cup OtherPoints
  /\ MaxCrashes \in Nat /\ MaxJournal \in Nat

(* A transaction is also its own preview digest: equal fields, equal digest. *)
Transactions == [slot : Slots, previous : Digests \cup {None}, active : Digests,
                 evidence : Evidence \cup {None}]
NoTransaction == [slot |-> None, previous |-> None, active |-> None, evidence |-> None]

(* "prepare" is written `prepared`, "recover" `rolled_back`, all others       *)
(* `committed`.                                                              *)
Effective == {"initialize", "advance", "rollback", "recover"}
Entries == [action : Effective \cup {"prepare"}, tx : Transactions]

TypeOK ==
  /\ journal \in Seq(Entries)
  /\ pending \in Transactions \cup {NoTransaction}
  /\ pointer \in [Slots -> Digests \cup {None}]
  /\ live \in BOOLEAN
  /\ pc \in {"idle"} \cup AdvancePoints \cup OtherPoints
  /\ op \in Transactions \cup {NoTransaction}
  /\ crashes \in Nat

Init ==
  /\ journal = <<>>
  /\ pending = NoTransaction
  /\ pointer = [s \in Slots |-> None]
  /\ live = FALSE
  /\ pc = "idle" /\ op = NoTransaction
  /\ crashes = 0

(* The digest that the first n entries of a journal make active for s: that of *)
(* the last effective one.                                                   *)
EffectiveFor(j, n, s) == {i \in 1..n : j[i].action \in Effective /\ j[i].tx.slot = s}
ActiveAt(j, n, s) ==
  LET I == EffectiveFor(j, n, s)
  IN  IF I = {} THEN None ELSE j[CHOOSE i \in I : \A k \in I : k <= i].tx.active
Active(s) == ActiveAt(journal, Len(journal), s)

Reconciled == \A s \in Slots : pointer[s] = Active(s)
Known(s) == {journal[i].tx.active : i \in {k \in DOMAIN journal : journal[k].tx.slot = s}}
CommittedAdvance(t) ==
  \E i \in DOMAIN journal : journal[i].action = "advance" /\ journal[i].tx = t

Write(action, t) == journal' = Append(journal, [action |-> action, tx |-> t])
Point(s, d) == pointer' = [pointer EXCEPT ![s] = d]
Goto(from, to) == pc = from /\ pc' = to
Begin(t, to) == pc' = to /\ op' = t
End == pc' = "idle" /\ op' = NoTransaction

------------------------------------------------------------------------------
(* The operations with one line wrong; a run finds each (README, "Mutants"). *)

(* A preview applied although its parent is no longer active.                *)
StaleAdvance(s, d, e) ==
  /\ live /\ pc = "idle" /\ pending = NoTransaction /\ pointer[s] # None
  /\ Len(journal) < MaxJournal
  /\ \E parent \in Digests :
       LET t == [slot |-> s, previous |-> parent, active |-> d, evidence |-> e]
       IN  ~CommittedAdvance(t) /\ pending' = t /\ Begin(t, "pending")
  /\ UNCHANGED <<journal, pointer, live, crashes>>

(* Recovery that forgets the pointer file.                                   *)
RecoverNoPointer ==
  /\ pc = "idle" /\ pending # NoTransaction /\ ~CommittedAdvance(pending)
  /\ pointer[pending.slot] = pending.active
  /\ Begin(pending, "restored")
  /\ UNCHANGED <<journal, pending, pointer, live, crashes>>

(* A recovered transaction journaled with a state nobody reads.              *)
RecoverAborted ==
  /\ Goto("restored", "rejournaled")
  /\ Write("abort", [op EXCEPT !.active = op.previous])
  /\ UNCHANGED <<pending, pointer, live, op, crashes>>

(* A committed transaction found, its pending file kept.                     *)
RecoverKeepsPending ==
  /\ pc = "idle" /\ pending # NoTransaction /\ CommittedAdvance(pending)
  /\ UNCHANGED vars

------------------------------------------------------------------------------
(* The constructor without a pending transaction, and the end of the process. *)
Open ==
  /\ ~live /\ pc = "idle" /\ pending = NoTransaction
  /\ journal = <<>> \/ Reconciled
  /\ live' = TRUE
  /\ UNCHANGED <<journal, pending, pointer, pc, op, crashes>>

Close ==
  /\ live /\ pc = "idle"
  /\ live' = FALSE
  /\ UNCHANGED <<journal, pending, pointer, pc, op, crashes>>

Ready ==
  /\ live /\ pc = "idle"
  /\ "continue" \in Liberties \/ pending = NoTransaction
  /\ Len(journal) < MaxJournal

(* initialize_policy and initialize_component: pointer first, then journal.  *)
Initialize(s, d) ==
  /\ Ready /\ pointer[s] = None
  /\ Point(s, d)
  /\ Begin([slot |-> s, previous |-> None, active |-> d, evidence |-> None], "initializing")
  /\ UNCHANGED <<journal, pending, live, crashes>>

FinishInitialize ==
  /\ pc = "initializing"
  /\ Write("initialize", op)
  /\ End
  /\ UNCHANGED <<pending, pointer, live, crashes>>

(* A preview applies only while its parent is active, and the same fields give *)
(* the same preview, so holding one back is making it again later.            *)
Preview(s, d, e) == [slot |-> s, previous |-> pointer[s], active |-> d, evidence |-> e]

Advance(s, d, e) ==
  /\ Ready /\ pointer[s] # None
  /\ "reuse" \in Liberties \/ ~CommittedAdvance(Preview(s, d, e))
  /\ pending' = Preview(s, d, e)
  /\ Begin(Preview(s, d, e), "pending")
  /\ UNCHANGED <<journal, pointer, live, crashes>>

Prepare ==
  /\ Goto("pending", "prepared")
  /\ Write("prepare", op)
  /\ UNCHANGED <<pending, pointer, live, op, crashes>>

ReplacePointer ==
  /\ Goto("prepared", "pointer")
  /\ Point(op.slot, op.active)
  /\ UNCHANGED <<journal, pending, live, op, crashes>>

Commit ==
  /\ Goto("pointer", "committed")
  /\ Write("advance", op)
  /\ UNCHANGED <<pending, pointer, live, op, crashes>>

FinishAdvance ==
  /\ pc = "committed"
  /\ pending' = NoTransaction
  /\ End
  /\ UNCHANGED <<journal, pointer, live, crashes>>

(* _rollback: any digest the journal ever named will do as an ancestor.      *)
Rollback(s, d) ==
  /\ Ready /\ pointer[s] # None /\ d \in Known(s)
  /\ Point(s, d)
  /\ Begin([slot |-> s, previous |-> pointer[s], active |-> d, evidence |-> None],
           "rolling back")
  /\ UNCHANGED <<journal, pending, live, crashes>>

FinishRollback ==
  /\ pc = "rolling back"
  /\ Write("rollback", op)
  /\ End
  /\ UNCHANGED <<pending, pointer, live, crashes>>

(* recover_pending, called by the constructor or by a caller that caught the  *)
(* exception of the interrupted operation.                                   *)
RecoverCommitted ==
  /\ pc = "idle" /\ pending # NoTransaction
  /\ CommittedAdvance(pending)
  /\ pending' = NoTransaction
  /\ UNCHANGED <<journal, pointer, live, pc, op, crashes>>

RecoverPointer ==
  /\ pc = "idle" /\ pending # NoTransaction
  /\ ~CommittedAdvance(pending)
  /\ pointer[pending.slot] = pending.active
  /\ Point(pending.slot, pending.previous)
  /\ Begin(pending, "restored")
  /\ UNCHANGED <<journal, pending, live, crashes>>

RecoverJournal ==
  /\ Goto("restored", "rejournaled")
  /\ Write("recover", [op EXCEPT !.active = op.previous])
  /\ UNCHANGED <<pending, pointer, live, op, crashes>>

FinishRecover ==
  /\ pc = "rejournaled"
  /\ pending' = NoTransaction
  /\ End
  /\ UNCHANGED <<journal, pointer, live, crashes>>

(* The process dies, or an exception leaves the operation and the manager.   *)
Crash ==
  /\ crashes < MaxCrashes /\ pc \in CrashPoints
  /\ crashes' = crashes + 1
  /\ live' \in {FALSE, live}
  /\ End
  /\ UNCHANGED <<journal, pending, pointer>>

Step ==
  \/ FinishInitialize \/ Prepare \/ ReplacePointer \/ Commit \/ FinishAdvance
  \/ FinishRollback \/ RecoverJournal \/ FinishRecover

Recover == RecoverCommitted \/ RecoverPointer

Next ==
  \/ Open \/ Close \/ Step \/ Recover \/ Crash
  \/ \E s \in Slots, d \in Digests :
       \/ Initialize(s, d) \/ Rollback(s, d)
       \/ \E e \in Evidence : Advance(s, d, e)

Spec == Init /\ [][Next]_vars

(* An operation runs on, and a manager is constructed again after its end.   *)
FairSpec == Spec /\ WF_vars(Step) /\ WF_vars(Recover) /\ WF_vars(Open)

------------------------------------------------------------------------------
(* The pointer files are what the journal says they are, whenever no          *)
(* operation runs and none is pending: no recovery leaves a candidate active   *)
(* that was never committed, or takes one back that was.                      *)
IndexMatchesJournal ==
  pc = "idle" /\ pending = NoTransaction => Reconciled

(* Every entry that changes a slot starts from the digest that was active     *)
(* before it: a stale or interrupted candidate is never anyone's parent.      *)
JournalChain ==
  \A i \in DOMAIN journal :
    journal[i].action \in Effective =>
      journal[i].tx.previous = ActiveAt(journal, i - 1, journal[i].tx.slot)

(* After a stop behind the move of the pointer or the commit a manager can be  *)
(* constructed again; active_state.py:324 refuses the state other stops leave. *)
Reopens == ~live ~> live
==============================================================================
