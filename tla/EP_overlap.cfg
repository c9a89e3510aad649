SPECIFICATION Spec
CONSTANTS
  c1 = c1  c2 = c2  c3 = c3  a1 = a1  a2 = a2
  Procs = {"p1", "p2"}
  Campaigns = {c1, c2, c3}
  Artifacts = {a1, a2}
  Target <- MCTarget
  InitialVersion <- MCInitialVersion
  Original = Original  Edited = Edited  Absent = Absent
  Nobody = Nobody  NoLock = NoLock
  Overlap = "apply"
  CrashPoints <- Revalidated
  MaxCrashes = 2
  MaxEdits = 1
CHECK_DEADLOCK FALSE
INVARIANTS MutualExclusion StateMatchesJournal
PROPERTIES ImplementsAtomic
