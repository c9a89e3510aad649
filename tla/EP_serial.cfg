SPECIFICATION FairSpec
CONSTANTS
  c1 = c1  c2 = c2  c3 = c3  a1 = a1  a2 = a2
  Procs = {"p1"}
  Campaigns = {c1, c2, c3}
  Artifacts = {a1, a2}
  Target <- MCTarget
  InitialVersion <- MCInitialVersion
  Original = Original  Edited = Edited  Absent = Absent
  Nobody = Nobody  NoLock = NoLock
  Overlap = "none"
  CrashPoints <- LockWritten
  MaxCrashes = 2
  MaxEdits = 1
CHECK_DEADLOCK FALSE
INVARIANTS TypeOK CommittedSurvives AlwaysLoadable
PROPERTIES StaleLockCleared
