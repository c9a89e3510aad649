\* Safety and recovery: deaths and exceptions behind the lock or after a write.
SPECIFICATION FairSpec
CONSTANTS
  p1 = p1
  p2 = p2
  seed = seed
  held = held
  near = near
  far = far
  spoiled = spoiled
  untouched = untouched
  Procs <- MCProcs
  Cases <- MCCases
  Rank <- MCRank
  Text <- MCText
  Untouched <- MCUntouched
  Gaps <- MCGaps
  Features <- MCFeatures
  Kinds <- MCKinds
  MaxSelection = 1
  Diversity = 3
  Of = 10
  Seeds <- MCSeeds
  Inboxes <- MCInboxes
  Reports <- MCReports
  Additions <- MCAdditions
  NoLock = NoLock
  NoHoldout = NoHoldout
  NoPlan = NoPlan
  Dead = Dead
  Liberties = {}
  CrashPoints <- MCCrashPoints
  MaxCrashes = 2
  MaxEntries = 1
INVARIANTS TypeOK CommittedKept Isolated
PROPERTIES ApprovedInSeries ClearedSettled LockCleared
