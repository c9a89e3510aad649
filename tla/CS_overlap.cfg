SPECIFICATION Spec
CONSTANTS
  c1 = c1  c2 = c2  p1 = p1  p2 = p2
  Initial = Initial  Nobody = Nobody  NoLock = NoLock  Dead = Dead
  Procs = {p1, p2}
  Campaigns = {c1, c2}
  MaxCampaigns = 2
  MaxRevision = 1
  Liberties = {"resume"}
  CrashPoints <- AllPoints
  MaxCrashes = 1
SYMMETRY Symmetry
CHECK_DEADLOCK FALSE
INVARIANTS TypeOK SerialMutations OneIndexEach EntriesEvidenced HistoryIsPolicy
PROPERTIES EntriesKept
