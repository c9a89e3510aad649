SPECIFICATION Spec
CONSTANTS
  c1 = c1  c2 = c2  p1 = p1  p2 = p2
  Initial = Initial  Nobody = Nobody  NoLock = NoLock  Dead = Dead
  Procs = {p1, p2}
  Campaigns = {c1, c2}
  MaxCampaigns = 2
  MaxRevision = 1
  Liberties = {}
  CrashPoints <- NoPoints
  MaxCrashes = 0
CHECK_DEADLOCK FALSE
INVARIANTS EndReconcilable
