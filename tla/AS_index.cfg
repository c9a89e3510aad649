SPECIFICATION FairSpec
CONSTANTS
  policy = policy  k1 = k1  d1 = d1  d2 = d2  e1 = e1  e2 = e2
  None = None
  Slots = {policy, k1}
  Digests = {d1, d2}
  Evidence = {e1, e2}
  Liberties = {}
  CrashPoints <- SafePoints
  MaxCrashes = 2
  MaxJournal = 6
INVARIANTS TypeOK IndexMatchesJournal JournalChain
PROPERTIES Reopens
