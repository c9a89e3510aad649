\* One campaign: write failures, a death and an edit of the anchors.
SPECIFICATION FairSpec
CONSTANTS
  base = base
  target = target
  anchor1 = anchor1
  anchor2 = anchor2
  score = score
  Campaigns = {target}
  Anchors <- MCAnchors
  Dims <- MCDims
  Full = 2
  Versions <- MCVersions
  Expected <- MCExpected
  Order <- MCOrder
  Slots <- MCSlots
  MaxCalls <- MCMaxCalls
  Answers <- MCAnswers
  Failures = {"timeout"}
  Threshold <- MCThreshold
  First = "reviewed"
  NoFile = NoFile
  MaxFaults = 2
  MaxKills = 1
  MaxEdits = 1
INVARIANTS TypeOK CallsAccounted ReportedTruly BindingHolds AskedReviewed
PROPERTIES AuditSettles
CHECK_DEADLOCK FALSE
