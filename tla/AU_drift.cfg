\* A baseline and a target, with one write failure, compared.
SPECIFICATION Spec
CONSTANTS
  base = base
  target = target
  anchor1 = anchor1
  anchor2 = anchor2
  score = score
  Campaigns <- MCCampaigns
  Anchors <- MCAnchors
  Dims <- MCDims
  Full = 2
  Versions <- MCVersions
  Expected <- MCExpected
  Order <- MCOrder
  Slots <- MCSlots
  MaxCalls <- MCMaxCalls
  Answers <- MCAnswers
  Failures = {"timeout"}
  Threshold <- MCThreshold
  First = "reviewed"
  NoFile = NoFile
  MaxFaults = 1
  MaxKills = 0
  MaxEdits = 0
INVARIANTS DriftEvidenced
CHECK_DEADLOCK FALSE
