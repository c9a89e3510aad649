\* A provider failure, a fault and a death.
SPECIFICATION FairSpec
CONSTANTS
  first = first
  second = second
  score = score
  observer = observer
  Cases <- MCCases
  PartitionOf <- MCPartitionOf
  Weight <- MCWeight
  Dimensions <- MCDimensions
  Threshold <- MCThreshold
  Observers <- MCObservers
  Train <- MCTrain
  Rest <- MCRest
  ObserverOrder <- MCObserverOrder
  Parent = "parent"
  Candidates <- MCCandidates
  Unfit = {"unfit"}
  Evaluations <- MCEvaluations
  Observations <- MCObservations
  Failures = {"timeout"}
  MaxCalls = 37
  MaxIterations = 2
  NoFile = NoFile
  MaxFailures = 1
  MaxFaults = 1
  MaxKills = 1
INVARIANTS TypeOK CallsAccounted EvidenceComplete PreviewJustified
PROPERTIES ResumeConcludes
CHECK_DEADLOCK FALSE
