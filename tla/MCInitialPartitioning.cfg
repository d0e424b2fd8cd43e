SPECIFICATION Spec
CONSTANTS
  Algorithm = "first_fit"
  Inputs <- MCInputs
  EpsNum = 1
  EpsDen = 3
INVARIANTS
  AllGainsExact
  QueuesServeBlocks
  EveryoneAssigned
  BestOfAllRuns
