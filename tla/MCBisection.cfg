SPECIFICATION FVSpec
CONSTANTS
  Algorithm = "worst_fit"
  Inputs <- MCInputs
  EpsNum = 1
  EpsDen = 4
INVARIANTS
  ObjectiveAdds
  BalanceGuaranteed
  AssignmentOptimal
PROPERTIES
  Terminates
