SPECIFICATION EvoSpec
CONSTANTS
  Hypernode <- Nodes
  Hyperedge <- Nets
  Inputs <- MCInputs
  MaxQuality = 1000
  NumHashFunctions = 2
  MinClusterSize = 3
  MaxClusterSize = 4
  Word = 64
  MaxIterations = 2
  PopulationSize = 2
  MaxOffspring = 2
CHECK_DEADLOCK FALSE
INVARIANTS
  InputRestored
  ResultDelivered
  CommunitiesFit
  BestOfAll
