SPECIFICATION BothSpec
CHECK_DEADLOCK FALSE
CONSTANTS
  Hypernode <- MCHypernode
  Hyperedge <- MCHyperedge
  InitPins <- MCInitPins
  InitNumPins <- MCInitNumPins
  InitWeight <- MCInitWeight
  InitEdgeWeight <- MCInitEdgeWeight
  Block <- MCBlock
  b0 = b0
  b1 = b1
  b2 = b2
  NoBlock = NoBlock
  NoCount = NoCount
  FixedPart <- MCFixed
  MaxVCycles = 1
  TimeLimited = {}
  MaxNodeWeight = 2
  MaxPartWeight <- MCMaxPartWeight
  PerfectWeight <- MCPerfectWeight
  Unit = 3
  MaxImbalance = 4
  MaxIterations = 2
  SizeThreshold = 4
  MaxFlowMoves = 1
SYMMETRY MCSymmetry
INVARIANTS
  CachesExact
  QueuesExact
PROPERTIES
  SearchesNeverWorse
  NoBlockEmptied
