SPECIFICATION Spec
CHECK_DEADLOCK FALSE
CONSTANTS
  Hypernode <- MCHypernode
  Hyperedge <- MCHyperedge
  InitPins <- MCInitPins
  InitNumPins <- MCInitNumPins
  InitWeight <- MCInitWeight
  InitEdgeWeight <- MCInitEdgeWeight
  Block <- MCBlock
  NoBlock <- MCNoBlock
  NoCount = NoCount
  NotCached = NotCached
  Free = Free
  Locked = Locked
  FixedPart <- MCFixed
  MaxVCycles = 1
  TimeLimited = {}
  MaxNodeWeight = 3
  MaxPartWeight <- MCMaxPartWeight
  PerfectWeight <- MCMaxPartWeight
  MaxImbalance = 16
  MaxIterations = 2
  MaxFlowMoves = 2
INVARIANTS
  GainCacheExact
  SearchStateExact
  MetricsExact
PROPERTIES
  SearchNeverWorse
