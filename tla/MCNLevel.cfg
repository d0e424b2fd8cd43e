SPECIFICATION Spec
CHECK_DEADLOCK FALSE
CONSTANTS
  Hypernode <- MCHypernode
  Hyperedge <- MCHyperedge
  InitPins <- MCInitPins
  InitNumPins <- MCInitNumPins
  InitWeight <- MCInitWeight
  InitEdgeWeight <- MCInitEdgeWeight
  Block <- MCBlock
  NoBlock <- MCNoBlock
  NoCount = NoCount
  FixedPart <- MCFixed
  MaxVCycles = 1
  TimeLimited = {1}
  MaxNodeWeight = 10
INVARIANTS
  NoSuperfluousNets
  MetricOfInput
  RecordsExact
PROPERTIES
  TimeLimitProjects
  UncoarseningEnds
