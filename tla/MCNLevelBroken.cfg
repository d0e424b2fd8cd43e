SPECIFICATION Spec
CHECK_DEADLOCK FALSE
CONSTANTS
  Hypernode <- MCHypernode
  Hyperedge <- MCHyperedge
  InitPins <- MCInitPins
  InitNumPins <- MCInitNumPins
  InitWeight <- MCInitWeight
  InitEdgeWeight <- MCInitEdgeWeight
  Block <- MCBlock
  NoBlock <- MCNoBlock
  NoCount = NoCount
  FixedPart <- MCFree
  MaxVCycles = 1
  TimeLimited = {0}
  MaxNodeWeight = 9
INVARIANTS
  RatedIsContractible
