SPECIFICATION Spec
CONSTANTS
  Hypernode <- MCHypernode
  Hyperedge <- MCHyperedge
  InitPins <- MCInitPins
  InitNumPins <- MCInitNumPins
  InitWeight <- MCInitWeight
  Block <- MCBlock
  NoBlock <- MCNoBlock
  NoCount = NoCount
  FixedPart <- MCFree
  MaxVCycles = 1
INVARIANTS
  BlockSizesExact
