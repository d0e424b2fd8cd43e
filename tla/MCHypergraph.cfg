SPECIFICATION Spec
CONSTANTS
  Hypernode <- MCHypernode
  Hyperedge <- MCHyperedge
  InitPins <- MCInitPins
  InitNumPins <- MCInitNumPins
  InitWeight <- MCInitWeight
  Block <- MCBlock
  NoBlock <- MCNoBlock
  NoCount = NoCount
  FixedPart <- MCFixed
  MaxVCycles = 1
INVARIANTS
  PartitionDataExact
  ObjectiveProjected
PROPERTIES
  UndoKeepsPartition
