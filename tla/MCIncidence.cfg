SPECIFICATION Spec
CONSTANTS
  Hypernode <- MCHypernode
  Hyperedge <- MCHyperedge
  InitPins <- MCInitPins
  InitNumPins <- MCInitNumPins
  InitWeight <- MCInitWeight
INVARIANTS
  TypeOK
  DualIncidence
  CutOffContracted
  OriginalRestored
PROPERTIES
  ReverseReplay
