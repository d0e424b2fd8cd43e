SPECIFICATION Spec
CONSTANTS
  NumNodes = 4
  InitPinList <- MCInitPinList
  InitWeight <- MCInitWeight
INVARIANTS
  ArraysExact
PROPERTIES
  ImplementsIncidence
