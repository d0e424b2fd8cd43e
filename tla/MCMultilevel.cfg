SPECIFICATION MCSpec
CONSTANTS
  Hypernode <- MCHypernode
  Hyperedge <- MCHyperedge
  Block <- MCBlock
  Unit = 144
  NodeOrders <- MCNodeOrders
  MaxPassIterations = 4
  MinImprovement = 0
  MaxIterationsPerLevel = 2
CHECK_DEADLOCK FALSE
INVARIANTS
  CommunitiesExact
  CoarseningExact
  FlowExact
  CutListsComplete
PROPERTIES
  RoundsImprove
