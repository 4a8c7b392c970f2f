\* Two sources and one sink that only acknowledges; the stride is clipped to QSize.
SPECIFICATION FairSpec
CONSTANTS
  Node = {1, 2, 3}
  Flows <- ManyToOne
  Item = {x, y}
  QSize = 2
  FlowStrideArg = 3
  SendQDepth = 1
  FabricDepth = 1
  BudgetMod = 3
INVARIANTS NeverHeldUp
PROPERTY ImplementsFairChannels
