\* Two nodes that send to each other: acks and data share the sending FIFOs.
SPECIFICATION FairSpec
CONSTANTS
  Node = {1, 2}
  Flows <- TwoWay
  Item = {x}
  QSize = 2
  FlowStrideArg = 1
  SendQDepth = 1
  FabricDepth = 2
  BudgetMod = 4
INVARIANTS TypeOK CreditsConserved
PROPERTY ImplementsChannels
