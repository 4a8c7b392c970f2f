\* A stride larger than QSize; every source can get the extra buffers it asks for.
SPECIFICATION FairSpec
CONSTANTS
  Node = {1, 2, 3}
  Flows <- ManyToOne
  Item = {x}
  QSize = 1
  FlowStride = 2
  ExtraSizeArg = 1
  FifoDepth = 1
  FabricDepth = 1
  CountMod = 6
INVARIANT CreditsConserved
PROPERTY ImplementsFairChannels
