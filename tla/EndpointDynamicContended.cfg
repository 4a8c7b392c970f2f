\* Two sources contend for fewer extra buffers than both could ask for (FlowStride - 1
\* each), with QSize + ExtraSize just enough for neither to starve.
SPECIFICATION Spec
CONSTANTS
  Node = {1, 2, 3}
  Flows <- ManyToOne
  Item = {x}
  QSize = 2
  FlowStride = 3
  ExtraSizeArg = 1
  FifoDepth = 1
  FabricDepth = 1
  CountMod = 10
INVARIANTS TypeOK BuffersConserved PipelinesNeverWait NoStarvation
VIEW Differences
