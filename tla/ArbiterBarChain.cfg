\* Three nodes; a flow along the chain, one that joins it, one the other way, a local one.
SPECIFICATION FairSpec
CONSTANTS
  x = x
  y = y
  NodeCount = 3
  EndpointCount = 3
  Flows <- Chain
  Item = {x, y}
  Handed <- TwoKinds
  Window <- TwoOut
  InFlight = 3
  InDepth = 1
  OutDepth = 1
  LinkDepth = 1
  NoId = NoId
INVARIANTS TypeOK EveryHopNearer OldestArrives
PROPERTY ImplementsFairChannels
