\* Both ends send; the registers wrap after 6, the receive buffer holds 4.
SPECIFICATION FairSpec
CONSTANTS
  a = a
  b = b
  Body = {a, b}
  Handed <- OneItem
  RecvQDepth = 4
  WindowSize = 2
  RegMod = 6
  SendQDepth = 1
  FlowQDepth = 2
  WireDepth = 1
  UserQDepth = 1
INVARIANTS TypeOK LinkConserved LinkNeverOverruns NoHalfDropped
PROPERTY ImplementsLink
