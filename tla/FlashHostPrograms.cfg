SPECIFICATION FairSpec
CONSTANTS
  NumTags = 2
  Nodes = 2
  Buses = 1
  Chips = 2
  Blocks = 2
  Pages = 1
  Rounds = 1
  MyId = 1
  MaxFaults = 1
  NoPage = NoPage
  Page <- CardPage
  BlockOf <- CardBlockOf
  Programs <- HostPrograms
  Repeating <- OneOfAKind
INVARIANTS RequestTagsDistinct CountersMatchDevice BuffersBelong ReportsTrue
PROPERTIES EveryProgramEnds
CHECK_DEADLOCK FALSE
VIEW View
