\* One chip with three free blocks, two in one column of its table and one in another,
\* or with one block that two segments compete for.
SPECIFICATION FairSpec
CONSTANTS
  Tag = {t1, t2}
  Lpa = {0, 1}
  Segs = 2
  Pages = 1
  Chips = 1
  Rows = 2
  Cols = 4
  EraseMod = 2
  Uploaded <- ThreeOrOneFree
  DeadBlocks <- NoneDead
  ReqDepth = 2
  RespDepth = 2
  RamDepth = 2
  NoCmd = NoCmd
INVARIANTS TypeOK LeastErasedFound MapInjective TablesAgree
PROPERTIES ImplementsBlockMap
