\* Two segments compete for the one good block of a chip, one is dead on the other chip, and
\* an address is beyond the last segment; downloads, power cycles and requests interleave.
SPECIFICATION FairTransferSpec
CONSTANTS
  Tag = {t1}
  Lpa = {0, 2, 3, 4}
  Segs = 2
  Pages = 1
  Chips = 2
  Rows = 1
  Cols = 2
  EraseMod = 2
  Uploaded <- OneFree
  DeadBlocks <- LastDead
  ReqDepth = 2
  RespDepth = 1
  RamDepth = 1
  NoCmd = NoCmd
  BufDepth = 1
  WaitForDone = TRUE
INVARIANTS TransferTypeOK SavedIsMap FlashHoldsOwnData
PROPERTIES EveryRequestAnswered
