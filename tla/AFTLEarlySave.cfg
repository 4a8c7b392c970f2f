\* The host of main_example.cpp, which saves the file right after downloadMap().
SPECIFICATION TransferSpec
CONSTANTS
  Tag = {t1}
  Lpa = {0, 1}
  Segs = 2
  Pages = 1
  Chips = 1
  Rows = 1
  Cols = 2
  EraseMod = 2
  Uploaded <- OneFree
  DeadBlocks <- NoneDead
  ReqDepth = 2
  RespDepth = 1
  RamDepth = 1
  NoCmd = NoCmd
  BufDepth = 1
  WaitForDone = FALSE
INVARIANTS SavedIsMap
