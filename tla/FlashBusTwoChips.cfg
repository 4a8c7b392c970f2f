SPECIFICATION Spec
CONSTANTS
  t1 = t1
  t2 = t2
  Chips = 2
  Tag = {t1, t2}
  NoTag = NoTag
  PageWords = 2
  BusQDepth = 1
  ChipQDepth = 2
  EncDepth = 1
  AckDepth = 1
  FifoDepth = 1
  Work <- AnyWork
SYMMETRY Symmetry
INVARIANTS TypeOK ChipNotDisturbed OwnPageProgrammed WordsTagged
PROPERTIES AcksFinishedWork
