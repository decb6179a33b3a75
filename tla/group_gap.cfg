SPECIFICATION GroupSpec
CONSTANTS
  ReaderCount = 2
  WriterCount = 2
  Losable = {"sample", "outside", "end"}
  MaxPart = 1
  MaxSets = 2
  Loose = {1}
CHECK_DEADLOCK FALSE
INVARIANT GroupAtomic
