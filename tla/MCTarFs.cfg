SPECIFICATION Spec
CONSTANTS
  Threads = {t1, t2}
  Archive <- MCArchive
  Names = {"empty", "bmp", "absent"}
  BufferSize = 2
  Chunks = {2}
  Offsets <- MCOffsets
  MaxOpens = 3
INVARIANTS LoadsWhole SharedOnce
PROPERTIES ClosedForever
SYMMETRY Symmetry
CHECK_DEADLOCK FALSE
