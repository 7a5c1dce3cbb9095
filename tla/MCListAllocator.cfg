SPECIFICATION Spec
CONSTANTS
  HeapStart = 4096
  HeapSize = 136
  Layouts <- MCLayouts
INVARIANTS FreeListOK NoOverlap Conserved NeverPanics
PROPERTY OnlyAlignmentLeaks
