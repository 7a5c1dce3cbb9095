SPECIFICATION FairSpec
CONSTANTS
  t1 = t1
  t2 = t2
  Threads <- MCThreads
  Cols = 2
  Rows = 2
  Texts <- MCTexts
  Spinner <- MCSpinner
  Picture <- MCPicture
  DumpLines = 1
  MaxCalls = 3
INVARIANTS
  PrintIntact
PROPERTIES
  DrawsAlone
  PrintReturns
