SPECIFICATION Spec
CONSTANTS
  Word = 12
  SQs = {1, 2}
  CtrlMaxEntries = 3
  SqPerPage = 3
  CqPerPage = 12
  DataCmds <- UnevenCmds
  Write = TRUE
  InOrder = TRUE
  Hoisted = TRUE
INVARIANTS PrpListIntact ReturnsAfterAll
PROPERTY ImplementsService
