SPECIFICATION FairSpec
CONSTANTS
  Word = 12
  SQs = {1}
  CtrlMaxEntries = 3
  SqPerPage = 3
  CqPerPage = 12
  DataCmds <- UnevenCmds
  Write = TRUE
  InOrder = TRUE
  Hoisted = FALSE
PROPERTY TransferEnds
