SPECIFICATION FairSpec
CONSTANTS
  Word = 16
  SQs = {1}
  CtrlMaxEntries = 4
  SqPerPage = 4
  CqPerPage = 16
  DataCmds <- LapsCmds
  Write = FALSE
  InOrder = FALSE
  Hoisted = FALSE
INVARIANTS TypeOK IInv CommandIntegrity PhaseTagSound HeldCompletion
PROPERTIES TransferEnds
