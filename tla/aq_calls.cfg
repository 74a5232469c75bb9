SPECIFICATION FairSpec
CONSTANTS
  Word = 12
  Threads = {t1, t2}
  CtrlMaxEntries = 8
  SqPerPage = 3
  CqPerPage = 4
  Late = TRUE
  MaxCalls = 4
  MaxCreates = 2
INVARIANTS TypeOK OwnUnlessLate AnsweredOnce AsqIntegrity QuietAfterDestroy
PROPERTIES RpcReturns
