SPECIFICATION Spec
CONSTANTS
  Word = 12
  Threads = {t1, t2}
  CtrlMaxEntries = 8
  SqPerPage = 3
  CqPerPage = 4
  Late = FALSE
  MaxCalls = 4
  MaxCreates = 1
SYMMETRY ThreadSymmetry
INVARIANTS InTimeAnswered
