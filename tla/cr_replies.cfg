SPECIFICATION Spec
CONSTANTS
  Clients = {c1, c2}
  IntrNos = {n1, n2}
  MaxAdapter = 1
  MaxEnables = 2
  MaxReqs = 2
  Reenable = TRUE
  MapFails = TRUE
SYMMETRY ClientSymmetry
INVARIANTS TypeOK  NoReplyStolen RepliedOnce OwnUnlessLate
