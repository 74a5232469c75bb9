SPECIFICATION FairSpec
CONSTANTS
  Clients = {c1}
  IntrNos = {n1}
  MaxAdapter = 1
  MaxEnables = 1
  MaxReqs = 1
  Reenable = FALSE
  MapFails = FALSE
PROPERTIES DisableReturns
