SPECIFICATION Spec
CONSTANTS
  Clients = {c1}
  IntrNos = {n1}
  MaxAdapter = 2
  MaxEnables = 3
  MaxReqs = 1
  Reenable = FALSE
  MapFails = FALSE
INVARIANTS PublishedLive EnabledPublished
