SPECIFICATION Spec
CONSTANTS
  Tasks = {t1, t2}
  Files = {f1, f2}
  Pdevs = {p1}
  NumDevs = 1
  NumRefs = 2
  MaxPages = 3
  UserAddrs = {1, 2}
  GpuAddrs = {3}
  MapIds = {m1, m2}
  MaxAfterRace = 4
SYMMETRY KernelSymmetry
INVARIANTS TypeOK SafeUnlessRaced MapsReachable MapsFindable NothingLeft
PROPERTIES OnlyOwnerUnmaps
