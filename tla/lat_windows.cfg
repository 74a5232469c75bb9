SPECIFICATION Spec
CONSTANTS
    Word = 64
    Requested = 2
    Granted = {1, 2}
    Depth = 2
    CtrlEntries = {2, 3, 9}
    PageEntries = 4
    BlocksPerPage = 2
    Mdts = 3
    PageRatio = 2
    Patterns = {"sequential", "linear", "random"}
    NumBlocks = {17, 33}
    StartBlocks = {0, 3}
    RandBlocks = {3}
    Repetitions = 2
    SizeWord = 64
    BlkWord = 16
    LateStart = TRUE
INVARIANTS TypeOK InStep CommandMemory FullOnlyWhere PlanCovers
PROPERTIES BenchmarkEnds
