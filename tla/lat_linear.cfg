SPECIFICATION Spec
CONSTANTS
    Word = 64
    Requested = 3
    Granted = {3}
    Depth = 2
    CtrlEntries = {9}
    PageEntries = 4
    BlocksPerPage = 2
    Mdts = 3
    PageRatio = 2
    Patterns = {"linear"}
    NumBlocks = {24}
    StartBlocks = {0}
    RandBlocks = {3}
    Repetitions = 2
    SizeWord = 64
    BlkWord = 16
    LateStart = FALSE
INVARIANTS LinearDisjoint
