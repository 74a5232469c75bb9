SPECIFICATION Spec
CONSTANTS
    Ctrls = {c1}
    Handles = {h1, h2}
    Threads = {t1, t2}
    CtrlPage = 2
    GpuPage = 4
    RawPages = {3, 4}
    Sizes = {5}
    VAddrs = {1, 2}
    Kinds = {"raw", "sysfs", "smartio", "phys", "host", "cuda", "local", "local_va", "remote", "remote_va", "create", "attach", "connect", "id_user", "id_module", "id_smartio", "read_module", "read_smartio", "integrity", "rpc_server", "rpc_client", "latency", "latency_gpu"}
    Lone = {"phys", "local", "local_va", "remote", "remote_va", "create", "attach", "connect"}
SYMMETRY HandleSymmetry
INVARIANTS TypeOK CleanAfter Grounded ModuleAgrees AddressesCover FaultsKnown
