SPECIFICATION Spec
CONSTANTS
    Procs = {p, q, r}
    Inodes = {f1, f2, f3}
    None = None
INVARIANTS
    MutualExclusion
CHECK_DEADLOCK FALSE
