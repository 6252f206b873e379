SPECIFICATION Spec
CONSTANTS
    NPROC = 3
    NCPU = 2
    PgDirs = {d1, d2, d3}
    Chans = {c1}
    Nil = Nil
    MaxPid = 3
    Calls = {"fork", "clone", "exit", "join"}
    Disciplined = FALSE
INVARIANTS JoinSleepsForThread
SYMMETRY PgDirSymmetry
