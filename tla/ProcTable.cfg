SPECIFICATION Spec
CONSTANTS
    NPROC = 4
    NCPU = 2
    PgDirs = {d1, d2, d3, d4}
    Chans = {c1}
    Nil = Nil
    MaxPid = 5
    Calls = {"fork", "clone", "exec", "exit", "wait", "join", "sleep"}
    Disciplined = TRUE
INVARIANTS AddressSpacesLive NoZombieMissed ParentsStarted CloneReturnsThread
SYMMETRY PgDirSymmetry
CHECK_DEADLOCK FALSE
