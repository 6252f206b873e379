SPECIFICATION FairSpec
CONSTANTS
    NPROC = 3
    NCPU = 2
    PgDirs = {d1, d2}
    Chans = {c1}
    Nil = Nil
    MaxPid = 3
    Calls = {"fork", "clone", "exit", "wait", "join", "kill", "sleep"}
    Disciplined = FALSE
INVARIANTS NoKillMissed
PROPERTIES OrphansReaped KilledExits
CHECK_DEADLOCK FALSE
