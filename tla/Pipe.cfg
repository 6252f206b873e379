SPECIFICATION FairSpec
CONSTANTS
    Procs = {p1, p2}
    None = None
    Killable = {p1}
    Data = {d0, d1}
    PipeSize = 2
    Modulus = 4
    Sizes = {0, 3}
CHECK_DEADLOCK FALSE
INVARIANTS NoReaderMissed NoWriterMissed NoUseAfterFree
PROPERTIES EndSeen IsStream
