SPECIFICATION FairSpec
CONSTANTS
    Threads = {t1, t2, t3}
    NoProc = NoProc
    Modulus = 4
    Rereads = {FALSE}
PROPERTIES AcquireReturns
