SPECIFICATION Spec
CONSTANTS
    Procs = {p1, p2}
    Bufs = {b1, b2, b3}
    Blocks = {k1, k2, k3, k4}
    Data = {d0, d1}
    Empty = d0
    None = None
    MaxPinned = 2
SYMMETRY CacheSymmetry
INVARIANTS RefsExact RequestsServed
PROPERTIES OnlyWritersChange
