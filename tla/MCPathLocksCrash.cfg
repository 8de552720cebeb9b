CONSTANTS
    Procs = {p1, p2, p3}
    Paths = {1}
    Inodes = {i1, i2, i3, i4}
    None = None
SPECIFICATION FaultySpec
SYMMETRY Sym
INVARIANT MutualExclusion
