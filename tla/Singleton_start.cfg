SPECIFICATION Spec
CONSTANTS
    Procs = {p1, p2}
    Inodes = {i1, i2}
    None = none
SYMMETRY Identities
INVARIANTS MutualExclusion
