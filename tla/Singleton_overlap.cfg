SPECIFICATION Spec
CONSTANTS
    Procs = {p1, p2, p3, p4}
    Inodes = {i1, i2, i3, i4}
    None = none
SYMMETRY Identities
PROPERTIES SecureHolderStays
