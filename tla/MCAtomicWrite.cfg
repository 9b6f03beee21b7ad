SPECIFICATION Spec
CONSTANTS
    None = None
    Torn = Torn
    Procs = {p1, p2}
    Values = {v1, v2}
    Inodes = {i1, i2, i3, i4}
    MaxWrites = 3
    MaxFaults = 2
SYMMETRY Symmetry
INVARIANTS
    WholeFile
    AckedIsDurable
PROPERTY
    ReplacesWhole
CHECK_DEADLOCK FALSE
