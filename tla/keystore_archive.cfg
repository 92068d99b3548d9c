\* one command at a time: a rotation fails while it archives and is tried again
SPECIFICATION Spec
CONSTANTS
    Procs = {p1}
    Keys = {k1, k2, k3}
    Absent = Absent
    Empty = Empty
SYMMETRY Symmetry
INVARIANTS
    RotationKeepsSignatures
