\* two processes, four key pairs, one init-keys at a time, which may die
SPECIFICATION ExclusiveSpec
CONSTANTS
    Procs = {p1, p2}
    Keys = {k1, k2, k3, k4}
    Absent = Absent
    Empty = Empty
SYMMETRY Symmetry
INVARIANTS
    NoFalseAlarm
    WholeAfterInit
PROPERTIES
    KeyringOnlyGrows
