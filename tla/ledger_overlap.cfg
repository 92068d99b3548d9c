\* two command-line processes that overlap and die at any step
SPECIFICATION Spec
CONSTANTS
    Procs = {p1, p2}
    Contents = {c1, c2}
    Scanners = {s1}
    Given = {"deny"}
    Damage = {}
    MaxVersion = 2
    MaxStamp = 2
    NoFile = NoFile
    Unparsable = Unparsable
    Partial = Partial
SYMMETRY Symmetry
VIEW WithoutHistory
INVARIANTS
    TypeOK
    NoGap
