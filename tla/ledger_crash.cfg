\* one command at a time, which may die at any step: two scanners
SPECIFICATION Spec
CONSTANTS
    Procs = {p1}
    Contents = {c1, c2}
    Scanners = {s1, s2}
    Given = {"pass", "deny"}
    Damage = {"removed", "unparsable", "altered"}
    MaxVersion = 2
    MaxStamp = 2
    NoFile = NoFile
    Unparsable = Unparsable
    Partial = Partial
SYMMETRY Symmetry
INVARIANTS
    LatestOnRecord
    NoLostScan
PROPERTIES
    VersionKeepsContent
