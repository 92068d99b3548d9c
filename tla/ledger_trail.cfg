\* a baseline made after signed versions, then audit
SPECIFICATION SerialSpec
CONSTANTS
    Procs = {p1}
    Contents = {c1, c2}
    Scanners = {s1}
    Given = {"pass"}
    Damage = {"removed", "unparsable", "altered"}
    MaxVersion = 3
    MaxStamp = 2
    NoFile = NoFile
    Unparsable = Unparsable
    Partial = Partial
SYMMETRY Symmetry
INVARIANTS
    AuditTrailIntact
