\* one command at a time: three versions, three signatures
SPECIFICATION SerialSpec
CONSTANTS
    Procs = {p1}
    Contents = {c1, c2}
    Scanners = {s1}
    Given = {"pass"}
    Damage = {"removed", "unparsable", "altered"}
    MaxVersion = 3
    MaxStamp = 3
    NoFile = NoFile
    Unparsable = Unparsable
    Partial = Partial
SYMMETRY Symmetry
INVARIANTS
    LatestIsNewest
    AuditAcceptsSigned
    SnapshotsMatch
PROPERTIES
    ImplementsChain
