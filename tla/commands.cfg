\* two commands, two skills and a hidden one in two directories; two skills
\* to report on; three events to query; three events in the log of one shipped
\* skill and two of the ledger; two threads that scan, with one or two scanners;
\* commands of four characters, options of sudo included; two calls of the
\* plug-in at a time
SPECIFICATION Spec
CONSTANTS
    s1 = s1
    s2 = s2
    hidden = hidden
    d1 = d1
    d2 = d2
    c1 = c1
    c2 = c2
    r1 = r1
    r2 = r2
    vetter = vetter
    parser = parser
    a = a
    b = b
    Skills = {s1, s2, hidden}
    Parents = {d1, d2}
    ParentOf <- InDirectories
    Hidden = {hidden}
    DefaultDirs = {d2}
    DefaultTable <- DefaultEntries
    UserTables <- UserEntries
    Commands = {c1, c2}
    Found = {r1, r2}
    NotGiven = NotGiven
    MaxFindings = 2
    Events = {1, 2, 3}
    Category <- Categories
    NoFilter = NoFilter
    a1 = a1
    Rules = 1
    Assets = {a1}
    LedgerSkills = {s1, s2}
    MaxEvents = 3
    t1 = t1
    t2 = t2
    p1 = p1
    p2 = p2
    Threads = {t1, t2}
    Scanners = {p1, p2}
    Texts <- SomeTexts
    NoOne = NoOne
    MaxClears = 1
    Codes <- SomeCodes
    MaxText = 4
    MaxOptions = 3
    call1 = call1
    call2 = call2
    Calls = {call1, call2}
    MaxLosses = 1
INVARIANTS
    RememberedIsFound
    SettingsKept
    BrokenOnlyByRace
    SummariesAgree
    FindingsCount
    QueriesAgree
    PostureAsTold
    AlarmsAgree
    LoadedOnce
    AnsweredOrExcused
    ToldOrFailed
    CommandKept
    KeysTried
PROPERTIES
    PagingMissesNothing
SYMMETRY Commands12
