\* two rules, one shipped skill, two ledger skills, three events
SPECIFICATION MiddlewareSpec
CONSTANTS
    a1 = a1
    s1 = s1
    s2 = s2
    Rules = 2
    Assets = {a1}
    LedgerSkills = {s1, s2}
    MaxEvents = 3
INVARIANT FailureShown
