\* one call at a time
SPECIFICATION PluginSpec
CONSTANTS
    c1 = c1
    Calls = {c1}
    MaxLosses = 1
INVARIANT DenialWarned
