\* a process with two threads, and one with a single thread
SPECIFICATION Spec
CONSTANTS
    t1 = t1
    t2 = t2
    t3 = t3
    p1 = p1
    p2 = p2
    Threads = {t1, t2, t3}
    Processes = {p1, p2}
    ProcessOf <- TwoAndOne
    MaxEvents = 2
    MaxFiles = 3
    MaxDamage = 2
    Nobody = Nobody
INVARIANTS
    SecondTryIsEnough
PROPERTIES
    ImplementsView
    OneRebuildEach
    SoundKeptByWitness
    RaisesOnlyAtExit
SYMMETRY Threads1
