\* One session, three models, byte sizes and budgets that make it evict.
SPECIFICATION Spec
CONSTANTS
    s1 = s1
    s2 = s2
    m1 = m1
    m2 = m2
    m3 = m3
    Sessions = {s1}
    Models = {m1, m2, m3}
    Sizes = {0, 1, 3}
    Budgets = {3, 5}
    MaxReg = 4
    MaxBatch = 2
    MaxSavepoints = 0
    MaxDecoded = 1
    Untouched = Untouched
    NoEntry = NoEntry
    NoJob = NoJob
SYMMETRY Symmetry
INVARIANTS
    TotalMatchesEntries
    RunningBackendIsCached
PROPERTIES
    EvictionsAreJustified
