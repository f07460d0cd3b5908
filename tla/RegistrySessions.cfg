\* Two sessions, two models: transactions, stale entries, the poisoned mutex.
SPECIFICATION Spec
CONSTANTS
    s1 = s1
    s2 = s2
    m1 = m1
    m2 = m2
    m3 = m3
    Sessions = {s1, s2}
    Models = {m1, m2}
    Sizes = {0}
    Budgets = {1}
    MaxReg = 3
    MaxBatch = 1
    MaxSavepoints = 1
    MaxDecoded = 0
    Untouched = Untouched
    NoEntry = NoEntry
    NoJob = NoJob
SYMMETRY Symmetry
INVARIANTS
    LruMatchesCache
    OwnRegistrationServed
PROPERTIES
    StalenessHasACause
