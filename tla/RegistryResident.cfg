\* Two local models of two bytes each, a budget of four: decoding exceeds it.
SPECIFICATION Spec
CONSTANTS
    s1 = s1
    s2 = s2
    m1 = m1
    m2 = m2
    m3 = m3
    Sessions = {s1}
    Models = {m1, m2}
    Sizes = {0, 2}
    Budgets = {4}
    MaxReg = 2
    MaxBatch = 1
    MaxSavepoints = 0
    MaxDecoded = 1
    Untouched = Untouched
    NoEntry = NoEntry
    NoJob = NoJob
SYMMETRY Symmetry
INVARIANTS
    ResidentWithinBudget
