SPECIFICATION Spec
CONSTANTS
    l1 = l1
    l2 = l2
    l3 = l3
    l4 = l4
    s1 = s1
    s2 = s2
    NoLayer = NoLayer
    Layers = {l1, l2, l3, l4}
    Setters = {s1, s2}
    Caps = {0, 1, 2, 3}
    InitialCaps = {0, 2}
SYMMETRY Symmetry
INVARIANTS
    CapHolds
    QueueIsRecency
