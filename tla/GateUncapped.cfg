SPECIFICATION Spec
CONSTANTS
    l1 = l1
    l2 = l2
    l3 = l3
    l4 = l4
    s1 = s1
    s2 = s2
    NoLayer = NoLayer
    Layers = {l1, l2, l3}
    Setters = {s1, s2}
    Caps = {1, 2}
    InitialCaps = {0}
SYMMETRY Symmetry
INVARIANTS
    LiveWithinCap
