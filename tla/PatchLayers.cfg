SPECIFICATION Spec
CONSTANTS
    r1 = r1
    r2 = r2
    t1 = t1
    t2 = t2
    x = x
    strong = strong
    weak = weak
    None = None
    Absent = Absent
    EmptyGate = EmptyGate
    Slots = {0, 1, 2}
    Tokens = {t1, t2}
    Gates = {strong, weak, EmptyGate}
    K = 1
    MaxOps = 3
    Layers = {1}
    Readers = {r1, r2}
    Entities = {"n", "m"}
    Relations = {x}
    Facts = {"f"}
    Widths = {1, 2}
    Hidden = 2
    TopK = {1}
    GateScore <- TestGateScore
    BaseMeta <- TestBaseMeta
    BaseScore <- TestBaseScore
    CScore <- TestCScore
    PatchFiles <- TestPatches
SYMMETRY Symmetry
INVARIANTS
    Replay
    BakeAgrees
    SearchExact
    FactsKept
PROPERTIES
    StoreAnswers
