SPECIFICATION ProgramsSpec
\* The programs stop after the last build or run that the bounds allow.
CHECK_DEADLOCK FALSE
CONSTANTS
    Sources = {"dense", "moe"}
    MoeSources = {"moe"}
    MaxBuilds = 3
    Features = 2
    MaxRuns = 5
    Tried <- TestSettings
    Order <- TestOrder
    CutNames <- TestCutNames
    Slots = {0, 1}
    Vectors = {"v0", "v1"}
    Garbled = "garbled"
    Tokens = {"t0", "t1"}
    FirstToken = "t0"
    Facts = {"fact"}
    Empty = "empty"
    Missing = Missing
    MaxEdits = 3
    FirstGates <- TestGates
    FirstMetas <- TestMetas
    Entities = {"a", "b", "c", "d", "the"}
    Valid = {"a", "b", "c", "d"}
    Relations = {"p", "q"}
    Nothing = "nothing"
    MaxDepth = 2
    MaxEntities = 4
    MaxErrors = 1
    MaxSessions = 3
    Models <- TestModels
    SeedLists <- TestSeeds
    Servers <- TestServers
    NoReport = NoReport
    Tids = {1, 2, 3}
    Tables <- TestTables
    Queries = {"q", "r"}
    Score <- TestScore
    NoText = NoText
    Far = 100
    Windows = {NoWindow, 0, 1, 2, 3}
    NoWindow = NoWindow
    MaxTokens = 7
    Pieces = 2
    MaxEntries = 3
    OffsetLimit = 5
    MaxAppends = 4
    Threads = {t1, t2}
    Experts = {1, 2}
    TopK = 2
    NumLayers = 2
    Maps <- TestMaps
    MaxReshards = 2
    MaxDecoded = 1
    M = 2
    EfConstruction = 5
    Similarities <- TestLayers
    Drawn <- TestLevels
    Residuals <- TestResiduals
INVARIANTS
    StateOK
    ReportedIsWhole
    VerifyTells
    LayersSurvive
    SearchSeesEdits
    SaveKeepsEdits
    WalkKept
    FeaturesKept
    ScanReturnsRanking
    SeesContext
    ReadsAppended
    TokensAreWhole
    GraphFindsNearest
