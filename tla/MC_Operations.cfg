SPECIFICATION MCSpec
SYMMETRY Interchangeable
CONSTANTS
    Creatives = {c1, c2, c3}
    Proposals = {p1, p2}
    Keys = {k}
    Handlers = {h1, h2}
    MaxFamilies = 3
    MaxRequests = 3
    Batches <- TwoBatches
    Names = {"n"}
    Codes = {"D1", "D9"}
    Confirmed = {"D1"}
    MaxItems = 2
    LinkPairs = {"p", "q"}
    Factors = {"a", "b"}
    Measurable = {"a"}
    Reviews = {"r1", "r2"}
    MaxLinks = 2
    MaxEdits = 3
    Scored = {"c", "d"}
    Refreshers = {1, 2}
    Offered <- EachOffer
    Contexts = {k1, k2}
    Lines <- EachLine
    MinSpend = 5
    MinPayers = 3
    Significant = 20
    IdleDays = 1
    Evolution <- EvenEvolution
    Confidence <- EvenConfidence
    Decay = 3
    ArchiveScore = 45
    ArchiveIdle = 1
    WatchScore = 50
    MaxRows = 2
    MaxDay = 3
    MaxRefreshes = 2
    MaxActs = 2
    Judged <- EachMetrics
    Market <- Medians
    VerdictIdle = 14
    MinInstalls = 2
    Frames = {1, 2, 3, 4}
    MaxSource = 3
    MaxTarget = 4
    Edge = 2
    MaxLonger = 1
    Analysed = {1, 2, 3}
    Themed = {"e", "f", "g"}
    Text <- FewWords
    Shipped <- OneShipped
    Theme <- OneTheme
    Confirmers = {1}
    MinCorrections = 1
    MinSupport = 2
    MechanicMin = 30
    GenericMax = 5
    MaxWords = 1
    MaxLogs = 3
    Compared = {1, 2, 3}
    Scores = {0, 60, 61, 62, 68}
    Thresholds = {29, 30, 31, 34}
    Value <- TwoAHundredth
    Float <- Drifting
    Current = 34
    MinRuled = 2
    MinGain = 2
    MaxRulings = 3
    Parts = {"families", "proposals", "words", "calibration", "links", "difference", "verdicts", "refresh"}
INVARIANTS
    FamilyRequestsHold
    FamiliesDisjoint
    EditsAreFound
    DearerIsNotKinder
PROPERTIES
    BatchFamilyHasMembers
    MinedFairly
    CalibrationSettles
    MachineOnlyMeasures
    QuietRefreshIsSilent
CHECK_DEADLOCK FALSE
