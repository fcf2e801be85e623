SPECIFICATION MCSpec
CONSTANTS
    Variants = {1, 2}
    Empty = {}
    PairSeq <- OnePair
    Procs = {"p", "q"}
    Models = {"m1", "m2"}
    Limit = 5
    Resends = 1
    MaxAttempts = 2
    MaxChanges = 1
    LogCreatives = {"c1", "c2", "c3"}
    Labels = {"f1", "f2"}
    JudgeAnswers <- EachAnswer
    MaxTime = 3
    GatedKinds = {"dna", "observation"}
    ObservationKind = "observation"
    Runs = {"r"}
    Calibrators = {"x", "y"}
    MinSample = 1
    RateLimit = 60
    ObservationLimit = 50
    MaxAuto = 2
    Assets = {1, 2}
    Families = {"f1", "f2"}
    Tracks = {"t1", "t2", "t3"}
    Skeletons = {"s1", "s2"}
    NewSkeletons = {"n"}
    TrackFamily <- FamilyOfTrack
    SkeletonFamily <- FamilyOfSkeleton
    Endings = {"success", "fail", "unknown"}
    CardKeys = {"k1", "k2"}
    Threads = {"t1", "t2"}
    CacheLimit = 1
    MaxBuilds = 4
    Creatives = {1, 2, 3}
    FileKeys = {"k"}
    FirstName <- Named
    NewName <- Renamed
    Bands <- NoneOrSome
    CaseRulings <- BookRulings
    Concluded <- ClosedBefore
    BorderlineLimit = 1
    MaxActs = 2
    Days = {1, 2, 3}
    DeliveryRow <- FewRows
    MinEffect = 150
    Odds = 3
    MinResults = 2
    MinSpend = 1
    MaxRows = 2
    Confirmed = {1, 2, 3, 4}
    SampleFamilies = {"f1", "f2"}
    SampleEndings = {"fail", "open"}
    PerGold = 2
    SampleTotal = 5
    Parts = {"outcomes", "brake", "policy", "cards", "sharing", "inbox", "experiment", "sampling"}
INVARIANTS
    EvidenceDecides
    CardRulesHold
    OneCardPerKey
    CallsWithinLimit
    SampledEvenly
PROPERTIES
    JudgementsStand
    BrakeHolds
    InboxIsOpen
    OneContext
CHECK_DEADLOCK FALSE
