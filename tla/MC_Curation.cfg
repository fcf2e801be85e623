SPECIFICATION MCSpec
CONSTANTS
    Parts = {"scan", "graph"}
    Assets = {a1, a2}
    Lab = {a2}
    GraphCreatives = {c1, c2, c3}
    PoolThreads = {t1, t2}
    Handlers = {h1}
    MaxRuns = 2
    MaxHuman = 1
    Creatives = {1, 2, 3}
    Phases = {p1}
    Sweepers = {s1}
INVARIANTS
    SurvivorSurvives
    MirrorNodesAtRest
    EarlyMarksKeepApart
PROPERTIES
    RulingBeatsAnswer
VIEW BesidesNeo
SYMMETRY Interchangeable
CHECK_DEADLOCK FALSE
