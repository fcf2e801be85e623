SPECIFICATION MCSpec
CONSTANTS
    Parts = {"graph"}
    Assets = {a1, a2}
    Lab = {a2}
    GraphCreatives = {c1, c2, c3}
    PoolThreads = {t1, t2}
    Handlers = {h1}
    MaxRuns = 2
    MaxHuman = 0
    Creatives = {1}
    Phases = {p1}
    Sweepers = {s1}
INVARIANTS
    CompetitorsApart
VIEW BesidesNeo
SYMMETRY Interchangeable
CHECK_DEADLOCK FALSE
