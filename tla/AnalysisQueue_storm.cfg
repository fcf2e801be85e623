SPECIFICATION Spec
CONSTANTS
    a1 = a1
    a2 = a2
    w1 = w1
    w2 = w2
    t1 = t1
    t2 = t2
    r1 = r1
    r2 = r2
    Assets = {a1}
    Workers = {w1, w2}
    Threads = {t1}
    Requests = {r1, r2}
    MaxAttempts = 2
    Budget <- StormBudget
    NoAsset = NoAsset
    NoWorker = NoWorker
SYMMETRY Symmetry
INVARIANTS
    TypeOK
    ClaimInv
    SettledAgreement
CHECK_DEADLOCK FALSE
