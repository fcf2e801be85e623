SPECIFICATION MCSpec
CONSTANTS
    Processes = {p}
    Daemons = {t1, t2}
    Threshold = 2
    Period = 1
    MaxChecks = 2
    MaxNew = 3
    MaxDay = 1
    MaxCrashes = 1
INVARIANTS
    OneAtATime
    SurvivorSurvives
PROPERTIES
    EveryPhaseEnds
CHECK_DEADLOCK FALSE
