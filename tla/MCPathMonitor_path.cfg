CONSTANTS
    s = s
    m1 = m1
    m2 = m2
    d = d
    ASes <- MCASes
    Routes <- MCRoutes
    ThNum = 4
    ThDen = 5
    MaxSims = 2

SPECIFICATION PathFairSpec
INVARIANTS StoredIsCommon NoFalseAlarm
PROPERTIES SimulationNoticed HijackerMeasured
CHECK_DEADLOCK FALSE
