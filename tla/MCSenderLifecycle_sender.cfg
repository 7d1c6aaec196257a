CONSTANTS
    Sessions = 2
    NumFlows = 1
    MaxDarAlerts = 1
    Reactions = {"shutdown", "restart", "ignore"}
    MaxSent = 1
SPECIFICATION FairSpec
INVARIANTS SoloTeardownCleans
PROPERTIES  AlertsStopTraffic TeardownEnds
CHECK_DEADLOCK FALSE
