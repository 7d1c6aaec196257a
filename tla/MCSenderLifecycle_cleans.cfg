CONSTANTS
    Sessions = 1
    NumFlows = 1
    MaxDarAlerts = 1
    Reactions = {"shutdown"}
    MaxSent = 1
SPECIFICATION Spec
INVARIANTS TeardownCleans
CHECK_DEADLOCK FALSE
