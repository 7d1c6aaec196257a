CONSTANTS
    x = x
    y = y
    o = o
    Programs = {"sender"}
    Paths <- MCPaths
    Alerts <- MCAlerts
    MaxDarAlerts = 2
    MaxSent = 2
SPECIFICATION Spec
INVARIANTS MonitoredPathsInspected
CHECK_DEADLOCK FALSE
