CONSTANTS
    x = x
    y = y
    o = o
    Programs = {"sender", "standalone"}
    Paths <- MCPaths
    Alerts <- MCAlerts
    MaxDarAlerts = 2
    MaxSent = 3

SPECIFICATION Spec
INVARIANTS StatusReflectsHistory 
CHECK_DEADLOCK FALSE
