CONSTANTS
    Modes = {"full", "lat", "hop", "prop"}
    Traces <- MCTraces
    NonesNum = 1
    NonesDen = 2
    MaxPings = 2
    MaxHopCounts = 2
    MaxExp = 12
    MaxSims = 1
    ToolsFail = TRUE

SPECIFICATION FairSpec
INVARIANTS ListsLongEnough RouteMeasuredInRota 
 
CHECK_DEADLOCK FALSE
