CONSTANTS
    Servers = {s1, s2}
    Monitors = {m1, m2}
    Pings = 2
    MaxKills = 2
    NoFile = NoFile
    Empty = Empty

SPECIFICATION FairSpec
INVARIANTS KeysMatch VerdictsSound
PROPERTIES PingsMeasured 
CHECK_DEADLOCK FALSE
