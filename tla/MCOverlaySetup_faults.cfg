CONSTANTS
    s1 = s1
    s2 = s2
    n1 = n1
    n2 = n2
    Senders = {s1, s2}
    Nodes = {n1, n2}
    NumSrcs = 2
    NumDsts = 1
    NumHops = 2
    Hops <- MCHops2
    LocalIP <- MCLocal
    PublicIP <- MCPublic
    Dsts <- MCDsts
    StunSenders = {s2}
    MaxFaults = 2
    MaxRestarts = 1
SPECIFICATION Spec
INVARIANTS TypeOK ExchangeInv AckedInstalled CrashContainment OwnRulesClean
CHECK_DEADLOCK FALSE
