CONSTANTS
    s1 = s1
    s2 = s2
    n1 = n1
    n2 = n2
    Senders = {s1, s2}
    Nodes = {n1, n2}
    NumSrcs = 1
    NumDsts = 2
    NumHops = 1
    Hops <- MCHops1
    LocalIP <- MCLocal
    PublicIP <- MCPublic
    Dsts <- MCDsts
    StunSenders = {}
    MaxFaults = 1
    MaxRestarts = 1
SPECIFICATION FairSpec
INVARIANTS SetupComplete Delivery
PROPERTIES  ImplementsProvisioning
CHECK_DEADLOCK FALSE
