CONSTANTS
    a = a
    b = b
    c = c
    Nodes <- MCNodes
    Lists <- MCLists
    DstCounts = {0, 1, 2}
    MinNodes = {0, 1}
    Hosts <- MCHosts
    Neighbours = {3}
    MaxOctet = 6
    MaxFlows = 4
    MaxFds = 5
    MaxFlips = 1
    MaxSrcs = 5

SPECIFICATION FairSpec
INVARIANTS ProbeSound FlowsCoverHops AddressesFree 
PROPERTIES PlanEndsIfSuccessorsAnswer
CHECK_DEADLOCK FALSE
