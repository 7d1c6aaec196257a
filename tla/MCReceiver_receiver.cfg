CONSTANTS
    f = f
    g = g
    Modes = {"file", "echo"}
    Clients = {c1, c2}
    Names = {f, g}
    Missing = {g}
    Files <- MCFiles
    IntMax = 3
    SendMax = 2
    Hellos = 2
    MaxFds <- MCMaxFds
    MaxRestarts = 1
    MaxHangUps = 1
    Other = Other

SPECIFICATION FairSpec
INVARIANTS StoredWhole 
PROPERTIES SessionsEnd
CHECK_DEADLOCK FALSE
