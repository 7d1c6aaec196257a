CONSTANTS
    a1 = a1
    a2 = a2
    r1 = r1
    r2 = r2
    h = h
    d = d
    Clients = {a1, a2, r1, r2, h, d}
    Role <- MCRole
    Addr <- MCAddr
    Num <- MCNum
    List <- MCList
    After <- MCAfter
    MaxExceptions = 1

SPECIFICATION FairSpec
INVARIANTS DiscoverySound RegistrationIdempotent NoTornRegistration
PROPERTIES RegistrationStored ClientsServed
CHECK_DEADLOCK FALSE
