SPECIFICATION FairSpec
CONSTANTS
    n1 = n1
    t1 = t1
    t2 = t2
    NoNetwork = NoNetwork
    NoTunnel = NoTunnel
    Networks = {n1}
    Tunnels = {t1, t2}
    Graces = {1}
    GROWTH = 2
    FAST_TRIES = 2
INVARIANTS
    TypeOK
    PatienceKept
    GivenUp
    
    PausesKept
PROPERTIES
    KeepsPromise
    Recovers
CHECK_DEADLOCK FALSE
