SPECIFICATION FairSpec
CONSTANTS
    a1 = a1
    a2 = a2
    q1 = q1
    q2 = q2
    l1 = l1
    watch = watch
    NRules = 1
    Always = {}
    Addrs = {a1}
    Queries = {q1, q2}
    Links = {l1}
    Watch = watch
    RouteMayFail = FALSE
    PfMayFail = TRUE
    MixedSweep = FALSE
    Nothing = Nothing
INVARIANTS
    TypeOK
    HostsHeld
PROPERTY
    HeldInTheEnd
    HoldsAtOnce
