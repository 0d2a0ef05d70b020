SPECIFICATION Spec
CONSTANTS
    a1 = a1
    a2 = a2
    q1 = q1
    q2 = q2
    l1 = l1
    watch = watch
    NRules = 2
    Always = {1, 2}
    Addrs = {a1, a2}
    Queries = {q1}
    Links = {l1}
    Watch = watch
    RouteMayFail = FALSE
    PfMayFail = FALSE
    MixedSweep = TRUE
    Nothing = Nothing
INVARIANT HostsHeld
