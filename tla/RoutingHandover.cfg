SPECIFICATION Spec
CONSTANTS
    l1 = l1
    l2 = l2
    a1 = a1
    s1 = s1
    e1 = e1
    e2 = e2
    NoLink = NoLink
    NoServer = NoServer
    NRules = 2
    Order <- SharedBackup
    Links = {l1, l2}
    Servers = {e1}
    Addrs = {a1, e1}
    Subnets = {}
    Inside = {}
    MaxSeq = 2
    RouteMayFail = FALSE
    ExitsUnseen = TRUE
    Handover = TRUE
INVARIANTS
    
    ServersDirect
CHECK_DEADLOCK FALSE
