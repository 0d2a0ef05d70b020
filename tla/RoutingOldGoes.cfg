SPECIFICATION Spec
CONSTANTS
    l1 = l1
    l2 = l2
    a1 = a1
    s1 = s1
    e1 = e1
    e2 = e2
    NoLink = NoLink
    NoServer = NoServer
    NRules = 1
    Order <- OneTunnel
    Links = {l1}
    Servers = {e1}
    Addrs = {a1}
    Subnets = {}
    Inside = {}
    MaxSeq = 2
    RouteMayFail = FALSE
    ExitsUnseen = FALSE
    Handover = TRUE
INVARIANTS
    OldGoesEmpty
CHECK_DEADLOCK FALSE
