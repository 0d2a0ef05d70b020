SPECIFICATION FairSpec
CONSTANTS
    a1 = a1
    a2 = a2
    k1 = k1
    k2 = k2
    k3 = k3
    wifi = wifi
    usb = usb
    own = own
    Resolver = Resolver
    NoFile = NoFile
    NoToken = NoToken
    Addrs = {a1, a2}
    Tokens = {k1, k2, k3}
    Services = {wifi, usb}
    Had <- TwoServices
    DnsMayFail = TRUE
    Failing = {"enable", "load"}
INVARIANTS
    TypeOK
    
    
    PfReferenced
    TakenBack
    ServersKept
    NamesFirst
PROPERTY
    TakenInTheEnd
