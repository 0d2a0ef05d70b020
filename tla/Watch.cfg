SPECIFICATION FairSpec
CONSTANTS
    n1 = n1
    n2 = n2
    c1 = c1
    c2 = c2
    s1 = s1
    s2 = s2
    s3 = s3
    en0 = en0
    en1 = en1
    NoNetwork = NoNetwork
    NoCode = NoCode
    Networks = {n1, n2}
    Iface <- TwoIfaces
    Faking = {n1}
    Codes = {c1, c2}
    CountryOf <- TwoCountries
    OwnerCodes = {c2}
    COUNTRY_DEFAULT = c1
    Services = {s1, s2, s3}
    use_fakeip = TRUE
INVARIANTS
    FakeipKnown
    SeenOnItsNetwork
PROPERTIES
    CountrySettles
    FakeipSettles
