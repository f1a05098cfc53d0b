CONSTANTS
    c1 = c1
    c2 = c2
    c3 = c3
    route = route
    trust = trust
    AnyClass = AnyClass
    NoCall = NoCall
    Calls = {c2, c3}
    Direct = {c3}
    ClassOf <- Classes3
    Sensitive = {trust}
    Hosts = {h1}
    Filters <- AnyOrRoute
    Ttls = {0, 2}
    MaxTtl = 2
    MaxClock = 2
    MaxGrants = 1
    MaxKey = 2
SPECIFICATION FairSpec
INVARIANT SignedOnlyIfAuthorised
INVARIANT NeverRetiredKey
PROPERTY HostReturns
 
CHECK_DEADLOCK FALSE
