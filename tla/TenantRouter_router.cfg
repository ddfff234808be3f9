\* One device, two tenants that come and go, two requests open at once; the device
\* keeps knocking.
SPECIFICATION FairSpec
CONSTANTS
    t1 = t1
    t2 = t2
    s1 = s1
    s2 = s2
    k1 = k1
    r1 = r1
    r2 = r2
    None = None
    Tenants <- TwoTenants
    Sns <- OneSn
    Tokens <- OneToken
    tenantOf <- TokenOfOne
    Requests <- TwoRequests
    TTL = 1
    Budget = 1
INVARIANTS
    StalenessIsBounded
    CachedIsPaired
CONSTRAINT Explored
PROPERTY
    NextDeviceIsPaired
