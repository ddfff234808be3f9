\* One device of one tenant, beside a second tenant that may be deleted.
SPECIFICATION FairSpec
CONSTANTS
    t1 = t1
    t2 = t2
    d1 = d1
    k1 = k1
    k2 = k2
    r1 = r1
    r2 = r2
    None = None
    Tenants <- TwoTenants
    Devices <- OneDevice
    ownerOf <- Owner
    Typed <- NoDevice
    Informative <- OneDevice
    Ticks <- TwoTicks
    Refreshes <- OneRefresh
    Timeout = 1
    RefreshTimeout = 2
    Budget = 1
CONSTRAINT Explored
INVARIANTS
    FreshIsOnline
    OneNoticePerSilence
PROPERTIES
    SilenceIsNoticed
