\* Two members, PINs, devices, profiles and operations, as far as Explored goes: two
\* of all but operations while those do not overlap, one of each when they do.
SPECIFICATION Spec
CONSTANTS
    m1 = m1
    m2 = m2
    p1 = p1
    p2 = p2
    x1 = x1
    d1 = d1
    d2 = d2
    o1 = o1
    o2 = o2
    None = None
    Gone = Gone
    Members <- TwoMembers
    Pins <- TwoPins
    Profiles <- TwoProfiles
    plain <- Plain
    Externals <- OneExternal
    Devices <- TwoDevices
    Ops <- TwoOps
    Budget = 1
SYMMETRY Symmetry
CONSTRAINT Explored
INVARIANTS
    LinkWasPushed
    UpdateReachesLinked
    NoGhostUser
    ExternalIsUnique
