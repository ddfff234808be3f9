\* Two calls of any kind on two devices of one group.
SPECIFICATION Spec
CONSTANTS
    c1 = c1
    c2 = c2
    d1 = d1
    d2 = d2
    g1 = g1
    p1 = p1
    old = old
    new = new
    None = None
    Calls <- TwoCalls
    Devices <- TwoDevices
    Groups <- OneGroup
    Punches <- OnePunch
    Passwords <- TwoPasswords
    Batch = 2
    Budget = 1
SYMMETRY Alike
INVARIANTS
    CommandsWereDue
    AuditedIsDone
    OldPasswordsOpenNothing
    TrailIsComplete
