\* One tab over up to two pages and where answers lead, two dialogs and two
\* calls, and a list of one command.
SPECIFICATION DialogsSpec
CONSTANTS
    reboot = reboot
    wipe = wipe
    g1 = g1
    d1 = d1
    d2 = d2
    why = why
    None = None
    Kinds <- TwoKinds
    Groups <- OneGroup
    Devices <- TwoDevices
    Reasons <- OneReason
    ListLimit = 1
    MaxOpenings = 2
    MaxCalls = 2
    MaxVisits = 2
    MaxDrops = 1
CONSTRAINT Explored
INVARIANTS
    OneEffectPerOpening
CHECK_DEADLOCK FALSE
PROPERTIES
    ClosedIsDone
    ListComesRight
