\* A clock under two labels, or the options of one terminal; two slots.
SPECIFICATION FairSettingsSpec
CONSTANTS
    s1 = s1
    s2 = s2
    Null = Null
    Blank = Blank
    Labels <- TwoLabels
    Offset <- OffsetOf
    Leads <- TwoLeads
    Reported <- Reports
    Slots <- TwoSlots
    Horizon = 1
    MaxHeld = 1
    MaxChanges = 3
INVARIANTS
    PushedIsWhole
    SnapshotsAgree
PROPERTIES
    ClockComesRight
CONSTRAINT Explored
CHECK_DEADLOCK FALSE
