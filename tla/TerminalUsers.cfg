\* A SpeedFace and a SilkBio share a member; four acts of people.
SPECIFICATION Spec
CONSTANTS
    face1 = face1
    silk1 = silk1
    ann = ann
    bea = bea
    None = None
    Blank = Blank
    Devices <- TwoDevices
    FirmwareMarks <- InfoOf
    TypeMarks <- TypeOf
    Names <- TwoNames
    Cards <- ACard
    Passwords <- APassword
    Fingers <- TwoFingers
    Captures <- ACapture
    MaxUnderWay = 2
    Clears <- SomeClears
    Sent <- SentProfiles
    Budget = 3
INVARIANTS
    RefusedOnlyUnknown
    AgreeUnlessCrossed
    FingersKept
SYMMETRY Interchangeable
CHECK_DEADLOCK FALSE
