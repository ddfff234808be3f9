\* Overlapping and repeated uploads under crashes and failing statements, beside
\* an operator who changes the label, across a change of the clocks, voids and inserts rows.
SPECIFICATION Spec
CONSTANTS
    a = a
    u1 = u1
    u2 = u2
    Pins <- OnePin
    Instants <- TwoInstants
    Hours <- Clock
    Zones <- TwoZones
    offset <- Forward
    deviceZone = "near"
    Uploads <- TwoUploads
    MaxManual = 1
    Budget = 1
SYMMETRY UploadSymmetry
INVARIANTS
    OneRowPerLabel
    AckedIsHeld
    StoredIsInstant
PROPERTY
    LogSpec
