\* Two tabs on each of the seven forms.
SPECIFICATION FormsSpec
CONSTANTS
    tab1 = tab1
    tab2 = tab2
    row1 = row1
    row2 = row2
    Blank = Blank
    Gone = Gone
    Null = Null
    Tabs <- TwoTabs
    Rows <- TwoRows
    Main = row1
    At <- AtFirst
    Forms <- AllForms
    Values <- TwoValues
    MaxActs <- ActsIn
    MaxFaults = 1
CONSTRAINT Explored
INVARIANTS
    TokenIsKept
PROPERTIES
    EditsKeepTheRest
    CopiesAreOfTheirRow
    ScreensCatchUp
CHECK_DEADLOCK FALSE
