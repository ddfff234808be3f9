\* Two operators' tabs over one minute's duplicates; one table is followed.
SPECIFICATION FairDeskSpec
CONSTANTS
    p1 = p1
    p2 = p2
    p3 = p3
    t1 = t1
    t2 = t2
    All = All
    None = None
    LogKeys <- ThreeKeys
    fact <- PunchFacts
    Filters <- TwoFilters
    Tabs <- TwoTabs
    Watching <- OneTab
    PageSize = 1
    ReportLimit = 1
    MaxMoves = 1
INVARIANTS
    PanelKeepsTheOriginal
    ReportsAgree
PROPERTIES
    TableComesRight
CONSTRAINT Explored
