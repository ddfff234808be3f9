\* Two callers race for ids and two heartbeats are open at once; fair time and timer.
SPECIFICATION FairSpec
CONSTANTS
    w1 = w1
    w2 = w2
    p1 = p1
    p2 = p2
    Writers <- TwoWriters
    Polls <- TwoPolls
    BatchLimit = 1
    MaxRows = 2
PROPERTIES
    TakenInOrder
    LifecycleSpec
    OutcomeIsFinal
    PendingSettles
