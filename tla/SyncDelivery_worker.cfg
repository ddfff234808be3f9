\* Two tenants share the worker.  One has two punches, and a LIMIT of one makes the
\* second wait behind the first; endpoints come, go and misbehave for ever, with
\* crashes, throws, retryFailed, and a timer that fires during a cycle.
SPECIFICATION FairSpec
CONSTANTS
    t1 = t1
    t2 = t2
    e1 = e1
    e2 = e2
    c1 = c1
    c2 = c2
    Null = Null
    Tenants <- TwoTenants
    Punches <- TwoPunches
    owner <- OwnBoth
    EndpointsOf <- OwnEndpoints
    Cycles <- TwoCycles
    BatchSize = 1
    MaxFailed = 2
    MaxTries = 2
    MaxRounds = 2
    Budget = 1
PROPERTIES
    PromiseSpec
    PendingSettles
