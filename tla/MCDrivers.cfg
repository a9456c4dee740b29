CONSTANTS
    Jobs = {1, 2, 3}
    Passes = {1, 2}
    None = None
    MinAmount = 1
    Scale = 2
    Unit = 10
    MaxPerTick = 1
    MaxOrders = 2
    MaxFailures = 1
SPECIFICATION FairSpec
INVARIANTS TypeOK NeverTooMany
PROPERTIES QueueIsServed ScalesDown
