SPECIFICATION FairSpec
CONSTANTS
    Runs = {r1}
    Limit = 1
    MaxOpen = 1
    MaxOrders = 1
    MaxFaults = 1
INVARIANTS TypeOK StaysUp ListedRunUndisturbed
PROPERTIES ResultFrees ResultAnnounced DeathIsResult
CHECK_DEADLOCK FALSE
