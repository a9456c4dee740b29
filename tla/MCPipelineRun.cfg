SPECIFICATION Spec
CONSTANTS
    Runs = {r1, r2, r3}
    Limit = 1
    MaxOpen = 2
    MaxOrders = 0
    MaxFaults = 1
SYMMETRY Symmetry
INVARIANTS LimitBound QueuedIsRecorded
CHECK_DEADLOCK FALSE
