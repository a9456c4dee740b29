SPECIFICATION Spec
CONSTANTS
    Runs = {r1, r2}
    Limit = 1
    MaxOpen = 2
    MaxOrders = 0
    MaxFaults = 0
INVARIANT LimitKept
CHECK_DEADLOCK FALSE
