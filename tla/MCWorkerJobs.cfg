SPECIFICATION Spec
CONSTANTS
    Jobs = {j1, j2}
    DebugMode = FALSE
    MaxStops = 0
    MaxConnections = 2
    MaxCommands = 0
    MaxFailures = 1
INVARIANTS TypeOK FinishesJobInHand RecordedIsStored OwnOutput
SYMMETRY JobSymmetry
