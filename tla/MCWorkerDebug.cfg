SPECIFICATION Spec
CONSTANTS
    Jobs = {j1}
    DebugMode = TRUE
    MaxStops = 1
    MaxConnections = 1
    MaxCommands = 2
    MaxFailures = 1
INVARIANTS IdleTimerOnlyInReady IdleTimerIsSet PauseFlagIsRight SomethingIsDue

