SPECIFICATION FairSpec
CONSTANTS
    Jobs = {j1}
    DebugMode = FALSE
    MaxStops = 1
    MaxConnections = 1
    MaxCommands = 0
    MaxFailures = 1
INVARIANT OnePlace
PROPERTIES JobLifecycleSpec StopEnds ResultsEnd LostAlgorithmFreesJob
