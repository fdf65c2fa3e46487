\* All three clients; Tor may die at any point.
SPECIFICATION Spec
CONSTANTS
    Clients = {"bootstrap_node", "telemetry", "tui"}
    ProgressLines = 2
    PipeSize = 2
CHECK_DEADLOCK FALSE
INVARIANTS
    RunningMeansBootstrapped
PROPERTIES
    StopEnds
    OutputIsRead
