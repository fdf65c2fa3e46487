\* Three commands, each of which may fail or be killed at every step.
SPECIFICATION Spec
CONSTANTS
    File = {"animasola", "tor", "lib"}
    Build <- ThreeBuilds
    FilesOf <- MCFilesOf
    TagOf <- MCTagOf
    MaxCommands = 3
    None = None
    Torn = Torn
    Damaged = Damaged
INVARIANT InstalledIsVerified
PROPERTIES UpdateKeepsAProgram UpdateEndsInPlace
CHECK_DEADLOCK FALSE
