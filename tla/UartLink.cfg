CONSTANTS
    Sizes = {1, 5}
    Chunk = 2
    ClusterSize = 1
    ReadMax = 1
    Depth = 1
    OldSize = 2
    Apps = {"uartupld", "uartrun"}
    MaxCommands = 3
SPECIFICATION LinkSpec
INVARIANTS FramesAgree UploadIsSource
PROPERTIES CommandsEnd
CHECK_DEADLOCK FALSE
