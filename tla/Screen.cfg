\* The console of three lines, up to four buffers.
CONSTANTS
    MinFrames = 2
    MaxFrames = 4
    Height = 9
    Columns = 3
    FontHeight = 2
    ConsoleMax = 4
    Lines = 5
    Requests <- MCRequests
    Margins = {0, 1}
SPECIFICATION Spec
INVARIANTS
    ShowsActive
    LeftClean
    ConsoleInOrder
