CONSTANTS
    Total = 5
    Words = 10
    Start = 1
    Requests <- MCRequests
    Arrays = {a1, a2}
    Values = {1, 2, 3, 4}
    PerBlock = 2
    MaxHeld = 4
SYMMETRY Symmetry
SPECIFICATION Spec
INVARIANTS BlocksOwnedOnce BuffersHoldEntries SearchKeepsOrder FirstFit
