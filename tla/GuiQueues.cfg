\* A ring of four slots that may grow twice, three timers over four ticks.
CONSTANTS
    k1 = k1
    k2 = k2
    k3 = k3
    t1 = t1
    t2 = t2
    t3 = t3
    None = None
    Keys <- MCKeys
    Timers <- MCTimers
    Delays <- MCDelays
    DefaultSize = 4
    MaxSize = 6
    MaxTime = 3
SPECIFICATION Spec
SYMMETRY Symmetry
INVARIANTS
    HeldOnce
    TimersOrdered
PROPERTIES
    ImplementsFifo
