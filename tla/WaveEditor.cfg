\* Two waves, up to nine samples, a frequency of at most two characters.
CONSTANTS
    sine = sine
    saw = saw
    Waves <- MCWaves
    Level <- MCLevel
    Presses <- MCPresses
    Rate = 9
    MinValue = 1000
    MaxValue = 4500
    MinString <- MCMinString
    FirstValue = 2000
    FirstString <- MCFirstString
    Kilo = 10
    StringSize = 2
    ValueBound = 45000
    MostBytes = 16
SPECIFICATION Spec
INVARIANTS
    OutputIsSelected
    OutputInBuffer
    MainLoopAttended
