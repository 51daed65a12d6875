\* Either field under every sequence of keys; two digits, three decimals.
CONSTANTS
    Digits <- MCDigits
    Dot = Dot
    Nul = Nul
    TextSize = 5
    Width = 8
    IntMin <- MCIntMin
    IntMax = 101
    IntDefault = 110
    MaxPlace = 3
    Kilo = 4
    MaxInputLen = 4
    AllowMagnitude = TRUE
    Ranges <- MCRanges
    Defaults <- MCDefaults
    MaxCoefficient = 60000
SPECIFICATION FieldSpec
INVARIANTS
    ReadInRange
    TextInBuffer
    ValueIsRead
