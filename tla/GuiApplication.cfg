\* Two fields and a label, two keys, four waiting events and three cursor timers.
CONSTANTS
    amount = amount
    offset = offset
    label = label
    ent = ent
    down = down
    NoElement = NoElement
    Elements <- MCElements
    Fields <- MCFields
    Disabled <- MCDisabled
    First = amount
    Enter = ent
    Arrows <- MCArrows
    OtherKeys <- MCOtherKeys
    Nav <- MCNav
    KeyOrder <- MCKeyOrder
    MaxQueue = 4
    MaxTimers = 3
SPECIFICATION ApplicationSpec
INVARIANTS
    EventsTellAll
    ScreenAgrees
    CursorTicks
