\* Two buttons, one emulated, two channels, messages of at most two entries, two
\* outputs.
CONSTANTS
    ch1 = ch1
    ch2 = ch2
    Keys <- MCKeys
    Emulated <- MCEmulated
    Channels <- MCChannels
    SupportsBuffered <- MCBuffered
    SupportsBypass <- MCBypass
    Supports <- MCSupports
    Rates <- MCRates
    PollingDefault = TRUE
    EmulationDefault = TRUE
    MaxEntries = 2
    MaxOutputs = 2
SPECIFICATION Spec
INVARIANTS
    RowsReadInPlace
    KeysAsAsked
    OutputsWired
PROPERTY
    KeyEndsHalt
