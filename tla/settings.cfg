SPECIFICATION ConfigSpec
CONSTANTS
    Frequencies <- MCFrequencies
    Corrections = {0, 7}
    Attenuations = {0}
    StrayWords = {0, 4711}
    Lines <- MCLines
    Options <- MCOptions
    MaxLines = 2
    MaxOptions = 2
INVARIANTS
    PacketAsAsked
    SettingsInRange
    TunedExactly
    FiltersPassTheSignal
CHECK_DEADLOCK FALSE
