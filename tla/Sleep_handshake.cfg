SPECIFICATION WirelessSpec
CONSTANTS
    CommandSlots = 4
    EventSlots = 3
    RingSlots = 4
    MaxGeneration = 2
    SettleWindow = TRUE
INVARIANTS
    TypeOK
    PanelIsDown
    ParkedIsAnswered
    PositionIsSaved
    NeverWaitsOnItself
PROPERTIES
    UploadStandsOverIdle
