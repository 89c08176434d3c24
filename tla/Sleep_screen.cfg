SPECIFICATION FairSpec
CONSTANTS
    CommandSlots = 4
    EventSlots = 2
    RingSlots = 4
    MaxGeneration = 3
    SettleWindow = TRUE
PROPERTIES
    ScreenComesBack
