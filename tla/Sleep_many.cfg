SPECIFICATION FairSpec
CONSTANTS
    CommandSlots = 2
    EventSlots = 2
    RingSlots = 2
    MaxGeneration = 3
    SettleWindow = FALSE
INVARIANTS
    CalledOffStaysKnown
PROPERTIES
    SleepEnds
    ParkEnds
