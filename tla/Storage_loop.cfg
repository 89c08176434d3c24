SPECIFICATION Spec
CONSTANTS
    None = None
    Modulus = 4
    dune = dune
    emma = emma
    Books = {dune, emma}
    LastPage = 2
    QueueSlots = 1
    ParkedSlots = 2
    EventSlots = 1
    PlaceReadRefusals = 1
    SavedPlaces <- Pairs
    SavedState <- AtDune
    MaxPresses = 3
    MaxFaults = 1
    MaxCuts = 1
INVARIANTS
    TypeOK
    RestIsOnCard
    InputIsFree
PROPERTIES
    PlaceStands
CHECK_DEADLOCK FALSE
