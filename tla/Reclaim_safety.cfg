SPECIFICATION DowngradeSpec
CONSTANTS
    Clusters = {c1, c2, c3, c4, c5}
    Aliases = {a1, a2}
    StateFiles = {}
    MaxBatch = 1
    MaxChain = 3
    SeqMod = 4
SYMMETRY Symmetry
INVARIANTS
    TypeOK
    ListedIsReadable
    NoLeak
    RecordIsFound
PROPERTIES
    UnsupportedStands
    WhollyThereOrGone
CHECK_DEADLOCK FALSE
