SPECIFICATION FairSpec
CONSTANTS
    Clusters = {c1, c2, c3, c4, c5}
    Aliases = {a1}
    StateFiles = {s1}
    MaxBatch = 2
    MaxChain = 3
    SeqMod = 4
INVARIANTS
    JournalIsReadable
PROPERTIES
    Settles
