SPECIFICATION Spec
CONSTANTS
    Clusters = {c1, c2, c3, c4}
    Aliases = {a1, a2}
    StateFiles = {s1}
    MaxBatch = 1
    MaxChain = 2
    SeqMod = 4
SYMMETRY Symmetry
INVARIANTS
    ListedIsReadable
