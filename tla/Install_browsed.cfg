SPECIFICATION BrowsedSpec
CONSTANTS
    n1 = n1
    n2 = n2
    s1 = s1
    v1 = v1
    v2 = v2
    x1 = x1
    None = None
    LongNames = {n1}
    Installable = {n1}
    Aliases = {a1, a2}
    ScratchNames = {s1}
    ScratchOf <- OneScratch
    Probes = 1
    Chains = {c1, c2, c3}
    Books = {v1, v2}
    Strangers = {x1}
    SizeOf <- Lengths
    StepLimit = 8
SYMMETRY Symmetry
INVARIANTS
    ListedReadable
PROPERTIES
    StrangersKept
    UnrecognizedStands
