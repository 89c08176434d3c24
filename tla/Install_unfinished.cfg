SPECIFICATION EarlierSpec
CONSTANTS
    n1 = n1
    n2 = n2
    s1 = s1
    v1 = v1
    v2 = v2
    x1 = x1
    None = None
    LongNames = {n1}
    Installable = {}
    Aliases = {a1, a2}
    ScratchNames = {s1}
    ScratchOf <- OneScratch
    Probes = 2
    Chains = {c1, c2}
    Books = {v1, v2}
    Strangers = {}
    SizeOf <- Lengths
    StepLimit = 8
SYMMETRY Symmetry
INVARIANTS
    UnfinishedShelfHoldsOne
