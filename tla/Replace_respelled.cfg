SPECIFICATION Spec
CONSTANTS
    None = None
    Cleared = Cleared
    Dune = Dune
    dune = dune
    Emma = Emma
    Fear = Fear
    b1 = b1
    b2 = b2
    b3 = b3
    b4 = b4
    Modulus = 4
    Names = {Dune, dune, Emma, Fear}
    Ids <- MintedIds
    Contents = {b1, b2, b3, b4}
    SizeOf <- Lengths
    MaxRecords = 2
    MissingScansRetained = 1
    Fold <- Spelling
    CatalogOrder <- Order
    Card <- TwoBooks
    Offers <- SameBytes
    Edits <- Swaps
    Moves <- Renames
    MaxCuts = 2
    MaxUploads = 2
    MaxScans = 2
    MaxChanges = 1
    MaxIds = 4
INVARIANTS
    SpellingFollowed
