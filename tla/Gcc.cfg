SPECIFICATION Spec
CONSTANTS
    Npcs = {n1, n2}
    Calls = {c1, c2}
    Amounts = {0, 1, 2}
    MinActivationGcc = 1
    StarvingBelow = 1
    Layerings = {TRUE, FALSE}
    UniqueIds = TRUE
    KnownNpcs = TRUE
    OneCallPerNpc = TRUE
    MaxGcc = 3
    None = None
SYMMETRY WorldSymmetry
INVARIANTS AccountsSound
PROPERTIES EntriesAreAtomic
