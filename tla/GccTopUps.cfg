SPECIFICATION Spec
CONSTANTS
    Npcs = {n1}
    Calls = {c1, c2}
    Amounts = {0, 1, 2}
    MinActivationGcc = 1
    StarvingBelow = 1
    Layerings = {FALSE}
    UniqueIds = TRUE
    KnownNpcs = TRUE
    OneCallPerNpc = FALSE
    MaxGcc = 3
    None = None
SYMMETRY WorldSymmetry
PROPERTIES TopUpsOnlyAdd
