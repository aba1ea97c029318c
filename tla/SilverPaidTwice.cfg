SPECIFICATION Spec
CONSTANTS
    Npcs = {n1, n2}
    Markets = {m1}
    Calls = {c1, c2}
    Hosts <- PayoutsCutShort
    Amounts = {6, 12}
    Thresholds = {1}
    Rate = 6
    DailyCap = 12
    OpeningPool = 12
    MaxDay = 1
    MaxIssued = 6
    None = None
SYMMETRY EconomySymmetry
INVARIANTS SilverNeverMade
CHECK_DEADLOCK FALSE
