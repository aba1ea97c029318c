SPECIFICATION EconomySpec
CONSTANTS
    Npcs = {n1, n2}
    Markets = {m1}
    Calls = {c1, c2}
    Hosts <- ManyHosts
    Amounts = {6, 12}
    Thresholds = {1}
    Rate = 6
    DailyCap = 12
    OpeningPool = 12
    MaxDay = 1
    MaxIssued = 6
    None = None
    Visitors = {v1, v2}
    Sums = {1}
    Wired = TRUE
    MaxSent = 3
    MaxBoots = 2
    Servers = {s1, s2}
    Bills = {b1, b2}
    Agents = {x1, x2}
    Costs = {1}
    MaxHardened = 2
    Funds = 2
    MaxResets = 1
    MaxBills = 2
    MaxAdmin = 1
    Tellers = {t1, t2}
    Deals = {0, 3}
    Step = 2
    Dust = 2
    GasReserve = 2
    GasCosts = {1, 3}
    Opening = {0, 1, 5, 8, 20}
    Treasury = 20
    MaxCalls = 2
    MaxMoves = 1
SYMMETRY EconomySymmetry
INVARIANTS GoodsConserved StakesAccounted PoolOnCurve  MenuKept  Reconciled
CHECK_DEADLOCK FALSE
