SPECIFICATION LedgerSpec
CONSTANTS
    Users = {u1, u2}
    Providers = {p1}
    Nonces = {n1, n2}
    Amounts = {1, 2}
    Fees = {0, 1}
    REFUND_UNLOCK = 1
    Supply = 2
    MaxTime = 2
    MaxSigned = 2
    MaxBatch = 2
SYMMETRY LedgerSymmetry
INVARIANTS Solvent
PROPERTIES EscrowDebitsAuthorised ExitNeedsWholeWindow
