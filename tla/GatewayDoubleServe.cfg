SPECIFICATION Spec
CONSTANTS
    Users = {u1}
    Providers = {p1}
    Nonces = {n1}
    Amounts = {1}
    Fees = {1, 2}
    REFUND_UNLOCK = 1
    Supply = 2
    MaxTime = 1
    MaxSigned = 1
    MaxBatch = 2
    Gateway = p1
    Requests = {r1, r2}
    Estimate = 1
    SettleEvery = 2
    Concurrency = {2}
    Opening = 2
    RpcFaults = FALSE
    NoVoucher = NoVoucher
INVARIANTS OneVoucherOneAnswer
