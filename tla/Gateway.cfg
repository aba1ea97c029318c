SPECIFICATION GatewaySpec
CONSTANTS
    Users = {u1}
    Providers = {p1}
    Nonces = {n1, n2}
    Amounts = {1}
    Fees = {1, 2}
    REFUND_UNLOCK = 1
    Supply = 2
    MaxTime = 1
    MaxSigned = 2
    MaxBatch = 2
    Gateway = p1
    Requests = {r1, r2}
    Estimate = 2
    SettleEvery = 2
    Concurrency = {1, 2}
    Opening = 2
    RpcFaults = TRUE
    NoVoucher = NoVoucher
    k1 = k1
    k2 = k2
    relay = relay
    modified = modified
    gpt = gpt
    Sellers = {s1, s2}
    Enclaves = {k1, k2}
    Listings <- Wares
    RunsOn <- Images
    MaxTierOf <- Ceilings
    OutOfDate = {}
    BondWei = 2
    PageSize = 1
    Asks = {a1, a2}
    Client <- AnyProvider
    NoOne = NoOne
    MaxEdits = 3
    MaxNested = 2
    Suppliers = {q1, q2}
    Lines = {l1, l2}
    NoSupplier = NoSupplier
    MaxLines = 4
    Ips = {ip1}
    Posts = {h1, h2}
    Metered = {npc1}
    Prices = {1, 2}
    RATE_PER_MIN = 2
    Minute = 2
    MaxClock = 6
    MaxPosts = 5
    Nobody = Nobody
    Tokens = {npc1}
    Strays = {npc2}
    Donors = {d1, d2}
    Gifts = {1, 2}
    Viewers = {v1}
    Shown = 1
    MaxGifts = 3
    MaxViews = 2
INVARIANTS OneAnswerInTurn AnsweredIsAccounted ChargedOnlyIfServed  ProxyKept
PROPERTIES EveryRequestEnds
CHECK_DEADLOCK FALSE
