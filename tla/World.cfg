SPECIFICATION WorldSpec
CONSTANTS
    ann = ann
    bo = bo
    cyn = cyn
    vis = vis
    m1 = m1
    a1 = a1
    a2 = a2
    inn = inn
    yard = yard
    attested = attested
    forged = forged
    Ids = {ann, bo, cyn}
    Players = {vis}
    Markets = {m1}
    Artifacts = {a1, a2}
    Rooms = {inn, yard}
    Monster = Monster
    Cap = 3
    AllowedEffects = {"adjustRelationship", "setFlag"}
    MaxRounds = 2
    None = None
    Scripts <- AllScripts
    Talkers = {ann}
    Types = {"friend", "tout"}
    Answers <- Speech
    Values = {0, 3}
    StarvingBelow = 1
    Reserve = 2
    ReflectEvery = 2
    ReflectCost = 1
    MaxObserved = 1
    Signers = {"op", "stranger"}
    AllowedSigners = {"op"}
    Responses = {attested, forged}
    ParsedEffects <- Readings
    ped = ped
    Nowhere = Nowhere
    Npcs <- Townsfolk
    Visitors = {vis, ped}
    OwnerOf <- Masters
    Purse <- Purses
    Starving = 1
    Rich = 2
    ThinkCost = 1
    Replies <- Lines
    CommandAffinity = 2
    MaxListeners = 2
    InterjectMax = 1
    Hosts <- AllDays
    Cast <- Performers
    Dwell = 1
    Asked = 2
    Prices = {1, 2}
    MarketRoom = inn
    Shocks <- Alarm
    Skips <- Absent
    MaxTicks = 3
    StartSilver <- Hoard
    Granary = 3
    MarketAt = inn
    Satisfies <- Comforts
    Wilds = {yard}
    Category <- Callings
    Low = 1
    Full = 2
    Refill = 1
    Decay = 1
    Costs <- Fees
    Regards <- Airs
    TurnAmounts = {1, 2}
    Wishes <- Whims
    Driven = {ann, bo, cyn}
    Guild <- Townsfolk
    Peers = {ped}
    Claims = {elixir}
    Tasks = {1, 2}
    Towns <- GuildDays
    Terms = {1, 2}
    Balances = {0, 2}
    Owed = 2
    MaxDay = 1
    Unset = Unset
    Cost = 1
    Start = 2
    Pages = 2
    Hands = {1, 2}
    Ages <- WorldAges
INVARIANTS
    
    
    OneInterjection
    RelationshipsKept
    
    SilverAccounted
    
    
PROPERTIES
    ValueConserved
    VictorStands
    ReserveKept
    BurnedOnce
CHECK_DEADLOCK FALSE
