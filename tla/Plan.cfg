SPECIFICATION FairPlanSpec
CONSTANTS
    square = square
    market = market
    clinic = clinic
    harbour = harbour
    island = island
    doctor = doctor
    fisher = fisher
    seeDoctor = seeDoctor
    gibberish = gibberish
    buyFish = buyFish
    goHarbour = goHarbour
    goIsland = goIsland
    Me = Me
    Others = {doctor, fisher}
    Rooms = {square, market, clinic, harbour, island}
    Graphs <- RoomGraphs
    Directives = {goHarbour, goIsland}
    PlanTexts = {seeDoctor, gibberish, buyFish}
    Named <- NamedIn
    Alias <- AliasIn
    Plans <- PlanChoices
    Nowhere = Nowhere
    None = None
    Starts <- Placements
    MaxEvents = 2
INVARIANTS StepsKept DirectivesLead
PROPERTIES WalksShortestPath EveryStepEnds
