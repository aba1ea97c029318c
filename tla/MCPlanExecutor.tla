--------------------------- MODULE MCPlanExecutor ---------------------------
(***************************************************************************)
(* TLC instance of PlanExecutor: a town of five rooms, and texts of every  *)
(* kind the three tables tell apart.                                       *)
(***************************************************************************)
EXTENDS PlanExecutor, TLC

CONSTANTS
    square, market, clinic, harbour, island,
    doctor, fisher,
    seeDoctor, gibberish, buyFish,
    goHarbour, goIsland

\* One-way streets with a short and a long way round; a star that does not
\* reach the island.
RoomGraphs == {
    (square :> <<clinic, market>>) @@ (market :> <<island>>)
        @@ (island :> <<harbour>>) @@ (clinic :> <<square, harbour>>)
        @@ (harbour :> <<clinic, square>>),
    (square :> <<market, clinic, harbour>>) @@ (market :> <<square>>)
        @@ (clinic :> <<square>>) @@ (harbour :> <<square>>) @@ (island :> <<>>)}

NamedIn == (seeDoctor :> <<doctor, fisher>>) @@ (gibberish :> <<>>)
           @@ (buyFish :> <<>>) @@ (goHarbour :> <<>>) @@ (goIsland :> <<>>)

AliasIn == (seeDoctor :> clinic) @@ (gibberish :> Nowhere)
           @@ (buyFish :> market) @@ (goHarbour :> harbour)
           @@ (goIsland :> island)

Placements ==
    {[n \in Npcs |-> CASE n = Me -> m [] n = doctor -> d [] OTHER -> f] :
        m \in {harbour, Nowhere}, d \in {clinic, Nowhere}, f \in {harbour, island}}

PlanChoices == {<<seeDoctor, buyFish>>, <<gibberish>>}
=============================================================================
