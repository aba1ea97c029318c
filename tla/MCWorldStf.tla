----------------------------- MODULE MCWorldStf -----------------------------
(***************************************************************************)
(* TLC instances of WorldStf and Oracles.  A script fixes the genesis and  *)
(* the transactions a behaviour offers, so that each group of transactions *)
(* that interact is explored to its own depth.                             *)
(***************************************************************************)
EXTENDS Oracles

CONSTANTS ann, bo, cyn, vis, m1, a1, a2, inn, yard, attested, forged

Tx(type, npc) == [type |-> type, npc |-> npc]
With(tx, more) == [k \in DOMAIN tx \cup DOMAIN more |-> IF k \in DOMAIN more THEN more[k] ELSE tx[k]]
Fighter(hp, atk, element) == [hp |-> hp, atk |-> atk, def |-> 1, element |-> element, wounded |-> FALSE]
Feeling(delta) == [kind |-> "adjustRelationship", delta |-> delta, ok |-> TRUE]
Flag == [kind |-> "setFlag", delta |-> 1, ok |-> TRUE]

Settled == [EmptyWorld EXCEPT !.npcs = [i \in Ids |-> "active"], !.registry = Ids,
                              !.room = [i \in Ids |-> inn], !.usdc = [i \in Ids |-> 18],
                              !.gcc = [i \in Ids |-> 6]]
Listed == [Settled EXCEPT !.market = [rice |-> 12, silver |-> 12]]
Armed == [Settled EXCEPT !.combat = (ann :> Fighter(3, 2, "fire")) @@ (bo :> Fighter(2, 3, "fire"))
                                     @@ (cyn :> None)]

Exchange ==
    {With(Tx("trade", i), [side |-> s, amount |-> 12]) : i \in {ann, bo}, s \in {"buy", "sell"}}
    \cup {With(Tx("bet", i), [market |-> m1, side |-> s, amount |-> 6]) : i \in {ann, bo}, s \in Sides}
    \cup {[type |-> "openMarket", market |-> m1, amount |-> 2],
          [type |-> "resolveMarket", market |-> m1], [type |-> "dividend", amount |-> 1]}

Quarrel ==
    {With(Tx("battle", i), [foe |-> j, seed |-> s]) : i \in {ann, bo}, j \in {ann, bo}, s \in {{}, {0, 2}, {1, 2}}}
    \cup {With(Tx("battle", ann), [foe |-> Monster, seed |-> {0}, stats |-> Fighter(2, 2, "wood")]),
          With(Tx("battle", cyn), [foe |-> ann, seed |-> {0}])}

Life ==
    {With(Tx("createNpc", cyn), [status |-> s, room |-> inn]) : s \in {"draft", "active"}}
    \cup {With(Tx("activate", cyn), [amount |-> 2]), With(Tx("donate", cyn), [amount |-> 1]),
          With(Tx("move", cyn), [room |-> yard]), With(Tx("forgeArtifact", ann), [artifact |-> a1]),
          With(Tx("forgeArtifact", cyn), [artifact |-> a2]),
          With(Tx("luckEvent", ann), [factor |-> 2, delta |-> -3, player |-> vis, affinity |-> 1]),
          With(Tx("applyTalk", ann), [player |-> vis, cost |-> 1,
               effects |-> <<Feeling(2), Feeling(9), Flag, [Flag EXCEPT !.ok = FALSE]>>]),
          [type |-> "initMarket", rice |-> 12, silver |-> 12]}

Script(genesis, offers, txs, ticks, faults) ==
    [genesis |-> genesis, offers |-> offers, txs |-> txs, ticks |-> ticks, faults |-> faults]

Newcomer == [Settled EXCEPT !.npcs[cyn] = "none", !.registry = {ann, bo}, !.room[cyn] = None,
                            !.gcc[cyn] = 0]

ManyScripts ==
    {Script(Listed, Exchange, 5, 0, FALSE), Script(Armed, Quarrel, 3, 0, FALSE),
     Script(Newcomer, Life, 4, 0, FALSE),
     Script(Settled, {With(Tx("donate", ann), [amount |-> 1]), With(Tx("move", bo), [room |-> yard])},
            1, 2, TRUE)}

\* Donations that arrive during and between the turns of an NPC that thinks.
Gifts == {Script(Settled, {With(Tx("donate", ann), [amount |-> 2])}, 4, 0, FALSE)}

Speech == {[effects |-> <<Feeling(1)>>, cost |-> c] : c \in {1, 2}}
Readings == (attested :> <<Feeling(1)>>) @@ (forged :> <<Feeling(2)>>)

Init == StfInit /\ OracleInit
Next ==
    \/ shown.run = {} /\ StfNext /\ UNCHANGED oracleVars
    \/ shown.run = {} /\ script \in Gifts /\ TurnNext
    \/ turn = None /\ log = <<>> /\ tick = 0 /\ ProofNext
Spec == Init /\ [][Next]_<<stfVars, oracleVars>>

AllScripts == ManyScripts \cup Gifts
=============================================================================
