------------------------------ MODULE MCWorld -------------------------------
(***************************************************************************)
(* TLC instances of the shared world: its transactions and oracles         *)
(* (MCWorldStf), the town that lives in it, as one of four days: calls of  *)
(* a host, calls on distant pairs in two lanes, a fair, and turns of the   *)
(* action loop; the guild that remembers, warns and bans; and what a world *)
(* keeps from day to day.  A behaviour is one of them.                     *)
(***************************************************************************)
EXTENDS MCWorldStf, FairTick, ActionLoop, Cognition, SharedWorldLife

CONSTANTS ped

VARIABLE part  \* what this behaviour explores

Townsfolk == <<ann, bo, cyn>>
Masters == ann :> vis @@ bo :> ped @@ cyn :> ped
Everyone(x) == [n \in {ann, bo, cyn} |-> x]
Purses == Everyone(3)
Lines == {[delta |-> 2, goto |-> inn], [delta |-> 0, goto |-> Nowhere]}

Offer(kind, npc, other, delta) == [kind |-> kind, npc |-> npc, other |-> other, delta |-> delta]

\* A day of calls: whether NPCs overhear, how many calls overlap, which.
Calls(overhear, lanes, calls, hearsay, offers) ==
    [rooms |-> Everyone(inn), overhear |-> overhear, lanes |-> lanes, apart |-> lanes > 1, flaky |-> FALSE,
     hearsay |-> hearsay, calls |-> calls, offers |-> offers, agents |-> {bo}, mints |-> FALSE]

Chatter == {Offer("talk", ann, vis, 0), Offer("adjust", bo, ann, 1)}
Swindles == {Offer("pitch", ann, ped, 1), Offer("theft", ann, ped, -1), Offer("gossip", ann, ped, 0),
             Offer("talk", ann, ped, 0), Offer("adjust", ann, ped, 1)}

CallDays ==
    {Calls(TRUE, 1, 2, TRUE, Chatter), Calls(FALSE, 2, 3, TRUE, Chatter \cup {Offer("talk", bo, vis, 0)})}
    \cup {Calls(FALSE, 1, 4, hearsay, Swindles) : hearsay \in BOOLEAN}
    \cup {[Calls(FALSE, 1, 3, TRUE, {Offer("pitch", ann, ped, 1), Offer("gossip", bo, ped, 0),
                                   Offer("pitch", bo, ped, 1)}) EXCEPT !.mints = TRUE]}

\* A fair, on a memory service that may be down, and days of turns.
Apart(d) == [d EXCEPT !.rooms[cyn] = yard]
FairDays ==
    {Apart([Calls(FALSE, 1, 0, hearsay, {}) EXCEPT !.flaky = flaky]) : hearsay, flaky \in BOOLEAN}
TurnDays == {Apart(Calls(FALSE, 1, 3, FALSE, {})), Apart(Calls(TRUE, 1, 2, FALSE, {}))}

Actor(npc, role, room, route) ==
    [npc |-> npc, role |-> role, room |-> room, route |-> route, momentum |-> TRUE]
Performers ==
    <<Actor(ped, "pitcher", inn, <<>>), Actor(vis, "pitcher", yard, <<>>), Actor(ann, "gossip", "", <<>>),
      Actor(bo, "trader", "", <<inn, yard>>), Actor(cyn, "townsfolk", "", <<yard, inn>>)>>
Alarm == {[tick |-> 1, npc |-> bo, side |-> "buy"]}
Absent == {{}, {bo}}

Hoard == ann :> 2 @@ bo :> 1 @@ cyn :> 0
Comforts == inn :> {"food", "fame"} @@ yard :> {"lore"}
Callings == [recharge |-> {"food"}, research |-> {"lore"}, socialize |-> {"fame"}]
Fees == [recharge |-> 1, help |-> 1, steal |-> 2]
Airs == [socialize |-> 1, help |-> 2, steal |-> 2, caught |-> 1]
Whims == {[target |-> Nowhere, amount |-> 1, side |-> "buy"], [target |-> bo, amount |-> 3, side |-> "sell"],
          [target |-> vis, amount |-> 2, side |-> "sell"], [target |-> ann, amount |-> -1, side |-> "buy"]}

AllDays == CallDays \cup FairDays \cup TurnDays
DaysOf == [stf |-> TurnDays, calls |-> CallDays, fair |-> FairDays, turns |-> TurnDays, guild |-> TurnDays, life |-> TurnDays]

\* A guild: whether its members reflect, how many calls overlap, who deals, and
\* the calls of each kind.
Folks(reflects, lanes, dealers, deal, crime, round, rap, warning, loan) ==
    [reflects |-> reflects, lanes |-> lanes, dealers |-> dealers,
     calls |-> [deal |-> deal, crime |-> crime, round |-> round, rap |-> rap,
                warning |-> warning, loan |-> loan]]
GuildDays ==
    {Folks(FALSE, 1, {ann}, 1, 0, 1, 0, 2, 0), Folks(FALSE, 2, {ann}, 2, 0, 1, 0, 1, 0),
     Folks(TRUE, 1, {ann, bo}, 1, 0, 1, 0, 1, 0), Folks(FALSE, 2, {ann}, 0, 1, 1, 1, 0, 1),
     Folks(FALSE, 2, {ann}, 2, 0, 2, 0, 0, 0), Folks(FALSE, 1, {ann}, 0, 1, 0, 2, 0, 2)}

\* What a world keeps: what an older version left, which calls, how many.
Offers(kind, args) == {[kind |-> kind, arg |-> x] : x \in args}
Bare == [c \in Cells |-> Unset]
Old == [npcs |-> <<ann>>, works |-> Unset, diary |-> <<0>>, log |-> <<0>>, thoughts |-> <<0>>, purse |-> 2]
Age(pal, left, flaky, offers) ==
    [pal |-> pal, resident |-> ann, left |-> left, records |-> {ann}, offers |-> offers,
     asked |-> 3, flaky |-> flaky]
Arrivals == Offers("create", {ann, bo}) \cup Offers("activate", {cyn}) \cup Offers("snapshot", {ann})
Smithy == Offers("forge", {1, 2}) \cup Offers("create", {ann}) \cup Offers("show", {ann})
Restarts == Offers("forge", {1, 2}) \cup Offers("backfill", {ann})
Nights == Offers("dream", {1, 2}) \cup Offers("observe", {1, 2})
WorldAges ==
    {Age(TRUE, Old, TRUE, offers) : offers \in {Arrivals, Smithy, Nights}}
    \cup {Age(TRUE, Old, FALSE, Restarts), Age(TRUE, Bare, FALSE, Restarts)}
    \cup {Age(FALSE, Old, FALSE, Arrivals), Age(TRUE, Bare, FALSE, Smithy)}

townVars == <<socialVars, fair, actionVars>>
worldVars == <<stfVars, oracleVars>>

\* What a part does not explore starts in one of its initial states and stays.
WorldInit ==
    /\ part \in DOMAIN DaysOf
    /\ SocialInit /\ FairInit /\ ActionInit /\ Init /\ CognitionInit /\ LifeInit
    /\ part # "guild" => town = CHOOSE t \in Towns : TRUE
    /\ part # "life" => age = CHOOSE a \in Ages : TRUE
    /\ part \in {"stf", "guild", "life"} => shost = CHOOSE h \in TurnDays : TRUE
    /\ shost \in DaysOf[part]
    /\ part # "stf" => script = CHOOSE s \in Gifts : TRUE

TownNext ==
    \/ /\ part = "calls"
       /\ SocialNext
       /\ UNCHANGED <<fair, actionVars>>
    \/ /\ part = "fair"
       /\ \/ FairNext
          \/ (\E j \in DOMAIN jobs : Proceed(j)) /\ UNCHANGED fair
       /\ UNCHANGED actionVars
    \/ /\ part = "turns"
       /\ \/ ActionNext
          \/ (\E j \in DOMAIN jobs : Proceed(j)) /\ UNCHANGED actionVars
       /\ UNCHANGED fair

WorldNext ==
    \/ part = "stf" /\ Next /\ UNCHANGED <<townVars, part, cognitionVars, lifeVars>>
    \/ TownNext /\ UNCHANGED <<worldVars, part, cognitionVars, lifeVars>>
    \/ part = "guild" /\ CognitionNext /\ UNCHANGED <<townVars, worldVars, part, lifeVars>>
    \/ part = "life" /\ LifeNext /\ UNCHANGED <<townVars, worldVars, part, cognitionVars>>

WorldSpec == WorldInit /\ [][WorldNext]_<<townVars, worldVars, part, cognitionVars, lifeVars>>
=============================================================================
