------------------------------ MODULE FairTick ------------------------------
(***************************************************************************)
(* The fair, packages/gamekit/src/fair.ts: one tick moves the actors along *)
(* their routes, takes down who is where, lets the pitchers work the marks *)
(* in their rooms, lets the gossips tell what they witnessed, and lets     *)
(* shocks and traders act on the market.  Every call on the world is a job *)
(* of SharedWorldSocial that the fair awaits.                              *)
(*                                                                         *)
(* The rice market itself is SharedWorldSilver's: here a price is any of   *)
(* Prices, and a trade succeeds or not.                                    *)
(***************************************************************************)
EXTENDS SharedWorldSocial

CONSTANTS
    Cast,       \* the actors in order: [npc, role, room, route, momentum]
    Dwell,      \* ticks at each stop
    Asked,      \* GCC asked per pitch
    Prices,     \* prices the market may show
    MarketRoom, \* opts.marketRoom
    Shocks,     \* [tick, npc, side]
    Skips,      \* sets of NPCs the action loop may drive during a tick
    MaxTicks    \* bound on ticks

\* Marks have records: pitch() throws for anybody else.
ASSUME FairAssumption ==
    /\ Dwell \in Nat \ {0} /\ Asked \in Nat /\ Cast \in Seq(ToSet(Cast))
    /\ \A i \in DOMAIN Cast : Cast[i].npc \in IF Cast[i].role = "pitcher" THEN Folk \cup Visitors ELSE Folk

VARIABLE fair

NoFair ==
    [tick |-> 0, pc |-> "idle", k |-> 1, skip |-> {}, job |-> 0, rooms |-> <<>>, hits |-> <<>>,
     work |-> {}, warned |-> {}, news |-> <<>>, last |-> <<>>, trades |-> <<>>]

FairInit == fair = NoFair

\* Actors by their places in the cast, and how many of a set come before one.
Named(role, skip) == {i \in DOMAIN Cast : Cast[i].role = role /\ Cast[i].npc \notin skip}
Marks(skip) == {i \in DOMAIN Cast : Cast[i].role # "pitcher" /\ Cast[i].npc \notin skip}
Before(S, i) == Cardinality({h \in S : h < i})

\* roomOf(): the room in the record, or the actor's own if it has none.
RoomOf(a) == IF a.npc \in Folk THEN whereabouts[a.npc] ELSE a.room

Wait(fields) == fair' = [f \in DOMAIN fair |-> IF f \in DOMAIN fields THEN fields[f] ELSE fair[f]]

BeginFair(skip) ==
    /\ fair.pc = "idle" /\ fair.tick < MaxTicks
    /\ Wait([pc |-> "move", k |-> 1, skip |-> skip, hits |-> <<>>, news |-> <<>>, trades |-> <<>>])
    /\ UNCHANGED socialVars

\* The schedule: each actor that is not driven elsewhere steps to its stop.
MoveActor ==
    /\ fair.pc = "move" /\ fair.k <= Len(Cast)
    /\ LET a == Cast[fair.k]
           stop == a.route[((fair.tick \div Dwell) % Len(a.route)) + 1]
       IN  IF a.npc \in fair.skip \/ a.route = <<>> \/ a.npc \notin Folk
           THEN UNCHANGED socialVars
           ELSE IF whereabouts[a.npc] = stop THEN UNCHANGED socialVars ELSE Place(a.npc, stop)
    /\ Wait([k |-> fair.k + 1])

TakeRooms ==
    /\ fair.pc = "move" /\ fair.k > Len(Cast)
    /\ Wait([pc |-> "pitch", k |-> 1, rooms |-> [i \in DOMAIN Cast |-> RoomOf(Cast[i])]])
    /\ UNCHANGED socialVars

\* rooms.get(): where the snapshot says an actor is.
Here(npc) == fair.rooms[CHOOSE i \in DOMAIN Cast : Cast[i].npc = npc]
Beside(a) == {m \in Marks(fair.skip) : Here(Cast[m].npc) = Here(a.npc) /\ Here(a.npc) # ""}

\* The k-th pitcher works a mark of its room, round-robin by tick.
StartPitch ==
    /\ fair.pc = "pitch" /\ fair.job = 0
    /\ \E p \in Named("pitcher", fair.skip) :
        LET marks == Beside(Cast[p])
        IN  /\ Before(Named("pitcher", fair.skip), p) = fair.k - 1
            /\ \/ marks = {} /\ Wait([k |-> fair.k + 1]) /\ UNCHANGED socialVars
               \/ \E victim \in marks :
                    /\ Before(marks, victim) = (fair.tick + fair.k - 1) % Cardinality(marks)
                    /\ Launch("pitch", Cast[victim].npc, Cast[p].npc, Asked)
                    /\ Wait([job |-> Len(jobs) + 1])

EndPitch ==
    /\ fair.pc = "pitch" /\ fair.job \in DOMAIN jobs \ Running
    /\ LET j == jobs[fair.job]
       IN  Wait([k |-> fair.k + 1, job |-> 0,
                 hits |-> IF j.paid <= 0 THEN fair.hits
                          ELSE Append(fair.hits, [from |-> j.other, to |-> j.npc, room |-> Here(j.other)])])
    /\ UNCHANGED socialVars

\* Faulty variant: a gossip tells of every loss of the tick.
TellsAll(g, hit, listener) ==
    /\ listener \notin {hit.to, g}
    /\ Here(listener) = Here(g)

\* A gossip tells what happened in its room, to the marks beside it.
Tells(g, hit, listener) ==
    /\ hit.room = Here(g)
    /\ listener \notin {hit.to, g}
    /\ Here(listener) = Here(g)

\* The calls that gossips have to make: gossip, loss and listener, by their
\* places in the three loops, and in the order of the loops.
Errands ==
    {t \in Named("gossip", fair.skip) \X (DOMAIN fair.hits) \X Marks(fair.skip) :
        Tells(Cast[t[1]].npc, fair.hits[t[2]], Cast[t[3]].npc)}
Earlier(s, t) ==
    \/ s[1] < t[1]
    \/ s[1] = t[1] /\ s[2] < t[2]
    \/ s[1] = t[1] /\ s[2] = t[2] /\ s[3] < t[3]
Due == {t \in fair.work : \A s \in fair.work : ~Earlier(s, t)}
Errand(t) ==
    [by |-> Cast[t[1]].npc, about |-> fair.hits[t[2]].from, to |-> Cast[t[3]].npc]

BeginGossip ==
    /\ fair.pc = "pitch" /\ fair.job = 0
    /\ fair.k > Cardinality(Named("pitcher", fair.skip))
    /\ Wait([pc |-> "gossip", work |-> Errands])
    /\ UNCHANGED socialVars

StartGossip ==
    /\ fair.pc = "gossip" /\ fair.job = 0
    /\ \E t \in Due :
        LET e == Errand(t)
        IN  IF e \in fair.warned \/ e.to \notin Folk
            THEN Wait([work |-> fair.work \ {t}]) /\ UNCHANGED socialVars
            ELSE Launch("gossip", e.to, e.about, 0) /\ Wait([job |-> Len(jobs) + 1])

\* A warning that was not taken in is tried again at the next occasion.
EndGossip ==
    /\ fair.pc = "gossip" /\ fair.job \in DOMAIN jobs \ Running
    /\ \E t \in Due :
        LET ok == jobs[fair.job].pc = "done"
            e == Errand(t)
        IN  Wait([work |-> fair.work \ {t}, job |-> 0,
                  warned |-> IF ok THEN fair.warned \cup {e} ELSE fair.warned,
                  news |-> IF ok THEN Append(fair.news, e) ELSE fair.news])
    /\ UNCHANGED socialVars

AtMarket(npc) == Here(npc) = MarketRoom

\* Shocks first, then the traders that see the price move.
ShockTrades ==
    /\ fair.pc = "gossip" /\ fair.job = 0 /\ fair.work = {}
    /\ \E done \in SUBSET {s \in Shocks : s.tick = fair.tick /\ s.npc \in Folk
                                          /\ whereabouts[s.npc] = MarketRoom} :
           Wait([pc |-> "trade", k |-> 1, trades |-> SetToSeq(done)])
    /\ UNCHANGED socialVars

LastPrice(npc) == IF npc \in DOMAIN fair.last THEN fair.last[npc] ELSE 0
SetLast(npc, p) == [n \in DOMAIN fair.last \cup {npc} |-> IF n = npc THEN p ELSE fair.last[n]]

\* The price is remembered when it is seen, and again after a trade.
TraderActs ==
    /\ fair.pc = "trade"
    /\ \E i \in Named("trader", fair.skip), price \in Prices :
        LET t == Cast[i]
            seen == LastPrice(t.npc)
            side == IF (price > seen) = t.momentum THEN "buy" ELSE "sell"
        IN  /\ Before(Named("trader", fair.skip), i) = fair.k - 1
            /\ IF ~AtMarket(t.npc) THEN Wait([k |-> fair.k + 1])
               ELSE IF seen \in {0, price}
               THEN Wait([k |-> fair.k + 1, last |-> SetLast(t.npc, price)])
               ELSE \E after \in Prices, ok \in BOOLEAN :
                        Wait([k |-> fair.k + 1,
                              last |-> SetLast(t.npc, IF ok THEN after ELSE price),
                              trades |-> IF ~ok THEN fair.trades
                                         ELSE Append(fair.trades, [npc |-> t.npc, side |-> side])])
    /\ UNCHANGED socialVars

EndFair ==
    /\ fair.pc = "trade" /\ fair.k > Cardinality(Named("trader", fair.skip))
    /\ Wait([pc |-> "idle", tick |-> fair.tick + 1])
    /\ UNCHANGED socialVars

FairNext ==
    \/ \E skip \in Skips : BeginFair(skip)
    \/ MoveActor \/ TakeRooms \/ StartPitch \/ EndPitch \/ BeginGossip
    \/ StartGossip \/ EndGossip \/ ShockTrades \/ TraderActs \/ EndFair

\* The fair on its own world: its calls are the only ones.
FairSpec ==
    /\ SocialInit /\ FairInit
    /\ [][FairNext \/ ((\E j \in DOMAIN jobs : Proceed(j)) /\ UNCHANGED fair)]_<<socialVars, fair>>

(***************************************************************************)
(* Properties.                                                             *)
(***************************************************************************)
\* News travels with bodies: what a gossip tells in a tick, somebody lost in
\* that tick in the room where both the gossip and the listener are, it is not
\* told to the loser, and no warning is told twice (runTick's co-location gates
\* and warned set).
NewsTravels ==
    \A i \in DOMAIN fair.news :
        LET e == fair.news[i]
        IN  /\ \E h \in ToSet(fair.hits) :
                   h.from = e.about /\ h.to # e.to /\ h.room = Here(e.by) /\ h.room = Here(e.to)
            /\ \A k \in DOMAIN fair.news : fair.news[k] = e => k = i
=============================================================================
