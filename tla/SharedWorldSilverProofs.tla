----------------------- MODULE SharedWorldSilverProofs -----------------------
(***************************************************************************)
(* Theorems about SharedWorldSilver: the reserves of the rice market, the  *)
(* pools of the bets, the exchange, and the conservation of silver and     *)
(* rice, for any NPCs, markets, calls, amounts and hosts.                  *)
(*                                                                         *)
(* The invariant has two halves.  What a call carries is sound in itself,  *)
(* whatever the others did since it was read (RecordsInv, MintInv).  Where *)
(* the host makes one call at a time, what a call carries is moreover what *)
(* the store holds, and what it has taken and not yet given, or given and  *)
(* not yet taken, is the difference in the books (LoneInv).                *)
(***************************************************************************)
EXTENDS SharedWorldSilver, SumTheorems, TLAPS

-----------------------------------------------------------------------------
(***************************************************************************)
(* What a call carries.                                                    *)
(***************************************************************************)
Fields == {"pc", "op", "npc", "to", "amount", "side", "market", "seen", "rice",
           "day", "used", "pool", "bets", "purses", "left"}

\* Reserves on the curve the market was opened on.
OnCurve(p) ==
    /\ p \in [rice: Nat \ {0}, silver: Nat \ {0}]
    /\ Product(p) = OpeningPool * OpeningPool

\* A market nobody opened holds nothing, an open one what was staked.
MarketSound(b) ==
    /\ b.status = "none" => b.stakes = NoStakes /\ b.pools = NoMarket.pools
    /\ b.status = "open" =>
           \A s \in Sides : b.pools[s] = SumOf([n \in Npcs |-> b.stakes[n][s]], Npcs)

BetsSound(b) ==
    /\ b \in [Markets -> BettingMarket]
    /\ \A m \in Markets : MarketSound(b[m])

Granting(r) == r.pc \in {"grantSilver", "grantRice"} /\ r.npc \in Npcs

Transferring(r) ==
    /\ r.op = "transfer" /\ r.pc \in {"payRead", "payWrite", "giveRead", "giveWrite"}
    /\ r.npc \in Npcs /\ r.to \in Npcs /\ r.npc # r.to

Exchanging(r) ==
    /\ r.op = "exchange"
    /\ r.pc \in {"readGcc", "readDaily", "payRead", "payWrite",
                 "mintRead", "mintWrite", "writeDaily"}
    /\ r.npc \in Npcs /\ r.amount % Rate = 0

Trading(r) ==
    /\ r.op = "trade" /\ r.npc \in Npcs /\ OnCurve(r.pool)
    /\ \/ /\ r.pc \in {"tradeSilver", "tradeRice"}
          /\ r.side \in {"buy", "sell"} /\ Whole(r.pool, r.side, r.amount)
       \/ r.pc \in {"writeRice", "writeSilver", "writePool"}

OpeningBet(r) == r.op = "open" /\ r.pc = "writeBets" /\ BetsSound(r.bets)

Betting(r) ==
    /\ r.op = "bet" /\ r.pc \in {"betSilver", "writeSilver", "writeBets"}
    /\ r.npc \in Npcs /\ r.market \in Markets /\ r.side \in Sides
    /\ BetsSound(r.bets) /\ r.bets[r.market].status = "open"

Settling(r) == r.pc \in {"readStakers", "payStakers", "closeMarket"}

Resolving(r) ==
    /\ r.op = "resolve" /\ r.market \in Markets
    /\ BetsSound(r.bets) /\ r.bets[r.market].status = "open"
    /\ WholePayouts(r.bets[r.market])
    /\ \/ r.pc = "readPrice"
       \/ /\ Settling(r)
          /\ r.side \in Sides /\ r.purses \in [Npcs -> Nat]
          /\ r.left \subseteq Stakers(r.bets[r.market])

CallSound(r) ==
    /\ Fields \subseteq DOMAIN r
    /\ r.amount \in Nat /\ r.seen \in Nat /\ r.rice \in Nat /\ r.used \in Nat
    /\ r.day \in Days /\ r.left \subseteq Npcs
    /\ \/ r.pc = "idle"
       \/ Granting(r) \/ Transferring(r) \/ Exchanging(r) \/ Trading(r)
       \/ OpeningBet(r) \/ Betting(r) \/ Resolving(r)

HistoryOK ==
    history \in [granted: Nat, harvested: Nat,
                 exchanged: [Npcs -> [Days -> Nat]], staked: [Npcs -> Nat]]

\* Sound whatever calls overlap or are cut short.
RecordsInv ==
    /\ TypeOK /\ HistoryOK
    /\ OnCurve(pool) /\ BetsSound(bets)
    /\ DOMAIN call = Calls /\ \A c \in Calls : CallSound(call[c])

-----------------------------------------------------------------------------
(***************************************************************************)
(* What was burnt and not yet minted: of each NPC's exchanges, the GCC it  *)
(* has, or is about to have, and the silver of the calls that are between  *)
(* the payment and the minting.                                            *)
(***************************************************************************)
Minting(r) == r.pc \in {"mintRead", "mintWrite"}
UnmintedBy(r, n) == IF Minting(r) /\ r.npc = n THEN r.amount ELSE 0
Unminted(n) == [c \in Calls |-> UnmintedBy(call[c], n)]
Burnt(n) == SumOf(history.exchanged[n], Days)

MintInv ==
    \A n \in Npcs :
        /\ Rate * gcc[n] + SumOf(Unminted(n), Calls) <= Burnt(n)
        /\ \A c \in Calls : call[c].pc = "mintWrite" /\ call[c].npc = n =>
               Rate * call[c].seen + SumOf(Unminted(n), Calls) <= Burnt(n)

-----------------------------------------------------------------------------
(***************************************************************************)
(* One call at a time.                                                     *)
(***************************************************************************)
Busy(c) == call[c].pc # "idle"

AloneInv ==
    /\ ~ host.overlap => \A c, d \in Calls : Busy(c) /\ Busy(d) => c = d
    /\ \A c \in Calls : Trading(call[c]) => "trade" \in host.ops
    /\ \A c \in Calls : Resolving(call[c]) => "resolve" \in host.ops

\* What is running: the calls that are not idle, or else an idle call.
Running ==
    IF Quiet THEN {IdleCall} ELSE {call[c] : c \in {d \in Calls : Busy(d)}}

Total(b) == SumOf([m \in Markets |-> Staked(b[m])], Markets)
StakeOf(b, n) ==
    SumOf([m \in Markets |-> b[m].stakes[n]["YES"] + b[m].stakes[n]["NO"]], Markets)

\* Who has been served by a settlement, of those it pays.
Served(r) == Stakers(r.bets[r.market]) \ r.left
PayoutOf(r, n) == Payout(r.bets[r.market], r.side, n)

\* What a lone call carries is what the store holds.
Fresh(r) ==
    /\ r.pc = "grantSilver" => r.seen = silver[r.npc]
    /\ r.pc = "grantRice" => r.seen = rice[r.npc]
    /\ r.pc \in {"readGcc", "readDaily", "payRead", "payWrite"} => r.amount <= silver[r.npc]
    /\ r.pc = "payWrite" => r.seen = silver[r.npc]
    /\ r.pc = "giveWrite" => r.seen = silver[r.to]
    /\ r.pc \in {"tradeSilver", "tradeRice"} => r.pool = pool
    /\ r.pc = "tradeRice" => r.seen = silver[r.npc]
    /\ r.pc = "writeRice" => r.rice + r.pool.rice = rice[r.npc] + pool.rice
    /\ r.pc \in {"writeRice", "writeSilver"} /\ r.op = "trade" =>
           r.seen + r.pool.silver = silver[r.npc] + pool.silver
    /\ r.pc = "betSilver" => r.bets = bets
    /\ r.pc = "writeSilver" /\ r.op = "bet" => r.seen + r.amount = silver[r.npc]
    /\ r.pc \in {"writeSilver", "writeBets"} /\ r.op = "bet" =>
           /\ Total(r.bets) = Total(bets) + r.amount
           /\ \A n \in Npcs : StakeOf(r.bets, n) =
                  StakeOf(bets, n) + (IF n = r.npc THEN r.amount ELSE 0)
    /\ r.pc = "writeBets" /\ r.op = "open" =>
           /\ Total(r.bets) = Total(bets)
           /\ \A n \in Npcs : StakeOf(r.bets, n) = StakeOf(bets, n)
    /\ r.pc = "readPrice" \/ Settling(r) => r.bets = bets
    /\ r.pc = "readStakers" =>
           \A n \in Served(r) : r.purses[n] = silver[n] + PayoutOf(r, n)
    /\ r.pc = "payStakers" =>
           \A n \in r.left : r.purses[n] = silver[n] + PayoutOf(r, n)

\* Silver that a call took and will still give, less what it gave too early.
SilverDue(r) ==
    IF r.pc \in {"giveRead", "giveWrite"} \/ (r.pc = "writeBets" /\ r.op = "bet")
    THEN r.amount
    ELSE IF r.pc = "writePool" THEN r.pool.silver - pool.silver
    ELSE IF r.pc = "payStakers"
    THEN 0 - SumOf([n \in Npcs |-> PayoutOf(r, n)], Served(r))
    ELSE IF r.pc = "closeMarket" THEN 0 - Staked(r.bets[r.market])
    ELSE 0

RiceDue(r) ==
    IF r.op = "trade" /\ r.pc \in {"writeSilver", "writePool"}
    THEN r.pool.rice - pool.rice ELSE 0

StakeDue(r, n) ==
    IF r.op = "bet" /\ r.pc = "writeBets" /\ r.npc = n THEN r.amount ELSE 0

\* A host under which a call that would make silver by being cut short is not
\* made, or not cut short.
TakesFirst == host.fails => host.ops \cap {"trade", "resolve"} = {}

\* The books balance with what the call r owes or is owed.
SilverBooks(r) ==
    TakesFirst =>
        /\ SilverPresent + SilverDue(r) <= SilverIssued - SilverBurnt
        /\ ~ host.fails => SilverPresent + SilverDue(r) = SilverIssued - SilverBurnt

RiceBooks(r) ==
    RicePresent + RiceDue(r) =
        host.rice * Cardinality(Npcs) + OpeningPool + history.harvested

StakeBooks(r) ==
    \A n \in Npcs : history.staked[n] = StakeOf(bets, n) + StakeDue(r, n)

\* The daily total of an exchange is the history of the day, up to the last
\* write of the call that is paying.
CapDue(r, n, d) ==
    IF /\ r.pc \in {"mintRead", "mintWrite", "writeDaily"}
       /\ r.npc = n /\ r.day = d
    THEN r.amount ELSE 0

DayBooks(r) ==
    \A n \in Npcs :
        /\ daily[n].day <= today
        /\ \A d \in Days :
               /\ history.exchanged[n][d] <= DailyCap
               /\ d > today => history.exchanged[n][d] = 0
               /\ d >= daily[n].day =>
                      history.exchanged[n][d] = UsedOn(d, n) + CapDue(r, n, d)

DayRead(r) ==
    /\ r.op = "exchange"
    /\ r.pc \in {"readDaily", "payRead", "payWrite", "mintRead", "mintWrite", "writeDaily"}
    =>  /\ daily[r.npc].day <= r.day /\ r.day <= today
        /\ r.pc # "readDaily" =>
               /\ r.used = UsedOn(r.day, r.npc)
               /\ r.used + r.amount <= DailyCap

Lone(r) ==
    /\ Fresh(r) /\ SilverBooks(r)
    /\ ~ host.fails => RiceBooks(r) /\ StakeBooks(r) /\ DayBooks(r) /\ DayRead(r)

LoneInv == ~ host.overlap => \A r \in Running : Lone(r)

SilverWorldInv == RecordsInv /\ MintInv /\ AloneInv /\ LoneInv

-----------------------------------------------------------------------------
(***************************************************************************)
(* What each action does to its call: the fields it sets, all others kept. *)
(***************************************************************************)
Keeps(t, r, F) == \A f \in Fields \ F : t[f] = r[f]

Others(c) ==
    /\ DOMAIN call' = Calls
    /\ \A d \in Calls \ {c} : call'[d] = call[d]

\* Call c is at pc afterwards and only its fields F differ.
Moves(c, pc, F) ==
    /\ Others(c)
    /\ Fields \subseteq DOMAIN call'[c]
    /\ call'[c].pc = pc
    /\ Keeps(call'[c], call[c], F)

\* Call c is idle afterwards.
Ends(c) == Others(c) /\ call'[c] = IdleCall

\* Call c was idle and is at pc afterwards; its fields but F are those of IdleCall.
Starts(c, pc, F) ==
    /\ call[c].pc = "idle" /\ Others(c)
    /\ Fields \subseteq DOMAIN call'[c]
    /\ call'[c].pc = pc
    /\ Keeps(call'[c], IdleCall, F)

Shaped == DOMAIN call = Calls /\ \A c \in Calls : Fields \subseteq DOMAIN call[c]

LEMMA InvShaped == ASSUME RecordsInv PROVE Shaped
BY DEF RecordsInv, Shaped, CallSound

LEMMA IdleFields ==
    /\ Fields \subseteq DOMAIN IdleCall
    /\ IdleCall.pc = "idle" /\ IdleCall.amount = 0 /\ IdleCall.seen = 0
    /\ IdleCall.rice = 0 /\ IdleCall.day = 0 /\ IdleCall.used = 0
    /\ IdleCall.left = {}
BY DEF IdleCall, Fields

LEMMA CallBecomes ==
    ASSUME Shaped, NEW c \in Calls, NEW r, call' = [call EXCEPT ![c] = r]
    PROVE  Others(c) /\ call'[c] = r
BY DEF Shaped, Others

LEMMA Returns ==
    ASSUME Shaped, NEW c \in Calls, Return(c)
    PROVE  Ends(c)
BY CallBecomes DEF Return, Ends

-----------------------------------------------------------------------------
LEMMA PcMoves ==
    ASSUME Shaped, NEW c \in Calls, NEW s, call' = [call EXCEPT ![c].pc = s]
    PROVE  Moves(c, s, {"pc"})
<1> PICK r : r = [call[c] EXCEPT !.pc = s]
  OBVIOUS
<1>1. call' = [call EXCEPT ![c] = r]
  OBVIOUS
<1>2. Fields \subseteq DOMAIN r /\ r.pc = s /\ Keeps(r, call[c], {"pc"})
  BY DEF Shaped, Fields, Keeps
<1>3. QED
  BY <1>1, <1>2, CallBecomes DEF Moves

LEMMA SeenMoves ==
    ASSUME Shaped, NEW c \in Calls, NEW s, NEW x,
           call' = [call EXCEPT ![c].pc = s, ![c].seen = x]
    PROVE  Moves(c, s, {"pc", "seen"}) /\ call'[c].seen = x
<1> PICK r : r = [call[c] EXCEPT !.pc = s, !.seen = x]
  OBVIOUS
<1>1. call' = [call EXCEPT ![c] = r]
  BY DEF Shaped
<1>2. Fields \subseteq DOMAIN r /\ r.pc = s /\ r.seen = x /\ Keeps(r, call[c], {"pc", "seen"})
  BY DEF Shaped, Fields, Keeps
<1>3. QED
  BY <1>1, <1>2, CallBecomes DEF Moves

LEMMA PurseMoves ==
    ASSUME Shaped, NEW c \in Calls, NEW from, NEW to, NEW n, ReadPurse(c, from, to, n)
    PROVE  /\ call[c].pc = from /\ UNCHANGED <<silver, rice, gcc, Records, history>>
           /\ Moves(c, to, {"pc", "seen"}) /\ call'[c].seen = silver[n]
BY SeenMoves DEF ReadPurse, At

LEMMA PayWriteMoves ==
    ASSUME Shaped, NEW c \in Calls, PayWrite(c)
    PROVE  /\ call[c].pc = "payWrite"
           /\ call[c].op = "transfer" => Moves(c, "giveRead", {"pc"})
           /\ call[c].op # "transfer" => Moves(c, "mintRead", {"pc"})
BY PcMoves DEF PayWrite, At

LEMMA ReadGccMoves ==
    ASSUME Shaped, NEW c \in Calls, ReadGcc(c)
    PROVE  /\ call[c].pc = "readGcc"
           /\ Moves(c, "readDaily", {"pc", "day"}) /\ call'[c].day = today
<1> PICK r : r = [call[c] EXCEPT !.pc = "readDaily", !.day = today]
  OBVIOUS
<1>1. call' = [call EXCEPT ![c] = r]
  BY DEF ReadGcc, Shaped
<1>2. Fields \subseteq DOMAIN r /\ r.pc = "readDaily" /\ r.day = today /\ Keeps(r, call[c], {"pc", "day"})
  BY DEF Shaped, Fields, Keeps
<1>3. QED
  BY <1>1, <1>2, CallBecomes DEF Moves, ReadGcc, At

LEMMA ReadDailyMoves ==
    ASSUME Shaped, NEW c \in Calls, ReadDaily(c)
    PROVE  /\ call[c].pc = "readDaily"
           /\ \/ Ends(c)
              \/ /\ Moves(c, "payRead", {"pc", "used"})
                 /\ call'[c].used = UsedOn(call[c].day, call[c].npc)
                 /\ ~ (call'[c].used + call[c].amount > DailyCap)
<1> PICK x : x = UsedOn(call[c].day, call[c].npc)
  OBVIOUS
<1>1. CASE Return(c)
  BY <1>1, Returns DEF ReadDaily, At
<1>2. CASE call' = [call EXCEPT ![c].pc = "payRead", ![c].used = x]
           /\ ~ (x + call[c].amount > DailyCap)
  <2> PICK r : r = [call[c] EXCEPT !.pc = "payRead", !.used = x]
    OBVIOUS
  <2>1. call' = [call EXCEPT ![c] = r]
    BY <1>2 DEF Shaped
  <2>2. Fields \subseteq DOMAIN r /\ r.pc = "payRead" /\ r.used = x /\ Keeps(r, call[c], {"pc", "used"})
    BY DEF Shaped, Fields, Keeps
  <2>3. QED
    BY <1>2, <2>1, <2>2, CallBecomes DEF Moves, ReadDaily, At
<1>3. QED
  BY <1>1, <1>2 DEF ReadDaily, Me

LEMMA MintReadMoves ==
    ASSUME Shaped, NEW c \in Calls, MintRead(c)
    PROVE  /\ call[c].pc = "mintRead"
           /\ Moves(c, "mintWrite", {"pc", "seen"}) /\ call'[c].seen = gcc[call[c].npc]
BY SeenMoves DEF MintRead, At, Me

LEMMA MintWriteMoves ==
    ASSUME Shaped, NEW c \in Calls, MintWrite(c)
    PROVE  call[c].pc = "mintWrite" /\ Moves(c, "writeDaily", {"pc"})
BY PcMoves DEF MintWrite, At

LEMMA ApplyTradeMoves ==
    ASSUME Shaped, NEW c \in Calls, ApplyTrade(c),
           NEW after, after = Swapped(call[c].pool, call[c].side, call[c].amount)
    PROVE  /\ call[c].pc = "tradeRice"
           /\ \/ Ends(c)
              \/ /\ ~ ((IF call[c].side = "buy" THEN call[c].seen
                                                ELSE rice[call[c].npc]) < call[c].amount)
                 /\ Moves(c, "writeRice", {"pc", "pool", "rice", "seen"})
                 /\ call'[c].pool = after
                 /\ call'[c].rice = rice[call[c].npc] + call[c].pool.rice - after.rice
                 /\ call'[c].seen = call[c].seen + call[c].pool.silver - after.silver
<1>1. CASE Return(c)
  BY <1>1, Returns DEF ApplyTrade, At
<1>2. PICK x, y : /\ x = rice[call[c].npc] + call[c].pool.rice - after.rice
                  /\ y = call[c].seen + call[c].pool.silver - after.silver
  BY Zenon
<1>3. CASE /\ ~ ((IF call[c].side = "buy" THEN call[c].seen
                                          ELSE rice[call[c].npc]) < call[c].amount)
           /\ call' = [call EXCEPT ![c].pc = "writeRice", ![c].pool = after,
                                   ![c].rice = x, ![c].seen = y]
  <2> PICK r : r = [call[c] EXCEPT !.pc = "writeRice", !.pool = after,
                                   !.rice = x, !.seen = y]
    OBVIOUS
  <2>1. call' = [call EXCEPT ![c] = r]
    BY <1>3 DEF Shaped
  <2>2. /\ Fields \subseteq DOMAIN r /\ r.pc = "writeRice"
        /\ r.pool = after /\ r.rice = x /\ r.seen = y
        /\ Keeps(r, call[c], {"pc", "pool", "rice", "seen"})
    BY DEF Shaped, Fields, Keeps
  <2>3. /\ Moves(c, "writeRice", {"pc", "pool", "rice", "seen"})
        /\ call'[c].pool = after /\ call'[c].rice = x /\ call'[c].seen = y
    BY <2>1, <2>2, CallBecomes DEF Moves
  <2>4. call[c].pc = "tradeRice"
    BY DEF ApplyTrade, At
  <2>5. QED
    BY <1>2, <1>3, <2>3, <2>4
<1>4. QED
  BY <1>1, <1>2, <1>3 DEF ApplyTrade, Me

LEMMA WriteRiceMoves ==
    ASSUME Shaped, NEW c \in Calls, WriteRice(c)
    PROVE  call[c].pc = "writeRice" /\ Moves(c, "writeSilver", {"pc"})
BY PcMoves DEF WriteRice, At

LEMMA WriteSilverMoves ==
    ASSUME Shaped, NEW c \in Calls, WriteSilver(c)
    PROVE  /\ call[c].pc = "writeSilver"
           /\ call[c].op = "trade" => Moves(c, "writePool", {"pc"})
           /\ call[c].op # "trade" => Moves(c, "writeBets", {"pc"})
BY PcMoves, Zenon DEF WriteSilver, At

\* The record of the bets that placing a bet will write.
Placed(b, m, n, side, amount) ==
    [b EXCEPT ![m].stakes[n][side] = @ + amount, ![m].pools[side] = @ + amount]

LEMMA ApplyBetMoves ==
    ASSUME Shaped, NEW c \in Calls, ApplyBet(c),
           NEW b, b = Placed(call[c].bets, call[c].market, call[c].npc,
                             call[c].side, call[c].amount)
    PROVE  /\ call[c].pc = "betSilver"
           /\ \/ Ends(c)
              \/ /\ ~ (silver[call[c].npc] < call[c].amount)
                 /\ Moves(c, "writeSilver", {"pc", "seen", "bets"})
                 /\ call'[c].seen = silver[call[c].npc] - call[c].amount
                 /\ call'[c].bets = b
<1>1. CASE Return(c)
  BY <1>1, Returns, Zenon DEF ApplyBet, At
<1>2. PICK m, n, k, a, x : /\ m = call[c].market /\ n = call[c].npc /\ k = call[c].side
                           /\ a = call[c].amount /\ x = silver[n] - a
  OBVIOUS
<1> PICK y, z : /\ y = call[c].bets[m].stakes[n][k] + a
                /\ z = call[c].bets[m].pools[k] + a
  BY Zenon
<1>3. CASE ~ (silver[call[c].npc] < call[c].amount) /\ ~ Return(c)
  <2>1. PICK f : f = [call EXCEPT ![c].pc = "writeSilver", ![c].seen = x]
    OBVIOUS
  <2>2. PICK g : g = [f EXCEPT ![c].bets[m].stakes[n][k] = y]
    BY Zenon
  <2>3. call' = [g EXCEPT ![c].bets[m].pools[k] = z]
    <3>1. call' = [call EXCEPT
                        ![c].pc = "writeSilver", ![c].seen = silver[call[c].npc] - call[c].amount,
                        ![c].bets[call[c].market].stakes[call[c].npc][call[c].side] =
                            @ + call[c].amount,
                        ![c].bets[call[c].market].pools[call[c].side] = @ + call[c].amount]
      BY <1>3, Zenon DEF ApplyBet, Me
    <3>2. call' = [call EXCEPT
                        ![c].pc = "writeSilver", ![c].seen = x,
                        ![c].bets[m].stakes[n][k] = y, ![c].bets[m].pools[k] = z]
      BY <1>2, <3>1, Zenon
    <3>3. QED
      BY <2>1, <2>2, <3>2, Zenon
  <2>4. /\ DOMAIN f = Calls /\ \A d \in Calls \ {c} : f[d] = call[d]
        /\ Fields \subseteq DOMAIN f[c] /\ f[c].pc = "writeSilver" /\ f[c].seen = x
        /\ Keeps(f[c], call[c], {"pc", "seen"})
    <3> PICK r : r = [call[c] EXCEPT !.pc = "writeSilver", !.seen = x]
      OBVIOUS
    <3>1. f = [call EXCEPT ![c] = r]
      BY <2>1
    <3>2. /\ Fields \subseteq DOMAIN r /\ r.pc = "writeSilver" /\ r.seen = x
          /\ Keeps(r, call[c], {"pc", "seen"})
      BY DEF Shaped, Fields, Keeps
    <3>3. QED
      BY <3>1, <3>2 DEF Shaped
  <2>5. /\ DOMAIN g = Calls /\ \A d \in Calls \ {c} : g[d] = call[d]
        /\ Fields \subseteq DOMAIN g[c] /\ g[c].pc = "writeSilver" /\ g[c].seen = x
        /\ Keeps(g[c], call[c], {"pc", "seen", "bets"})
        /\ g[c].bets = [call[c].bets EXCEPT ![m].stakes[n][k] = y]
    BY <2>2, <2>4 DEF Fields, Keeps
  <2>6. /\ DOMAIN call' = Calls /\ \A d \in Calls \ {c} : call'[d] = call[d]
        /\ Fields \subseteq DOMAIN call'[c] /\ call'[c].pc = "writeSilver"
        /\ call'[c].seen = x
        /\ Keeps(call'[c], call[c], {"pc", "seen", "bets"})
        /\ call'[c].bets = [g[c].bets EXCEPT ![m].pools[k] = z]
    BY <2>3, <2>5, Zenon DEF Fields, Keeps
  <2>7. call'[c].bets = b
    <3>1. b = [call[c].bets EXCEPT ![m].stakes[n][k] = y, ![m].pools[k] = z]
      BY <1>2, Zenon DEF Placed
    <3>2. QED
      BY <2>5, <2>6, <3>1, Zenon
  <2>8. call[c].pc = "betSilver"
    BY Zenon DEF ApplyBet, At
  <2>9. QED
    BY <1>2, <1>3, <2>6, <2>7, <2>8, Zenon DEF Moves, Others
<1>4. QED
  BY <1>1, <1>3, Zenon DEF ApplyBet, Me

LEMMA ReadPriceMoves ==
    ASSUME Shaped, NEW c \in Calls, ReadPrice(c),
           NEW b, b = call[c].bets[call[c].market]
    PROVE  /\ call[c].pc = "readPrice"
           /\ Stakers(b) = {} =>
                 Moves(c, "closeMarket", {"pc", "side", "purses", "left"})
           /\ Stakers(b) # {} =>
                 Moves(c, "readStakers", {"pc", "side", "purses", "left"})
           /\ call'[c].side = Outcome(pool, b)
           /\ call'[c].purses = [n \in Npcs |-> 0]
           /\ call'[c].left = Stakers(b)
<1>1. PICK s, x, y, z : /\ s = IF Stakers(b) = {} THEN "closeMarket" ELSE "readStakers"
                        /\ x = Outcome(pool, b)
                        /\ y = [n \in Npcs |-> 0] /\ z = Stakers(b)
  BY Zenon
<1>2. call' = [call EXCEPT ![c].pc = s, ![c].side = x, ![c].purses = y, ![c].left = z]
  BY <1>1, Zenon DEF ReadPrice
<1>3. Moves(c, s, {"pc", "side", "purses", "left"})
      /\ call'[c].side = x /\ call'[c].purses = y /\ call'[c].left = z
  <2> PICK r : r = [call[c] EXCEPT !.pc = s, !.side = x, !.purses = y, !.left = z]
    OBVIOUS
  <2>1. call' = [call EXCEPT ![c] = r]
    BY <1>2 DEF Shaped
  <2>2. /\ Fields \subseteq DOMAIN r /\ r.pc = s
        /\ r.side = x /\ r.purses = y /\ r.left = z
        /\ Keeps(r, call[c], {"pc", "side", "purses", "left"})
    BY DEF Shaped, Fields, Keeps
  <2>3. QED
    BY <2>1, <2>2, CallBecomes DEF Moves
<1>4. call[c].pc = "readPrice"
  BY DEF ReadPrice, At
<1>5. QED
  BY <1>1, <1>3, <1>4

LEMMA ReadStakerMoves ==
    ASSUME Shaped, NEW c \in Calls, NEW n \in Npcs, ReadStaker(c, n)
    PROVE  /\ call[c].pc = "readStakers" /\ n \in call[c].left
           /\ call[c].left = {n} =>
                 /\ Moves(c, "payStakers", {"pc", "purses", "left"})
                 /\ call'[c].left = Stakers(call[c].bets[call[c].market])
           /\ call[c].left # {n} =>
                 /\ Moves(c, "readStakers", {"pc", "purses", "left"})
                 /\ call'[c].left = call[c].left \ {n}
           /\ call'[c].purses =
                 [call[c].purses EXCEPT ![n] = silver[n] + PayoutOf(call[c], n)]
<1>1. PICK s, x, y :
         /\ s = IF call[c].left = {n} THEN "payStakers" ELSE "readStakers"
         /\ x = [call[c].purses EXCEPT ![n] = silver[n] + PayoutOf(call[c], n)]
         /\ y = IF call[c].left = {n} THEN Stakers(call[c].bets[call[c].market])
                                      ELSE call[c].left \ {n}
  OBVIOUS
<1>2. call[c].pc = "readStakers" /\ n \in call[c].left
  BY DEF ReadStaker, At
<1>3. PICK r : r = [call[c] EXCEPT !.purses = x, !.pc = s, !.left = y]
  BY Zenon
<1>4. call' = [call EXCEPT ![c] = r]
  BY <1>1, <1>2, <1>3 DEF ReadStaker, PayoutOf, Shaped, Fields
<1>5. /\ Fields \subseteq DOMAIN r /\ r.pc = s /\ r.purses = x /\ r.left = y
      /\ Keeps(r, call[c], {"pc", "purses", "left"})
  BY <1>3 DEF Shaped, Fields, Keeps
<1>6. Moves(c, s, {"pc", "purses", "left"}) /\ call'[c].purses = x /\ call'[c].left = y
  BY <1>4, <1>5, CallBecomes DEF Moves
<1>7. QED
  BY <1>1, <1>2, <1>6

LEMMA PayStakerMoves ==
    ASSUME Shaped, NEW c \in Calls, NEW n \in Npcs, PayStaker(c, n)
    PROVE  /\ call[c].pc = "payStakers" /\ n \in call[c].left
           /\ call[c].left = {n} => Moves(c, "closeMarket", {"pc", "left"})
           /\ call[c].left # {n} => Moves(c, "payStakers", {"pc", "left"})
           /\ call'[c].left = call[c].left \ {n}
<1>1. PICK s, y : /\ s = IF call[c].left = {n} THEN "closeMarket" ELSE "payStakers"
                  /\ y = call[c].left \ {n}
  OBVIOUS
<1>2. call[c].pc = "payStakers" /\ n \in call[c].left
  BY DEF PayStaker, At
<1>3. PICK r : r = [call[c] EXCEPT !.left = y, !.pc = s]
  OBVIOUS
<1>4. call' = [call EXCEPT ![c] = r]
  BY <1>1, <1>2, <1>3 DEF PayStaker, Shaped, Fields
<1>5. /\ Fields \subseteq DOMAIN r /\ r.pc = s /\ r.left = y
      /\ Keeps(r, call[c], {"pc", "left"})
  BY <1>3 DEF Shaped, Fields, Keeps
<1>6. Moves(c, s, {"pc", "left"}) /\ call'[c].left = y
  BY <1>4, <1>5, CallBecomes DEF Moves
<1>7. QED
  BY <1>1, <1>2, <1>6

LEMMA GrantSilverStarts ==
    ASSUME Shaped, NEW c \in Calls, NEW n, NEW amount, GrantSilver(c, n, amount)
    PROVE  /\ Starts(c, "grantSilver", {"pc", "npc", "amount", "seen"})
           /\ call'[c].npc = n
           /\ call'[c].amount = amount
           /\ call'[c].seen = silver[n]
<1>1. PICK x0, x1, x2 :
    /\ x0 = n
    /\ x1 = amount
    /\ x2 = silver[n]
  OBVIOUS
<1>2. PICK r : r = [IdleCall EXCEPT !.pc = "grantSilver", !.npc = x0, !.amount = x1, !.seen = x2]
  OBVIOUS
<1>3. call' = [call EXCEPT ![c] = r] /\ call[c].pc = "idle"
  BY <1>1, <1>2, Zenon DEF GrantSilver, MayCall, At
<1>4. /\ Fields \subseteq DOMAIN r /\ r.pc = "grantSilver" /\ r.npc = x0 /\ r.amount = x1 /\ r.seen = x2
      /\ Keeps(r, IdleCall, {"pc", "npc", "amount", "seen"})
  BY <1>2, IdleFields DEF Fields, Keeps
<1>5. QED
  BY <1>1, <1>3, <1>4, CallBecomes DEF Starts

LEMMA GrantRiceStarts ==
    ASSUME Shaped, NEW c \in Calls, NEW n, NEW amount, GrantRice(c, n, amount)
    PROVE  /\ Starts(c, "grantRice", {"pc", "npc", "amount", "seen"})
           /\ call'[c].npc = n
           /\ call'[c].amount = amount
           /\ call'[c].seen = rice[n]
<1>1. PICK x0, x1, x2 :
    /\ x0 = n
    /\ x1 = amount
    /\ x2 = rice[n]
  OBVIOUS
<1>2. PICK r : r = [IdleCall EXCEPT !.pc = "grantRice", !.npc = x0, !.amount = x1, !.seen = x2]
  OBVIOUS
<1>3. call' = [call EXCEPT ![c] = r] /\ call[c].pc = "idle"
  BY <1>1, <1>2, Zenon DEF GrantRice, MayCall, At
<1>4. /\ Fields \subseteq DOMAIN r /\ r.pc = "grantRice" /\ r.npc = x0 /\ r.amount = x1 /\ r.seen = x2
      /\ Keeps(r, IdleCall, {"pc", "npc", "amount", "seen"})
  BY <1>2, IdleFields DEF Fields, Keeps
<1>5. QED
  BY <1>1, <1>3, <1>4, CallBecomes DEF Starts

LEMMA TransferStarts ==
    ASSUME Shaped, NEW c \in Calls, NEW n, NEW to, NEW amount, Transfer(c, n, to, amount)
    PROVE  /\ Starts(c, "payRead", {"pc", "op", "npc", "to", "amount"})
           /\ call'[c].op = "transfer"
           /\ call'[c].npc = n
           /\ call'[c].to = to
           /\ call'[c].amount = Lesser(amount, silver[n])
<1>1. PICK x0, x1, x2, x3 :
    /\ x0 = "transfer"
    /\ x1 = n
    /\ x2 = to
    /\ x3 = Lesser(amount, silver[n])
  OBVIOUS
<1>2. PICK r : r = [IdleCall EXCEPT !.pc = "payRead", !.op = x0, !.npc = x1, !.to = x2, !.amount = x3]
  OBVIOUS
<1>3. call' = [call EXCEPT ![c] = r] /\ call[c].pc = "idle"
  BY <1>1, <1>2, Zenon DEF Transfer, MayCall, At
<1>4. /\ Fields \subseteq DOMAIN r /\ r.pc = "payRead" /\ r.op = x0 /\ r.npc = x1 /\ r.to = x2 /\ r.amount = x3
      /\ Keeps(r, IdleCall, {"pc", "op", "npc", "to", "amount"})
  BY <1>2, IdleFields DEF Fields, Keeps
<1>5. QED
  BY <1>1, <1>3, <1>4, CallBecomes DEF Starts

LEMMA ExchangeStarts ==
    ASSUME Shaped, NEW c \in Calls, NEW n, NEW amount, Exchange(c, n, amount)
    PROVE  /\ Starts(c, "readGcc", {"pc", "op", "npc", "amount"})
           /\ call'[c].op = "exchange"
           /\ call'[c].npc = n
           /\ call'[c].amount = amount
<1>1. PICK x0, x1, x2 :
    /\ x0 = "exchange"
    /\ x1 = n
    /\ x2 = amount
  OBVIOUS
<1>2. PICK r : r = [IdleCall EXCEPT !.pc = "readGcc", !.op = x0, !.npc = x1, !.amount = x2]
  OBVIOUS
<1>3. call' = [call EXCEPT ![c] = r] /\ call[c].pc = "idle"
  BY <1>1, <1>2, Zenon DEF Exchange, MayCall, At
<1>4. /\ Fields \subseteq DOMAIN r /\ r.pc = "readGcc" /\ r.op = x0 /\ r.npc = x1 /\ r.amount = x2
      /\ Keeps(r, IdleCall, {"pc", "op", "npc", "amount"})
  BY <1>2, IdleFields DEF Fields, Keeps
<1>5. QED
  BY <1>1, <1>3, <1>4, CallBecomes DEF Starts

LEMMA TradeStarts ==
    ASSUME Shaped, NEW c \in Calls, NEW n, NEW side, NEW amount, Trade(c, n, side, amount)
    PROVE  /\ Starts(c, "tradeSilver", {"pc", "op", "npc", "side", "amount", "pool"})
           /\ call'[c].op = "trade"
           /\ call'[c].npc = n
           /\ call'[c].side = side
           /\ call'[c].amount = amount
           /\ call'[c].pool = pool
<1>1. PICK x0, x1, x2, x3, x4 :
    /\ x0 = "trade"
    /\ x1 = n
    /\ x2 = side
    /\ x3 = amount
    /\ x4 = pool
  OBVIOUS
<1>2. PICK r : r = [IdleCall EXCEPT !.pc = "tradeSilver", !.op = x0, !.npc = x1, !.side = x2, !.amount = x3, !.pool = x4]
  OBVIOUS
<1>3. call' = [call EXCEPT ![c] = r] /\ call[c].pc = "idle"
  BY <1>1, <1>2, Zenon DEF Trade, MayCall, At
<1>4. /\ Fields \subseteq DOMAIN r /\ r.pc = "tradeSilver" /\ r.op = x0 /\ r.npc = x1 /\ r.side = x2 /\ r.amount = x3 /\ r.pool = x4
      /\ Keeps(r, IdleCall, {"pc", "op", "npc", "side", "amount", "pool"})
  BY <1>2, IdleFields DEF Fields, Keeps
<1>5. QED
  BY <1>1, <1>3, <1>4, CallBecomes DEF Starts

LEMMA OpenBetStarts ==
    ASSUME Shaped, NEW c \in Calls, NEW m, NEW threshold, OpenBet(c, m, threshold)
    PROVE  /\ Starts(c, "writeBets", {"pc", "op", "bets"})
           /\ call'[c].op = "open"
           /\ call'[c].bets = [bets EXCEPT ![m].status = "open", ![m].threshold = threshold]
<1>1. PICK x0, x1 :
    /\ x0 = "open"
    /\ x1 = [bets EXCEPT ![m].status = "open", ![m].threshold = threshold]
  OBVIOUS
<1>2. PICK r : r = [IdleCall EXCEPT !.pc = "writeBets", !.op = x0, !.bets = x1]
  OBVIOUS
<1>3. call' = [call EXCEPT ![c] = r] /\ call[c].pc = "idle"
  BY <1>1, <1>2, Zenon DEF OpenBet, MayCall, At
<1>4. /\ Fields \subseteq DOMAIN r /\ r.pc = "writeBets" /\ r.op = x0 /\ r.bets = x1
      /\ Keeps(r, IdleCall, {"pc", "op", "bets"})
  BY <1>2, IdleFields DEF Fields, Keeps
<1>5. QED
  BY <1>1, <1>3, <1>4, CallBecomes DEF Starts

LEMMA PlaceBetStarts ==
    ASSUME Shaped, NEW c \in Calls, NEW n, NEW m, NEW side, NEW amount, PlaceBet(c, n, m, side, amount)
    PROVE  /\ Starts(c, "betSilver", {"pc", "op", "npc", "market", "side", "amount", "bets"})
           /\ call'[c].op = "bet"
           /\ call'[c].npc = n
           /\ call'[c].market = m
           /\ call'[c].side = side
           /\ call'[c].amount = amount
           /\ call'[c].bets = bets
<1>1. PICK x0, x1, x2, x3, x4, x5 :
    /\ x0 = "bet"
    /\ x1 = n
    /\ x2 = m
    /\ x3 = side
    /\ x4 = amount
    /\ x5 = bets
  OBVIOUS
<1>2. PICK r : r = [IdleCall EXCEPT !.pc = "betSilver", !.op = x0, !.npc = x1, !.market = x2, !.side = x3, !.amount = x4, !.bets = x5]
  OBVIOUS
<1>3. call' = [call EXCEPT ![c] = r] /\ call[c].pc = "idle"
  BY <1>1, <1>2, Zenon DEF PlaceBet, MayCall, At
<1>4. /\ Fields \subseteq DOMAIN r /\ r.pc = "betSilver" /\ r.op = x0 /\ r.npc = x1 /\ r.market = x2 /\ r.side = x3 /\ r.amount = x4 /\ r.bets = x5
      /\ Keeps(r, IdleCall, {"pc", "op", "npc", "market", "side", "amount", "bets"})
  BY <1>2, IdleFields DEF Fields, Keeps
<1>5. QED
  BY <1>1, <1>3, <1>4, CallBecomes DEF Starts

LEMMA ResolveStarts ==
    ASSUME Shaped, NEW c \in Calls, NEW m, Resolve(c, m)
    PROVE  /\ Starts(c, "readPrice", {"pc", "op", "market", "bets"})
           /\ call'[c].op = "resolve"
           /\ call'[c].market = m
           /\ call'[c].bets = bets
<1>1. PICK x0, x1, x2 :
    /\ x0 = "resolve"
    /\ x1 = m
    /\ x2 = bets
  OBVIOUS
<1>2. PICK r : r = [IdleCall EXCEPT !.pc = "readPrice", !.op = x0, !.market = x1, !.bets = x2]
  OBVIOUS
<1>3. call' = [call EXCEPT ![c] = r] /\ call[c].pc = "idle"
  BY <1>1, <1>2, Zenon DEF Resolve, MayCall, At
<1>4. /\ Fields \subseteq DOMAIN r /\ r.pc = "readPrice" /\ r.op = x0 /\ r.market = x1 /\ r.bets = x2
      /\ Keeps(r, IdleCall, {"pc", "op", "market", "bets"})
  BY <1>2, IdleFields DEF Fields, Keeps
<1>5. QED
  BY <1>1, <1>3, <1>4, CallBecomes DEF Starts

-----------------------------------------------------------------------------
(***************************************************************************)
(* Arithmetic of the market and of the payouts.                            *)
(***************************************************************************)
LEMMA Constants ==
    /\ Rate \in Nat /\ Rate > 0 /\ DailyCap \in Nat /\ MaxDay \in Nat
    /\ OpeningPool \in Nat /\ OpeningPool > 0 /\ OpeningPool * OpeningPool \in Nat
    /\ OpeningPool * OpeningPool > 0
    /\ Amounts \subseteq Nat /\ Thresholds \subseteq Nat
    /\ IsFiniteSet(Npcs) /\ IsFiniteSet(Markets) /\ IsFiniteSet(Calls)
    /\ Days \subseteq Nat /\ 0 \in Days
<1> PICK n : n = OpeningPool
  OBVIOUS
<1>1. n \in Nat /\ n > 0
  BY SilverAssumption
<1>2. n * n \in Nat /\ n * n > 0
  BY <1>1
<1>3. QED
  BY <1>1, <1>2, SilverAssumption DEF Days

LEMMA SumOfZeros ==
    ASSUME NEW S, NEW f, \A x \in S : f[x] = 0
    PROVE  SumOf(f, S) = 0
<1>1. Units(f, S) = {}
  <2>1. \A x \in S : 1..f[x] = {}
    OBVIOUS
  <2>2. QED
    BY <2>1 DEF Units
<1>2. QED
  BY <1>1, FS_EmptySet DEF SumOf

LEMMA DaysFinite == IsFiniteSet(Days)
<1>1. 0 \in Int /\ MaxDay \in Int
  BY Constants
<1>2. QED
  BY <1>1, FS_Interval DEF Days

LEMMA ProductType ==
    ASSUME NEW x \in Nat \ {0}, NEW y \in Nat \ {0}
    PROVE  x * y \in Nat /\ x * y > 0 /\ x * y = y * x
OBVIOUS

LEMMA SwapKeepsCurve ==
    ASSUME NEW p, OnCurve(p), NEW side \in {"buy", "sell"}, NEW a \in Nat,
           Whole(p, side, a), NEW q, q = Swapped(p, side, a)
    PROVE  /\ OnCurve(q)
           /\ side = "buy" => q.silver = p.silver + a /\ q.rice <= p.rice
           /\ side = "sell" => q.rice = p.rice + a /\ q.silver <= p.silver
<1>1. PICK r, s, k : /\ r = p.rice /\ s = p.silver /\ k = r * s
                     /\ r \in Nat \ {0} /\ s \in Nat \ {0}
  BY DEF OnCurve
<1>2. k \in Nat /\ k > 0 /\ k = OpeningPool * OpeningPool
  BY <1>1, ProductType, Constants DEF OnCurve, Product
<1>3. CASE side = "buy"
  <2>1. PICK t, x : /\ t = s + a /\ x = k \div t /\ q = [silver |-> t, rice |-> x]
    BY <1>1, <1>3 DEF Swapped, Product
  <2>2. t \in Nat \ {0} /\ t >= s /\ x \in Nat
    BY <1>1, <1>2, <2>1
  <2>3. x * t = k
    BY <1>1, <2>1 DEF Whole, Product
  <2>4. x # 0
    BY <1>2, <2>2, <2>3
  <2>5. x <= r
    BY <1>1, <2>2, <2>3, EqualProducts
  <2>6. OnCurve(q)
    BY <1>2, <2>1, <2>2, <2>3, <2>4 DEF OnCurve, Product
  <2>7. QED
    BY <1>1, <1>3, <2>1, <2>5, <2>6
<1>4. CASE side = "sell"
  <2>1. PICK t, x : /\ t = r + a /\ x = k \div t /\ q = [rice |-> t, silver |-> x]
    BY <1>1, <1>4 DEF Swapped, Product
  <2>2. t \in Nat \ {0} /\ t >= r /\ x \in Nat
    BY <1>1, <1>2, <2>1
  <2>3. t * x = k
    BY <1>1, <2>1 DEF Whole, Product
  <2>4. x # 0
    BY <1>2, <2>2, <2>3
  <2>5. x * t = s * r
    BY <1>1, <2>2, <2>3
  <2>6. x <= s
    BY <1>1, <2>2, <2>5, EqualProducts
  <2>7. OnCurve(q)
    BY <1>2, <2>1, <2>2, <2>3, <2>4 DEF OnCurve, Product
  <2>8. QED
    BY <1>1, <1>4, <2>1, <2>6, <2>7
<1>5. QED
  BY <1>3, <1>4

-----------------------------------------------------------------------------
(***************************************************************************)
(* The record of the bets: what opening, betting and closing do to it.     *)
(***************************************************************************)
Opened(b, m, threshold) ==
    [b EXCEPT ![m].status = "open", ![m].threshold = threshold]
Closed(b, m) ==
    [b EXCEPT ![m].status = "resolved", ![m].pools = NoMarket.pools]

LEMMA NoMarketFields ==
    /\ NoMarket.status = "none" /\ NoMarket.threshold = 0
    /\ NoMarket.stakes = NoStakes /\ NoMarket.pools \in [Sides -> Nat]
    /\ NoMarket.pools["YES"] = 0 /\ NoMarket.pools["NO"] = 0
    /\ NoMarket \in BettingMarket
BY DEF NoMarket, NoStakes, BettingMarket, Sides


\* The record with market m replaced.
WithMarket(b, m, x) == [b EXCEPT ![m] = x]

LEMMA BetsUpdates ==
    ASSUME NEW b \in [Markets -> BettingMarket], NEW m \in Markets, NEW x \in BettingMarket,
           NEW q, q = WithMarket(b, m, x)
    PROVE  /\ q \in [Markets -> BettingMarket] /\ q[m] = x
           /\ \A j \in Markets \ {m} : q[j] = b[j]
           /\ Total(q) + Staked(b[m]) = Total(b) + Staked(x)
           /\ \A n \in Npcs :
                 StakeOf(q, n) + (b[m].stakes[n]["YES"] + b[m].stakes[n]["NO"]) =
                 StakeOf(b, n) + (x.stakes[n]["YES"] + x.stakes[n]["NO"])
           /\ Total(b) \in Nat /\ Total(q) \in Nat /\ Staked(b[m]) \in Nat
           /\ \A n \in Npcs : StakeOf(b, n) \in Nat /\ StakeOf(q, n) \in Nat
<1>1. /\ q \in [Markets -> BettingMarket] /\ q[m] = x
      /\ \A j \in Markets \ {m} : q[j] = b[j]
  BY DEF WithMarket
<1>2. \A y \in BettingMarket : /\ Staked(y) \in Nat
                              /\ \A n \in Npcs : y.stakes[n]["YES"] + y.stakes[n]["NO"] \in Nat
  BY DEF BettingMarket, Staked, Sides
<1>3. /\ Total(q) + Staked(b[m]) = Total(b) + Staked(x)
      /\ Total(b) \in Nat /\ Total(q) \in Nat
  <2>1. PICK f, g : /\ f = [j \in Markets |-> Staked(b[j])]
                    /\ g = [j \in Markets |-> Staked(q[j])]
    OBVIOUS
  <2>2. /\ \A j \in Markets : f[j] \in Nat /\ g[j] \in Nat
        /\ \A j \in Markets \ {m} : f[j] = g[j]
        /\ f[m] = Staked(b[m]) /\ g[m] = Staked(x)
    BY <1>1, <1>2, <2>1
  <2>3. /\ SumOf(g, Markets) + f[m] = SumOf(f, Markets) + g[m]
        /\ SumOf(f, Markets) \in Nat /\ SumOf(g, Markets) \in Nat
    BY <2>2, SumUpdate, SumType, Constants
  <2>4. QED
    BY <2>1, <2>2, <2>3 DEF Total
<1>4. ASSUME NEW n \in Npcs
      PROVE  /\ StakeOf(q, n) + (b[m].stakes[n]["YES"] + b[m].stakes[n]["NO"]) =
                 StakeOf(b, n) + (x.stakes[n]["YES"] + x.stakes[n]["NO"])
             /\ StakeOf(b, n) \in Nat /\ StakeOf(q, n) \in Nat
  <2>1. PICK f, g :
           /\ f = [j \in Markets |-> b[j].stakes[n]["YES"] + b[j].stakes[n]["NO"]]
           /\ g = [j \in Markets |-> q[j].stakes[n]["YES"] + q[j].stakes[n]["NO"]]
    OBVIOUS
  <2>2. /\ \A j \in Markets : f[j] \in Nat /\ g[j] \in Nat
        /\ \A j \in Markets \ {m} : f[j] = g[j]
        /\ f[m] = b[m].stakes[n]["YES"] + b[m].stakes[n]["NO"]
        /\ g[m] = x.stakes[n]["YES"] + x.stakes[n]["NO"]
    BY <1>1, <1>2, <2>1
  <2>3. SumOf(g, Markets) + f[m] = SumOf(f, Markets) + g[m]
    BY <2>2, SumUpdate, Constants
  <2>4. SumOf(f, Markets) \in Nat /\ SumOf(g, Markets) \in Nat
    BY <2>2, SumType, Constants
  <2>5. QED
    BY <2>1, <2>2, <2>3, <2>4 DEF StakeOf
<1>5. QED
  BY <1>1, <1>2, <1>3, <1>4

LEMMA OpenedBets ==
    ASSUME NEW b, BetsSound(b), NEW m \in Markets, NEW t \in Thresholds,
           b[m].status = "none"
    PROVE  /\ BetsSound(Opened(b, m, t)) /\ Total(Opened(b, m, t)) = Total(b)
           /\ \A n \in Npcs : StakeOf(Opened(b, m, t), n) = StakeOf(b, n)
<1>1. PICK y : y = b[m]
  OBVIOUS
<1>2. PICK x, q : /\ x = [y EXCEPT !.status = "open", !.threshold = t]
                  /\ q = Opened(b, m, t)
  OBVIOUS
<1>3. b \in [Markets -> BettingMarket] /\ y \in BettingMarket
  BY <1>1 DEF BetsSound
<1>4. x \in BettingMarket /\ x.status = "open" /\ x.stakes = b[m].stakes /\ x.pools = b[m].pools
  <2>1. PICK z : z = [y EXCEPT !.status = "open"]
    OBVIOUS
  <2>2. z \in BettingMarket /\ z.status = "open" /\ z.stakes = y.stakes /\ z.pools = y.pools
    BY <1>3, <2>1 DEF BettingMarket
  <2>3. x = [z EXCEPT !.threshold = t]
    BY <1>2, <2>1
  <2>4. QED
    BY <1>1, <2>2, <2>3 DEF BettingMarket
<1>5. q = WithMarket(b, m, x)
  BY <1>1, <1>2, <1>3 DEF Opened, WithMarket
<1>6. /\ q \in [Markets -> BettingMarket] /\ q[m] = x
      /\ \A j \in Markets \ {m} : q[j] = b[j]
      /\ Total(q) + Staked(b[m]) = Total(b) + Staked(x)
      /\ \A n \in Npcs :
            StakeOf(q, n) + (b[m].stakes[n]["YES"] + b[m].stakes[n]["NO"]) =
            StakeOf(b, n) + (x.stakes[n]["YES"] + x.stakes[n]["NO"])
      /\ Total(b) \in Nat /\ Total(q) \in Nat /\ Staked(b[m]) \in Nat
      /\ \A n \in Npcs : StakeOf(b, n) \in Nat /\ StakeOf(q, n) \in Nat
  BY <1>1, <1>3, <1>4, <1>5, BetsUpdates
<1>7. Staked(x) = Staked(b[m])
  BY <1>4 DEF Staked
<1>8. MarketSound(x)
  <2>1. b[m].stakes = NoStakes /\ b[m].pools = NoMarket.pools
    BY DEF BetsSound, MarketSound
  <2>2. ASSUME NEW k \in Sides
        PROVE  x.pools[k] = SumOf([n \in Npcs |-> x.stakes[n][k]], Npcs)
    <3>1. PICK f : f = [n \in Npcs |-> x.stakes[n][k]]
      OBVIOUS
    <3>2. \A n \in Npcs : f[n] = 0
      BY <1>4, <2>1, <2>2, <3>1 DEF NoStakes
    <3>3. SumOf(f, Npcs) = 0
      BY <3>2, SumOfZeros
    <3>4. x.pools[k] = 0
      BY <1>4, <2>1, NoMarketFields DEF Sides
    <3>5. QED
      BY <3>1, <3>3, <3>4
  <2>3. QED
    BY <1>4, <2>2 DEF MarketSound
<1>9. \A n \in Npcs : x.stakes[n]["YES"] + x.stakes[n]["NO"] \in Nat
  BY <1>4 DEF BettingMarket, Sides
<1>10. BetsSound(q)
  BY <1>6, <1>8 DEF BetsSound
<1>11. QED
  BY <1>2, <1>4, <1>6, <1>7, <1>9, <1>10

LEMMA ClosedBets ==
    ASSUME NEW b, BetsSound(b), NEW m \in Markets
    PROVE  /\ BetsSound(Closed(b, m))
           /\ Total(Closed(b, m)) + Staked(b[m]) = Total(b)
           /\ \A n \in Npcs : StakeOf(Closed(b, m), n) = StakeOf(b, n)
<1>1. PICK y : y = b[m]
  OBVIOUS
<1>2. PICK x, q, p : /\ p = NoMarket.pools
                     /\ x = [y EXCEPT !.status = "resolved", !.pools = p]
                     /\ q = Closed(b, m)
  OBVIOUS
<1>3. b \in [Markets -> BettingMarket] /\ y \in BettingMarket /\ p \in [Sides -> Nat]
  BY <1>1, <1>2, NoMarketFields DEF BetsSound
<1>4. x \in BettingMarket /\ x.status = "resolved" /\ x.stakes = b[m].stakes /\ x.pools = p
  <2>1. PICK z : z = [y EXCEPT !.status = "resolved"]
    OBVIOUS
  <2>2. z \in BettingMarket /\ z.status = "resolved" /\ z.stakes = y.stakes
    BY <1>3, <2>1 DEF BettingMarket
  <2>3. x = [z EXCEPT !.pools = p]
    BY <1>2, <2>1
  <2>4. QED
    BY <1>1, <1>3, <2>2, <2>3 DEF BettingMarket
<1>5. q = WithMarket(b, m, x)
  BY <1>1, <1>2, <1>3 DEF Closed, WithMarket
<1>6. /\ q \in [Markets -> BettingMarket] /\ q[m] = x
      /\ \A j \in Markets \ {m} : q[j] = b[j]
      /\ Total(q) + Staked(b[m]) = Total(b) + Staked(x)
      /\ \A n \in Npcs :
            StakeOf(q, n) + (b[m].stakes[n]["YES"] + b[m].stakes[n]["NO"]) =
            StakeOf(b, n) + (x.stakes[n]["YES"] + x.stakes[n]["NO"])
      /\ Total(b) \in Nat /\ Total(q) \in Nat /\ Staked(b[m]) \in Nat
      /\ \A n \in Npcs : StakeOf(b, n) \in Nat /\ StakeOf(q, n) \in Nat
  BY <1>1, <1>3, <1>4, <1>5, BetsUpdates
<1>7. Staked(x) = 0
  BY <1>2, <1>4, NoMarketFields DEF Staked
<1>8. MarketSound(x)
  BY <1>4 DEF MarketSound
<1>9. \A n \in Npcs : x.stakes[n]["YES"] + x.stakes[n]["NO"] \in Nat
  BY <1>4 DEF BettingMarket, Sides
<1>10. BetsSound(q)
  BY <1>6, <1>8 DEF BetsSound
<1>11. QED
  BY <1>2, <1>4, <1>6, <1>7, <1>9, <1>10

LEMMA PlacedBets ==
    ASSUME NEW b, BetsSound(b), NEW m \in Markets, b[m].status = "open",
           NEW n \in Npcs, NEW k \in Sides, NEW a \in Nat,
           NEW q, q = Placed(b, m, n, k, a)
    PROVE  /\ BetsSound(q) /\ q[m].status = "open"
           /\ Total(q) = Total(b) + a
           /\ \A j \in Npcs : StakeOf(q, j) = StakeOf(b, j) + (IF j = n THEN a ELSE 0)
<1>1. PICK y : y = b[m]
  OBVIOUS
<1>2. PICK s, p : /\ s = [y.stakes EXCEPT ![n][k] = @ + a]
                  /\ p = [y.pools EXCEPT ![k] = @ + a]
  OBVIOUS
<1>3. PICK x : x = [y EXCEPT !.stakes = s, !.pools = p]
  OBVIOUS
<1>4. /\ b \in [Markets -> BettingMarket] /\ y \in BettingMarket
      /\ y.stakes \in [Npcs -> [Sides -> Nat]] /\ y.pools \in [Sides -> Nat]
  BY <1>1 DEF BetsSound, BettingMarket
<1>5. /\ s \in [Npcs -> [Sides -> Nat]] /\ p \in [Sides -> Nat]
      /\ s[n][k] = y.stakes[n][k] + a /\ p[k] = y.pools[k] + a
      /\ \A j \in Npcs \ {n} : s[j] = y.stakes[j]
      /\ \A h \in Sides \ {k} : s[n][h] = y.stakes[n][h] /\ p[h] = y.pools[h]
  BY <1>2, <1>4
<1>6. x \in BettingMarket /\ x.status = "open" /\ x.stakes = s /\ x.pools = p
  <2>1. PICK z : z = [y EXCEPT !.stakes = s]
    OBVIOUS
  <2>2. z \in BettingMarket /\ z.status = "open" /\ z.stakes = s
    BY <1>1, <1>4, <1>5, <2>1 DEF BettingMarket
  <2>3. x = [z EXCEPT !.pools = p]
    BY <1>3, <2>1
  <2>4. QED
    BY <1>5, <2>2, <2>3 DEF BettingMarket
<1>7. q = WithMarket(b, m, x)
  <2>1. PICK v, w : v = b[m].stakes[n][k] + a /\ w = b[m].pools[k] + a
    OBVIOUS
  <2>2. q = [b EXCEPT ![m].stakes[n][k] = v, ![m].pools[k] = w]
    BY <2>1, Zenon DEF Placed
  <2>3. s = [y.stakes EXCEPT ![n][k] = v] /\ p = [y.pools EXCEPT ![k] = w]
    BY <1>1, <1>2, <2>1, Zenon
  <2>4. PICK g : g = [b EXCEPT ![m].stakes[n][k] = v]
    OBVIOUS
  <2>5. q = [g EXCEPT ![m].pools[k] = w]
    BY <2>2, <2>4, Zenon
  <2>6. /\ DOMAIN g = Markets /\ \A j \in Markets \ {m} : g[j] = b[j]
        /\ g[m] = [y EXCEPT !.stakes = s]
    BY <1>1, <1>4, <2>3, <2>4
  <2>7. /\ DOMAIN q = Markets /\ \A j \in Markets \ {m} : q[j] = b[j]
        /\ q[m] = [g[m] EXCEPT !.pools = [g[m].pools EXCEPT ![k] = w]]
    BY <2>5, <2>6
  <2>8. g[m].pools = y.pools
    BY <1>4, <2>6 DEF BettingMarket
  <2>9. q[m] = [g[m] EXCEPT !.pools = p]
    BY <2>3, <2>7, <2>8, Zenon
  <2>10. q[m] = x
    BY <1>3, <2>6, <2>9
  <2>11. QED
    BY <1>4, <2>5, <2>7, <2>10 DEF WithMarket
<1>8. /\ q \in [Markets -> BettingMarket] /\ q[m] = x
      /\ \A j \in Markets \ {m} : q[j] = b[j]
      /\ Total(q) + Staked(b[m]) = Total(b) + Staked(x)
      /\ \A j \in Npcs :
            StakeOf(q, j) + (b[m].stakes[j]["YES"] + b[m].stakes[j]["NO"]) =
            StakeOf(b, j) + (x.stakes[j]["YES"] + x.stakes[j]["NO"])
      /\ Total(b) \in Nat /\ Total(q) \in Nat /\ Staked(b[m]) \in Nat
      /\ \A j \in Npcs : StakeOf(b, j) \in Nat /\ StakeOf(q, j) \in Nat
  BY <1>1, <1>4, <1>6, <1>7, BetsUpdates
<1>9. Staked(x) = Staked(y) + a
  <2>1. CASE k = "YES"
    BY <1>4, <1>5, <1>6, <2>1 DEF Staked, Sides
  <2>2. CASE k = "NO"
    BY <1>4, <1>5, <1>6, <2>2 DEF Staked, Sides
  <2>3. QED
    BY <2>1, <2>2 DEF Sides
<1>10. ASSUME NEW j \in Npcs
       PROVE  x.stakes[j]["YES"] + x.stakes[j]["NO"] =
              b[m].stakes[j]["YES"] + b[m].stakes[j]["NO"] + (IF j = n THEN a ELSE 0)
  <2>1. y.stakes[j]["YES"] \in Nat /\ y.stakes[j]["NO"] \in Nat
    BY <1>4 DEF Sides
  <2>2. CASE j # n
    BY <1>1, <1>5, <1>6, <2>1, <2>2
  <2>3. CASE j = n /\ k = "YES"
    BY <1>1, <1>5, <1>6, <2>1, <2>3 DEF Sides
  <2>4. CASE j = n /\ k = "NO"
    BY <1>1, <1>5, <1>6, <2>1, <2>4 DEF Sides
  <2>5. QED
    BY <2>2, <2>3, <2>4 DEF Sides
<1>11. ASSUME NEW h \in Sides
       PROVE  x.pools[h] = SumOf([j \in Npcs |-> x.stakes[j][h]], Npcs)
  <2>1. PICK f, g : f = [j \in Npcs |-> y.stakes[j][h]] /\ g = [j \in Npcs |-> x.stakes[j][h]]
    OBVIOUS
  <2>2. y.pools[h] = SumOf(f, Npcs)
    BY <1>1, <2>1 DEF BetsSound, MarketSound
  <2>3. /\ \A j \in Npcs : f[j] \in Nat /\ g[j] \in Nat
        /\ \A j \in Npcs \ {n} : f[j] = g[j]
        /\ f[n] = y.stakes[n][h] /\ g[n] = s[n][h]
    BY <1>4, <1>5, <1>6, <2>1
  <2>4. SumOf(g, Npcs) + f[n] = SumOf(f, Npcs) + g[n]
    BY <2>3, SumUpdate, Constants
  <2>5. SumOf(f, Npcs) \in Nat /\ SumOf(g, Npcs) \in Nat
    BY <2>3, SumType, Constants
  <2>6. CASE h = k
    <3>1. g[n] = f[n] + a /\ f[n] \in Nat
      BY <1>5, <2>3, <2>6
    <3>2. SumOf(g, Npcs) = SumOf(f, Npcs) + a
      BY <2>4, <2>5, <3>1
    <3>3. x.pools[h] = y.pools[h] + a
      BY <1>5, <1>6, <2>6
    <3>4. QED
      BY <2>1, <2>2, <3>2, <3>3
  <2>7. CASE h # k
    BY <1>5, <1>6, <2>1, <2>2, <2>3, <2>4, <2>5, <2>7
  <2>8. QED
    BY <2>6, <2>7
<1>12. BetsSound(q)
  <2>1. MarketSound(x)
    BY <1>6, <1>11 DEF MarketSound
  <2>2. QED
    BY <1>8, <2>1 DEF BetsSound
<1>13. Total(q) = Total(b) + a
  BY <1>1, <1>8, <1>9
<1>14. ASSUME NEW j \in Npcs
       PROVE  StakeOf(q, j) = StakeOf(b, j) + (IF j = n THEN a ELSE 0)
  <2>1. b[m].stakes[j]["YES"] + b[m].stakes[j]["NO"] \in Nat
    BY <1>1, <1>4 DEF Sides
  <2>2. QED
    BY <1>8, <1>10, <2>1
<1>15. QED
  BY <1>6, <1>8, <1>12, <1>13, <1>14

\* The payouts of a market are the pools, to the last piece of silver: the
\* winners' shares of a whole division, or the stakes themselves.
LEMMA PayoutsAddUp ==
    ASSUME NEW b \in BettingMarket, MarketSound(b), b.status = "open",
           WholePayouts(b), NEW k \in Sides
    PROVE  /\ \A n \in Npcs : Payout(b, k, n) \in Nat
           /\ SumOf([n \in Npcs |-> Payout(b, k, n)], Stakers(b)) = Staked(b)
           /\ Staked(b) \in Nat
<1>1. PICK y, z, t, p :
          /\ y = [n \in Npcs |-> b.stakes[n]["YES"]]
          /\ z = [n \in Npcs |-> b.stakes[n]["NO"]]
          /\ t = [n \in Npcs |-> b.stakes[n]["YES"] + b.stakes[n]["NO"]]
          /\ p = [n \in Npcs |-> Payout(b, k, n)]
  OBVIOUS
<1>2. /\ \A n \in Npcs : \A s \in Sides : b.stakes[n][s] \in Nat
      /\ b.pools["YES"] \in Nat /\ b.pools["NO"] \in Nat /\ b.pools[k] \in Nat
  BY DEF BettingMarket, Sides
<1>3. /\ \A n \in Npcs : /\ y[n] \in Nat /\ z[n] \in Nat /\ t[n] = y[n] + z[n]
                         /\ t[n] \in Nat
  BY <1>1, <1>2 DEF Sides
<1>4. b.pools["YES"] = SumOf(y, Npcs) /\ b.pools["NO"] = SumOf(z, Npcs)
  BY <1>1 DEF MarketSound, Sides
<1>5. SumOf(t, Npcs) = Staked(b) /\ Staked(b) \in Nat
  <2>1. SumOf(t, Npcs) = SumOf(y, Npcs) + SumOf(z, Npcs)
    BY <1>3, SumPlus, Constants
  <2>2. QED
    BY <1>2, <1>4, <2>1 DEF Staked
<1>6. CASE b.pools[k] = 0
  <2>1. \A n \in Npcs : p[n] = t[n]
    BY <1>1, <1>6 DEF Payout
  <2>2. SumOf(p, Npcs) = Staked(b)
    BY <1>5, <2>1, SumSame
  <2>3. \A n \in Npcs \ Stakers(b) : p[n] = 0
    <3>1. SUFFICES ASSUME NEW n \in Npcs \ Stakers(b) PROVE p[n] = 0
      OBVIOUS
    <3>2. b.stakes[n]["YES"] = 0 /\ b.stakes[n]["NO"] = 0
      BY <1>2 DEF Stakers, Sides
    <3>3. QED
      BY <1>1, <2>1, <3>2
  <2>4. Stakers(b) \in SUBSET Npcs
    BY DEF Stakers
  <2>5. SumOf(p, Stakers(b)) = Staked(b)
    BY <2>2, <2>3, <2>4, SumSupport
  <2>6. QED
    BY <1>1, <1>3, <1>5, <2>1, <2>5
<1>7. CASE b.pools[k] > 0
  <2>1. PICK w, q, v, d :
           /\ w = [n \in Npcs |-> b.stakes[n][k]] /\ q = b.pools[k] /\ v = Staked(b)
           /\ d = [n \in Npcs |-> b.stakes[n][k] * Staked(b)]
    OBVIOUS
  <2>2. q \in Nat /\ q > 0 /\ v \in Nat /\ q = SumOf(w, Npcs)
    BY <1>2, <1>5, <1>7, <2>1 DEF MarketSound
  <2>3. \A n \in Npcs : w[n] \in Nat /\ d[n] = v * w[n]
    BY <1>2, <2>1, <2>2
  <2>4. ASSUME NEW n \in Npcs
        PROVE  p[n] \in Nat /\ d[n] = q * p[n]
    <3>1. d[n] \in Nat /\ d[n] % q = 0
      <4>1. (b.stakes[n][k] * Staked(b)) % b.pools[k] = 0
        BY <1>7 DEF WholePayouts
      <4>2. d[n] \in Nat
        BY <2>2, <2>3
      <4>3. QED
        BY <2>1, <4>1, <4>2
    <3>2. p[n] = d[n] \div q
      BY <1>1, <1>7, <2>1 DEF Payout
    <3>3. p[n] \in Nat /\ p[n] * q = d[n]
      BY <2>2, <3>1, <3>2, WholeQuotient
    <3>4. QED
      BY <2>2, <3>3
  <2>5. SumOf(d, Npcs) = v * q
    BY <2>2, <2>3, SumScale, Constants
  <2>6. SumOf(d, Npcs) = q * SumOf(p, Npcs) /\ SumOf(p, Npcs) \in Nat
    BY <2>2, <2>4, SumScale, SumType, Constants
  <2>7. SumOf(p, Npcs) * q = v * q
    BY <2>2, <2>5, <2>6
  <2>8. SumOf(p, Npcs) = v
    BY <2>2, <2>6, <2>7, Cancel
  <2>9. \A n \in Npcs \ Stakers(b) : p[n] = 0
    <3>1. SUFFICES ASSUME NEW n \in Npcs \ Stakers(b) PROVE p[n] = 0
      OBVIOUS
    <3>2. w[n] = 0
      BY <1>2, <2>1 DEF Stakers
    <3>3. q * p[n] = 0
      BY <2>2, <2>3, <2>4, <3>2
    <3>4. QED
      BY <2>2, <2>4, <3>3, ProductType
  <2>10. Stakers(b) \in SUBSET Npcs
    BY DEF Stakers
  <2>11. SumOf(p, Stakers(b)) = Staked(b)
    BY <2>1, <2>8, <2>9, <2>10, SumSupport
  <2>12. QED
    BY <1>1, <1>5, <2>4, <2>11
<1>8. QED
  BY <1>2, <1>6, <1>7

-----------------------------------------------------------------------------
(***************************************************************************)
(* The records are sound whatever calls overlap or are cut short: what a   *)
(* call carries says nothing of the store, so a step has to keep the store *)
(* and its own call sound.                                                 *)
(***************************************************************************)
StoreOK ==
    /\ silver \in [Npcs -> Nat] /\ rice \in [Npcs -> Nat] /\ gcc \in [Npcs -> Nat]
    /\ daily \in [Npcs -> [day: Days, used: Nat]] /\ today \in Days /\ host \in Hosts
    /\ HistoryOK /\ OnCurve(pool) /\ BetsSound(bets)

LEMMA RecordsParts ==
    RecordsInv <=> /\ StoreOK /\ DOMAIN call = Calls
                   /\ \A c \in Calls : CallSound(call[c])
<1>1. StoreOK => pool \in [rice: Nat \ {0}, silver: Nat \ {0}]
                 /\ bets \in [Markets -> BettingMarket]
  BY DEF StoreOK, OnCurve, BetsSound
<1>2. \A c \in Calls : CallSound(call[c]) =>
          call[c].seen \in Nat /\ call[c].left \subseteq Npcs
  BY DEF CallSound
<1>3. QED
  BY <1>1, <1>2 DEF RecordsInv, StoreOK, TypeOK

LEMMA CallsSound ==
    ASSUME RecordsInv, NEW c \in Calls
    PROVE  CallSound(call[c]) /\ StoreOK
BY RecordsParts

LEMMA StoreKept ==
    ASSUME StoreOK, UNCHANGED <<silver, rice, gcc, Records, history>>
    PROVE  StoreOK'
BY DEF StoreOK, Records, HistoryOK

\* A step of one call.
LEMMA RecordsStep ==
    ASSUME RecordsInv, NEW c \in Calls, Others(c), StoreOK', CallSound(call'[c])
    PROVE  RecordsInv'
<1>1. DOMAIN call' = Calls /\ \A d \in Calls : CallSound(call'[d])
  BY RecordsParts DEF Others
<1>2. (pool \in [rice: Nat \ {0}, silver: Nat \ {0}])' /\ (bets \in [Markets -> BettingMarket])'
  BY DEF StoreOK, OnCurve, BetsSound
<1>3. \A d \in Calls : call'[d].seen \in Nat /\ call'[d].left \subseteq Npcs
  BY <1>1 DEF CallSound
<1>4. QED
  BY <1>1, <1>2, <1>3 DEF RecordsInv, StoreOK, TypeOK

LEMMA IdleSound == CallSound(IdleCall)
BY IdleFields, Constants DEF CallSound

\* Which method a call runs, from where it is.
LEMMA WhichCall ==
    ASSUME NEW r, CallSound(r)
    PROVE  /\ r.pc \in {"grantSilver", "grantRice"} => Granting(r)
           /\ r.pc \in {"payRead", "payWrite"} => Transferring(r) \/ Exchanging(r)
           /\ r.pc \in {"giveRead", "giveWrite"} => Transferring(r)
           /\ r.pc \in {"readGcc", "readDaily", "mintRead", "mintWrite", "writeDaily"}
                  => Exchanging(r)
           /\ r.pc \in {"tradeSilver", "tradeRice", "writeRice", "writePool"} => Trading(r)
           /\ r.pc = "writeSilver" => Trading(r) \/ Betting(r)
           /\ r.pc = "betSilver" => Betting(r)
           /\ r.pc = "writeBets" => OpeningBet(r) \/ Betting(r)
           /\ r.pc = "readPrice" \/ Settling(r) => Resolving(r)
BY DEF CallSound, Granting, Transferring, Exchanging, Trading, OpeningBet, Betting,
       Resolving, Settling

-----------------------------------------------------------------------------
\* A read leaves a call sound, whatever it reads.
LEMMA SeenSound ==
    ASSUME NEW r, CallSound(r), NEW t, Fields \subseteq DOMAIN t,
           Keeps(t, r, {"pc", "seen"}), t.seen \in Nat,
           \/ r.pc = "payRead" /\ t.pc = "payWrite"
           \/ r.pc = "giveRead" /\ t.pc = "giveWrite"
           \/ r.pc = "mintRead" /\ t.pc = "mintWrite"
           \/ r.pc = "tradeSilver" /\ t.pc = "tradeRice"
    PROVE  CallSound(t)
<1>1. /\ t.op = r.op /\ t.npc = r.npc /\ t.to = r.to /\ t.amount = r.amount
      /\ t.side = r.side /\ t.market = r.market /\ t.rice = r.rice /\ t.day = r.day
      /\ t.used = r.used /\ t.pool = r.pool /\ t.left = r.left
  BY DEF Keeps, Fields
<1>2. /\ t.amount \in Nat /\ t.rice \in Nat /\ t.used \in Nat
      /\ t.day \in Days /\ t.left \subseteq Npcs
  BY <1>1 DEF CallSound
<1>3. Transferring(r) /\ t.pc \in {"payWrite", "giveWrite"} => Transferring(t)
  BY <1>1 DEF Transferring
<1>4. Exchanging(r) /\ t.pc \in {"payWrite", "mintWrite"} => Exchanging(t)
  BY <1>1 DEF Exchanging
<1>5. Trading(r) /\ r.pc = "tradeSilver" /\ t.pc = "tradeRice" => Trading(t)
  BY <1>1 DEF Trading
<1>6. QED
  BY <1>2, <1>3, <1>4, <1>5, WhichCall DEF CallSound

LEMMA ReadRecords ==
    ASSUME RecordsInv, NEW c \in Calls, PayRead(c) \/ GiveRead(c) \/ TradeReadSilver(c)
    PROVE  RecordsInv'
<1>1. PICK r, t : r = call[c] /\ t = call'[c]
  OBVIOUS
<1>2. CallSound(r) /\ StoreOK
  BY <1>1, CallsSound
<1>3. /\ UNCHANGED <<silver, rice, gcc, Records, history>> /\ Others(c)
      /\ Fields \subseteq DOMAIN t /\ Keeps(t, r, {"pc", "seen"})
      /\ \/ r.pc = "payRead" /\ t.pc = "payWrite" /\ t.seen = silver[r.npc]
         \/ r.pc = "giveRead" /\ t.pc = "giveWrite" /\ t.seen = silver[r.to]
         \/ r.pc = "tradeSilver" /\ t.pc = "tradeRice" /\ t.seen = silver[r.npc]
  BY <1>1, InvShaped, PurseMoves DEF PayRead, GiveRead, TradeReadSilver, Moves, Me
<1>4. /\ r.pc \in {"payRead", "tradeSilver"} => r.npc \in Npcs
      /\ r.pc = "giveRead" => r.to \in Npcs
  BY <1>2, WhichCall DEF Transferring, Exchanging, Trading
<1>5. t.seen \in Nat
  BY <1>2, <1>3, <1>4 DEF StoreOK
<1>6. QED
  BY <1>1, <1>2, <1>3, <1>5, SeenSound, StoreKept, RecordsStep

LEMMA MintReadRecords ==
    ASSUME RecordsInv, NEW c \in Calls, MintRead(c)
    PROVE  RecordsInv'
<1>1. PICK r, t : r = call[c] /\ t = call'[c]
  OBVIOUS
<1>2. CallSound(r) /\ StoreOK
  BY <1>1, CallsSound
<1>3. /\ UNCHANGED <<silver, rice, gcc, Records, history>> /\ Others(c)
      /\ Fields \subseteq DOMAIN t /\ Keeps(t, r, {"pc", "seen"})
      /\ r.pc = "mintRead" /\ t.pc = "mintWrite" /\ t.seen = gcc[r.npc]
  BY <1>1, InvShaped, MintReadMoves DEF MintRead, Moves
<1>4. t.seen \in Nat
  BY <1>2, <1>3, WhichCall DEF Exchanging, StoreOK
<1>5. QED
  BY <1>1, <1>2, <1>3, <1>4, SeenSound, StoreKept, RecordsStep

\* A call that only moves on stays sound.
LEMMA PcSound ==
    ASSUME NEW r, CallSound(r), NEW t, Fields \subseteq DOMAIN t,
           Keeps(t, r, {"pc"}),
           \/ r.pc = "payWrite" /\ r.op = "transfer" /\ t.pc = "giveRead"
           \/ r.pc = "payWrite" /\ r.op # "transfer" /\ t.pc = "mintRead"
           \/ r.pc = "mintWrite" /\ t.pc = "writeDaily"
           \/ r.pc = "writeRice" /\ t.pc = "writeSilver"
           \/ r.pc = "writeSilver" /\ r.op = "trade" /\ t.pc = "writePool"
           \/ r.pc = "writeSilver" /\ r.op # "trade" /\ t.pc = "writeBets"
    PROVE  CallSound(t)
<1>1. /\ t.op = r.op /\ t.npc = r.npc /\ t.to = r.to /\ t.amount = r.amount
      /\ t.side = r.side /\ t.market = r.market /\ t.rice = r.rice /\ t.day = r.day
      /\ t.used = r.used /\ t.pool = r.pool /\ t.left = r.left /\ t.seen = r.seen
      /\ t.bets = r.bets
  BY DEF Keeps, Fields
<1>2. /\ t.amount \in Nat /\ t.rice \in Nat /\ t.used \in Nat /\ t.seen \in Nat
      /\ t.day \in Days /\ t.left \subseteq Npcs
  BY <1>1 DEF CallSound
<1>3. Transferring(r) /\ t.pc = "giveRead" => Transferring(t)
  BY <1>1 DEF Transferring
<1>4. Exchanging(r) /\ t.pc \in {"mintRead", "writeDaily"} => Exchanging(t)
  BY <1>1 DEF Exchanging
<1>5. Trading(r) /\ t.pc \in {"writeSilver", "writePool"} => Trading(t)
  BY <1>1 DEF Trading
<1>6. Betting(r) /\ t.pc = "writeBets" => Betting(t)
  BY <1>1 DEF Betting
<1>7. /\ Transferring(r) => r.op = "transfer"
      /\ Exchanging(r) => r.op = "exchange"
      /\ Trading(r) => r.op = "trade"
      /\ Betting(r) => r.op = "bet"
  BY DEF Transferring, Exchanging, Trading, Betting
<1>8. QED
  BY <1>2, <1>3, <1>4, <1>5, <1>6, <1>7, WhichCall DEF CallSound

LEMMA EndRecords ==
    ASSUME RecordsInv, NEW c \in Calls, Return(c), StoreOK'
    PROVE  RecordsInv'
<1>1. Others(c) /\ call'[c] = IdleCall
  BY InvShaped, Returns DEF Ends
<1>2. QED
  BY <1>1, IdleSound, RecordsStep

LEMMA GrantSilverEndsRecords ==
    ASSUME RecordsInv, NEW c \in Calls, GrantSilverEnds(c)
    PROVE  RecordsInv'
<1>1. PICK r : r = call[c]
  OBVIOUS
<1>2. CallSound(r) /\ StoreOK /\ r.pc = "grantSilver"
  BY <1>1, RecordsParts DEF GrantSilverEnds, At
<1>3. r.npc \in Npcs /\ r.seen \in Nat /\ r.amount \in Nat
  BY <1>2, WhichCall DEF Granting, CallSound
<1>4. silver' \in [Npcs -> Nat]
  BY <1>1, <1>2, <1>3 DEF GrantSilverEnds, StorePurse, Me, StoreOK
<1>5. HistoryOK'
  BY <1>1, <1>2, <1>3 DEF GrantSilverEnds, StoreOK, HistoryOK
<1>6. StoreOK'
  BY <1>2, <1>4, <1>5 DEF GrantSilverEnds, StoreOK, Records
<1>7. QED
  BY <1>6, EndRecords DEF GrantSilverEnds

LEMMA GrantRiceEndsRecords ==
    ASSUME RecordsInv, NEW c \in Calls, GrantRiceEnds(c)
    PROVE  RecordsInv'
<1>1. PICK r : r = call[c]
  OBVIOUS
<1>2. CallSound(r) /\ StoreOK /\ r.pc = "grantRice"
  BY <1>1, RecordsParts DEF GrantRiceEnds, At
<1>3. r.npc \in Npcs /\ r.seen \in Nat /\ r.amount \in Nat
  BY <1>2, WhichCall DEF Granting, CallSound
<1>4. rice' \in [Npcs -> Nat]
  BY <1>1, <1>2, <1>3 DEF GrantRiceEnds, Me, StoreOK
<1>5. HistoryOK'
  <2>1. PICK x : x = history.harvested + r.amount
    OBVIOUS
  <2>2. x \in Nat
    BY <1>2, <1>3, <2>1 DEF StoreOK, HistoryOK
  <2>3. history' = [history EXCEPT !.harvested = x]
    BY <1>1, <2>1 DEF GrantRiceEnds
  <2>4. QED
    BY <1>2, <2>2, <2>3 DEF StoreOK, HistoryOK
<1>6. StoreOK'
  BY <1>2, <1>4, <1>5 DEF GrantRiceEnds, StoreOK, Records
<1>7. QED
  BY <1>6, EndRecords DEF GrantRiceEnds

LEMMA PayWriteRecords ==
    ASSUME RecordsInv, NEW c \in Calls, PayWrite(c)
    PROVE  RecordsInv'
<1>1. PICK r, t : r = call[c] /\ t = call'[c]
  OBVIOUS
<1>2. CallSound(r) /\ StoreOK
  BY <1>1, CallsSound
<1>3. /\ Others(c) /\ Fields \subseteq DOMAIN t /\ Keeps(t, r, {"pc"}) /\ r.pc = "payWrite"
      /\ \/ r.op = "transfer" /\ t.pc = "giveRead"
         \/ r.op # "transfer" /\ t.pc = "mintRead"
  BY <1>1, InvShaped, PayWriteMoves DEF Moves
<1>4. r.npc \in Npcs /\ r.seen \in Nat /\ r.amount \in Nat /\ r.day \in Days
  BY <1>2, <1>3, WhichCall DEF Transferring, Exchanging, CallSound
<1>5. NotNegative(r.seen - r.amount) \in Nat
  BY <1>4 DEF NotNegative
<1>6. silver' \in [Npcs -> Nat]
  BY <1>1, <1>2, <1>4, <1>5 DEF PayWrite, StorePurse, Me, StoreOK
<1>7. HistoryOK'
  <2>1. CASE history' = history
    BY <1>2, <2>1 DEF StoreOK, HistoryOK
  <2>2. CASE history' = [history EXCEPT !.exchanged[r.npc][r.day] = @ + r.amount]
    <3>1. PICK e : e = [history.exchanged EXCEPT ![r.npc][r.day] = @ + r.amount]
      OBVIOUS
    <3>2. e \in [Npcs -> [Days -> Nat]]
      BY <1>2, <1>4, <3>1 DEF StoreOK, HistoryOK
    <3>3. history' = [history EXCEPT !.exchanged = e]
      BY <2>2, <3>1
    <3>4. QED
      BY <1>2, <3>2, <3>3 DEF StoreOK, HistoryOK
  <2>3. QED
    BY <1>1, <2>1, <2>2 DEF PayWrite, Me
<1>8. StoreOK'
  BY <1>2, <1>6, <1>7 DEF PayWrite, StoreOK, Records
<1>9. QED
  BY <1>1, <1>2, <1>3, <1>8, PcSound, RecordsStep

LEMMA GiveWriteRecords ==
    ASSUME RecordsInv, NEW c \in Calls, GiveWrite(c)
    PROVE  RecordsInv'
<1>1. PICK r : r = call[c]
  OBVIOUS
<1>2. CallSound(r) /\ StoreOK /\ r.pc = "giveWrite"
  BY <1>1, RecordsParts DEF GiveWrite, At
<1>3. r.to \in Npcs /\ r.seen \in Nat /\ r.amount \in Nat
  BY <1>2, WhichCall DEF Transferring, CallSound
<1>4. silver' \in [Npcs -> Nat]
  BY <1>1, <1>2, <1>3 DEF GiveWrite, StorePurse, StoreOK
<1>5. StoreOK'
  BY <1>2, <1>4 DEF GiveWrite, StoreOK, HistoryOK, Records
<1>6. QED
  BY <1>5, EndRecords DEF GiveWrite

LEMMA MintWriteRecords ==
    ASSUME RecordsInv, NEW c \in Calls, MintWrite(c)
    PROVE  RecordsInv'
<1>1. PICK r, t : r = call[c] /\ t = call'[c]
  OBVIOUS
<1>2. CallSound(r) /\ StoreOK
  BY <1>1, CallsSound
<1>3. /\ Others(c) /\ Fields \subseteq DOMAIN t /\ Keeps(t, r, {"pc"})
      /\ r.pc = "mintWrite" /\ t.pc = "writeDaily"
  BY <1>1, InvShaped, MintWriteMoves DEF Moves
<1>4. r.npc \in Npcs /\ r.seen \in Nat /\ r.amount \div Rate \in Nat
  BY <1>2, <1>3, WhichCall, Constants DEF Exchanging, CallSound
<1>5. gcc' \in [Npcs -> Nat]
  BY <1>1, <1>2, <1>4 DEF MintWrite, Me, StoreOK
<1>6. StoreOK'
  BY <1>2, <1>5 DEF MintWrite, StoreOK, HistoryOK, Records
<1>7. QED
  BY <1>1, <1>2, <1>3, <1>6, PcSound, RecordsStep

LEMMA WriteDailyRecords ==
    ASSUME RecordsInv, NEW c \in Calls, WriteDaily(c)
    PROVE  RecordsInv'
<1>1. PICK r : r = call[c]
  OBVIOUS
<1>2. CallSound(r) /\ StoreOK /\ r.pc = "writeDaily"
  BY <1>1, RecordsParts DEF WriteDaily, At
<1>3. r.npc \in Npcs /\ r.day \in Days /\ r.used + r.amount \in Nat
  BY <1>2, WhichCall DEF Exchanging, CallSound
<1>4. daily' \in [Npcs -> [day: Days, used: Nat]]
  BY <1>1, <1>2, <1>3 DEF WriteDaily, Me, StoreOK
<1>5. StoreOK'
  BY <1>2, <1>4 DEF WriteDaily, StoreOK, HistoryOK
<1>6. QED
  BY <1>5, EndRecords DEF WriteDaily

LEMMA WriteRiceRecords ==
    ASSUME RecordsInv, NEW c \in Calls, WriteRice(c)
    PROVE  RecordsInv'
<1>1. PICK r, t : r = call[c] /\ t = call'[c]
  OBVIOUS
<1>2. CallSound(r) /\ StoreOK
  BY <1>1, CallsSound
<1>3. /\ Others(c) /\ Fields \subseteq DOMAIN t /\ Keeps(t, r, {"pc"})
      /\ r.pc = "writeRice" /\ t.pc = "writeSilver"
  BY <1>1, InvShaped, WriteRiceMoves DEF Moves
<1>4. r.npc \in Npcs /\ r.rice \in Nat
  BY <1>2, <1>3, WhichCall DEF Trading, CallSound
<1>5. rice' \in [Npcs -> Nat]
  BY <1>1, <1>2, <1>4 DEF WriteRice, Me, StoreOK
<1>6. StoreOK'
  BY <1>2, <1>5 DEF WriteRice, StoreOK, HistoryOK, Records
<1>7. QED
  BY <1>1, <1>2, <1>3, <1>6, PcSound, RecordsStep

LEMMA WriteSilverRecords ==
    ASSUME RecordsInv, NEW c \in Calls, WriteSilver(c)
    PROVE  RecordsInv'
<1>1. PICK r, t : r = call[c] /\ t = call'[c]
  OBVIOUS
<1>2. CallSound(r) /\ StoreOK
  BY <1>1, CallsSound
<1>3. /\ Others(c) /\ Fields \subseteq DOMAIN t /\ Keeps(t, r, {"pc"}) /\ r.pc = "writeSilver"
      /\ \/ r.op = "trade" /\ t.pc = "writePool"
         \/ r.op # "trade" /\ t.pc = "writeBets"
  BY <1>1, InvShaped, WriteSilverMoves DEF Moves
<1>4. r.npc \in Npcs /\ r.seen \in Nat /\ r.amount \in Nat
  BY <1>2, <1>3, WhichCall DEF Trading, Betting, CallSound
<1>5. silver' \in [Npcs -> Nat]
  BY <1>1, <1>2, <1>4 DEF WriteSilver, StorePurse, Me, StoreOK
<1>6. HistoryOK'
  <2>1. CASE history' = history
    BY <1>2, <2>1 DEF StoreOK, HistoryOK
  <2>2. CASE history' = [history EXCEPT !.staked[r.npc] = @ + r.amount]
    <3>1. PICK e : e = [history.staked EXCEPT ![r.npc] = @ + r.amount]
      OBVIOUS
    <3>2. e \in [Npcs -> Nat]
      BY <1>2, <1>4, <3>1 DEF StoreOK, HistoryOK
    <3>3. history' = [history EXCEPT !.staked = e]
      BY <2>2, <3>1
    <3>4. QED
      BY <1>2, <3>2, <3>3 DEF StoreOK, HistoryOK
  <2>3. QED
    BY <1>1, <2>1, <2>2 DEF WriteSilver, Me
<1>7. StoreOK'
  BY <1>2, <1>5, <1>6 DEF WriteSilver, StoreOK, Records
<1>8. QED
  BY <1>1, <1>2, <1>3, <1>7, PcSound, RecordsStep

LEMMA WritePoolRecords ==
    ASSUME RecordsInv, NEW c \in Calls, WritePool(c)
    PROVE  RecordsInv'
<1>1. PICK r : r = call[c]
  OBVIOUS
<1>2. CallSound(r) /\ StoreOK /\ r.pc = "writePool"
  BY <1>1, RecordsParts DEF WritePool, At
<1>3. OnCurve(r.pool)
  BY <1>2, WhichCall DEF Trading
<1>4. StoreOK'
  BY <1>1, <1>2, <1>3 DEF WritePool, StoreOK, HistoryOK
<1>5. QED
  BY <1>4, EndRecords DEF WritePool

LEMMA WriteBetsRecords ==
    ASSUME RecordsInv, NEW c \in Calls, WriteBets(c)
    PROVE  RecordsInv'
<1>1. PICK r : r = call[c]
  OBVIOUS
<1>2. CallSound(r) /\ StoreOK /\ r.pc = "writeBets"
  BY <1>1, RecordsParts DEF WriteBets, At
<1>3. BetsSound(r.bets)
  BY <1>2, WhichCall DEF OpeningBet, Betting
<1>4. StoreOK'
  BY <1>1, <1>2, <1>3 DEF WriteBets, StoreOK, HistoryOK
<1>5. QED
  BY <1>4, EndRecords DEF WriteBets

LEMMA CloseMarketRecords ==
    ASSUME RecordsInv, NEW c \in Calls, CloseMarket(c)
    PROVE  RecordsInv'
<1>1. PICK r : r = call[c]
  OBVIOUS
<1>2. CallSound(r) /\ StoreOK /\ r.pc = "closeMarket"
  BY <1>1, RecordsParts DEF CloseMarket, At
<1>3. BetsSound(r.bets) /\ r.market \in Markets
  BY <1>2, WhichCall DEF Resolving, Settling
<1>4. bets' = Closed(r.bets, r.market)
  BY <1>1 DEF CloseMarket, Closed
<1>5. BetsSound(bets')
  BY <1>3, <1>4, ClosedBets
<1>6. StoreOK'
  BY <1>2, <1>5 DEF CloseMarket, StoreOK, HistoryOK
<1>7. QED
  BY <1>6, EndRecords DEF CloseMarket

LEMMA CutShortRecords ==
    ASSUME RecordsInv, NEW c \in Calls, CutShort(c)
    PROVE  RecordsInv'
BY RecordsParts, StoreKept, EndRecords DEF CutShort

LEMMA NewDayRecords ==
    ASSUME RecordsInv, NewDay
    PROVE  RecordsInv'
<1>1. StoreOK /\ today \in Days /\ today < MaxDay
  BY RecordsParts DEF StoreOK, NewDay
<1>2. today' \in Days
  BY <1>1, Constants DEF NewDay, Days
<1>3. QED
  BY <1>2 DEF RecordsInv, TypeOK, HistoryOK, NewDay

LEMMA ReadGccRecords ==
    ASSUME RecordsInv, NEW c \in Calls, ReadGcc(c)
    PROVE  RecordsInv'
<1>1. PICK r, t : r = call[c] /\ t = call'[c]
  OBVIOUS
<1>2. CallSound(r) /\ StoreOK
  BY <1>1, CallsSound
<1>3. /\ UNCHANGED <<silver, rice, gcc, Records, history>> /\ Others(c)
      /\ Fields \subseteq DOMAIN t /\ Keeps(t, r, {"pc", "day"})
      /\ r.pc = "readGcc" /\ t.pc = "readDaily" /\ t.day = today
  BY <1>1, InvShaped, ReadGccMoves DEF ReadGcc, Moves
<1>4. /\ t.op = r.op /\ t.npc = r.npc /\ t.amount = r.amount /\ t.seen = r.seen
      /\ t.rice = r.rice /\ t.used = r.used /\ t.left = r.left
  BY <1>3 DEF Keeps, Fields
<1>5. t.day \in Days
  BY <1>2, <1>3 DEF StoreOK
<1>6. Exchanging(t)
  BY <1>2, <1>3, <1>4, WhichCall DEF Exchanging
<1>7. CallSound(t)
  BY <1>2, <1>3, <1>4, <1>5, <1>6 DEF CallSound
<1>8. QED
  BY <1>1, <1>2, <1>3, <1>7, StoreKept, RecordsStep

LEMMA ReadDailyRecords ==
    ASSUME RecordsInv, NEW c \in Calls, ReadDaily(c)
    PROVE  RecordsInv'
<1>1. PICK r, t : r = call[c] /\ t = call'[c]
  OBVIOUS
<1>2. CallSound(r) /\ StoreOK
  BY <1>1, CallsSound
<1>3. UNCHANGED <<silver, rice, gcc, Records, history>> /\ StoreOK'
  BY <1>2, StoreKept DEF ReadDaily
<1>4. CASE Ends(c)
  BY <1>3, <1>4, IdleSound, RecordsStep DEF Ends
<1>5. CASE Moves(c, "payRead", {"pc", "used"}) /\ t.used = UsedOn(r.day, r.npc)
  <2>1. /\ r.pc = "readDaily" /\ t.pc = "payRead" /\ Others(c)
        /\ Fields \subseteq DOMAIN t /\ Keeps(t, r, {"pc", "used"})
    BY <1>1, <1>5, InvShaped, ReadDailyMoves DEF Moves
  <2>2. /\ t.op = r.op /\ t.npc = r.npc /\ t.amount = r.amount /\ t.seen = r.seen
        /\ t.rice = r.rice /\ t.day = r.day /\ t.left = r.left
    BY <2>1 DEF Keeps, Fields
  <2>3. Exchanging(r) /\ Exchanging(t)
    BY <1>2, <2>1, <2>2, WhichCall DEF Exchanging
  <2>4. t.used \in Nat
    BY <1>2, <1>5, <2>3 DEF UsedOn, StoreOK, Exchanging
  <2>5. CallSound(t)
    BY <1>2, <2>1, <2>2, <2>3, <2>4 DEF CallSound
  <2>6. QED
    BY <1>1, <1>3, <2>1, <2>5, RecordsStep
<1>6. QED
  BY <1>1, <1>4, <1>5, InvShaped, ReadDailyMoves

\* A trade that the transaction accepts leaves nobody with less than nothing.
LEMMA ApplyTradeRecords ==
    ASSUME RecordsInv, NEW c \in Calls, ApplyTrade(c)
    PROVE  RecordsInv'
<1>1. PICK r, t, after : /\ r = call[c] /\ t = call'[c]
                         /\ after = Swapped(r.pool, r.side, r.amount)
  OBVIOUS
<1>2. CallSound(r) /\ StoreOK
  BY <1>1, CallsSound
<1>3. UNCHANGED <<silver, rice, gcc, Records, history>> /\ StoreOK'
  BY <1>2, StoreKept DEF ApplyTrade
<1>4. CASE Ends(c)
  BY <1>3, <1>4, IdleSound, RecordsStep DEF Ends
<1>5. CASE ~ Ends(c)
  <2>1. /\ r.pc = "tradeRice" /\ t.pc = "writeRice" /\ Others(c)
        /\ Fields \subseteq DOMAIN t /\ Keeps(t, r, {"pc", "pool", "rice", "seen"})
        /\ ~ ((IF r.side = "buy" THEN r.seen ELSE rice[r.npc]) < r.amount)
        /\ t.pool = after
        /\ t.rice = rice[r.npc] + r.pool.rice - after.rice
        /\ t.seen = r.seen + r.pool.silver - after.silver
    BY <1>1, <1>5, InvShaped, ApplyTradeMoves DEF Moves
  <2>2. /\ t.op = r.op /\ t.npc = r.npc /\ t.amount = r.amount
        /\ t.day = r.day /\ t.used = r.used /\ t.left = r.left
    BY <2>1 DEF Keeps, Fields
  <2>3. /\ Trading(r) /\ r.npc \in Npcs /\ OnCurve(r.pool) /\ r.op = "trade"
        /\ r.side \in {"buy", "sell"} /\ Whole(r.pool, r.side, r.amount)
        /\ r.amount \in Nat /\ r.seen \in Nat /\ rice[r.npc] \in Nat
    BY <1>2, <2>1, WhichCall DEF Trading, CallSound, StoreOK
  <2>4. /\ OnCurve(after)
        /\ r.side = "buy" =>
               after.silver = r.pool.silver + r.amount /\ after.rice <= r.pool.rice
        /\ r.side = "sell" =>
               after.rice = r.pool.rice + r.amount /\ after.silver <= r.pool.silver
    BY <1>1, <2>3, SwapKeepsCurve
  <2>5. t.rice \in Nat /\ t.seen \in Nat
    <3>1. PICK p, q, x, y : p = r.pool.rice /\ q = r.pool.silver
                            /\ x = after.rice /\ y = after.silver
      OBVIOUS
    <3>2. p \in Nat /\ q \in Nat /\ x \in Nat /\ y \in Nat
      BY <2>3, <2>4, <3>1 DEF OnCurve
    <3>3. QED
      BY <2>1, <2>3, <2>4, <3>1, <3>2
  <2>6. Trading(t)
    BY <2>1, <2>2, <2>3, <2>4 DEF Trading
  <2>7. CallSound(t)
    BY <1>2, <2>1, <2>2, <2>5, <2>6 DEF CallSound
  <2>8. QED
    BY <1>1, <1>3, <2>1, <2>7, RecordsStep
<1>6. QED
  BY <1>4, <1>5

LEMMA ApplyBetRecords ==
    ASSUME RecordsInv, NEW c \in Calls, ApplyBet(c)
    PROVE  RecordsInv'
<1>1. PICK r, t, b : /\ r = call[c] /\ t = call'[c]
                     /\ b = Placed(r.bets, r.market, r.npc, r.side, r.amount)
  OBVIOUS
<1>2. CallSound(r) /\ StoreOK
  BY <1>1, CallsSound
<1>3. UNCHANGED <<silver, rice, gcc, Records, history>> /\ StoreOK'
  BY <1>2, StoreKept, Zenon DEF ApplyBet
<1>4. CASE Ends(c)
  BY <1>3, <1>4, IdleSound, RecordsStep DEF Ends
<1>5. CASE ~ Ends(c)
  <2>1. /\ r.pc = "betSilver" /\ t.pc = "writeSilver" /\ Others(c)
        /\ Fields \subseteq DOMAIN t /\ Keeps(t, r, {"pc", "seen", "bets"})
        /\ ~ (silver[r.npc] < r.amount)
        /\ t.seen = silver[r.npc] - r.amount /\ t.bets = b
    BY <1>1, <1>5, InvShaped, ApplyBetMoves DEF Moves
  <2>2. /\ t.op = r.op /\ t.npc = r.npc /\ t.amount = r.amount /\ t.side = r.side
        /\ t.market = r.market /\ t.rice = r.rice
        /\ t.day = r.day /\ t.used = r.used /\ t.left = r.left
    BY <2>1 DEF Keeps, Fields
  <2>3. /\ r.npc \in Npcs /\ r.market \in Markets /\ r.side \in Sides /\ r.op = "bet"
        /\ BetsSound(r.bets) /\ r.bets[r.market].status = "open"
        /\ r.amount \in Nat /\ silver[r.npc] \in Nat
    BY <1>2, <2>1, WhichCall DEF Betting, CallSound, StoreOK
  <2>4. BetsSound(b) /\ b[r.market].status = "open"
    BY <1>1, <2>3, PlacedBets
  <2>5. t.seen \in Nat
    BY <2>1, <2>3
  <2>6. Betting(t)
    BY <2>1, <2>2, <2>3, <2>4 DEF Betting
  <2>7. CallSound(t)
    BY <1>2, <2>1, <2>2, <2>5, <2>6 DEF CallSound
  <2>8. QED
    BY <1>1, <1>3, <2>1, <2>7, RecordsStep
<1>6. QED
  BY <1>4, <1>5

LEMMA ReadPriceRecords ==
    ASSUME RecordsInv, NEW c \in Calls, ReadPrice(c)
    PROVE  RecordsInv'
<1>1. PICK r, t, b : r = call[c] /\ t = call'[c] /\ b = r.bets[r.market]
  OBVIOUS
<1>2. CallSound(r) /\ StoreOK
  BY <1>1, CallsSound
<1>3. /\ UNCHANGED <<silver, rice, gcc, Records, history>> /\ Others(c)
      /\ Fields \subseteq DOMAIN t /\ Keeps(t, r, {"pc", "side", "purses", "left"})
      /\ r.pc = "readPrice" /\ t.pc \in {"closeMarket", "readStakers"}
      /\ t.side = Outcome(pool, b) /\ t.purses = [n \in Npcs |-> 0] /\ t.left = Stakers(b)
  <2>1. /\ r.pc = "readPrice" /\ t.side = Outcome(pool, b)
        /\ t.purses = [n \in Npcs |-> 0] /\ t.left = Stakers(b)
        /\ \/ Moves(c, "closeMarket", {"pc", "side", "purses", "left"})
           \/ Moves(c, "readStakers", {"pc", "side", "purses", "left"})
    BY <1>1, InvShaped, ReadPriceMoves
  <2>2. QED
    BY <1>1, <2>1, Zenon DEF ReadPrice, Moves
<1>4. /\ t.op = r.op /\ t.market = r.market /\ t.bets = r.bets /\ t.amount = r.amount
      /\ t.seen = r.seen /\ t.rice = r.rice /\ t.day = r.day /\ t.used = r.used
  BY <1>3 DEF Keeps, Fields
<1>5. t.side \in Sides /\ t.purses \in [Npcs -> Nat] /\ t.left \subseteq Npcs
  BY <1>3 DEF Outcome, Sides, Stakers
<1>6. Resolving(t)
  BY <1>1, <1>2, <1>3, <1>4, <1>5, WhichCall DEF Resolving, Settling
<1>7. CallSound(t)
  BY <1>2, <1>3, <1>4, <1>5, <1>6 DEF CallSound
<1>8. QED
  BY <1>1, <1>2, <1>3, <1>7, StoreKept, RecordsStep

LEMMA PayoutType ==
    ASSUME NEW r, Resolving(r), r.side \in Sides, NEW n \in Npcs
    PROVE  PayoutOf(r, n) \in Nat
<1>1. PICK b : b = r.bets[r.market]
  OBVIOUS
<1>2. b \in BettingMarket /\ MarketSound(b) /\ b.status = "open" /\ WholePayouts(b)
  BY <1>1 DEF Resolving, BetsSound
<1>3. QED
  BY <1>1, <1>2, PayoutsAddUp DEF PayoutOf

LEMMA ReadStakerRecords ==
    ASSUME RecordsInv, NEW c \in Calls, NEW n \in Npcs, ReadStaker(c, n)
    PROVE  RecordsInv'
<1>1. PICK r, t : r = call[c] /\ t = call'[c]
  OBVIOUS
<1>2. CallSound(r) /\ StoreOK
  BY <1>1, CallsSound
<1>3. /\ UNCHANGED <<silver, rice, gcc, Records, history>> /\ Others(c)
      /\ Fields \subseteq DOMAIN t /\ Keeps(t, r, {"pc", "purses", "left"})
      /\ r.pc = "readStakers" /\ t.pc \in {"payStakers", "readStakers"}
      /\ t.purses = [r.purses EXCEPT ![n] = silver[n] + PayoutOf(r, n)]
      /\ t.left \in {Stakers(r.bets[r.market]), r.left \ {n}}
  <2>1. /\ r.pc = "readStakers"
        /\ t.purses = [r.purses EXCEPT ![n] = silver[n] + PayoutOf(r, n)]
        /\ t.left \in {Stakers(r.bets[r.market]), r.left \ {n}}
        /\ \/ Moves(c, "payStakers", {"pc", "purses", "left"})
           \/ Moves(c, "readStakers", {"pc", "purses", "left"})
    BY <1>1, InvShaped, ReadStakerMoves
  <2>2. QED
    BY <1>1, <2>1 DEF ReadStaker, Moves
<1>4. /\ t.op = r.op /\ t.market = r.market /\ t.bets = r.bets /\ t.amount = r.amount
      /\ t.seen = r.seen /\ t.rice = r.rice /\ t.day = r.day /\ t.used = r.used
      /\ t.side = r.side
  BY <1>3 DEF Keeps, Fields
<1>5. /\ Resolving(r) /\ r.side \in Sides /\ r.purses \in [Npcs -> Nat]
      /\ r.left \subseteq Stakers(r.bets[r.market])
  BY <1>2, <1>3, WhichCall DEF Resolving, Settling
<1>6. silver[n] + PayoutOf(r, n) \in Nat
  BY <1>2, <1>5, PayoutType DEF StoreOK
<1>7. /\ t.purses \in [Npcs -> Nat] /\ t.left \subseteq Stakers(r.bets[r.market])
      /\ t.left \subseteq Npcs
  BY <1>3, <1>5, <1>6 DEF Stakers
<1>8. Resolving(t)
  BY <1>3, <1>4, <1>5, <1>7 DEF Resolving, Settling
<1>9. CallSound(t)
  BY <1>2, <1>3, <1>4, <1>7, <1>8 DEF CallSound
<1>10. QED
  BY <1>1, <1>2, <1>3, <1>9, StoreKept, RecordsStep

LEMMA PayStakerRecords ==
    ASSUME RecordsInv, NEW c \in Calls, NEW n \in Npcs, PayStaker(c, n)
    PROVE  RecordsInv'
<1>1. PICK r, t : r = call[c] /\ t = call'[c]
  OBVIOUS
<1>2. CallSound(r) /\ StoreOK
  BY <1>1, CallsSound
<1>3. /\ Others(c) /\ Fields \subseteq DOMAIN t /\ Keeps(t, r, {"pc", "left"})
      /\ r.pc = "payStakers" /\ t.pc \in {"closeMarket", "payStakers"}
      /\ t.left = r.left \ {n}
  BY <1>1, InvShaped, PayStakerMoves DEF Moves
<1>4. /\ t.op = r.op /\ t.market = r.market /\ t.bets = r.bets /\ t.amount = r.amount
      /\ t.seen = r.seen /\ t.rice = r.rice /\ t.day = r.day /\ t.used = r.used
      /\ t.side = r.side /\ t.purses = r.purses
  BY <1>3 DEF Keeps, Fields
<1>5. Resolving(r) /\ r.side \in Sides /\ r.purses \in [Npcs -> Nat]
  BY <1>2, <1>3, WhichCall DEF Resolving, Settling
<1>6. Resolving(t)
  BY <1>2, <1>3, <1>4, <1>5, WhichCall DEF Resolving, Settling
<1>7. CallSound(t)
  BY <1>2, <1>3, <1>4, <1>6 DEF CallSound
<1>8. silver' \in [Npcs -> Nat]
  BY <1>1, <1>2, <1>5 DEF PayStaker, StorePurse, StoreOK
<1>9. StoreOK'
  BY <1>2, <1>8 DEF PayStaker, StoreOK, HistoryOK, Records
<1>10. QED
  BY <1>1, <1>3, <1>7, <1>9, RecordsStep

\* The amounts a host passes are natural.
LEMMA HostAmounts ==
    ASSUME StoreOK
    PROVE  /\ \A amount \in host.amounts : amount \in Nat /\ amount > 0
           /\ host.overlap \in BOOLEAN /\ host.fails \in BOOLEAN
           /\ host.purse \in Nat /\ host.rice \in Nat
BY SilverAssumption DEF StoreOK

LEMMA GrantRecords ==
    ASSUME RecordsInv, NEW c \in Calls, NEW n \in Npcs, NEW amount \in host.amounts,
           GrantSilver(c, n, amount) \/ GrantRice(c, n, amount)
    PROVE  RecordsInv'
<1>1. PICK t : t = call'[c]
  OBVIOUS
<1>2. StoreOK /\ amount \in Nat
  BY RecordsParts, HostAmounts
<1>3. /\ UNCHANGED <<silver, rice, gcc, Records, history>> /\ Others(c)
      /\ Fields \subseteq DOMAIN t /\ Keeps(t, IdleCall, {"pc", "npc", "amount", "seen"})
      /\ t.pc \in {"grantSilver", "grantRice"} /\ t.npc = n /\ t.amount = amount
      /\ t.seen \in {silver[n], rice[n]}
  <2>1. UNCHANGED <<silver, rice, gcc, Records, history>>
    BY DEF GrantSilver, GrantRice
  <2>2. /\ t.npc = n /\ t.amount = amount /\ t.seen \in {silver[n], rice[n]}
        /\ \/ Starts(c, "grantSilver", {"pc", "npc", "amount", "seen"})
           \/ Starts(c, "grantRice", {"pc", "npc", "amount", "seen"})
    BY <1>1, InvShaped, GrantSilverStarts, GrantRiceStarts
  <2>3. QED
    BY <1>1, <2>1, <2>2 DEF Starts
<1>4. /\ t.rice \in Nat /\ t.day \in Days /\ t.used \in Nat /\ t.left \subseteq Npcs
  BY <1>3, IdleFields, Constants DEF Keeps, Fields
<1>5. t.seen \in Nat
  BY <1>2, <1>3 DEF StoreOK
<1>6. CallSound(t)
  BY <1>2, <1>3, <1>4, <1>5 DEF CallSound, Granting
<1>7. QED
  BY <1>1, <1>2, <1>3, <1>6, StoreKept, RecordsStep

LEMMA TransferRecords ==
    ASSUME RecordsInv, NEW c \in Calls, NEW n \in Npcs, NEW to \in Npcs,
           NEW amount \in host.amounts, Transfer(c, n, to, amount)
    PROVE  RecordsInv'
<1>1. PICK t : t = call'[c]
  OBVIOUS
<1>2. StoreOK /\ amount \in Nat
  BY RecordsParts, HostAmounts
<1>3. /\ UNCHANGED <<silver, rice, gcc, Records, history>> /\ Others(c) /\ n # to
      /\ Fields \subseteq DOMAIN t /\ Keeps(t, IdleCall, {"pc", "op", "npc", "to", "amount"})
      /\ t.pc = "payRead" /\ t.op = "transfer" /\ t.npc = n /\ t.to = to
      /\ t.amount = Lesser(amount, silver[n])
  <2>1. UNCHANGED <<silver, rice, gcc, Records, history>> /\ n # to
    BY DEF Transfer
  <2>2. /\ Starts(c, "payRead", {"pc", "op", "npc", "to", "amount"})
        /\ t.op = "transfer" /\ t.npc = n /\ t.to = to /\ t.amount = Lesser(amount, silver[n])
    BY <1>1, InvShaped, TransferStarts
  <2>3. QED
    BY <1>1, <2>1, <2>2 DEF Starts
<1>4. /\ t.rice \in Nat /\ t.day \in Days /\ t.used \in Nat /\ t.left \subseteq Npcs
      /\ t.seen \in Nat
  BY <1>3, IdleFields, Constants DEF Keeps, Fields
<1>5. t.amount \in Nat
  BY <1>2, <1>3 DEF StoreOK, Lesser
<1>6. CallSound(t)
  BY <1>3, <1>4, <1>5 DEF CallSound, Transferring
<1>7. QED
  BY <1>1, <1>2, <1>3, <1>6, StoreKept, RecordsStep

LEMMA ExchangeRecords ==
    ASSUME RecordsInv, NEW c \in Calls, NEW n \in Npcs, NEW amount \in host.amounts,
           Exchange(c, n, amount)
    PROVE  RecordsInv'
<1>1. PICK t : t = call'[c]
  OBVIOUS
<1>2. StoreOK /\ amount \in Nat
  BY RecordsParts, HostAmounts
<1>3. /\ UNCHANGED <<silver, rice, gcc, Records, history>> /\ Others(c)
      /\ Fields \subseteq DOMAIN t /\ Keeps(t, IdleCall, {"pc", "op", "npc", "amount"})
      /\ t.pc = "readGcc" /\ t.op = "exchange" /\ t.npc = n
      /\ t.amount = amount /\ amount % Rate = 0
  <2>1. UNCHANGED <<silver, rice, gcc, Records, history>> /\ amount % Rate = 0
    BY DEF Exchange
  <2>2. /\ Starts(c, "readGcc", {"pc", "op", "npc", "amount"})
        /\ t.op = "exchange" /\ t.npc = n /\ t.amount = amount
    BY <1>1, InvShaped, ExchangeStarts
  <2>3. QED
    BY <1>1, <2>1, <2>2 DEF Starts
<1>4. /\ t.rice \in Nat /\ t.day \in Days /\ t.used \in Nat /\ t.left \subseteq Npcs
      /\ t.seen \in Nat
  BY <1>3, IdleFields, Constants DEF Keeps, Fields
<1>5. CallSound(t)
  BY <1>2, <1>3, <1>4 DEF CallSound, Exchanging
<1>6. QED
  BY <1>1, <1>2, <1>3, <1>5, StoreKept, RecordsStep

LEMMA TradeRecords ==
    ASSUME RecordsInv, NEW c \in Calls, NEW n \in Npcs, NEW amount \in host.amounts,
           NEW side \in {"buy", "sell"}, Trade(c, n, side, amount)
    PROVE  RecordsInv'
<1>1. PICK t : t = call'[c]
  OBVIOUS
<1>2. StoreOK /\ amount \in Nat /\ OnCurve(pool)
  BY RecordsParts, HostAmounts DEF StoreOK
<1>3. /\ UNCHANGED <<silver, rice, gcc, Records, history>> /\ Others(c)
      /\ Fields \subseteq DOMAIN t
      /\ Keeps(t, IdleCall, {"pc", "op", "npc", "side", "amount", "pool"})
      /\ t.pc = "tradeSilver" /\ t.op = "trade" /\ t.npc = n /\ t.side = side
      /\ t.amount = amount /\ t.pool = pool /\ Whole(pool, side, amount)
  <2>1. /\ UNCHANGED <<silver, rice, gcc, Records, history>>
        /\ Whole(pool, side, amount)
    BY DEF Trade
  <2>2. /\ Starts(c, "tradeSilver", {"pc", "op", "npc", "side", "amount", "pool"})
        /\ t.op = "trade" /\ t.npc = n /\ t.side = side /\ t.amount = amount /\ t.pool = pool
    BY <1>1, InvShaped, TradeStarts
  <2>3. QED
    BY <1>1, <2>1, <2>2 DEF Starts
<1>4. /\ t.rice \in Nat /\ t.day \in Days /\ t.used \in Nat /\ t.left \subseteq Npcs
      /\ t.seen \in Nat
  BY <1>3, IdleFields, Constants DEF Keeps, Fields
<1>5. Trading(t)
  BY <1>2, <1>3 DEF Trading
<1>6. CallSound(t)
  BY <1>2, <1>3, <1>4, <1>5 DEF CallSound
<1>7. QED
  BY <1>1, <1>2, <1>3, <1>6, StoreKept, RecordsStep

LEMMA OpenBetRecords ==
    ASSUME RecordsInv, NEW c \in Calls, NEW m \in Markets, NEW threshold \in Thresholds,
           OpenBet(c, m, threshold)
    PROVE  RecordsInv'
<1>1. PICK t : t = call'[c]
  OBVIOUS
<1>2. StoreOK /\ BetsSound(bets)
  BY RecordsParts DEF StoreOK
<1>3. /\ UNCHANGED <<silver, rice, gcc, Records, history>> /\ Others(c)
      /\ Fields \subseteq DOMAIN t /\ Keeps(t, IdleCall, {"pc", "op", "bets"})
      /\ t.pc = "writeBets" /\ t.op = "open" /\ t.bets = Opened(bets, m, threshold)
      /\ bets[m].status = "none"
  <2>1. /\ UNCHANGED <<silver, rice, gcc, Records, history>>
        /\ bets[m].status = "none"
    BY DEF OpenBet
  <2>2. /\ Starts(c, "writeBets", {"pc", "op", "bets"})
        /\ t.op = "open" /\ t.bets = Opened(bets, m, threshold)
    BY <1>1, InvShaped, OpenBetStarts DEF Opened
  <2>3. QED
    BY <1>1, <2>1, <2>2 DEF Starts
<1>4. /\ t.rice \in Nat /\ t.day \in Days /\ t.used \in Nat /\ t.left \subseteq Npcs
      /\ t.seen \in Nat /\ t.amount \in Nat
  BY <1>3, IdleFields, Constants DEF Keeps, Fields
<1>5. BetsSound(t.bets)
  BY <1>2, <1>3, OpenedBets
<1>6. CallSound(t)
  BY <1>3, <1>4, <1>5 DEF CallSound, OpeningBet
<1>7. QED
  BY <1>1, <1>2, <1>3, <1>6, StoreKept, RecordsStep

LEMMA PlaceBetRecords ==
    ASSUME RecordsInv, NEW c \in Calls, NEW n \in Npcs, NEW m \in Markets, NEW side \in Sides,
           NEW amount \in host.amounts, PlaceBet(c, n, m, side, amount)
    PROVE  RecordsInv'
<1>1. PICK t : t = call'[c]
  OBVIOUS
<1>2. StoreOK /\ BetsSound(bets) /\ amount \in Nat
  BY RecordsParts, HostAmounts DEF StoreOK
<1>3. /\ UNCHANGED <<silver, rice, gcc, Records, history>> /\ Others(c)
      /\ Fields \subseteq DOMAIN t
      /\ Keeps(t, IdleCall, {"pc", "op", "npc", "market", "side", "amount", "bets"})
      /\ t.pc = "betSilver" /\ t.op = "bet" /\ t.npc = n /\ t.market = m /\ t.side = side
      /\ t.amount = amount /\ t.bets = bets /\ bets[m].status = "open"
  <2>1. /\ UNCHANGED <<silver, rice, gcc, Records, history>>
        /\ bets[m].status = "open"
    BY DEF PlaceBet
  <2>2. /\ Starts(c, "betSilver", {"pc", "op", "npc", "market", "side", "amount", "bets"})
        /\ t.op = "bet" /\ t.npc = n /\ t.market = m /\ t.side = side
        /\ t.amount = amount /\ t.bets = bets
    BY <1>1, InvShaped, PlaceBetStarts
  <2>3. QED
    BY <1>1, <2>1, <2>2 DEF Starts
<1>4. /\ t.rice \in Nat /\ t.day \in Days /\ t.used \in Nat /\ t.left \subseteq Npcs
      /\ t.seen \in Nat
  BY <1>3, IdleFields, Constants DEF Keeps, Fields
<1>5. Betting(t)
  BY <1>2, <1>3 DEF Betting
<1>6. CallSound(t)
  BY <1>2, <1>3, <1>4, <1>5 DEF CallSound
<1>7. QED
  BY <1>1, <1>2, <1>3, <1>6, StoreKept, RecordsStep

LEMMA ResolveRecords ==
    ASSUME RecordsInv, NEW c \in Calls, NEW m \in Markets, Resolve(c, m)
    PROVE  RecordsInv'
<1>1. PICK t : t = call'[c]
  OBVIOUS
<1>2. StoreOK /\ BetsSound(bets)
  BY RecordsParts DEF StoreOK
<1>3. /\ UNCHANGED <<silver, rice, gcc, Records, history>> /\ Others(c)
      /\ Fields \subseteq DOMAIN t /\ Keeps(t, IdleCall, {"pc", "op", "market", "bets"})
      /\ t.pc = "readPrice" /\ t.op = "resolve" /\ t.market = m /\ t.bets = bets
      /\ bets[m].status = "open" /\ WholePayouts(bets[m])
  BY <1>1, InvShaped, ResolveStarts DEF Resolve, Starts
<1>4. /\ t.rice \in Nat /\ t.day \in Days /\ t.used \in Nat /\ t.left \subseteq Npcs
      /\ t.seen \in Nat /\ t.amount \in Nat
  BY <1>3, IdleFields, Constants DEF Keeps, Fields
<1>5. Resolving(t)
  BY <1>2, <1>3 DEF Resolving
<1>6. CallSound(t)
  BY <1>3, <1>4, <1>5 DEF CallSound
<1>7. QED
  BY <1>1, <1>2, <1>3, <1>6, StoreKept, RecordsStep

LEMMA RecordsNext == RecordsInv /\ [Next]_vars => RecordsInv'
<1> SUFFICES ASSUME RecordsInv, [Next]_vars PROVE RecordsInv'
  OBVIOUS
<1>1. CASE UNCHANGED vars
  BY <1>1 DEF RecordsInv, TypeOK, HistoryOK, vars
<1>2. ASSUME NEW c \in Calls, Begin(c) PROVE RecordsInv'
  BY <1>2, GrantRecords, ExchangeRecords, TransferRecords, TradeRecords, PlaceBetRecords,
     ResolveRecords, OpenBetRecords DEF Begin
<1>3. ASSUME NEW c \in Calls, Continue(c) PROVE RecordsInv'
  BY <1>3, GrantSilverEndsRecords, GrantRiceEndsRecords, ReadRecords, PayWriteRecords,
     GiveWriteRecords, ReadGccRecords, ReadDailyRecords, MintReadRecords, MintWriteRecords,
     WriteDailyRecords, ApplyTradeRecords, WriteRiceRecords, WriteSilverRecords,
     WritePoolRecords, ApplyBetRecords, WriteBetsRecords, ReadPriceRecords,
     CloseMarketRecords, ReadStakerRecords, PayStakerRecords, CutShortRecords DEF Continue
<1>4. QED
  BY <1>1, <1>2, <1>3, NewDayRecords DEF Next

LEMMA RecordsInit == Init => RecordsInv
<1> SUFFICES ASSUME Init PROVE RecordsInv
  OBVIOUS
<1>1. host \in Hosts /\ host.purse \in Nat /\ host.rice \in Nat
  BY SilverAssumption DEF Init
<1>2. OnCurve(pool)
  BY Constants DEF Init, OnCurve, Product
<1>3. BetsSound(bets)
  <2>1. MarketSound(NoMarket)
    BY NoMarketFields DEF MarketSound
  <2>2. QED
    BY <2>1, NoMarketFields DEF Init, BetsSound
<1>4. StoreOK
  BY <1>1, <1>2, <1>3, Constants DEF Init, StoreOK, HistoryOK
<1>5. DOMAIN call = Calls /\ \A c \in Calls : CallSound(call[c])
  BY IdleSound DEF Init
<1>6. QED
  BY <1>4, <1>5, RecordsParts

-----------------------------------------------------------------------------
(***************************************************************************)
(* GCC is minted for silver that was burnt before.                         *)
(***************************************************************************)
LEMMA UnmintedStep ==
    ASSUME RecordsInv, RecordsInv', NEW c \in Calls, Others(c), NEW n \in Npcs,
           NEW r, r = call[c], NEW t, t = call'[c]
    PROVE  /\ SumOf(Unminted(n), Calls)' + UnmintedBy(r, n) =
                  SumOf(Unminted(n), Calls) + UnmintedBy(t, n)
           /\ SumOf(Unminted(n), Calls)' \in Nat /\ SumOf(Unminted(n), Calls) \in Nat
           /\ UnmintedBy(r, n) \in Nat /\ UnmintedBy(t, n) \in Nat
<1>1. PICK u, v : u = Unminted(n) /\ v = Unminted(n)'
  OBVIOUS
<1>2. /\ \A d \in Calls : u[d] \in Nat /\ v[d] \in Nat
      /\ SumOf(u, Calls) \in Nat /\ SumOf(v, Calls) \in Nat
  <2>1. \A d \in Calls : call[d].amount \in Nat /\ call'[d].amount \in Nat
    BY DEF RecordsInv, CallSound
  <2>2. \A d \in Calls : u[d] \in Nat /\ v[d] \in Nat
    BY <1>1, <2>1 DEF Unminted, UnmintedBy
  <2>3. QED
    BY <2>2, SumType, Constants
<1>3. u[c] = UnmintedBy(r, n) /\ v[c] = UnmintedBy(t, n)
  BY <1>1 DEF Unminted, UnmintedBy, Minting
<1>4. \A d \in Calls \ {c} : u[d] = v[d]
  BY <1>1 DEF Unminted, UnmintedBy, Minting, Others
<1>5. SumOf(v, Calls) + u[c] = SumOf(u, Calls) + v[c]
  BY <1>2, <1>4, SumUpdate, Constants
<1>6. SumOf(Unminted(n), Calls)' = SumOf(v, Calls)
  BY <1>1 DEF SumOf, Units
<1>7. QED
  BY <1>1, <1>2, <1>3, <1>5, <1>6

LEMMA UnmintedType ==
    ASSUME RecordsInv, NEW n \in Npcs
    PROVE  SumOf(Unminted(n), Calls) \in Nat
<1>1. PICK u : u = Unminted(n)
  OBVIOUS
<1>2. \A d \in Calls : u[d] \in Nat
  <2>1. \A d \in Calls : call[d].amount \in Nat
    BY DEF RecordsInv, CallSound
  <2>2. QED
    BY <1>1, <2>1 DEF Unminted, UnmintedBy
<1>3. QED
  BY <1>1, <1>2, SumType, Constants

LEMMA BurntType ==
    ASSUME RecordsInv, NEW n \in Npcs
    PROVE  Burnt(n) \in Nat
<1>1. \A d \in Days : history.exchanged[n][d] \in Nat
  BY DEF RecordsInv, HistoryOK
<1>2. QED
  BY <1>1, SumType, DaysFinite DEF Burnt

\* A step that mints nothing and is not about to.
LEMMA MintFrame ==
    ASSUME RecordsInv, RecordsInv', MintInv, NEW c \in Calls, Others(c),
           ~ Minting(call'[c]), gcc' = gcc, history'.exchanged = history.exchanged
    PROVE  MintInv'
<1>1. PICK r, t : r = call[c] /\ t = call'[c]
  OBVIOUS
<1>2. ~ Minting(t)
  BY <1>1 DEF Minting
<1>3. SUFFICES ASSUME NEW n \in Npcs
               PROVE  /\ Rate * gcc'[n] + SumOf(Unminted(n), Calls)' <= Burnt(n)'
                      /\ \A d \in Calls :
                             call'[d].pc = "mintWrite" /\ call'[d].npc = n =>
                                 Rate * call'[d].seen + SumOf(Unminted(n), Calls)' <= Burnt(n)'
  BY DEF MintInv
<1>4. PICK s, w, g, e : /\ s = SumOf(Unminted(n), Calls) /\ w = SumOf(Unminted(n), Calls)'
                        /\ g = Rate * gcc[n] /\ e = Burnt(n)
  OBVIOUS
<1>5. Burnt(n)' = e
  BY <1>4 DEF Burnt
<1>6. s \in Nat /\ w \in Nat /\ w <= s
  BY <1>1, <1>2, <1>4, UnmintedStep DEF UnmintedBy
<1>7. g \in Nat /\ e \in Nat
  BY <1>4, BurntType, Constants DEF RecordsInv, TypeOK
<1>8. Rate * gcc'[n] + w <= e
  BY <1>4, <1>6, <1>7 DEF MintInv
<1>9. ASSUME NEW d \in Calls, call'[d].pc = "mintWrite", call'[d].npc = n
      PROVE  Rate * call'[d].seen + w <= e
  <2>1. d # c
    BY <1>9 DEF Minting
  <2>2. call'[d] = call[d]
    BY <2>1 DEF Others
  <2>3. Rate * call[d].seen + s <= e
    BY <1>4, <1>9, <2>2 DEF MintInv
  <2>4. Rate * call[d].seen \in Nat
    BY Constants DEF RecordsInv, TypeOK
  <2>5. QED
    BY <1>6, <1>7, <2>2, <2>3, <2>4
<1>10. QED
  BY <1>4, <1>5, <1>8, <1>9

LEMMA PayWriteMints ==
    ASSUME RecordsInv, RecordsInv', MintInv, NEW c \in Calls, PayWrite(c),
           call[c].op # "transfer"
    PROVE  MintInv'
<1>1. PICK r, t, a : r = call[c] /\ t = call'[c] /\ a = r.amount
  OBVIOUS
<1>2. CallSound(r) /\ StoreOK
  BY <1>1, CallsSound
<1>3. /\ Others(c) /\ Keeps(t, r, {"pc"}) /\ r.pc = "payWrite" /\ t.pc = "mintRead"
      /\ gcc' = gcc
      /\ history' = [history EXCEPT !.exchanged[r.npc][r.day] = @ + a]
  BY <1>1, InvShaped, PayWriteMoves DEF Moves, PayWrite, Me
<1>4. t.npc = r.npc /\ t.amount = a /\ a \in Nat /\ r.day \in Days /\ r.npc \in Npcs
  BY <1>1, <1>2, <1>3, WhichCall DEF Keeps, Fields, CallSound, Exchanging, Transferring
<1>5. SUFFICES ASSUME NEW n \in Npcs
               PROVE  /\ Rate * gcc'[n] + SumOf(Unminted(n), Calls)' <= Burnt(n)'
                      /\ \A d \in Calls :
                             call'[d].pc = "mintWrite" /\ call'[d].npc = n =>
                                 Rate * call'[d].seen + SumOf(Unminted(n), Calls)' <= Burnt(n)'
  BY DEF MintInv
<1>6. PICK s, w, g, e, z : /\ s = SumOf(Unminted(n), Calls) /\ w = SumOf(Unminted(n), Calls)'
                           /\ g = Rate * gcc[n] /\ e = Burnt(n)
                           /\ z = IF r.npc = n THEN a ELSE 0
  OBVIOUS
<1>7. s \in Nat /\ w = s + z /\ z \in Nat
  BY <1>1, <1>3, <1>4, <1>6, UnmintedStep DEF UnmintedBy, Minting
<1>8. g \in Nat /\ e \in Nat
  BY <1>6, BurntType, Constants DEF RecordsInv, TypeOK
<1>9. Burnt(n)' = e + z
  <2>1. PICK x, y : x = history.exchanged[n] /\ y = history'.exchanged[n]
    OBVIOUS
  <2>2. SumOf(x, Days) = e /\ SumOf(y, Days) = Burnt(n)'
    BY <1>6, <2>1 DEF Burnt
  <2>3. /\ history.exchanged \in [Npcs -> [Days -> Nat]]
        /\ history'.exchanged = [history.exchanged EXCEPT ![r.npc][r.day] = @ + a]
    BY <1>2, <1>3 DEF StoreOK, HistoryOK
  <2>4. CASE r.npc = n
    <3>1. /\ \A d \in Days : x[d] \in Nat /\ y[d] \in Nat
          /\ \A d \in Days \ {r.day} : x[d] = y[d]
          /\ y[r.day] = x[r.day] + a
      BY <1>4, <2>1, <2>3, <2>4
    <3>2. SumOf(y, Days) + x[r.day] = SumOf(x, Days) + y[r.day]
      BY <1>4, <3>1, SumUpdate, DaysFinite
    <3>3. SumOf(y, Days) \in Nat
      BY <3>1, SumType, DaysFinite
    <3>4. x[r.day] \in Nat
      BY <1>4, <3>1
    <3>5. QED
      BY <1>4, <1>6, <1>8, <2>2, <2>4, <3>1, <3>2, <3>3, <3>4
  <2>5. CASE r.npc # n
    <3>1. y = x
      BY <1>4, <2>1, <2>3, <2>5
    <3>2. QED
      BY <1>6, <1>8, <2>2, <2>5, <3>1
  <2>6. QED
    BY <2>4, <2>5
<1>10. Rate * gcc'[n] + w <= e + z
  BY <1>3, <1>6, <1>7, <1>8 DEF MintInv
<1>11. ASSUME NEW d \in Calls, call'[d].pc = "mintWrite", call'[d].npc = n
       PROVE  Rate * call'[d].seen + w <= e + z
  <2>1. d # c
    BY <1>1, <1>3, <1>11
  <2>2. call'[d] = call[d]
    BY <1>3, <2>1 DEF Others
  <2>3. Rate * call[d].seen + s <= e
    BY <1>6, <1>11, <2>2 DEF MintInv
  <2>4. Rate * call[d].seen \in Nat
    BY Constants DEF RecordsInv, TypeOK
  <2>5. QED
    BY <1>7, <1>8, <2>2, <2>3, <2>4
<1>12. QED
  BY <1>6, <1>9, <1>10, <1>11

LEMMA MintReadMints ==
    ASSUME RecordsInv, RecordsInv', MintInv, NEW c \in Calls, MintRead(c)
    PROVE  MintInv'
<1>1. PICK r, t : r = call[c] /\ t = call'[c]
  OBVIOUS
<1>2. /\ Others(c) /\ Keeps(t, r, {"pc", "seen"}) /\ r.pc = "mintRead"
      /\ t.pc = "mintWrite" /\ t.seen = gcc[r.npc]
  BY <1>1, InvShaped, MintReadMoves DEF Moves
<1>3. t.npc = r.npc /\ t.amount = r.amount
  BY <1>2 DEF Keeps, Fields
<1>4. gcc' = gcc /\ history' = history
  BY DEF MintRead
<1>5. SUFFICES ASSUME NEW n \in Npcs
               PROVE  /\ Rate * gcc'[n] + SumOf(Unminted(n), Calls)' <= Burnt(n)'
                      /\ \A d \in Calls :
                             call'[d].pc = "mintWrite" /\ call'[d].npc = n =>
                                 Rate * call'[d].seen + SumOf(Unminted(n), Calls)' <= Burnt(n)'
  BY DEF MintInv
<1>6. PICK s, w, e : /\ s = SumOf(Unminted(n), Calls) /\ w = SumOf(Unminted(n), Calls)'
                     /\ e = Burnt(n)
  OBVIOUS
<1>7. Burnt(n)' = e
  BY <1>4, <1>6 DEF Burnt
<1>8. w = s
  BY <1>1, <1>2, <1>3, <1>6, UnmintedStep DEF UnmintedBy, Minting
<1>9. Rate * gcc'[n] + w <= e
  BY <1>4, <1>6, <1>8 DEF MintInv
<1>10. ASSUME NEW d \in Calls, call'[d].pc = "mintWrite", call'[d].npc = n
       PROVE  Rate * call'[d].seen + w <= e
  <2>1. CASE d = c
    BY <1>1, <1>2, <1>3, <1>4, <1>9, <1>10, <2>1
  <2>2. CASE d # c
    BY <1>2, <1>6, <1>8, <1>10, <2>2 DEF MintInv, Others
  <2>3. QED
    BY <2>1, <2>2
<1>11. QED
  BY <1>6, <1>7, <1>9, <1>10

LEMMA MintWriteMints ==
    ASSUME RecordsInv, RecordsInv', MintInv, NEW c \in Calls, MintWrite(c)
    PROVE  MintInv'
<1>1. PICK r, t, a : r = call[c] /\ t = call'[c] /\ a = r.amount
  OBVIOUS
<1>2. CallSound(r) /\ StoreOK
  BY <1>1, CallsSound
<1>3. /\ Others(c) /\ Keeps(t, r, {"pc"}) /\ r.pc = "mintWrite" /\ t.pc = "writeDaily"
      /\ history' = history /\ gcc' = [gcc EXCEPT ![r.npc] = r.seen + a \div Rate]
  BY <1>1, InvShaped, MintWriteMoves DEF Moves, MintWrite, Me
<1>4. r.npc \in Npcs /\ a \in Nat /\ a % Rate = 0 /\ r.seen \in Nat
  BY <1>1, <1>2, <1>3, WhichCall DEF CallSound, Exchanging
<1>5. PICK k : k = a \div Rate
  OBVIOUS
<1>6. k \in Nat /\ Rate * k = a
  BY <1>4, <1>5, WholeQuotient, Constants
<1>7. SUFFICES ASSUME NEW n \in Npcs
               PROVE  /\ Rate * gcc'[n] + SumOf(Unminted(n), Calls)' <= Burnt(n)'
                      /\ \A d \in Calls :
                             call'[d].pc = "mintWrite" /\ call'[d].npc = n =>
                                 Rate * call'[d].seen + SumOf(Unminted(n), Calls)' <= Burnt(n)'
  BY DEF MintInv
<1>8. PICK s, w, e, z : /\ s = SumOf(Unminted(n), Calls) /\ w = SumOf(Unminted(n), Calls)'
                        /\ e = Burnt(n) /\ z = IF r.npc = n THEN a ELSE 0
  OBVIOUS
<1>9. Burnt(n)' = e /\ e \in Nat
  BY <1>3, <1>8, BurntType DEF Burnt
<1>10. s \in Nat /\ w \in Nat /\ w + z = s /\ z \in Nat
  BY <1>1, <1>3, <1>4, <1>8, UnmintedStep DEF UnmintedBy, Minting
<1>11. Rate * gcc'[n] + w <= e
  <2>1. CASE r.npc = n
    <3>1. gcc'[n] = r.seen + k
      BY <1>2, <1>3, <1>4, <1>5, <2>1 DEF StoreOK
    <3>2. Rate * gcc'[n] = Rate * r.seen + a
      BY <1>4, <1>6, <3>1, Constants
    <3>3. Rate * r.seen + s <= e
      BY <1>1, <1>3, <1>8, <2>1 DEF MintInv
    <3>4. Rate * r.seen \in Nat
      BY <1>4, Constants
    <3>5. QED
      BY <1>4, <1>8, <1>9, <1>10, <2>1, <3>2, <3>3, <3>4
  <2>2. CASE r.npc # n
    BY <1>2, <1>3, <1>8, <1>10, <2>2 DEF MintInv, StoreOK
  <2>3. QED
    BY <2>1, <2>2
<1>12. ASSUME NEW d \in Calls, call'[d].pc = "mintWrite", call'[d].npc = n
       PROVE  Rate * call'[d].seen + w <= e
  <2>1. d # c
    BY <1>1, <1>3, <1>12
  <2>2. call'[d] = call[d]
    BY <1>3, <2>1 DEF Others
  <2>3. Rate * call[d].seen + s <= e
    BY <1>8, <1>12, <2>2 DEF MintInv
  <2>4. Rate * call[d].seen \in Nat
    BY Constants DEF RecordsInv, TypeOK
  <2>5. QED
    BY <1>9, <1>10, <2>2, <2>3, <2>4
<1>13. QED
  BY <1>8, <1>9, <1>11, <1>12

\* All other steps mint nothing.
LEMMA BeginMintsNothing ==
    ASSUME RecordsInv, NEW c \in Calls, Begin(c)
    PROVE  /\ Others(c) /\ ~ Minting(call'[c]) /\ gcc' = gcc /\ history' = history
           /\ host' = host /\ call[c].pc = "idle" /\ (~ host.overlap => Quiet)
<1>2. ASSUME NEW n \in Npcs, NEW amount \in host.amounts,
             GrantSilver(c, n, amount) \/ GrantRice(c, n, amount)
      PROVE  Others(c) /\ ~ Minting(call'[c]) /\ call[c].pc = "idle"
  BY <1>2, InvShaped, GrantSilverStarts, GrantRiceStarts DEF Starts, Minting
<1>3. ASSUME NEW n \in Npcs, NEW amount \in host.amounts, Exchange(c, n, amount)
      PROVE  Others(c) /\ ~ Minting(call'[c]) /\ call[c].pc = "idle"
  BY <1>3, InvShaped, ExchangeStarts DEF Starts, Minting
<1>4. ASSUME NEW n \in Npcs, NEW to \in Npcs, NEW amount \in host.amounts,
             Transfer(c, n, to, amount)
      PROVE  Others(c) /\ ~ Minting(call'[c]) /\ call[c].pc = "idle"
  BY <1>4, InvShaped, TransferStarts DEF Starts, Minting
<1>5. ASSUME NEW n \in Npcs, NEW side, NEW amount \in host.amounts, Trade(c, n, side, amount)
      PROVE  Others(c) /\ ~ Minting(call'[c]) /\ call[c].pc = "idle"
  BY <1>5, InvShaped, TradeStarts DEF Starts, Minting
<1>6. ASSUME NEW n \in Npcs, NEW m, NEW side, NEW amount \in host.amounts,
             PlaceBet(c, n, m, side, amount)
      PROVE  Others(c) /\ ~ Minting(call'[c]) /\ call[c].pc = "idle"
  BY <1>6, InvShaped, PlaceBetStarts DEF Starts, Minting
<1>7. ASSUME NEW m, Resolve(c, m)
      PROVE  Others(c) /\ ~ Minting(call'[c]) /\ call[c].pc = "idle"
  BY <1>7, InvShaped, ResolveStarts DEF Starts, Minting
<1>8. ASSUME NEW m, NEW threshold, OpenBet(c, m, threshold)
      PROVE  Others(c) /\ ~ Minting(call'[c]) /\ call[c].pc = "idle"
  BY <1>8, InvShaped, OpenBetStarts, Zenon DEF Starts, Minting
<1>9. Others(c) /\ ~ Minting(call'[c]) /\ call[c].pc = "idle"
  BY <1>2, <1>3, <1>4, <1>5, <1>6, <1>7, <1>8 DEF Begin
<1>10. gcc' = gcc /\ history' = history /\ host' = host /\ (~ host.overlap => Quiet)
  BY Zenon DEF Begin, GrantSilver, GrantRice, Exchange, Transfer, Trade, PlaceBet, Resolve,
         OpenBet, MayCall, Records
<1>11. QED
  BY <1>9, <1>10

LEMMA ContinueMints ==
    ASSUME RecordsInv, RecordsInv', MintInv, NEW c \in Calls, Continue(c)
    PROVE  MintInv'
<1>1. CASE Return(c) /\ gcc' = gcc /\ history'.exchanged = history.exchanged
  <2>1. Others(c) /\ ~ Minting(call'[c])
    BY <1>1, InvShaped, Returns, IdleFields DEF Ends, Minting
  <2>2. QED
    BY <1>1, <2>1, MintFrame
<1>2. HistoryOK
  BY DEF RecordsInv
<1>3. CASE GrantSilverEnds(c)
  BY <1>1, <1>2, <1>3 DEF GrantSilverEnds, HistoryOK
<1>4. CASE GrantRiceEnds(c)
  BY <1>1, <1>2, <1>4 DEF GrantRiceEnds, HistoryOK
<1>5. CASE GiveWrite(c)
  BY <1>1, <1>5 DEF GiveWrite
<1>6. CASE WriteDaily(c)
  BY <1>1, <1>6 DEF WriteDaily
<1>7. CASE WritePool(c)
  BY <1>1, <1>7 DEF WritePool
<1>8. CASE WriteBets(c)
  BY <1>1, <1>8 DEF WriteBets
<1>9. CASE CloseMarket(c)
  BY <1>1, <1>9 DEF CloseMarket
<1>10. CASE CutShort(c)
  BY <1>1, <1>10 DEF CutShort
<1>11. CASE PayRead(c) \/ GiveRead(c) \/ TradeReadSilver(c)
  <2>1. Others(c) /\ ~ Minting(call'[c]) /\ gcc' = gcc /\ history' = history
    BY <1>11, InvShaped, PurseMoves DEF PayRead, GiveRead, TradeReadSilver, Moves, Minting
  <2>2. QED
    BY <2>1, MintFrame
<1>12. CASE PayWrite(c)
  <2>1. CASE call[c].op = "transfer"
    <3>1. Others(c) /\ ~ Minting(call'[c])
      BY <1>12, <2>1, InvShaped, PayWriteMoves DEF Moves, Minting
    <3>2. gcc' = gcc /\ history' = history
      BY <1>12, <2>1 DEF PayWrite
    <3>3. QED
      BY <3>1, <3>2, MintFrame
  <2>2. QED
    BY <1>12, <2>1, PayWriteMints
<1>13. CASE ReadGcc(c)
  <2>1. Others(c) /\ ~ Minting(call'[c])
    BY <1>13, InvShaped, ReadGccMoves DEF Moves, Minting
  <2>2. QED
    BY <1>13, <2>1, MintFrame DEF ReadGcc
<1>14. CASE ReadDaily(c)
  <2>1. Others(c) /\ ~ Minting(call'[c])
    BY <1>14, InvShaped, ReadDailyMoves, IdleFields DEF Moves, Minting, Ends
  <2>2. QED
    BY <1>14, <2>1, MintFrame DEF ReadDaily
<1>15. CASE MintRead(c) \/ MintWrite(c)
  BY <1>15, MintReadMints, MintWriteMints
<1>16. CASE ApplyTrade(c)
  <2>1. PICK after : after = Swapped(call[c].pool, call[c].side, call[c].amount)
    OBVIOUS
  <2>2. Others(c) /\ ~ Minting(call'[c])
    BY <1>16, <2>1, InvShaped, ApplyTradeMoves, IdleFields DEF Moves, Minting, Ends
  <2>3. QED
    BY <1>16, <2>2, MintFrame DEF ApplyTrade
<1>17. CASE WriteRice(c)
  <2>1. Others(c) /\ ~ Minting(call'[c])
    BY <1>17, InvShaped, WriteRiceMoves DEF Moves, Minting
  <2>2. QED
    BY <1>17, <2>1, MintFrame DEF WriteRice
<1>18. CASE WriteSilver(c)
  <2>1. Others(c) /\ ~ Minting(call'[c])
    BY <1>18, InvShaped, WriteSilverMoves DEF Moves, Minting
  <2>2. gcc' = gcc /\ history'.exchanged = history.exchanged
    BY <1>2, <1>18 DEF WriteSilver, HistoryOK
  <2>3. QED
    BY <2>1, <2>2, MintFrame
<1>19. CASE ApplyBet(c)
  <2>1. PICK b : b = Placed(call[c].bets, call[c].market, call[c].npc,
                            call[c].side, call[c].amount)
    OBVIOUS
  <2>2. Others(c) /\ ~ Minting(call'[c])
    BY <1>19, <2>1, InvShaped, ApplyBetMoves, IdleFields DEF Moves, Minting, Ends
  <2>3. QED
    BY <1>19, <2>2, MintFrame, Zenon DEF ApplyBet
<1>20. CASE ReadPrice(c)
  <2>1. PICK b : b = call[c].bets[call[c].market]
    OBVIOUS
  <2>2. Others(c) /\ ~ Minting(call'[c])
    BY <1>20, <2>1, InvShaped, ReadPriceMoves DEF Moves, Minting
  <2>3. QED
    BY <1>20, <2>2, MintFrame, Zenon DEF ReadPrice
<1>21. ASSUME NEW n \in Npcs, ReadStaker(c, n) PROVE MintInv'
  <2>1. Others(c) /\ ~ Minting(call'[c])
    BY <1>21, InvShaped, ReadStakerMoves DEF Moves, Minting
  <2>2. QED
    BY <1>21, <2>1, MintFrame DEF ReadStaker
<1>22. ASSUME NEW n \in Npcs, PayStaker(c, n) PROVE MintInv'
  <2>1. Others(c) /\ ~ Minting(call'[c])
    BY <1>22, InvShaped, PayStakerMoves DEF Moves, Minting
  <2>2. QED
    BY <1>22, <2>1, MintFrame DEF PayStaker
<1>23. QED
  BY <1>3, <1>4, <1>5, <1>6, <1>7, <1>8, <1>9, <1>10, <1>11, <1>12, <1>13, <1>14, <1>15,
     <1>16, <1>17, <1>18, <1>19, <1>20, <1>21, <1>22 DEF Continue

LEMMA MintNext == RecordsInv /\ RecordsInv' /\ MintInv /\ [Next]_vars => MintInv'
<1> SUFFICES ASSUME RecordsInv, RecordsInv', MintInv, [Next]_vars PROVE MintInv'
  OBVIOUS
<1>1. CASE call' = call /\ gcc' = gcc /\ history' = history
  BY <1>1 DEF MintInv, Unminted, UnmintedBy, Minting, Burnt
<1>2. ASSUME NEW c \in Calls, Begin(c) PROVE MintInv'
  BY <1>2, BeginMintsNothing, MintFrame
<1>3. QED
  BY <1>1, <1>2, ContinueMints DEF Next, NewDay, vars

LEMMA MintInit == Init => MintInv
<1> SUFFICES ASSUME Init, NEW n \in Npcs
             PROVE  /\ Rate * gcc[n] + SumOf(Unminted(n), Calls) <= Burnt(n)
                    /\ \A c \in Calls : ~ (call[c].pc = "mintWrite")
  BY DEF MintInv
<1>1. \A c \in Calls : call[c].pc = "idle"
  BY IdleFields DEF Init
<1>2. SumOf(Unminted(n), Calls) = 0
  BY <1>1, SumOfZeros DEF Unminted, UnmintedBy, Minting
<1>3. gcc[n] = 0 /\ Rate * gcc[n] = 0
  BY Constants DEF Init
<1>4. Burnt(n) \in Nat
  BY RecordsInit, BurntType
<1>5. QED
  BY <1>1, <1>2, <1>3, <1>4

-----------------------------------------------------------------------------
(***************************************************************************)
(* One call at a time, and each by a method that the host makes.           *)
(***************************************************************************)
LEMMA ContinueAlone ==
    ASSUME RecordsInv, NEW c \in Calls, Continue(c),
           NEW r, r = call[c], NEW t, t = call'[c]
    PROVE  /\ Others(c) /\ host' = host /\ r.pc # "idle"
           /\ Trading(t) => Trading(r)
           /\ Resolving(t) => Resolving(r)
           /\ t.pc = "idle" => t = IdleCall
<1> DEFINE Sound == /\ Others(c) /\ host' = host /\ r.pc # "idle"
                    /\ Trading(t) => Trading(r)
                    /\ Resolving(t) => Resolving(r)
                    /\ t.pc = "idle" => t = IdleCall
<1>1. Shaped /\ CallSound(r)
  BY InvShaped DEF RecordsInv
<1>2. CASE Ends(c) /\ host' = host /\ r.pc # "idle"
  <2>1. t = IdleCall /\ t.pc = "idle" /\ Others(c)
    BY <1>2, IdleFields DEF Ends
  <2>2. QED
    BY <1>2, <2>1 DEF Trading, Resolving, Settling
<1>3. ASSUME Return(c), host' = host, r.pc # "idle" PROVE Sound
  BY <1>1, <1>2, <1>3, Returns
<1>4. CASE \/ GrantSilverEnds(c) \/ GrantRiceEnds(c) \/ GiveWrite(c) \/ WriteDaily(c)
           \/ WritePool(c) \/ WriteBets(c) \/ CloseMarket(c) \/ CutShort(c)
  <2>1. Return(c) /\ host' = host /\ r.pc # "idle"
    BY <1>4 DEF GrantSilverEnds, GrantRiceEnds, GiveWrite, WriteDaily, WritePool,
                WriteBets, CloseMarket, CutShort, At, Records
  <2>2. QED
    BY <1>3, <2>1
<1>6. CASE PayRead(c) \/ GiveRead(c)
  <2>1. /\ Others(c) /\ t.pc \in {"payWrite", "giveWrite"} /\ r.pc # "idle"
    BY <1>1, <1>6, PurseMoves DEF PayRead, GiveRead, Moves
  <2>2. host' = host
    BY <1>6 DEF PayRead, GiveRead, ReadPurse, Records
  <2>3. QED
    BY <2>1, <2>2 DEF Trading, Resolving, Settling
<1>7. CASE PayWrite(c) \/ ReadGcc(c) \/ MintRead(c) \/ MintWrite(c)
  <2>1. /\ Others(c) /\ t.pc \in {"giveRead", "mintRead", "readDaily", "mintWrite", "writeDaily"}
        /\ r.pc # "idle"
    BY <1>1, <1>7, PayWriteMoves, ReadGccMoves, MintReadMoves, MintWriteMoves DEF Moves
  <2>2. host' = host
    BY <1>7 DEF PayWrite, ReadGcc, MintRead, MintWrite, Records
  <2>3. QED
    BY <2>1, <2>2 DEF Trading, Resolving, Settling
<1>8. CASE ReadDaily(c)
  <2>1. host' = host
    BY <1>8 DEF ReadDaily, Records
  <2>2. r.pc # "idle" /\ (Ends(c) \/ (Others(c) /\ t.pc = "payRead"))
    BY <1>1, <1>8, ReadDailyMoves DEF Moves
  <2>3. CASE Ends(c)
    BY <1>2, <2>1, <2>2, <2>3
  <2>4. CASE Others(c) /\ t.pc = "payRead"
    BY <2>1, <2>2, <2>4 DEF Trading, Resolving, Settling
  <2>5. QED
    BY <2>2, <2>3, <2>4
<1>9. CASE TradeReadSilver(c) \/ WriteRice(c)
  <2>1. /\ Others(c) /\ t.pc \in {"tradeRice", "writeSilver"}
        /\ r.pc \in {"tradeSilver", "writeRice"}
    BY <1>1, <1>9, PurseMoves, WriteRiceMoves DEF TradeReadSilver, Moves
  <2>2. host' = host
    BY <1>9 DEF TradeReadSilver, WriteRice, ReadPurse, Records
  <2>3. Trading(r)
    BY <1>1, <2>1, WhichCall
  <2>4. QED
    BY <2>1, <2>2, <2>3 DEF Resolving, Settling
<1>10. CASE ApplyTrade(c)
  <2>1. PICK after : after = Swapped(call[c].pool, call[c].side, call[c].amount)
    OBVIOUS
  <2>2. host' = host
    BY <1>10 DEF ApplyTrade, Records
  <2>3. r.pc = "tradeRice" /\ (Ends(c) \/ (Others(c) /\ t.pc = "writeRice"))
    BY <1>1, <1>10, <2>1, ApplyTradeMoves DEF Moves
  <2>4. CASE Ends(c)
    BY <1>2, <2>2, <2>3, <2>4
  <2>5. CASE Others(c) /\ t.pc = "writeRice"
    BY <1>1, <2>2, <2>3, <2>5, WhichCall DEF Resolving, Settling
  <2>6. QED
    BY <2>3, <2>4, <2>5
<1>11. CASE WriteSilver(c)
  <2>1. /\ Others(c) /\ r.pc = "writeSilver"
        /\ \/ r.op = "trade" /\ t.pc = "writePool"
           \/ r.op # "trade" /\ t.pc = "writeBets"
    BY <1>1, <1>11, WriteSilverMoves DEF Moves
  <2>2. host' = host
    BY <1>11 DEF WriteSilver, Records
  <2>3. r.op = "trade" => Trading(r)
    BY <1>1, <2>1, WhichCall DEF Betting
  <2>4. QED
    BY <2>1, <2>2, <2>3 DEF Trading, Resolving, Settling
<1>12. CASE ApplyBet(c)
  <2>1. PICK b : b = Placed(call[c].bets, call[c].market, call[c].npc,
                            call[c].side, call[c].amount)
    OBVIOUS
  <2>2. host' = host
    BY <1>12, Zenon DEF ApplyBet, Records
  <2>3. /\ r.pc = "betSilver"
        /\ \/ Ends(c)
           \/ Others(c) /\ t.pc = "writeSilver" /\ Keeps(t, r, {"pc", "seen", "bets"})
    BY <1>1, <1>12, <2>1, ApplyBetMoves DEF Moves
  <2>4. CASE Ends(c)
    BY <1>2, <2>2, <2>3, <2>4
  <2>5. CASE Others(c) /\ t.pc = "writeSilver" /\ Keeps(t, r, {"pc", "seen", "bets"})
    <3>1. t.op = r.op /\ r.op = "bet"
      BY <1>1, <2>3, <2>5, WhichCall DEF Keeps, Fields, Betting
    <3>2. QED
      BY <2>2, <2>3, <2>5, <3>1 DEF Trading, Resolving, Settling
  <2>6. QED
    BY <2>3, <2>4, <2>5
<1>13. ASSUME Others(c), host' = host, r.pc = "readPrice" \/ Settling(r), Settling(t)
       PROVE  Sound
  <2>1. Resolving(r)
    BY <1>1, <1>13, WhichCall
  <2>2. QED
    BY <1>13, <2>1 DEF Trading, Settling
<1>14. CASE ReadPrice(c)
  <2>1. PICK b : b = call[c].bets[call[c].market]
    OBVIOUS
  <2>2. Others(c) /\ r.pc = "readPrice" /\ t.pc \in {"closeMarket", "readStakers"}
    BY <1>1, <1>14, <2>1, InvShaped, ReadPriceMoves DEF Moves
  <2>3. QED
    BY <1>13, <1>14, <2>2, Zenon DEF ReadPrice, Settling, Records
<1>15. ASSUME NEW n \in Npcs, ReadStaker(c, n) PROVE Sound
  <2>1. Others(c) /\ r.pc = "readStakers" /\ t.pc \in {"payStakers", "readStakers"}
    BY <1>1, <1>15, ReadStakerMoves DEF Moves
  <2>2. QED
    BY <1>13, <1>15, <2>1 DEF ReadStaker, Settling, Records
<1>16. ASSUME NEW n \in Npcs, PayStaker(c, n) PROVE Sound
  <2>1. Others(c) /\ r.pc = "payStakers" /\ t.pc \in {"payStakers", "closeMarket"}
    BY <1>1, <1>16, PayStakerMoves DEF Moves
  <2>2. QED
    BY <1>13, <1>16, <2>1 DEF PayStaker, Settling, Records
<1>17. QED
  BY <1>4, <1>6, <1>7, <1>8, <1>9, <1>10, <1>11, <1>12, <1>14, <1>15, <1>16 DEF Continue

LEMMA BeginAlone ==
    ASSUME RecordsInv, NEW c \in Calls, Begin(c), NEW t, t = call'[c]
    PROVE  /\ Trading(t) => "trade" \in host.ops
           /\ Resolving(t) => "resolve" \in host.ops
           /\ t.pc # "idle"
<1> DEFINE Sound == /\ Trading(t) => "trade" \in host.ops
                    /\ Resolving(t) => "resolve" \in host.ops
                    /\ t.pc # "idle"
<1>1. Shaped
  BY InvShaped
<1>2. ASSUME NEW n \in Npcs, NEW amount \in host.amounts,
             GrantSilver(c, n, amount) \/ GrantRice(c, n, amount)
      PROVE  Sound
  <2>1. t.pc \in {"grantSilver", "grantRice"}
    BY <1>1, <1>2, GrantSilverStarts, GrantRiceStarts DEF Starts
  <2>2. QED
    BY <2>1 DEF Trading, Resolving, Settling
<1>3. ASSUME NEW n \in Npcs, NEW amount \in host.amounts, Exchange(c, n, amount)
      PROVE  Sound
  <2>1. t.pc = "readGcc"
    BY <1>1, <1>3, ExchangeStarts DEF Starts
  <2>2. QED
    BY <2>1 DEF Trading, Resolving, Settling
<1>4. ASSUME NEW n \in Npcs, NEW to \in Npcs, NEW amount \in host.amounts,
             Transfer(c, n, to, amount)
      PROVE  Sound
  <2>1. t.pc = "payRead"
    BY <1>1, <1>4, TransferStarts DEF Starts
  <2>2. QED
    BY <2>1 DEF Trading, Resolving, Settling
<1>5. ASSUME NEW n \in Npcs, NEW side, NEW amount \in host.amounts, Trade(c, n, side, amount)
      PROVE  Sound
  <2>1. t.pc = "tradeSilver"
    BY <1>1, <1>5, TradeStarts DEF Starts
  <2>2. "trade" \in host.ops
    BY <1>5 DEF Trade, MayCall
  <2>3. QED
    BY <2>1, <2>2 DEF Resolving, Settling
<1>6. ASSUME NEW n \in Npcs, NEW m, NEW side, NEW amount \in host.amounts,
             PlaceBet(c, n, m, side, amount)
      PROVE  Sound
  <2>1. t.pc = "betSilver"
    BY <1>1, <1>6, PlaceBetStarts DEF Starts
  <2>2. QED
    BY <2>1 DEF Trading, Resolving, Settling
<1>7. ASSUME NEW m, Resolve(c, m) PROVE Sound
  <2>1. t.pc = "readPrice"
    BY <1>1, <1>7, ResolveStarts DEF Starts
  <2>2. "resolve" \in host.ops
    BY <1>7 DEF Resolve, MayCall
  <2>3. QED
    BY <2>1, <2>2 DEF Trading
<1>8. ASSUME NEW m, NEW threshold, OpenBet(c, m, threshold) PROVE Sound
  <2>1. t.pc = "writeBets"
    BY <1>1, <1>8, OpenBetStarts DEF Starts
  <2>2. QED
    BY <2>1 DEF Trading, Resolving, Settling
<1>9. QED
  BY <1>2, <1>3, <1>4, <1>5, <1>6, <1>7, <1>8 DEF Begin

LEMMA AloneNext == RecordsInv /\ AloneInv /\ [Next]_vars => AloneInv'
<1> SUFFICES ASSUME RecordsInv, AloneInv, [Next]_vars PROVE AloneInv'
  OBVIOUS
<1>1. CASE call' = call /\ host' = host
  BY <1>1 DEF AloneInv, Busy
<1>2. ASSUME NEW c \in Calls, Others(c), host' = host,
             ~ host.overlap => \A d \in Calls : Busy(d) => d = c,
             Trading(call'[c]) => "trade" \in host.ops,
             Resolving(call'[c]) => "resolve" \in host.ops
      PROVE  AloneInv'
  <2>1. \A d \in Calls \ {c} : call'[d] = call[d]
    BY <1>2 DEF Others
  <2>2. ~ host.overlap => \A d \in Calls : call'[d].pc # "idle" => d = c
    BY <1>2, <2>1 DEF Busy
  <2>3. \A d \in Calls : Trading(call'[d]) => "trade" \in host.ops
    BY <1>2, <2>1 DEF AloneInv
  <2>4. \A d \in Calls : Resolving(call'[d]) => "resolve" \in host.ops
    BY <1>2, <2>1 DEF AloneInv
  <2>5. QED
    BY <1>2, <2>2, <2>3, <2>4 DEF AloneInv, Busy
<1>3. ASSUME NEW c \in Calls, Begin(c) PROVE AloneInv'
  <2>1. PICK t : t = call'[c]
    OBVIOUS
  <2>2. Others(c) /\ host' = host /\ (~ host.overlap => Quiet)
    BY <1>3, BeginMintsNothing
  <2>3. ~ host.overlap => \A d \in Calls : Busy(d) => d = c
    BY <2>2 DEF Quiet, At, Busy
  <2>4. /\ Trading(call'[c]) => "trade" \in host.ops
        /\ Resolving(call'[c]) => "resolve" \in host.ops
    BY <1>3, <2>1, BeginAlone
  <2>5. QED
    BY <1>2, <2>2, <2>3, <2>4
<1>4. ASSUME NEW c \in Calls, Continue(c) PROVE AloneInv'
  <2>1. PICK r, t : r = call[c] /\ t = call'[c]
    OBVIOUS
  <2>2. /\ Others(c) /\ host' = host /\ r.pc # "idle"
        /\ Trading(t) => Trading(r)
        /\ Resolving(t) => Resolving(r)
    BY <1>4, <2>1, ContinueAlone
  <2>3. ~ host.overlap => \A d \in Calls : Busy(d) => d = c
    BY <2>1, <2>2 DEF AloneInv, Busy
  <2>4. /\ Trading(call'[c]) => "trade" \in host.ops
        /\ Resolving(call'[c]) => "resolve" \in host.ops
    BY <2>1, <2>2 DEF AloneInv
  <2>5. QED
    BY <1>2, <2>2, <2>3, <2>4
<1>5. QED
  BY <1>1, <1>3, <1>4 DEF Next, NewDay, vars

LEMMA AloneInit == Init => AloneInv
<1> SUFFICES ASSUME Init PROVE AloneInv
  OBVIOUS
<1>1. \A c \in Calls : call[c].pc = "idle"
  BY IdleFields DEF Init
<1>2. QED
  BY <1>1 DEF AloneInv, Busy, Trading, Resolving, Settling

\* A lone call is all that is running.
LEMMA LoneRuns ==
    ASSUME RecordsInv, AloneInv, LoneInv, ~ host.overlap, NEW c \in Calls
    PROVE  /\ Busy(c) => Lone(call[c])
           /\ Quiet => Lone(IdleCall)
<1>1. Quiet => IdleCall \in Running
  BY DEF Running
<1>2. Busy(c) => call[c] \in Running
  BY DEF Running, Quiet, At, Busy
<1>3. QED
  BY <1>1, <1>2 DEF LoneInv

LEMMA LoneStep ==
    ASSUME NEW c \in Calls, Others(c), host' = host, NEW t, t = call'[c],
           \A d \in Calls : Busy(d) => d = c, t.pc = "idle" => t = IdleCall,
           Lone(t)'
    PROVE  LoneInv'
<1>1. \A d \in Calls \ {c} : call'[d].pc = "idle"
  BY DEF Others, Busy
<1>2. Running' \subseteq {t}
  <2>1. CASE t.pc = "idle"
    <3>1. Quiet'
      BY <1>1, <2>1 DEF Quiet, At
    <3>2. QED
      BY <2>1, <3>1 DEF Running
  <2>2. CASE t.pc # "idle"
    <3>1. ~ Quiet'
      BY <2>2 DEF Quiet, At
    <3>2. \A d \in Calls : Busy(d)' => d = c
      BY <1>1 DEF Busy
    <3>3. QED
      BY <3>1, <3>2 DEF Running
  <2>3. QED
    BY <2>1, <2>2
<1>3. QED
  BY <1>2 DEF LoneInv

-----------------------------------------------------------------------------
(***************************************************************************)
(* A lone call that only reads.                                            *)
(***************************************************************************)
\* While a call has not written, or has written all, nothing is due.
Undue ==
    {"idle", "grantSilver", "grantRice", "readGcc", "readDaily", "payRead", "payWrite",
     "tradeSilver", "tradeRice", "writeRice", "betSilver", "readPrice", "readStakers"}

NothingDue(r) ==
    /\ SilverDue(r) = 0 /\ RiceDue(r) = 0
    /\ \A n \in Npcs : StakeDue(r, n) = 0 /\ \A d \in Days : CapDue(r, n, d) = 0

LEMMA UndueNothing ==
    ASSUME NEW r, r.pc \in Undue
    PROVE  NothingDue(r)
BY DEF Undue, NothingDue, SilverDue, RiceDue, StakeDue, CapDue

LEMMA OpeningNothingDue ==
    ASSUME NEW r, r.pc = "writeBets", r.op = "open"
    PROVE  NothingDue(r)
BY DEF NothingDue, SilverDue, RiceDue, StakeDue, CapDue

LEMMA LoneSame ==
    ASSUME NEW r, Lone(r), NEW t, NothingDue(r), NothingDue(t), Fresh(t),
           ~ host.fails => DayRead(t)
    PROVE  Lone(t)
BY DEF Lone, NothingDue, SilverBooks, RiceBooks, StakeBooks, DayBooks

\* What is said of a lone call does not depend on the GCC.
LEMMA LoneUnaffected ==
    ASSUME UNCHANGED <<silver, rice, Records, history>>, NEW t, Lone(t)
    PROVE  Lone(t)'
<1>1. /\ silver' = silver /\ rice' = rice /\ pool' = pool /\ bets' = bets
      /\ daily' = daily /\ today' = today /\ host' = host /\ history' = history
  BY DEF Records
<1>2. Fresh(t) => Fresh(t)'
  BY <1>1 DEF Fresh
<1>3. SilverBooks(t) => SilverBooks(t)'
  BY <1>1 DEF SilverBooks, TakesFirst, SilverPresent, SilverDue, SilverIssued, SilverBurnt
<1>4. RiceBooks(t) => RiceBooks(t)'
  BY <1>1 DEF RiceBooks, RicePresent, RiceDue
<1>5. StakeBooks(t) => StakeBooks(t)'
  BY <1>1 DEF StakeBooks
<1>6. DayBooks(t) => DayBooks(t)'
  BY <1>1 DEF DayBooks, UsedOn
<1>7. DayRead(t) => DayRead(t)'
  BY <1>1 DEF DayRead, UsedOn
<1>8. QED
  BY <1>1, <1>2, <1>3, <1>4, <1>5, <1>6, <1>7 DEF Lone

LEMMA LoneUnchanged ==
    ASSUME UNCHANGED <<silver, rice, gcc, Records, history>>, NEW t, Lone(t)
    PROVE  Lone(t)'
BY LoneUnaffected

\* A call that ends with nothing due leaves the books as they are.
LEMMA LoneEnds ==
    ASSUME NEW r, Lone(r), NothingDue(r), UNCHANGED <<silver, rice, gcc, Records, history>>
    PROVE  Lone(IdleCall)'
<1>1. PICK t : t = IdleCall
  OBVIOUS
<1>2. t.pc = "idle"
  BY <1>1, IdleFields
<1>3. NothingDue(t) /\ Fresh(t) /\ DayRead(t)
  <2>1. NothingDue(t)
    BY <1>2, UndueNothing DEF Undue
  <2>2. Fresh(t) /\ DayRead(t)
    BY <1>2 DEF Fresh, DayRead, Settling
  <2>3. QED
    BY <2>1, <2>2
<1>4. Lone(t)
  BY <1>3, LoneSame
<1>5. Lone(t)'
  BY <1>4, LoneUnchanged
<1>6. QED
  BY <1>1, <1>5

LEMMA GrantLone ==
    ASSUME RecordsInv, Lone(IdleCall), NEW c \in Calls, NEW n \in Npcs,
           NEW amount \in host.amounts,
           GrantSilver(c, n, amount) \/ GrantRice(c, n, amount),
           NEW t, t = call'[c]
    PROVE  Lone(t)'
<1>1. /\ t.npc = n
      /\ \/ t.pc = "grantSilver" /\ t.seen = silver[n]
         \/ t.pc = "grantRice" /\ t.seen = rice[n]
  BY InvShaped, GrantSilverStarts, GrantRiceStarts DEF Starts
<1>2. NothingDue(t) /\ NothingDue(IdleCall)
  BY <1>1, IdleFields, UndueNothing DEF Undue
<1>3. Fresh(t) /\ DayRead(t)
  BY <1>1 DEF Fresh, DayRead, Settling
<1>4. UNCHANGED <<silver, rice, gcc, Records, history>>
  BY DEF GrantSilver, GrantRice
<1>5. QED
  BY <1>2, <1>3, <1>4, LoneSame, LoneUnchanged

LEMMA TransferLone ==
    ASSUME RecordsInv, Lone(IdleCall), NEW c \in Calls, NEW n \in Npcs, NEW to \in Npcs,
           NEW amount \in host.amounts, Transfer(c, n, to, amount),
           NEW t, t = call'[c]
    PROVE  Lone(t)'
<1>1. t.npc = n /\ t.pc = "payRead" /\ t.op = "transfer" /\ t.amount = Lesser(amount, silver[n])
  BY InvShaped, TransferStarts DEF Starts
<1>2. t.amount <= silver[n]
  <2>1. amount \in Nat /\ silver[n] \in Nat
    BY RecordsParts, HostAmounts DEF StoreOK
  <2>2. QED
    BY <1>1, <2>1 DEF Lesser
<1>3. NothingDue(t) /\ NothingDue(IdleCall)
  BY <1>1, IdleFields, UndueNothing DEF Undue
<1>4. Fresh(t) /\ DayRead(t)
  BY <1>1, <1>2 DEF Fresh, DayRead, Settling
<1>5. UNCHANGED <<silver, rice, gcc, Records, history>>
  BY DEF Transfer
<1>6. QED
  BY <1>3, <1>4, <1>5, LoneSame, LoneUnchanged

LEMMA ExchangeLone ==
    ASSUME RecordsInv, Lone(IdleCall), NEW c \in Calls, NEW n \in Npcs,
           NEW amount \in host.amounts, Exchange(c, n, amount),
           NEW t, t = call'[c]
    PROVE  Lone(t)'
<1>1. t.npc = n /\ t.pc = "readGcc" /\ t.op = "exchange" /\ t.amount = amount
  BY InvShaped, ExchangeStarts DEF Starts
<1>2. UNCHANGED <<silver, rice, gcc, Records, history>> /\ amount <= silver[n]
  BY DEF Exchange
<1>3. NothingDue(t) /\ NothingDue(IdleCall)
  BY <1>1, IdleFields, UndueNothing DEF Undue
<1>4. Fresh(t) /\ DayRead(t)
  BY <1>1, <1>2 DEF Fresh, DayRead, Settling
<1>5. QED
  BY <1>2, <1>3, <1>4, LoneSame, LoneUnchanged

LEMMA TradeLone ==
    ASSUME RecordsInv, Lone(IdleCall), NEW c \in Calls, NEW n \in Npcs, NEW side,
           NEW amount \in host.amounts, Trade(c, n, side, amount),
           NEW t, t = call'[c]
    PROVE  Lone(t)'
<1>1. t.pc = "tradeSilver" /\ t.op = "trade" /\ t.pool = pool
  BY InvShaped, TradeStarts DEF Starts
<1>2. UNCHANGED <<silver, rice, gcc, Records, history>>
  BY DEF Trade
<1>3. NothingDue(t) /\ NothingDue(IdleCall)
  BY <1>1, IdleFields, UndueNothing DEF Undue
<1>4. Fresh(t) /\ DayRead(t)
  BY <1>1 DEF Fresh, DayRead, Settling
<1>5. QED
  BY <1>2, <1>3, <1>4, LoneSame, LoneUnchanged

LEMMA OpenBetLone ==
    ASSUME RecordsInv, Lone(IdleCall), NEW c \in Calls, NEW m \in Markets,
           NEW threshold \in Thresholds, OpenBet(c, m, threshold),
           NEW t, t = call'[c]
    PROVE  Lone(t)'
<1>1. t.pc = "writeBets" /\ t.op = "open" /\ t.bets = Opened(bets, m, threshold)
  BY InvShaped, OpenBetStarts DEF Starts, Opened
<1>2. UNCHANGED <<silver, rice, gcc, Records, history>> /\ bets[m].status = "none"
  BY DEF OpenBet
<1>3. NothingDue(t) /\ NothingDue(IdleCall)
  BY <1>1, IdleFields, UndueNothing, OpeningNothingDue DEF Undue
<1>4. /\ Total(t.bets) = Total(bets)
      /\ \A n \in Npcs : StakeOf(t.bets, n) = StakeOf(bets, n)
  BY <1>1, <1>2, RecordsParts, OpenedBets DEF StoreOK
<1>5. Fresh(t) /\ DayRead(t)
  BY <1>1, <1>4 DEF Fresh, DayRead, Settling
<1>6. QED
  BY <1>2, <1>3, <1>5, LoneSame, LoneUnchanged

LEMMA PlaceBetLone ==
    ASSUME RecordsInv, Lone(IdleCall), NEW c \in Calls, NEW n \in Npcs, NEW m \in Markets,
           NEW side, NEW amount \in host.amounts, PlaceBet(c, n, m, side, amount),
           NEW t, t = call'[c]
    PROVE  Lone(t)'
<1>1. t.pc = "betSilver" /\ t.op = "bet" /\ t.bets = bets
  BY InvShaped, PlaceBetStarts DEF Starts
<1>2. UNCHANGED <<silver, rice, gcc, Records, history>>
  BY DEF PlaceBet
<1>3. NothingDue(t) /\ NothingDue(IdleCall)
  BY <1>1, IdleFields, UndueNothing DEF Undue
<1>4. Fresh(t) /\ DayRead(t)
  BY <1>1 DEF Fresh, DayRead, Settling
<1>5. QED
  BY <1>2, <1>3, <1>4, LoneSame, LoneUnchanged

LEMMA ResolveLone ==
    ASSUME RecordsInv, Lone(IdleCall), NEW c \in Calls, NEW m \in Markets, Resolve(c, m),
           NEW t, t = call'[c]
    PROVE  Lone(t)'
<1>1. t.pc = "readPrice" /\ t.op = "resolve" /\ t.bets = bets
  BY InvShaped, ResolveStarts DEF Starts
<1>2. UNCHANGED <<silver, rice, gcc, Records, history>>
  BY DEF Resolve
<1>3. NothingDue(t) /\ NothingDue(IdleCall)
  BY <1>1, IdleFields, UndueNothing DEF Undue
<1>4. Fresh(t) /\ DayRead(t)
  BY <1>1 DEF Fresh, DayRead, Settling
<1>5. QED
  BY <1>2, <1>3, <1>4, LoneSame, LoneUnchanged

\* A read that goes on owing what the call owed.
LEMMA LoneReads ==
    ASSUME NEW r, Lone(r), NEW t, Fresh(t), ~ host.fails => DayRead(t),
           SilverDue(t) = SilverDue(r), RiceDue(t) = RiceDue(r),
           \A n \in Npcs : /\ StakeDue(t, n) = StakeDue(r, n)
                           /\ \A d \in Days : CapDue(t, n, d) = CapDue(r, n, d)
    PROVE  Lone(t)
BY DEF Lone, SilverBooks, RiceBooks, StakeBooks, DayBooks

LEMMA PurseReadLone ==
    ASSUME RecordsInv, NEW c \in Calls, NEW r, r = call[c], Lone(r),
           PayRead(c) \/ GiveRead(c) \/ TradeReadSilver(c),
           NEW t, t = call'[c]
    PROVE  Lone(t)'
<1>1. /\ UNCHANGED <<silver, rice, gcc, Records, history>> /\ Keeps(t, r, {"pc", "seen"})
      /\ \/ r.pc = "payRead" /\ t.pc = "payWrite" /\ t.seen = silver[r.npc]
         \/ r.pc = "giveRead" /\ t.pc = "giveWrite" /\ t.seen = silver[r.to]
         \/ r.pc = "tradeSilver" /\ t.pc = "tradeRice" /\ t.seen = silver[r.npc]
  BY InvShaped, PurseMoves DEF PayRead, GiveRead, TradeReadSilver, Moves, Me
<1>2. /\ t.op = r.op /\ t.npc = r.npc /\ t.to = r.to /\ t.amount = r.amount
      /\ t.day = r.day /\ t.used = r.used /\ t.pool = r.pool
  BY <1>1 DEF Keeps, Fields
<1>3. Fresh(r) /\ (~ host.fails => DayRead(r))
  BY DEF Lone
<1>4. CASE r.pc = "payRead"
  <2>1. Fresh(t) /\ (~ host.fails => DayRead(t))
    BY <1>1, <1>2, <1>3, <1>4 DEF Fresh, DayRead, Settling
  <2>2. NothingDue(r) /\ NothingDue(t)
    BY <1>1, <1>4, UndueNothing DEF Undue
  <2>3. QED
    BY <1>1, <2>1, <2>2, LoneSame, LoneUnchanged
<1>5. CASE r.pc = "tradeSilver"
  <2>1. Fresh(t) /\ DayRead(t)
    BY <1>1, <1>2, <1>3, <1>5 DEF Fresh, DayRead, Settling
  <2>2. NothingDue(r) /\ NothingDue(t)
    BY <1>1, <1>5, UndueNothing DEF Undue
  <2>3. QED
    BY <1>1, <2>1, <2>2, LoneSame, LoneUnchanged
<1>6. CASE r.pc = "giveRead"
  <2>1. Fresh(t) /\ DayRead(t)
    BY <1>1, <1>2, <1>3, <1>6 DEF Fresh, DayRead, Settling
  <2>2. /\ SilverDue(t) = SilverDue(r) /\ RiceDue(t) = RiceDue(r)
        /\ \A n \in Npcs : /\ StakeDue(t, n) = StakeDue(r, n)
                           /\ \A d \in Days : CapDue(t, n, d) = CapDue(r, n, d)
    BY <1>1, <1>2, <1>6 DEF SilverDue, RiceDue, StakeDue, CapDue
  <2>3. QED
    BY <1>1, <2>1, <2>2, LoneReads, LoneUnchanged
<1>7. QED
  BY <1>1, <1>4, <1>5, <1>6

LEMMA ReadGccLone ==
    ASSUME RecordsInv, NEW c \in Calls, NEW r, r = call[c], Lone(r), ReadGcc(c),
           NEW t, t = call'[c]
    PROVE  Lone(t)'
<1>1. /\ UNCHANGED <<silver, rice, gcc, Records, history>> /\ Keeps(t, r, {"pc", "day"})
      /\ r.pc = "readGcc" /\ t.pc = "readDaily" /\ t.day = today
  BY InvShaped, ReadGccMoves DEF ReadGcc, Moves
<1>2. t.op = r.op /\ t.npc = r.npc /\ t.amount = r.amount
  BY <1>1 DEF Keeps, Fields
<1>3. r.npc \in Npcs /\ today \in Nat
  BY <1>1, RecordsParts, WhichCall, Constants DEF Exchanging, StoreOK
<1>4. Fresh(t)
  BY <1>1, <1>2 DEF Lone, Fresh, Settling
<1>5. ~ host.fails => DayRead(t)
  BY <1>1, <1>2, <1>3 DEF Lone, DayBooks, DayRead
<1>6. NothingDue(r) /\ NothingDue(t)
  BY <1>1, UndueNothing DEF Undue
<1>7. QED
  BY <1>1, <1>4, <1>5, <1>6, LoneSame, LoneUnchanged

LEMMA ReadDailyLone ==
    ASSUME RecordsInv, NEW c \in Calls, NEW r, r = call[c], Lone(r), ReadDaily(c),
           NEW t, t = call'[c]
    PROVE  Lone(t)'
<1>1. UNCHANGED <<silver, rice, gcc, Records, history>>
  BY DEF ReadDaily
<1>2. /\ r.pc = "readDaily"
      /\ \/ Ends(c)
         \/ /\ t.pc = "payRead" /\ Keeps(t, r, {"pc", "used"})
            /\ t.used = UsedOn(r.day, r.npc) /\ ~ (t.used + r.amount > DailyCap)
  BY InvShaped, ReadDailyMoves DEF Moves
<1>3. NothingDue(r)
  BY <1>2, UndueNothing DEF Undue
<1>4. CASE Ends(c)
  BY <1>1, <1>3, <1>4, LoneEnds DEF Ends
<1>5. CASE /\ t.pc = "payRead" /\ Keeps(t, r, {"pc", "used"})
           /\ t.used = UsedOn(r.day, r.npc) /\ ~ (t.used + r.amount > DailyCap)
  <2>1. t.op = r.op /\ t.npc = r.npc /\ t.amount = r.amount /\ t.day = r.day
    BY <1>5 DEF Keeps, Fields
  <2>2. Fresh(t)
    BY <1>2, <1>5, <2>1 DEF Lone, Fresh, Settling
  <2>3. r.op = "exchange" /\ r.npc \in Npcs /\ r.amount \in Nat /\ r.day \in Days
    BY <1>2, RecordsParts, WhichCall DEF Exchanging, CallSound
  <2>4. t.used \in Nat
    BY <1>5, <2>3, RecordsParts DEF StoreOK, UsedOn
  <2>5. t.used + t.amount <= DailyCap
    BY <1>5, <2>1, <2>3, <2>4, Constants
  <2>6. ~ host.fails => DayRead(t)
    BY <1>2, <1>5, <2>1, <2>5 DEF Lone, DayRead
  <2>7. NothingDue(t)
    BY <1>5, UndueNothing DEF Undue
  <2>8. QED
    BY <1>1, <1>3, <2>2, <2>6, <2>7, LoneSame, LoneUnchanged
<1>6. QED
  BY <1>2, <1>4, <1>5

LEMMA MintReadLone ==
    ASSUME RecordsInv, NEW c \in Calls, NEW r, r = call[c], Lone(r), MintRead(c),
           NEW t, t = call'[c]
    PROVE  Lone(t)'
<1>1. /\ UNCHANGED <<silver, rice, gcc, Records, history>> /\ Keeps(t, r, {"pc", "seen"})
      /\ r.pc = "mintRead" /\ t.pc = "mintWrite"
  BY InvShaped, MintReadMoves DEF MintRead, Moves
<1>2. t.op = r.op /\ t.npc = r.npc /\ t.amount = r.amount /\ t.day = r.day /\ t.used = r.used
  BY <1>1 DEF Keeps, Fields
<1>3. Fresh(t) /\ (~ host.fails => DayRead(t))
  BY <1>1, <1>2 DEF Lone, Fresh, DayRead, Settling
<1>4. /\ SilverDue(t) = SilverDue(r) /\ RiceDue(t) = RiceDue(r)
      /\ \A n \in Npcs : /\ StakeDue(t, n) = StakeDue(r, n)
                         /\ \A d \in Days : CapDue(t, n, d) = CapDue(r, n, d)
  BY <1>1, <1>2 DEF SilverDue, RiceDue, StakeDue, CapDue
<1>5. QED
  BY <1>1, <1>3, <1>4, LoneReads, LoneUnchanged

LEMMA ApplyTradeLone ==
    ASSUME RecordsInv, NEW c \in Calls, NEW r, r = call[c], Lone(r), ApplyTrade(c),
           NEW t, t = call'[c]
    PROVE  Lone(t)'
<1>1. PICK after : after = Swapped(r.pool, r.side, r.amount)
  OBVIOUS
<1>2. UNCHANGED <<silver, rice, gcc, Records, history>>
  BY DEF ApplyTrade
<1>3. /\ r.pc = "tradeRice"
      /\ \/ Ends(c)
         \/ /\ t.pc = "writeRice" /\ Keeps(t, r, {"pc", "pool", "rice", "seen"})
            /\ t.pool = after
            /\ t.rice = rice[r.npc] + r.pool.rice - after.rice
            /\ t.seen = r.seen + r.pool.silver - after.silver
  BY <1>1, InvShaped, ApplyTradeMoves DEF Moves
<1>4. NothingDue(r)
  BY <1>3, UndueNothing DEF Undue
<1>5. CASE Ends(c)
  BY <1>2, <1>4, <1>5, LoneEnds DEF Ends
<1>6. CASE /\ t.pc = "writeRice" /\ Keeps(t, r, {"pc", "pool", "rice", "seen"})
           /\ t.pool = after
           /\ t.rice = rice[r.npc] + r.pool.rice - after.rice
           /\ t.seen = r.seen + r.pool.silver - after.silver
  <2>1. t.op = r.op /\ t.npc = r.npc
    BY <1>6 DEF Keeps, Fields
  <2>2. r.pool = pool /\ r.seen = silver[r.npc]
    BY <1>3 DEF Lone, Fresh
  <2>3. /\ CallSound(r) /\ StoreOK /\ Trading(r) /\ r.npc \in Npcs
        /\ r.amount \in Nat /\ r.seen \in Nat /\ rice[r.npc] \in Nat
    BY <1>3, RecordsParts, WhichCall DEF Trading, CallSound, StoreOK
  <2>4. OnCurve(after) /\ OnCurve(pool)
    BY <1>1, <1>3, <2>3, SwapKeepsCurve DEF Trading, StoreOK
  <2>5. /\ after.rice \in Nat /\ after.silver \in Nat
        /\ pool.rice \in Nat /\ pool.silver \in Nat
    BY <2>4 DEF OnCurve
  <2>6. /\ t.rice + t.pool.rice = rice[t.npc] + pool.rice
        /\ t.seen + t.pool.silver = silver[t.npc] + pool.silver
    BY <1>6, <2>1, <2>2, <2>3, <2>5
  <2>7. Fresh(t) /\ DayRead(t)
    BY <1>6, <2>6 DEF Fresh, DayRead, Settling
  <2>8. NothingDue(t)
    BY <1>6, UndueNothing DEF Undue
  <2>9. QED
    BY <1>2, <1>4, <2>7, <2>8, LoneSame, LoneUnchanged
<1>7. QED
  BY <1>3, <1>5, <1>6

LEMMA ApplyBetLone ==
    ASSUME RecordsInv, NEW c \in Calls, NEW r, r = call[c], Lone(r), ApplyBet(c),
           NEW t, t = call'[c]
    PROVE  Lone(t)'
<1>1. PICK b : b = Placed(r.bets, r.market, r.npc, r.side, r.amount)
  OBVIOUS
<1>2. UNCHANGED <<silver, rice, gcc, Records, history>>
  BY Zenon DEF ApplyBet
<1>3. /\ r.pc = "betSilver"
      /\ \/ Ends(c)
         \/ /\ t.pc = "writeSilver" /\ Keeps(t, r, {"pc", "seen", "bets"})
            /\ t.seen = silver[r.npc] - r.amount /\ t.bets = b
  BY <1>1, InvShaped, ApplyBetMoves DEF Moves
<1>4. NothingDue(r)
  BY <1>3, UndueNothing DEF Undue
<1>5. CASE Ends(c)
  BY <1>2, <1>4, <1>5, LoneEnds DEF Ends
<1>6. CASE /\ t.pc = "writeSilver" /\ Keeps(t, r, {"pc", "seen", "bets"})
           /\ t.seen = silver[r.npc] - r.amount /\ t.bets = b
  <2>1. t.op = r.op /\ t.npc = r.npc /\ t.amount = r.amount
    BY <1>6 DEF Keeps, Fields
  <2>2. r.bets = bets
    BY <1>3 DEF Lone, Fresh
  <2>3. /\ r.npc \in Npcs /\ r.market \in Markets /\ r.side \in Sides /\ r.op = "bet"
        /\ BetsSound(r.bets) /\ r.bets[r.market].status = "open"
        /\ r.amount \in Nat /\ silver[r.npc] \in Nat
    BY <1>3, RecordsParts, WhichCall DEF Betting, CallSound, StoreOK
  <2>4. /\ Total(b) = Total(bets) + r.amount
        /\ \A n \in Npcs : StakeOf(b, n) = StakeOf(bets, n) + (IF n = r.npc THEN r.amount ELSE 0)
    BY <1>1, <2>2, <2>3, PlacedBets
  <2>5. t.seen + t.amount = silver[t.npc]
    BY <1>6, <2>1, <2>3
  <2>6. Fresh(t) /\ DayRead(t)
    BY <1>6, <2>1, <2>3, <2>4, <2>5 DEF Fresh, DayRead, Settling
  <2>7. NothingDue(t)
    BY <1>6, <2>1, <2>3 DEF NothingDue, SilverDue, RiceDue, StakeDue, CapDue
  <2>8. QED
    BY <1>2, <1>4, <2>6, <2>7, LoneSame, LoneUnchanged
<1>7. QED
  BY <1>3, <1>5, <1>6

\* A market without stakers holds nothing.
LEMMA NobodyStaked ==
    ASSUME NEW r, Resolving(r), NEW b, b = r.bets[r.market], Stakers(b) = {}
    PROVE  Staked(b) = 0
<1>1. PICK k : k \in Sides
  BY DEF Sides
<1>2. b \in BettingMarket /\ MarketSound(b) /\ b.status = "open" /\ WholePayouts(b)
  BY DEF Resolving, BetsSound
<1>3. PICK f : f = [n \in Npcs |-> Payout(b, k, n)]
  OBVIOUS
<1>4. SumOf(f, Stakers(b)) = Staked(b)
  BY <1>1, <1>2, <1>3, PayoutsAddUp
<1>5. SumOf(f, {}) = 0
  BY SumEmpty
<1>6. QED
  BY <1>4, <1>5

LEMMA ReadPriceLone ==
    ASSUME RecordsInv, NEW c \in Calls, NEW r, r = call[c], Lone(r), ReadPrice(c),
           NEW t, t = call'[c]
    PROVE  Lone(t)'
<1>1. PICK b : b = r.bets[r.market]
  BY Zenon
<1>2. UNCHANGED <<silver, rice, gcc, Records, history>>
  BY DEF ReadPrice
<1>3. /\ r.pc = "readPrice" /\ t.left = Stakers(b)
      /\ \/ Stakers(b) = {} /\ t.pc = "closeMarket"
         \/ Stakers(b) # {} /\ t.pc = "readStakers"
      /\ Keeps(t, r, {"pc", "side", "purses", "left"})
  BY <1>1, InvShaped, ReadPriceMoves DEF Moves
<1>4. t.op = r.op /\ t.market = r.market /\ t.bets = r.bets
  BY <1>3 DEF Keeps, Fields
<1>5. NothingDue(r)
  BY <1>3, UndueNothing DEF Undue
<1>6. r.bets = bets
  BY <1>3 DEF Lone, Fresh
<1>7. Fresh(t) /\ DayRead(t)
  BY <1>1, <1>3, <1>4, <1>6 DEF Fresh, DayRead, Settling, Served
<1>8. NothingDue(t)
  <2>1. CASE Stakers(b) # {}
    BY <1>3, <2>1, UndueNothing DEF Undue
  <2>2. CASE Stakers(b) = {}
    <3>1. Resolving(r)
      BY <1>3, RecordsParts, WhichCall
    <3>2. Staked(b) = 0
      BY <1>1, <2>2, <3>1, NobodyStaked
    <3>3. t.pc = "closeMarket" /\ t.bets[t.market] = b
      BY <1>1, <1>3, <1>4, <2>2
    <3>4. SilverDue(t) = 0
      <4>1. SilverDue(t) = 0 - Staked(t.bets[t.market])
        BY <3>3 DEF SilverDue
      <4>2. Staked(t.bets[t.market]) = 0
        BY <3>2, <3>3
      <4>3. QED
        BY <4>1, <4>2
    <3>5. QED
      BY <3>3, <3>4 DEF NothingDue, RiceDue, StakeDue, CapDue
  <2>3. QED
    BY <2>1, <2>2
<1>9. QED
  BY <1>2, <1>5, <1>7, <1>8, LoneSame, LoneUnchanged

LEMMA ReadStakerLone ==
    ASSUME RecordsInv, NEW c \in Calls, NEW r, r = call[c], Lone(r),
           NEW n \in Npcs, ReadStaker(c, n),
           NEW t, t = call'[c]
    PROVE  Lone(t)'
<1>1. PICK x : x = silver[n] + PayoutOf(r, n)
  OBVIOUS
<1>2. UNCHANGED <<silver, rice, gcc, Records, history>>
  BY DEF ReadStaker
<1>3. /\ r.pc = "readStakers" /\ n \in r.left
      /\ t.purses = [r.purses EXCEPT ![n] = x]
      /\ \/ r.left = {n} /\ t.pc = "payStakers" /\ t.left = Stakers(r.bets[r.market])
         \/ r.left # {n} /\ t.pc = "readStakers" /\ t.left = r.left \ {n}
      /\ Keeps(t, r, {"pc", "purses", "left"})
  BY <1>1, InvShaped, ReadStakerMoves DEF Moves
<1>4. t.op = r.op /\ t.market = r.market /\ t.bets = r.bets /\ t.side = r.side
  BY <1>3 DEF Keeps, Fields
<1>5. \A m \in Npcs : PayoutOf(t, m) = PayoutOf(r, m)
  BY <1>4 DEF PayoutOf
<1>6. /\ r.purses \in [Npcs -> Nat] /\ r.left \subseteq Stakers(r.bets[r.market])
      /\ Stakers(r.bets[r.market]) \subseteq Npcs
  BY <1>3, RecordsParts, WhichCall, Zenon DEF Resolving, Settling, Stakers
<1>7. /\ r.bets = bets
      /\ \A m \in Served(r) : r.purses[m] = silver[m] + PayoutOf(r, m)
  BY <1>3 DEF Lone, Fresh, Settling
<1>8. \A m \in Served(r) \cup {n} : t.purses[m] = silver[m] + PayoutOf(t, m)
  <2>1. SUFFICES ASSUME NEW m \in Served(r) \cup {n}
                 PROVE  t.purses[m] = silver[m] + PayoutOf(t, m)
    OBVIOUS
  <2>2. m \in Npcs
    BY <1>6 DEF Served
  <2>3. QED
    BY <1>1, <1>3, <1>5, <1>6, <1>7, <2>2
<1>9. NothingDue(r)
  BY <1>3, UndueNothing DEF Undue
<1>10. CASE r.left = {n}
  <2>1. Served(t) = {} /\ \A m \in t.left : m \in Served(r) \cup {n}
    BY <1>3, <1>4, <1>10 DEF Served
  <2>2. Fresh(t) /\ DayRead(t)
    BY <1>3, <1>4, <1>7, <1>8, <1>10, <2>1 DEF Fresh, DayRead, Settling
  <2>3. NothingDue(t)
    <3>1. SilverDue(t) = 0 - SumOf([m \in Npcs |-> PayoutOf(t, m)], {})
      BY <1>3, <1>10, <2>1 DEF SilverDue
    <3>2. SilverDue(t) = 0
      BY <3>1, SumEmpty
    <3>3. QED
      BY <1>3, <1>10, <3>2 DEF NothingDue, RiceDue, StakeDue, CapDue
  <2>4. QED
    BY <1>2, <1>9, <2>2, <2>3, LoneSame, LoneUnchanged
<1>11. CASE r.left # {n}
  <2>1. \A m \in Served(t) : m \in Served(r) \cup {n}
    BY <1>3, <1>4, <1>11 DEF Served
  <2>2. Fresh(t) /\ DayRead(t)
    BY <1>3, <1>4, <1>7, <1>8, <1>11, <2>1 DEF Fresh, DayRead, Settling
  <2>3. NothingDue(t)
    BY <1>3, <1>11, UndueNothing DEF Undue
  <2>4. QED
    BY <1>2, <1>9, <2>2, <2>3, LoneSame, LoneUnchanged
<1>12. QED
  BY <1>10, <1>11

-----------------------------------------------------------------------------
(***************************************************************************)
(* The books are natural numbers.                                          *)
(***************************************************************************)
LEMMA BooksType ==
    ASSUME StoreOK
    PROVE  /\ SumOf(silver, Npcs) \in Nat /\ SumOf(rice, Npcs) \in Nat /\ Total(bets) \in Nat
           /\ pool.silver \in Nat /\ pool.rice \in Nat
           /\ SilverBurnt \in Nat /\ Cardinality(Npcs) \in Nat
           /\ host.purse * Cardinality(Npcs) \in Nat /\ host.rice * Cardinality(Npcs) \in Nat
           /\ history.granted \in Nat /\ history.harvested \in Nat
           /\ SilverIssued \in Nat /\ SilverPresent \in Nat /\ RicePresent \in Nat
<1>1. /\ \A n \in Npcs : silver[n] \in Nat /\ rice[n] \in Nat
      /\ history.granted \in Nat /\ history.harvested \in Nat
      /\ \A n \in Npcs : \A d \in Days : history.exchanged[n][d] \in Nat
      /\ pool.silver \in Nat /\ pool.rice \in Nat
      /\ host.purse \in Nat /\ host.rice \in Nat
  BY HostAmounts DEF StoreOK, HistoryOK, OnCurve
<1>2. SumOf(silver, Npcs) \in Nat /\ SumOf(rice, Npcs) \in Nat
  BY <1>1, SumType, Constants
<1>3. Total(bets) \in Nat
  <2>1. PICK f : f = [m \in Markets |-> Staked(bets[m])]
    OBVIOUS
  <2>2. \A m \in Markets : f[m] \in Nat
    BY <2>1 DEF StoreOK, BetsSound, BettingMarket, Staked, Sides
  <2>3. QED
    BY <2>1, <2>2, SumType, Constants DEF Total
<1>4. SilverBurnt \in Nat
  <2>1. \A n \in Npcs : SumOf(history.exchanged[n], Days) \in Nat
    BY <1>1, SumType, DaysFinite
  <2>2. PICK f : f = [n \in Npcs |-> SumOf(history.exchanged[n], Days)]
    OBVIOUS
  <2>3. SumOf(f, Npcs) \in Nat
    BY <2>1, <2>2, SumType, Constants
  <2>4. QED
    BY <2>2, <2>3 DEF SilverBurnt
<1>5. Cardinality(Npcs) \in Nat
  BY Constants, FS_CardinalityType
<1>6. host.purse * Cardinality(Npcs) \in Nat /\ host.rice * Cardinality(Npcs) \in Nat
  BY <1>1, <1>5
<1>7. SilverPresent = SumOf(silver, Npcs) + pool.silver + Total(bets)
  BY DEF SilverPresent, Total
<1>8. QED
  BY <1>1, <1>2, <1>3, <1>4, <1>5, <1>6, <1>7, Constants DEF SilverIssued, RicePresent

\* A call that is cut short has made nothing, where a host that cuts calls
\* short makes no trades and settles no bets.
LEMMA CutShortLone ==
    ASSUME RecordsInv, AloneInv, NEW c \in Calls, NEW r, r = call[c], Lone(r), CutShort(c)
    PROVE  Lone(IdleCall)'
<1>1. PICK t : t = IdleCall
  OBVIOUS
<1>2. UNCHANGED <<silver, rice, gcc, Records, history>> /\ host.fails
  BY DEF CutShort
<1>3. t.pc = "idle"
  BY <1>1, IdleFields
<1>4. Fresh(t) /\ NothingDue(t)
  BY <1>3, UndueNothing DEF Undue, Fresh, Settling
<1>5. SilverBooks(t)
  <2>1. SUFFICES ASSUME host.ops \cap {"trade", "resolve"} = {}
                 PROVE  SilverPresent <= SilverIssued - SilverBurnt
    BY <1>2, <1>4, BooksType, RecordsParts DEF SilverBooks, TakesFirst, NothingDue
  <2>2. ~ Trading(r) /\ ~ Resolving(r)
    BY <2>1 DEF AloneInv
  <2>3. r.pc \notin {"writePool", "payStakers", "closeMarket"} /\ r.amount \in Nat
    BY <2>2, RecordsParts, WhichCall DEF Settling, CallSound
  <2>4. SilverDue(r) \in Nat
    BY <2>3 DEF SilverDue
  <2>5. SilverPresent + SilverDue(r) <= SilverIssued - SilverBurnt
    BY <1>2, <2>1 DEF Lone, SilverBooks, TakesFirst
  <2>6. QED
    BY <2>4, <2>5, BooksType, RecordsParts
<1>6. Lone(t)
  BY <1>2, <1>4, <1>5 DEF Lone
<1>7. Lone(t)'
  BY <1>2, <1>6, LoneUnchanged
<1>8. QED
  BY <1>1, <1>7

-----------------------------------------------------------------------------
(***************************************************************************)
(* A lone call that writes: what each write does to the books.             *)
(***************************************************************************)
LEMMA PurseChanges ==
    ASSUME StoreOK, NEW n \in Npcs, NEW v \in Nat, silver' = [silver EXCEPT ![n] = v]
    PROVE  /\ SumOf(silver', Npcs) + silver[n] = SumOf(silver, Npcs) + v
           /\ silver' \in [Npcs -> Nat] /\ SumOf(silver', Npcs) \in Nat
           /\ silver'[n] = v /\ \A m \in Npcs \ {n} : silver'[m] = silver[m]
<1>1. PICK f, g : f = silver /\ g = silver'
  OBVIOUS
<1>2. /\ \A m \in Npcs : f[m] \in Nat /\ g[m] \in Nat
      /\ \A m \in Npcs \ {n} : f[m] = g[m]
      /\ g[n] = v /\ g \in [Npcs -> Nat]
  BY <1>1 DEF StoreOK
<1>3. SumOf(g, Npcs) + f[n] = SumOf(f, Npcs) + g[n]
  BY <1>2, SumUpdate, Constants
<1>4. SumOf(g, Npcs) \in Nat
  BY <1>2, SumType, Constants
<1>5. QED
  BY <1>1, <1>2, <1>3, <1>4

LEMMA StallChanges ==
    ASSUME StoreOK, NEW n \in Npcs, NEW v \in Nat, rice' = [rice EXCEPT ![n] = v]
    PROVE  /\ SumOf(rice', Npcs) + rice[n] = SumOf(rice, Npcs) + v
           /\ rice' \in [Npcs -> Nat] /\ SumOf(rice', Npcs) \in Nat
<1>1. PICK f, g : f = rice /\ g = rice'
  OBVIOUS
<1>2. /\ \A m \in Npcs : f[m] \in Nat /\ g[m] \in Nat
      /\ \A m \in Npcs \ {n} : f[m] = g[m]
      /\ g[n] = v /\ g \in [Npcs -> Nat]
  BY <1>1 DEF StoreOK
<1>3. SumOf(g, Npcs) + f[n] = SumOf(f, Npcs) + g[n]
  BY <1>2, SumUpdate, Constants
<1>4. SumOf(g, Npcs) \in Nat
  BY <1>2, SumType, Constants
<1>5. QED
  BY <1>1, <1>2, <1>3, <1>4

LEMMA SilverBalance ==
    ASSUME StoreOK, StoreOK', host' = host, NEW r, SilverBooks(r), NEW t,
           SilverDue(r) \in Int, SilverDue(t)' \in Int,
           SilverPresent' + SilverDue(t)' + SilverBurnt' + SilverIssued =
               SilverPresent + SilverDue(r) + SilverBurnt + SilverIssued'
    PROVE  SilverBooks(t)'
<1>1. PICK p, i, b, d, p1, i1, b1, d1 :
          /\ p = SilverPresent /\ i = SilverIssued /\ b = SilverBurnt /\ d = SilverDue(r)
          /\ p1 = SilverPresent' /\ i1 = SilverIssued' /\ b1 = SilverBurnt'
          /\ d1 = SilverDue(t)'
  OBVIOUS
<1>2. p \in Nat /\ i \in Nat /\ b \in Nat /\ d \in Int
  BY <1>1, BooksType
<1>3. p1 \in Nat /\ i1 \in Nat /\ b1 \in Nat /\ d1 \in Int
  <2>1. (SilverPresent \in Nat /\ SilverIssued \in Nat /\ SilverBurnt \in Nat)'
    BY BooksType, PTL
  <2>2. QED
    BY <1>1, <2>1
<1>4. p1 + d1 + b1 + i = p + d + b + i1
  BY <1>1
<1>5. /\ p + d <= i - b => p1 + d1 <= i1 - b1
      /\ p + d = i - b => p1 + d1 = i1 - b1
  BY <1>2, <1>3, <1>4
<1>6. TakesFirst' <=> TakesFirst
  BY DEF TakesFirst
<1>7. QED
  BY <1>1, <1>5, <1>6 DEF SilverBooks

LEMMA RiceBalance ==
    ASSUME StoreOK, StoreOK', host' = host, NEW r, RiceBooks(r), NEW t,
           RiceDue(r) \in Int, RiceDue(t)' \in Int,
           RicePresent' + RiceDue(t)' + history.harvested =
               RicePresent + RiceDue(r) + history'.harvested
    PROVE  RiceBooks(t)'
<1>1. PICK p, h, d, p1, h1, d1, k :
          /\ p = RicePresent /\ h = history.harvested /\ d = RiceDue(r)
          /\ p1 = RicePresent' /\ h1 = history'.harvested /\ d1 = RiceDue(t)'
          /\ k = host.rice * Cardinality(Npcs)
  OBVIOUS
<1>2. p \in Nat /\ h \in Nat /\ d \in Int /\ k \in Nat
  BY <1>1, BooksType
<1>3. p1 \in Nat /\ h1 \in Nat /\ d1 \in Int
  <2>1. (RicePresent \in Nat /\ history.harvested \in Nat)'
    BY BooksType, PTL
  <2>2. QED
    BY <1>1, <2>1
<1>4. p + d = k + OpeningPool + h
  BY <1>1 DEF RiceBooks
<1>5. p1 + d1 = k + OpeningPool + h1
  BY <1>1, <1>2, <1>3, <1>4, Constants
<1>6. QED
  BY <1>1, <1>5 DEF RiceBooks

LEMMA StakeFrame ==
    ASSUME NEW r, StakeBooks(r), NEW t, bets' = bets, history'.staked = history.staked,
           \A n \in Npcs : StakeDue(t, n) = StakeDue(r, n)
    PROVE  StakeBooks(t)'
BY DEF StakeBooks, StakeDue

LEMMA DayFrame ==
    ASSUME NEW r, DayBooks(r), NEW t, daily' = daily, today' = today,
           history'.exchanged = history.exchanged,
           \A n \in Npcs : \A d \in Days : CapDue(t, n, d) = CapDue(r, n, d)
    PROVE  DayBooks(t)'
BY DEF DayBooks, CapDue, UsedOn

LEMMA SilverSum == SilverPresent = SumOf(silver, Npcs) + pool.silver + Total(bets)
BY DEF SilverPresent, Total

LEMMA IdleAfter ==
    ASSUME NEW t, t = IdleCall
    PROVE  /\ NothingDue(t) /\ SilverDue(t)' = 0 /\ RiceDue(t)' = 0
           /\ Fresh(t)' /\ DayRead(t) /\ DayRead(t)'
<1>1. t.pc = "idle"
  BY IdleFields
<1>2. NothingDue(t)
  BY <1>1, UndueNothing DEF Undue
<1>3. QED
  BY <1>1, <1>2 DEF SilverDue, RiceDue, Fresh, DayRead, Settling

LEMMA StoreSound ==
    ASSUME RecordsInv, RecordsInv'
    PROVE  StoreOK /\ StoreOK'
<1>1. StoreOK
  BY RecordsParts
<1>2. RecordsInv' => StoreOK'
  <2>1. RecordsInv => StoreOK
    BY RecordsParts
  <2>2. QED
    BY RecordsParts, PTL
<1>3. QED
  BY <1>1, <1>2

\* A call that ends and touches neither rice, stakes nor the exchange.
LEMMA EndFrame ==
    ASSUME StoreOK, StoreOK', host' = host, NEW r, Lone(r), NEW t, t = IdleCall,
           \A n \in Npcs : StakeDue(r, n) = 0 /\ \A d \in Days : CapDue(r, n, d) = 0,
           bets' = bets, daily' = daily, today' = today,
           history'.staked = history.staked, history'.exchanged = history.exchanged
    PROVE  /\ ~ host.fails => StakeBooks(t)' /\ DayBooks(t)'
           /\ Fresh(t)' /\ DayRead(t)' /\ SilverDue(t)' = 0 /\ RiceDue(t)' = 0
<1>1. /\ NothingDue(t) /\ SilverDue(t)' = 0 /\ RiceDue(t)' = 0
      /\ Fresh(t)' /\ DayRead(t)'
  BY IdleAfter
<1>2. \A n \in Npcs : /\ StakeDue(t, n) = StakeDue(r, n)
                      /\ \A d \in Days : CapDue(t, n, d) = CapDue(r, n, d)
  BY <1>1 DEF NothingDue
<1>3. ~ host.fails => StakeBooks(t)'
  BY <1>2, StakeFrame DEF Lone
<1>4. ~ host.fails => DayBooks(t)'
  BY <1>2, DayFrame DEF Lone
<1>5. QED
  BY <1>1, <1>3, <1>4

LEMMA GrantSilverEndsLone ==
    ASSUME RecordsInv, RecordsInv', NEW c \in Calls, NEW r, r = call[c], Lone(r),
           GrantSilverEnds(c)
    PROVE  Lone(IdleCall)'
<1>1. PICK t : t = IdleCall
  OBVIOUS
<1>2. StoreOK /\ StoreOK'
  BY StoreSound
<1>3. r.pc = "grantSilver" /\ r.npc \in Npcs /\ r.amount \in Nat /\ r.seen = silver[r.npc]
  <2>1. r.pc = "grantSilver"
    BY DEF GrantSilverEnds, At
  <2>2. r.seen = silver[r.npc]
    BY <2>1 DEF Lone, Fresh
  <2>3. QED
    BY <2>1, <2>2, RecordsParts, WhichCall DEF Granting, CallSound
<1>4. PICK v, g : v = r.seen + r.amount /\ g = history.granted + r.amount
  OBVIOUS
<1>5. /\ silver' = [silver EXCEPT ![r.npc] = v] /\ rice' = rice
      /\ pool' = pool /\ bets' = bets /\ daily' = daily /\ today' = today /\ host' = host
      /\ history' = [history EXCEPT !.granted = g]
  BY <1>4 DEF GrantSilverEnds, StorePurse, Me, Records
<1>6. /\ history'.granted = g /\ history'.harvested = history.harvested
      /\ history'.exchanged = history.exchanged /\ history'.staked = history.staked
  BY <1>2, <1>5 DEF StoreOK, HistoryOK
<1>7. v \in Nat /\ silver[r.npc] \in Nat
  BY <1>2, <1>3, <1>4 DEF StoreOK
<1>8. SumOf(silver', Npcs) + silver[r.npc] = SumOf(silver, Npcs) + v /\ SumOf(silver', Npcs) \in Nat
  BY <1>2, <1>3, <1>5, <1>7, PurseChanges
<1>9. SilverDue(r) = 0 /\ RiceDue(r) = 0 /\ NothingDue(r)
  BY <1>3, UndueNothing DEF Undue, NothingDue
<1>10. /\ ~ host.fails => StakeBooks(t)' /\ DayBooks(t)'
       /\ Fresh(t)' /\ DayRead(t)' /\ SilverDue(t)' = 0 /\ RiceDue(t)' = 0
  BY <1>1, <1>2, <1>5, <1>6, <1>9, EndFrame DEF NothingDue
<1>11. SilverBooks(t)'
  <2>1. SilverPresent' = SilverPresent + r.amount
    <3>1. SilverPresent' = SumOf(silver', Npcs) + pool.silver + Total(bets)
      BY <1>5 DEF SilverPresent, Total
    <3>2. QED
      BY <1>2, <1>3, <1>4, <1>7, <1>8, <3>1, SilverSum, BooksType
  <2>2. SilverIssued' = SilverIssued + r.amount /\ SilverBurnt' = SilverBurnt
    BY <1>2, <1>3, <1>4, <1>5, <1>6, BooksType, Constants DEF SilverIssued, SilverBurnt
  <2>3. SilverPresent' + SilverDue(t)' + SilverBurnt' + SilverIssued =
            SilverPresent + SilverDue(r) + SilverBurnt + SilverIssued'
    BY <1>2, <1>3, <1>9, <1>10, <2>1, <2>2, BooksType
  <2>4. QED
    BY <1>2, <1>5, <1>9, <1>10, <2>3, SilverBalance DEF Lone
<1>12. ~ host.fails => RiceBooks(t)'
  <2>1. RicePresent' = RicePresent
    BY <1>5 DEF RicePresent
  <2>2. RicePresent' + RiceDue(t)' + history.harvested =
            RicePresent + RiceDue(r) + history'.harvested
    BY <1>6, <1>9, <1>10, <2>1
  <2>3. QED
    BY <1>2, <1>5, <1>9, <1>10, <2>2, RiceBalance DEF Lone
<1>13. QED
  BY <1>1, <1>5, <1>10, <1>11, <1>12 DEF Lone

LEMMA PurseWritten ==
    ASSUME StoreOK, NEW n \in Npcs, NEW v \in Nat, silver' = [silver EXCEPT ![n] = v],
           pool' = pool, bets' = bets
    PROVE  /\ SilverPresent' + silver[n] = SilverPresent + v
           /\ silver[n] \in Nat /\ SilverPresent' \in Nat /\ SilverPresent \in Nat
           /\ silver'[n] = v /\ \A m \in Npcs \ {n} : silver'[m] = silver[m]
<1>1. /\ SumOf(silver', Npcs) + silver[n] = SumOf(silver, Npcs) + v
      /\ SumOf(silver', Npcs) \in Nat
      /\ silver'[n] = v /\ \A m \in Npcs \ {n} : silver'[m] = silver[m]
  BY PurseChanges
<1>2. SilverPresent' = SumOf(silver', Npcs) + pool.silver + Total(bets)
  BY DEF SilverPresent, Total
<1>3. silver[n] \in Nat
  BY DEF StoreOK
<1>4. QED
  BY <1>1, <1>2, <1>3, SilverSum, BooksType

\* Rice is not touched by this step.
LEMMA RiceFrame ==
    ASSUME StoreOK, StoreOK', host' = host, NEW r, Lone(r), NEW t,
           RiceDue(r) = 0, RiceDue(t)' = 0, rice' = rice, pool' = pool,
           history'.harvested = history.harvested
    PROVE  ~ host.fails => RiceBooks(t)'
<1>1. RicePresent' = RicePresent
  BY DEF RicePresent
<1>2. RicePresent' + RiceDue(t)' + history.harvested =
          RicePresent + RiceDue(r) + history'.harvested
  BY <1>1
<1>3. QED
  BY <1>2, RiceBalance DEF Lone

\* The silver issued and burnt is what it was.
LEMMA SilverFrame ==
    ASSUME StoreOK, StoreOK', host' = host, NEW r, Lone(r), NEW t,
           SilverDue(r) \in Int, SilverDue(t)' \in Int,
           SilverPresent' + SilverDue(t)' = SilverPresent + SilverDue(r),
           history'.granted = history.granted, history'.exchanged = history.exchanged
    PROVE  SilverBooks(t)'
<1>1. SilverIssued' = SilverIssued /\ SilverBurnt' = SilverBurnt
  BY DEF SilverIssued, SilverBurnt
<1>2. SilverPresent' + SilverDue(t)' + SilverBurnt' + SilverIssued =
          SilverPresent + SilverDue(r) + SilverBurnt + SilverIssued'
  BY <1>1
<1>3. QED
  BY <1>2, SilverBalance DEF Lone

LEMMA GrantRiceEndsLone ==
    ASSUME RecordsInv, RecordsInv', NEW c \in Calls, NEW r, r = call[c], Lone(r),
           GrantRiceEnds(c)
    PROVE  Lone(IdleCall)'
<1>1. PICK t : t = IdleCall
  OBVIOUS
<1>2. StoreOK /\ StoreOK'
  BY StoreSound
<1>3. r.pc = "grantRice" /\ r.npc \in Npcs /\ r.amount \in Nat /\ r.seen = rice[r.npc]
  <2>1. r.pc = "grantRice"
    BY DEF GrantRiceEnds, At
  <2>2. r.seen = rice[r.npc]
    BY <2>1 DEF Lone, Fresh
  <2>3. QED
    BY <2>1, <2>2, RecordsParts, WhichCall DEF Granting, CallSound
<1>4. PICK v, g : v = r.seen + r.amount /\ g = history.harvested + r.amount
  OBVIOUS
<1>5. /\ rice' = [rice EXCEPT ![r.npc] = v] /\ silver' = silver
      /\ pool' = pool /\ bets' = bets /\ daily' = daily /\ today' = today /\ host' = host
      /\ history' = [history EXCEPT !.harvested = g]
  BY <1>4 DEF GrantRiceEnds, Me, Records
<1>6. /\ history'.harvested = g /\ history'.granted = history.granted
      /\ history'.exchanged = history.exchanged /\ history'.staked = history.staked
  BY <1>2, <1>5 DEF StoreOK, HistoryOK
<1>7. v \in Nat /\ rice[r.npc] \in Nat
  BY <1>2, <1>3, <1>4 DEF StoreOK
<1>8. SumOf(rice', Npcs) + rice[r.npc] = SumOf(rice, Npcs) + v /\ SumOf(rice', Npcs) \in Nat
  BY <1>2, <1>3, <1>5, <1>7, StallChanges
<1>9. SilverDue(r) = 0 /\ RiceDue(r) = 0 /\ NothingDue(r)
  BY <1>3, UndueNothing DEF Undue, NothingDue
<1>10. /\ ~ host.fails => StakeBooks(t)' /\ DayBooks(t)'
       /\ Fresh(t)' /\ DayRead(t)' /\ SilverDue(t)' = 0 /\ RiceDue(t)' = 0
  BY <1>1, <1>2, <1>5, <1>6, <1>9, EndFrame DEF NothingDue
<1>11. SilverBooks(t)'
  <2>1. SilverPresent' = SilverPresent
    BY <1>5 DEF SilverPresent
  <2>2. QED
    BY <1>2, <1>5, <1>6, <1>9, <1>10, <2>1, SilverFrame
<1>12. ~ host.fails => RiceBooks(t)'
  <2>1. RicePresent' = RicePresent + r.amount
    <3>1. RicePresent' = SumOf(rice', Npcs) + pool.rice
      BY <1>5 DEF RicePresent
    <3>2. QED
      BY <1>2, <1>3, <1>4, <1>7, <1>8, <3>1, BooksType DEF RicePresent
  <2>2. RicePresent' + RiceDue(t)' + history.harvested =
            RicePresent + RiceDue(r) + history'.harvested
    BY <1>2, <1>3, <1>4, <1>6, <1>9, <1>10, <2>1, BooksType
  <2>3. QED
    BY <1>2, <1>5, <1>9, <1>10, <2>2, RiceBalance DEF Lone
<1>13. QED
  BY <1>1, <1>5, <1>10, <1>11, <1>12 DEF Lone

LEMMA GiveWriteLone ==
    ASSUME RecordsInv, RecordsInv', NEW c \in Calls, NEW r, r = call[c], Lone(r),
           GiveWrite(c)
    PROVE  Lone(IdleCall)'
<1>1. PICK t : t = IdleCall
  OBVIOUS
<1>2. StoreOK /\ StoreOK'
  BY StoreSound
<1>3. /\ r.pc = "giveWrite" /\ r.to \in Npcs /\ r.amount \in Nat /\ r.seen = silver[r.to]
      /\ r.op = "transfer"
  <2>1. r.pc = "giveWrite"
    BY DEF GiveWrite, At
  <2>2. r.seen = silver[r.to]
    BY <2>1 DEF Lone, Fresh
  <2>3. QED
    BY <2>1, <2>2, RecordsParts, WhichCall DEF Transferring, CallSound
<1>4. PICK v : v = r.seen + r.amount
  OBVIOUS
<1>5. /\ silver' = [silver EXCEPT ![r.to] = v] /\ rice' = rice
      /\ pool' = pool /\ bets' = bets /\ daily' = daily /\ today' = today /\ host' = host
      /\ history' = history
  BY <1>4 DEF GiveWrite, StorePurse, Records
<1>6. v \in Nat
  BY <1>2, <1>3, <1>4 DEF StoreOK
<1>7. SilverPresent' + silver[r.to] = SilverPresent + v /\ silver[r.to] \in Nat
      /\ SilverPresent \in Nat /\ SilverPresent' \in Nat
  BY <1>2, <1>3, <1>5, <1>6, PurseWritten
<1>8. /\ SilverDue(r) = r.amount /\ RiceDue(r) = 0
      /\ \A n \in Npcs : StakeDue(r, n) = 0 /\ \A d \in Days : CapDue(r, n, d) = 0
  BY <1>3 DEF SilverDue, RiceDue, StakeDue, CapDue
<1>9. /\ ~ host.fails => StakeBooks(t)' /\ DayBooks(t)'
      /\ Fresh(t)' /\ DayRead(t)' /\ SilverDue(t)' = 0 /\ RiceDue(t)' = 0
  BY <1>1, <1>2, <1>5, <1>8, EndFrame
<1>10. SilverBooks(t)'
  <2>1. SilverPresent' + SilverDue(t)' = SilverPresent + SilverDue(r)
    BY <1>3, <1>4, <1>7, <1>8, <1>9
  <2>2. QED
    BY <1>2, <1>3, <1>5, <1>8, <1>9, <2>1, SilverFrame
<1>11. ~ host.fails => RiceBooks(t)'
  BY <1>2, <1>5, <1>8, <1>9, RiceFrame
<1>12. QED
  BY <1>1, <1>5, <1>9, <1>10, <1>11 DEF Lone

\* A payment of an exchange in the history of its day.
LEMMA BurntGrows ==
    ASSUME StoreOK, NEW n \in Npcs, NEW d \in Days, NEW a \in Nat,
           history' = [history EXCEPT !.exchanged[n][d] = @ + a]
    PROVE  /\ history'.granted = history.granted /\ history'.harvested = history.harvested
           /\ history'.staked = history.staked
           /\ history'.exchanged[n][d] = history.exchanged[n][d] + a
           /\ \A m \in Npcs, e \in Days : m # n \/ e # d =>
                  history'.exchanged[m][e] = history.exchanged[m][e]
           /\ SilverBurnt' = SilverBurnt + a
<1>1. PICK x, y : x = history.exchanged /\ y = history'.exchanged
  OBVIOUS
<1>2. x \in [Npcs -> [Days -> Nat]] /\ y = [x EXCEPT ![n][d] = @ + a]
      /\ history'.granted = history.granted /\ history'.harvested = history.harvested
      /\ history'.staked = history.staked
  BY <1>1 DEF StoreOK, HistoryOK
<1>3. /\ y \in [Npcs -> [Days -> Nat]] /\ y[n][d] = x[n][d] + a
      /\ \A m \in Npcs, e \in Days : m # n \/ e # d => y[m][e] = x[m][e]
      /\ \A m \in Npcs \ {n} : y[m] = x[m]
  BY <1>2
<1>4. SumOf(y[n], Days) = SumOf(x[n], Days) + a
  <2>1. PICK f, g : f = x[n] /\ g = y[n]
    OBVIOUS
  <2>2. /\ \A e \in Days : f[e] \in Nat /\ g[e] \in Nat
        /\ \A e \in Days \ {d} : f[e] = g[e]
        /\ g[d] = f[d] + a /\ f[d] \in Nat
    BY <1>2, <1>3, <2>1
  <2>3. SumOf(g, Days) + f[d] = SumOf(f, Days) + g[d]
    BY <2>2, SumUpdate, DaysFinite
  <2>4. SumOf(f, Days) \in Nat /\ SumOf(g, Days) \in Nat
    BY <2>2, SumType, DaysFinite
  <2>5. QED
    BY <2>1, <2>2, <2>3, <2>4
<1>5. PICK p, q : /\ p = [m \in Npcs |-> SumOf(x[m], Days)]
                  /\ q = [m \in Npcs |-> SumOf(y[m], Days)]
  OBVIOUS
<1>6. \A m \in Npcs : p[m] \in Nat /\ q[m] \in Nat
  <2>1. \A m \in Npcs : SumOf(x[m], Days) \in Nat /\ SumOf(y[m], Days) \in Nat
    <3>1. SUFFICES ASSUME NEW m \in Npcs
                   PROVE  SumOf(x[m], Days) \in Nat /\ SumOf(y[m], Days) \in Nat
      OBVIOUS
    <3>2. \A e \in Days : x[m][e] \in Nat /\ y[m][e] \in Nat
      BY <1>2, <1>3
    <3>3. QED
      BY <3>2, SumType, DaysFinite
  <2>2. QED
    BY <1>5, <2>1
<1>7. p[n] \in Nat /\ q[n] = p[n] + a /\ \A m \in Npcs \ {n} : p[m] = q[m]
  BY <1>3, <1>4, <1>5, <1>6
<1>8. SumOf(q, Npcs) + p[n] = SumOf(p, Npcs) + q[n]
  BY <1>6, <1>7, SumUpdate, Constants
<1>9. SumOf(p, Npcs) \in Nat /\ SumOf(q, Npcs) \in Nat
  BY <1>6, SumType, Constants
<1>10. SumOf(q, Npcs) = SumOf(p, Npcs) + a
  BY <1>7, <1>8, <1>9
<1>11. SilverBurnt = SumOf(p, Npcs) /\ SilverBurnt' = SumOf(q, Npcs)
  BY <1>1, <1>5 DEF SilverBurnt
<1>12. QED
  BY <1>1, <1>2, <1>3, <1>10, <1>11

LEMMA PayWriteLone ==
    ASSUME RecordsInv, RecordsInv', NEW c \in Calls, NEW r, r = call[c], Lone(r),
           PayWrite(c), NEW t, t = call'[c]
    PROVE  Lone(t)'
<1>1. StoreOK /\ StoreOK'
  BY StoreSound
<1>2. /\ r.pc = "payWrite" /\ Keeps(t, r, {"pc"})
      /\ \/ r.op = "transfer" /\ t.pc = "giveRead"
         \/ r.op # "transfer" /\ t.pc = "mintRead"
  BY InvShaped, PayWriteMoves DEF Moves
<1>3. /\ t.op = r.op /\ t.npc = r.npc /\ t.amount = r.amount /\ t.day = r.day
      /\ t.used = r.used
  BY <1>2 DEF Keeps, Fields
<1>4. /\ r.npc \in Npcs /\ r.amount \in Nat /\ r.day \in Days /\ r.used \in Nat
      /\ r.op # "transfer" => r.op = "exchange"
  BY <1>2, RecordsParts, WhichCall DEF Transferring, Exchanging, CallSound
<1>5. r.seen = silver[r.npc] /\ r.amount <= silver[r.npc]
  BY <1>2 DEF Lone, Fresh
<1>6. PICK v : v = NotNegative(r.seen - r.amount)
  OBVIOUS
<1>7. silver[r.npc] \in Nat /\ v \in Nat /\ v = silver[r.npc] - r.amount
  <2>1. silver[r.npc] \in Nat
    BY <1>1, <1>4 DEF StoreOK
  <2>2. QED
    BY <1>4, <1>5, <1>6, <2>1 DEF NotNegative
<1>8. /\ silver' = [silver EXCEPT ![r.npc] = v] /\ rice' = rice
      /\ pool' = pool /\ bets' = bets /\ daily' = daily /\ today' = today /\ host' = host
      /\ r.op = "transfer" => history' = history
      /\ r.op # "transfer" =>
             history' = [history EXCEPT !.exchanged[r.npc][r.day] = @ + r.amount]
  BY <1>6 DEF PayWrite, StorePurse, Me, Records
<1>9. SilverPresent' + silver[r.npc] = SilverPresent + v
      /\ SilverPresent \in Nat /\ SilverPresent' \in Nat
  <2>1. StoreOK /\ r.npc \in Npcs /\ v \in Nat
    BY <1>1, <1>4, <1>7
  <2>2. silver' = [silver EXCEPT ![r.npc] = v] /\ pool' = pool /\ bets' = bets
    BY <1>8
  <2>3. QED
    BY <2>1, <2>2, PurseWritten
<1>10. SilverPresent' = SilverPresent - r.amount
  BY <1>4, <1>7, <1>9
<1>11. Fresh(t)'
  BY <1>2 DEF Fresh, Settling
<1>12. NothingDue(r) /\ SilverDue(r) = 0 /\ RiceDue(r) = 0
  BY <1>2, UndueNothing DEF Undue, NothingDue
<1>13. CASE r.op = "transfer"
  <2>1. t.pc = "giveRead" /\ history' = history
    BY <1>2, <1>8, <1>13
  <2>2. /\ SilverDue(t)' = r.amount /\ RiceDue(t)' = 0
        /\ \A n \in Npcs : /\ StakeDue(t, n) = 0 /\ \A d \in Days : CapDue(t, n, d) = 0
    BY <1>3, <2>1 DEF SilverDue, RiceDue, StakeDue, CapDue
  <2>3. SilverBooks(t)'
    <3>1. SilverPresent' + SilverDue(t)' = SilverPresent + SilverDue(r)
      BY <1>4, <1>9, <1>10, <1>12, <2>2
    <3>2. QED
      BY <1>1, <1>4, <1>8, <1>12, <2>1, <2>2, <3>1, SilverFrame
  <2>4. ~ host.fails => RiceBooks(t)'
    BY <1>1, <1>8, <1>12, <2>1, <2>2, RiceFrame
  <2>5. ~ host.fails => StakeBooks(t)'
    BY <1>8, <1>12, <2>1, <2>2, StakeFrame DEF Lone, NothingDue
  <2>6. ~ host.fails => DayBooks(t)'
    BY <1>8, <1>12, <2>1, <2>2, DayFrame DEF Lone, NothingDue
  <2>7. DayRead(t)'
    BY <1>3, <1>13 DEF DayRead
  <2>8. QED
    BY <1>8, <1>11, <2>3, <2>4, <2>5, <2>6, <2>7 DEF Lone
<1>14. CASE r.op # "transfer"
  <2>1. t.pc = "mintRead" /\ r.op = "exchange"
    BY <1>2, <1>4, <1>14
  <2>2. /\ history'.granted = history.granted /\ history'.harvested = history.harvested
        /\ history'.staked = history.staked
        /\ history'.exchanged[r.npc][r.day] = history.exchanged[r.npc][r.day] + r.amount
        /\ \A m \in Npcs, e \in Days : m # r.npc \/ e # r.day =>
               history'.exchanged[m][e] = history.exchanged[m][e]
        /\ SilverBurnt' = SilverBurnt + r.amount
    BY <1>1, <1>4, <1>8, <1>14, BurntGrows
  <2>3. /\ SilverDue(t)' = 0 /\ RiceDue(t)' = 0 /\ \A n \in Npcs : StakeDue(t, n) = 0
        /\ \A n \in Npcs, d \in Days :
               CapDue(t, n, d) = IF n = r.npc /\ d = r.day THEN r.amount ELSE 0
    BY <1>3, <2>1 DEF SilverDue, RiceDue, StakeDue, CapDue
  <2>4. SilverBooks(t)'
    <3>1. SilverIssued' = SilverIssued
      BY <1>8, <2>2 DEF SilverIssued
    <3>2. SilverPresent' + SilverDue(t)' + SilverBurnt' + SilverIssued =
              SilverPresent + SilverDue(r) + SilverBurnt + SilverIssued'
      BY <1>1, <1>4, <1>9, <1>10, <1>12, <2>2, <2>3, <3>1, BooksType
    <3>3. QED
      BY <1>1, <1>8, <1>12, <2>3, <3>2, SilverBalance DEF Lone
  <2>5. ~ host.fails => RiceBooks(t)'
    BY <1>1, <1>8, <1>12, <2>2, <2>3, RiceFrame
  <2>6. ~ host.fails => StakeBooks(t)'
    BY <1>8, <1>12, <2>2, <2>3, StakeFrame DEF Lone, NothingDue
  <2>7. ~ host.fails => DayRead(t)'
    BY <1>2, <1>3, <1>8, <2>1 DEF Lone, DayRead, UsedOn
  <2>8. ~ host.fails => DayBooks(t)'
    <3>1. SUFFICES ASSUME ~ host.fails PROVE DayBooks(t)'
      OBVIOUS
    <3>2. /\ DayBooks(r) /\ daily[r.npc].day <= r.day /\ r.day <= today
          /\ r.used = UsedOn(r.day, r.npc) /\ r.used + r.amount <= DailyCap
      BY <1>2, <2>1, <3>1 DEF Lone, DayRead
    <3>3. SUFFICES ASSUME NEW n \in Npcs, NEW d \in Days
                   PROVE  /\ daily[n].day <= today
                          /\ history'.exchanged[n][d] <= DailyCap
                          /\ d > today => history'.exchanged[n][d] = 0
                          /\ d >= daily[n].day =>
                                 history'.exchanged[n][d] = UsedOn(d, n) + CapDue(t, n, d)
      BY <1>8, Constants DEF DayBooks, UsedOn, CapDue
    <3>4. /\ daily[n].day <= today /\ history.exchanged[n][d] <= DailyCap
          /\ d > today => history.exchanged[n][d] = 0
          /\ d >= daily[n].day => history.exchanged[n][d] = UsedOn(d, n) + 0
      BY <1>12, <3>2 DEF DayBooks, NothingDue
    <3>5. d \in Nat /\ today \in Nat /\ daily[n].day \in Nat /\ UsedOn(d, n) \in Nat
      BY <1>1, Constants DEF StoreOK, UsedOn
    <3>6. CASE n = r.npc /\ d = r.day
      BY <1>4, <2>2, <2>3, <3>2, <3>4, <3>5, <3>6
    <3>7. CASE n # r.npc \/ d # r.day
      BY <2>2, <2>3, <3>4, <3>5, <3>7
    <3>8. QED
      BY <3>6, <3>7
  <2>9. QED
    BY <1>8, <1>11, <2>4, <2>5, <2>6, <2>7, <2>8 DEF Lone
<1>15. QED
  BY <1>13, <1>14

LEMMA MintWriteLone ==
    ASSUME RecordsInv, NEW c \in Calls, NEW r, r = call[c], Lone(r), MintWrite(c),
           NEW t, t = call'[c]
    PROVE  Lone(t)'
<1>1. /\ UNCHANGED <<silver, rice, Records, history>> /\ Keeps(t, r, {"pc"})
      /\ r.pc = "mintWrite" /\ t.pc = "writeDaily"
  BY InvShaped, MintWriteMoves DEF MintWrite, Moves
<1>2. t.op = r.op /\ t.npc = r.npc /\ t.amount = r.amount /\ t.day = r.day /\ t.used = r.used
  BY <1>1 DEF Keeps, Fields
<1>3. Fresh(t) /\ (~ host.fails => DayRead(t))
  BY <1>1, <1>2 DEF Lone, Fresh, DayRead, Settling
<1>4. /\ SilverDue(t) = SilverDue(r) /\ RiceDue(t) = RiceDue(r)
      /\ \A n \in Npcs : /\ StakeDue(t, n) = StakeDue(r, n)
                         /\ \A d \in Days : CapDue(t, n, d) = CapDue(r, n, d)
  BY <1>1, <1>2 DEF SilverDue, RiceDue, StakeDue, CapDue
<1>5. QED
  BY <1>1, <1>3, <1>4, LoneReads, LoneUnaffected

LEMMA WriteDailyLone ==
    ASSUME RecordsInv, RecordsInv', NEW c \in Calls, NEW r, r = call[c], Lone(r),
           WriteDaily(c)
    PROVE  Lone(IdleCall)'
<1>1. PICK t : t = IdleCall
  OBVIOUS
<1>2. StoreOK /\ StoreOK'
  BY StoreSound
<1>3. r.pc = "writeDaily"
  BY DEF WriteDaily, At
<1>4. /\ r.op = "exchange" /\ r.npc \in Npcs /\ r.amount \in Nat /\ r.day \in Days
      /\ r.used \in Nat
  BY <1>3, RecordsParts, WhichCall DEF Exchanging, CallSound
<1>5. PICK x : x = [day |-> r.day, used |-> r.used + r.amount]
  OBVIOUS
<1>6. /\ silver' = silver /\ rice' = rice /\ daily' = [daily EXCEPT ![r.npc] = x]
      /\ pool' = pool /\ bets' = bets /\ today' = today /\ host' = host /\ history' = history
  BY <1>5 DEF WriteDaily, Me
<1>7. /\ SilverDue(r) = 0 /\ RiceDue(r) = 0 /\ \A n \in Npcs : StakeDue(r, n) = 0
      /\ \A n \in Npcs, d \in Days :
             CapDue(r, n, d) = IF n = r.npc /\ d = r.day THEN r.amount ELSE 0
  BY <1>3 DEF SilverDue, RiceDue, StakeDue, CapDue
<1>8. NothingDue(t) /\ SilverDue(t)' = 0 /\ RiceDue(t)' = 0 /\ Fresh(t)' /\ DayRead(t)'
  BY <1>1, IdleAfter
<1>9. SilverBooks(t)'
  <2>1. SilverPresent' = SilverPresent
    BY <1>6 DEF SilverPresent
  <2>2. QED
    BY <1>2, <1>6, <1>7, <1>8, <2>1, SilverFrame
<1>10. ~ host.fails => RiceBooks(t)'
  BY <1>2, <1>6, <1>7, <1>8, RiceFrame
<1>11. ~ host.fails => StakeBooks(t)'
  BY <1>6, <1>7, <1>8, StakeFrame DEF Lone, NothingDue
<1>12. ~ host.fails => DayBooks(t)'
  <2>1. SUFFICES ASSUME ~ host.fails PROVE DayBooks(t)'
    OBVIOUS
  <2>2. /\ DayBooks(r) /\ daily[r.npc].day <= r.day /\ r.day <= today
        /\ r.used = UsedOn(r.day, r.npc)
    BY <1>3, <1>4, <2>1 DEF Lone, DayRead
  <2>3. /\ daily' \in [Npcs -> [day: Days, used: Nat]] /\ daily'[r.npc] = x
        /\ \A n \in Npcs \ {r.npc} : daily'[n] = daily[n]
    BY <1>2, <1>4, <1>6 DEF StoreOK
  <2>4. SUFFICES ASSUME NEW n \in Npcs, NEW d \in Days
                 PROVE  /\ daily'[n].day <= today
                        /\ history.exchanged[n][d] <= DailyCap
                        /\ d > today => history.exchanged[n][d] = 0
                        /\ d >= daily'[n].day =>
                               history.exchanged[n][d] = UsedOn(d, n)' + 0
    BY <1>6, <1>8, Constants DEF DayBooks, NothingDue, CapDue
  <2>5. /\ daily[n].day <= today /\ history.exchanged[n][d] <= DailyCap
        /\ d > today => history.exchanged[n][d] = 0
        /\ d >= daily[n].day =>
               history.exchanged[n][d] = UsedOn(d, n) + CapDue(r, n, d)
    BY <2>2 DEF DayBooks
  <2>6. d \in Nat /\ today \in Nat /\ daily[n].day \in Nat /\ UsedOn(d, n) \in Nat
        /\ r.day \in Nat /\ daily[r.npc].day \in Nat
    BY <1>2, <1>4, Constants DEF StoreOK, UsedOn
  <2>7. CASE n # r.npc
    <3>1. daily'[n] = daily[n] /\ UsedOn(d, n)' = UsedOn(d, n) /\ CapDue(r, n, d) = 0
      BY <1>7, <2>3, <2>7 DEF UsedOn
    <3>2. QED
      BY <2>5, <3>1
  <2>8. CASE n = r.npc
    <3>1. daily'[n].day = r.day /\ UsedOn(d, n)' = (IF d = r.day THEN r.used + r.amount ELSE 0)
      BY <1>5, <2>3, <2>8 DEF UsedOn
    <3>2. CASE d = r.day
      BY <1>4, <1>7, <2>2, <2>5, <2>6, <2>8, <3>1, <3>2
    <3>3. CASE d # r.day
      <4>1. CapDue(r, n, d) = 0 /\ UsedOn(d, n)' = 0
        BY <1>7, <3>1, <3>3
      <4>2. d >= r.day => daily[n].day # d /\ d >= daily[n].day
        BY <2>2, <2>6, <2>8, <3>3
      <4>3. d >= r.day => history.exchanged[n][d] = 0
        BY <2>5, <4>1, <4>2 DEF UsedOn
      <4>4. QED
        BY <2>2, <2>5, <2>8, <3>1, <4>1, <4>3
    <3>4. QED
      BY <3>2, <3>3
  <2>9. QED
    BY <2>7, <2>8
<1>13. QED
  BY <1>1, <1>6, <1>8, <1>9, <1>10, <1>11, <1>12 DEF Lone

LEMMA WriteRiceLone ==
    ASSUME RecordsInv, RecordsInv', NEW c \in Calls, NEW r, r = call[c], Lone(r),
           WriteRice(c), NEW t, t = call'[c]
    PROVE  Lone(t)'
<1>1. StoreOK /\ StoreOK'
  BY StoreSound
<1>2. r.pc = "writeRice" /\ t.pc = "writeSilver" /\ Keeps(t, r, {"pc"})
  BY InvShaped, WriteRiceMoves DEF Moves
<1>3. t.op = r.op /\ t.npc = r.npc /\ t.pool = r.pool /\ t.seen = r.seen
  BY <1>2 DEF Keeps, Fields
<1>4. r.op = "trade" /\ r.npc \in Npcs /\ r.rice \in Nat /\ OnCurve(r.pool)
  BY <1>2, RecordsParts, WhichCall DEF Trading, CallSound
<1>5. /\ r.rice + r.pool.rice = rice[r.npc] + pool.rice
      /\ r.seen + r.pool.silver = silver[r.npc] + pool.silver
  BY <1>2, <1>4 DEF Lone, Fresh
<1>6. /\ rice' = [rice EXCEPT ![r.npc] = r.rice] /\ silver' = silver
      /\ pool' = pool /\ bets' = bets /\ daily' = daily /\ today' = today /\ host' = host
      /\ history' = history
  BY DEF WriteRice, Me, Records
<1>7. rice[r.npc] \in Nat /\ pool.rice \in Nat /\ r.pool.rice \in Nat
  BY <1>1, <1>4 DEF StoreOK, OnCurve
<1>8. SumOf(rice', Npcs) + rice[r.npc] = SumOf(rice, Npcs) + r.rice /\ SumOf(rice', Npcs) \in Nat
  BY <1>1, <1>4, <1>6, StallChanges
<1>9. NothingDue(r) /\ SilverDue(r) = 0 /\ RiceDue(r) = 0
  BY <1>2, UndueNothing DEF Undue, NothingDue
<1>10. /\ SilverDue(t)' = 0 /\ RiceDue(t)' = r.pool.rice - pool.rice
       /\ \A n \in Npcs : StakeDue(t, n) = 0 /\ \A d \in Days : CapDue(t, n, d) = 0
  BY <1>2, <1>3, <1>4, <1>6 DEF SilverDue, RiceDue, StakeDue, CapDue
<1>11. Fresh(t)' /\ DayRead(t)'
  BY <1>2, <1>3, <1>4, <1>5, <1>6 DEF Fresh, Settling, DayRead
<1>12. SilverBooks(t)'
  <2>1. SilverPresent' = SilverPresent
    BY <1>6 DEF SilverPresent
  <2>2. QED
    BY <1>1, <1>6, <1>9, <1>10, <2>1, SilverFrame
<1>13. ~ host.fails => RiceBooks(t)'
  <2>1. RicePresent' = SumOf(rice', Npcs) + pool.rice
    BY <1>6 DEF RicePresent
  <2>2. RicePresent' + RiceDue(t)' = RicePresent + RiceDue(r)
    BY <1>1, <1>4, <1>5, <1>7, <1>8, <1>9, <1>10, <2>1, BooksType DEF RicePresent
  <2>3. RicePresent' + RiceDue(t)' + history.harvested =
            RicePresent + RiceDue(r) + history'.harvested
    BY <1>6, <2>2
  <2>4. RiceDue(r) \in Int /\ RiceDue(t)' \in Int
    BY <1>7, <1>9, <1>10
  <2>5. QED
    BY <1>1, <1>6, <2>3, <2>4, RiceBalance DEF Lone
<1>14. ~ host.fails => StakeBooks(t)'
  BY <1>6, <1>9, <1>10, StakeFrame DEF Lone, NothingDue
<1>15. ~ host.fails => DayBooks(t)'
  BY <1>6, <1>9, <1>10, DayFrame DEF Lone, NothingDue
<1>16. QED
  BY <1>6, <1>11, <1>12, <1>13, <1>14, <1>15 DEF Lone

LEMMA StakesType ==
    ASSUME NEW b, BetsSound(b), NEW n \in Npcs
    PROVE  StakeOf(b, n) \in Nat /\ Total(b) \in Nat
<1>1. PICK f, g : /\ f = [m \in Markets |-> b[m].stakes[n]["YES"] + b[m].stakes[n]["NO"]]
                  /\ g = [m \in Markets |-> Staked(b[m])]
  OBVIOUS
<1>2. \A m \in Markets : b[m] \in BettingMarket
  BY DEF BetsSound
<1>3. \A m \in Markets : f[m] \in Nat /\ g[m] \in Nat
  BY <1>1, <1>2 DEF BettingMarket, Sides, Staked
<1>4. QED
  BY <1>1, <1>3, SumType, Constants DEF StakeOf, Total

LEMMA WriteTradeSilverLone ==
    ASSUME RecordsInv, RecordsInv', NEW c \in Calls, NEW r, r = call[c], Lone(r),
           WriteSilver(c), r.op = "trade", NEW t, t = call'[c]
    PROVE  Lone(t)'
<1>1. StoreOK /\ StoreOK'
  BY StoreSound
<1>2. r.pc = "writeSilver" /\ t.pc = "writePool" /\ Keeps(t, r, {"pc"})
  BY InvShaped, WriteSilverMoves DEF Moves
<1>3. t.op = r.op /\ t.npc = r.npc /\ t.pool = r.pool
  BY <1>2 DEF Keeps, Fields
<1>4. r.npc \in Npcs /\ r.seen \in Nat /\ OnCurve(r.pool)
  BY <1>2, RecordsParts, WhichCall DEF Trading, Betting, CallSound
<1>5. r.seen + r.pool.silver = silver[r.npc] + pool.silver
  BY <1>2 DEF Lone, Fresh
<1>6. /\ silver' = [silver EXCEPT ![r.npc] = r.seen] /\ rice' = rice
      /\ pool' = pool /\ bets' = bets /\ daily' = daily /\ today' = today /\ host' = host
      /\ history' = history
  BY DEF WriteSilver, StorePurse, Me, Records
<1>7. pool.silver \in Nat /\ r.pool.silver \in Nat /\ pool.rice \in Nat /\ r.pool.rice \in Nat
  BY <1>1, <1>4 DEF StoreOK, OnCurve
<1>8. SilverPresent' + silver[r.npc] = SilverPresent + r.seen
      /\ silver[r.npc] \in Nat /\ SilverPresent \in Nat /\ SilverPresent' \in Nat
  BY <1>1, <1>4, <1>6, PurseWritten
<1>9. /\ SilverDue(r) = 0 /\ RiceDue(r) = r.pool.rice - pool.rice
      /\ SilverDue(t)' = r.pool.silver - pool.silver /\ RiceDue(t)' = RiceDue(r)
      /\ \A n \in Npcs : /\ StakeDue(t, n) = StakeDue(r, n)
                         /\ \A d \in Days : CapDue(t, n, d) = CapDue(r, n, d)
  BY <1>2, <1>3, <1>6 DEF SilverDue, RiceDue, StakeDue, CapDue
<1>10. Fresh(t)' /\ DayRead(t)'
  BY <1>2, <1>3 DEF Fresh, Settling, DayRead
<1>11. SilverBooks(t)'
  <2>1. SilverPresent' + SilverDue(t)' = SilverPresent + SilverDue(r)
    BY <1>4, <1>5, <1>7, <1>8, <1>9
  <2>2. SilverDue(r) \in Int /\ SilverDue(t)' \in Int
    BY <1>7, <1>9
  <2>3. QED
    BY <1>1, <1>6, <2>1, <2>2, SilverFrame
<1>12. ~ host.fails => RiceBooks(t)'
  <2>1. RicePresent' = RicePresent
    BY <1>6 DEF RicePresent
  <2>2. RicePresent' + RiceDue(t)' + history.harvested =
            RicePresent + RiceDue(r) + history'.harvested
    BY <1>6, <1>9, <2>1
  <2>3. RiceDue(r) \in Int /\ RiceDue(t)' \in Int
    BY <1>7, <1>9
  <2>4. QED
    BY <1>1, <1>6, <2>2, <2>3, RiceBalance DEF Lone
<1>13. ~ host.fails => StakeBooks(t)'
  BY <1>6, <1>9, StakeFrame DEF Lone
<1>14. ~ host.fails => DayBooks(t)'
  BY <1>6, <1>9, DayFrame DEF Lone
<1>15. QED
  BY <1>6, <1>10, <1>11, <1>12, <1>13, <1>14 DEF Lone

LEMMA WriteBetSilverLone ==
    ASSUME RecordsInv, RecordsInv', NEW c \in Calls, NEW r, r = call[c], Lone(r),
           WriteSilver(c), r.op # "trade", NEW t, t = call'[c]
    PROVE  Lone(t)'
<1>1. StoreOK /\ StoreOK'
  BY StoreSound
<1>2. r.pc = "writeSilver" /\ t.pc = "writeBets" /\ Keeps(t, r, {"pc"})
  BY InvShaped, WriteSilverMoves DEF Moves
<1>3. t.op = r.op /\ t.npc = r.npc /\ t.bets = r.bets /\ t.amount = r.amount
  BY <1>2 DEF Keeps, Fields
<1>4. r.op = "bet" /\ r.npc \in Npcs /\ r.seen \in Nat /\ r.amount \in Nat
  BY <1>2, RecordsParts, WhichCall DEF Trading, Betting, CallSound
<1>5. /\ r.seen + r.amount = silver[r.npc]
      /\ Total(r.bets) = Total(bets) + r.amount
      /\ \A n \in Npcs : StakeOf(r.bets, n) =
             StakeOf(bets, n) + (IF n = r.npc THEN r.amount ELSE 0)
  BY <1>2, <1>4 DEF Lone, Fresh
<1>6. PICK s : s = [history.staked EXCEPT ![r.npc] = @ + r.amount]
  OBVIOUS
<1>7. /\ silver' = [silver EXCEPT ![r.npc] = r.seen] /\ rice' = rice
      /\ pool' = pool /\ bets' = bets /\ daily' = daily /\ today' = today /\ host' = host
      /\ history' = [history EXCEPT !.staked = s]
  BY <1>6 DEF WriteSilver, StorePurse, Me, Records
<1>8. /\ history'.staked = s /\ history'.granted = history.granted
      /\ history'.harvested = history.harvested /\ history'.exchanged = history.exchanged
      /\ history.staked \in [Npcs -> Nat]
  BY <1>1, <1>7 DEF StoreOK, HistoryOK
<1>9. SilverPresent' + silver[r.npc] = SilverPresent + r.seen
      /\ silver[r.npc] \in Nat /\ SilverPresent \in Nat /\ SilverPresent' \in Nat
  BY <1>1, <1>4, <1>7, PurseWritten
<1>10. /\ SilverDue(r) = 0 /\ RiceDue(r) = 0 /\ \A n \in Npcs : StakeDue(r, n) = 0
       /\ SilverDue(t)' = r.amount /\ RiceDue(t)' = 0
       /\ \A n \in Npcs : /\ StakeDue(t, n) = IF n = r.npc THEN r.amount ELSE 0
                          /\ \A d \in Days : CapDue(t, n, d) = CapDue(r, n, d)
  BY <1>2, <1>3, <1>4 DEF SilverDue, RiceDue, StakeDue, CapDue
<1>11. Fresh(t)' /\ DayRead(t)'
  <2>1. \A n \in Npcs : StakeOf(bets, n)' = StakeOf(bets, n)
    BY <1>7 DEF StakeOf
  <2>2. Total(bets)' = Total(bets)
    BY <1>7 DEF Total
  <2>3. QED
    BY <1>2, <1>3, <1>4, <1>5, <2>1, <2>2 DEF Fresh, Settling, DayRead
<1>12. SilverBooks(t)'
  <2>1. SilverPresent' + SilverDue(t)' = SilverPresent + SilverDue(r)
    BY <1>4, <1>5, <1>9, <1>10
  <2>2. QED
    BY <1>1, <1>4, <1>7, <1>8, <1>10, <2>1, SilverFrame
<1>13. ~ host.fails => RiceBooks(t)'
  BY <1>1, <1>7, <1>8, <1>10, RiceFrame
<1>14. ~ host.fails => StakeBooks(t)'
  <2>1. SUFFICES ASSUME ~ host.fails, NEW n \in Npcs
                 PROVE  s[n] = StakeOf(bets, n) + StakeDue(t, n)
    BY <1>7, <1>8 DEF StakeBooks, StakeOf, StakeDue
  <2>2. history.staked[n] = StakeOf(bets, n) + 0 /\ history.staked[n] \in Nat
    BY <1>8, <1>10, <2>1 DEF Lone, StakeBooks
  <2>3. s[n] = history.staked[n] + (IF n = r.npc THEN r.amount ELSE 0)
    BY <1>4, <1>6, <1>8
  <2>4. StakeOf(bets, n) \in Nat
    BY <1>1, <1>4, StakesType DEF StoreOK
  <2>5. QED
    BY <1>4, <1>10, <2>2, <2>3, <2>4
<1>15. ~ host.fails => DayBooks(t)'
  BY <1>7, <1>8, <1>10, DayFrame DEF Lone
<1>16. QED
  BY <1>7, <1>11, <1>12, <1>13, <1>14, <1>15 DEF Lone

LEMMA WritePoolLone ==
    ASSUME RecordsInv, RecordsInv', NEW c \in Calls, NEW r, r = call[c], Lone(r),
           WritePool(c)
    PROVE  Lone(IdleCall)'
<1>1. PICK t : t = IdleCall
  OBVIOUS
<1>2. StoreOK /\ StoreOK'
  BY StoreSound
<1>3. r.pc = "writePool"
  BY DEF WritePool, At
<1>4. r.op = "trade" /\ OnCurve(r.pool)
  BY <1>3, RecordsParts, WhichCall DEF Trading
<1>5. /\ silver' = silver /\ rice' = rice /\ pool' = r.pool /\ bets' = bets
      /\ daily' = daily /\ today' = today /\ host' = host /\ history' = history
  BY DEF WritePool
<1>6. pool.silver \in Nat /\ r.pool.silver \in Nat /\ pool.rice \in Nat /\ r.pool.rice \in Nat
  BY <1>2, <1>4 DEF StoreOK, OnCurve
<1>7. /\ SilverDue(r) = r.pool.silver - pool.silver /\ RiceDue(r) = r.pool.rice - pool.rice
      /\ \A n \in Npcs : StakeDue(r, n) = 0 /\ \A d \in Days : CapDue(r, n, d) = 0
  BY <1>3, <1>4 DEF SilverDue, RiceDue, StakeDue, CapDue
<1>8. /\ ~ host.fails => StakeBooks(t)' /\ DayBooks(t)'
      /\ Fresh(t)' /\ DayRead(t)' /\ SilverDue(t)' = 0 /\ RiceDue(t)' = 0
  BY <1>1, <1>2, <1>5, <1>7, EndFrame
<1>9. SilverBooks(t)'
  <2>1. SilverPresent' = SumOf(silver, Npcs) + r.pool.silver + Total(bets)
    BY <1>5 DEF SilverPresent, Total
  <2>2. SilverPresent' + SilverDue(t)' = SilverPresent + SilverDue(r)
    BY <1>2, <1>6, <1>7, <1>8, <2>1, SilverSum, BooksType
  <2>3. SilverDue(r) \in Int /\ SilverDue(t)' \in Int
    BY <1>6, <1>7, <1>8
  <2>4. QED
    BY <1>2, <1>5, <2>2, <2>3, SilverFrame
<1>10. ~ host.fails => RiceBooks(t)'
  <2>1. RicePresent' = SumOf(rice, Npcs) + r.pool.rice
    BY <1>5 DEF RicePresent
  <2>2. RicePresent' + RiceDue(t)' = RicePresent + RiceDue(r)
    BY <1>2, <1>6, <1>7, <1>8, <2>1, BooksType DEF RicePresent
  <2>3. RicePresent' + RiceDue(t)' + history.harvested =
            RicePresent + RiceDue(r) + history'.harvested
    BY <1>5, <2>2
  <2>4. RiceDue(r) \in Int /\ RiceDue(t)' \in Int
    BY <1>6, <1>7, <1>8
  <2>5. QED
    BY <1>2, <1>5, <2>3, <2>4, RiceBalance DEF Lone
<1>11. QED
  BY <1>1, <1>5, <1>8, <1>9, <1>10 DEF Lone

\* A call that ends with the record of the bets.
LEMMA EndBets ==
    ASSUME StoreOK, StoreOK', NEW r, Lone(r), silver' = silver, rice' = rice, pool' = pool,
           daily' = daily, today' = today, host' = host, history' = history,
           SilverDue(r) \in Int, Total(bets') = Total(bets) + SilverDue(r), RiceDue(r) = 0,
           \A n \in Npcs : /\ StakeOf(bets', n) = StakeOf(bets, n) + StakeDue(r, n)
                           /\ \A d \in Days : CapDue(r, n, d) = 0
    PROVE  Lone(IdleCall)'
<1>1. PICK t : t = IdleCall
  OBVIOUS
<1>2. NothingDue(t) /\ SilverDue(t)' = 0 /\ RiceDue(t)' = 0 /\ Fresh(t)' /\ DayRead(t)'
  BY <1>1, IdleAfter
<1>3. SilverBooks(t)'
  <2>1. SilverPresent' = SumOf(silver, Npcs) + pool.silver + Total(bets')
    BY DEF SilverPresent, Total
  <2>2. SilverPresent' + SilverDue(t)' = SilverPresent + SilverDue(r)
    BY <1>2, <2>1, SilverSum, BooksType
  <2>3. QED
    BY <1>2, <2>2, SilverFrame
<1>4. ~ host.fails => RiceBooks(t)'
  BY <1>2, RiceFrame
<1>5. ~ host.fails => DayBooks(t)'
  BY <1>2, DayFrame DEF Lone, NothingDue
<1>6. ~ host.fails => StakeBooks(t)'
  <2>1. SUFFICES ASSUME ~ host.fails, NEW n \in Npcs
                 PROVE  history.staked[n] = StakeOf(bets', n) + StakeDue(t, n)
    BY DEF StakeBooks, StakeOf, StakeDue
  <2>2. history.staked[n] = StakeOf(bets', n) /\ history.staked[n] \in Nat
    BY <2>1 DEF Lone, StakeBooks, StoreOK, HistoryOK
  <2>3. StakeDue(t, n) = 0
    BY <1>2 DEF NothingDue
  <2>4. QED
    BY <2>2, <2>3
<1>7. QED
  BY <1>1, <1>2, <1>3, <1>4, <1>5, <1>6 DEF Lone

LEMMA WriteBetsLone ==
    ASSUME RecordsInv, RecordsInv', NEW c \in Calls, NEW r, r = call[c], Lone(r),
           WriteBets(c)
    PROVE  Lone(IdleCall)'
<1>1. StoreOK /\ StoreOK'
  BY StoreSound
<1>2. r.pc = "writeBets"
  BY DEF WriteBets, At
<1>3. /\ OpeningBet(r) \/ Betting(r)
      /\ r.amount \in Nat
  BY <1>2, RecordsParts, WhichCall DEF CallSound
<1>4. /\ silver' = silver /\ rice' = rice /\ pool' = pool /\ bets' = r.bets
      /\ daily' = daily /\ today' = today /\ host' = host /\ history' = history
  BY DEF WriteBets
<1>5. /\ RiceDue(r) = 0 /\ SilverDue(r) = IF r.op = "bet" THEN r.amount ELSE 0
      /\ \A n \in Npcs :
             /\ StakeDue(r, n) = IF r.op = "bet" /\ n = r.npc THEN r.amount ELSE 0
             /\ \A d \in Days : CapDue(r, n, d) = 0
  BY <1>2, <1>3 DEF SilverDue, RiceDue, StakeDue, CapDue, OpeningBet, Betting
<1>6. Total(bets) \in Nat /\ \A n \in Npcs : StakeOf(bets, n) \in Nat
  BY <1>1, BooksType, StakesType DEF StoreOK
<1>7. /\ Total(r.bets) = Total(bets) + SilverDue(r)
      /\ \A n \in Npcs : StakeOf(r.bets, n) = StakeOf(bets, n) + StakeDue(r, n)
  <2>1. CASE OpeningBet(r)
    <3>1. r.op = "open"
      BY <2>1 DEF OpeningBet
    <3>2. /\ Total(r.bets) = Total(bets)
          /\ \A n \in Npcs : StakeOf(r.bets, n) = StakeOf(bets, n)
      BY <1>2, <3>1 DEF Lone, Fresh
    <3>3. QED
      BY <1>5, <1>6, <3>1, <3>2
  <2>2. CASE Betting(r)
    <3>1. r.op = "bet"
      BY <2>2 DEF Betting
    <3>2. /\ Total(r.bets) = Total(bets) + r.amount
          /\ \A n \in Npcs : StakeOf(r.bets, n) =
                 StakeOf(bets, n) + (IF n = r.npc THEN r.amount ELSE 0)
      BY <1>2, <3>1 DEF Lone, Fresh
    <3>3. QED
      BY <1>5, <3>1, <3>2
  <2>3. QED
    BY <1>3, <2>1, <2>2
<1>8. SilverDue(r) \in Int
  BY <1>3, <1>5
<1>9. QED
  BY <1>1, <1>4, <1>5, <1>7, <1>8, EndBets

LEMMA CloseMarketLone ==
    ASSUME RecordsInv, RecordsInv', NEW c \in Calls, NEW r, r = call[c], Lone(r),
           CloseMarket(c)
    PROVE  Lone(IdleCall)'
<1>1. StoreOK /\ StoreOK'
  BY StoreSound
<1>2. r.pc = "closeMarket"
  BY DEF CloseMarket, At
<1>3. r.market \in Markets /\ BetsSound(r.bets) /\ r.op = "resolve"
  BY <1>2, RecordsParts, WhichCall DEF Resolving, Settling
<1>4. r.bets = bets
  BY <1>2 DEF Lone, Fresh, Settling
<1>5. /\ silver' = silver /\ rice' = rice /\ pool' = pool /\ bets' = Closed(bets, r.market)
      /\ daily' = daily /\ today' = today /\ host' = host /\ history' = history
  BY <1>4 DEF CloseMarket, Closed
<1>6. /\ Total(bets') + Staked(bets[r.market]) = Total(bets)
      /\ \A n \in Npcs : StakeOf(bets', n) = StakeOf(bets, n)
  BY <1>1, <1>3, <1>5, ClosedBets DEF StoreOK
<1>7. Staked(bets[r.market]) \in Nat
  BY <1>3, <1>4 DEF BetsSound, BettingMarket, Staked, Sides
<1>8. Total(bets) \in Nat /\ Total(bets') \in Nat /\ \A n \in Npcs : StakeOf(bets, n) \in Nat
  <2>1. (BetsSound(bets))'
    BY <1>1 DEF StoreOK
  <2>2. Total(bets') \in Nat
    <3>1. \A m \in Markets : bets'[m] \in BettingMarket
      BY <2>1 DEF BetsSound
    <3>2. PICK g : g = [m \in Markets |-> Staked(bets'[m])]
      OBVIOUS
    <3>3. \A m \in Markets : g[m] \in Nat
      BY <3>1, <3>2 DEF BettingMarket, Sides, Staked
    <3>4. QED
      BY <3>2, <3>3, SumType, Constants DEF Total
  <2>3. QED
    BY <1>1, <2>2, BooksType, StakesType DEF StoreOK
<1>9. /\ SilverDue(r) = 0 - Staked(bets[r.market]) /\ RiceDue(r) = 0
      /\ \A n \in Npcs : StakeDue(r, n) = 0 /\ \A d \in Days : CapDue(r, n, d) = 0
  BY <1>2, <1>3, <1>4 DEF SilverDue, RiceDue, StakeDue, CapDue
<1>10. Total(bets') = Total(bets) + SilverDue(r) /\ SilverDue(r) \in Int
  BY <1>6, <1>7, <1>8, <1>9
<1>11. \A n \in Npcs : StakeOf(bets', n) = StakeOf(bets, n) + StakeDue(r, n)
  BY <1>6, <1>8, <1>9
<1>12. QED
  BY <1>1, <1>5, <1>9, <1>10, <1>11, EndBets

LEMMA PayStakerLone ==
    ASSUME RecordsInv, RecordsInv', NEW c \in Calls, NEW r, r = call[c], Lone(r),
           NEW n \in Npcs, PayStaker(c, n), NEW t, t = call'[c]
    PROVE  Lone(t)'
<1>1. StoreOK /\ StoreOK'
  BY StoreSound
<1>2. PICK b, P : b = r.bets[r.market] /\ P = [m \in Npcs |-> PayoutOf(r, m)]
  OBVIOUS
<1>3. /\ r.pc = "payStakers" /\ n \in r.left /\ t.left = r.left \ {n}
      /\ Keeps(t, r, {"pc", "left"})
      /\ \/ r.left = {n} /\ t.pc = "closeMarket"
         \/ r.left # {n} /\ t.pc = "payStakers"
  BY InvShaped, PayStakerMoves DEF Moves
<1>4. /\ t.op = r.op /\ t.market = r.market /\ t.bets = r.bets /\ t.side = r.side
      /\ t.purses = r.purses
  BY <1>3 DEF Keeps, Fields
<1>5. /\ r.op = "resolve" /\ r.side \in Sides /\ r.purses \in [Npcs -> Nat]
      /\ r.left \subseteq Stakers(b) /\ Stakers(b) \subseteq Npcs
      /\ b \in BettingMarket /\ MarketSound(b) /\ b.status = "open" /\ WholePayouts(b)
  <2>1. Resolving(r)
    BY <1>3, RecordsParts, WhichCall DEF Settling
  <2>2. QED
    BY <1>2, <1>3, <2>1 DEF Resolving, BetsSound, Stakers
<1>6. /\ r.bets = bets
      /\ \A m \in r.left : r.purses[m] = silver[m] + PayoutOf(r, m)
  BY <1>3 DEF Lone, Fresh, Settling
<1>7. PICK v : v = r.purses[n]
  OBVIOUS
<1>8. /\ silver' = [silver EXCEPT ![n] = v] /\ rice' = rice
      /\ pool' = pool /\ bets' = bets /\ daily' = daily /\ today' = today /\ host' = host
      /\ history' = history
  BY <1>7 DEF PayStaker, StorePurse, Records
<1>9. v \in Nat /\ v = silver[n] + PayoutOf(r, n)
  BY <1>3, <1>5, <1>6, <1>7
<1>10. /\ SilverPresent' + silver[n] = SilverPresent + v
       /\ silver[n] \in Nat /\ SilverPresent \in Nat /\ SilverPresent' \in Nat
       /\ \A m \in Npcs \ {n} : silver'[m] = silver[m]
  BY <1>1, <1>8, <1>9, PurseWritten
<1>11. /\ \A m \in Npcs : P[m] \in Nat
       /\ SumOf(P, Stakers(b)) = Staked(b) /\ Staked(b) \in Nat
  <2>1. /\ \A m \in Npcs : Payout(b, r.side, m) \in Nat
        /\ SumOf([m \in Npcs |-> Payout(b, r.side, m)], Stakers(b)) = Staked(b)
        /\ Staked(b) \in Nat
    BY <1>5, PayoutsAddUp
  <2>2. P = [m \in Npcs |-> Payout(b, r.side, m)]
    BY <1>2 DEF PayoutOf
  <2>3. QED
    BY <2>1, <2>2
<1>12. PICK S : S = Served(r)
  OBVIOUS
<1>13. Served(t) = S \cup {n} /\ n \notin S /\ S \subseteq Npcs
  BY <1>2, <1>3, <1>4, <1>5, <1>12 DEF Served
<1>14. /\ SumOf(P, S) \in Nat /\ SumOf(P, S \cup {n}) = SumOf(P, S) + P[n]
       /\ SumOf(P, S \cup {n}) \in Nat
  <2>1. IsFiniteSet(S) /\ IsFiniteSet({n}) /\ S \cap {n} = {} /\ IsFiniteSet(S \cup {n})
    BY <1>13, Constants, FS_Subset, FS_Singleton, FS_AddElement
  <2>2. SumOf(P, {n}) = P[n]
    BY <1>11, SumSingleton
  <2>3. \A m \in S \cup {n} : P[m] \in Nat
    BY <1>11, <1>13
  <2>4. SumOf(P, S \cup {n}) = SumOf(P, S) + SumOf(P, {n})
    BY <2>1, <2>3, SumUnion
  <2>5. SumOf(P, S) \in Nat /\ SumOf(P, S \cup {n}) \in Nat
    BY <2>1, <2>3, SumType
  <2>6. QED
    BY <2>2, <2>4, <2>5
<1>15. /\ SilverDue(r) = 0 - SumOf(P, S) /\ RiceDue(r) = 0
       /\ \A m \in Npcs : StakeDue(r, m) = 0 /\ \A d \in Days : CapDue(r, m, d) = 0
  BY <1>2, <1>3, <1>5, <1>12 DEF SilverDue, RiceDue, StakeDue, CapDue
<1>16. /\ RiceDue(t)' = 0
       /\ \A m \in Npcs : StakeDue(t, m) = 0 /\ \A d \in Days : CapDue(t, m, d) = 0
  BY <1>3, <1>4, <1>5 DEF RiceDue, StakeDue, CapDue
<1>17. SilverDue(t)' = 0 - SumOf(P, S \cup {n})
  <2>1. CASE r.left = {n}
    <3>1. S \cup {n} = Stakers(b)
      BY <1>2, <1>5, <1>12, <2>1 DEF Served
    <3>2. t.pc = "closeMarket" /\ t.bets[t.market] = b
      BY <1>2, <1>3, <1>4, <2>1
    <3>3. SilverDue(t)' = 0 - Staked(b)
      BY <3>2 DEF SilverDue
    <3>4. QED
      BY <1>11, <3>1, <3>3
  <2>2. CASE r.left # {n}
    <3>1. t.pc = "payStakers" /\ P = [m \in Npcs |-> PayoutOf(t, m)]
      BY <1>2, <1>3, <1>4, <2>2 DEF PayoutOf
    <3>2. SilverDue(t)' = 0 - SumOf(P, Served(t))
      BY <3>1, Zenon DEF SilverDue, Served, Stakers, PayoutOf, Payout, Staked
    <3>3. QED
      BY <1>13, <3>2
  <2>3. QED
    BY <2>1, <2>2
<1>18. Fresh(t)' /\ DayRead(t)'
  <2>1. \A m \in t.left : t.purses[m] = silver'[m] + PayoutOf(t, m)
    <3>1. SUFFICES ASSUME NEW m \in t.left
                   PROVE  t.purses[m] = silver'[m] + PayoutOf(t, m)
      OBVIOUS
    <3>2. m \in r.left /\ m # n /\ m \in Npcs
      BY <1>3, <1>5
    <3>3. PayoutOf(t, m) = PayoutOf(r, m)
      BY <1>4 DEF PayoutOf
    <3>4. QED
      BY <1>4, <1>6, <1>10, <3>2, <3>3
  <2>2. t.bets = bets'
    BY <1>4, <1>6, <1>8
  <2>3. \A m \in t.left : PayoutOf(t, m)' = PayoutOf(t, m)
    BY DEF PayoutOf, Payout, Staked
  <2>4. QED
    BY <1>3, <1>4, <1>5, <2>1, <2>2, <2>3 DEF Fresh, Settling, DayRead
<1>19. SilverBooks(t)'
  <2>1. P[n] = PayoutOf(r, n)
    BY <1>2
  <2>2. SilverPresent' + SilverDue(t)' = SilverPresent + SilverDue(r)
    BY <1>9, <1>10, <1>11, <1>14, <1>15, <1>17, <2>1
  <2>3. SilverDue(r) \in Int /\ SilverDue(t)' \in Int
    BY <1>14, <1>15, <1>17
  <2>4. QED
    BY <1>1, <1>8, <2>2, <2>3, SilverFrame
<1>20. ~ host.fails => RiceBooks(t)'
  BY <1>1, <1>8, <1>15, <1>16, RiceFrame
<1>21. ~ host.fails => StakeBooks(t)'
  BY <1>8, <1>15, <1>16, StakeFrame DEF Lone
<1>22. ~ host.fails => DayBooks(t)'
  BY <1>8, <1>15, <1>16, DayFrame DEF Lone
<1>23. QED
  BY <1>8, <1>18, <1>19, <1>20, <1>21, <1>22 DEF Lone

LEMMA NewDayLone ==
    ASSUME RecordsInv, NewDay, NEW t, Lone(t),
           t.pc \in {"readDaily", "payRead", "payWrite", "mintRead", "mintWrite", "writeDaily"}
               => t.day \in Days
    PROVE  Lone(t)'
<1>1. /\ silver' = silver /\ rice' = rice /\ pool' = pool /\ bets' = bets
      /\ daily' = daily /\ today' = today + 1 /\ host' = host /\ history' = history
  BY DEF NewDay
<1>2. today \in Nat /\ \A n \in Npcs : daily[n].day \in Nat
  BY RecordsParts, Constants DEF StoreOK
<1>3. Fresh(t)'
  BY <1>1 DEF Fresh, Lone
<1>4. SilverBooks(t)'
  BY <1>1 DEF SilverBooks, TakesFirst, SilverPresent, SilverDue, SilverIssued, SilverBurnt, Lone
<1>5. ~ host.fails => RiceBooks(t)'
  BY <1>1 DEF RiceBooks, RicePresent, RiceDue, Lone
<1>6. ~ host.fails => StakeBooks(t)'
  BY <1>1 DEF StakeBooks, Lone
<1>7. ~ host.fails => DayBooks(t)'
  <2>1. SUFFICES ASSUME ~ host.fails, NEW n \in Npcs, NEW d \in Days
                 PROVE  /\ daily[n].day <= today + 1
                        /\ history.exchanged[n][d] <= DailyCap
                        /\ d > today + 1 => history.exchanged[n][d] = 0
                        /\ d >= daily[n].day =>
                               history.exchanged[n][d] = UsedOn(d, n) + CapDue(t, n, d)
    BY <1>1, Constants DEF DayBooks, UsedOn, CapDue
  <2>2. /\ daily[n].day <= today
        /\ history.exchanged[n][d] <= DailyCap
        /\ d > today => history.exchanged[n][d] = 0
        /\ d >= daily[n].day =>
               history.exchanged[n][d] = UsedOn(d, n) + CapDue(t, n, d)
    BY <2>1 DEF Lone, DayBooks
  <2>3. d \in Nat
    BY Constants
  <2>4. QED
    BY <1>2, <2>2, <2>3
<1>8. ~ host.fails => DayRead(t)'
  <2>1. t.day \in Days /\ t.day <= today => t.day <= today + 1
    <3>1. SUFFICES ASSUME t.day \in Days, t.day <= today PROVE t.day <= today + 1
      OBVIOUS
    <3>2. t.day \in Nat
      BY <3>1, Constants
    <3>3. QED
      BY <1>2, <3>1, <3>2
  <2>2. QED
    BY <1>1, <2>1 DEF Lone, DayRead, UsedOn
<1>9. QED
  BY <1>1, <1>3, <1>4, <1>5, <1>6, <1>7, <1>8 DEF Lone

-----------------------------------------------------------------------------
(***************************************************************************)
(* The books balance at every step of a host that makes one call at a time.*)
(***************************************************************************)
LEMMA LoneBegin ==
    ASSUME RecordsInv, AloneInv, LoneInv, NEW c \in Calls, Begin(c)
    PROVE  LoneInv'
<1>1. PICK t : t = call'[c]
  OBVIOUS
<1>2. /\ Others(c) /\ host' = host /\ (~ host.overlap => Quiet)
      /\ t.pc # "idle"
  BY <1>1, BeginMintsNothing, BeginAlone
<1>3. CASE host.overlap
  BY <1>2, <1>3 DEF LoneInv
<1>4. CASE ~ host.overlap
  <2>1. Lone(IdleCall) /\ \A d \in Calls : Busy(d) => d = c
    BY <1>2, <1>4, LoneRuns DEF Quiet, At, Busy
  <2>2. Lone(t)'
    BY <1>1, <2>1, GrantLone, TransferLone, ExchangeLone, TradeLone, OpenBetLone,
       PlaceBetLone, ResolveLone DEF Begin
  <2>3. QED
    BY <1>1, <1>2, <2>1, <2>2, LoneStep
<1>5. QED
  BY <1>3, <1>4

LEMMA LoneContinue ==
    ASSUME RecordsInv, RecordsInv', AloneInv, LoneInv, NEW c \in Calls, Continue(c)
    PROVE  LoneInv'
<1>1. PICK r, t : r = call[c] /\ t = call'[c]
  OBVIOUS
<1>2. Others(c) /\ host' = host /\ r.pc # "idle" /\ (t.pc = "idle" => t = IdleCall)
  BY <1>1, ContinueAlone
<1>3. CASE host.overlap
  BY <1>2, <1>3 DEF LoneInv
<1>4. CASE ~ host.overlap
  <2>1. Lone(r) /\ \A d \in Calls : Busy(d) => d = c
    BY <1>1, <1>2, <1>4, LoneRuns DEF AloneInv, Busy
  <2>2. ASSUME Return(c), Lone(IdleCall)'
        PROVE  Lone(t)'
    <3>1. t = IdleCall
      BY <1>1, <2>2, InvShaped, Returns DEF Ends
    <3>2. PICK u : u = IdleCall
      OBVIOUS
    <3>3. Lone(u)'
      BY <2>2, <3>2
    <3>4. QED
      BY <3>1, <3>2, <3>3
  <2>3. Lone(t)'
    <3>1. CASE \/ GrantSilverEnds(c) \/ GrantRiceEnds(c) \/ GiveWrite(c) \/ WriteDaily(c)
               \/ WritePool(c) \/ WriteBets(c) \/ CloseMarket(c) \/ CutShort(c)
      <4>1. Return(c)
        BY <3>1 DEF GrantSilverEnds, GrantRiceEnds, GiveWrite, WriteDaily, WritePool,
                    WriteBets, CloseMarket, CutShort
      <4>2. Lone(IdleCall)'
        BY <1>1, <2>1, <3>1, GrantSilverEndsLone, GrantRiceEndsLone, GiveWriteLone,
           WriteDailyLone, WritePoolLone, WriteBetsLone, CloseMarketLone, CutShortLone
      <4>3. QED
        BY <2>2, <4>1, <4>2
    <3>2. CASE WriteSilver(c)
      BY <1>1, <2>1, <3>2, WriteTradeSilverLone, WriteBetSilverLone
    <3>3. CASE \/ PayRead(c) \/ GiveRead(c) \/ TradeReadSilver(c) \/ ReadGcc(c)
               \/ ReadDaily(c) \/ MintRead(c) \/ ApplyTrade(c) \/ ApplyBet(c) \/ ReadPrice(c)
      BY <1>1, <2>1, <3>3, PurseReadLone, ReadGccLone, ReadDailyLone, MintReadLone,
         ApplyTradeLone, ApplyBetLone, ReadPriceLone
    <3>4. CASE PayWrite(c) \/ MintWrite(c) \/ WriteRice(c)
      BY <1>1, <2>1, <3>4, PayWriteLone, MintWriteLone, WriteRiceLone
    <3>5. ASSUME NEW n \in Npcs, ReadStaker(c, n) \/ PayStaker(c, n)
          PROVE  Lone(t)'
      BY <1>1, <2>1, <3>5, ReadStakerLone, PayStakerLone
    <3>6. QED
      BY <3>1, <3>2, <3>3, <3>4, <3>5 DEF Continue
  <2>4. QED
    BY <1>1, <1>2, <2>1, <2>3, LoneStep
<1>5. QED
  BY <1>3, <1>4

LEMMA LoneNewDay ==
    ASSUME RecordsInv, LoneInv, NewDay
    PROVE  LoneInv'
<1>1. call' = call /\ host' = host
  BY DEF NewDay
<1>2. Running' = Running
  BY <1>1 DEF Running, Quiet, At, Busy
<1>3. SUFFICES ASSUME ~ host.overlap, NEW r \in Running
               PROVE  Lone(r)'
  BY <1>1, <1>2 DEF LoneInv
<1>4. Lone(r)
  BY <1>3 DEF LoneInv
<1>5. CallSound(r)
  BY RecordsParts, IdleSound DEF Running
<1>6. QED
  BY <1>4, <1>5, NewDayLone DEF CallSound

LEMMA LoneNext ==
    RecordsInv /\ RecordsInv' /\ AloneInv /\ LoneInv /\ [Next]_vars => LoneInv'
<1> SUFFICES ASSUME RecordsInv, RecordsInv', AloneInv, LoneInv, [Next]_vars
             PROVE  LoneInv'
  OBVIOUS
<1>1. CASE UNCHANGED vars
  <2>1. call' = call /\ host' = host /\ UNCHANGED <<silver, rice, gcc, Records, history>>
    BY <1>1 DEF vars, Records
  <2>2. Running' = Running
    BY <2>1 DEF Running, Quiet, At, Busy
  <2>3. SUFFICES ASSUME ~ host.overlap, NEW r \in Running
                 PROVE  Lone(r)'
    BY <2>1, <2>2 DEF LoneInv
  <2>4. Lone(r)
    BY <2>3 DEF LoneInv
  <2>5. QED
    BY <2>1, <2>4, LoneUnchanged
<1>2. QED
  BY <1>1, LoneBegin, LoneContinue, LoneNewDay DEF Next

LEMMA LoneInit == Init => LoneInv
<1> SUFFICES ASSUME Init PROVE LoneInv
  OBVIOUS
<1>1. PICK t : t = IdleCall
  OBVIOUS
<1>2. Running = {t}
  <2>1. \A c \in Calls : call[c].pc = "idle"
    BY IdleFields DEF Init
  <2>2. QED
    BY <1>1, <2>1 DEF Running, Quiet, At
<1>3. NothingDue(t) /\ Fresh(t) /\ DayRead(t)
  <2>1. t.pc = "idle"
    BY <1>1, IdleFields
  <2>2. QED
    BY <2>1, UndueNothing DEF Undue, Fresh, DayRead, Settling
<1>4. host.purse \in Nat /\ host.rice \in Nat
  BY RecordsInit, RecordsParts, HostAmounts DEF StoreOK
<1>5. SumOf(silver, Npcs) = host.purse * Cardinality(Npcs)
  <2>1. \A n \in Npcs : silver[n] = host.purse
    BY DEF Init
  <2>2. QED
    BY <1>4, <2>1, SumConstant, Constants
<1>6. SumOf(rice, Npcs) = host.rice * Cardinality(Npcs)
  <2>1. \A n \in Npcs : rice[n] = host.rice
    BY DEF Init
  <2>2. QED
    BY <1>4, <2>1, SumConstant, Constants
<1>7. Total(bets) = 0 /\ \A n \in Npcs : StakeOf(bets, n) = 0
  <2>1. \A m \in Markets : bets[m] = NoMarket
    BY DEF Init
  <2>2. \A m \in Markets : Staked(bets[m]) = 0
    BY <2>1, NoMarketFields DEF Staked
  <2>3. Total(bets) = 0
    <3>1. PICK f : f = [m \in Markets |-> Staked(bets[m])]
      OBVIOUS
    <3>2. SumOf(f, Markets) = 0
      BY <2>2, <3>1, SumOfZeros
    <3>3. QED
      BY <3>1, <3>2 DEF Total
  <2>4. ASSUME NEW n \in Npcs
        PROVE  StakeOf(bets, n) = 0
    <3>1. PICK f : f = [m \in Markets |-> bets[m].stakes[n]["YES"] + bets[m].stakes[n]["NO"]]
      OBVIOUS
    <3>2. NoStakes[n]["YES"] = 0 /\ NoStakes[n]["NO"] = 0
      BY DEF NoStakes, Sides
    <3>3. \A m \in Markets : f[m] = 0
      BY <2>1, <3>1, <3>2, NoMarketFields
    <3>4. QED
      BY <3>1, <3>3, SumOfZeros DEF StakeOf
  <2>5. QED
    BY <2>3, <2>4
<1>8. SilverBurnt = 0
  <2>1. ASSUME NEW n \in Npcs
        PROVE  SumOf(history.exchanged[n], Days) = 0
    <3>1. PICK f : f = history.exchanged[n]
      OBVIOUS
    <3>2. \A d \in Days : f[d] = 0
      BY <3>1 DEF Init
    <3>3. QED
      BY <3>1, <3>2, SumOfZeros
  <2>2. PICK f : f = [n \in Npcs |-> SumOf(history.exchanged[n], Days)]
    OBVIOUS
  <2>3. SumOf(f, Npcs) = 0
    BY <2>1, <2>2, SumOfZeros
  <2>4. QED
    BY <2>2, <2>3 DEF SilverBurnt
<1>9. /\ pool.silver = OpeningPool /\ pool.rice = OpeningPool
      /\ history.granted = 0 /\ history.harvested = 0
  BY DEF Init
<1>10. host.purse * Cardinality(Npcs) \in Nat /\ host.rice * Cardinality(Npcs) \in Nat
  BY RecordsInit, RecordsParts, BooksType
<1>11. SilverBooks(t)
  <2>1. SilverPresent = SilverIssued /\ SilverIssued \in Nat
    BY <1>5, <1>7, <1>9, <1>10, SilverSum, Constants DEF SilverIssued
  <2>2. QED
    BY <1>3, <1>8, <2>1 DEF SilverBooks, NothingDue
<1>12. RiceBooks(t)
  BY <1>3, <1>6, <1>9, <1>10, Constants DEF RiceBooks, RicePresent, NothingDue
<1>13. StakeBooks(t)
  BY <1>3, <1>7 DEF StakeBooks, NothingDue, Init
<1>14. DayBooks(t)
  <2>0. \A n \in Npcs : \A d \in Days : CapDue(t, n, d) = 0
    BY <1>3 DEF NothingDue
  <2>1. SUFFICES ASSUME NEW n \in Npcs, NEW d \in Days
                 PROVE  /\ daily[n].day <= today
                        /\ history.exchanged[n][d] <= DailyCap
                        /\ history.exchanged[n][d] = 0
                        /\ UsedOn(d, n) = 0
    <3>1. Days # {}
      BY Constants
    <3>2. QED
      BY <2>0, <3>1 DEF DayBooks
  <2>2. daily[n] = [day |-> 0, used |-> 0] /\ history.exchanged[n][d] = 0 /\ today = 0
    BY DEF Init
  <2>3. QED
    BY <2>2, Constants DEF UsedOn
<1>15. QED
  BY <1>2, <1>3, <1>11, <1>12, <1>13, <1>14 DEF LoneInv, Lone

-----------------------------------------------------------------------------
(***************************************************************************)
(* The theorems.                                                           *)
(***************************************************************************)
\* The inductive invariant holds in every reachable state, for any host.
THEOREM SilverWorldInvariant == Spec => []SilverWorldInv
<1>1. Init => SilverWorldInv
  BY RecordsInit, MintInit, AloneInit, LoneInit DEF SilverWorldInv
<1>2. SilverWorldInv /\ [Next]_vars => SilverWorldInv'
  BY RecordsNext, MintNext, AloneNext, LoneNext DEF SilverWorldInv
<1>3. QED
  BY <1>1, <1>2, PTL DEF Spec

\* The reserves of the rice market never leave the curve they were opened on,
\* whatever trades overlap, are lost or are cut short (tradeRice, ammSwap).
THEOREM PoolStaysOnCurve == Spec => []PoolOnCurve
<1>1. SilverWorldInv => PoolOnCurve
  BY DEF SilverWorldInv, RecordsInv, OnCurve, PoolOnCurve
<1>2. QED
  BY <1>1, SilverWorldInvariant, PTL

\* GCC never exceeds what was burnt for it, and a host that makes one call at
\* a time never exchanges more than the cap on a day (exchangeSilverForGcc).
THEOREM ExchangeIsKept == Spec => []ExchangeKept
<1>1. SilverWorldInv => GccBacked
  <2> SUFFICES ASSUME RecordsInv, MintInv PROVE GccBacked
    BY DEF SilverWorldInv
  <2>1. PICK f, g, h : /\ f = gcc /\ g = [n \in Npcs |-> Rate * gcc[n]]
                       /\ h = [n \in Npcs |-> SumOf(history.exchanged[n], Days)]
    OBVIOUS
  <2>2. ASSUME NEW n \in Npcs
        PROVE  f[n] \in Nat /\ g[n] = Rate * f[n] /\ g[n] \in Nat
               /\ h[n] \in Nat /\ g[n] <= h[n]
    <3>1. f[n] \in Nat
      BY <2>1 DEF RecordsInv, TypeOK
    <3>2. h[n] = Burnt(n) /\ h[n] \in Nat
      BY <2>1, BurntType DEF Burnt
    <3>3. g[n] = Rate * f[n] /\ g[n] \in Nat
      BY <2>1, <3>1, Constants
    <3>4. SumOf(Unminted(n), Calls) \in Nat
      BY UnmintedType
    <3>5. Rate * gcc[n] + SumOf(Unminted(n), Calls) <= Burnt(n)
      BY DEF MintInv
    <3>6. g[n] + SumOf(Unminted(n), Calls) <= h[n]
      BY <2>1, <3>2, <3>5
    <3>7. QED
      BY <3>1, <3>2, <3>3, <3>4, <3>6
  <2>3. SumOf(g, Npcs) = Rate * SumOf(f, Npcs)
    BY <2>2, SumScale, Constants
  <2>4. SumOf(g, Npcs) <= SumOf(h, Npcs)
    BY <2>2, SumMonotone, Constants
  <2>5. QED
    BY <2>1, <2>3, <2>4 DEF GccBacked, SilverBurnt
<1>2. SilverWorldInv => ExchangeCapped
  <2> SUFFICES ASSUME RecordsInv, LoneInv, InTurn PROVE ExchangeCapped
    BY DEF SilverWorldInv, ExchangeCapped
  <2>1. PICK r : r \in Running
    BY DEF Running, Quiet, At, Busy
  <2>2. DayBooks(r)
    BY <2>1 DEF LoneInv, Lone, InTurn
  <2>3. QED
    BY <2>2 DEF DayBooks, ExchangeCapped
<1>3. SilverWorldInv => ExchangeKept
  BY <1>1, <1>2 DEF ExchangeKept
<1>4. QED
  BY <1>3, SilverWorldInvariant, PTL

\* Where one call runs at a time, what is said of a lone call is said of the
\* idle one between two calls.
LEMMA LoneBetweenCalls ==
    ASSUME SilverWorldInv, ~ host.overlap, Quiet
    PROVE  /\ TakesFirst => SilverPresent <= SilverIssued - SilverBurnt
           /\ ~ host.fails => /\ SilverPresent = SilverIssued - SilverBurnt
                              /\ RiceBooks(IdleCall) /\ StakeBooks(IdleCall)
<1>1. PICK t : t = IdleCall
  OBVIOUS
<1>2. Lone(t)
  BY <1>1 DEF SilverWorldInv, LoneInv, Running
<1>3. t.pc = "idle"
  BY <1>1, IdleFields
<1>4. SilverDue(t) = 0
  BY <1>3 DEF SilverDue
<1>5. SilverPresent \in Nat
  BY RecordsParts, BooksType DEF SilverWorldInv
<1>6. SilverBooks(t)
  BY <1>2 DEF Lone
<1>7. SilverPresent + SilverDue(t) = SilverPresent
  BY <1>4, <1>5
<1>8. ~ host.fails => TakesFirst
  BY DEF TakesFirst
<1>9. QED
  BY <1>1, <1>2, <1>6, <1>7, <1>8 DEF Lone, SilverBooks

\* Every stake that was taken is on record in a market, and the pools are the
\* sums of the stakes (placeRiceBet, resolveRiceBet).
THEOREM StakesAreAccounted == Spec => []StakesAccounted
<1>1. SilverWorldInv => EveryStakeRecorded
  <2> SUFFICES ASSUME SilverWorldInv, InTurn, Quiet, NEW n \in Npcs
               PROVE  history.staked[n] = StakeOf(bets, n)
    BY DEF EveryStakeRecorded, StakeOf
  <2>1. StakeBooks(IdleCall)
    BY LoneBetweenCalls DEF InTurn
  <2>2. StakeDue(IdleCall, n) = 0
    BY IdleFields DEF StakeDue
  <2>3. StakeOf(bets, n) \in Nat
    BY StakesType DEF SilverWorldInv, RecordsInv
  <2>4. QED
    BY <2>1, <2>2, <2>3 DEF StakeBooks
<1>2. SilverWorldInv => PoolsMatchStakes
  BY DEF SilverWorldInv, RecordsInv, BetsSound, MarketSound, PoolsMatchStakes
<1>3. SilverWorldInv => StakesAccounted
  BY <1>1, <1>2 DEF StakesAccounted
<1>4. QED
  BY <1>3, SilverWorldInvariant, PTL

\* Silver and rice are conserved between calls, at the strength each host
\* allows, and every purse, stall and pool keeps its type.
THEOREM GoodsAreConserved == Spec => []GoodsConserved
<1>1. SilverWorldInv => SilverConserved
  BY LoneBetweenCalls DEF SilverConserved, InTurn
<1>2. SilverWorldInv => RiceConserved
  <2> SUFFICES ASSUME SilverWorldInv, InTurn, Quiet
               PROVE  RicePresent =
                          host.rice * Cardinality(Npcs) + OpeningPool + history.harvested
    BY DEF RiceConserved
  <2>1. RiceBooks(IdleCall)
    BY LoneBetweenCalls DEF InTurn
  <2>2. RiceDue(IdleCall) = 0
    BY IdleFields DEF RiceDue
  <2>3. RicePresent \in Nat
    BY RecordsParts, BooksType DEF SilverWorldInv
  <2>4. QED
    BY <2>1, <2>2, <2>3 DEF RiceBooks
<1>3. SilverWorldInv => NothingMinted
  <2> SUFFICES ASSUME SilverWorldInv, ~ host.overlap,
                      host.ops \cap {"trade", "resolve"} = {}, Quiet
               PROVE  SilverPresent <= SilverIssued - SilverBurnt
    BY DEF NothingMinted, SilverNeverMade
  <2>1. TakesFirst
    BY DEF TakesFirst
  <2>2. QED
    BY <2>1, LoneBetweenCalls
<1>4. SilverWorldInv => GoodsConserved
  BY <1>1, <1>2, <1>3 DEF SilverWorldInv, RecordsInv, GoodsConserved
<1>5. QED
  BY <1>4, SilverWorldInvariant, PTL
=============================================================================
