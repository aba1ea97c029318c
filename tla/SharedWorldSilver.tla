-------------------------- MODULE SharedWorldSilver --------------------------
(***************************************************************************)
(* The game economy of SharedWorld: the silver and rice of NPCs, the       *)
(* constant-product rice market, the parimutuel bets on its price and the  *)
(* one-way exchange of silver for GCC (packages/gamekit/src/               *)
(* shared-world.ts with the transactions of stf/world-stf.ts).  A method   *)
(* is split at its awaits: what it read is used after other calls ran.     *)
(* The transaction function is pure and runs without an await, so it is    *)
(* part of the step that does the last read before it; a call that it      *)
(* rejects has no effect and is not a step.  Numbers are natural where the *)
(* code has doubles: only trades and payouts with whole results are        *)
(* explored (bounds Whole).  Keys are in their scoped form.                *)
(***************************************************************************)
EXTENDS Sums

AllOps == {"grant", "transfer", "exchange", "trade", "open", "bet", "resolve"}

CONSTANTS
    Npcs,
    Markets,       \* ids of betting markets
    Calls,         \* calls that may run at the same time
    Hosts,         \* ways to drive the world, the values of host to explore
    Amounts,       \* amounts passed to methods, positive
    Thresholds,    \* prices that markets bet on
    Rate,          \* exchange.rate: silver for one GCC
    DailyCap,      \* exchange.dailyCapSilver
    OpeningPool,   \* rice and silver reserve of the market (initRiceMarket)
    MaxDay,        \* bound: days explored
    MaxIssued,     \* bound: silver and rice the host grants
    None

ASSUME SilverAssumption ==
    /\ IsFiniteSet(Npcs) /\ IsFiniteSet(Markets) /\ IsFiniteSet(Calls)
    /\ Amounts \subseteq Nat \ {0} /\ Thresholds \subseteq Nat
    /\ Rate \in Nat \ {0} /\ DailyCap \in Nat
    /\ OpeningPool \in Nat \ {0}
    /\ Hosts \subseteq
           [ops: SUBSET AllOps, overlap: BOOLEAN, fails: BOOLEAN,
            amounts: SUBSET Amounts, purse: Nat, rice: Nat, total: Nat]
    /\ MaxDay \in Nat /\ MaxIssued \in Nat

VARIABLES
    silver,   \* npc:<id>:silver
    rice,     \* npc:<id>:rice
    gcc,      \* npc:<id>:gcc, what exchanges added to it
    pool,     \* the rice market: its reserves [rice, silver]
    bets,     \* market id -> betting market
    daily,    \* npc:<id>:exchange:day
    today,    \* the day of the clock
    host,     \* how the host drives the world, fixed: the methods it calls
              \* and with which amounts, whether calls overlap, whether a
              \* method may be cut short, the silver (startSilver) and rice
              \* (grantRice) every NPC has at the start; bound: no call
              \* begins with more silver or rice about, or more staked, than
              \* total
    call,     \* call -> what it is doing and what it holds
    history   \* history: what was granted, exchanged and staked so far

vars == <<silver, rice, gcc, pool, bets, daily, today, host, call, history>>

Days == 0..MaxDay
Sides == {"YES", "NO"}
NoStakes == [n \in Npcs |-> [s \in Sides |-> 0]]
NoMarket == [status |-> "none", threshold |-> 0, stakes |-> NoStakes,
             pools |-> [s \in Sides |-> 0]]

IdleCall == [pc |-> "idle", op |-> None, npc |-> None, to |-> None,
             amount |-> 0, side |-> None, market |-> None,   \* arguments
             seen |-> 0, rice |-> 0, day |-> 0, used |-> 0,  \* read or computed
             pool |-> None, bets |-> None, purses |-> None,
             left |-> {}]                                    \* stakers to come

BettingMarket == [status: {"none", "open", "resolved"}, threshold: Thresholds \cup {0},
                  stakes: [Npcs -> [Sides -> Nat]], pools: [Sides -> Nat]]

TypeOK ==
    /\ silver \in [Npcs -> Nat]
    /\ rice \in [Npcs -> Nat]
    /\ gcc \in [Npcs -> Nat]
    /\ pool \in [rice: Nat \ {0}, silver: Nat \ {0}]
    /\ bets \in [Markets -> BettingMarket]
    /\ daily \in [Npcs -> [day: Days, used: Nat]]
    /\ today \in Days
    /\ host \in Hosts
    /\ \A c \in Calls : call[c].seen \in Nat /\ call[c].left \subseteq Npcs

Init ==
    /\ host \in Hosts
    /\ silver = [n \in Npcs |-> host.purse]
    /\ rice = [n \in Npcs |-> host.rice]
    /\ gcc = [n \in Npcs |-> 0]
    /\ pool = [rice |-> OpeningPool, silver |-> OpeningPool]
    /\ bets = [m \in Markets |-> NoMarket]
    /\ daily = [n \in Npcs |-> [day |-> 0, used |-> 0]]
    /\ today = 0
    /\ call = [c \in Calls |-> IdleCall]
    /\ history = [granted |-> 0, harvested |-> 0,
                  exchanged |-> [n \in Npcs |-> [d \in Days |-> 0]],
                  staked |-> [n \in Npcs |-> 0]]

NotNegative(x) == IF x < 0 THEN 0 ELSE x
Lesser(a, b) == IF a < b THEN a ELSE b

At(c, pc) == call[c].pc = pc
Me(c) == call[c].npc
Return(c) == call' = [call EXCEPT ![c] = IdleCall]
Quiet == \A c \in Calls : At(c, "idle")

MayCall(c, op) ==
    /\ At(c, "idle")
    /\ op \in host.ops
    /\ host.overlap \/ Quiet

Records == <<pool, bets, daily, today, host>>

(***************************************************************************)
(* addSilver(n, delta): a read and a write.  Methods that use it continue  *)
(* where After says.                                                       *)
(***************************************************************************)
ReadPurse(c, from, to, n) ==
    /\ At(c, from)
    /\ call' = [call EXCEPT ![c].pc = to, ![c].seen = silver[n]]
    /\ UNCHANGED <<silver, rice, gcc, Records, history>>

StorePurse(n, value) == silver' = [silver EXCEPT ![n] = value]

\* grantSilver(), grantRice(): provisioning by the host.
GrantSilver(c, n, amount) ==
    /\ MayCall(c, "grant")
    /\ history.granted + amount <= MaxIssued
    /\ call' = [call EXCEPT ![c] = [IdleCall EXCEPT !.pc = "grantSilver",
                    !.npc = n, !.amount = amount, !.seen = silver[n]]]
    /\ UNCHANGED <<silver, rice, gcc, Records, history>>

GrantSilverEnds(c) ==
    /\ At(c, "grantSilver")
    /\ StorePurse(Me(c), call[c].seen + call[c].amount)
    /\ history' = [history EXCEPT !.granted = @ + call[c].amount]
    /\ Return(c)
    /\ UNCHANGED <<rice, gcc, Records>>

GrantRice(c, n, amount) ==
    /\ MayCall(c, "grant")
    /\ history.harvested + amount <= MaxIssued
    /\ call' = [call EXCEPT ![c] = [IdleCall EXCEPT !.pc = "grantRice",
                    !.npc = n, !.amount = amount, !.seen = rice[n]]]
    /\ UNCHANGED <<silver, rice, gcc, Records, history>>

GrantRiceEnds(c) ==
    /\ At(c, "grantRice")
    /\ rice' = [rice EXCEPT ![Me(c)] = call[c].seen + call[c].amount]
    /\ history' = [history EXCEPT !.harvested = @ + call[c].amount]
    /\ Return(c)
    /\ UNCHANGED <<silver, gcc, Records>>

(***************************************************************************)
(* transferSilver(): clamped to what the sender has, then taken from the   *)
(* sender and given to the receiver.                                       *)
(***************************************************************************)
\* Faulty variant: the whole amount is given, whatever the sender has.
TransferUnclamped(c, n, to, amount) ==
    /\ MayCall(c, "transfer")
    /\ n # to
    /\ silver[n] > 0
    /\ call' = [call EXCEPT ![c] = [IdleCall EXCEPT !.pc = "payRead",
                    !.op = "transfer", !.npc = n, !.to = to,
                    !.amount = amount]]
    /\ UNCHANGED <<silver, rice, gcc, Records, history>>

Transfer(c, n, to, amount) ==
    /\ MayCall(c, "transfer")
    /\ n # to
    /\ silver[n] > 0
    /\ call' = [call EXCEPT ![c] = [IdleCall EXCEPT !.pc = "payRead",
                    !.op = "transfer", !.npc = n, !.to = to,
                    !.amount = Lesser(amount, silver[n])]]
    /\ UNCHANGED <<silver, rice, gcc, Records, history>>

\* The payment of a transfer and of an exchange.
PayRead(c) == ReadPurse(c, "payRead", "payWrite", Me(c))

PayWrite(c) ==
    /\ At(c, "payWrite")
    /\ StorePurse(Me(c), NotNegative(call[c].seen - call[c].amount))
    /\ call' = [call EXCEPT ![c].pc =
                    IF call[c].op = "transfer" THEN "giveRead" ELSE "mintRead"]
    /\ history' = IF call[c].op = "transfer" THEN history
                  ELSE [history EXCEPT !.exchanged[Me(c)][call[c].day] =
                                            @ + call[c].amount]
    /\ UNCHANGED <<rice, gcc, Records>>

GiveRead(c) == ReadPurse(c, "giveRead", "giveWrite", call[c].to)

GiveWrite(c) ==
    /\ At(c, "giveWrite")
    /\ StorePurse(call[c].to, call[c].seen + call[c].amount)
    /\ Return(c)
    /\ UNCHANGED <<rice, gcc, Records, history>>

(***************************************************************************)
(* exchangeSilverForGcc(): silver is burnt, GCC is minted, and the day's   *)
(* total is stored last.                                                   *)
(***************************************************************************)
Exchange(c, n, amount) ==
    /\ MayCall(c, "exchange")
    /\ amount <= silver[n]
    /\ amount % Rate = 0   \* bound Whole
    /\ call' = [call EXCEPT ![c] = [IdleCall EXCEPT !.pc = "readGcc",
                    !.op = "exchange", !.npc = n, !.amount = amount]]
    /\ UNCHANGED <<silver, rice, gcc, Records, history>>

\* The balance is only reported; the day is taken from the clock after it.
ReadGcc(c) ==
    /\ At(c, "readGcc")
    /\ call' = [call EXCEPT ![c].pc = "readDaily", ![c].day = today]
    /\ UNCHANGED <<silver, rice, gcc, Records, history>>

UsedOn(d, n) == IF daily[n].day = d THEN daily[n].used ELSE 0

ReadDaily(c) ==
    LET used == UsedOn(call[c].day, Me(c))
    IN  /\ At(c, "readDaily")
        /\ IF used + call[c].amount > DailyCap THEN Return(c)
           ELSE call' = [call EXCEPT ![c].pc = "payRead", ![c].used = used]
        /\ UNCHANGED <<silver, rice, gcc, Records, history>>

MintRead(c) ==
    /\ At(c, "mintRead")
    /\ call' = [call EXCEPT ![c].pc = "mintWrite", ![c].seen = gcc[Me(c)]]
    /\ UNCHANGED <<silver, rice, gcc, Records, history>>

\* Faulty variant: a silver is worth a GCC.
MintWriteAtPar(c) ==
    /\ At(c, "mintWrite")
    /\ gcc' = [gcc EXCEPT ![Me(c)] = call[c].seen + call[c].amount]
    /\ call' = [call EXCEPT ![c].pc = "writeDaily"]
    /\ UNCHANGED <<silver, rice, Records, history>>

MintWrite(c) ==
    /\ At(c, "mintWrite")
    /\ gcc' = [gcc EXCEPT ![Me(c)] = call[c].seen + call[c].amount \div Rate]
    /\ call' = [call EXCEPT ![c].pc = "writeDaily"]
    /\ UNCHANGED <<silver, rice, Records, history>>

WriteDaily(c) ==
    /\ At(c, "writeDaily")
    /\ daily' = [daily EXCEPT ![Me(c)] =
                    [day |-> call[c].day, used |-> call[c].used + call[c].amount]]
    /\ Return(c)
    /\ UNCHANGED <<silver, rice, gcc, pool, bets, today, host, history>>

(***************************************************************************)
(* tradeRice() with the transaction `trade` and ammSwap(): the product of  *)
(* the reserves stays what it is.                                          *)
(***************************************************************************)
Product(p) == p.rice * p.silver

\* The reserves after a swap of amount on side ("buy" pays silver).
Swapped(p, side, amount) ==
    IF side = "buy"
    THEN [silver |-> p.silver + amount, rice |-> Product(p) \div (p.silver + amount)]
    ELSE [rice |-> p.rice + amount, silver |-> Product(p) \div (p.rice + amount)]

Whole(p, side, amount) ==
    Product(Swapped(p, side, amount)) = Product(p)

Trade(c, n, side, amount) ==
    /\ MayCall(c, "trade")
    /\ Whole(pool, side, amount)
    /\ call' = [call EXCEPT ![c] = [IdleCall EXCEPT !.pc = "tradeSilver",
                    !.op = "trade", !.npc = n, !.side = side,
                    !.amount = amount, !.pool = pool]]
    /\ UNCHANGED <<silver, rice, gcc, Records, history>>

TradeReadSilver(c) == ReadPurse(c, "tradeSilver", "tradeRice", Me(c))

\* The last read, and the transaction.
ApplyTrade(c) ==
    LET before == call[c].pool
        amount == call[c].amount
        after == Swapped(before, call[c].side, amount)
        holding == rice[Me(c)]
    IN  /\ At(c, "tradeRice")
        /\ IF (IF call[c].side = "buy" THEN call[c].seen ELSE holding) < amount
           THEN Return(c)
           ELSE call' = [call EXCEPT
                    ![c].pc = "writeRice",
                    ![c].pool = after,
                    ![c].rice = holding + before.rice - after.rice,
                    ![c].seen = @ + before.silver - after.silver]
        /\ UNCHANGED <<silver, rice, gcc, Records, history>>

WriteRice(c) ==
    /\ At(c, "writeRice")
    /\ rice' = [rice EXCEPT ![Me(c)] = call[c].rice]
    /\ call' = [call EXCEPT ![c].pc = "writeSilver"]
    /\ UNCHANGED <<silver, gcc, Records, history>>

\* The second write of a trade, the first of a bet.
WriteSilver(c) ==
    /\ At(c, "writeSilver")
    /\ StorePurse(Me(c), call[c].seen)
    /\ call' = [call EXCEPT ![c].pc =
                    IF call[c].op = "trade" THEN "writePool" ELSE "writeBets"]
    /\ history' = IF call[c].op = "trade" THEN history
                  ELSE [history EXCEPT !.staked[Me(c)] = @ + call[c].amount]
    /\ UNCHANGED <<rice, gcc, Records>>

\* Faulty variant: the rice reserve is left as it is stored.
WritePoolSilverOnly(c) ==
    /\ At(c, "writePool")
    /\ pool' = [pool EXCEPT !.silver = call[c].pool.silver]
    /\ Return(c)
    /\ UNCHANGED <<silver, rice, gcc, bets, daily, today, host, history>>

WritePool(c) ==
    /\ At(c, "writePool")
    /\ pool' = call[c].pool
    /\ Return(c)
    /\ UNCHANGED <<silver, rice, gcc, bets, daily, today, host, history>>

(***************************************************************************)
(* openRiceBet(), placeRiceBet() with the transactions openMarket and bet. *)
(* All markets are one stored record.                                      *)
(***************************************************************************)
OpenBet(c, m, threshold) ==
    /\ MayCall(c, "open")
    /\ bets[m].status = "none"
    /\ call' = [call EXCEPT ![c] = [IdleCall EXCEPT !.pc = "writeBets",
                    !.op = "open",
                    !.bets = [bets EXCEPT ![m].status = "open",
                                          ![m].threshold = threshold]]]
    /\ UNCHANGED <<silver, rice, gcc, Records, history>>

PlaceBet(c, n, m, side, amount) ==
    /\ MayCall(c, "bet")
    /\ bets[m].status = "open"
    /\ call' = [call EXCEPT ![c] = [IdleCall EXCEPT !.pc = "betSilver",
                    !.op = "bet", !.npc = n, !.market = m, !.side = side,
                    !.amount = amount, !.bets = bets]]
    /\ UNCHANGED <<silver, rice, gcc, Records, history>>

\* Faulty variant: a second bet replaces the first on that side.
ApplyBetAnew(c) ==
    LET m == call[c].market
        side == call[c].side
        amount == call[c].amount
    IN  /\ At(c, "betSilver")
        /\ IF silver[Me(c)] < amount THEN Return(c)
           ELSE call' = [call EXCEPT
                    ![c].pc = "writeSilver",
                    ![c].seen = silver[Me(c)] - amount,
                    ![c].bets[m].stakes[Me(c)][side] = amount,
                    ![c].bets[m].pools[side] = @ + amount]
        /\ UNCHANGED <<silver, rice, gcc, Records, history>>

ApplyBet(c) ==
    LET m == call[c].market
        side == call[c].side
        amount == call[c].amount
    IN  /\ At(c, "betSilver")
        /\ IF silver[Me(c)] < amount THEN Return(c)
           ELSE call' = [call EXCEPT
                    ![c].pc = "writeSilver",
                    ![c].seen = silver[Me(c)] - amount,
                    ![c].bets[m].stakes[Me(c)][side] = @ + amount,
                    ![c].bets[m].pools[side] = @ + amount]
        /\ UNCHANGED <<silver, rice, gcc, Records, history>>

WriteBets(c) ==
    /\ At(c, "writeBets")
    /\ bets' = call[c].bets
    /\ Return(c)
    /\ UNCHANGED <<silver, rice, gcc, pool, daily, today, host, history>>

(***************************************************************************)
(* resolveRiceBet() with the transaction resolveMarket: the price decides, *)
(* the winners share the whole pool, and without winners all get their     *)
(* stakes back.  The purses of all stakers are read, then written, each in *)
(* an order the model leaves open, and the market is closed last.          *)
(***************************************************************************)
Stakers(b) == {n \in Npcs : \E s \in Sides : b.stakes[n][s] > 0}
Staked(b) == b.pools["YES"] + b.pools["NO"]

Outcome(p, b) == IF p.silver >= b.threshold * p.rice THEN "YES" ELSE "NO"

Payout(b, outcome, n) ==
    IF b.pools[outcome] = 0
    THEN b.stakes[n]["YES"] + b.stakes[n]["NO"]
    ELSE (b.stakes[n][outcome] * Staked(b)) \div b.pools[outcome]

WholePayouts(b) ==
    \A s \in Sides, n \in Npcs :
        b.pools[s] > 0 => (b.stakes[n][s] * Staked(b)) % b.pools[s] = 0

Resolve(c, m) ==
    /\ MayCall(c, "resolve")
    /\ bets[m].status = "open"
    /\ WholePayouts(bets[m])
    /\ call' = [call EXCEPT ![c] = [IdleCall EXCEPT !.pc = "readPrice",
                    !.op = "resolve", !.market = m, !.bets = bets]]
    /\ UNCHANGED <<silver, rice, gcc, Records, history>>

ReadPrice(c) ==
    LET b == call[c].bets[call[c].market]
    IN  /\ At(c, "readPrice")
        /\ call' = [call EXCEPT
                ![c].pc = IF Stakers(b) = {} THEN "closeMarket" ELSE "readStakers",
                ![c].side = Outcome(pool, b),
                ![c].purses = [n \in Npcs |-> 0],
                ![c].left = Stakers(b)]
        /\ UNCHANGED <<silver, rice, gcc, Records, history>>

ReadStaker(c, n) ==
    LET b == call[c].bets[call[c].market]
        last == call[c].left = {n}
    IN  /\ At(c, "readStakers")
        /\ n \in call[c].left
        /\ call' = [call EXCEPT
                ![c].purses[n] = silver[n] + Payout(b, call[c].side, n),
                ![c].pc = IF last THEN "payStakers" ELSE @,
                ![c].left = IF last THEN Stakers(b) ELSE @ \ {n}]
        /\ UNCHANGED <<silver, rice, gcc, Records, history>>

PayStaker(c, n) ==
    /\ At(c, "payStakers")
    /\ n \in call[c].left
    /\ StorePurse(n, call[c].purses[n])
    /\ call' = [call EXCEPT
            ![c].left = @ \ {n},
            ![c].pc = IF call[c].left = {n} THEN "closeMarket" ELSE @]
    /\ UNCHANGED <<rice, gcc, Records, history>>

\* The stakes stay on record; the pools are empty.
CloseMarket(c) ==
    /\ At(c, "closeMarket")
    /\ bets' = [call[c].bets EXCEPT ![call[c].market].status = "resolved",
                                    ![call[c].market].pools = NoMarket.pools]
    /\ Return(c)
    /\ UNCHANGED <<silver, rice, gcc, pool, daily, today, host, history>>

(***************************************************************************)
(* The store, or the host, fails: a method ends at an await and what it    *)
(* has written stays.                                                      *)
(***************************************************************************)
CutShort(c) ==
    /\ host.fails
    /\ ~ At(c, "idle")
    /\ Return(c)
    /\ UNCHANGED <<silver, rice, gcc, Records, history>>

NewDay ==
    /\ "exchange" \in host.ops   \* bound: only an exchange reads the day
    /\ today < MaxDay
    /\ today' = today + 1
    /\ UNCHANGED <<silver, rice, gcc, pool, bets, daily, host, call, history>>

\* Silver in purses, in the rice market and in the pools of bets.
SilverPresent ==
    SumOf(silver, Npcs) + pool.silver
    + SumOf([m \in Markets |-> Staked(bets[m])], Markets)

RicePresent == SumOf(rice, Npcs) + pool.rice

Bounded ==
    /\ SilverPresent <= host.total
    /\ RicePresent <= host.total
    /\ SumOf(history.staked, Npcs) <= host.total

Begin(c) ==
    \/ \E n \in Npcs, amount \in host.amounts :
        \/ GrantSilver(c, n, amount)
        \/ GrantRice(c, n, amount)
        \/ Exchange(c, n, amount)
        \/ \E to \in Npcs : Transfer(c, n, to, amount)
        \/ \E side \in {"buy", "sell"} : Trade(c, n, side, amount)
        \/ \E m \in Markets, side \in Sides : PlaceBet(c, n, m, side, amount)
    \/ \E m \in Markets : Resolve(c, m)
    \/ \E m \in Markets, threshold \in Thresholds : OpenBet(c, m, threshold)

Continue(c) ==
    \/ GrantSilverEnds(c) \/ GrantRiceEnds(c)
    \/ PayRead(c) \/ PayWrite(c) \/ GiveRead(c) \/ GiveWrite(c)
    \/ ReadGcc(c) \/ ReadDaily(c) \/ MintRead(c) \/ MintWrite(c) \/ WriteDaily(c)
    \/ TradeReadSilver(c) \/ ApplyTrade(c) \/ WriteRice(c) \/ WriteSilver(c)
    \/ WritePool(c)
    \/ ApplyBet(c) \/ WriteBets(c)
    \/ ReadPrice(c) \/ CloseMarket(c)
    \/ \E n \in Npcs : ReadStaker(c, n) \/ PayStaker(c, n)
    \/ CutShort(c)

Next ==
    \/ \E c \in Calls : Bounded /\ Begin(c)
    \/ \E c \in Calls : Continue(c)
    \/ NewDay

Spec == Init /\ [][Next]_vars

(***************************************************************************)
(* Properties                                                              *)
(***************************************************************************)
SilverBurnt ==
    SumOf([n \in Npcs |-> SumOf(history.exchanged[n], Days)], Npcs)

SilverIssued ==
    host.purse * Cardinality(Npcs) + OpeningPool + history.granted

\* One call at a time, and each runs to its end.
InTurn == ~ host.overlap /\ ~ host.fails

\* Silver is conserved by transfers, trades, bets and payouts: between calls
\* what is present is what the host issued less what was exchanged.
SilverConserved ==
    InTurn /\ Quiet => SilverPresent = SilverIssued - SilverBurnt

\* Rice changes hands between NPCs and the market and is never made.
RiceConserved ==
    InTurn /\ Quiet =>
        RicePresent =
            host.rice * Cardinality(Npcs) + OpeningPool + history.harvested

\* No call makes silver, not even a payout that is run again.
SilverNeverMade == Quiet => SilverPresent <= SilverIssued - SilverBurnt

\* A method that takes before it gives makes no silver even when it is cut
\* short (transferSilver, placeRiceBet, exchangeSilverForGcc).
NothingMinted ==
    ~ host.overlap /\ host.ops \cap {"trade", "resolve"} = {} => SilverNeverMade

\* GCC comes out of an exchange only for silver that was burnt, at the rate.
GccBacked == Rate * SumOf(gcc, Npcs) <= SilverBurnt

\* No NPC exchanges more than the daily cap on one day.
ExchangeCapped ==
    InTurn => \A n \in Npcs, d \in Days : history.exchanged[n][d] <= DailyCap

\* The pools of a market are the sums of its stakes, whatever calls overlap or
\* are cut short: the record of the bets is replaced whole (placeRiceBet).
PoolsMatchStakes ==
    \A m \in Markets : bets[m].status = "open" =>
        \A s \in Sides : bets[m].pools[s] =
            SumOf([n \in Npcs |-> bets[m].stakes[n][s]], Npcs)

\* The reserves never leave the curve they were opened on: an overlapping
\* trade may be lost but never half applied (ammSwap, tradeRice).
PoolOnCurve == Product(pool) = OpeningPool * OpeningPool

\* A stake taken from a purse is on record in a market, where it will be paid
\* out or back (placeRiceBet).
EveryStakeRecorded ==
    InTurn /\ Quiet => \A n \in Npcs : history.staked[n] =
        SumOf([m \in Markets |-> bets[m].stakes[n]["YES"]
                               + bets[m].stakes[n]["NO"]], Markets)

\* Goods are conserved: purses, stalls and pools are well typed and neither
\* lose nor gain, at the strength each host allows.
GoodsConserved == TypeOK /\ SilverConserved /\ RiceConserved /\ NothingMinted

\* Stakes are accounted for, by staker and by pool.
StakesAccounted == EveryStakeRecorded /\ PoolsMatchStakes

\* The exchange keeps its two promises, the rate and the daily cap.
ExchangeKept == GccBacked /\ ExchangeCapped
=============================================================================
