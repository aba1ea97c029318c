------------------------------ MODULE WorldStf ------------------------------
(***************************************************************************)
(* The world as a state-transition function, packages/gamekit/src/stf:     *)
(* applyTx() of world-stf.ts with every transaction, the battle it calls,  *)
(* and the TickCommitter that archives what a tick did and anchors it.     *)
(*                                                                         *)
(* applyTx() is pure, so each transaction is an operator from a world to   *)
(* a world: a rejected transaction leaves the world as it was.  Absent     *)
(* numbers read as 0 in the code and are 0 here.  Names, engravings and    *)
(* times are left out; an event of the receipt stands for its transaction. *)
(* Fractions are avoided by exact swaps and payouts: see Offered.          *)
(***************************************************************************)
EXTENDS FiniteSetsExt, SequencesExt, Sums

CONSTANTS
    Ids,            \* NPCs and trading agents
    Players,        \* visitors
    Markets,        \* prediction markets
    Artifacts,      \* artifact ids, unique per creator, season and deed
    Rooms,
    Monster,        \* a wild opponent, whose stats come with the transaction
    Cap,            \* relationshipDeltaPerTurn of the persona
    AllowedEffects, \* allowedEffects of the persona
    MaxRounds,      \* MAX_ROUNDS
    None,
    Scripts         \* hosts: [genesis, offers, txs, ticks, faults]

ASSUME CapAssumption == Cap \in Nat
ASSUME RoundsAssumption == MaxRounds \in Nat \ {0}
ASSUME FinitelyMany == IsFiniteSet(Ids) /\ IsFiniteSet(Markets)

VARIABLES
    script,     \* the host of this behaviour
    world,      \* WorldState
    log,        \* transactions of the current tick, in order
    tick,       \* number of the current tick
    commit,     \* the running TickCommitter.commit(), or NoCommit
    drive,      \* blobs on Auto Drive
    anchors     \* what commitTick() recorded on chain, in order

stfVars == <<script, world, log, tick, commit, drive, anchors>>

Souls == Ids \cup Players
Sides == {"YES", "NO"}
NoStakes == [i \in Ids |-> [s \in Sides |-> 0]]
NoPools == [s \in Sides |-> 0]
NoBets == [status |-> "none", threshold |-> 0, stakes |-> NoStakes, pools |-> NoPools]

\* emptyWorld(): no NPC, no pool, nobody owns anything.
EmptyWorld ==
    [npcs |-> [i \in Ids |-> "none"], room |-> [i \in Ids |-> None], registry |-> {},
     gcc |-> [i \in Ids |-> 0], usdc |-> [i \in Ids |-> 0],
     rel |-> [i \in Ids |-> [s \in Souls |-> 0]], flags |-> [p \in Players |-> 0],
     combat |-> [i \in Ids |-> None], market |-> None,
     bets |-> [m \in Markets |-> NoBets],
     owner |-> [a \in Artifacts |-> None], inventory |-> [i \in Ids |-> <<>>]]

(***************************************************************************)
(* What a world and a transaction are made of: WorldState and WorldTx.     *)
(***************************************************************************)
Stats == [hp : Nat, atk : Int, def : Int, element : STRING, wounded : BOOLEAN]
Reserves == [rice : Nat, silver : Nat]
Books ==
    [status : {"none", "open", "resolved"}, threshold : Int,
     stakes : [Ids -> [Sides -> Nat]], pools : [Sides -> Nat]]
WorldStates ==
    [npcs : [Ids -> {"none", "draft", "active"}], room : [Ids -> Rooms \cup {None}],
     registry : SUBSET Ids, gcc : [Ids -> Nat], usdc : [Ids -> Nat],
     rel : [Ids -> [Souls -> Int]], flags : [Players -> Int],
     combat : [Ids -> Stats \cup {None}], market : Reserves \cup {None},
     bets : [Markets -> Books], owner : [Artifacts -> Ids \cup {None}],
     inventory : [Ids -> Seq(Artifacts)]]

\* An open book holds what was staked, any other nothing.
Balanced(book) ==
    \A s \in Sides :
        book.pools[s] = IF book.status = "open" THEN SumOf([i \in Ids |-> book.stakes[i][s]], Ids) ELSE 0

Effects == [kind : STRING, delta : Int, ok : BOOLEAN]
Transactions ==
    [type : {"createNpc"}, npc : Ids, status : {"draft", "active"}, room : Rooms]
    \cup [type : {"activate"}, npc : Ids, amount : Nat]
    \cup [type : {"donate"}, npc : Ids, amount : Int]
    \cup [type : {"move"}, npc : Ids, room : Rooms]
    \cup [type : {"applyTalk"}, npc : Ids, player : Players, effects : Seq(Effects), cost : Nat]
    \cup [type : {"luckEvent"}, npc : Ids, player : Players, factor : Int, delta : Int, affinity : Int]
    \cup [type : {"battle"}, npc : Ids, foe : Ids, seed : SUBSET Nat]
    \cup [type : {"battle"}, npc : Ids, foe : {Monster}, seed : SUBSET Nat, stats : Stats]
    \cup [type : {"forgeArtifact"}, npc : Ids, artifact : Artifacts]
    \cup [type : {"initMarket"}, rice : Nat, silver : Nat]
    \cup [type : {"trade"}, npc : Ids, side : {"buy", "sell"}, amount : Int]
    \cup [type : {"dividend"}, amount : Nat]
    \cup [type : {"openMarket"}, market : Markets, amount : Int]
    \cup [type : {"bet"}, npc : Ids, market : Markets, side : Sides, amount : Int]
    \cup [type : {"resolveMarket"}, market : Markets]

ASSUME DistinctAssumption == Monster \notin Ids /\ None \notin Reserves
ASSUME ScriptAssumption ==
    \A s \in Scripts :
        /\ s.genesis \in WorldStates /\ (\A m \in Markets : Balanced(s.genesis.bets[m]))
        /\ s.offers \subseteq Transactions

NotNegative(n) == IF n < 0 THEN 0 ELSE n
Known(w, i) == w.npcs[i] # "none"

(***************************************************************************)
(* Life cycle, donations, moves.                                           *)
(***************************************************************************)
CreateNpc(w, tx) ==
    [w EXCEPT !.npcs[tx.npc] = tx.status, !.room[tx.npc] = tx.room,
              !.registry = IF tx.status = "active" THEN @ \cup {tx.npc} ELSE @]

Activate(w, tx) ==
    IF ~Known(w, tx.npc) THEN w
    ELSE [w EXCEPT !.npcs[tx.npc] = "active", !.gcc[tx.npc] = tx.amount,
                   !.registry = @ \cup {tx.npc}]

Donate(w, tx) ==
    IF ~Known(w, tx.npc) THEN w
    ELSE [w EXCEPT !.gcc[tx.npc] = @ + NotNegative(tx.amount)]

Move(w, tx) ==
    IF ~Known(w, tx.npc) THEN w ELSE [w EXCEPT !.room[tx.npc] = tx.room]

(***************************************************************************)
(* applyTalk: the effects that pass DefaultGameRules.validate(), in order, *)
(* then the burn.  An effect that is handed to the host changes nothing.   *)
(***************************************************************************)
\* e.ok: the reason, flag, quest or place is not blank, the item is well formed.
Validate(e) ==
    /\ e.kind \in AllowedEffects
    /\ e.ok
    /\ e.kind = "adjustRelationship" => e.delta \in -Cap..Cap

Enact(w, tx, e) ==
    CASE Validate(e) /\ e.kind = "adjustRelationship" -> [w EXCEPT !.rel[tx.npc][tx.player] = @ + e.delta]
      [] Validate(e) /\ e.kind = "setFlag" -> [w EXCEPT !.flags[tx.player] = e.delta]
      [] OTHER -> w

ApplyTalk(w, tx) ==
    LET told[n \in 0..Len(tx.effects)] == IF n = 0 THEN w ELSE Enact(told[n - 1], tx, tx.effects[n])
    IN  [told[Len(tx.effects)] EXCEPT !.gcc[tx.npc] = NotNegative(@ - tx.cost)]

\* luckEvent: a factor, a delta, or both, never below zero.
LuckEvent(w, tx) ==
    IF ~Known(w, tx.npc) THEN w
    ELSE [w EXCEPT !.gcc[tx.npc] = NotNegative(@ * tx.factor + tx.delta),
                   !.rel[tx.npc][tx.player] = @ + tx.affinity]

(***************************************************************************)
(* battle.  resolveBattle() draws from a generator seeded by the           *)
(* transaction: a seed stands for the draws that come out high.  A fighter *)
(* strikes only while both stand; the stronger attacker begins; after      *)
(* MaxRounds the healthier wins, the attacker on a tie.                    *)
(***************************************************************************)
Draw(seed, n) == IF n \in seed THEN 1 ELSE 0

Damage(from, to, seed, n) ==
    Max({1, from.atk + Draw(seed, n) - to.def - (IF from.element = to.element THEN 1 ELSE 0)})

\* One turn: the n-th blow of a fight f = [hp, n], struck by s against t.
Blow(f, s, t, stats, seed) ==
    IF f.hp[s] <= 0 \/ f.hp[t] <= 0 THEN f
    ELSE [hp |-> [f.hp EXCEPT ![t] = NotNegative(@ - Damage(stats[s], stats[t], seed, f.n))],
          n |-> f.n + 1]

Bout(a, b, stats, seed) ==
    LET first == IF stats[a].atk >= stats[b].atk THEN a ELSE b
        Rival(s) == IF s = a THEN b ELSE a
        Round(f) == Blow(Blow(f, first, Rival(first), stats, seed),
                         Rival(first), Rival(Rival(first)), stats, seed)
        fight[r \in 0..MaxRounds] ==
            IF r = 0 THEN [hp |-> [s \in {a, b} |-> stats[s].hp], n |-> 0] ELSE Round(fight[r - 1])
    IN  fight[MaxRounds].hp

\* Faulty variant: on time the stronger arm wins.
VerdictByArm(a, b, stats, hp) == IF stats[a].atk >= stats[b].atk THEN a ELSE b

Verdict(a, b, stats, hp) == IF hp[a] >= hp[b] THEN a ELSE b

ResolveBattle(a, b, stats, seed) ==
    LET hp == Bout(a, b, stats, seed)
        winner == Verdict(a, b, stats, hp)
    IN  [hp |-> hp, winner |-> winner, loser |-> IF winner = a THEN b ELSE a]

Fighters(w, tx) ==
    [s \in {tx.npc, tx.foe} |-> IF s = Monster THEN tx.stats ELSE w.combat[s]]

CanFight(w, s) == s = Monster \/ (Known(w, s) /\ w.combat[s] # None)

Battle(w, tx) ==
    IF ~CanFight(w, tx.npc) \/ ~CanFight(w, tx.foe) THEN w
    ELSE LET a == tx.npc
             b == tx.foe
             end == ResolveBattle(a, b, Fighters(w, tx), tx.seed)
             Grudge(s) == IF end.winner = s THEN -2 ELSE -6
             hurt == [w EXCEPT !.combat = [i \in Ids |->
                         IF i \notin {a, b} THEN w.combat[i]
                         ELSE [w.combat[i] EXCEPT !.hp = end.hp[i],
                                                  !.wounded = @ \/ i = end.loser]]]
         IN  CASE b = Monster -> hurt
               [] a = b -> [hurt EXCEPT !.rel[a][a] = @ + Grudge(a)]
               [] OTHER -> [hurt EXCEPT !.rel[a][b] = @ + Grudge(a),
                                        !.rel[b][a] = @ + Grudge(b)]

\* forgeArtifact: the record is overwritten, the inventory only grows.
ForgeArtifact(w, tx) ==
    IF ~Known(w, tx.npc) THEN w
    ELSE [w EXCEPT !.owner[tx.artifact] = tx.npc, !.inventory[tx.npc] = Append(@, tx.artifact)]

(***************************************************************************)
(* The pool and the prediction markets.                                    *)
(***************************************************************************)
InitMarket(w, tx) == [w EXCEPT !.market = [rice |-> tx.rice, silver |-> tx.silver]]

\* ammSwap(): x * y = k.
AmmSwap(m, side, amount) ==
    IF side = "buy"
    THEN LET silver == m.silver + amount IN [silver |-> silver, rice |-> (m.rice * m.silver) \div silver]
    ELSE LET rice == m.rice + amount IN [rice |-> rice, silver |-> (m.rice * m.silver) \div rice]

Trade(w, tx) ==
    IF \/ w.market = None
       \/ tx.amount <= 0
       \/ (IF tx.side = "buy" THEN w.usdc ELSE w.gcc)[tx.npc] < tx.amount
    THEN w
    ELSE LET after == AmmSwap(w.market, tx.side, tx.amount)
         IN  [w EXCEPT !.market = after,
                       !.gcc[tx.npc] = @ + w.market.rice - after.rice,
                       !.usdc[tx.npc] = @ + w.market.silver - after.silver]

Dividend(w, tx) == [w EXCEPT !.usdc = [i \in Ids |-> @[i] + NotNegative(w.gcc[i]) * tx.amount]]

OpenMarket(w, tx) ==
    IF w.bets[tx.market].status # "none" THEN w
    ELSE [w EXCEPT !.bets[tx.market] = [NoBets EXCEPT !.status = "open", !.threshold = tx.amount]]

Bet(w, tx) ==
    LET m == w.bets[tx.market]
    IN  IF m.status # "open" \/ tx.amount <= 0 \/ w.usdc[tx.npc] < tx.amount THEN w
        ELSE [w EXCEPT !.usdc[tx.npc] = @ - tx.amount,
                       !.bets[tx.market] = [m EXCEPT !.stakes[tx.npc][tx.side] = @ + tx.amount,
                                                     !.pools[tx.side] = @ + tx.amount]]

\* Faulty variant: nobody is refunded when nobody backed the winning side.
PayoutNoRefund(m, side, st) ==
    IF m.pools[side] = 0 THEN 0
    ELSE (st[side] * (m.pools["YES"] + m.pools["NO"])) \div m.pools[side]

\* What a staker with stake st is paid when side wins; everybody is refunded
\* when nobody backed it.
Payout(m, side, st) ==
    IF m.pools[side] = 0 THEN st["YES"] + st["NO"]
    ELSE (st[side] * (m.pools["YES"] + m.pools["NO"])) \div m.pools[side]

ResolveMarket(w, tx) ==
    LET m == w.bets[tx.market]
    IN  IF m.status # "open" \/ w.market = None THEN w
        ELSE LET side == IF w.market.silver >= m.threshold * w.market.rice THEN "YES" ELSE "NO"
             IN  [w EXCEPT !.usdc = [i \in Ids |-> @[i] + Payout(m, side, m.stakes[i])],
                           !.bets[tx.market] = [m EXCEPT !.status = "resolved", !.pools = NoPools]]

\* Whichever side wins, what each of its stakers is paid is a whole number.
Whole(m) ==
    \A i \in Ids, side \in Sides :
        m.pools[side] # 0 => (m.stakes[i][side] * (m.pools["YES"] + m.pools["NO"])) % m.pools[side] = 0

\* applyTx(): the switch over the fifteen transactions.
ApplyTx(w, tx) ==
    CASE tx.type = "createNpc" -> CreateNpc(w, tx)
      [] tx.type = "activate" -> Activate(w, tx)
      [] tx.type = "donate" -> Donate(w, tx)
      [] tx.type = "move" -> Move(w, tx)
      [] tx.type = "applyTalk" -> ApplyTalk(w, tx)
      [] tx.type = "luckEvent" -> LuckEvent(w, tx)
      [] tx.type = "battle" -> Battle(w, tx)
      [] tx.type = "forgeArtifact" -> ForgeArtifact(w, tx)
      [] tx.type = "initMarket" -> InitMarket(w, tx)
      [] tx.type = "trade" -> Trade(w, tx)
      [] tx.type = "dividend" -> Dividend(w, tx)
      [] tx.type = "openMarket" -> OpenMarket(w, tx)
      [] tx.type = "bet" -> Bet(w, tx)
      [] tx.type = "resolveMarket" -> ResolveMarket(w, tx)
      [] OTHER -> w

\* applyAll(): a replay.
ApplyAll(w, txs) ==
    LET after[n \in 0..Len(txs)] == IF n = 0 THEN w ELSE ApplyTx(after[n - 1], txs[n])
    IN  after[Len(txs)]

(***************************************************************************)
(* The host: transactions, and one commit() per tick, awaited before the   *)
(* next tick's; a commit that throws is retried with the same arguments.   *)
(***************************************************************************)
NoCommit == [pc |-> "none"]

StfInit ==
    /\ script \in Scripts
    /\ world = script.genesis
    /\ log = <<>>
    /\ tick = 0
    /\ commit = NoCommit
    /\ drive = {}
    /\ anchors = <<>>

\* The host's inputs: ids are created once (SharedWorld refuses a taken id,
\* artifactId() is unique per deed), swaps and payouts leave no remainder.
Offered(w, tx) ==
    /\ tx.type = "createNpc" => ~Known(w, tx.npc)
    /\ tx.type = "forgeArtifact" => w.owner[tx.artifact] = None
    /\ tx.type = "initMarket" => w.market = None
    /\ tx.type = "trade" /\ w.market # None =>
           LET after == AmmSwap(w.market, tx.side, tx.amount)
           IN  after.rice * after.silver = w.market.rice * w.market.silver
    /\ tx.type = "resolveMarket" => Whole(w.bets[tx.market])

Apply(tx) ==
    /\ Len(log) < script.txs
    /\ tx \in script.offers
    /\ Offered(world, tx)
    /\ world' = ApplyTx(world, tx)
    /\ log' = Append(log, tx)
    /\ UNCHANGED <<script, tick, commit, drive, anchors>>

\* commit() hashes the state and builds the blob before its first await.
BeginCommit ==
    /\ commit.pc = "none"
    /\ tick < script.ticks
    /\ commit' = [pc |-> "upload", blob |-> [tick |-> tick, events |-> log, root |-> world]]
    /\ log' = <<>>
    /\ tick' = tick + 1
    /\ UNCHANGED <<script, world, drive, anchors>>

Upload ==
    /\ commit.pc = "upload"
    /\ drive' = drive \cup {commit.blob}
    /\ commit' = [commit EXCEPT !.pc = "anchor"]
    /\ UNCHANGED <<script, world, log, tick, anchors>>

\* Faulty variant: the root is taken from the world as it is after the upload.
AnchorLive ==
    /\ commit.pc = "anchor"
    /\ anchors' = Append(anchors, [root |-> world, eventsHash |-> commit.blob])
    /\ commit' = NoCommit
    /\ UNCHANGED <<script, world, log, tick, drive>>

\* commitTick(stateRoot, eventsHash): the contract call carries no tick number.
Anchor ==
    /\ commit.pc = "anchor"
    /\ anchors' = Append(anchors, [root |-> commit.blob.root, eventsHash |-> commit.blob])
    /\ commit' = NoCommit
    /\ UNCHANGED <<script, world, log, tick, drive>>

\* A call throws, or its answer is lost after it took effect; the host retries
\* the whole commit.
CommitFails ==
    /\ script.faults /\ commit.pc # "none"
    /\ Len(anchors) < 2 * script.ticks
    /\ \/ UNCHANGED <<drive, anchors>>
       \/ commit.pc = "upload" /\ drive' = drive \cup {commit.blob} /\ UNCHANGED anchors
       \/ /\ commit.pc = "anchor"
          /\ anchors' = Append(anchors, [root |-> commit.blob.root, eventsHash |-> commit.blob])
          /\ UNCHANGED drive
    /\ commit' = [commit EXCEPT !.pc = "upload"]
    /\ UNCHANGED <<script, world, log, tick>>

StfNext ==
    \/ \E tx \in script.offers : Apply(tx)
    \/ BeginCommit
    \/ Upload
    \/ Anchor
    \/ CommitFails

(***************************************************************************)
(* Properties.                                                             *)
(***************************************************************************)
Gcc(w) == SumOf(w.gcc, Ids) + (IF w.market = None THEN 0 ELSE w.market.rice)
Staked(w) == [m \in Markets |-> w.bets[m].pools["YES"] + w.bets[m].pools["NO"]]
Usdc(w) ==
    SumOf(w.usdc, Ids) + (IF w.market = None THEN 0 ELSE w.market.silver) + SumOf(Staked(w), Markets)

\* The transactions that create or destroy money.
Issuing == {"activate", "donate", "applyTalk", "luckEvent", "dividend", "initMarket"}

\* Every other transaction moves GCC and USDC between purses, the pool and the
\* stakes without creating or losing any: a bet is paid out or refunded in
\* full, a swap gives what the pool loses (trade, bet, resolveMarket).
ValueConserved ==
    [][ Len(log') > Len(log) /\ Last(log').type \notin Issuing =>
            Gcc(world') = Gcc(world) /\ Usdc(world') = Usdc(world) ]_stfVars

\* The fighter that leaves a battle with the deeper grudge, the loser, is left
\* with no more health than the other, on a knock-out and on time alike
\* (resolveBattle, battle).
VictorStands ==
    [][ Len(log') > Len(log) /\ Last(log').type = "battle" =>
          \A i, j \in Ids :
              i # j /\ world'.rel[i][j] = world.rel[i][j] - 6 =>
                  world'.combat[i].hp <= world'.combat[j].hp ]_stfVars

\* What the chain holds can be checked and replayed by anybody: every anchor's
\* blob is on the drive with the same root, and applying the blob's events to
\* the state anchored before gives the anchored state; a retry repeats an
\* anchor, and never skips or reorders a tick (TickCommitter.commit).
AnchorsReplay ==
    \A k \in DOMAIN anchors :
        LET a == anchors[k]
            before == IF k = 1 THEN script.genesis ELSE anchors[k - 1].root
        IN  /\ a.eventsHash \in drive
            /\ a.eventsHash.root = a.root
            /\ \/ ApplyAll(before, a.eventsHash.events) = a.root
               \/ k > 1 /\ a = anchors[k - 1]
=============================================================================
