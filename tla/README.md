# Specifications of aigg-agent-kit

TLA+ modules, TLC configurations and TLAPS proofs for the AI NPC agent kit and
its inference market. Source paths below are relative to the repository root.
Every definition that stands for code is listed with its lines in
`PROJECT.json` ("map"); this file explains how the pieces fit.

## 1. The system

Two halves share one repository.

* **The inference market** (`ai3-inference/`). Users prepay providers on a
  chain and sign one voucher per request; a provider's gateway serves requests
  against vouchers and settles them in batches.
* **The NPC world** (`packages/`, `contracts/`, `proxy/`). Language-model driven
  characters live in a `SharedWorld`: they are funded with GCC (on-chain), earn
  and spend silver and rice (game currency), and their state lives in stores
  with a fast tier and a permanent one.

### Inventory

| Component | State | Operations | Hard behaviour | What makes it correct |
|---|---|---|---|---|
| `InferenceLedger.sol` | free funds, escrow per (user, provider), earnings, pending exits, nonce bitmap | deposit, transferTo, withdrawUnallocated, requestRefund, withdrawRefund, settle, providerWithdraw | batches over many users, exit racing settlement, top-up of an exit | solvent; escrow debited only by live signed vouchers or a matured exit; no exit before the window |
| voucher client (`packages/voucher`) | none | sign, encode, find a free nonce | numeric edges of the bitmap | the nonce it offers is free on chain |
| voucher gateway (`stub-gateway.ts`, `ledger.ts`) | local nonce guard, pending settlements, one handler per request | 402 gate, serve, settleNow | awaits between check and use, lost batches, RPC errors after mining | one voucher buys one answer; every answer is paid or accounted for; nobody pays for a refusal; every request ends |
| `ServiceRegistry.sol`, broker | service list with bonds; the service a client chose | register, update, deactivate, list; choose, call, fall back | a choice outliving a rotation; a refund that calls back | one bond per active listing; a stamp rests on the listing's own checked quote |
| serving broker (`zerog-broker-provider.ts`) | the supplier picked, acknowledged signers | prewarm, complete | calls at boot overlap the first lines; an acknowledgement whose answer is lost | no prompt before the signer is acknowledged on chain |
| attestation (`packages/verify`, `core`) | the check under way or done | verify response, verify quote, tier ceiling | one check shared by calls, failures, other keys | only answers of the attested key are stamped, at most at the image's tier |
| `AutoDriveStore` | chain of nodes per key, head index | get, set, delete, history | overlapping sets, lost answers | history only grows |
| `TieredStore` | hot tier, write-behind queue | get, set, delete, flush | retries, order, crash, read-through | archive agrees with hot tier; nothing lost in silence; reads never go back; the queue drains |
| `SharedWorld`, GCC | drafts, records, registry, balances, settlement layer | createNpc, activate, fund, donate, debit, talk, pitch | every method is a read-modify-write around awaits | top-ups only add, spending never adds, activation happens once, active NPCs are listed |
| `SharedWorld`, silver | purses, granaries, rice market, bets, daily totals | grant, transfer, trade, bet, resolve, exchange | several writes per method, shared records | conservation, stakes on record, daily cap |
| `SharedWorld`, the rest | relationships, needs, goto queue, trajectory, artifacts, diary, bare keys of older versions | talk, gossip, overhear, adjustAffinity, place, hunt, forge, dream, snapshot | shared read-modify-write, recursion of overhearing, migration by a reader | no lost affinity, bounded recursion, nothing lost in migration |
| world STF (`world-stf.ts`) | one world state | fifteen transactions | replays must agree | determinism, conservation, no resurrection |
| oracles, attestation verifier | none of their own | produce, verify | model output is untrusted | effects are validated before they apply |
| `TickCommitter` | blob store and anchor | commit | crash between upload and anchor | an anchor always has its blob |
| `PlanExecutor` | step queue, current step, goto inbox | runTick, loadFromMemory, pushGoto | directives and reloads arrive while a tick awaits | no step is lost or done twice; directives lead; every step ends |
| `Fair` | last prices, warnings given | runTick | a snapshot of rooms used after awaits; failing warnings | a warning is given once, to those present, about what happened there |
| actions (`actions/`) | momentum, needs | build context, choose, resolve | the model's amounts and a context read before it answered | turns make no silver |
| merchant menu, menu NPCs (`aigg/`) | session, pending preview, menu registry | visit, select, preview, confirm; seed | late or lost answers, lost keys, restarts | charged once, and only for what was shown and confirmed |
| AIGG clients, activation | decimals cache | exec, balances, catalogues | timeouts, partial failures | one key per preview; own balances only |
| agent runtime (`npc-agent`) | ledger, metabolism tiers, needs | perceive, resolve, settle | clamps, caps | effects stay within the persona's scope |
| on-chain kit (`packages/onchain`) | index registry, permit nonces, MUD tables, native balance | derive, sign, settle, reconcile | crash before persistence, overlapping permits, lost answers, gas | books show what was paid; a reconcile converges |
| `KvWorld.sol`, `OnchainPalNPC.sol` | records and delegations; tokens | set, delegate; mint | who may write | only owners and delegates write |
| proxy | rate windows, per-NPC ledger, donation cache | chat, ledger, donations | window boundary | less than twice the rate in any minute |
| cognition | beliefs, trust, blacklist, rap sheet, loans | recall, learn, warn, vote, sanction, lend | services fail, votes and warnings overlap | nobody is banned on rumour; bans are not cut short |
| replay, 0G storage, scripts | recording; none; none | record, validate; upload; publish | - | recordings validate |

### How components interact

* The gateway reads the ledger contract (clock, nonce, escrow), then sends it
  batches. Users act on the contract at the same time. `VoucherGateway` is the
  composition: it extends `InferenceLedger` and adds the gateway's variables.
* `TieredStore` calls `AutoDriveStore` - from the caller in synchronous mode,
  from its queue in write-behind mode. The module instantiates
  `AutoDriveStore` on its own variables.
* `SharedWorld` reads and writes one `Store`, asks an activator, an oracle and a
  settlement layer. Its methods interleave at their awaits; the pure STF runs
  inside one of them.
* `PlanExecutor`, `Fair`, the actions and the host call `SharedWorld`; nothing in
  the code serialises those calls. The host drains the goto inbox that talk fills.
* A host turns the world's transactions into ticks: `applyTx`, then
  `TickCommitter.commit` to a drive and an anchor. Oracles stand between a model's
  answer and the transaction that applies it.
* The broker reads the registry, calls the chosen endpoint and lets the verifier
  decide on a stamp. An NPC may ask a serving broker of the chain instead, which
  picks a supplier and acknowledges its signer itself. The proxy meters what it
  forwards for NPCs.
* A menu session holds the handler of the next input; the host dispatches it. A
  confirmed preview goes to ai.gg under the key of the preview.
* An NPC's inference is settled by a wallet derived from its index; the book of it
  is kept in a store that may be a KvWorld on chain.
* Cognition calls a memory kernel and a trust store, both of which may fail.

## 2. Modules

| Module | Stands for | Notes |
|---|---|---|
| `Sums` | - | sum of a function over a set, as a cardinality so that it can be proved about |
| `SumTheorems` | - | lemmas about sums: type, update, union, monotone, by key, scaled, by support, constant; induction over subsets and intervals; products, quotients; orbits of a function |
| `InferenceLedger` | `contracts/src/market/InferenceLedger.sol` | one action per external function, reverts are not steps |
| `MCInferenceLedger` | - | TLC instance |
| `VoucherGateway`, `MCVoucherGateway` | `conformance/src/harness/stub-gateway.ts`, `ledger.ts` | extends `InferenceLedger` |
| `AutoDriveStore` | `packages/npc-agent/src/store/auto-drive-store.ts` | the archive; checked inside `TieredStore` |
| `TieredStore`, `MCTieredStore` | `packages/npc-agent/src/store/tiered-store.ts` | instantiates `AutoDriveStore` |
| `TieredStoreProofs` | - | the proofs about both |
| `GccAccounts` | the promise of the GCC accounts | abstract: every call is one atomic entry |
| `SharedWorldGcc`, `MCSharedWorldGcc` | GCC and life cycle in `packages/gamekit/src/shared-world.ts` | refines `GccAccounts` when calls on one NPC do not overlap |
| `SharedWorldGccProofs` | - | the proofs about it, the refinement included |
| `PlanExecutor`, `MCPlanExecutor` | `packages/gamekit/src/plan-executor.ts` | with the goto inbox of `shared-world.ts` |
| `PlanExecutorProofs` | - | the proofs about it, the breadth-first search included |
| `SharedWorldSilver`, `MCSharedWorldSilver` | silver, rice, bets, exchange in `shared-world.ts`, with `stf/world-stf.ts` | |
| `SharedWorldSilverProofs` | - | the proofs about it |
| `SharedWorldSocial` | talk, overhear, pitch, gossip, theft, affinity, goto inbox in `shared-world.ts`; `npc-agent/src/memory/relationship.ts` | calls are jobs, split at awaits |
| `SharedWorldLife` | `getScoped`, registry, forging, dreams, log, thoughts, `backfillSilver`, snapshot in `shared-world.ts` | one read-modify-write scheme for all values of a world |
| `FairTick` | `packages/gamekit/src/fair.ts` | over `SharedWorldSocial` |
| `ActionLoop` | `packages/gamekit/src/actions/*`, needs, hunt | over `SharedWorldSocial` |
| `WorldStf`, `MCWorldStf` | `packages/gamekit/src/stf/world-stf.ts`, `resolve-battle.ts`, `luck.ts`, `tick-committer.ts` | fifteen transactions, commits, replay |
| `Oracles` | `stf/*-oracle.ts`, `attestation-verifier.ts`, `llm-agent.ts` | over `WorldStf` |
| `Cognition` | `packages/cognition/src` | over the fake kernel of the package |
| `WorldProofs` | - | the proofs about the guild, `SharedWorldLife`, `SharedWorldSocial`, the fair, the turns, the STF with its commits, and the oracles |
| `Market` | `ServiceRegistry.sol`, `autoinf-broker-provider.ts`, `packages/verify` | contract, clients and verifier together; extends `ServingBroker` |
| `ServingBroker` | `packages/npc-agent/src/inference/zerog-broker-provider.ts` | the broker SDK is external |
| `Proxy` | `proxy/server.mjs` | |
| `Donations` | `proxy/donations.mjs` | used by `Proxy` |
| `InferenceProofs` | - | the proofs about the ledger, the gateway, the market, the serving broker, the proxy and its donations |
| `MerchantMenu` | `aigg/merchant-menu.ts`, `menu-npc.ts`, `platform-npcs.ts`, `aigg-exec-client.ts`, `chain-balances.ts` | |
| `OnchainPay` | `packages/onchain`: index registry, permit and EIP-3009 settlement, MudStore; `KvWorld.sol`; `gcc-ledger.ts` | |
| `NativeSettlement` | `packages/onchain/src/native-0g-settlement.ts`, `viem-native-chain.ts` | |
| `EconomyProofs` | - | the proofs about the menus, the payments and the native balance |
| `MCGateway`, `MCEconomy`, `MCWorld` | - | each puts several models into one run: `part` says which of them a behaviour explores, the others stay in one initial state |

**InferenceLedger.** The Solidity mappings are functions; the nonce bitmap is a
set of slots; `held` is the contract's coin. A signature is membership in
`signed`. `requestedAt` is a history variable, read by a property only.
Functions update storage before they send coin, so a re-entrant call is an
ordinary later step. `settle` walks its batch and reverts as a whole; since
fees are not negative this is the same as checking all items, the absence of
repeated nonces, and each user's total against the escrow, which is what
`Accepts` says. Arithmetic is natural: Solidity 0.8 reverts on overflow and the
total supply of the coin is far below it.

**VoucherGateway.** A handler is a sequence of steps, one per awaited RPC:
`ReadClock`, `ReadNonce`, `Serve` or `RejectAtBalance`, `SettleForRequest`. The
code between two awaits belongs to the step of the read before it. The step
that settles covers every outcome of an RPC: mined and reported, mined and
reported as failed, refused. Reverts come from the contract model, not from a
coin flip.

**AutoDriveStore, TieredStore.** `set` awaits three calls and is three steps;
each may fail with or without its effect. A crash empties the hot tier and the
queue and leaves the archive. A value is the number of its write, so the order
of values is the order of writes. `Forget` is the host dropping a head in the
archive, as the class comment advises.

**SharedWorldGcc, SharedWorldSilver.** `LayerDeposit` and `LayerWithdraw` are the
settlement layer's two operations, on the domain's balances and the GCC in custody
together. A call carries what it has read; each
read or write of the store is a step. In-process calls that do not reach a real
await (a settlement layer in memory) take effect in one step. Silver is natural
where the code has doubles; trades and payouts that do not divide evenly are
left out, by the guards `Whole` and `WholePayouts`.

**PlanExecutor.** A tick is one step per await: the plan, the NPC's record, the
roster, then a move or a talk. What the code computes between two awaits, the
breadth-first search included, belongs to the step of the read before it. A
text is abstracted to the persons it names and the room of its alias. `owed` is
a history variable: what was handed over, less what a tick ended or a reload
withdrew. Two things are left to the host, as the tests and `fair.ts` have it:
it awaits a tick before it starts the next one, and nobody else places the NPC
it drives (`skip` in `FairTick`). Two overlapping ticks share `current`, which
each clears after its awaits; steps are then lost and repeated.

**SharedWorldSocial, FairTick, ActionLoop.** A call in progress is a job; overhearing
is a job that `talk` leaves behind. `shost` is the day that is explored: who is
where, how many calls overlap, which calls are made. A fair and the action loop use
the operators of the social module for the calls they make. Regard is an integer;
a line's effects come from a small set. Unmodelled on purpose: what the model says.

**SharedWorldLife.** Each list or purse of a world is a cell. A call is a sequence
of awaits (`Awaits`), each a read of a cell, a write of it or something else;
`getScoped` is a read that may take a second step, the move of a bare value.
`backfillSilver` tells a missing purse from an empty one, the other readers do not.
`told` is what each cell would hold if an update were one step. `crossed` holds the
cells that a call wrote while another one held a value of it that it was going to
write, or had been let in by: what those updates lose is lost.

**WorldStf, Oracles.** `applyTx` is one operator with a branch per transaction, and
a replay folds it over a log. A commit hashes before its first await, as the code
does; the hash is injective. Fights have integer damage; a seed is the set of draws
that come out high, for any draws at all. The host's transactions are those whose
swaps and payouts leave no remainder (`Offered`, `Whole`). `Oracles` nests the
planning oracle around the reflecting one, so that a raised cost counts.

**Cognition.** A call is a task split at its awaits. `lived` and `decrees` are
histories: what happened to whom, and what was enacted. Trust is counted in
twentieths, the unit of the package's deltas.

**Market.** Listings are records; an enclave answers with its own key. The points of
`verifyQuoteOnce` and `verifyResponse` between which nothing is awaited are one step.
Refunds are a stack, since a receiver may call the registry back. `MarketSpec` puts
the market and the serving broker side by side; they share nothing.

**ServingBroker.** Calls of one provider object share the supplier and the signers
acknowledged so far. An acknowledgement may fail after it was mined. What the SDK's
`processResponse` says of an answer is a free choice.

**MerchantMenu.** A session's handler is what the next input goes to. Requests on
the wire are in `execs`: ai.gg serves each key once, at any time, and the client may
have given up by then. ai.gg's memory of keys does not expire in the model. The code
treats a failed step in two ways (the estimate asks for another input, the
confirmation expects to be dropped); the model lets the host do either.

**OnchainPay, NativeSettlement.** Tokens are balances per wallet. A permit carries
the nonce that was read; the token takes only the next one. In the native model a
transaction is pending until mined, and a call that stops waiting returns its hash.

**Deployments.** What a deployment fixes once is a variable that `Init` chooses
and no step changes: `limit` (requests a gateway handles at a time),
`asyncArchive`, `layered` (a settlement layer is wired), `host` (which methods
the host calls, whether calls overlap, whether a method may be cut short). One
run then explores several deployments, and a property that holds only in some
names them in its premise, `OneAnswerInTurn` for one. How the
host calls the GCC methods is a constant: `OneCallPerNpc`, `UniqueIds`,
`KnownNpcs`.

## 3. What the runs show

Passing runs state what the code does guarantee, and under which conditions of
use. Each of their properties is known to be breakable: a faulty variant of a
definition stands next to it in the module, and TLC finds the property violated
with it.

| Run | Question | Bounds | Properties |
|---|---|---|---|
| `InferenceLedger` | can any order of calls break the books? | 2 users, 1 provider, 2 nonces, amounts 1-2, fees 0-1, window 1, clock 0-2, 2 signed vouchers, batches of 2 | Solvent, EscrowDebitsAuthorised, ExitNeedsWholeWindow |
| `Gateway` (gateway) | is every answer accounted for, is a refusal free, does every request end? | 2 requests, 1 or 2 at a time, 2 vouchers, batches of 2, RPC faults, one user who may exit | OneAnswerInTurn, AnsweredIsAccounted, ChargedOnlyIfServed, EveryRequestEnds |
| `Gateway` (market) | is a stamp worth its name, does the registry hold its bonds? | 2 sellers, 2 enclaves, 3 listings, pages of 1, 2 overlapping calls, 3 edits, refunds nested twice | MarketKept |
| `Gateway` (serving) | does a serving broker ask anybody it has not acknowledged? | 2 suppliers, 2 overlapping lines, 4 calls | MarketKept |
| `Gateway` (proxy) | what does the limiter let through in any minute? | rate 2, minute of 2 ticks, clock 6, 5 posts | ProxyKept |
| `Gateway` (donations) | how recent is a view? | 1 NPC with a token, 2 donors, 3 gifts of 1 or 2, 2 views | ProxyKept |
| `Tiered` | does the mirror keep its promises, in both modes? | 1 caller, 3 writes, 2 attempts each, 2 keys (1 durable), 7 nodes, a crash, a dropped head per key | MirrorAgrees, HistoryInOrder, NothingSilentlyLost, ArchiveAppendOnly, ReadsNeverGoBack, QueueDrains |
| `Gcc` | is it enough that no two calls are on one NPC, and does the layer ever mint? | 2 NPCs, 2 calls, with and without a layer, balances to 3 | AccountsSound, EntriesAreAtomic |
| `Silver` (silver) | what do the economy's methods keep - one at a time, cut short, overlapping? | 2 NPCs, 1 market, 2 calls, 2 days, the nine hosts of `ManyHosts` | GoodsConserved, StakesAccounted, PoolOnCurve, ExchangeKept |
| `Silver` (seed, walk, buy) | do menus charge what was agreed, once? | 2 visitors, one sum, 3 requests, 2 processes, one lost key while buying | MenuKept |
| `Silver` (pay) | do the books show what was paid? | 2 servers, 2 NPCs, 2 bills of 1, funds 2, a restart, one call of the owner | BookBacked |
| `Silver` (native) | does a reconcile converge? | 2 calls at a time, 5 opening balances, gas 1 or 3 that moves once, amounts 0 and 3, reserve 2, dust 2 | Reconciled |
| `Plan` | does a walk survive directives, reloads and failures? | 5 rooms, 2 street graphs, 2 others, 2 directives, 2 plans, 2 disturbances | StepsKept, DirectivesLead, WalksShortestPath, EveryStepEnds |
| `World` (stf) | do transactions, commits and oracles keep money, fights and history? | 3 NPCs, the scripts of `AllScripts`: 5 trades and bets, 3 blows, 4 transactions of life, 2 ticks with failing commits, 4 turns that think | ValueConserved, VictorStands, AnchorsReplay, ReserveKept, ProvenIsAttested |
| `World` (calls, fair, turns) | what does a town keep? | 3 NPCs, 2 visitors, 5 call days of 2 to 4 calls, in one or two lanes, one with mints; a fair of 3 ticks; 2 or 3 turns | OneInterjection, RelationshipsKept, BurnedOnce, NewsTravels, SilverAccounted |
| `World` (guild) | can a rumour ban anybody? | 3 members, 1 peer, 1 claim, 2 overlapping tasks, the days of `GuildDays` | PolityKept |
| `World` (life) | what survives migration, overlap and a host that dies? | 3 calls, 2 at a time, lists of 2 entries, the ages of `WorldAges` | RegistryKept |

Each property is a conjunction of named parts where that is easier to read. Some of
them, in a line each:

* **MarketKept** - the contract's coin is one bond per active listing, also in the
  middle of a refund; a stamp stands for a quote of that listing that was checked; a serving broker posts
  a prompt, and signs an answer as verified, only with suppliers acknowledged on chain.
* **ProxyKept** - a fixed window lets fewer than twice its rate through per minute; a
  view of donations counts all that came before its request, shows a balance that the
  time until its answer explains, and hides no greater donor.
* **MenuKept** - one charge for one confirmed preview, for its amount; a visitor sees
  no other visitor's balances; NPCs this process created have menus.
* **BookBacked** - booked cost never exceeds payments from the NPC's own wallet, and
  equals them when calls came in turn and the servers read what they share.
* **Reconciled** - after an undisturbed reconcile the address holds its target, up to
  dust or the gas of moving the rest, whatever earlier calls left behind.
* **ValueConserved** - only creating, funding, dividends and the like issue money;
  bets pay out or refund the whole pool, swaps move what the pool loses.
* **VictorStands** - the winner of a fight is never the worse off.
* **AnchorsReplay** - every anchor has its blob and its state is the replay of it.
* **ReserveKept**, **ProvenIsAttested** - a planner keeps its runway although balances
  move during the inference; verified effects are what an attested run said.
* **OneInterjection** - a line sets off a bounded number of inferences.
* **RelationshipsKept** - no delta is lost unless two calls are on one pair, and a
  host that awaits its calls finds every pair in the index.
* **BurnedOnce** - who was swindled or, if hearsay counts, told, refuses; an NPC that
  is minted meanwhile may fall once more.
* **NewsTravels** - a gossip tells only what was lost in its room in that tick, to
  those there, once.
* **SilverAccounted** - turns move silver and never make it.
* **PolityKept** - behind a ban stands a record or enough first-hand grievances; bans
  are not cut short; a loan is settled once.
* **RegistryKept** - cells whose updates did not cross hold what the calls wrote, on
  top of what an older version left; what is listed has a record, a work with a record
  was paid for (this in any order and after any crash), and listings are complete.

What holds depends on how calls meet, and the premises say so. Whatever the
interleaving: the gateway's accounting, stakes against pools, `PoolOnCurve`,
`MenuKept`, `PolityKept`, records before lists, and a layer that does not mint.
Only without overlap on one NPC or pair: the atomic accounts, the single activation,
`RelationshipsKept`. Only for one call at a time: conservation of silver and rice,
stakes on record, the daily cap, complete books.

What the models show *not* to hold, besides the violation runs:

* Updates of one list that cross lose entries (registry, inventory, diary, relation
  index); in `pal` even a reader can, between the look and the move of a bare value.
* Two forgings of one NPC that overlap may both pass the check and pay once.
  Forging one deed twice pays twice; `SharedWorld` lists it once, the STF twice.
* An NPC that is minted has another memory from then on, and falls again for whom it
  had seen through; a lesson of the call in progress goes to the old one.
* Background overhearing that overlaps the host's next calls loses index entries.
* A broker that chose a service does not notice a rotation; its checked quote stays
  bound to the key of the first response, where the class comment speaks of a check
  per signer and reference.
* A preview repeated after a timeout has a new key: both may be charged.
* Platform NPCs have no menu after a restart, since seeding skips existing records.
* Two reconciles that overlap may both move the difference.
* MudStores that do not read through overwrite each other's totals: books undercount.
* Loans that mature together are measured against one undiminished balance; an update
  of trust that overlaps another loses a delta; under the fake kernel a reflection
  makes a belief of a good deal too.

Violation runs each show one sentence of the repository that the code does not
keep. Their shortest counterexamples:

* `GatewayDoubleServe` - two requests with one voucher await the chain together;
  both are served, and only one of the two settlements can be accepted.
* `TieredFork` - two callers of a key read the same head, each uploads a node
  linked to it, and the second head write leaves the first node out.
* `GccTopUps` - a balance read before an await is written after someone else's
  change: an overlapping top-up is lost and the stored balance falls.
* `SilverPaidTwice` - a settlement cut short before its last write leaves the
  market open, and is paid again.
* `PlanSkipped` - a directive drained before the first tick turns the unloaded
  queue into an empty one; the executor then idles without reading its plan,
  until the host reloads it.

The practical advice is the premises of the passing runs: serialise per NPC, per
key and per market record, and mark a market resolved before paying.

### Bounds

Sets have the smallest size at which the hazard exists: two users to see a batch
draw on two escrows, two requests or calls to interleave, two NPCs for a
transfer, three writes so that one may be overtaken by two. The ledger's clock
exceeds the refund window by one tick so that an exit can mature and be
restarted. `Supply`, `MaxSigned`, `MaxNodes`, `MaxWrites`, `MaxGcc`, `MaxIssued`,
`MaxEvents`, `MaxEdits`, `MaxNested`, `MaxPosts`, `MaxClock`, `MaxSent`, `MaxBoots`,
`MaxBills`, `MaxLines`, `MaxResets`, `MaxAdmin`, `MaxCalls`, `MaxMoves`, `MaxTicks`, `MaxDay`, a
host's `total`, a script's `txs`, a town's `calls` and an age's `asked` cap what would
grow without end; each appears in a guard and its comment says so. Hosts that overlap
calls make few of them, since two interleaved calls already give every order of their
reads and writes. Registry edits stop once the clients have chosen, because they
never look again. In `pay` the ledger and verify strategies are explored with
read-through stores only. A run that holds several models explores each by itself;
they share no state in the code either, or share it in a module that composes them.
Symmetry is used for sets whose elements no definition tells apart, and never in a
run with a liveness property. Deadlock is not checked where a bound ends the
behaviour: `Tiered`, `TieredFork`, `Gateway`, `Silver`, `SilverPaidTwice`, `World`.

### Fairness

Three specifications assume some. `VoucherGateway!FairSpec`: every handler
that can take a step other than a failed read eventually does, and a running
`settleNow` returns - the event loop runs ready handlers and each RPC returns or
throws. Nothing is assumed of users, of blocks or of faults.
`TieredStore!FairSpec`: the queue's worker goes on - the promise chain schedules
the next link, and calls to the archive return. `PlanExecutor!FairPlanSpec`: the
host keeps ticking and awaited calls return. Rejected calls and the wandering of
others are bounded by `MaxEvents`, so that a step is not ended by assumption but
once disturbances cease.

## 4. What is proved

Seven modules hold theorems about the models, and `SumTheorems` the lemmas that several
of them share. All are proved for every value of the constants that satisfies the
assumptions of the model. Unless a theorem names a hypothesis about the host, it assumes
nothing about it. Every invariant and action property that a passing run checks has its
theorem; the liveness properties have none.

| Theorem | States | Hypothesis |
|---|---|---|
| `LedgerSafe` | `[](TypeOK /\ Solvent)` | - |
| `WindowRespected` | `ExitNeedsWholeWindow` | - |
| `DebitsAuthorised` | `EscrowDebitsAuthorised` | - |
| `GatewayAccounts` | `[]AnsweredIsAccounted` | - |
| `GatewayChargesServed` | `[]ChargedOnlyIfServed` | - |
| `GatewayAnswersOnce` | `[]OneAnswerInTurn` | - (`limit = 1` is in the property) |
| `MarketKeepsItsWord` | `[]MarketKept` | - |
| `ProxyKeepsItsWord` | `[]ProxyKept` | - |
| `MenuSafe` | `[]MenuKept` | - |
| `BooksAreBacked` | `[]BookBacked` | - (overlap and lost answers are named in the property) |
| `WalletsKept` | an index has one NPC, and a wallet that paid has its index stored | - |
| `ReconcileConverges` | `[]Reconciled` | - |
| `MirrorIsFaithful` | `[]MirrorAgrees` | `OneSet` |
| `HistoriesInOrder` | `[]HistoryInOrder` | `OneSet` |
| `NothingIsLost` | `[]NothingSilentlyLost` | `OneSet` |
| `ArchiveOnlyGrows` | `ArchiveAppendOnly` | `OneSet` |
| `ReadsOnlyAdvance` | `ReadsNeverGoBack` | `OneSet`, `ReadThrough` |
| `LayerSolvent` | `[]LayerConserves`, a part of `AccountsSound` | - |
| `AccountsAreSound` | `[]AccountsSound` | `HostKeeps` |
| `EntriesAtomic` | `EntriesAreAtomic`: `SharedWorldGcc` implements `GccAccounts` | `HostKeeps` |
| `PoolStaysOnCurve` | `[]PoolOnCurve` | - |
| `ExchangeIsKept` | `[]ExchangeKept` | - (`InTurn` is in the part about the cap) |
| `StakesAreAccounted` | `[]StakesAccounted` | - (`InTurn` is in the part about records) |
| `GoodsAreConserved` | `[]GoodsConserved` | - (the host's strength is in each part) |
| `NoStepIsLost` | `[]StepsKept` | - |
| `DirectivesGoFirst` | `[]DirectivesLead` | - |
| `WalksAreShortest` | `WalksShortestPath` | - |
| `NoBanOnRumour` | `[]PolityKept` | - |
| `WorldIsKept` | `[]RegistryKept` | - (crossed updates are named in the property) |
| `InterjectionsAreBounded` | `[]OneInterjection` | - |
| `RelationshipsSurvive` | `[]RelationshipsKept` | - (the host is in the property) |
| `TheBurnedBeware` | `BurnedOnce` | - (the host is in the property) |
| `NewsTravelsWithBodies` | `[]NewsTravels` | - |
| `FairKeepsFaith` | the three of `SharedWorldSocial`, under a fair | - |
| `SilverIsAccounted` | `[]SilverAccounted` | - |
| `AnchorsCanBeReplayed` | `[]AnchorsReplay` | - |
| `ProvenanceIsSound` | `[]ProvenIsAttested` | - |
| `ValueIsConserved` | `ValueConserved` | - |
| `TheVictorStands` | `VictorStands` | - |
| `ReserveIsKept` | `ReserveKept` | `NothingElseTakes` |

**The hypotheses.** `OneSet`: in the synchronous mode the store has one caller (the
write-behind queue provides this by itself); `TieredFork` shows what two do.
`ReadThrough`: the option of that name is on; without it a read after a restart finds
nothing. `HostKeeps`: ids are created once, calls are made on NPCs that have a record,
and one call per NPC runs at a time; `GccTopUps` shows what becomes of the accounts
when two overlap. The instances `Tiered` and `Gcc` satisfy them. `NothingElseTakes`: while
a turn waits for its answer, the host offers no other transaction that may take GCC from
the NPC of that turn; gifts and purchases may come in, and other NPCs may pay. The
planning oracle compares its reserve with the balance read before the inference, so a
second talk, a sale or a misfortune of the same NPC in between would break it; the
host of `World` has gifts in that place.

**Assumptions on constants.** What books are sums over is finite: users, providers,
requests, sellers, NPCs, agents, bills, markets, visitors, rooms. Amounts, costs, gifts,
fees, bounds, reserves and caps are natural, the refund window, the batch size, the
exchange rate, the rate and the minute of the proxy, the step and the dust of the native
balance and the opening pool positive; what a model or a visitor writes is any integer.
Placeholders (`None`, `NoOne`, `Missing`, `Unset`, `Nowhere`) are not values of what they
stand in for, and a monster is no NPC. The guild, the NPCs and the cast of a fair are
sequences; a street graph lists each room's neighbours; plans and directives have different
texts. What a host begins with is sound: a genesis is a world whose books balance
(`ScriptAssumption`), an older version's registry lists what has a record and its works
are none (`LifeAssumption`). TLC evaluates each assumption in every run of its module.

### Arguments

**Ledger.** `TypeOK /\ Solvent` is inductive once typing gives the guards their
meaning: a subtraction stays in `Nat` because the action's guard compares the same two
numbers. For `settle` what the batch draws, user by user, adds up to what the provider
earns (`DrawsAddUp`, from `SumByKey`), and the new escrows are the old ones less those
draws (`SumPlus`). The window speaks of the time of the last request, the code keeps
only `releaseAt`; the strengthening `WindowInv` relates the two. An accepted batch has
no repeated slot, so its items for one user and the nonces they burn correspond one to
one: grouped by nonce the fees add up to the debit, and each is at most its signed cap
(`SumMonotone`).

**Gateway.** `GatewayInv` says where a served request can be: each settlement in the
pending queue, a manual batch or a request's own batch belongs to a request that was
served, or to the one that carries the batch; each answered request is in one of those,
dropped with a batch, or its nonce is burnt; and each burnt nonce is that of a served
request. The step that matters is a settlement whose RPC outcome is unknown: mined or
not, its items leave the batch for `usedNonces` or for `lost`. `OneAnswerInTurn` needs a
second invariant, `TurnInv`: one request is active at a time, what was served is in the
local guard, and a request that passed the guard's check is still new to it, because
nobody else runs between the check and the reservation.

**Market.** `MarketInv` has a part for each actor. The registry: what it holds covers
one bond per active listing plus those in refunds under way, at any depth of nesting. The
broker: a call's chosen service, its verifier and what the verifier has bound belong
together, so a stamp stands for a checked quote. The serving broker: the acknowledged
signers of the process are acknowledged on chain, and a call that posts holds one.

**Proxy.** The limiter keeps a count and the start of its window; the property speaks of
every minute. `IpOK` bridges the two: the window was opened by an arrival that was let
through, it holds at most the rate, and the minute before it holds less than the rate,
since the arrival that opened the previous window lies further back. Any minute meets at
most two such stretches. A view of donations is read while the chain moves: `ViewOK`
puts each read between what was so when the view was asked for and what is so now, in
prefixes of the log of gifts, and the balance between two differences of sums.

**Menus.** `MenuInvariant`: a handler that waits for a yes is about a preview that this
visitor was shown; a request that settles is of such a preview, under its key, and was
agreed to; a view under way reads the wallet of its own visitor; a menu stands before
its NPC is recorded. Late answers and lost keys only remove handlers, so none of it
depends on their order.

**Payments.** `BooksOK` bounds each book, and each total that an overlapping bill is about
to write, by what the NPC's wallet paid less what is owed to the book: the sum of the
bills that have paid and not yet booked. Where nothing overlapped, the World lags by that one
bill. That a wallet is one NPC's across restarts needs `KeysOK` and `WalletsStored`: the
indices handed out are `0..n-1`, one each, and the host stored the index before any bill
of it could sign.

**Native balance.** A reconcile that nothing disturbed runs alone, and what it read is
still so (`Current`): before it sends, the value it computed fills the address to the
target or sweeps it there; while it waits, its transaction alone is pending or has been
mined, up to the gas that turned out cheaper. The step division is bounded by `Quotient`.

**PlanExecutor.** The line is the step in hand followed by the queue. `owed` counts the
occurrences of each step in it, and directives stand before plan steps in it; each action
cuts the line, appends to it, or replaces its plan. `nextHop` is a breadth-first search
written as a recursive function of its rounds. A ghost depth `d` gives it meaning: rooms
met form a tree in which a parent is one street nearer (`Tree`), the queue is sorted by
depth over at most two depths, and a room that has left it has had its neighbours met. So
no room is met deeper than it is far (`MetInTime`), and the way back along the tree ends
at a neighbour of the start that is one street nearer to the goal (`WayBack`).

**Guild.** `GuildInvariant` follows the reasons: beliefs that a member holds first-hand
were felt, episodes lived, distrust earned by a wrong, what is on record was suffered by
somebody, a vote was cast by members who have a reason. Reasons are histories and only grow, so
they survive any overlap of calls; a decree counts the members that have one.

**SharedWorldLife.** `LedgersKept` is proved with `RecordsFirst` and `CallsOK`, which says of each
call, at each await, what it has done, and that what it holds is what the cell holds
unless updates crossed on that cell. A bare value that a reader is about to move is
what an older version left, so moving it loses nothing while nobody else wrote.

**SharedWorldSocial, FairTick.** `RootsOK` and `EavesOK` trace every inference to one call
of the host: a line is overheard once, and an interjection is not overheard. `LanesOK`
gives calls in turn or on distinct pairs, hence `RelOK`: the affinity a call is about to
write is the stored one. `FearOK` counts losses by memories: an NPC loses to a peer at
most once per memory that it has had, because a pitch that reaches the payment found no
belief there and the lesson is written before the next pitch reads. A fair awaits each of
its calls (`FairCalls`), so its steps are steps of such a host.

**Turns.** Whatever the model answers, the list of operations that an action resolves to
moves a natural amount from one purse to another (`OpsOK`): negative amounts and unknown
names are refused or clamped before. Sums over purses then change by what the granary or
the hunt gives.

**STF.** `StfInv` states that the world is the replay of the log from what the last
anchored, or now being anchored, tick left; a commit that fails keeps its blob, so that the
retry anchors the same state or repeats it. For money, every transaction maps a world of
the right shape with balanced books (a book's pools are the sums of its stakes) to another
(`TransactionLeaves`); a swap moves between purse and pool, and a pool's payouts, each
whole, add up to the pool (`PayoutsAddUp`). A battle ends with the healths from which its
verdict is taken, whichever arm struck last. The effects of a talk change no money, whatever they
are, so a talk costs its NPC at most its price (`TalkLeavesPurse`); from there the reserve.

**TieredStore.** `TieredInv` says that one `set` of the archive runs at a time, nodes
link back to earlier nodes with older or equal values, the queue is in the order of its
writes and newer than the archive, a `set` under way extends the chain it read, and
every issued write is somewhere. The chain of a key is defined by recursion over nodes;
what the properties need of it (`Chains`: its elements, its order, that a longer node
list leaves older chains as they are) is proved by the least counterexample of a set of
naturals (`LeastNatural`), since the installed backends cannot instantiate the
library's induction over an operator.

**GCC accounts.** `Typed` holds under any interleaving and includes that the layer's
balances add up to its custody. `HostInv` holds under `HostKeeps`: calls are on
distinct NPCs (`Apart`), so what a call has read is still what the store holds when it
writes (`Reads`), only a draft without a record is at the activator, and an NPC
without a record has nothing. From it each step of a method maps to a request, an
entry, a refusal or a stutter of `GccAccounts`.

**Silver.** `SilverWorldInv` is the conjunction of four parts, each needed by a later one:

* `RecordsInv` - what calls and the store hold is sound in itself whatever was read
  when: reserves are on the curve, the pools of an open market are the sums of its
  stakes, also in the copies that overlapping calls carry. This gives `PoolOnCurve` and
  `PoolsMatchStakes` under any overlap and any crash.
* `MintInv` - the rate times an NPC's GCC, with what its calls have paid and not yet
  minted, is at most what was burnt for it. Exchanges that overlap may lose GCC; the
  invariant also bounds a balance that a call has read and will write back.
* `AloneInv` - a host that does not overlap calls runs at most one, of the methods it
  uses.
* `LoneInv` - what the only call carries is what the store holds (`Fresh`), and the
  books balance with what the call has taken and not given, or given and not taken:
  `SilverDue`, `RiceDue`, `StakeDue`, `CapDue`. Between calls these are nothing, and
  the properties follow.

A settlement pays one staker per step, so its `SilverDue` is a sum over those served;
that the payouts of a market add up to its pools (`PayoutsAddUp`) is the identity
behind the last step, by `SumScale` and `SumSupport` from the fact that each payout is
whole. TLC checked `SilverWorldInv` on the instance of the run `Silver` (547 197
states) before it was proved.

`SumOf` is the cardinality of a disjoint union rather than a recursive function, so that
library facts about cardinalities apply; sums over sets of any size are reached by the
induction on finite subsets that the library states for a set variable
(`SubsetInduction`).

### Model-checked only

Liveness: `EveryRequestEnds`, `QueueDrains`, `EveryStepEnds`. The prover does not reason
about `ENABLED`, which fairness needs. The violation runs are counterexamples, which need
no proof.

## 5. Not modelled

`PROJECT.json` lists every component with its status. Left out for good: HTTP
and RPC wrappers, prompt assembly, provider-specific inference clients, the
conformance driver, the replay viewer, the 0G upload wrapper and the publishing
script - they keep no state that a property could relate to another step. Byte-level
encodings (EIP-712, DCAP quotes, base64url, keccak and its 31-bit index) are
abstracted to their verdict. Not modelled so far: `OnchainPalNPC`, smart-wallet clients, the settlement strategy and the intent
resolver, festivals and the HTTP kernel of cognition, the nonce search of the voucher
client.

Within the modelled parts: swaps and payouts that leave a remainder (the code counts
in doubles); a move that overlaps an activation or another writer of the same record;
a pitch of a negative amount.

## 6. Plan

`OnchainPalNPC` next to `KvWorld`; the nonce search of the voucher client as a bounded
comparison with the contract's bitmap; swaps and payouts that leave a remainder, once the
rounding of doubles is worth a model of its own.

## 7. Running

    tlc -workers 2 -config InferenceLedger.cfg MCInferenceLedger
    tlapm SumTheorems.tla
    tlapm InferenceProofs.tla
    tlapm EconomyProofs.tla
    tlapm PlanExecutorProofs.tla
    tlapm TieredStoreProofs.tla
    tlapm SharedWorldGccProofs.tla
    tlapm SharedWorldSilverProofs.tla    # several minutes
    tlapm WorldProofs.tla                # several minutes

The module of each configuration is listed under "runs" in `PROJECT.json`.
