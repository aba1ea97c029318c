----------------------------- MODULE OnchainPay -----------------------------
(***************************************************************************)
(* What an NPC's thinking costs, from the settlement strategies to the     *)
(* books: packages/onchain (x402 permit and EIP-3009 settlements, remote   *)
(* or local keys, NpcIndexRegistry, MudStore), npc-agent's GccLedger and   *)
(* the KvWorld contract.  Servers share one World; each books what its     *)
(* NPCs spent in a MudStore of its own.  The token, the facilitator and    *)
(* the host that stores the indices are external; amounts are atoms of     *)
(* GCC, and signatures are the payments they sign.                         *)
(***************************************************************************)
EXTENDS Integers, FiniteSets

CONSTANTS
    Servers,    \* processes, each with an account that writes the World
    Bills,      \* settle() calls that may be under way
    Agents,     \* npcIds
    Costs,      \* gccCost of an inference, in atoms
    MaxHardened,\* 2^31, the ceiling of an index
    Funds,      \* bound: atoms a wallet can pay
    MaxResets,  \* bound: restarts
    MaxBills,   \* bound: settle() calls
    MaxAdmin    \* bound: calls of the World's owner

ASSUME PayAssumption ==
    /\ IsFiniteSet(Agents) /\ IsFiniteSet(Bills)
    /\ Costs \subseteq Nat /\ {MaxHardened, Funds, MaxBills, MaxResets, MaxAdmin} \subseteq Nat

VARIABLES
    strategy,   \* which SettlementStrategy the deployment has
    readThrough,\* MudStore reads the World, not the local mirror
    index,      \* InMemoryNpcIndexRegistry.map: pairs [npc, idx]
    next,       \* the index to hand out next
    saved,      \* the pairs the host has stored
    nonces,     \* token: wallet -> permit nonce
    paid,       \* token: wallet -> atoms paid to the seller
    local,      \* server -> npc -> booked, the local Store
    world,      \* npc -> booked, the record in KvWorld
    isWriter,   \* accounts that may write the World
    owner,      \* the World's owner
    bill,       \* call -> [pc, server, npc, cost, nonce, seen]
    settles, admin, resets, \* counts of settle() and owner calls, and of restarts
    unsure      \* history: NPCs whose books may lag what was paid

payVars == <<strategy, readThrough, index, next, saved, nonces, paid, local, world,
             isWriter, owner, bill, settles, admin, resets, unsure>>
keyVars == <<index, next, saved>>
tokenVars == <<nonces, paid>>
bookVars == <<local, world>>
worldVars == <<isWriter, owner, admin, settles>>
modeVars == <<strategy, readThrough>>

Wallets == 0..(Cardinality(Agents) - 1)
NoBill == [pc |-> "idle"]
Indexed(npc) == \E p \in index : p.npc = npc
WalletOf(npc) == (CHOOSE p \in index : p.npc = npc).idx

PayInit ==
    /\ strategy \in {"ledger", "permit", "verify", "exact"}
    /\ readThrough \in BOOLEAN
    /\ index = {} /\ next = 0 /\ saved = {}
    /\ nonces = [w \in Wallets |-> 0] /\ paid = [w \in Wallets |-> 0]
    /\ local = [s \in Servers |-> [npc \in Agents |-> 0]]
    /\ world = [npc \in Agents |-> 0]
    /\ \E s \in Servers : isWriter = {s} /\ owner = s
    /\ bill = [b \in Bills |-> NoBill]
    /\ settles = 0 /\ admin = 0 /\ resets = 0 /\ unsure = {}

-----------------------------------------------------------------------------
\* KvWorld.  Reads are open to everyone; a write needs a listed account.  The
\* owner's calls that change nothing are not steps.

SetWriter(account, allowed) ==
    /\ admin < MaxAdmin /\ admin' = admin + 1
    /\ allowed # (account \in isWriter)
    /\ isWriter' = IF allowed THEN isWriter \cup {account} ELSE isWriter \ {account}
    /\ UNCHANGED <<modeVars, keyVars, tokenVars, bookVars, owner, bill, settles, resets, unsure>>

TransferOwnership(to) ==
    /\ admin < MaxAdmin /\ admin' = admin + 1
    /\ to # owner /\ owner' = to
    /\ UNCHANGED <<modeVars, keyVars, tokenVars, bookVars, isWriter, bill, settles, resets, unsure>>

\* call() with kvSet or kvDel; an absent record reads as nothing booked.
KvCall(server, npc, value) ==
    server \in isWriter /\ world' = [world EXCEPT ![npc] = value]
GetRecord(npc) == world[npc]

-----------------------------------------------------------------------------
\* A call settles the cost of one inference of an NPC.

BillAt(b, pc) == bill[b].pc = pc
BillGoes(b, pc) == bill' = [bill EXCEPT ![b].pc = pc]
BillThrows(b) == bill' = [bill EXCEPT ![b] = NoBill]
Lags(npc) == unsure' = unsure \cup {npc}
Overlapping(npc) == \E b \in Bills : bill[b] # NoBill /\ bill[b].npc = npc

\* indexFor(): the index of an NPC, or the next one that is free.
IndexFor(npc) ==
    \/ Indexed(npc) /\ UNCHANGED <<index, next>>
    \/ /\ ~Indexed(npc) /\ next < MaxHardened
       /\ index' = index \cup {[npc |-> npc, idx |-> next]}
       /\ next' = next + 1

SettleCalled(b, server, npc, cost) ==
    /\ bill[b] = NoBill
    /\ settles < MaxBills /\ settles' = settles + 1
    /\ IndexFor(npc)
    /\ bill' = [bill EXCEPT ![b] = [pc |-> "save", server |-> server, npc |-> npc,
                                    cost |-> cost, nonce |-> 0, seen |-> 0]]
    /\ unsure' = IF Overlapping(npc) THEN unsure \cup {npc} ELSE unsure
    /\ UNCHANGED <<modeVars, saved, tokenVars, bookVars, isWriter, owner, admin, resets>>

\* external: the host stores entries() before it lets the wallet sign.
Persists(b) ==
    /\ BillAt(b, "save")
    /\ saved' = index
    /\ BillGoes(b, CASE strategy = "ledger" -> "book"
                     [] strategy = "permit" -> "nonce"
                     [] OTHER -> "submit")
    /\ UNCHANGED <<modeVars, index, next, tokenVars, bookVars, worldVars, resets, unsure>>

\* X402GccSettlement reads the permit nonce before it signs.
NonceRead(b) ==
    /\ BillAt(b, "nonce")
    /\ bill' = [bill EXCEPT ![b].pc = "submit", ![b].nonce = nonces[WalletOf(bill[b].npc)]]
    /\ UNCHANGED <<modeVars, keyVars, tokenVars, bookVars, worldVars, resets, unsure>>

\* What the wallet of the NPC signs: a permit under the nonce that was read, or
\* a transfer authorization under a random one, which the token never met.
\* One that arrives after its deadline is refused.
Random == -1
Permit(b) == [from |-> WalletOf(bill[b].npc), value |-> bill[b].cost, nonce |-> bill[b].nonce]
Authorization(b) == [from |-> WalletOf(bill[b].npc), value |-> bill[b].cost, nonce |-> Random]
Payment(b) == IF strategy = "permit" THEN Permit(b) ELSE Authorization(b)

\* external: what the token does with a payment.
Payable(p) ==
    /\ paid[p.from] + p.value <= Funds
    /\ p.nonce # Random => p.nonce = nonces[p.from]
Charge(p) ==
    /\ paid' = [paid EXCEPT ![p.from] = @ + p.value]
    /\ nonces' = IF p.nonce # Random THEN [nonces EXCEPT ![p.from] = @ + 1] ELSE nonces

\* Faulty variant: an answer with HTTP status 200 is a success.
SucceededOk(answer) == answer # "lost"

\* submit() and settle() of the facilitator clients, and the check of success.
Succeeded(answer) == answer = "success"

\* The payment goes out; what comes back books it or throws.
Submitted(b, answer) ==
    /\ BillAt(b, "submit") /\ strategy \in {"permit", "exact"}
    /\ IF answer = "refused" THEN UNCHANGED tokenVars
       ELSE Payable(Payment(b)) /\ Charge(Payment(b))
    /\ IF Succeeded(answer) THEN BillGoes(b, "book") ELSE BillThrows(b)
    /\ IF answer = "lost" THEN Lags(bill[b].npc) ELSE UNCHANGED unsure
    /\ UNCHANGED <<modeVars, keyVars, bookVars, worldVars, resets>>

\* verifyOnly: nothing is paid.
Verified(b, valid) ==
    /\ BillAt(b, "submit") /\ strategy = "verify"
    /\ IF valid THEN BillGoes(b, "book") ELSE BillThrows(b)
    /\ UNCHANGED <<modeVars, keyVars, tokenVars, bookVars, worldVars, resets, unsure>>

\* GccLedger.record(): the total is read, added to, and set.
RecordReads(b) ==
    /\ BillAt(b, "book")
    /\ LET npc == bill[b].npc
       IN  bill' = [bill EXCEPT ![b].pc = "set",
                        ![b].seen = IF readThrough THEN GetRecord(npc)
                                    ELSE local[bill[b].server][npc]]
    /\ UNCHANGED <<modeVars, keyVars, tokenVars, bookVars, worldVars, resets, unsure>>

\* MudStore.set(), first in the local store, ...
SetsLocal(b) ==
    /\ BillAt(b, "set")
    /\ local' = [local EXCEPT ![bill[b].server][bill[b].npc] = bill[b].seen + bill[b].cost]
    /\ BillGoes(b, "mirror")
    /\ UNCHANGED <<modeVars, keyVars, tokenVars, world, worldVars, resets, unsure>>

\* ... then in the World, where the transaction may fail.
SetsRecord(b, lands) ==
    /\ BillAt(b, "mirror")
    /\ BillThrows(b)
    /\ IF lands
       THEN KvCall(bill[b].server, bill[b].npc, bill[b].seen + bill[b].cost) /\ UNCHANGED unsure
       ELSE Lags(bill[b].npc) /\ UNCHANGED world
    /\ UNCHANGED <<modeVars, keyVars, tokenVars, local, worldVars, resets>>

\* MudStore.delete(), between two calls.
Deletes(server, npc, lands) ==
    /\ ~Overlapping(npc) /\ npc \notin unsure
    /\ local' = [local EXCEPT ![server][npc] = 0]
    /\ IF lands THEN KvCall(server, npc, 0) ELSE UNCHANGED world
    /\ Lags(npc)
    /\ UNCHANGED <<modeVars, keyVars, tokenVars, worldVars, bill, resets>>

\* All servers restart: the registry starts from the stored pairs.
NextFree(pairs) == IF pairs = {} THEN 0 ELSE 1 + CHOOSE n \in {p.idx : p \in pairs} :
                                                \A p \in pairs : p.idx <= n
Restarts ==
    /\ resets < MaxResets /\ resets' = resets + 1
    /\ index' = saved /\ next' = NextFree(saved)
    /\ bill' = [b \in Bills |-> NoBill]
    /\ local' = [s \in Servers |-> [npc \in Agents |-> 0]]
    /\ unsure' = unsure \cup {npc \in Agents : Overlapping(npc)}
    /\ UNCHANGED <<modeVars, saved, tokenVars, world, worldVars>>

PayNext ==
    \/ \E account \in Servers :
        TransferOwnership(account) \/ \E allowed \in BOOLEAN : SetWriter(account, allowed)
    \/ \E b \in Bills :
        \/ \E s \in Servers, npc \in Agents, cost \in Costs : SettleCalled(b, s, npc, cost)
        \/ Persists(b) \/ NonceRead(b) \/ RecordReads(b) \/ SetsLocal(b)
        \/ \E answer \in {"success", "refused", "lost"} : Submitted(b, answer)
        \/ \E yes \in BOOLEAN : Verified(b, yes) \/ SetsRecord(b, yes)
    \/ \E s \in Servers, npc \in Agents, lands \in BOOLEAN : Deletes(s, npc, lands)
    \/ Restarts

PaySpec == PayInit /\ [][PayNext]_payVars

-----------------------------------------------------------------------------
\* Where settling means paying, the books never show more than the NPC's own
\* wallet paid, whatever overlaps, fails or restarts; and they show all of it
\* when the calls of the NPC came one at a time, each answer and write landed,
\* and the servers read the World they share.
BookBacked ==
    strategy \in {"permit", "exact"} =>
        \A npc \in Agents :
            LET spent == IF Indexed(npc) THEN paid[WalletOf(npc)] ELSE 0
            IN  /\ world[npc] <= spent
                /\ \A s \in Servers : local[s][npc] <= spent
                /\ readThrough /\ npc \notin unsure /\ ~Overlapping(npc) =>
                        world[npc] = spent
=============================================================================
