--------------------------- MODULE SharedWorldGcc ---------------------------
(***************************************************************************)
(* The GCC of NPCs and their activation, SharedWorld in                    *)
(* packages/gamekit/src/shared-world.ts.  A method is split at its awaits: *)
(* a call holds what it read before an await and uses it after, while      *)
(* other calls run.  Each get and set of the store takes effect at one     *)
(* moment, and get returns a copy (a MUD or JSON storage store).           *)
(* What a method does to silver, memories, relationships and logs is left  *)
(* out: it reads or writes nothing that is modelled here.                  *)
(***************************************************************************)
EXTENDS Sums

CONSTANTS
    Npcs,              \* NPC ids
    Calls,             \* calls that may run at the same time
    Amounts,           \* GCC amounts and costs, natural numbers
    MinActivationGcc,  \* minActivationGcc
    StarvingBelow,     \* starvingBelowGcc of the metabolism
    Layerings,         \* values of layered to explore
    UniqueIds,         \* TRUE: the host creates no id twice
    KnownNpcs,         \* TRUE: the host tops up, debits and pitches only NPCs
                       \* that have a record and are no longer being created
    OneCallPerNpc,     \* TRUE: the host runs one call per NPC at a time
    MaxGcc,            \* bound: no top-up takes an account beyond
    None

ASSUME GccAssumption ==
    /\ IsFiniteSet(Npcs)
    /\ Amounts \subseteq Nat
    /\ MinActivationGcc \in Nat /\ StarvingBelow \in Nat /\ MaxGcc \in Nat
    /\ Layerings \subseteq BOOLEAN
    /\ {UniqueIds, KnownNpcs, OneCallPerNpc} \subseteq BOOLEAN
    /\ None \notin [npc: Npcs, amount: Int]

VARIABLES
    drafts,      \* draftNpcs: NPCs that exist in memory only
    npcs,        \* NPCs with a stored record
    registry,    \* world:npcs, the listed ids
    gcc,         \* npc:<id>:gcc
    domain,      \* execution-layer balances of the settlement layer
    custody,     \* GCC in its custody on the base chain
    activated,   \* history: approvals of the activator per NPC
    layered,     \* TRUE: a settlementLayer is wired, fixed by the deployment
    call         \* call -> [pc, npc, amount, seen, reg], plus whether it activates

vars == <<drafts, npcs, registry, gcc, domain, custody, activated, layered,
          call>>
layerVars == <<domain, custody>>

\* Where a call awaits.  activator .. dropDraft: activate(), and the tail of it
\* that createNpc() shares; topUp: addGcc(); debit, talk, pitch: their methods.
Pcs == {"idle", "activator", "setGcc", "readRegistry", "writeRegistry",
        "dropDraft", "topUp", "debit", "withdrawn", "talk", "pitch", "deal"}
IdleCall == [pc |-> "idle", npc |-> None, amount |-> 0, seen |-> 0,
             reg |-> {}, activating |-> FALSE]

TypeOK ==
    /\ drafts \subseteq Npcs
    /\ npcs \subseteq Npcs
    /\ registry \subseteq Npcs
    /\ gcc \in [Npcs -> Nat]
    /\ domain \in [Npcs -> Nat]
    /\ custody \in Nat
    /\ activated \in [Npcs -> Nat]
    /\ layered \in Layerings
    /\ call \in [Calls -> [pc: Pcs, npc: Npcs \cup {None}, amount: Nat,
                           seen: Nat, reg: SUBSET Npcs, activating: BOOLEAN]]

Init ==
    /\ drafts = {}
    /\ npcs = {}
    /\ registry = {}
    /\ gcc = [n \in Npcs |-> 0]
    /\ domain = [n \in Npcs |-> 0]
    /\ custody = 0
    /\ activated = [n \in Npcs |-> 0]
    /\ layered \in Layerings
    /\ call = [c \in Calls |-> IdleCall]

NotNegative(x) == IF x < 0 THEN 0 ELSE x

\* balanceGcc()
Balance(n) == IF layered THEN domain[n] ELSE gcc[n]

Mine(c) == call[c].npc
At(c, pc) == call[c].pc = pc
Goto(c, pc) == call' = [call EXCEPT ![c].pc = pc]
Return(c) == call' = [call EXCEPT ![c] = IdleCall]

MayCall(c, n) ==
    /\ At(c, "idle")
    /\ OneCallPerNpc => \A d \in Calls : call[d].npc # n

\* c enters a method on n and awaits at pc with the balance it read.
Enter(c, n, amount, pc) ==
    call' = [call EXCEPT ![c] =
        [pc |-> pc, npc |-> n, amount |-> amount, seen |-> Balance(n),
         reg |-> {}, activating |-> pc = "activator"]]

BeingCreated(n) ==
    \E c \in Calls : /\ Mine(c) = n
                    /\ call[c].pc \in {"setGcc", "readRegistry", "writeRegistry"}
                    /\ ~ call[c].activating

Known(n) == KnownNpcs => n \in npcs /\ ~ BeingCreated(n)

MayTopUp(n, amount) == Balance(n) + amount <= MaxGcc

\* deposit() and withdraw() of the settlement layer: what is credited above
\* comes into custody, and a withdrawal beyond the balance changes nothing.
LayerDeposit(n, amount) ==
    /\ domain' = [domain EXCEPT ![n] = @ + amount]
    /\ custody' = custody + amount

LayerWithdraw(n, amount) ==
    IF amount <= domain[n]
    THEN /\ domain' = [domain EXCEPT ![n] = @ - amount]
         /\ custody' = custody - amount
    ELSE UNCHANGED layerVars

(***************************************************************************)
(* createNpc() and activate()                                              *)
(***************************************************************************)
CreateDraft(n) ==
    /\ n \notin drafts
    /\ UniqueIds => n \notin npcs
    /\ drafts' = drafts \cup {n}
    /\ UNCHANGED <<npcs, registry, gcc, layerVars, activated, layered, call>>

CreateNpc(c, n, startGcc) ==
    /\ MayCall(c, n)
    /\ UniqueIds => n \notin npcs \cup drafts
    /\ startGcc <= MaxGcc
    /\ npcs' = npcs \cup {n}
    /\ Enter(c, n, startGcc, "setGcc")
    /\ UNCHANGED <<drafts, registry, gcc, layerVars, activated, layered>>

\* addGccOrActivate() of a draft.  A top-up below the minimum is refused at
\* once and changes nothing.
TopUpDraft(c, n, amount) ==
    /\ MayCall(c, n)
    /\ n \in drafts
    /\ amount >= MinActivationGcc
    /\ MayTopUp(n, amount)
    /\ Enter(c, n, amount, "activator")
    /\ UNCHANGED <<drafts, npcs, registry, gcc, layerVars, activated, layered>>

ActivatorRejects(c) ==
    /\ At(c, "activator")
    /\ Return(c)
    /\ UNCHANGED <<drafts, npcs, registry, gcc, layerVars, activated, layered>>

ActivatorApproves(c) ==
    /\ At(c, "activator")
    /\ activated' = [activated EXCEPT ![Mine(c)] = @ + 1]
    /\ npcs' = npcs \cup {Mine(c)}
    /\ Goto(c, "setGcc")
    /\ UNCHANGED <<drafts, registry, gcc, layerVars, layered>>

\* The balance is set, not added to.
SetGcc(c) ==
    /\ At(c, "setGcc")
    /\ gcc' = [gcc EXCEPT ![Mine(c)] = call[c].amount]
    /\ Goto(c, "readRegistry")
    /\ UNCHANGED <<drafts, npcs, registry, layerVars, activated, layered>>

\* addToRegistry()
ReadRegistry(c) ==
    /\ At(c, "readRegistry")
    /\ call' = [call EXCEPT ![c].pc = "writeRegistry", ![c].reg = registry]
    /\ UNCHANGED <<drafts, npcs, registry, gcc, layerVars, activated, layered>>

WriteRegistry(c) ==
    /\ At(c, "writeRegistry")
    /\ registry' = IF Mine(c) \in call[c].reg THEN registry
                   ELSE call[c].reg \cup {Mine(c)}
    /\ IF call[c].activating THEN Goto(c, "dropDraft") ELSE Return(c)
    /\ UNCHANGED <<drafts, npcs, gcc, layerVars, activated, layered>>

\* Faulty variant: the draft survives its activation.
KeepDraft(c) ==
    /\ At(c, "dropDraft")
    /\ Return(c)
    /\ UNCHANGED <<drafts, npcs, registry, gcc, layerVars, activated, layered>>

DropDraft(c) ==
    /\ At(c, "dropDraft")
    /\ drafts' = drafts \ {Mine(c)}
    /\ Return(c)
    /\ UNCHANGED <<npcs, registry, gcc, layerVars, activated, layered>>

(***************************************************************************)
(* fund(), donate() of an NPC that is no draft: addGcc()                   *)
(***************************************************************************)
\* Faulty variant: the execution layer is credited without custody.
TopUpMinted(c, n, amount) ==
    /\ MayCall(c, n)
    /\ n \notin drafts
    /\ Known(n)
    /\ MayTopUp(n, amount)
    /\ IF layered
       THEN /\ domain' = [domain EXCEPT ![n] = @ + amount]
            /\ UNCHANGED <<call, custody>>
       ELSE Enter(c, n, amount, "topUp") /\ UNCHANGED layerVars
    /\ UNCHANGED <<drafts, npcs, registry, gcc, activated, layered>>

TopUp(c, n, amount) ==
    /\ MayCall(c, n)
    /\ n \notin drafts
    /\ Known(n)
    /\ MayTopUp(n, amount)
    /\ IF layered
       THEN LayerDeposit(n, amount) /\ UNCHANGED call
       ELSE Enter(c, n, amount, "topUp") /\ UNCHANGED layerVars
    /\ UNCHANGED <<drafts, npcs, registry, gcc, activated, layered>>

\* A method that read the balance ends by storing a new one.
StoreGcc(c, new) ==
    /\ gcc' = [gcc EXCEPT ![Mine(c)] = new]
    /\ Return(c)
    /\ UNCHANGED <<drafts, npcs, registry, layerVars, activated, layered>>

TopUpEnds(c) == At(c, "topUp") /\ StoreGcc(c, call[c].seen + call[c].amount)

(***************************************************************************)
(* debit().  On a settlement layer a debit above the balance is refused by *)
(* withdraw(), and the refusal is not looked at.                           *)
(***************************************************************************)
Debit(c, n, amount) ==
    /\ MayCall(c, n)
    /\ amount > 0
    /\ Known(n)
    /\ IF layered
       THEN Enter(c, n, amount, "withdrawn") /\ LayerWithdraw(n, amount)
       ELSE Enter(c, n, amount, "debit") /\ UNCHANGED layerVars
    /\ UNCHANGED <<drafts, npcs, registry, gcc, activated, layered>>

\* withdraw() has returned.
DebitReturns(c) ==
    /\ At(c, "withdrawn")
    /\ Return(c)
    /\ UNCHANGED <<drafts, npcs, registry, gcc, layerVars, activated, layered>>

DebitEnds(c) ==
    At(c, "debit") /\ StoreGcc(c, NotNegative(call[c].seen - call[c].amount))

(***************************************************************************)
(* talk().  The metabolism gate and the burn use the balance read before   *)
(* the oracle; a starving NPC answers without thinking, at no cost.  The   *)
(* cost the oracle will report is chosen when the turn begins.             *)
(***************************************************************************)
Talk(c, n, cost) ==
    /\ MayCall(c, n)
    /\ n \in npcs \cup drafts
    /\ KnownNpcs => ~ BeingCreated(n)
    /\ Balance(n) >= StarvingBelow
    /\ Enter(c, n, cost, "talk")
    /\ UNCHANGED <<drafts, npcs, registry, gcc, layerVars, activated, layered>>

TalkEnds(c) ==
    /\ At(c, "talk")
    /\ IF call[c].amount > 0
       THEN StoreGcc(c, NotNegative(call[c].seen - call[c].amount))
       ELSE /\ Return(c)
            /\ UNCHANGED <<drafts, npcs, registry, gcc, layerVars, activated, layered>>

(***************************************************************************)
(* pitch().  pc "pitch" is a scam, "deal" an honest offer; memory decides  *)
(* between refusing and accepting.                                         *)
(***************************************************************************)
Pitch(c, n, amount, pc) ==
    /\ MayCall(c, n)
    /\ n \in npcs \cup drafts
    /\ Known(n)
    /\ pc = "deal" => MayTopUp(n, amount)
    /\ Enter(c, n, amount, pc)
    /\ UNCHANGED <<drafts, npcs, registry, gcc, layerVars, activated, layered>>

PitchRefused(c) ==
    /\ At(c, "pitch") \/ At(c, "deal")
    /\ Return(c)
    /\ UNCHANGED <<drafts, npcs, registry, gcc, layerVars, activated, layered>>

PitchAccepted(c) ==
    \/ At(c, "pitch") /\ StoreGcc(c, NotNegative(call[c].seen - call[c].amount))
    \/ At(c, "deal") /\ StoreGcc(c, call[c].seen + call[c].amount)

Begin(c) ==
    \E n \in Npcs, amount \in Amounts :
        \/ CreateNpc(c, n, amount)
        \/ TopUpDraft(c, n, amount)
        \/ TopUp(c, n, amount)
        \/ Debit(c, n, amount)
        \/ Talk(c, n, amount)
        \/ \E pc \in {"pitch", "deal"} : Pitch(c, n, amount, pc)

Continue(c) ==
    \/ ActivatorRejects(c)
    \/ ActivatorApproves(c)
    \/ SetGcc(c)
    \/ ReadRegistry(c)
    \/ WriteRegistry(c)
    \/ DropDraft(c)
    \/ TopUpEnds(c)
    \/ DebitEnds(c)
    \/ DebitReturns(c)
    \/ TalkEnds(c)
    \/ PitchRefused(c)
    \/ PitchAccepted(c)

Next ==
    \/ \E n \in Npcs : CreateDraft(n)
    \/ \E c \in Calls : Begin(c) \/ Continue(c)

Spec == Init /\ [][Next]_vars

(***************************************************************************)
(* Properties                                                              *)
(***************************************************************************)
\* The entry a call has still to make in the accounts.
Asked(c) ==
    LET e(amount) == [npc |-> Mine(c), amount |-> amount]
    IN  IF call[c].pc \in {"activator", "setGcc", "topUp", "deal"}
        THEN e(call[c].amount)
        ELSE IF call[c].pc \in {"debit", "talk", "pitch"}
        THEN e(- call[c].amount)
        ELSE None

Accounts == INSTANCE GccAccounts
    WITH balance <- [n \in Npcs |-> IF layered THEN 0 ELSE gcc[n]],
         asked <- [c \in Calls |-> IF layered THEN None ELSE Asked(c)],
         Nothing <- None

\* Every top-up, activation, burn, debit and pitch takes effect once, whole and
\* at one moment, across the awaits of its method: each call's read and write
\* of npc:<id>:gcc together are one entry of the accounts.  It holds of the
\* local ledger and of calls that do not overlap on one NPC.
EntriesAreAtomic == Accounts!Spec

\* Only the first top-up of a draft reaches the activator's approval, and so
\* the mint behind it; later ones add to the balance (addGccOrActivate).
ActivatedOnce == \A n \in Npcs : activated[n] <= 1

\* A top-up only ever adds: no step of fund(), donate() or the activation they
\* route to lowers a balance.
TopUpsOnlyAdd ==
    [][\A c \in Calls :
        (/\ At(c, "topUp") \/ call[c].activating
         /\ call'[c] # call[c]) => gcc'[Mine(c)] >= gcc[Mine(c)]]_vars

\* A draft lives in memory only: nothing in the store belongs to it before its
\* activation is approved (createNpc, activate).
DraftsAreUnfunded == \A n \in drafts \ npcs : gcc[n] = 0

\* The execution layer never mints: its balances add up to the GCC in custody,
\* whatever top-ups, debits, turns and pitches run (BaseSettlementLayer).
LayerConserves == custody = SumOf(domain, Npcs)

\* The accounts are sound: well typed, and the three invariants above.
AccountsSound ==
    TypeOK /\ ActivatedOnce /\ DraftsAreUnfunded /\ LayerConserves

=============================================================================
