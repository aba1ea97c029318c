-------------------------- MODULE NativeSettlement --------------------------
(***************************************************************************)
(* Native0gSettlementLayer: an NPC's in-game balance kept in native coin   *)
(* in an address of its own, against a treasury, through ViemNativeChain   *)
(* (packages/onchain/src/native-0g-settlement.ts, viem-native-chain.ts).   *)
(* One address.  Calls may overlap; each is split where it asks the chain, *)
(* which is external: the gas price moves, a transaction is charged at     *)
(* most what was estimated and may be mined after its sender gave up.      *)
(* Deals are counted in steps of 1e-9, what both conversions round to.     *)
(***************************************************************************)
EXTENDS Integers, FiniteSets

CONSTANTS
    Tellers,     \* calls that may be under way
    Deals,       \* amounts and targets of calls, in steps
    Step,        \* wei of a step
    Dust,        \* dustUnits, in steps
    GasReserve,  \* gasReserveWei
    GasCosts,    \* wei a transfer may cost
    Opening,     \* wei the address may start with
    Treasury,    \* wei of the treasury
    MaxCalls,    \* bound: calls
    MaxMoves     \* bound: moves of the gas price

ASSUME NativeAssumption ==
    /\ Deals \subseteq Nat /\ GasCosts \subseteq Nat \ {0} /\ Opening \subseteq Nat
    /\ {Step, Dust} \subseteq Nat \ {0}
    /\ {GasReserve, Treasury, MaxCalls, MaxMoves} \subseteq Nat

VARIABLES
    wei,        \* the address's balance
    treasury,   \* the treasury's balance
    gasCost,    \* what estimateGasCostWei() answers now
    pending,    \* transactions not mined yet: [by, out, value]
    teller,     \* call -> [op, pc, target, units, seen, value, nth, quiet]
    called, moved, \* counts of calls, and of moves of the gas price
    calm        \* history: the target of an undisturbed reconcile() that
                \* nothing followed, or nothing

nativeVars == <<wei, treasury, gasCost, pending, teller, called, moved, calm>>
chainState == <<wei, treasury, gasCost, moved>>

Off == [pc |-> "off"]
Tell(c, pc) == teller' = [teller EXCEPT ![c].pc = pc]
Tells(c, pc) == teller[c].pc = pc

NativeInit ==
    /\ wei \in Opening /\ treasury = Treasury /\ gasCost \in GasCosts
    /\ pending = {} /\ teller = [c \in Tellers |-> Off]
    /\ called = 0 /\ moved = 0 /\ calm = {}

Positive(n) == IF n > 0 THEN n ELSE 0
UnitsToWei(units) == Positive(units) * Step
WeiToUnits(n) == n \div Step
BalanceOf == WeiToUnits(Positive(wei - GasReserve))

\* A call is undisturbed when it runs alone and the chain stands still but
\* for its own transaction.
Alone == pending = {} /\ \A c \in Tellers : teller[c] = Off

Begins(c, op, target, units) ==
    /\ teller[c] = Off /\ called < MaxCalls /\ called' = called + 1
    /\ teller' = [[d \in Tellers |-> IF teller[d] = Off THEN Off
                                     ELSE [teller[d] EXCEPT !.quiet = FALSE]]
                  EXCEPT ![c] = [op |-> op, pc |-> op, target |-> target, units |-> units,
                                 seen |-> 0, value |-> 0, nth |-> called, quiet |-> Alone]]
    /\ calm' = {}
    /\ UNCHANGED <<chainState, pending>>

\* deposit() and withdraw() return at once for an amount that is not positive.
DepositCalled(c, units) == units > 0 /\ Begins(c, "deposit", units, units)
WithdrawCalled(c, units) == units > 0 /\ Begins(c, "withdraw", units, units)
ReconcileCalled(c, target) == Begins(c, "reconcile", target, 0)

\* A reconcile() that ended undisturbed is remembered.
Returns(c, settled) ==
    /\ teller' = [teller EXCEPT ![c] = Off]
    /\ calm' = IF settled /\ teller[c].op = "reconcile" /\ teller[c].quiet
               THEN {teller[c].target} ELSE {}

Diff(c) == teller[c].target - BalanceOf
Aligned(diff) == diff < Dust /\ -diff < Dust

\* reconcile(): the balance is read once; the rest goes by the difference.
ReadBalance(c) ==
    /\ Tells(c, "reconcile")
    /\ IF Aligned(Diff(c)) THEN Returns(c, TRUE)
       ELSE /\ teller' = [teller EXCEPT ![c].pc = IF Diff(c) > 0 THEN "deposit" ELSE "floor",
                                        ![c].units = IF Diff(c) > 0 THEN Diff(c) ELSE -Diff(c)]
            /\ UNCHANGED calm
    /\ UNCHANGED <<chainState, pending, called>>

\* A difference that gas would eat is left alone.
CheckFloor(c) ==
    /\ Tells(c, "floor")
    /\ IF teller[c].units <= WeiToUnits(gasCost) THEN Returns(c, TRUE)
       ELSE Tell(c, "withdraw") /\ UNCHANGED calm
    /\ UNCHANGED <<chainState, pending, called>>

\* depositTx(): the units, and what is missing of the gas reserve.
DepositTx(c) ==
    /\ Tells(c, "deposit")
    /\ teller' = [teller EXCEPT
            ![c].pc = "pay",
            ![c].value = UnitsToWei(teller[c].units) + Positive(GasReserve - wei)]
    /\ UNCHANGED <<chainState, pending, called, calm>>

\* withdrawTx() reads the balance, ...
WithdrawReads(c) ==
    /\ Tells(c, "withdraw")
    /\ teller' = [teller EXCEPT ![c].pc = "gas", ![c].seen = wei]
    /\ UNCHANGED <<chainState, pending, called, calm>>

\* Faulty variant: gas is paid on top of what is withdrawn.
NetOfGasOnTop(want) == want

\* ... then the gas cost, which comes out of the amount.
NetOfGas(want) == Positive(want - gasCost)

WithdrawTx(c) ==
    LET net == NetOfGas(UnitsToWei(teller[c].units))
        most == Positive(teller[c].seen - gasCost)
        value == IF net < most THEN net ELSE most
    IN  /\ Tells(c, "gas")
        /\ IF value = 0 THEN Returns(c, TRUE)
           ELSE /\ teller' = [teller EXCEPT ![c].pc = "sweep", ![c].value = value]
                /\ UNCHANGED calm
        /\ UNCHANGED <<chainState, pending, called>>

\* sendNative(): a transaction the sender can pay for is taken.
Affordable(tx, cost) == tx.value + cost <= IF tx.out THEN wei ELSE treasury

Submits(c) ==
    LET tx == [by |-> c, nth |-> teller[c].nth, out |-> Tells(c, "sweep"), value |-> teller[c].value]
    IN  /\ teller[c].pc \in {"pay", "sweep"}
        /\ Affordable(tx, gasCost)
        /\ pending' = pending \cup {tx}
        /\ Tell(c, "wait")
        /\ UNCHANGED <<chainState, called, calm>>

\* A question to the chain fails, or it does not take the transaction: the
\* call throws.
Throws(c) ==
    /\ teller[c] # Off /\ ~Tells(c, "wait")
    /\ Returns(c, FALSE)
    /\ UNCHANGED <<chainState, pending, called>>

\* external: a transaction is mined, at most at the price now estimated.
Mined(tx, cost) ==
    /\ tx \in pending /\ cost <= gasCost /\ Affordable(tx, cost)
    /\ pending' = pending \ {tx}
    /\ wei' = IF tx.out THEN wei - tx.value - cost ELSE wei + tx.value
    /\ treasury' = IF tx.out THEN treasury + tx.value ELSE treasury - tx.value - cost
    /\ calm' = {}
    /\ UNCHANGED <<gasCost, moved, teller, called>>

\* The receipt is seen, or after 30 polls the hash is returned without it.
ReceiptSeen(c) ==
    /\ Tells(c, "wait") /\ \A tx \in pending : tx.by # c
    /\ Returns(c, TRUE)
    /\ UNCHANGED <<chainState, pending, called>>

GivesUpWaiting(c) ==
    /\ Tells(c, "wait") /\ \E tx \in pending : tx.by = c
    /\ Returns(c, FALSE)
    /\ UNCHANGED <<chainState, pending, called>>

\* external: the price of gas moves.
GasMoves(cost) ==
    /\ moved < MaxMoves /\ moved' = moved + 1
    /\ gasCost' = cost /\ cost # gasCost
    /\ teller' = [c \in Tellers |-> IF teller[c] = Off THEN Off
                                    ELSE [teller[c] EXCEPT !.quiet = FALSE]]
    /\ calm' = {}
    /\ UNCHANGED <<wei, treasury, pending, called>>

NativeNext ==
    \/ \E c \in Tellers :
        \/ \E n \in Deals : DepositCalled(c, n) \/ WithdrawCalled(c, n) \/ ReconcileCalled(c, n)
        \/ ReadBalance(c) \/ CheckFloor(c) \/ DepositTx(c) \/ WithdrawReads(c) \/ WithdrawTx(c)
        \/ Submits(c) \/ Throws(c) \/ ReceiptSeen(c) \/ GivesUpWaiting(c)
    \/ \E tx \in pending, cost \in GasCosts : Mined(tx, cost)
    \/ \E cost \in GasCosts : GasMoves(cost)

NativeSpec == NativeInit /\ [][NativeNext]_nativeVars

-----------------------------------------------------------------------------
\* reconcile() converges in one call that nothing disturbs, whatever earlier
\* calls that overlapped or gave up left behind: above the gas reserve, the
\* address holds the target up to dust, or up to the gas that taking the rest
\* out would cost.
Reconciled ==
    \A target \in calm :
        /\ target >= Dust => wei >= GasReserve + (target - Dust + 1) * Step
        /\ wei < GasReserve + (target + 1) * Step
                 + (IF Dust * Step > gasCost THEN Dust * Step ELSE gasCost)
=============================================================================
