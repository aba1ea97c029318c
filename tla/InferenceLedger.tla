--------------------------- MODULE InferenceLedger ---------------------------
(***************************************************************************)
(* The prepaid escrow and voucher settlement contract                      *)
(* (ai3-inference/contracts/src/market/InferenceLedger.sol).  One action   *)
(* per external function; a call that reverts changes nothing and is not a *)
(* step.  Every function updates its storage before it sends native coin,  *)
(* so a recipient that calls back sees the state after the call and        *)
(* interleaves like a later transaction; a recipient that refuses the coin *)
(* reverts the whole call.  Amounts, fees and times are natural numbers:   *)
(* the code uses checked uint256 arithmetic.  A signature is abstracted to *)
(* membership in the set of vouchers the user signed.                      *)
(***************************************************************************)
EXTENDS Sums, Sequences

CONSTANTS
    Users,          \* addresses that deposit and sign vouchers
    Providers,      \* addresses that settle vouchers (may overlap Users)
    Nonces,         \* uint128 voucher nonces in use
    Amounts,        \* amounts a caller passes to deposit, transferTo, ...
    Fees,           \* metered fees and signed maxFee caps
    REFUND_UNLOCK,  \* length of the exit window, in clock ticks
    Supply,         \* bound: native coin the contract may hold
    MaxTime,        \* bound: last block timestamp explored
    MaxSigned,      \* bound: vouchers signed in one behaviour
    MaxBatch        \* bound: vouchers in one settle() call

ASSUME LedgerAssumption ==
    /\ IsFiniteSet(Users) /\ IsFiniteSet(Providers)
    /\ Amounts \subseteq Nat /\ Fees \subseteq Nat
    /\ REFUND_UNLOCK \in Nat \ {0}
    /\ Supply \in Nat /\ MaxTime \in Nat /\ MaxSigned \in Nat
    /\ MaxBatch \in Nat

VARIABLES
    unallocated,  \* user -> free funds
    balanceOf,    \* <<user, provider>> -> escrowed funds
    accrued,      \* provider -> settled earnings not yet withdrawn
    refunds,      \* <<user, provider>> -> pending exit
    usedNonces,   \* slots <<user, provider, nonce>> set in the nonce bitmap
    held,         \* native coin the contract holds
    now,          \* block.timestamp
    signed,       \* vouchers that carry a valid signature of their user
    requestedAt   \* history: time of the last RefundRequested event since
                  \* the last exit, or NotRequested

ledgerVars == <<unallocated, balanceOf, accrued, refunds, usedNonces, held,
                now, signed, requestedAt>>

Accounts == Users \X Providers
Times == 0..MaxTime
NotRequested == -1
NoRefund == [amount |-> 0, releaseAt |-> 0]

Voucher == [user: Users, provider: Providers, nonce: Nonces,
            maxFee: Fees, expiry: Times]

\* One element of the three parallel arrays vs, sigs and fees of settle().
Settlement == [v: Voucher, fee: Fees]

Slot(v) == <<v.user, v.provider, v.nonce>>

TypeOK ==
    /\ unallocated \in [Users -> Nat]
    /\ balanceOf \in [Accounts -> Nat]
    /\ accrued \in [Providers -> Nat]
    /\ refunds \in [Accounts -> [amount: Nat, releaseAt: Nat]]
    /\ usedNonces \in SUBSET (Users \X Providers \X Nonces)
    /\ held \in Nat
    /\ now \in Times
    /\ signed \in SUBSET Voucher
    /\ requestedAt \in [Accounts -> Times \cup {NotRequested}]

LedgerInit ==
    /\ unallocated = [u \in Users |-> 0]
    /\ balanceOf = [a \in Accounts |-> 0]
    /\ accrued = [p \in Providers |-> 0]
    /\ refunds = [a \in Accounts |-> NoRefund]
    /\ usedNonces = {}
    /\ held = 0
    /\ now = 0
    /\ signed = {}
    /\ requestedAt = [a \in Accounts |-> NotRequested]

(***************************************************************************)
(* The prepaid ledger                                                      *)
(***************************************************************************)
Deposit(u, amount) ==
    /\ amount > 0
    /\ held + amount <= Supply
    /\ unallocated' = [unallocated EXCEPT ![u] = @ + amount]
    /\ held' = held + amount
    /\ UNCHANGED <<balanceOf, accrued, refunds, usedNonces, now, signed,
                   requestedAt>>

TransferTo(u, p, amount) ==
    /\ amount > 0
    /\ unallocated[u] >= amount
    /\ unallocated' = [unallocated EXCEPT ![u] = @ - amount]
    /\ balanceOf' = [balanceOf EXCEPT ![<<u, p>>] = @ + amount]
    /\ UNCHANGED <<accrued, refunds, usedNonces, held, now, signed,
                   requestedAt>>

WithdrawUnallocated(u, amount) ==
    /\ amount > 0
    /\ unallocated[u] >= amount
    /\ unallocated' = [unallocated EXCEPT ![u] = @ - amount]
    /\ held' = held - amount
    /\ UNCHANGED <<balanceOf, accrued, refunds, usedNonces, now, signed,
                   requestedAt>>

Lesser(a, b) == IF a < b THEN a ELSE b

\* Faulty variant: a top-up keeps the clock of the first request.
RequestRefundKeepingClock(u, p, amount) ==
    LET bal == balanceOf[<<u, p>>]
    IN  /\ amount > 0
        /\ bal >= amount
        /\ refunds' = [refunds EXCEPT ![<<u, p>>] =
                [amount |-> Lesser(@.amount + amount, bal),
                 releaseAt |-> IF @.amount > 0 THEN @.releaseAt
                               ELSE now + REFUND_UNLOCK]]
        /\ requestedAt' = [requestedAt EXCEPT ![<<u, p>>] = now]
        /\ UNCHANGED <<unallocated, balanceOf, accrued, usedNonces, held, now,
                       signed>>

\* A top-up adds to the pending exit, never beyond the escrow, and restarts
\* the clock.
RequestRefund(u, p, amount) ==
    LET bal == balanceOf[<<u, p>>]
    IN  /\ amount > 0
        /\ bal >= amount
        /\ refunds' = [refunds EXCEPT ![<<u, p>>] =
                [amount |-> Lesser(@.amount + amount, bal),
                 releaseAt |-> now + REFUND_UNLOCK]]
        /\ requestedAt' = [requestedAt EXCEPT ![<<u, p>>] = now]
        /\ UNCHANGED <<unallocated, balanceOf, accrued, usedNonces, held, now,
                       signed>>

\* Settlements during the window may have left less than was requested.
Payout(u, p) == Lesser(refunds[<<u, p>>].amount, balanceOf[<<u, p>>])

WithdrawRefund(u, p) ==
    /\ refunds[<<u, p>>].amount > 0
    /\ now >= refunds[<<u, p>>].releaseAt
    /\ Payout(u, p) > 0
    /\ refunds' = [refunds EXCEPT ![<<u, p>>] = NoRefund]
    /\ requestedAt' = [requestedAt EXCEPT ![<<u, p>>] = NotRequested]
    /\ balanceOf' = [balanceOf EXCEPT ![<<u, p>>] = @ - Payout(u, p)]
    /\ held' = held - Payout(u, p)
    /\ UNCHANGED <<unallocated, accrued, usedNonces, now, signed>>

(***************************************************************************)
(* Voucher settlement.  The code walks the batch item by item and reverts  *)
(* on the first failing check.  Fees are not negative, so the walk         *)
(* succeeds exactly when every item passes on its own, no nonce repeats,   *)
(* and the fees drawn from one user's escrow add up to at most its balance.*)
(***************************************************************************)
FeesOf(b) == [i \in DOMAIN b |-> b[i].fee]
ItemsOf(b, u) == {i \in DOMAIN b : b[i].v.user = u}
Drawn(b, u) == SumOf(FeesOf(b), ItemsOf(b, u))

ItemOK(p, item) ==
    /\ item.v.provider = p
    /\ item.fee <= item.v.maxFee
    /\ now <= item.v.expiry
    /\ item.v \in signed
    /\ Slot(item.v) \notin usedNonces

\* Faulty variant: nonces are looked up before any of the batch is burned.
AcceptsRepeatsInBatch(p, b) ==
    /\ \A i \in DOMAIN b : ItemOK(p, b[i])
    /\ \A u \in Users : Drawn(b, u) <= balanceOf[<<u, p>>]

Accepts(p, b) ==
    /\ \A i \in DOMAIN b : ItemOK(p, b[i])
    /\ \A i, j \in DOMAIN b : i # j => Slot(b[i].v) # Slot(b[j].v)
    /\ \A u \in Users : Drawn(b, u) <= balanceOf[<<u, p>>]

\* Faulty variant: the provider earns the caps, the users pay the fees.
SettleAtCap(p, b) ==
    /\ Accepts(p, b)
    /\ usedNonces' = usedNonces \cup {Slot(b[i].v) : i \in DOMAIN b}
    /\ balanceOf' = [a \in Accounts |->
            IF a[2] = p THEN balanceOf[a] - Drawn(b, a[1]) ELSE balanceOf[a]]
    /\ accrued' = [accrued EXCEPT ![p] = @ + SumOf([i \in DOMAIN b |-> b[i].v.maxFee], DOMAIN b)]
    /\ UNCHANGED <<unallocated, refunds, held, now, signed, requestedAt>>

Settle(p, b) ==
    /\ Accepts(p, b)
    /\ usedNonces' = usedNonces \cup {Slot(b[i].v) : i \in DOMAIN b}
    /\ balanceOf' = [a \in Accounts |->
            IF a[2] = p THEN balanceOf[a] - Drawn(b, a[1]) ELSE balanceOf[a]]
    /\ accrued' = [accrued EXCEPT ![p] = @ + SumOf(FeesOf(b), DOMAIN b)]
    /\ UNCHANGED <<unallocated, refunds, held, now, signed, requestedAt>>

ProviderWithdraw(p) ==
    /\ accrued[p] > 0
    /\ accrued' = [accrued EXCEPT ![p] = 0]
    /\ held' = held - accrued[p]
    /\ UNCHANGED <<unallocated, balanceOf, refunds, usedNonces, now, signed,
                   requestedAt>>

(***************************************************************************)
(* The environment: users sign vouchers off chain, blocks advance time.    *)
(***************************************************************************)
SignVoucher(v) ==
    /\ v \notin signed
    /\ Cardinality(signed) < MaxSigned
    /\ signed' = signed \cup {v}
    /\ UNCHANGED <<unallocated, balanceOf, accrued, refunds, usedNonces, held,
                   now, requestedAt>>

Tick ==
    /\ now < MaxTime
    /\ now' = now + 1
    /\ UNCHANGED <<unallocated, balanceOf, accrued, refunds, usedNonces, held,
                   signed, requestedAt>>

UserStep ==
    \E u \in Users, amount \in Amounts :
        \/ Deposit(u, amount)
        \/ WithdrawUnallocated(u, amount)
        \/ \E p \in Providers :
            \/ TransferTo(u, p, amount)
            \/ RequestRefund(u, p, amount)

ExitStep == \E u \in Users, p \in Providers : WithdrawRefund(u, p)

Batches == UNION {[1..n -> Settlement] : n \in 0..MaxBatch}

SettleStep == \E p \in Providers, b \in Batches : Settle(p, b)

LedgerNext ==
    \/ UserStep
    \/ ExitStep
    \/ SettleStep
    \/ \E p \in Providers : ProviderWithdraw(p)
    \/ \E v \in Voucher : SignVoucher(v)
    \/ Tick

LedgerSpec == LedgerInit /\ [][LedgerNext]_ledgerVars

(***************************************************************************)
(* Properties                                                              *)
(***************************************************************************)
\* The contract holds exactly the coin it owes: free funds, escrows and
\* provider earnings together, after any sequence of deposits, batched
\* settlements and exits (deposit, transferTo, settle, withdrawRefund,
\* providerWithdraw move the same coin between the three mappings).
Solvent ==
    held = SumOf(unallocated, Users) + SumOf(balanceOf, Accounts)
           + SumOf(accrued, Providers)

\* Nonces of u at p that this step sets in the bitmap.
Burned(u, p) == {n \in Nonces : <<u, p, n>> \in usedNonces' \ usedNonces}

\* Each nonce burned has a signed voucher that is still valid, and together
\* their caps cover the debit.
Authorised(u, p, debit) ==
    \E w \in [Burned(u, p) -> signed] :
        /\ \A n \in Burned(u, p) : Slot(w[n]) = <<u, p, n>> /\ now <= w[n].expiry
        /\ debit <= SumOf([n \in Burned(u, p) |-> w[n].maxFee], Burned(u, p))

\* A matured exit that pays the debit to the user.
PaidOut(u, p, debit) ==
    /\ held' = held - debit
    /\ refunds[<<u, p>>].amount >= debit
    /\ UNCHANGED <<usedNonces, accrued>>

\* Escrow shrinks only in two ways: a matured exit that pays its own user, or
\* a settlement that newly burns nonces whose live, signed vouchers cap the
\* whole debit.  A replayed, expired, unsigned or over-charged voucher, on its
\* own or hidden in a batch, would break it (settle, withdrawRefund).
EscrowDebitsAuthorised ==
    [][\A u \in Users, p \in Providers :
        LET debit == balanceOf[<<u, p>>] - balanceOf'[<<u, p>>]
        IN  debit > 0 => Authorised(u, p, debit) \/ PaidOut(u, p, debit)]_ledgerVars

\* Coin leaves an escrow towards its user only when a request is outstanding
\* and the whole window has passed since the last request or top-up; one
\* request never pays twice (requestRefund, withdrawRefund).
ExitNeedsWholeWindow ==
    [][\A u \in Users, p \in Providers :
        (/\ balanceOf'[<<u, p>>] < balanceOf[<<u, p>>]
         /\ held' < held) =>
            /\ requestedAt[<<u, p>>] # NotRequested
            /\ now >= requestedAt[<<u, p>>] + REFUND_UNLOCK]_ledgerVars
=============================================================================
