--------------------------- MODULE InferenceProofs ---------------------------
(***************************************************************************)
(* Theorems about the inference side.  First the prepaid ledger and the    *)
(* gateway over it, for any finite sets of users and providers, amounts,   *)
(* fees, batches, window length, number of requests and limit of           *)
(* concurrency, over a chain that may fail: LedgerSafe, WindowRespected    *)
(* and DebitsAuthorised are about InferenceLedger alone.  Then Market and  *)
(* ServingBroker: the registry's bonds, the stamped answers and the        *)
(* acknowledged signers, for any sellers, enclaves, listings and           *)
(* overlapping calls.  Last the Proxy in front of them, its rate limit and *)
(* its views of donations.                                                 *)
(***************************************************************************)
EXTENDS VoucherGateway, Market, Proxy, SumTheorems, FiniteSetTheorems,
        SequenceTheorems, TLAPS

\* A batch that settle() may be called with.
IsBatch(b) == /\ IsFiniteSet(DOMAIN b)
              /\ \A i \in DOMAIN b : b[i] \in Settlement

LEMMA BatchesAreBatches ==
    ASSUME NEW b \in Batches
    PROVE  IsBatch(b)
<1>1. PICK n \in 0..MaxBatch : b \in [1..n -> Settlement]
  BY DEF Batches
<1>2. n \in Int /\ 1 \in Int
  BY LedgerAssumption
<1>3. IsFiniteSet(1..n)
  BY <1>2, FS_Interval
<1>4. QED
  BY <1>1, <1>3 DEF IsBatch

LEMMA AccountsFinite == IsFiniteSet(Accounts)
BY LedgerAssumption, FS_Product DEF Accounts

(***************************************************************************)
(* What a batch draws from one user is a natural, and all the draws add up *)
(* to the fees of the batch.                                               *)
(***************************************************************************)
LEMMA DrawnType ==
    ASSUME NEW b, IsBatch(b), NEW u
    PROVE  Drawn(b, u) \in Nat
<1>1. ItemsOf(b, u) \in SUBSET (DOMAIN b)
  BY DEF ItemsOf
<1>2. IsFiniteSet(ItemsOf(b, u))
  BY <1>1, FS_Subset DEF IsBatch
<1>3. \A i \in ItemsOf(b, u) : FeesOf(b)[i] \in Nat
  BY <1>1, LedgerAssumption DEF FeesOf, IsBatch, Settlement
<1>4. QED
  BY <1>2, <1>3, SumType DEF Drawn

LEMMA FeesType ==
    ASSUME NEW b, IsBatch(b)
    PROVE  /\ \A i \in DOMAIN b : FeesOf(b)[i] \in Nat
           /\ SumOf(FeesOf(b), DOMAIN b) \in Nat
<1>1. \A i \in DOMAIN b : FeesOf(b)[i] \in Nat
  BY LedgerAssumption DEF FeesOf, IsBatch, Settlement
<1>2. QED
  BY <1>1, SumType DEF IsBatch

\* The draw of a batch settled by p on each account.
DrawAt(p, b) == [a \in Accounts |-> IF a[2] = p THEN Drawn(b, a[1]) ELSE 0]

LEMMA DrawsAddUp ==
    ASSUME NEW p \in Providers, NEW b, IsBatch(b),
           \A i \in DOMAIN b : b[i].v.provider = p
    PROVE  SumOf(DrawAt(p, b), Accounts) = SumOf(FeesOf(b), DOMAIN b)
<1> DEFINE key == [i \in DOMAIN b |-> <<b[i].v.user, p>>]
<1>1. key \in [DOMAIN b -> Accounts]
  BY DEF IsBatch, Settlement, Voucher, Accounts
<1>2. \A a \in Accounts :
        DrawAt(p, b)[a] = SumOf(FeesOf(b), {i \in DOMAIN b : key[i] = a})
  <2> SUFFICES ASSUME NEW a \in Accounts
               PROVE  DrawAt(p, b)[a] =
                        SumOf(FeesOf(b), {i \in DOMAIN b : key[i] = a})
    OBVIOUS
  <2>1. PICK u \in Users, q \in Providers : a = <<u, q>>
    BY DEF Accounts
  <2>2. CASE q = p
    <3>1. {i \in DOMAIN b : key[i] = a} = ItemsOf(b, u)
      BY <2>1, <2>2 DEF ItemsOf
    <3>2. DrawAt(p, b)[a] = Drawn(b, u)
      BY <2>1, <2>2 DEF DrawAt
    <3>3. QED
      BY <3>1, <3>2 DEF Drawn
  <2>3. CASE q # p
    <3>1. {i \in DOMAIN b : key[i] = a} = {}
      BY <2>1, <2>3
    <3>2. DrawAt(p, b)[a] = 0
      BY <2>1, <2>3 DEF DrawAt
    <3>3. QED
      BY <3>1, <3>2, SumEmpty
  <2>4. QED
    BY <2>2, <2>3
<1>3. IsFiniteSet(DOMAIN b)
  BY DEF IsBatch
<1>4. QED
  <2> HIDE DEF key
  <2>1. QED
    BY <1>1, <1>2, <1>3, AccountsFinite, FeesType, SumByKey

(***************************************************************************)
(* TypeOK alone is not inductive: that held never becomes negative follows *)
(* from solvency.  MapsOK is TypeOK with held known only to be an integer; *)
(* the inductive invariant is MapsOK /\ Solvent, which gives TypeOK.       *)
(***************************************************************************)
MapsOK ==
    /\ unallocated \in [Users -> Nat]
    /\ balanceOf \in [Accounts -> Nat]
    /\ accrued \in [Providers -> Nat]
    /\ refunds \in [Accounts -> [amount: Nat, releaseAt: Nat]]
    /\ usedNonces \in SUBSET (Users \X Providers \X Nonces)
    /\ held \in Int
    /\ now \in Times
    /\ signed \in SUBSET Voucher
    /\ requestedAt \in [Accounts -> Times \cup {NotRequested}]

LedgerInv == MapsOK /\ Solvent

\* The three sums of Solvent are naturals.
LEMMA HoldingsType ==
    ASSUME MapsOK
    PROVE  /\ SumOf(unallocated, Users) \in Nat
           /\ SumOf(balanceOf, Accounts) \in Nat
           /\ SumOf(accrued, Providers) \in Nat
<1>1. /\ \A u \in Users : unallocated[u] \in Nat
      /\ \A a \in Accounts : balanceOf[a] \in Nat
      /\ \A p \in Providers : accrued[p] \in Nat
  BY DEF MapsOK
<1>2. QED
  BY <1>1, LedgerAssumption, AccountsFinite, SumType

LEMMA InvGivesType == LedgerInv => TypeOK
<1>1. SUFFICES ASSUME MapsOK, Solvent PROVE TypeOK
  BY DEF LedgerInv
<1>2. held \in Nat
  BY <1>1, HoldingsType DEF Solvent
<1>3. QED
  BY <1>1, <1>2 DEF MapsOK, TypeOK

LEMMA InvInit == LedgerInit => LedgerInv
<1> SUFFICES ASSUME LedgerInit PROVE LedgerInv
  OBVIOUS
<1>1. MapsOK
  BY LedgerAssumption DEF LedgerInit, MapsOK, NoRefund, NotRequested, Times
<1>2. ASSUME NEW S, IsFiniteSet(S)
      PROVE  SumOf([x \in S |-> 0], S) = 0
  <2>1. Units([x \in S |-> 0], S) = {}
    BY DEF Units
  <2>2. QED
    BY <2>1, FS_EmptySet DEF SumOf
<1>3. Solvent
  BY <1>2, LedgerAssumption, AccountsFinite DEF LedgerInit, Solvent
<1>4. QED
  BY <1>1, <1>3 DEF LedgerInv

(***************************************************************************)
(* The maps keep their types.  The one subtraction in doubt is the escrow  *)
(* debit of settle(), which Accepts bounds user by user.                   *)
(***************************************************************************)
LEMMA MapsUserStep ==
    ASSUME MapsOK, NEW u \in Users, NEW amount \in Amounts,
           \/ Deposit(u, amount)
           \/ WithdrawUnallocated(u, amount)
           \/ \E p \in Providers :
               \/ TransferTo(u, p, amount)
               \/ RequestRefund(u, p, amount)
    PROVE  MapsOK'
<1> USE LedgerAssumption DEF MapsOK
<1>1. CASE Deposit(u, amount)
  BY <1>1 DEF Deposit
<1>2. CASE WithdrawUnallocated(u, amount)
  BY <1>2 DEF WithdrawUnallocated
<1>3. ASSUME NEW p \in Providers, TransferTo(u, p, amount)
      PROVE  MapsOK'
  BY <1>3 DEF TransferTo, Accounts
<1>4. ASSUME NEW p \in Providers, RequestRefund(u, p, amount)
      PROVE  MapsOK'
  BY <1>4 DEF RequestRefund, Accounts, Lesser, Times, NotRequested
<1>5. QED
  BY <1>1, <1>2, <1>3, <1>4

LEMMA MapsWithdrawRefund ==
    ASSUME MapsOK, NEW u \in Users, NEW p \in Providers, WithdrawRefund(u, p)
    PROVE  /\ MapsOK'
           /\ Payout(u, p) \in Nat
           /\ Payout(u, p) <= balanceOf[<<u, p>>]
<1> USE LedgerAssumption DEF MapsOK
<1>1. <<u, p>> \in Accounts
  BY DEF Accounts
<1>2. Payout(u, p) \in Nat /\ Payout(u, p) <= balanceOf[<<u, p>>]
  BY <1>1 DEF Payout, Lesser
<1>3. QED
  BY <1>1, <1>2 DEF WithdrawRefund, NoRefund, NotRequested

LEMMA MapsSettle ==
    ASSUME MapsOK, NEW p \in Providers, NEW b \in Batches, Settle(p, b)
    PROVE  MapsOK'
<1>1. IsBatch(b)
  BY BatchesAreBatches
<1>2. balanceOf' \in [Accounts -> Nat]
  <2>1. ASSUME NEW a \in Accounts, a[2] = p
        PROVE  balanceOf[a] - Drawn(b, a[1]) \in Nat
    <3>1. a[1] \in Users /\ a = <<a[1], p>>
      BY <2>1 DEF Accounts
    <3>2. Drawn(b, a[1]) <= balanceOf[a]
      BY <3>1 DEF Settle, Accepts
    <3>3. Drawn(b, a[1]) \in Nat /\ balanceOf[a] \in Nat
      BY <1>1, DrawnType DEF MapsOK
    <3>4. QED
      BY <3>2, <3>3
  <2>2. \A a \in Accounts : balanceOf[a] \in Nat
    BY DEF MapsOK
  <2>3. QED
    BY <2>1, <2>2 DEF Settle
<1>3. usedNonces' \in SUBSET (Users \X Providers \X Nonces)
  BY <1>1 DEF Settle, MapsOK, IsBatch, Settlement, Voucher, Slot
<1>4. accrued' \in [Providers -> Nat]
  BY <1>1, FeesType DEF Settle, MapsOK
<1>5. QED
  BY <1>2, <1>3, <1>4 DEF Settle, MapsOK

LEMMA MapsOther ==
    ASSUME MapsOK,
           \/ \E p \in Providers : ProviderWithdraw(p)
           \/ \E v \in Voucher : SignVoucher(v)
           \/ Tick
           \/ UNCHANGED ledgerVars
    PROVE  MapsOK'
<1> USE LedgerAssumption DEF MapsOK
<1>1. ASSUME NEW p \in Providers, ProviderWithdraw(p)
      PROVE  MapsOK'
  BY <1>1 DEF ProviderWithdraw
<1>2. ASSUME NEW v \in Voucher, SignVoucher(v)
      PROVE  MapsOK'
  BY <1>2 DEF SignVoucher
<1>3. CASE Tick
  BY <1>3 DEF Tick, Times
<1>4. CASE UNCHANGED ledgerVars
  BY <1>4 DEF ledgerVars
<1>5. QED
  BY <1>1, <1>2, <1>3, <1>4

(***************************************************************************)
(* Every action moves coin between the three maps and the contract's       *)
(* holdings without creating or losing any.                                *)
(***************************************************************************)
LEMMA SolventUserStep ==
    ASSUME MapsOK, MapsOK', Solvent, NEW u \in Users, NEW amount \in Amounts,
           \/ Deposit(u, amount)
           \/ WithdrawUnallocated(u, amount)
           \/ \E p \in Providers :
               \/ TransferTo(u, p, amount)
               \/ RequestRefund(u, p, amount)
    PROVE  Solvent'
<1> USE LedgerAssumption, AccountsFinite
<1>1. /\ \A v \in Users : unallocated[v] \in Nat /\ unallocated'[v] \in Nat
      /\ \A a \in Accounts : balanceOf[a] \in Nat /\ balanceOf'[a] \in Nat
      /\ held \in Int /\ amount \in Nat
  BY DEF MapsOK
<1>2. /\ SumOf(unallocated, Users) \in Nat /\ SumOf(balanceOf, Accounts) \in Nat
      /\ SumOf(accrued, Providers) \in Nat /\ SumOf(unallocated', Users) \in Nat
      /\ SumOf(balanceOf', Accounts) \in Nat
  BY <1>1, HoldingsType, SumType
<1>3. ASSUME \A v \in Users \ {u} : unallocated[v] = unallocated'[v]
      PROVE  SumOf(unallocated', Users) + unallocated[u] =
                SumOf(unallocated, Users) + unallocated'[u]
  BY <1>1, <1>3, SumUpdate
<1>4. CASE Deposit(u, amount)
  <2>1. /\ unallocated'[u] = unallocated[u] + amount
        /\ \A v \in Users \ {u} : unallocated[v] = unallocated'[v]
        /\ held' = held + amount
        /\ UNCHANGED <<balanceOf, accrued>>
    BY <1>4 DEF Deposit, MapsOK
  <2>2. SumOf(unallocated', Users) = SumOf(unallocated, Users) + amount
    BY <1>1, <1>2, <1>3, <2>1
  <2>3. QED
    BY <1>1, <1>2, <2>1, <2>2 DEF Solvent
<1>5. CASE WithdrawUnallocated(u, amount)
  <2>1. /\ unallocated'[u] = unallocated[u] - amount
        /\ \A v \in Users \ {u} : unallocated[v] = unallocated'[v]
        /\ held' = held - amount
        /\ UNCHANGED <<balanceOf, accrued>>
    BY <1>5 DEF WithdrawUnallocated, MapsOK
  <2>2. SumOf(unallocated', Users) = SumOf(unallocated, Users) - amount
    BY <1>1, <1>2, <1>3, <2>1
  <2>3. QED
    BY <1>1, <1>2, <2>1, <2>2 DEF Solvent
<1>6. ASSUME NEW p \in Providers, TransferTo(u, p, amount)
      PROVE  Solvent'
  <2> DEFINE acct == <<u, p>>
  <2>1. /\ unallocated'[u] = unallocated[u] - amount
        /\ \A v \in Users \ {u} : unallocated[v] = unallocated'[v]
        /\ acct \in Accounts
        /\ balanceOf'[acct] = balanceOf[acct] + amount
        /\ \A a \in Accounts \ {acct} : balanceOf[a] = balanceOf'[a]
        /\ UNCHANGED <<held, accrued>>
    BY <1>6 DEF TransferTo, MapsOK, Accounts
  <2>2. SumOf(unallocated', Users) = SumOf(unallocated, Users) - amount
    BY <1>1, <1>2, <1>3, <2>1
  <2>3. SumOf(balanceOf', Accounts) + balanceOf[acct] =
            SumOf(balanceOf, Accounts) + balanceOf'[acct]
    <3> HIDE DEF acct
    <3>1. QED
      BY <1>1, <2>1, SumUpdate
  <2>4. SumOf(balanceOf', Accounts) = SumOf(balanceOf, Accounts) + amount
    BY <1>1, <1>2, <2>1, <2>3
  <2>5. QED
    BY <1>1, <1>2, <2>1, <2>2, <2>4 DEF Solvent
<1>7. ASSUME NEW p \in Providers, RequestRefund(u, p, amount)
      PROVE  Solvent'
  BY <1>7 DEF RequestRefund, Solvent
<1>8. QED
  BY <1>4, <1>5, <1>6, <1>7

LEMMA SolventWithdrawRefund ==
    ASSUME MapsOK, MapsOK', Solvent, NEW u \in Users, NEW p \in Providers,
           WithdrawRefund(u, p)
    PROVE  Solvent'
<1> DEFINE acct == <<u, p>>
<1>1. /\ acct \in Accounts
      /\ balanceOf'[acct] = balanceOf[acct] - Payout(u, p)
      /\ \A a \in Accounts \ {acct} : balanceOf[a] = balanceOf'[a]
      /\ held' = held - Payout(u, p)
      /\ UNCHANGED <<unallocated, accrued>>
  BY DEF WithdrawRefund, MapsOK, Accounts
<1>2. /\ \A a \in Accounts : balanceOf[a] \in Nat /\ balanceOf'[a] \in Nat
      /\ Payout(u, p) \in Nat /\ held \in Int
  BY MapsWithdrawRefund DEF MapsOK
<1>3. SumOf(balanceOf', Accounts) + balanceOf[acct] =
          SumOf(balanceOf, Accounts) + balanceOf'[acct]
  <2> HIDE DEF acct
  <2>1. QED
    BY <1>1, <1>2, AccountsFinite, SumUpdate
<1>4. SumOf(balanceOf, Accounts) \in Nat /\ SumOf(balanceOf', Accounts) \in Nat
  BY <1>2, AccountsFinite, SumType
<1>5. SumOf(balanceOf', Accounts) = SumOf(balanceOf, Accounts) - Payout(u, p)
  BY <1>1, <1>2, <1>3, <1>4
<1>6. QED
  BY <1>1, <1>2, <1>4, <1>5, HoldingsType DEF Solvent

\* What settle() takes from the escrows is what it credits to the provider.
LEMMA SolventSettle ==
    ASSUME MapsOK, MapsOK', Solvent, NEW p \in Providers, NEW b \in Batches,
           Settle(p, b)
    PROVE  Solvent'
<1> DEFINE total == SumOf(FeesOf(b), DOMAIN b)
           drawn == DrawAt(p, b)
<1>1. IsBatch(b)
  BY BatchesAreBatches
<1>2. \A i \in DOMAIN b : b[i].v.provider = p
  BY DEF Settle, Accepts, ItemOK
<1>3. SumOf(drawn, Accounts) = total /\ total \in Nat
  BY <1>1, <1>2, DrawsAddUp, FeesType
<1>4. \A a \in Accounts : /\ balanceOf[a] \in Nat /\ balanceOf'[a] \in Nat
                          /\ drawn[a] \in Nat
                          /\ balanceOf[a] = balanceOf'[a] + drawn[a]
  <2> SUFFICES ASSUME NEW a \in Accounts
               PROVE  /\ balanceOf[a] \in Nat /\ balanceOf'[a] \in Nat
                      /\ drawn[a] \in Nat
                      /\ balanceOf[a] = balanceOf'[a] + drawn[a]
    OBVIOUS
  <2>1. balanceOf[a] \in Nat /\ balanceOf'[a] \in Nat
    BY DEF MapsOK
  <2>2. Drawn(b, a[1]) \in Nat
    BY <1>1, DrawnType
  <2>3. drawn[a] = IF a[2] = p THEN Drawn(b, a[1]) ELSE 0
    BY DEF DrawAt
  <2>4. balanceOf'[a] = IF a[2] = p THEN balanceOf[a] - Drawn(b, a[1])
                        ELSE balanceOf[a]
    BY DEF Settle
  <2>5. QED
    BY <2>1, <2>2, <2>3, <2>4
<1>5. SumOf(balanceOf, Accounts) = SumOf(balanceOf', Accounts) + SumOf(drawn, Accounts)
  <2> HIDE DEF drawn
  <2>1. QED
    BY <1>4, AccountsFinite, SumPlus
<1>6. /\ \A q \in Providers : accrued[q] \in Nat /\ accrued'[q] \in Nat
      /\ accrued'[p] = accrued[p] + total
      /\ \A q \in Providers \ {p} : accrued[q] = accrued'[q]
      /\ UNCHANGED <<unallocated, held>>
  BY DEF Settle, MapsOK
<1>7. SumOf(accrued', Providers) + accrued[p] = SumOf(accrued, Providers) + accrued'[p]
  BY <1>6, LedgerAssumption, SumUpdate
<1>8. SumOf(accrued, Providers) \in Nat /\ SumOf(accrued', Providers) \in Nat
  BY <1>6, LedgerAssumption, SumType
<1>9. SumOf(balanceOf', Accounts) \in Nat
  BY <1>4, AccountsFinite, SumType
<1>10. SumOf(accrued', Providers) = SumOf(accrued, Providers) + total
  BY <1>3, <1>6, <1>7, <1>8
<1>11. QED
  BY <1>3, <1>5, <1>6, <1>8, <1>9, <1>10, HoldingsType DEF Solvent, MapsOK

LEMMA SolventOther ==
    ASSUME MapsOK, MapsOK', Solvent,
           \/ \E p \in Providers : ProviderWithdraw(p)
           \/ \E v \in Voucher : SignVoucher(v)
           \/ Tick
           \/ UNCHANGED ledgerVars
    PROVE  Solvent'
<1>1. ASSUME NEW p \in Providers, ProviderWithdraw(p)
      PROVE  Solvent'
  <2>1. /\ \A q \in Providers : accrued[q] \in Nat /\ accrued'[q] \in Nat
        /\ accrued'[p] = 0
        /\ \A q \in Providers \ {p} : accrued[q] = accrued'[q]
        /\ held' = held - accrued[p]
        /\ UNCHANGED <<unallocated, balanceOf>>
    BY <1>1 DEF ProviderWithdraw, MapsOK
  <2>2. SumOf(accrued', Providers) + accrued[p] = SumOf(accrued, Providers) + accrued'[p]
    BY <2>1, LedgerAssumption, SumUpdate
  <2>3. SumOf(accrued, Providers) \in Nat /\ SumOf(accrued', Providers) \in Nat
    BY <2>1, LedgerAssumption, SumType
  <2>4. SumOf(accrued', Providers) = SumOf(accrued, Providers) - accrued[p]
    BY <2>1, <2>2, <2>3
  <2>5. QED
    BY <2>1, <2>3, <2>4, HoldingsType DEF Solvent, MapsOK
<1>2. ASSUME NEW v \in Voucher, SignVoucher(v)
      PROVE  Solvent'
  BY <1>2 DEF SignVoucher, Solvent
<1>3. CASE Tick
  BY <1>3 DEF Tick, Solvent
<1>4. CASE UNCHANGED ledgerVars
  BY <1>4 DEF ledgerVars, Solvent
<1>5. QED
  BY <1>1, <1>2, <1>3, <1>4

LEMMA InvStep == LedgerInv /\ [LedgerNext]_ledgerVars => LedgerInv'
<1> SUFFICES ASSUME MapsOK, Solvent, [LedgerNext]_ledgerVars
             PROVE  MapsOK' /\ Solvent'
  BY DEF LedgerInv
<1>1. CASE UserStep
  <2>1. PICK u \in Users, amount \in Amounts :
          \/ Deposit(u, amount)
          \/ WithdrawUnallocated(u, amount)
          \/ \E p \in Providers :
              \/ TransferTo(u, p, amount)
              \/ RequestRefund(u, p, amount)
    BY <1>1 DEF UserStep
  <2>2. QED
    BY <2>1, MapsUserStep, SolventUserStep
<1>2. CASE ExitStep
  BY <1>2, MapsWithdrawRefund, SolventWithdrawRefund DEF ExitStep
<1>3. CASE SettleStep
  BY <1>3, MapsSettle, SolventSettle DEF SettleStep
<1>4. CASE \/ \E p \in Providers : ProviderWithdraw(p)
           \/ \E v \in Voucher : SignVoucher(v)
           \/ Tick
           \/ UNCHANGED ledgerVars
  BY <1>4, MapsOther, SolventOther
<1>5. QED
  BY <1>1, <1>2, <1>3, <1>4 DEF LedgerNext

(***************************************************************************)
(* The contract always holds exactly the coin it owes, and its storage     *)
(* keeps its types: no escrow, balance or holding ever goes below zero     *)
(* (every function of InferenceLedger.sol that moves coin).                *)
(***************************************************************************)
THEOREM LedgerSafe == LedgerSpec => [](TypeOK /\ Solvent)
<1>1. LedgerInv => TypeOK /\ Solvent
  BY InvGivesType DEF LedgerInv
<1>2. QED
  BY InvInit, InvStep, <1>1, PTL DEF LedgerSpec

(***************************************************************************)
(* The exit window.  A pending exit always carries the release time that   *)
(* its latest request set, so the guard of withdrawRefund() measures the   *)
(* window from that request, top-ups included.                             *)
(***************************************************************************)
WindowInv ==
    \A a \in Accounts : refunds[a].amount > 0 =>
        /\ requestedAt[a] \in Times
        /\ refunds[a].releaseAt = requestedAt[a] + REFUND_UNLOCK

LEMMA WindowInit == LedgerInit => WindowInv
BY DEF LedgerInit, WindowInv, NoRefund

LEMMA WindowStep ==
    TypeOK /\ WindowInv /\ [LedgerNext]_ledgerVars => WindowInv'
<1> SUFFICES ASSUME TypeOK, WindowInv, [LedgerNext]_ledgerVars
             PROVE  WindowInv'
  OBVIOUS
<1>1. CASE UNCHANGED <<refunds, requestedAt>>
  BY <1>1 DEF WindowInv
<1>2. ASSUME NEW u \in Users, NEW p \in Providers, NEW amount \in Amounts,
             RequestRefund(u, p, amount)
      PROVE  WindowInv'
  BY <1>2 DEF RequestRefund, WindowInv, TypeOK, Accounts
<1>3. ASSUME NEW u \in Users, NEW p \in Providers, WithdrawRefund(u, p)
      PROVE  WindowInv'
  BY <1>3 DEF WithdrawRefund, WindowInv, TypeOK, NoRefund, Accounts
<1>4. ASSUME NEW p \in Providers, NEW b \in Batches, Settle(p, b)
      PROVE  UNCHANGED <<refunds, requestedAt>>
  BY <1>4 DEF Settle
<1>5. QED
  BY <1>1, <1>2, <1>3, <1>4
     DEF LedgerNext, ledgerVars, UserStep, ExitStep, SettleStep, Deposit,
         WithdrawUnallocated, TransferTo, ProviderWithdraw, SignVoucher, Tick

\* What a step that pays an escrow out to its user satisfies.
PaidExit(u, p) ==
    /\ requestedAt[<<u, p>>] # NotRequested
    /\ now >= requestedAt[<<u, p>>] + REFUND_UNLOCK

LEMMA ExitStepSafe ==
    ASSUME TypeOK, WindowInv, [LedgerNext]_ledgerVars,
           NEW u \in Users, NEW p \in Providers,
           balanceOf'[<<u, p>>] < balanceOf[<<u, p>>], held' < held
    PROVE  PaidExit(u, p)
<1> DEFINE acct == <<u, p>>
<1>1. acct \in Accounts /\ balanceOf[acct] \in Nat /\ held \in Nat
  BY DEF TypeOK, Accounts
<1>2. ASSUME NEW v \in Users, NEW q \in Providers, WithdrawRefund(v, q)
      PROVE  PaidExit(u, p)
  <2>1. acct = <<v, q>>
    BY <1>1, <1>2 DEF WithdrawRefund, TypeOK, Accounts
  <2>2. refunds[acct].amount > 0 /\ now >= refunds[acct].releaseAt
    BY <1>2, <2>1 DEF WithdrawRefund
  <2>3. /\ requestedAt[acct] \in Times
        /\ refunds[acct].releaseAt = requestedAt[acct] + REFUND_UNLOCK
    BY <1>1, <2>2 DEF WindowInv
  <2>4. QED
    BY <2>2, <2>3, LedgerAssumption DEF PaidExit, Times, NotRequested
<1>3. ~ UserStep
  <2>1. ASSUME NEW v \in Users, NEW amount \in Amounts
        PROVE  /\ ~ Deposit(v, amount)
               /\ ~ WithdrawUnallocated(v, amount)
               /\ \A q \in Providers : /\ ~ TransferTo(v, q, amount)
                                       /\ ~ RequestRefund(v, q, amount)
    BY <1>1 DEF Deposit, WithdrawUnallocated, TransferTo, RequestRefund
  <2>2. QED
    BY <2>1 DEF UserStep
<1>4. ~ SettleStep
  BY <1>1 DEF SettleStep, Settle
<1>5. ~ \/ \E q \in Providers : ProviderWithdraw(q)
        \/ \E v \in Voucher : SignVoucher(v)
        \/ Tick
        \/ UNCHANGED ledgerVars
  BY <1>1 DEF ProviderWithdraw, SignVoucher, Tick, ledgerVars
<1>6. QED
  BY <1>2, <1>3, <1>4, <1>5 DEF LedgerNext, ExitStep

(***************************************************************************)
(* No coin leaves an escrow towards its user before the whole unlock       *)
(* window has passed since the latest requestRefund(), for any window      *)
(* length and any interleaving of top-ups, settlements and new transfers.  *)
(***************************************************************************)
THEOREM WindowRespected == LedgerSpec => ExitNeedsWholeWindow
<1>1. TypeOK /\ WindowInv /\ [LedgerNext]_ledgerVars =>
        [\A u \in Users, p \in Providers :
            (/\ balanceOf'[<<u, p>>] < balanceOf[<<u, p>>]
             /\ held' < held) =>
                /\ requestedAt[<<u, p>>] # NotRequested
                /\ now >= requestedAt[<<u, p>>] + REFUND_UNLOCK]_ledgerVars
  BY ExitStepSafe DEF PaidExit
<1>2. QED
  BY LedgerSafe, WindowInit, WindowStep, <1>1, PTL
     DEF LedgerSpec, ExitNeedsWholeWindow

(***************************************************************************)
(* A batch burns exactly the nonces of its items, one item per nonce, so   *)
(* what it draws from a user is covered by the caps of those items.        *)
(***************************************************************************)
LEMMA BatchIsAuthorised ==
    ASSUME NEW p \in Providers, NEW b, IsBatch(b), Settle(p, b),
           NEW u \in Users
    PROVE  Authorised(u, p, Drawn(b, u))
<1> DEFINE I == ItemsOf(b, u)
           K == Burned(u, p)
           key == [i \in I |-> b[i].v.nonce]
           fee == FeesOf(b)
           Of(k) == {i \in I : key[i] = k}
           drawn == [k \in K |-> SumOf(fee, Of(k))]
           item == [k \in K |-> CHOOSE i \in I : b[i].v.nonce = k]
           w == [k \in K |-> b[item[k]].v]
           cap == [k \in K |-> w[k].maxFee]
<1>1. /\ IsFiniteSet(I)
      /\ \A i \in I : /\ i \in DOMAIN b /\ b[i] \in Settlement
                      /\ b[i].v \in signed /\ now <= b[i].v.expiry
                      /\ b[i].fee <= b[i].v.maxFee
                      /\ Slot(b[i].v) = <<u, p, b[i].v.nonce>>
                      /\ Slot(b[i].v) \notin usedNonces
  <2>1. I \in SUBSET (DOMAIN b)
    BY DEF ItemsOf
  <2>2. IsFiniteSet(I)
    BY <2>1, FS_Subset DEF IsBatch
  <2>3. QED
    BY <2>1, <2>2 DEF Settle, Accepts, ItemOK, IsBatch, ItemsOf, Slot
<1>2. \A i, j \in I : key[i] = key[j] => i = j
  BY <1>1 DEF Settle, Accepts
<1>3. K = {b[i].v.nonce : i \in I}
  <2>1. ASSUME NEW i \in I
        PROVE  b[i].v.nonce \in K
    <3>1. <<u, p, b[i].v.nonce>> \in usedNonces' \ usedNonces
      BY <1>1 DEF Settle
    <3>2. b[i].v.nonce \in Nonces
      BY <1>1 DEF Settlement, Voucher
    <3>3. QED
      BY <3>1, <3>2 DEF Burned
  <2>2. ASSUME NEW k \in K
        PROVE  \E i \in I : b[i].v.nonce = k
    <3>1. <<u, p, k>> \in usedNonces' \ usedNonces
      BY DEF Burned
    <3>2. PICK i \in DOMAIN b : Slot(b[i].v) = <<u, p, k>>
      BY <3>1 DEF Settle
    <3>3. b[i].v.user = u /\ b[i].v.nonce = k
      BY <3>2 DEF Slot
    <3>4. QED
      BY <3>3 DEF ItemsOf
  <2>3. QED
    BY <2>1, <2>2
<1>4. key \in [I -> K] /\ key \in Surjection(I, K)
  BY <1>3 DEF Surjection
<1>5. IsFiniteSet(K)
  BY <1>1, <1>4, FS_Surjection
<1>6. \A i \in I : fee[i] = b[i].fee /\ fee[i] \in Nat
  BY <1>1, LedgerAssumption DEF FeesOf, Settlement
<1>7. SumOf(drawn, K) = Drawn(b, u)
  <2>1. \A k \in K : drawn[k] = SumOf(fee, {i \in I : key[i] = k})
    OBVIOUS
  <2>2. SumOf(drawn, K) = SumOf(fee, I)
    <3>1. IsFiniteSet(I) /\ key \in [I -> K] /\ \A i \in I : fee[i] \in Nat
      BY <1>1, <1>4, <1>6
    <3> HIDE DEF I, K, key, fee, drawn
    <3>2. QED
      BY <1>5, <2>1, <3>1, SumByKey
  <2>3. QED
    BY <2>2 DEF Drawn
<1>8. ASSUME NEW k \in K
      PROVE  /\ w[k] \in signed /\ Slot(w[k]) = <<u, p, k>>
             /\ now <= w[k].expiry
             /\ drawn[k] \in Nat /\ cap[k] \in Nat /\ drawn[k] <= cap[k]
  <2>1. item[k] \in I /\ b[item[k]].v.nonce = k
    BY <1>3
  <2>2. Of(k) = {item[k]}
    BY <1>2, <2>1
  <2>3. drawn[k] = fee[item[k]]
    <3>1. fee[item[k]] \in Nat
      BY <1>6, <2>1
    <3>2. SumOf(fee, {item[k]}) = fee[item[k]]
      BY <3>1, SumSingleton
    <3>3. QED
      BY <2>2, <3>2
  <2>4. cap[k] = b[item[k]].v.maxFee /\ cap[k] \in Nat
    BY <1>1, <2>1, LedgerAssumption DEF Settlement, Voucher
  <2>5. QED
    BY <1>1, <1>6, <2>1, <2>3, <2>4
<1>9. SumOf(drawn, K) <= SumOf(cap, K)
  <2> HIDE DEF K, drawn, cap
  <2>1. QED
    BY <1>5, <1>8, SumMonotone
<1>10. w \in [K -> signed]
  BY <1>8
<1>11. QED
  BY <1>7, <1>8, <1>9, <1>10 DEF Authorised

LEMMA DebitSafe ==
    ASSUME TypeOK, [LedgerNext]_ledgerVars, NEW u \in Users, NEW p \in Providers,
           balanceOf[<<u, p>>] - balanceOf'[<<u, p>>] > 0
    PROVE  LET debit == balanceOf[<<u, p>>] - balanceOf'[<<u, p>>]
           IN  Authorised(u, p, debit) \/ PaidOut(u, p, debit)
<1> DEFINE acct == <<u, p>>
           debit == balanceOf[acct] - balanceOf'[acct]
<1>1. acct \in Accounts /\ balanceOf[acct] \in Nat
  BY DEF TypeOK, Accounts
<1>2. ASSUME NEW v \in Users, NEW q \in Providers, WithdrawRefund(v, q)
      PROVE  PaidOut(u, p, debit)
  <2>1. acct = <<v, q>>
    BY <1>1, <1>2 DEF WithdrawRefund, TypeOK, Accounts
  <2>2. /\ debit = Payout(u, p)
        /\ held' = held - Payout(u, p)
        /\ UNCHANGED <<usedNonces, accrued>>
    <3>1. Payout(u, p) \in Int
      BY <1>1 DEF Payout, Lesser, TypeOK
    <3>2. balanceOf'[acct] = balanceOf[acct] - Payout(u, p)
      BY <1>1, <1>2, <2>1 DEF WithdrawRefund, TypeOK
    <3>3. QED
      BY <1>1, <1>2, <2>1, <3>1, <3>2 DEF WithdrawRefund
  <2>3. refunds[acct].amount >= Payout(u, p)
    BY <1>1 DEF Payout, Lesser, TypeOK
  <2>4. QED
    BY <2>2, <2>3 DEF PaidOut
<1>3. ASSUME NEW q \in Providers, NEW b \in Batches, Settle(q, b)
      PROVE  Authorised(u, p, debit)
  <2>1. IsBatch(b)
    BY BatchesAreBatches
  <2>2. balanceOf'[acct] = IF p = q THEN balanceOf[acct] - Drawn(b, u)
                           ELSE balanceOf[acct]
    BY <1>1, <1>3 DEF Settle
  <2>3. p = q /\ debit = Drawn(b, u)
    BY <1>1, <2>1, <2>2, DrawnType
  <2>4. QED
    BY <1>3, <2>1, <2>3, BatchIsAuthorised
<1>4. ~ UserStep
  <2>1. ASSUME NEW v \in Users, NEW amount \in Amounts
        PROVE  /\ ~ Deposit(v, amount)
               /\ ~ WithdrawUnallocated(v, amount)
               /\ \A q \in Providers : /\ ~ TransferTo(v, q, amount)
                                       /\ ~ RequestRefund(v, q, amount)
    <3>1. /\ ~ Deposit(v, amount)
          /\ ~ WithdrawUnallocated(v, amount)
          /\ \A q \in Providers : ~ RequestRefund(v, q, amount)
      BY <1>1 DEF Deposit, WithdrawUnallocated, RequestRefund
    <3>2. ASSUME NEW q \in Providers, TransferTo(v, q, amount)
          PROVE  FALSE
      <4>1. <<v, q>> \in Accounts /\ amount \in Nat
        BY LedgerAssumption DEF Accounts
      <4>2. balanceOf' = [balanceOf EXCEPT ![<<v, q>>] = @ + amount]
        BY <3>2 DEF TransferTo
      <4>3. balanceOf'[acct] = IF acct = <<v, q>> THEN balanceOf[acct] + amount
                               ELSE balanceOf[acct]
        BY <1>1, <4>1, <4>2 DEF TypeOK
      <4>4. QED
        BY <1>1, <4>1, <4>3
    <3>3. QED
      BY <3>1, <3>2
  <2>2. QED
    BY <2>1 DEF UserStep
<1>5. ~ \/ \E q \in Providers : ProviderWithdraw(q)
        \/ \E v \in Voucher : SignVoucher(v)
        \/ Tick
        \/ UNCHANGED ledgerVars
  BY <1>1 DEF ProviderWithdraw, SignVoucher, Tick, ledgerVars
<1>6. QED
  BY <1>2, <1>3, <1>4, <1>5 DEF LedgerNext, ExitStep, SettleStep

(***************************************************************************)
(* Whatever the batches, an escrow is debited only by a matured exit or    *)
(* by live, signed vouchers that this step burns and whose caps cover the  *)
(* debit: no replay, no overcharge, no forged item hidden in a batch.      *)
(***************************************************************************)
THEOREM DebitsAuthorised == LedgerSpec => EscrowDebitsAuthorised
<1>1. TypeOK /\ [LedgerNext]_ledgerVars =>
        [\A u \in Users, p \in Providers :
            LET debit == balanceOf[<<u, p>>] - balanceOf'[<<u, p>>]
            IN  debit > 0 => Authorised(u, p, debit)
                             \/ PaidOut(u, p, debit)]_ledgerVars
  BY DebitSafe
<1>2. QED
  BY LedgerSafe, <1>1, PTL DEF LedgerSpec, EscrowDebitsAuthorised

-----------------------------------------------------------------------------
(***************************************************************************)
(* The gateway over the ledger.                                            *)
(***************************************************************************)

(***************************************************************************)
(* Queues of settlements.                                                  *)
(***************************************************************************)
LEMMA QueueAppend ==
    ASSUME NEW S, NEW q \in Seq(S), NEW e \in S
    PROVE  /\ Append(q, e) \in Seq(S)
           /\ ToSet(Append(q, e)) = ToSet(q) \cup {e}
<1>1. /\ Append(q, e) \in Seq(S)
      /\ Len(Append(q, e)) = Len(q) + 1
      /\ \A i \in 1..Len(q) : Append(q, e)[i] = q[i]
      /\ Append(q, e)[Len(q) + 1] = e
  OBVIOUS
<1>2. /\ Len(q) \in Nat /\ DOMAIN q = 1..Len(q)
      /\ DOMAIN Append(q, e) = 1..(Len(q) + 1)
  BY <1>1
<1>3. 1..(Len(q) + 1) = (1..Len(q)) \cup {Len(q) + 1}
  BY <1>2
<1>4. QED
  BY <1>1, <1>2, <1>3 DEF ToSet

LEMMA QueueEmpty == ToSet(<<>>) = {}
BY DEF ToSet

LEMMA QueueType ==
    ASSUME NEW S, NEW q \in Seq(S)
    PROVE  ToSet(q) \subseteq S
BY DEF ToSet

\* What a mined batch burns.
LEMMA MinedBurns ==
    ASSUME NEW b, Settle(Gateway, b)
    PROVE  /\ usedNonces' = usedNonces \cup {Slot(e.v) : e \in ToSet(b)}
           /\ \A e \in ToSet(b) : e.v.provider = Gateway
           /\ UNCHANGED signed
BY DEF Settle, Accepts, ItemOK, ToSet

(***************************************************************************)
(* The inductive invariant.                                                *)
(***************************************************************************)
Served == {r \in Requests : req[r].stage \in {"answered", "failed"}}
Item(r) == [v |-> req[r].v, fee |-> req[r].fee]

\* The types, among them those of vouchers that only arrive once signed.
QueuesOK ==
    /\ usedLocal \subseteq Users \X Nonces
    /\ signed \subseteq Voucher
    /\ pending \in Seq(Settlement) /\ manual \in Seq(Settlement)
    /\ lost \subseteq Settlement
    /\ limit \in Concurrency

RequestsOK ==
    /\ DOMAIN req = Requests
    /\ \A r \in Requests :
        /\ req[r] = [stage |-> req[r].stage, v |-> req[r].v,
                     fee |-> req[r].fee, batch |-> req[r].batch]
        /\ req[r].stage \in Waiting \cup Final \cup {"idle"}
        /\ req[r].stage # "idle" => req[r].v \in Voucher /\ req[r].fee \in Fees
        /\ req[r].stage \in Waiting \cup {"answered"} => req[r].v.provider = Gateway
        /\ req[r].batch \in Seq(Settlement)

\* A request holds a batch, its own settlement in it, only while it awaits the
\* transaction.
BatchHeld ==
    \A r \in Requests :
        IF req[r].stage = "settling" THEN Item(r) \in ToSet(req[r].batch)
        ELSE req[r].batch = <<>>

\* What is queued belongs to requests that were answered, or, in a batch that
\* a request awaits, to that request.
AnsweredFor(e) == \E r \in Answered : req[r].v = e.v

QueuedIsServed ==
    /\ \A e \in ToSet(pending) \cup ToSet(manual) : AnsweredFor(e)
    /\ \A r \in Requests : \A e \in ToSet(req[r].batch) :
           e.v = req[r].v \/ AnsweredFor(e)

Accounted ==
    \A r \in Answered :
        \/ Slot(req[r].v) \in usedNonces
        \/ Item(r) \in ToSet(pending) \cup ToSet(manual) \cup lost
        \/ \E s \in Requests : Item(r) \in ToSet(req[s].batch)

Charged ==
    \A u \in Users, n \in Nonces :
        <<u, Gateway, n>> \in usedNonces =>
            \E r \in Served : Slot(req[r].v) = <<u, Gateway, n>>

GatewayInv == /\ QueuesOK /\ RequestsOK /\ BatchHeld
              /\ QueuedIsServed /\ Accounted /\ Charged

LEMMA GatewayInit == Init => GatewayInv
<1> SUFFICES ASSUME Init PROVE GatewayInv
  OBVIOUS
<1>1. /\ DOMAIN req = Requests /\ \A r \in Requests : req[r] = IdleRequest
      /\ Answered = {}
  BY DEF Init, Answered, IdleRequest
<1>2. QueuesOK
  BY DEF Init, QueuesOK
<1>5. RequestsOK
  <2>1. <<>> \in Seq(Settlement)
    OBVIOUS
  <2>2. ASSUME NEW r \in Requests
        PROVE  /\ req[r] = [stage |-> req[r].stage, v |-> req[r].v,
                            fee |-> req[r].fee, batch |-> req[r].batch]
               /\ req[r].stage = "idle" /\ req[r].batch = <<>>
    BY <1>1 DEF IdleRequest
  <2>3. "idle" \notin Waiting \cup {"answered"}
    BY DEF Waiting
  <2>4. QED
    BY <1>1, <2>1, <2>2, <2>3 DEF RequestsOK
<1>3. BatchHeld /\ QueuedIsServed /\ Accounted /\ Charged
  BY <1>1, QueueEmpty DEF Init, BatchHeld, QueuedIsServed, Accounted, Charged, IdleRequest
<1>4. QED
  BY <1>2, <1>3, <1>5 DEF GatewayInv

\* A step of the chain on its own.
LEMMA ChainKeeps ==
    ASSUME GatewayInv, ChainStep
    PROVE  GatewayInv'
<1>1. /\ UNCHANGED <<usedNonces, usedLocal, pending, req, manual, lost, limit>>
      /\ signed' \subseteq Voucher
  BY DEF ChainStep, UserStep, ExitStep, Deposit, WithdrawUnallocated, TransferTo,
     RequestRefund, WithdrawRefund, ProviderWithdraw, SignVoucher, Tick, gatewayVars,
     GatewayInv, QueuesOK
<1>2. QED
  BY <1>1 DEF GatewayInv, QueuesOK, RequestsOK, BatchHeld, QueuedIsServed, AnsweredFor,
     Accounted, Charged, Answered, Served, Item

(***************************************************************************)
(* The gate.  A request goes on, or is rejected, and nothing else changes. *)
(***************************************************************************)
Elsewhere == <<ledgerVars, usedLocal, pending, manual, lost, limit>>

\* r is in another state, the other requests are not.
Becomes(r, stage, v, fee, batch) ==
    /\ DOMAIN req' = Requests
    /\ req'[r] = [stage |-> stage, v |-> v, fee |-> fee, batch |-> batch]
    /\ \A t \in Requests \ {r} : req'[t] = req[t]

\* A request that is not answered, before or after, holds nothing.
LEMMA GateKeeps ==
    ASSUME GatewayInv, UNCHANGED Elsewhere, NEW r \in Requests,
           req[r].stage \in {"idle", "clock", "nonce", "balance"},
           NEW stage \in {"clock", "nonce", "balance", "rejected"},
           NEW v \in Voucher, NEW fee \in Fees,
           stage # "rejected" => v.provider = Gateway,
           Becomes(r, stage, v, fee, <<>>)
    PROVE  GatewayInv'
<1>1. UNCHANGED <<usedNonces, signed, usedLocal, pending, manual, lost, limit>>
  BY DEF Elsewhere, ledgerVars
<1>2. /\ req[r].batch = <<>> /\ <<>> \in Seq(Settlement)
      /\ r \notin Answered /\ r \notin Served
  BY DEF GatewayInv, BatchHeld, Answered, Served
<1>3. /\ req'[r].stage = stage /\ req'[r].v = v /\ req'[r].fee = fee
      /\ req'[r].batch = <<>>
      /\ \A t \in Requests \ {r} : req'[t] = req[t]
      /\ DOMAIN req' = Requests
      /\ req'[r] = [stage |-> stage, v |-> v, fee |-> fee, batch |-> <<>>]
  BY DEF Becomes
<1>4. /\ Answered' = Answered /\ Served' = Served
      /\ \A t \in Answered \cup Served : req'[t] = req[t]
  BY <1>2, <1>3 DEF Answered, Served
<1>5. QueuesOK'
  BY <1>1 DEF GatewayInv, QueuesOK
<1>6. RequestsOK'
  BY <1>2, <1>3 DEF GatewayInv, RequestsOK, Waiting, Final
<1>7. BatchHeld'
  BY <1>2, <1>3 DEF GatewayInv, BatchHeld, Item
<1>8. \A e : AnsweredFor(e) => AnsweredFor(e)'
  BY <1>4 DEF AnsweredFor
<1>9. QueuedIsServed'
  BY <1>1, <1>2, <1>3, <1>8, QueueEmpty DEF GatewayInv, QueuedIsServed
<1>10. Accounted'
  <2> SUFFICES ASSUME NEW t \in Answered
               PROVE  \/ Slot(req[t].v) \in usedNonces
                      \/ Item(t) \in ToSet(pending) \cup ToSet(manual) \cup lost
                      \/ \E s \in Requests : Item(t) \in ToSet(req'[s].batch)
    BY <1>1, <1>4 DEF Accounted, Item, Slot
  <2>1. \A s \in Requests : req'[s].batch = req[s].batch
    BY <1>2, <1>3
  <2>2. QED
    BY <2>1 DEF GatewayInv, Accounted
<1>11. Charged'
  BY <1>1, <1>4 DEF GatewayInv, Charged, Slot
<1>12. QED
  BY <1>5, <1>6, <1>7, <1>9, <1>10, <1>11 DEF GatewayInv

LEMMA ArriveKeeps ==
    ASSUME GatewayInv, NEW r \in Requests, NEW v \in signed, NEW fee \in Fees,
           Arrive(r, v, fee)
    PROVE  GatewayInv'
<1> DEFINE stage == IF v.provider = Gateway /\ v \in signed THEN "clock" ELSE "rejected"
<1>1. v \in Voucher /\ DOMAIN req = Requests
  BY DEF GatewayInv, QueuesOK, RequestsOK
<1>2. Becomes(r, stage, v, fee, <<>>) /\ UNCHANGED Elsewhere /\ req[r].stage = "idle"
  BY <1>1 DEF Arrive, Becomes, Elsewhere
<1>3. stage \in {"clock", "rejected"} /\ (stage # "rejected" => v.provider = Gateway)
  OBVIOUS
<1> HIDE DEF stage
<1>4. QED
  BY <1>1, <1>2, <1>3, GateKeeps

LEMMA AdvanceKeeps ==
    ASSUME GatewayInv, UNCHANGED Elsewhere, NEW r \in Requests,
           req[r].stage \in {"clock", "nonce", "balance"},
           NEW stage \in {"nonce", "balance", "rejected"},
           Advance(r, stage)
    PROVE  GatewayInv'
<1>1. /\ req[r].v \in Voucher /\ req[r].fee \in Fees /\ req[r].v.provider = Gateway
      /\ req[r].batch = <<>> /\ DOMAIN req = Requests
      /\ req[r] = [stage |-> req[r].stage, v |-> req[r].v, fee |-> req[r].fee,
                   batch |-> req[r].batch]
  BY DEF GatewayInv, RequestsOK, BatchHeld, Waiting
<1>2. Becomes(r, stage, req[r].v, req[r].fee, <<>>)
  BY <1>1 DEF Advance, Becomes
<1>3. QED
  BY <1>1, <1>2, GateKeeps

(***************************************************************************)
(* Serving: the settlement goes into pending, or with all of pending into  *)
(* the batch that this request awaits.                                     *)
(***************************************************************************)
LEMMA ServeKeeps ==
    ASSUME GatewayInv, NEW r \in Requests, Serve(r)
    PROVE  GatewayInv'
<1> DEFINE queue == Append(pending, Item(r))
           full == Len(queue) >= SettleEvery
<1>1. /\ req[r].v \in Voucher /\ req[r].fee \in Fees /\ req[r].v.provider = Gateway
      /\ req[r].batch = <<>> /\ DOMAIN req = Requests
      /\ req[r] = [stage |-> req[r].stage, v |-> req[r].v, fee |-> req[r].fee,
                   batch |-> req[r].batch]
      /\ r \notin Answered /\ r \notin Served /\ req[r].stage = "balance"
  BY DEF Serve, GatewayInv, RequestsOK, BatchHeld, Waiting, Answered, Served
<1>2. /\ Item(r) \in Settlement /\ pending \in Seq(Settlement)
      /\ queue \in Seq(Settlement) /\ ToSet(queue) = ToSet(pending) \cup {Item(r)}
      /\ <<>> \in Seq(Settlement)
  <2>1. Item(r) \in Settlement
    BY <1>1 DEF Item, Settlement
  <2>2. pending \in Seq(Settlement)
    BY DEF GatewayInv, QueuesOK
  <2>3. <<>> \in Seq(Settlement)
    OBVIOUS
  <2>4. QED
    BY <2>1, <2>2, <2>3, QueueAppend
<1>3. /\ UNCHANGED <<usedNonces, signed, manual, lost, limit>>
      /\ usedLocal' = usedLocal \cup {LocalKey(req[r].v)}
  BY DEF Serve, ledgerVars
<1>4. /\ pending' = IF full THEN <<>> ELSE queue
      /\ req' = [req EXCEPT ![r].stage = IF full THEN "settling" ELSE "answered",
                            ![r].batch = IF full THEN queue ELSE <<>>]
  BY DEF Serve, Item
<1>5. /\ req'[r].v = req[r].v /\ req'[r].fee = req[r].fee
      /\ req'[r].stage = IF full THEN "settling" ELSE "answered"
      /\ req'[r].batch = IF full THEN queue ELSE <<>>
      /\ req'[r] = [stage |-> req'[r].stage, v |-> req'[r].v, fee |-> req'[r].fee,
                    batch |-> req'[r].batch]
      /\ \A t \in Requests \ {r} : req'[t] = req[t]
      /\ DOMAIN req' = Requests
  BY <1>1, <1>4
<1>6. /\ Answered' = IF full THEN Answered ELSE Answered \cup {r}
      /\ Served' = IF full THEN Served ELSE Served \cup {r}
  BY <1>1, <1>5 DEF Answered, Served
<1>7. \A t \in Requests : req'[t].v = req[t].v /\ Item(t)' = Item(t)
  BY <1>5 DEF Item
<1>8. \A e : AnsweredFor(e) => AnsweredFor(e)'
  BY <1>6, <1>7 DEF AnsweredFor, Answered
<1>9. pending' \in Seq(Settlement) /\ req'[r].batch \in Seq(Settlement)
  BY <1>2, <1>4, <1>5
<1> HIDE DEF queue, full
<1>10. QueuesOK'
  <2>1. LocalKey(req[r].v) \in Users \X Nonces
    BY <1>1 DEF LocalKey, Voucher
  <2>2. QED
    BY <1>3, <1>9, <2>1 DEF GatewayInv, QueuesOK
<1>11. RequestsOK'
  BY <1>1, <1>5, <1>9 DEF GatewayInv, RequestsOK, Waiting, Final
<1>12. BatchHeld'
  BY <1>2, <1>5, <1>7 DEF GatewayInv, BatchHeld
<1>13. QueuedIsServed'
  <2>1. \A e \in ToSet(pending) \cup ToSet(manual) : AnsweredFor(e)'
    BY <1>8 DEF GatewayInv, QueuedIsServed
  <2>2. ASSUME ~ full, NEW e, e = Item(r) PROVE AnsweredFor(e)'
    BY <1>6, <1>7, <2>2 DEF AnsweredFor, Item
  <2>3. \A e \in ToSet(pending') \cup ToSet(manual') : AnsweredFor(e)'
    <3>1. CASE full
      BY <1>3, <1>4, <2>1, <3>1, QueueEmpty
    <3>2. CASE ~ full
      BY <1>2, <1>3, <1>4, <2>1, <2>2, <3>2
    <3>3. QED
      BY <3>1, <3>2
  <2>4. ASSUME NEW t \in Requests, NEW e \in ToSet(req'[t].batch)
        PROVE  e.v = req'[t].v \/ AnsweredFor(e)'
    <3>1. CASE t # r
      BY <1>5, <1>8, <2>4, <3>1 DEF GatewayInv, QueuedIsServed
    <3>2. CASE t = r
      BY <1>2, <1>5, <1>7, <2>1, <2>4, <3>2, QueueEmpty DEF Item
    <3>3. QED
      BY <3>1, <3>2
  <2>5. QED
    BY <2>3, <2>4 DEF QueuedIsServed
<1>14. Accounted'
  <2> SUFFICES ASSUME NEW t \in Answered'
               PROVE  \/ Slot(req[t].v) \in usedNonces
                      \/ Item(t) \in ToSet(pending') \cup ToSet(manual) \cup lost
                      \/ \E s \in Requests : Item(t) \in ToSet(req'[s].batch)
    BY <1>3, <1>7 DEF Accounted, Slot, Answered
  <2>1. ToSet(pending) \cup {Item(r)} \subseteq ToSet(pending') \cup ToSet(req'[r].batch)
    BY <1>2, <1>4, <1>5
  <2>2. CASE t = r
    BY <2>1, <2>2
  <2>3. CASE t # r
    <3>1. \/ Slot(req[t].v) \in usedNonces
          \/ Item(t) \in ToSet(pending) \cup ToSet(manual) \cup lost
          \/ \E s \in Requests : Item(t) \in ToSet(req[s].batch)
      BY <1>6, <2>3 DEF GatewayInv, Accounted
    <3>2. \A s \in Requests : ToSet(req[s].batch) \subseteq ToSet(req'[s].batch)
      BY <1>1, <1>5, QueueEmpty
    <3>3. QED
      BY <2>1, <3>1, <3>2
  <2>4. QED
    BY <2>2, <2>3
<1>15. Charged'
  BY <1>3, <1>6, <1>7 DEF GatewayInv, Charged, Slot, Served
<1>16. QED
  BY <1>10, <1>11, <1>12, <1>13, <1>14, <1>15 DEF GatewayInv

(***************************************************************************)
(* Settling a batch b, taken from pending before: it is mined, or lost.    *)
(***************************************************************************)
Settles(b) == Mined(b) \/ Dropped(b)

\* Either way nothing of it is unaccounted for, and what it burns was served.
LEMMA BatchSettled ==
    ASSUME GatewayInv, NEW b \in Seq(Settlement), Settles(b)
    PROVE  /\ signed' = signed
           /\ lost' \subseteq Settlement /\ lost \subseteq lost'
           /\ usedNonces \subseteq usedNonces'
           /\ \A e \in ToSet(b) : e \in lost' \/ Slot(e.v) \in usedNonces'
           /\ \A s \in usedNonces' : s \in usedNonces \/ \E e \in ToSet(b) : s = Slot(e.v)
<1>1. ToSet(b) \subseteq Settlement /\ lost \subseteq Settlement
  BY QueueType DEF GatewayInv, QueuesOK
<1>2. CASE Mined(b)
  BY <1>1, <1>2, MinedBurns DEF Mined
<1>3. CASE Dropped(b)
  BY <1>1, <1>3 DEF Dropped, ledgerVars
<1>4. QED
  BY <1>2, <1>3 DEF Settles

LEMMA SettleForRequestKeeps ==
    ASSUME GatewayInv, NEW r \in Requests, SettleForRequest(r)
    PROVE  GatewayInv'
<1> DEFINE b == req[r].batch
<1>1. PICK stage \in {"answered", "failed"} :
        /\ req' = [req EXCEPT ![r].batch = <<>>, ![r].stage = stage]
        /\ Settles(b) /\ (stage = "answered" => Mined(b))
  BY DEF SettleForRequest, Settles
<1>2. /\ req[r].stage = "settling" /\ UNCHANGED <<usedLocal, pending, manual, limit>>
      /\ r \notin Answered /\ r \notin Served
  BY DEF SettleForRequest, Answered, Served
<1>3. /\ req[r].v \in Voucher /\ req[r].fee \in Fees /\ req[r].v.provider = Gateway
      /\ Item(r) \in ToSet(b) /\ b \in Seq(Settlement) /\ DOMAIN req = Requests
      /\ req[r] = [stage |-> req[r].stage, v |-> req[r].v, fee |-> req[r].fee,
                   batch |-> req[r].batch]
  BY <1>2 DEF GatewayInv, RequestsOK, BatchHeld, Waiting
<1>4. <<>> \in Seq(Settlement)
  OBVIOUS
<1>5. /\ req'[r].v = req[r].v /\ req'[r].fee = req[r].fee
      /\ req'[r].stage = stage /\ req'[r].batch = <<>>
      /\ req'[r] = [stage |-> req'[r].stage, v |-> req'[r].v, fee |-> req'[r].fee,
                    batch |-> req'[r].batch]
      /\ \A t \in Requests \ {r} : req'[t] = req[t]
      /\ DOMAIN req' = Requests
  BY <1>1, <1>3
<1>6. /\ signed' = signed
      /\ lost' \subseteq Settlement /\ lost \subseteq lost'
      /\ usedNonces \subseteq usedNonces'
      /\ \A e \in ToSet(b) : e \in lost' \/ Slot(e.v) \in usedNonces'
      /\ \A s \in usedNonces' : s \in usedNonces \/ \E e \in ToSet(b) : s = Slot(e.v)
  BY <1>1, <1>3, BatchSettled
<1>7. stage = "answered" => Slot(req[r].v) \in usedNonces'
  BY <1>1, <1>3, MinedBurns DEF Mined, Item
<1>8. /\ Served' = Served \cup {r}
      /\ Answered' = IF stage = "answered" THEN Answered \cup {r} ELSE Answered
  BY <1>2, <1>5 DEF Answered, Served
<1>9. \A t \in Requests : req'[t].v = req[t].v /\ Item(t)' = Item(t)
  BY <1>5 DEF Item
<1>10. \A e : AnsweredFor(e) => AnsweredFor(e)'
  BY <1>8, <1>9 DEF AnsweredFor, Answered
<1>11. \A e \in ToSet(b) : e.v = req[r].v \/ AnsweredFor(e)
  BY DEF GatewayInv, QueuedIsServed
<1> HIDE DEF b
<1>12. QueuesOK'
  BY <1>2, <1>6 DEF GatewayInv, QueuesOK
<1>13. RequestsOK'
  BY <1>3, <1>4, <1>5 DEF GatewayInv, RequestsOK, Waiting, Final
<1>14. BatchHeld'
  BY <1>5, <1>9 DEF GatewayInv, BatchHeld
<1>15. QueuedIsServed'
  <2>1. \A e \in ToSet(pending') \cup ToSet(manual') : AnsweredFor(e)'
    BY <1>2, <1>10 DEF GatewayInv, QueuedIsServed
  <2>2. ASSUME NEW t \in Requests, NEW e \in ToSet(req'[t].batch)
        PROVE  e.v = req'[t].v \/ AnsweredFor(e)'
    <3>1. t # r
      BY <1>5, <2>2, QueueEmpty
    <3>2. QED
      BY <1>5, <1>10, <2>2, <3>1 DEF GatewayInv, QueuedIsServed
  <2>3. QED
    BY <2>1, <2>2 DEF QueuedIsServed
<1>16. Accounted'
  <2> SUFFICES ASSUME NEW t \in Answered'
               PROVE  \/ Slot(req[t].v) \in usedNonces'
                      \/ Item(t) \in ToSet(pending) \cup ToSet(manual) \cup lost'
                      \/ \E s \in Requests : Item(t) \in ToSet(req'[s].batch)
    BY <1>2, <1>9 DEF Accounted, Slot, Answered
  <2>1. CASE t = r
    BY <1>2, <1>7, <1>8, <2>1
  <2>2. CASE t # r
    <3>1. \/ Slot(req[t].v) \in usedNonces
          \/ Item(t) \in ToSet(pending) \cup ToSet(manual) \cup lost
          \/ \E s \in Requests : Item(t) \in ToSet(req[s].batch)
      BY <1>8, <2>2 DEF GatewayInv, Accounted
    <3>2. ASSUME NEW s \in Requests, Item(t) \in ToSet(req[s].batch)
          PROVE  \/ Slot(req[t].v) \in usedNonces' \/ Item(t) \in lost'
                 \/ Item(t) \in ToSet(req'[s].batch)
      <4>1. CASE s # r
        BY <1>5, <3>2, <4>1
      <4>2. CASE s = r
        <5>1. Item(t) \in lost' \/ Slot(Item(t).v) \in usedNonces'
          BY <1>6, <3>2, <4>2 DEF b
        <5>2. QED
          BY <5>1 DEF Item
      <4>3. QED
        BY <4>1, <4>2
    <3>3. QED
      BY <1>6, <3>1, <3>2
  <2>3. QED
    BY <2>1, <2>2
<1>17. Charged'
  <2> SUFFICES ASSUME NEW u \in Users, NEW n \in Nonces, <<u, Gateway, n>> \in usedNonces'
               PROVE  \E t \in Served' : Slot(req[t].v) = <<u, Gateway, n>>
    BY <1>9 DEF Charged, Slot, Served
  <2>1. CASE <<u, Gateway, n>> \in usedNonces
    BY <1>8, <2>1 DEF GatewayInv, Charged
  <2>2. CASE \E e \in ToSet(b) : <<u, Gateway, n>> = Slot(e.v)
    <3>1. PICK e \in ToSet(b) : <<u, Gateway, n>> = Slot(e.v)
      BY <2>2
    <3>2. CASE e.v = req[r].v
      BY <1>8, <3>1, <3>2
    <3>3. CASE AnsweredFor(e)
      <4>1. PICK t \in Answered : req[t].v = e.v
        BY <3>3 DEF AnsweredFor
      <4>2. t \in Served'
        BY <1>8, <4>1 DEF Answered, Served
      <4>3. QED
        BY <3>1, <4>1, <4>2
    <3>4. QED
      BY <1>11, <3>2, <3>3
  <2>3. QED
    BY <1>6, <2>1, <2>2
<1>18. QED
  BY <1>12, <1>13, <1>14, <1>15, <1>16, <1>17 DEF GatewayInv

LEMMA SettleNowKeeps ==
    ASSUME GatewayInv, SettleNow
    PROVE  GatewayInv'
<1>1. /\ manual = <<>> /\ manual' = pending /\ pending' = <<>>
      /\ UNCHANGED <<usedNonces, signed, usedLocal, req, lost, limit>>
      /\ <<>> \in Seq(Settlement)
  BY DEF SettleNow, ledgerVars
<1>2. ToSet(pending') \cup ToSet(manual') = ToSet(pending) \cup ToSet(manual)
  BY <1>1, QueueEmpty
<1>3. QueuesOK'
  BY <1>1 DEF GatewayInv, QueuesOK
<1>4. RequestsOK' /\ BatchHeld' /\ Charged'
  BY <1>1 DEF GatewayInv, RequestsOK, BatchHeld, Charged, Served, Item, Slot
<1>5. QueuedIsServed' /\ Accounted'
  BY <1>1, <1>2 DEF GatewayInv, QueuedIsServed, AnsweredFor, Accounted, Answered, Item, Slot
<1>6. QED
  BY <1>3, <1>4, <1>5 DEF GatewayInv

LEMMA SettleManualKeeps ==
    ASSUME GatewayInv, SettleManual
    PROVE  GatewayInv'
<1>1. /\ manual' = <<>> /\ UNCHANGED <<usedLocal, pending, req, limit>>
      /\ manual \in Seq(Settlement) /\ Settles(manual) /\ <<>> \in Seq(Settlement)
  BY DEF SettleManual, Settles, GatewayInv, QueuesOK
<1>2. /\ signed' = signed
      /\ lost' \subseteq Settlement /\ lost \subseteq lost'
      /\ usedNonces \subseteq usedNonces'
      /\ \A e \in ToSet(manual) : e \in lost' \/ Slot(e.v) \in usedNonces'
      /\ \A s \in usedNonces' :
             s \in usedNonces \/ \E e \in ToSet(manual) : s = Slot(e.v)
  BY <1>1, BatchSettled
<1>3. Answered' = Answered /\ Served' = Served
  BY <1>1 DEF Answered, Served
<1>4. QueuesOK'
  BY <1>1, <1>2 DEF GatewayInv, QueuesOK
<1>5. RequestsOK' /\ BatchHeld'
  BY <1>1 DEF GatewayInv, RequestsOK, BatchHeld, Item
<1>6. QueuedIsServed'
  BY <1>1, <1>3, QueueEmpty DEF GatewayInv, QueuedIsServed, AnsweredFor
<1>7. Accounted'
  <2> SUFFICES ASSUME NEW t \in Answered
               PROVE  \/ Slot(req[t].v) \in usedNonces'
                      \/ Item(t) \in ToSet(pending) \cup lost'
                      \/ \E s \in Requests : Item(t) \in ToSet(req[s].batch)
    BY <1>1, <1>3 DEF Accounted, Item, Slot
  <2>1. \/ Slot(req[t].v) \in usedNonces
        \/ Item(t) \in ToSet(pending) \cup ToSet(manual) \cup lost
        \/ \E s \in Requests : Item(t) \in ToSet(req[s].batch)
    BY DEF GatewayInv, Accounted
  <2>2. Item(t) \in ToSet(manual) => Item(t) \in lost' \/ Slot(req[t].v) \in usedNonces'
    BY <1>2 DEF Item
  <2>3. QED
    BY <1>2, <2>1, <2>2
<1>8. Charged'
  <2> SUFFICES ASSUME NEW u \in Users, NEW n \in Nonces, <<u, Gateway, n>> \in usedNonces'
               PROVE  \E t \in Served : Slot(req[t].v) = <<u, Gateway, n>>
    BY <1>1, <1>3 DEF Charged, Slot
  <2>1. CASE <<u, Gateway, n>> \in usedNonces
    BY <2>1 DEF GatewayInv, Charged
  <2>2. CASE \E e \in ToSet(manual) : <<u, Gateway, n>> = Slot(e.v)
    <3>1. PICK e \in ToSet(manual) : <<u, Gateway, n>> = Slot(e.v)
      BY <2>2
    <3>2. PICK t \in Answered : req[t].v = e.v
      BY <3>1 DEF GatewayInv, QueuedIsServed, AnsweredFor
    <3>3. t \in Served
      BY <3>2 DEF Answered, Served
    <3>4. QED
      BY <3>1, <3>2, <3>3
  <2>3. QED
    BY <1>2, <2>1, <2>2
<1>9. QED
  BY <1>4, <1>5, <1>6, <1>7, <1>8 DEF GatewayInv

(***************************************************************************)
(* One step per action.                                                    *)
(***************************************************************************)
LEMMA GatewayStep == GatewayInv /\ [Next]_vars => GatewayInv'
<1> SUFFICES ASSUME GatewayInv, [Next]_vars PROVE GatewayInv'
  OBVIOUS
<1>1. CASE ChainStep
  BY <1>1, ChainKeeps
<1>2. ASSUME NEW r \in Requests,
             ReadClock(r) \/ ReadNonce(r) \/ RejectAtBalance(r) \/ ReadFails(r)
      PROVE  GatewayInv'
  <2>1. /\ UNCHANGED Elsewhere /\ req[r].stage \in {"clock", "nonce", "balance"}
        /\ \E stage \in {"nonce", "balance", "rejected"} : Advance(r, stage)
    BY <1>2 DEF ReadClock, ReadNonce, RejectAtBalance, ReadFails, Elsewhere
  <2>2. QED
    BY <2>1, AdvanceKeeps
<1>3. ASSUME NEW r \in Requests, Serve(r)
      PROVE  GatewayInv'
  BY <1>3, ServeKeeps
<1>4. ASSUME NEW r \in Requests, SettleForRequest(r)
      PROVE  GatewayInv'
  BY <1>4, SettleForRequestKeeps
<1>5. ASSUME NEW r \in Requests, NEW v \in signed, NEW fee \in Fees, Arrive(r, v, fee)
      PROVE  GatewayInv'
  BY <1>5, ArriveKeeps
<1>6. CASE SettleNow
  BY <1>6, SettleNowKeeps
<1>7. CASE SettleManual
  BY <1>7, SettleManualKeeps
<1>8. CASE UNCHANGED vars
  BY <1>8 DEF vars, gatewayVars, ledgerVars, GatewayInv, QueuesOK, RequestsOK, BatchHeld,
     QueuedIsServed, AnsweredFor, Accounted, Charged, Answered, Served, Item
<1>9. QED
  BY <1>1, <1>2, <1>3, <1>4, <1>5, <1>6, <1>7, <1>8 DEF Next, RequestStep

THEOREM GatewayInvariant == Spec => []GatewayInv
BY GatewayInit, GatewayStep, PTL DEF Spec

\* Every answered request is accounted for: its nonce is burnt on the chain,
\* or its settlement is queued, in a batch or dropped with one (pending,
\* settleNow), whatever the batch size and the failures of the RPC.
THEOREM GatewayAccounts == Spec => []AnsweredIsAccounted
<1>1. GatewayInv => AnsweredIsAccounted
  <2> SUFFICES ASSUME GatewayInv PROVE AnsweredIsAccounted
    OBVIOUS
  <2>1. GatewayTypeOK
    BY DEF GatewayInv, QueuesOK, RequestsOK, GatewayTypeOK
  <2>2. ToSet(pending) \cup ToSet(manual) \subseteq Queued
    BY DEF Queued, InFlight
  <2>3. \A s \in Requests : ToSet(req[s].batch) \subseteq Queued
    BY DEF Queued, InFlight
  <2>4. ASSUME NEW t \in Answered
        PROVE  Slot(req[t].v) \in usedNonces \/ Item(t) \in Queued \cup lost
    BY <2>2, <2>3, t \in Requests DEF GatewayInv, Accounted, Answered
  <2>5. QED
    BY <2>1, <2>4 DEF AnsweredIsAccounted, Item
<1>2. QED
  BY <1>1, GatewayInvariant, PTL

\* The chain charges for served requests only: a nonce burnt in favour of the
\* gateway is that of a request it answered, or failed after serving
\* (checkVoucher, the 400 path, settleNow).
THEOREM GatewayChargesServed == Spec => []ChargedOnlyIfServed
<1>1. GatewayInv => ChargedOnlyIfServed
  BY DEF GatewayInv, Charged, Served, ChargedOnlyIfServed
<1>2. QED
  BY <1>1, GatewayInvariant, PTL

(***************************************************************************)
(* One request at a time.  What a request reads of the local guard then    *)
(* still holds when it is served.                                          *)
(***************************************************************************)
Using == {r \in Requests : req[r].stage \in {"settling", "answered"}}
Key(r) == LocalKey(req[r].v)

OneInTurn == \A r, s \in Active : r = s
UsedIsGuarded == \A r \in Using : Key(r) \in usedLocal
CheckedIsFresh ==
    \A r \in Requests : req[r].stage \in {"nonce", "balance"} => Key(r) \notin usedLocal
KeysApart == \A r, s \in Using : r # s => Key(r) # Key(s)

TurnInv ==
    limit = 1 => OneInTurn /\ UsedIsGuarded /\ CheckedIsFresh /\ KeysApart

LEMMA TurnInit == Init => TurnInv
BY DEF Init, TurnInv, OneInTurn, UsedIsGuarded, CheckedIsFresh, KeysApart, Active, Using,
   Waiting, IdleRequest

\* Requests, the guard and the limit as they were.
LEMMA TurnIdle ==
    ASSUME TurnInv, UNCHANGED <<req, usedLocal, limit>>
    PROVE  TurnInv'
BY DEF TurnInv, OneInTurn, UsedIsGuarded, CheckedIsFresh, KeysApart, Active, Using, Key

LEMMA TurnArrive ==
    ASSUME GatewayInv, TurnInv, NEW r \in Requests, NEW v \in signed, NEW fee \in Fees,
           Arrive(r, v, fee)
    PROVE  TurnInv'
<1> SUFFICES ASSUME limit' = 1
             PROVE  (OneInTurn /\ UsedIsGuarded /\ CheckedIsFresh /\ KeysApart)'
  BY DEF TurnInv
<1>1. /\ UNCHANGED <<usedLocal, limit>> /\ req[r].stage = "idle"
      /\ Cardinality(Active) < limit /\ DOMAIN req = Requests
  BY DEF Arrive, GatewayInv, RequestsOK
<1>2. OneInTurn /\ UsedIsGuarded /\ CheckedIsFresh /\ KeysApart
  BY <1>1 DEF TurnInv
<1>3. Active = {}
  <2>1. IsFiniteSet(Active)
    BY GatewayAssumption, FS_Subset DEF Active
  <2>2. Cardinality(Active) \in Nat
    BY <2>1, FS_CardinalityType
  <2>3. Cardinality(Active) = 0
    BY <1>1, <2>2
  <2>4. QED
    BY <2>1, <2>3, FS_EmptySet
<1>4. /\ req'[r].stage \in {"clock", "rejected"}
      /\ \A t \in Requests \ {r} : req'[t] = req[t]
  BY <1>1 DEF Arrive
<1>5. Active' \subseteq {r} /\ Using' = Using /\ r \notin Using
  BY <1>1, <1>3, <1>4 DEF Active, Using, Waiting
<1>6. \A t \in Requests \ {r} : Key(t)' = Key(t)
  BY <1>4 DEF Key
<1>7. QED
  BY <1>1, <1>2, <1>4, <1>5, <1>6
     DEF OneInTurn, UsedIsGuarded, CheckedIsFresh, KeysApart, Using

\* A request that advances has, if it stays, found its key free.
LEMMA TurnAdvance ==
    ASSUME GatewayInv, TurnInv, UNCHANGED Elsewhere, NEW r \in Requests,
           req[r].stage \in {"clock", "nonce", "balance"},
           NEW stage \in {"nonce", "balance", "rejected"},
           Advance(r, stage),
           limit = 1 /\ stage # "rejected" => Key(r) \notin usedLocal
    PROVE  TurnInv'
<1> SUFFICES ASSUME limit' = 1
             PROVE  (OneInTurn /\ UsedIsGuarded /\ CheckedIsFresh /\ KeysApart)'
  BY DEF TurnInv
<1>1. UNCHANGED <<usedLocal, limit>> /\ DOMAIN req = Requests
  BY DEF Elsewhere, GatewayInv, RequestsOK
<1>2. OneInTurn /\ UsedIsGuarded /\ CheckedIsFresh /\ KeysApart
  BY <1>1 DEF TurnInv
<1>3. /\ req'[r].stage = stage /\ req'[r].v = req[r].v
      /\ \A t \in Requests \ {r} : req'[t] = req[t]
  <2>1. req[r] = [stage |-> req[r].stage, v |-> req[r].v, fee |-> req[r].fee,
                  batch |-> req[r].batch]
    BY DEF GatewayInv, RequestsOK
  <2>2. QED
    BY <1>1, <2>1 DEF Advance
<1>4. Active' \subseteq Active /\ Using' = Using /\ r \notin Using
  BY <1>3 DEF Active, Using, Waiting
<1>5. \A t \in Requests : Key(t)' = Key(t)
  BY <1>3 DEF Key
<1>6. QED
  BY <1>1, <1>2, <1>3, <1>4, <1>5
     DEF OneInTurn, UsedIsGuarded, CheckedIsFresh, KeysApart, Using

LEMMA TurnServe ==
    ASSUME GatewayInv, TurnInv, NEW r \in Requests, Serve(r)
    PROVE  TurnInv'
<1> SUFFICES ASSUME limit' = 1
             PROVE  (OneInTurn /\ UsedIsGuarded /\ CheckedIsFresh /\ KeysApart)'
  BY DEF TurnInv
<1>1. /\ limit' = limit /\ usedLocal' = usedLocal \cup {Key(r)} /\ DOMAIN req = Requests
      /\ req[r].stage = "balance"
  BY DEF Serve, GatewayInv, RequestsOK, Key
<1>2. OneInTurn /\ UsedIsGuarded /\ CheckedIsFresh /\ KeysApart
  BY <1>1 DEF TurnInv
<1>3. /\ req'[r].stage \in {"settling", "answered"} /\ req'[r].v = req[r].v
      /\ \A t \in Requests \ {r} : req'[t] = req[t]
  <2>1. req[r] = [stage |-> req[r].stage, v |-> req[r].v, fee |-> req[r].fee,
                  batch |-> req[r].batch]
    BY DEF GatewayInv, RequestsOK
  <2>2. QED
    BY <1>1, <2>1 DEF Serve
<1>4. r \in Active /\ Active' \subseteq Active /\ Using' = Using \cup {r}
  BY <1>1, <1>3 DEF Active, Using, Waiting
<1>5. \A t \in Requests : Key(t)' = Key(t)
  BY <1>3 DEF Key
<1>6. Key(r) \notin usedLocal
  BY <1>1, <1>2 DEF CheckedIsFresh
<1>7. \A t \in Using : Key(t) # Key(r)
  BY <1>2, <1>6 DEF UsedIsGuarded
<1>8. \A t \in Requests \ {r} : req'[t].stage \notin {"nonce", "balance"}
  BY <1>2, <1>3, <1>4 DEF OneInTurn, Active, Waiting
<1>9. OneInTurn' /\ UsedIsGuarded' /\ CheckedIsFresh'
  BY <1>1, <1>2, <1>3, <1>4, <1>5, <1>8
     DEF OneInTurn, UsedIsGuarded, CheckedIsFresh, Using
<1>10. KeysApart'
  BY <1>2, <1>4, <1>5, <1>7 DEF KeysApart, Using
<1>11. QED
  BY <1>9, <1>10

LEMMA TurnSettle ==
    ASSUME GatewayInv, TurnInv, NEW r \in Requests, SettleForRequest(r)
    PROVE  TurnInv'
<1> SUFFICES ASSUME limit' = 1
             PROVE  (OneInTurn /\ UsedIsGuarded /\ CheckedIsFresh /\ KeysApart)'
  BY DEF TurnInv
<1>1. UNCHANGED <<usedLocal, limit>> /\ DOMAIN req = Requests /\ req[r].stage = "settling"
  BY DEF SettleForRequest, GatewayInv, RequestsOK
<1>2. OneInTurn /\ UsedIsGuarded /\ CheckedIsFresh /\ KeysApart
  BY <1>1 DEF TurnInv
<1>3. /\ req'[r].stage \in {"answered", "failed"} /\ req'[r].v = req[r].v
      /\ \A t \in Requests \ {r} : req'[t] = req[t]
  <2>1. req[r] = [stage |-> req[r].stage, v |-> req[r].v, fee |-> req[r].fee,
                  batch |-> req[r].batch]
    BY DEF GatewayInv, RequestsOK
  <2>2. QED
    BY <1>1, <2>1 DEF SettleForRequest
<1>4. Active' \subseteq Active /\ Using' \subseteq Using
  BY <1>1, <1>3 DEF Active, Using, Waiting
<1>5. \A t \in Requests : Key(t)' = Key(t)
  BY <1>3 DEF Key
<1>6. QED
  BY <1>1, <1>2, <1>3, <1>4, <1>5
     DEF OneInTurn, UsedIsGuarded, CheckedIsFresh, KeysApart, Using

LEMMA TurnStep == GatewayInv /\ TurnInv /\ [Next]_vars => TurnInv'
<1> SUFFICES ASSUME GatewayInv, TurnInv, [Next]_vars PROVE TurnInv'
  OBVIOUS
<1>1. CASE ChainStep \/ SettleNow \/ SettleManual \/ UNCHANGED vars
  <2>1. UNCHANGED <<req, usedLocal, limit>>
    BY <1>1 DEF ChainStep, SettleNow, SettleManual, vars, gatewayVars
  <2>2. QED
    BY <2>1, TurnIdle
<1>2. ASSUME NEW r \in Requests,
             ReadClock(r) \/ ReadNonce(r) \/ RejectAtBalance(r) \/ ReadFails(r)
      PROVE  TurnInv'
  <2>1. /\ UNCHANGED Elsewhere /\ req[r].stage \in {"clock", "nonce", "balance"}
        /\ \E stage \in {"nonce", "balance", "rejected"} :
               /\ Advance(r, stage)
               /\ stage # "rejected" => req[r].stage = "nonce" \/ Key(r) \notin usedLocal
    BY <1>2 DEF ReadClock, ReadNonce, RejectAtBalance, ReadFails, Elsewhere, Key
  <2>2. limit = 1 /\ req[r].stage = "nonce" => Key(r) \notin usedLocal
    BY DEF TurnInv, CheckedIsFresh
  <2>3. QED
    BY <2>1, <2>2, TurnAdvance
<1>3. ASSUME NEW r \in Requests, Serve(r)
      PROVE  TurnInv'
  BY <1>3, TurnServe
<1>4. ASSUME NEW r \in Requests, SettleForRequest(r)
      PROVE  TurnInv'
  BY <1>4, TurnSettle
<1>5. ASSUME NEW r \in Requests, NEW v \in signed, NEW fee \in Fees, Arrive(r, v, fee)
      PROVE  TurnInv'
  BY <1>5, TurnArrive
<1>6. QED
  BY <1>1, <1>2, <1>3, <1>4, <1>5 DEF Next, RequestStep

\* A gateway that handles one request at a time answers once per nonce, however
\* many vouchers the user signs for it and whenever the batches are settled
\* (checkVoucher, usedNonces).
THEOREM GatewayAnswersOnce == Spec => []OneAnswerInTurn
<1>1. TurnInv => OneAnswerInTurn
  BY DEF TurnInv, KeysApart, OneAnswerInTurn, Answered, Using, Key, LocalKey, Slot
<1>2. QED
  BY <1>1, TurnInit, TurnStep, GatewayInvariant, PTL DEF Spec

-----------------------------------------------------------------------------
(***************************************************************************)
(* The serving broker.                                                     *)
(***************************************************************************)
IsLine(r) == {"pc", "warm", "via"} \subseteq DOMAIN r

ServingInv ==
    /\ DOMAIN line = Lines
    /\ \A l \in Lines : IsLine(line[l])
    /\ SignersAcknowledged

LEMMA LineUpdates ==
    ASSUME NEW r, {"pc", "warm", "via"} \subseteq DOMAIN r, NEW s, NEW x
    PROVE  /\ LET t == [r EXCEPT !.pc = s]
              IN  /\ DOMAIN t = DOMAIN r
                  /\ t.pc = s /\ t.via = r.via
           /\ LET t == [r EXCEPT !.pc = s, !.via = x]
              IN  /\ DOMAIN t = DOMAIN r
                  /\ t.pc = s /\ t.via = x
OBVIOUS

LEMMA ServingStart == ServingInit => ServingInv
<1> SUFFICES ASSUME ServingInit PROVE ServingInv
  OBVIOUS
<1>1. \A l \in Lines : line[l] = [pc |-> "idle", warm |-> FALSE, via |-> NoSupplier]
  BY DEF ServingInit, NoLine
<1>2. \A l \in Lines : IsLine(line[l]) /\ line[l].pc = "idle"
  BY <1>1 DEF IsLine
<1>3. DOMAIN line = Lines /\ acked = {} /\ vouched = {}
  BY DEF ServingInit
<1>4. QED
  BY <1>2, <1>3 DEF ServingInv, SignersAcknowledged, LineAt

\* A call l that moves to the given state keeps the invariant, if the signer is
\* acknowledged before anything is asked and none is forgotten.
LEMMA LineMoves ==
    ASSUME ServingInv, NEW l \in Lines, NEW r, IsLine(r),
           line' = [line EXCEPT ![l] = r],
           signers \subseteq signers', acked' \cup vouched' \subseteq signers',
           r.pc = "post" => r.via \in signers'
    PROVE  ServingInv'
<1>1. DOMAIN line = Lines
  BY DEF ServingInv
<1>2. /\ DOMAIN line' = Lines /\ line'[l] = r
      /\ \A k \in Lines \ {l} : line'[k] = line[k]
  BY <1>1
<1>3. \A k \in Lines : line'[k].pc = "post" => line'[k].via \in signers'
  BY <1>2 DEF ServingInv, SignersAcknowledged, LineAt
<1>4. SignersAcknowledged'
  BY <1>3 DEF SignersAcknowledged, LineAt
<1>5. QED
  BY <1>2, <1>4 DEF ServingInv

LEMMA ServingStep ==
    ASSUME ServingInv, ServingNext
    PROVE  ServingInv'
<1>1. /\ DOMAIN line = Lines /\ \A k \in Lines : IsLine(line[k])
      /\ acked \cup vouched \subseteq signers
      /\ \A k \in Lines : line[k].pc = "post" => line[k].via \in signers
  BY DEF ServingInv, SignersAcknowledged, LineAt
<1>2. CASE Relisted
  BY <1>2 DEF Relisted, ServingInv, SignersAcknowledged, LineAt
<1>3. ASSUME NEW l \in Lines, LineEnds(l), signers \subseteq signers',
             acked' \cup vouched' \subseteq signers'
      PROVE  ServingInv'
  <2> PICK r : r = NoLine
    OBVIOUS
  <2>1. IsLine(r) /\ r.pc = "idle"
    BY DEF IsLine, NoLine
  <2>2. line' = [line EXCEPT ![l] = r]
    BY <1>3 DEF LineEnds
  <2>3. QED
    BY <1>3, <2>1, <2>2, LineMoves
<1>4. ASSUME NEW l \in Lines, NEW s, LineGoes(l, s), signers \subseteq signers',
             acked' \cup vouched' \subseteq signers',
             s = "post" => line[l].via \in signers'
      PROVE  ServingInv'
  <2> PICK r : r = [line[l] EXCEPT !.pc = s]
    OBVIOUS
  <2>1. IsLine(r) /\ r.pc = s /\ r.via = line[l].via
    BY <1>1, LineUpdates DEF IsLine
  <2>2. line' = [line EXCEPT ![l] = r]
    BY <1>4 DEF LineGoes
  <2>3. QED
    BY <1>4, <2>1, <2>2, LineMoves
<1>5. ASSUME NEW l \in Lines, Ready(l), signers \subseteq signers',
             acked' \cup vouched' \subseteq signers', line[l].via \in signers'
      PROVE  ServingInv'
  BY <1>3, <1>4, <1>5 DEF Ready
<1>6. ASSUME NEW l \in Lines, NEW warm \in BOOLEAN, Begins(l, warm)
      PROVE  ServingInv'
  <2> PICK r : r = [warm |-> warm, via |-> supplier,
                    pc |-> IF supplier = NoSupplier THEN "list" ELSE "metadata"]
    OBVIOUS
  <2>1. IsLine(r) /\ r.pc # "post"
    BY DEF IsLine
  <2>2. line' = [line EXCEPT ![l] = r] /\ UNCHANGED <<acked, vouched, signers>>
    BY <1>6 DEF Begins
  <2>3. QED
    BY <1>1, <2>1, <2>2, LineMoves
<1>7. ASSUME NEW l \in Lines, Picks(l)
      PROVE  ServingInv'
  <2>1. CASE offered = NoSupplier
    BY <1>1, <1>3, <1>7, <2>1 DEF Picks
  <2>2. CASE offered # NoSupplier
    <3> PICK r : r = [line[l] EXCEPT !.pc = "metadata", !.via = offered]
      OBVIOUS
    <3>1. IsLine(r) /\ r.pc = "metadata"
      BY <1>1, LineUpdates DEF IsLine
    <3>2. line' = [line EXCEPT ![l] = r]
      BY <1>7, <2>2 DEF Picks
    <3>3. QED
      BY <1>1, <1>7, <3>1, <3>2, LineMoves DEF Picks
  <2>3. QED
    BY <2>1, <2>2
<1>8. ASSUME NEW l \in Lines, KnowsMetadata(l)
      PROVE  ServingInv'
  BY <1>1, <1>4, <1>5, <1>8 DEF KnowsMetadata
<1>9. ASSUME NEW l \in Lines, Acknowledges(l)
      PROVE  ServingInv'
  BY <1>1, <1>5, <1>9 DEF Acknowledges
<1>10. ASSUME NEW l \in Lines, AcknowledgeFails(l)
       PROVE  ServingInv'
  BY <1>1, <1>3, <1>10 DEF AcknowledgeFails
<1>11. ASSUME NEW l \in Lines, NEW verified \in BOOLEAN, Completes(l, verified)
       PROVE  ServingInv'
  BY <1>1, <1>3, <1>11 DEF Completes, LineAt
<1>12. ASSUME NEW l \in Lines, LineFails(l)
       PROVE  ServingInv'
  BY <1>1, <1>3, <1>12 DEF LineFails
<1>13. QED
  BY <1>2, <1>6, <1>7, <1>8, <1>9, <1>10, <1>11, <1>12 DEF ServingNext

(***************************************************************************)
(* The registry's bonds.                                                   *)
(***************************************************************************)
ListedIn(s) == {p \in Sellers : s[p].active}
Backed(s, n) == n = BondWei * Cardinality(ListedIn(s))

\* Every seller has a listing that is active or not.
Shaped(s) ==
    /\ DOMAIN s = Sellers
    /\ \A p \in Sellers : "active" \in DOMAIN s[p] /\ s[p].active \in BOOLEAN

IsSequence(s) == \E U : s \in Seq(U)

\* What a refund that is refused would bring back was backed as well.
RegistryInv ==
    /\ Shaped(service)
    /\ Backed(service, pot)
    /\ IsSequence(refunding)
    /\ \A i \in 1..Len(refunding) :
        /\ Shaped(refunding[i].before[1])
        /\ Backed(refunding[i].before[1], refunding[i].before[3])

LEMMA SequenceGrows ==
    ASSUME NEW s, IsSequence(s), NEW x
    PROVE  /\ IsSequence(Append(s, x))
           /\ Len(s) \in Nat /\ Len(Append(s, x)) = Len(s) + 1
           /\ Append(s, x)[Len(s) + 1] = x
           /\ \A i \in 1..Len(s) : Append(s, x)[i] = s[i]
<1>1. PICK U : s \in Seq(U)
  BY DEF IsSequence
<1>2. \A i \in 1..Len(s) : s[i] \in U \cup {x}
  BY <1>1, ElementOfSeq
<1>3. s \in Seq(U \cup {x})
  BY <1>1, <1>2
<1>4. QED
  BY <1>3, AppendProperties, LenProperties DEF IsSequence

LEMMA SequenceShrinks ==
    ASSUME NEW s, IsSequence(s), s # <<>>
    PROVE  /\ IsSequence(Front(s)) /\ Len(s) \in Nat /\ Len(s) \in 1..Len(s)
           /\ Len(Front(s)) = Len(s) - 1
           /\ \A i \in 1..Len(Front(s)) : i \in 1..Len(s) /\ Front(s)[i] = s[i]
<1>1. PICK U : s \in Seq(U)
  BY DEF IsSequence
<1>2. Len(s) \in Nat /\ Len(s) # 0
  BY <1>1
<1>3. \A i \in 1..(Len(s) - 1) : s[i] \in U
  BY <1>1, <1>2, ElementOfSeq
<1>4. /\ Front(s) \in Seq(U) /\ Len(Front(s)) = Len(s) - 1
      /\ \A i \in 1..(Len(s) - 1) : Front(s)[i] = s[i]
  <2> PICK n : n = Len(s) - 1
    OBVIOUS
  <2>1. 1 \in Int /\ n \in Int /\ n \in Nat /\ \A i \in 1..n : s[i] \in U
    BY <1>2, <1>3
  <2>2. /\ SubSeq(s, 1, n) \in Seq(U)
        /\ Len(SubSeq(s, 1, n)) = IF 1 <= n THEN n - 1 + 1 ELSE 0
        /\ \A i \in 1..(n - 1 + 1) : SubSeq(s, 1, n)[i] = s[1 + i - 1]
    BY <2>1, SubSeqProperties
  <2>3. QED
    BY <1>2, <2>1, <2>2 DEF Front
<1>5. QED
  BY <1>2, <1>4 DEF IsSequence

LEMMA ListedFinite ==
    ASSUME NEW s
    PROVE  IsFiniteSet(ListedIn(s)) /\ Cardinality(ListedIn(s)) \in Nat
BY MarketAssumption, FS_Subset, FS_CardinalityType DEF ListedIn

\* Listing one more seller takes one bond more.
LEMMA OneMoreListed ==
    ASSUME NEW s, NEW t, NEW p \in Sellers, Shaped(s), Shaped(t),
           \A q \in Sellers \ {p} : t[q] = s[q], ~ s[p].active, t[p].active,
           NEW n, Backed(s, n)
    PROVE  n \in Int /\ Backed(t, n + BondWei)
<1>1. ListedIn(t) = ListedIn(s) \cup {p} /\ p \notin ListedIn(s)
  BY DEF ListedIn, Shaped
<1>2. PICK k \in Nat : k = Cardinality(ListedIn(s))
  BY ListedFinite
<1>3. Cardinality(ListedIn(t)) = k + 1
  BY <1>1, <1>2, ListedFinite, FS_AddElement
<1>4. n = BondWei * k /\ BondWei \in Nat
  BY <1>2, MarketAssumption DEF Backed
<1>5. n + BondWei = BondWei * (k + 1) /\ n \in Int
  BY <1>4
<1>6. QED
  BY <1>3, <1>5 DEF Backed

\* One less releases a bond.
LEMMA OneLessListed ==
    ASSUME NEW s, NEW t, NEW p \in Sellers, Shaped(s), Shaped(t),
           \A q \in Sellers \ {p} : t[q] = s[q], s[p].active, ~ t[p].active,
           NEW n, Backed(s, n)
    PROVE  Backed(t, n - BondWei)
<1>1. ListedIn(t) = ListedIn(s) \ {p} /\ p \in ListedIn(s)
  BY DEF ListedIn, Shaped
<1>2. PICK k \in Nat : k = Cardinality(ListedIn(s))
  BY ListedFinite
<1>3. Cardinality(ListedIn(t)) = k - 1
  BY <1>1, <1>2, ListedFinite, FS_RemoveElement
<1>4. n = BondWei * k /\ BondWei \in Nat
  BY <1>2, MarketAssumption DEF Backed
<1>5. n - BondWei = BondWei * (k - 1)
  BY <1>4
<1>6. QED
  BY <1>3, <1>5 DEF Backed

\* Editing an active listing keeps the bonds as they are.
LEMMA SameListed ==
    ASSUME NEW s, NEW t, NEW p \in Sellers, Shaped(s), Shaped(t),
           \A q \in Sellers \ {p} : t[q] = s[q], s[p].active, t[p].active,
           NEW n, Backed(s, n)
    PROVE  Backed(t, n)
<1>1. ListedIn(t) = ListedIn(s)
  BY DEF ListedIn, Shaped
<1>2. QED
  BY <1>1 DEF Backed

LEMMA RegistryStart == MarketInit => RegistryInv
<1> SUFFICES ASSUME MarketInit PROVE RegistryInv
  OBVIOUS
<1>1. service = [p \in Sellers |-> Unlisted] /\ pot = 0 /\ refunding = <<>>
  BY DEF MarketInit
<1>2. "active" \in DOMAIN Unlisted /\ Unlisted.active = FALSE
  BY DEF Unlisted
<1>3. Shaped(service)
  BY <1>1, <1>2 DEF Shaped
<1>4. ListedIn(service) = {}
  BY <1>1, <1>2 DEF ListedIn
<1>5. Backed(service, pot)
  <2>1. Cardinality(ListedIn(service)) = 0 /\ BondWei * 0 = 0
    BY <1>4, FS_EmptySet, MarketAssumption
  <2>2. QED
    BY <1>1, <2>1 DEF Backed
<1>6. IsSequence(refunding) /\ Len(refunding) = 0
  BY <1>1, EmptySeq DEF IsSequence
<1>7. QED
  BY <1>3, <1>5, <1>6 DEF RegistryInv

\* A listing that replaces that of p.
LEMMA ListingStored ==
    ASSUME NEW p \in Sellers, NEW l \in Listings, Shaped(service),
           service' = [service EXCEPT ![p] = Listed(l)]
    PROVE  /\ Shaped(service') /\ service'[p].active
           /\ \A q \in Sellers \ {p} : service'[q] = service[q]
<1> PICK r : r = Listed(l)
  OBVIOUS
<1>1. "active" \in DOMAIN r /\ r.active = TRUE
  BY DEF Listed
<1>2. service' = [service EXCEPT ![p] = r]
  OBVIOUS
<1>3. QED
  BY <1>1, <1>2 DEF Shaped

LEMMA RegistryStep ==
    ASSUME RegistryInv, MarketNext
    PROVE  RegistryInv'
<1>1. Shaped(service) /\ Backed(service, pot) /\ IsSequence(refunding)
  BY DEF RegistryInv
<1>2. ASSUME NEW p \in Sellers, NEW l \in Listings, Register(p, l)
      PROVE  RegistryInv'
  <2>1. /\ ~ service[p].active /\ pot' = pot + BondWei /\ refunding' = refunding
        /\ service' = [service EXCEPT ![p] = Listed(l)]
    BY <1>2 DEF Register
  <2>2. /\ Shaped(service') /\ service'[p].active
        /\ \A q \in Sellers \ {p} : service'[q] = service[q]
    BY <1>1, <2>1, ListingStored
  <2>3. Backed(service', pot')
    BY <1>1, <2>1, <2>2, OneMoreListed
  <2>4. QED
    BY <2>1, <2>2, <2>3 DEF RegistryInv
<1>3. ASSUME NEW p \in Sellers, NEW l \in Listings, Update(p, l)
      PROVE  RegistryInv'
  <2>1. /\ service[p].active /\ pot' = pot /\ refunding' = refunding
        /\ service' = [service EXCEPT ![p] = Listed(l)]
    BY <1>3 DEF Update
  <2>2. /\ Shaped(service') /\ service'[p].active
        /\ \A q \in Sellers \ {p} : service'[q] = service[q]
    BY <1>1, <2>1, ListingStored
  <2>3. Backed(service', pot')
    BY <1>1, <2>1, <2>2, SameListed
  <2>4. QED
    BY <2>1, <2>2, <2>3 DEF RegistryInv
<1>4. ASSUME NEW p \in Sellers, Deactivate(p)
      PROVE  RegistryInv'
  <2>1. /\ service[p].active /\ pot' = pot - BondWei
        /\ service' = [service EXCEPT ![p].active = FALSE]
        /\ refunding' = Refunding(p)
    BY <1>4 DEF Deactivate
  <2>2. /\ Shaped(service') /\ ~ service'[p].active
        /\ \A q \in Sellers \ {p} : service'[q] = service[q]
    BY <1>1, <2>1 DEF Shaped
  <2>3. Backed(service', pot')
    BY <1>1, <2>1, <2>2, OneLessListed
  <2>4. CASE refunding' = refunding
    BY <2>2, <2>3, <2>4 DEF RegistryInv
  <2>5. ASSUME NEW frame, frame.before = <<service, providers, pot>>,
               refunding' = Append(refunding, frame)
        PROVE  RegistryInv'
    <3>1. frame.before[1] = service /\ frame.before[3] = pot
      BY <2>5
    <3>2. /\ IsSequence(refunding') /\ Len(refunding) \in Nat
          /\ Len(refunding') = Len(refunding) + 1
          /\ refunding'[Len(refunding) + 1] = frame
          /\ \A i \in 1..Len(refunding) : refunding'[i] = refunding[i]
      BY <1>1, <2>5, SequenceGrows
    <3>3. ASSUME NEW i \in 1..Len(refunding')
          PROVE  /\ Shaped(refunding'[i].before[1])
                 /\ Backed(refunding'[i].before[1], refunding'[i].before[3])
      <4>1. CASE i = Len(refunding) + 1
        BY <1>1, <3>1, <3>2, <4>1
      <4>2. CASE i # Len(refunding) + 1
        <5>1. i \in 1..Len(refunding) /\ refunding'[i] = refunding[i]
          BY <3>2, <4>2
        <5>2. QED
          BY <5>1 DEF RegistryInv
      <4>3. QED
        BY <4>1, <4>2
    <3>4. QED
      BY <2>2, <2>3, <3>2, <3>3 DEF RegistryInv
  <2>6. CASE BondWei # 0
    <3> PICK frame : frame = [provider |-> p, before |-> <<service, providers, pot>>]
      OBVIOUS
    <3>1. frame.before = <<service, providers, pot>> /\ refunding' = Append(refunding, frame)
      BY <2>1, <2>6 DEF Refunding
    <3>2. QED
      BY <2>5, <3>1
  <2>7. QED
    BY <2>1, <2>4, <2>6 DEF Refunding
<1>5. CASE RefundEnds
  <2>1. /\ refunding # <<>> /\ refunding' = Front(refunding)
        /\ \/ service' = service /\ pot' = pot
           \/ /\ service' = Last(refunding).before[1]
              /\ pot' = Last(refunding).before[3]
    BY <1>5 DEF RefundEnds
  <2>2. /\ IsSequence(refunding') /\ Len(refunding) \in 1..Len(refunding)
        /\ \A i \in 1..Len(refunding') : i \in 1..Len(refunding) /\ refunding'[i] = refunding[i]
    BY <1>1, <2>1, SequenceShrinks
  <2>3. /\ Shaped(Last(refunding).before[1])
        /\ Backed(Last(refunding).before[1], Last(refunding).before[3])
    BY <2>2 DEF RegistryInv, Last
  <2>4. Shaped(service') /\ Backed(service', pot')
    BY <1>1, <2>1, <2>3
  <2>5. QED
    BY <2>2, <2>4 DEF RegistryInv
<1>6. ASSUME NEW c \in Asks,
             \/ Ask(c) \/ ReadPage(c) \/ Answer(c) \/ Unattested(c) \/ FetchQuote(c)
             \/ QuoteHolds(c) \/ QuoteFails(c)
      PROVE  RegistryInv'
  <2>1. UNCHANGED registryVars
    BY <1>6 DEF Ask, ReadPage, Answer, Unattested, FetchQuote, QuoteHolds, QuoteFails
  <2>2. QED
    BY <2>1 DEF registryVars, RegistryInv
<1>7. QED
  BY <1>2, <1>3, <1>4, <1>5, <1>6 DEF MarketNext

(***************************************************************************)
(* The stamped answers.                                                    *)
(***************************************************************************)
\* What a verifier whose quote was checked has established.
Attests(by) ==
    /\ by.bound = by.svc.ref
    /\ HardwareAccepts(by.svc.ref)
    /\ TierWithin(by.svc.tier, Ceiling(by.svc.ref))

VerifierOk(by) ==
    /\ {"svc", "quote", "bound"} \subseteq DOMAIN by
    /\ by.quote = "checked" => Attests(by)

\* A call that chose a verifier has one; one that was answered has a key.
AskOk(r) ==
    /\ {"pc", "offset", "seen", "via", "key", "fetched"} \subseteq DOMAIN r
    /\ r.pc \in {"post", "fetch", "running", "joined"} => r.via \in Asks
    /\ r.pc \in {"fetch", "running", "joined"} => r.key \in Enclaves

BrokerInv ==
    /\ DOMAIN ask = Asks /\ DOMAIN verifier = Asks
    /\ chosen \in Asks \cup {NoOne}
    /\ \A c \in Asks : AskOk(ask[c]) /\ VerifierOk(verifier[c])
    /\ StampedIsAttested

LEMMA IdleAskOk == AskOk(IdleAsk)
BY DEF AskOk, IdleAsk

LEMMA BrokerStart == MarketInit => BrokerInv
<1> SUFFICES ASSUME MarketInit PROVE BrokerInv
  OBVIOUS
<1>1. /\ ask = [c \in Asks |-> IdleAsk] /\ verifier = [c \in Asks |-> NoVerifier]
      /\ chosen = NoOne /\ stamped = {}
  BY DEF MarketInit
<1>2. VerifierOk(NoVerifier)
  BY DEF VerifierOk, NoVerifier
<1>3. StampedIsAttested
  BY <1>1 DEF StampedIsAttested
<1>4. QED
  BY <1>1, <1>2, <1>3, IdleAskOk DEF BrokerInv

\* One call moves on, and nothing else of the broker changes.
LEMMA AskMoves ==
    ASSUME BrokerInv, NEW c \in Asks, NEW r, AskOk(r), ask' = [ask EXCEPT ![c] = r]
    PROVE  DOMAIN ask' = Asks /\ \A d \in Asks : AskOk(ask'[d])
BY DEF BrokerInv

LEMMA VerifierMoves ==
    ASSUME BrokerInv, NEW c \in Asks, NEW by, VerifierOk(by),
           verifier' = [verifier EXCEPT ![c] = by]
    PROVE  DOMAIN verifier' = Asks /\ \A d \in Asks : VerifierOk(verifier'[d])
BY DEF BrokerInv

\* Calls that end under a verifier that attests, or under none, stamp only
\* answers that are attested.
LEMMA FinishStamps ==
    ASSUME BrokerInv, NEW done \in SUBSET Asks, NEW by, Finish(done, by),
           Attests(by) \/ \A d \in done : ask[d].key # by.svc.signer
    PROVE  /\ DOMAIN ask' = Asks /\ \A d \in Asks : AskOk(ask'[d])
           /\ StampedIsAttested'
<1>1. ask' = [d \in Asks |-> IF d \in done THEN IdleAsk ELSE ask[d]]
  BY DEF Finish
<1>2. DOMAIN ask' = Asks /\ \A d \in Asks : AskOk(ask'[d])
  BY <1>1, IdleAskOk DEF BrokerInv
<1>3. stamped' = stamped \cup Stamps(done, by)
  BY DEF Finish
<1>4. ASSUME NEW a \in Stamps(done, by)
      PROVE  a.by = by /\ a.key = by.svc.signer /\ Attests(by)
  <2>1. PICK d \in done : ask[d].key = by.svc.signer /\ a = [by |-> by, key |-> ask[d].key]
    BY DEF Stamps
  <2>2. QED
    BY <2>1
<1>5. StampedIsAttested'
  BY <1>3, <1>4 DEF BrokerInv, StampedIsAttested, Attests
<1>6. QED
  BY <1>2, <1>5

LEMMA QuoteUpdates ==
    ASSUME NEW by, VerifierOk(by), NEW q, NEW b
    PROVE  LET one == [by EXCEPT !.quote = q]
               two == [by EXCEPT !.quote = q, !.bound = b]
           IN  /\ {"svc", "quote", "bound"} \subseteq DOMAIN one
               /\ one.quote = q /\ one.svc = by.svc
               /\ {"svc", "quote", "bound"} \subseteq DOMAIN two
               /\ two.quote = q /\ two.bound = b /\ two.svc = by.svc
BY DEF VerifierOk

LEMMA AskUpdates ==
    ASSUME NEW r, {"pc", "offset", "seen", "via", "key", "fetched"} \subseteq DOMAIN r,
           NEW s, NEW x, NEW y
    PROVE  /\ LET t == [r EXCEPT !.pc = s]
              IN  /\ DOMAIN t = DOMAIN r
                  /\ t.pc = s /\ t.via = r.via /\ t.key = r.key
           /\ LET t == [r EXCEPT !.pc = s, !.via = x]
              IN  /\ DOMAIN t = DOMAIN r
                  /\ t.pc = s /\ t.via = x /\ t.key = r.key
           /\ LET t == [r EXCEPT !.key = x, !.pc = s]
              IN  /\ DOMAIN t = DOMAIN r
                  /\ t.pc = s /\ t.via = r.via /\ t.key = x
           /\ LET t == [r EXCEPT !.fetched = x, !.pc = s]
              IN  /\ DOMAIN t = DOMAIN r
                  /\ t.pc = s /\ t.via = r.via /\ t.key = r.key
           /\ LET t == [r EXCEPT !.seen = x, !.offset = y]
              IN  /\ DOMAIN t = DOMAIN r
                  /\ t.pc = r.pc /\ t.via = r.via /\ t.key = r.key
OBVIOUS

LEMMA AskKeeps ==
    ASSUME BrokerInv, NEW c \in Asks, Ask(c)
    PROVE  BrokerInv'
<1>1. UNCHANGED <<chosen, verifier, stamped>>
  BY DEF Ask
<1>2. PICK r : /\ ask' = [ask EXCEPT ![c] = r]
               /\ r = IF chosen = NoOne THEN [IdleAsk EXCEPT !.pc = "list"]
                      ELSE [IdleAsk EXCEPT !.pc = "post", !.via = chosen]
  BY DEF Ask
<1>3. {"pc", "offset", "seen", "via", "key", "fetched"} \subseteq DOMAIN IdleAsk
  BY IdleAskOk DEF AskOk
<1>4. AskOk(r)
  <2>1. CASE chosen = NoOne
    <3>1. r = [IdleAsk EXCEPT !.pc = "list"]
      BY <1>2, <2>1
    <3>2. DOMAIN r = DOMAIN IdleAsk /\ r.pc = "list"
      BY <1>3, <3>1
    <3>3. QED
      BY <1>3, <3>2 DEF AskOk
  <2>2. CASE chosen # NoOne
    <3>1. r = [IdleAsk EXCEPT !.pc = "post", !.via = chosen]
      BY <1>2, <2>2
    <3>2. DOMAIN r = DOMAIN IdleAsk /\ r.pc = "post" /\ r.via = chosen
      BY <1>3, <3>1
    <3>3. chosen \in Asks
      BY <2>2 DEF BrokerInv
    <3>4. QED
      BY <1>3, <3>2, <3>3 DEF AskOk
  <2>3. QED
    BY <2>1, <2>2
<1>5. DOMAIN ask' = Asks /\ \A d \in Asks : AskOk(ask'[d])
  BY <1>2, <1>4, AskMoves
<1>6. QED
  BY <1>1, <1>5 DEF BrokerInv, StampedIsAttested

LEMMA ReadPageKeeps ==
    ASSUME BrokerInv, NEW c \in Asks, ReadPage(c)
    PROVE  BrokerInv'
<1> PICK page, pool : page = Page(ask[c].offset) /\ pool = Pool(ask[c].seen \o page)
  OBVIOUS
<1>1. /\ ask[c].pc = "list" /\ stamped' = stamped
      /\ IF Len(page) = PageSize
         THEN /\ ask' = [ask EXCEPT ![c].seen = @ \o page, ![c].offset = @ + PageSize]
              /\ UNCHANGED <<chosen, verifier>>
         ELSE IF pool = <<>>
         THEN /\ ask' = [ask EXCEPT ![c] = IdleAsk]
              /\ UNCHANGED <<chosen, verifier>>
         ELSE /\ verifier' = [verifier EXCEPT ![c] = [NoVerifier EXCEPT !.svc = Cheapest(pool)]]
              /\ chosen' = c
              /\ ask' = [ask EXCEPT ![c] = [IdleAsk EXCEPT !.pc = "post", !.via = c]]
  BY DEF ReadPage, AskAt
<1>2. StampedIsAttested'
  BY <1>1 DEF BrokerInv, StampedIsAttested
<1>3. AskOk(ask[c]) /\ DOMAIN ask = Asks
  BY DEF BrokerInv
<1>4. CASE Len(page) = PageSize
  <2> PICK x, y : x = ask[c].seen \o page /\ y = ask[c].offset + PageSize
    OBVIOUS
  <2> PICK r : r = [ask[c] EXCEPT !.seen = x, !.offset = y]
    OBVIOUS
  <2>1. ask' = [ask EXCEPT ![c] = r]
    BY <1>1, <1>3, <1>4
  <2>2. AskOk(r)
    BY <1>1, <1>3, AskUpdates DEF AskOk
  <2>3. DOMAIN ask' = Asks /\ \A d \in Asks : AskOk(ask'[d])
    BY <2>1, <2>2, AskMoves
  <2>4. QED
    BY <1>1, <1>2, <1>4, <2>3 DEF BrokerInv
<1>5. CASE Len(page) # PageSize /\ pool = <<>>
  <2>1. DOMAIN ask' = Asks /\ \A d \in Asks : AskOk(ask'[d])
    BY <1>1, <1>5, AskMoves, IdleAskOk
  <2>2. QED
    BY <1>1, <1>2, <1>5, <2>1 DEF BrokerInv
<1>6. CASE Len(page) # PageSize /\ pool # <<>>
  <2> PICK r, by : /\ r = [IdleAsk EXCEPT !.pc = "post", !.via = c]
                   /\ by = [NoVerifier EXCEPT !.svc = Cheapest(pool)]
    OBVIOUS
  <2>1. AskOk(r)
    <3>1. {"pc", "offset", "seen", "via", "key", "fetched"} \subseteq DOMAIN IdleAsk
      BY IdleAskOk DEF AskOk
    <3>2. DOMAIN r = DOMAIN IdleAsk /\ r.pc = "post" /\ r.via = c
      BY <3>1
    <3>3. QED
      BY <3>1, <3>2 DEF AskOk
  <2>2. VerifierOk(by)
    <3>1. {"svc", "quote", "bound"} \subseteq DOMAIN NoVerifier /\ NoVerifier.quote = "unchecked"
      BY DEF NoVerifier
    <3>2. DOMAIN by = DOMAIN NoVerifier /\ by.quote = "unchecked"
      BY <3>1
    <3>3. QED
      BY <3>1, <3>2 DEF VerifierOk
  <2>3. /\ ask' = [ask EXCEPT ![c] = r] /\ verifier' = [verifier EXCEPT ![c] = by]
        /\ chosen' = c
    BY <1>1, <1>6
  <2>4. /\ DOMAIN ask' = Asks /\ \A d \in Asks : AskOk(ask'[d])
        /\ DOMAIN verifier' = Asks /\ \A d \in Asks : VerifierOk(verifier'[d])
    BY <2>1, <2>2, <2>3, AskMoves, VerifierMoves
  <2>5. QED
    BY <1>2, <2>3, <2>4 DEF BrokerInv
<1>7. QED
  BY <1>4, <1>5, <1>6

LEMMA AnswerKeeps ==
    ASSUME BrokerInv, NEW c \in Asks, Answer(c) \/ Unattested(c)
    PROVE  BrokerInv'
<1>1. UNCHANGED <<chosen, verifier, stamped>>
  BY DEF Answer, Unattested
<1>2. AskOk(ask[c]) /\ DOMAIN ask = Asks
  BY DEF BrokerInv
<1>3. CASE Answer(c)
  <2>1. PICK k \in Enclaves : ask' = [ask EXCEPT ![c].key = k, ![c].pc = "fetch"]
    BY <1>3 DEF Answer
  <2> PICK r : r = [ask[c] EXCEPT !.key = k, !.pc = "fetch"]
    OBVIOUS
  <2>2. ask' = [ask EXCEPT ![c] = r]
    BY <1>2, <2>1
  <2>3. AskOk(r)
    BY <1>2, <1>3, AskUpdates DEF AskOk, Answer, AskAt
  <2>4. DOMAIN ask' = Asks /\ \A d \in Asks : AskOk(ask'[d])
    BY <2>2, <2>3, AskMoves
  <2>5. QED
    BY <1>1, <2>4 DEF BrokerInv, StampedIsAttested
<1>4. CASE Unattested(c)
  <2>1. DOMAIN ask' = Asks /\ \A d \in Asks : AskOk(ask'[d])
    BY <1>4, AskMoves, IdleAskOk DEF Unattested
  <2>2. QED
    BY <1>1, <2>1 DEF BrokerInv, StampedIsAttested
<1>5. QED
  BY <1>3, <1>4

LEMMA FetchQuoteKeeps ==
    ASSUME BrokerInv, NEW c \in Asks, FetchQuote(c)
    PROVE  BrokerInv'
<1> PICK v : v = ask[c].via
  OBVIOUS
<1>1. /\ AskOk(ask[c]) /\ DOMAIN ask = Asks /\ DOMAIN verifier = Asks
      /\ ask[c].pc = "fetch" /\ v \in Asks /\ ask[c].key \in Enclaves
      /\ Via(c) = verifier[v] /\ VerifierOk(verifier[v]) /\ chosen' = chosen
  BY DEF BrokerInv, FetchQuote, AskAt, AskOk, Via
<1>2. CASE /\ verifier' = [verifier EXCEPT ![v].quote = "running"]
           /\ \E blob \in Enclaves :
                 ask' = [ask EXCEPT ![c].fetched = blob, ![c].pc = "running"]
           /\ UNCHANGED stamped
  <2>1. PICK blob \in Enclaves : ask' = [ask EXCEPT ![c].fetched = blob, ![c].pc = "running"]
    BY <1>2
  <2> PICK r, by : /\ r = [ask[c] EXCEPT !.fetched = blob, !.pc = "running"]
                   /\ by = [verifier[v] EXCEPT !.quote = "running"]
    OBVIOUS
  <2>2. ask' = [ask EXCEPT ![c] = r] /\ verifier' = [verifier EXCEPT ![v] = by]
    BY <1>1, <1>2, <2>1
  <2>3. AskOk(r)
    BY <1>1, AskUpdates DEF AskOk
  <2>4. VerifierOk(by)
    <3>1. {"svc", "quote", "bound"} \subseteq DOMAIN by /\ by.quote = "running"
      BY <1>1, QuoteUpdates
    <3>2. QED
      BY <3>1 DEF VerifierOk
  <2>5. /\ DOMAIN ask' = Asks /\ \A d \in Asks : AskOk(ask'[d])
        /\ DOMAIN verifier' = Asks /\ \A d \in Asks : VerifierOk(verifier'[d])
    BY <1>1, <2>2, <2>3, <2>4, AskMoves, VerifierMoves
  <2>6. QED
    BY <1>1, <1>2, <2>5 DEF BrokerInv, StampedIsAttested
<1>3. CASE AskGoes(c, "joined") /\ UNCHANGED <<verifier, stamped>>
  <2> PICK r : r = [ask[c] EXCEPT !.pc = "joined"]
    OBVIOUS
  <2>1. ask' = [ask EXCEPT ![c] = r]
    BY <1>1, <1>3 DEF AskGoes
  <2>2. AskOk(r)
    BY <1>1, AskUpdates DEF AskOk
  <2>3. DOMAIN ask' = Asks /\ \A d \in Asks : AskOk(ask'[d])
    BY <2>1, <2>2, AskMoves
  <2>4. QED
    BY <1>1, <1>3, <2>3 DEF BrokerInv, StampedIsAttested
<1>4. CASE Via(c).quote = "checked" /\ Finish({c}, Via(c)) /\ UNCHANGED verifier
  <2>1. Attests(verifier[v])
    BY <1>1, <1>4 DEF VerifierOk
  <2>2. /\ DOMAIN ask' = Asks /\ \A d \in Asks : AskOk(ask'[d])
        /\ StampedIsAttested'
    <3>1. {c} \in SUBSET Asks /\ Finish({c}, verifier[v])
      BY <1>1, <1>4
    <3>2. QED
      BY <2>1, <3>1, FinishStamps
  <2>3. QED
    BY <1>1, <1>4, <2>2 DEF BrokerInv
<1>5. QED
  BY <1>2, <1>3, <1>4 DEF FetchQuote

LEMMA QuoteEndsKeeps ==
    ASSUME BrokerInv, NEW c \in Asks, QuoteHolds(c) \/ QuoteFails(c)
    PROVE  BrokerInv'
<1> PICK v : v = ask[c].via
  OBVIOUS
<1>1. /\ AskOk(ask[c]) /\ DOMAIN ask = Asks /\ DOMAIN verifier = Asks
      /\ ask[c].pc = "running" /\ v \in Asks
      /\ Via(c) = verifier[v] /\ VerifierOk(verifier[v]) /\ chosen' = chosen
  BY DEF BrokerInv, QuoteHolds, QuoteFails, AskAt, AskOk, Via
<1>2. Sharing(c) \in SUBSET Asks /\ \A d \in Sharing(c) : ask[d].key \in Enclaves
  BY DEF Sharing, BrokerInv, AskOk
<1>3. CASE QuoteHolds(c)
  <2> PICK by : by = [verifier[v] EXCEPT !.quote = "checked", !.bound = ask[c].fetched]
    OBVIOUS
  <2>1. /\ verifier' = [verifier EXCEPT ![v] = by] /\ Finish(Sharing(c), by)
        /\ QuoteFits(c) /\ HardwareAccepts(ask[c].fetched)
    BY <1>1, <1>3 DEF QuoteHolds
  <2>2. /\ {"svc", "quote", "bound"} \subseteq DOMAIN by
        /\ by.bound = ask[c].fetched /\ by.svc = verifier[v].svc
    <3> PICK b, f : b = verifier[v] /\ f = ask[c].fetched
      OBVIOUS
    <3>1. by = [b EXCEPT !.quote = "checked", !.bound = f] /\ VerifierOk(b)
      BY <1>1
    <3>2. /\ {"svc", "quote", "bound"} \subseteq DOMAIN by
          /\ by.bound = f /\ by.svc = b.svc
      BY <3>1, QuoteUpdates
    <3>3. QED
      BY <3>2
  <2>3. Attests(by)
    BY <1>1, <2>1, <2>2 DEF Attests, QuoteFits
  <2>4. VerifierOk(by)
    BY <2>2, <2>3 DEF VerifierOk
  <2>5. DOMAIN verifier' = Asks /\ \A d \in Asks : VerifierOk(verifier'[d])
    BY <1>1, <2>1, <2>4, VerifierMoves
  <2>6. /\ DOMAIN ask' = Asks /\ \A d \in Asks : AskOk(ask'[d])
        /\ StampedIsAttested'
    BY <1>2, <2>1, <2>3, FinishStamps
  <2>7. QED
    BY <1>1, <2>5, <2>6 DEF BrokerInv
<1>4. CASE QuoteFails(c)
  <2> PICK by : by = [verifier[v] EXCEPT !.quote = "unchecked"]
    OBVIOUS
  <2>1. verifier' = [verifier EXCEPT ![v] = by] /\ Finish(Sharing(c), NoVerifier)
    BY <1>1, <1>4 DEF QuoteFails
  <2>2. VerifierOk(by)
    <3>1. {"svc", "quote", "bound"} \subseteq DOMAIN by /\ by.quote = "unchecked"
      BY <1>1, QuoteUpdates
    <3>2. QED
      BY <3>1 DEF VerifierOk
  <2>3. DOMAIN verifier' = Asks /\ \A d \in Asks : VerifierOk(verifier'[d])
    BY <1>1, <2>1, <2>2, VerifierMoves
  <2>4. \A d \in Sharing(c) : ask[d].key # NoVerifier.svc.signer
    BY <1>2, MarketAssumption DEF NoVerifier, Unlisted
  <2>5. /\ DOMAIN ask' = Asks /\ \A d \in Asks : AskOk(ask'[d])
        /\ StampedIsAttested'
    BY <1>2, <2>1, <2>4, FinishStamps
  <2>6. QED
    BY <1>1, <2>3, <2>5 DEF BrokerInv
<1>5. QED
  BY <1>3, <1>4

LEMMA BrokerStep ==
    ASSUME BrokerInv, MarketNext
    PROVE  BrokerInv'
<1>1. ASSUME \/ RefundEnds
             \/ \E p \in Sellers :
                 \/ \E l \in Listings : Register(p, l) \/ Update(p, l)
                 \/ Deactivate(p)
      PROVE  BrokerInv'
  <2>1. UNCHANGED brokerVars
    BY <1>1 DEF RefundEnds, Register, Update, Deactivate
  <2>2. QED
    BY <2>1 DEF brokerVars, BrokerInv, StampedIsAttested
<1>2. QED
  BY <1>1, AskKeeps, ReadPageKeeps, AnswerKeeps, FetchQuoteKeeps, QuoteEndsKeeps DEF MarketNext

(***************************************************************************)
(* The market and the serving broker.                                      *)
(***************************************************************************)
MarketInv == RegistryInv /\ BrokerInv /\ ServingInv

\* The market keeps its bonds, also those a refused refund brings back, stamps
\* only attested answers and asks only acknowledged suppliers, for any number of
\* sellers, enclaves, listings, nested refunds and overlapping calls (register,
\* deactivate, verifyQuoteOnce, verifyResponse, complete, prewarm).
THEOREM MarketKeepsItsWord == MarketSpec => []MarketKept
<1>1. MarketInit /\ ServingInit => MarketInv
  BY RegistryStart, BrokerStart, ServingStart DEF MarketInv
<1>2. ASSUME MarketInv,
             [\/ MarketNext /\ UNCHANGED servingVars
              \/ ServingNext /\ UNCHANGED marketVars]_<<marketVars, servingVars>>
      PROVE  MarketInv'
  <2>1. ASSUME UNCHANGED servingVars PROVE ServingInv'
    BY <1>2, <2>1 DEF MarketInv, servingVars, ServingInv, SignersAcknowledged, LineAt
  <2>2. ASSUME UNCHANGED marketVars PROVE RegistryInv' /\ BrokerInv'
    <3>1. UNCHANGED <<service, pot, refunding>> /\ UNCHANGED <<chosen, ask, verifier, stamped>>
      BY <2>2 DEF marketVars, registryVars, brokerVars
    <3>2. QED
      BY <1>2, <3>1 DEF MarketInv, RegistryInv, BrokerInv, StampedIsAttested
  <2>3. QED
    BY <1>2, <2>1, <2>2, RegistryStep, BrokerStep, ServingStep DEF MarketInv
<1>3. MarketInv => MarketKept
  BY DEF MarketInv, RegistryInv, Backed, ListedIn, BrokerInv, ServingInv, MarketKept, BondsBacked
<1>4. QED
  BY <1>1, <1>2, <1>3, PTL DEF MarketSpec

(***************************************************************************)
(* The rate limit of the proxy.                                            *)
(***************************************************************************)
\* The arrivals of an address that were let through from a tick on, and up to,
\* but not on, another.
Since(ip, from) == {a \in admitted[ip] : a.at >= from}
Within(ip, from, to) == {a \in admitted[ip] : a.at >= from /\ a.at < to}

\* An address: its window lies in the past and was opened by an arrival that
\* was let through; it holds no more than the rate, the minute before it
\* holds less, and no minute twice as much.
IpOK(ip) ==
    LET h == hits[ip]
    IN  /\ h \in [n : Nat, windowStart : Nat] /\ h.windowStart <= clock
        /\ IsFiniteSet(admitted[ip])
        /\ \A a \in admitted[ip] :
             a.at \in Nat /\ a.at <= clock /\ a.at <= h.windowStart + Minute
        /\ h.n = 0 => admitted[ip] = {}
        /\ h.n > 0 => \E a \in admitted[ip] : a.at = h.windowStart
        /\ Cardinality(Since(ip, h.windowStart)) <= h.n
        /\ Cardinality(Since(ip, h.windowStart)) <= RATE_PER_MIN
        /\ Cardinality(Within(ip, h.windowStart - Minute, h.windowStart)) < RATE_PER_MIN
        /\ \A start \in Nat :
             Cardinality(Within(ip, start, start + Minute + 1)) < 2 * RATE_PER_MIN

RateInv ==
    /\ clock \in Nat
    /\ DOMAIN hits = Ips /\ DOMAIN admitted = Ips
    /\ \A ip \in Ips : IpOK(ip)

LEMMA PartsAreFinite ==
    ASSUME NEW A, IsFiniteSet(A), NEW B \in SUBSET A
    PROVE  IsFiniteSet(B) /\ Cardinality(B) \in Nat /\ Cardinality(B) <= Cardinality(A)
BY FS_Subset, FS_CardinalityType

\* Leaving out a member makes a set smaller.
LEMMA OneFewer ==
    ASSUME NEW A, IsFiniteSet(A), NEW x \in A, NEW B \in SUBSET A, x \notin B
    PROVE  Cardinality(B) <= Cardinality(A) - 1
<1>1. B \in SUBSET (A \ {x})
  OBVIOUS
<1>2. IsFiniteSet(A \ {x}) /\ Cardinality(A \ {x}) = Cardinality(A) - 1
  BY FS_RemoveElement
<1>3. QED
  BY <1>1, <1>2, FS_Subset

LEMMA OneMore ==
    ASSUME NEW A, IsFiniteSet(A), NEW x, NEW B \in SUBSET (A \cup {x})
    PROVE  IsFiniteSet(B) /\ Cardinality(B) \in Nat /\ Cardinality(B) <= Cardinality(A) + 1
<1>1. /\ IsFiniteSet(A \cup {x})
      /\ Cardinality(A \cup {x}) = IF x \in A THEN Cardinality(A) ELSE Cardinality(A) + 1
  BY FS_AddElement
<1>2. IsFiniteSet(B) /\ Cardinality(B) <= Cardinality(A \cup {x})
  BY <1>1, FS_Subset
<1>3. Cardinality(A) \in Nat /\ Cardinality(B) \in Nat
  BY <1>2, FS_CardinalityType
<1>4. QED
  BY <1>1, <1>2, <1>3

LEMMA TwoParts ==
    ASSUME NEW A, IsFiniteSet(A), NEW B, IsFiniteSet(B), NEW C \in SUBSET (A \cup B)
    PROVE  Cardinality(C) <= Cardinality(A) + Cardinality(B)
<1>1. /\ IsFiniteSet(A \cup B)
      /\ Cardinality(A \cup B) = Cardinality(A) + Cardinality(B) - Cardinality(A \cap B)
  BY FS_Union
<1>2. IsFiniteSet(A \cap B) /\ Cardinality(A \cap B) \in Nat
  BY FS_Subset, FS_CardinalityType
<1>3. Cardinality(C) <= Cardinality(A \cup B)
  BY <1>1, FS_Subset
<1>4. Cardinality(A) \in Nat /\ Cardinality(B) \in Nat /\ Cardinality(C) \in Nat
  BY <1>1, FS_Subset, FS_CardinalityType
<1>5. QED
  BY <1>1, <1>2, <1>3, <1>4

LEMMA RateStart == ProxyInit => RateInv
<1> SUFFICES ASSUME ProxyInit PROVE RateInv
  OBVIOUS
<1>1. clock = 0 /\ DOMAIN hits = Ips /\ DOMAIN admitted = Ips
  BY DEF ProxyInit
<1>2. ASSUME NEW ip \in Ips PROVE IpOK(ip)
  <2>1. hits[ip] = [n |-> 0, windowStart |-> 0] /\ admitted[ip] = {}
    BY <1>2 DEF ProxyInit
  <2>2. /\ hits[ip] \in [n : Nat, windowStart : Nat]
        /\ hits[ip].n = 0 /\ hits[ip].windowStart = 0
    BY <2>1
  <2>3. \A f, t : Since(ip, f) = {} /\ Within(ip, f, t) = {}
    BY <2>1 DEF Since, Within
  <2>4. IsFiniteSet({}) /\ Cardinality({}) = 0
    BY FS_EmptySet
  <2>5. RATE_PER_MIN \in Nat /\ RATE_PER_MIN > 0
    BY ProxyAssumption
  <2>6. /\ Cardinality(Since(ip, hits[ip].windowStart)) = 0
        /\ Cardinality(Within(ip, hits[ip].windowStart - Minute, hits[ip].windowStart)) = 0
        /\ \A start \in Nat : Cardinality(Within(ip, start, start + Minute + 1)) = 0
    BY <2>3, <2>4
  <2>7. QED
    BY <1>1, <2>1, <2>2, <2>4, <2>5, <2>6 DEF IpOK
<1>3. QED
  BY <1>1, <1>2 DEF RateInv

\* An address that is let alone while time passes.
LEMMA IpRests ==
    ASSUME RateInv, NEW ip \in Ips, hits'[ip] = hits[ip], admitted'[ip] = admitted[ip],
           clock' \in Nat, clock <= clock'
    PROVE  IpOK(ip)'
<1>1. clock \in Nat /\ IpOK(ip)
  BY DEF RateInv
<1>2. \A f, t : Since(ip, f)' = Since(ip, f) /\ Within(ip, f, t)' = Within(ip, f, t)
  BY DEF Since, Within
<1>3. hits[ip].windowStart \in Nat /\ hits[ip].windowStart <= clock'
  BY <1>1 DEF IpOK
<1>4. \A a \in admitted[ip] :
          a.at \in Nat /\ a.at <= clock' /\ a.at <= hits[ip].windowStart + Minute
  BY <1>1 DEF IpOK
<1>5. QED
  BY <1>1, <1>2, <1>3, <1>4 DEF IpOK

\* An arrival opens a window.
LEMMA WindowOpens ==
    ASSUME RateInv, NEW ip \in Ips, NewWindow(ip), NEW x, x.at = clock,
           clock' = clock, hits'[ip] = [n |-> 1, windowStart |-> clock],
           admitted'[ip] = admitted[ip] \cup {x}
    PROVE  IpOK(ip)'
<1> DEFINE h == hits[ip]
           before == {a \in admitted[ip] : a.at > h.windowStart}
<1>0. /\ RATE_PER_MIN \in Nat /\ RATE_PER_MIN > 0 /\ Minute \in Nat /\ Minute > 0
      /\ clock \in Nat /\ IpOK(ip)
  BY ProxyAssumption DEF RateInv
<1>1. /\ hits'[ip] \in [n : Nat, windowStart : Nat]
      /\ hits'[ip].n = 1 /\ hits'[ip].windowStart = clock
  BY <1>0
<1>2. /\ h.n \in Nat /\ h.windowStart \in Nat /\ IsFiniteSet(admitted[ip])
      /\ \A a \in admitted[ip] : a.at \in Nat /\ a.at <= clock
  BY <1>0 DEF IpOK
<1>3. IsFiniteSet(before) /\ Cardinality(before) \in Nat /\ Cardinality(before) <= RATE_PER_MIN - 1
  <2>0. IsFiniteSet(before) /\ Cardinality(before) \in Nat
    BY <1>2, PartsAreFinite
  <2>1. CASE h.n = 0
    <3>1. before = {}
      BY <2>1, <1>0 DEF IpOK
    <3>2. QED
      BY <3>1, <2>0, <1>0, FS_EmptySet
  <2>2. CASE h.n > 0
    <3>1. PICK a \in admitted[ip] : a.at = h.windowStart
      BY <2>2, <1>0 DEF IpOK
    <3>2. IsFiniteSet(Since(ip, h.windowStart)) /\ Cardinality(Since(ip, h.windowStart)) \in Nat
      BY <1>2, PartsAreFinite DEF Since
    <3>3. a \in Since(ip, h.windowStart) /\ a \notin before /\ before \in SUBSET Since(ip, h.windowStart)
      BY <3>1, <1>2 DEF Since
    <3>4. Cardinality(before) <= Cardinality(Since(ip, h.windowStart)) - 1
      BY <3>2, <3>3, OneFewer
    <3>5. Cardinality(Since(ip, h.windowStart)) <= RATE_PER_MIN
      BY <1>0 DEF IpOK
    <3>6. QED
      BY <2>0, <3>2, <3>4, <3>5, <1>0
  <2>3. QED
    BY <2>1, <2>2, <1>2
<1>4. \A a \in admitted[ip] : a.at >= clock - Minute => a \in before
  <2>1. CASE h.n = 0
    BY <2>1, <1>0 DEF IpOK
  <2>2. CASE h.n # 0
    BY <2>2, <1>0, <1>2 DEF NewWindow
  <2>3. QED
    BY <2>1, <2>2
<1>5. /\ IsFiniteSet(admitted'[ip]) /\ x \in admitted'[ip]
      /\ \A a \in admitted'[ip] : a.at \in Nat /\ a.at <= clock /\ a.at <= clock + Minute
  BY <1>0, <1>2, FS_AddElement
<1>6. Cardinality(Since(ip, clock)') <= 1
  <2>1. CASE h.n = 0
    <3>1. Since(ip, clock)' \in SUBSET ({} \cup {x})
      BY <2>1, <1>0 DEF IpOK, Since
    <3>2. QED
      BY <3>1, OneMore, FS_EmptySet
  <2>2. CASE h.n # 0
    <3>1. Since(ip, clock)' \in SUBSET ({} \cup {x})
      BY <2>2, <1>0, <1>2 DEF NewWindow, IpOK, Since
    <3>2. QED
      BY <3>1, OneMore, FS_EmptySet
  <2>3. QED
    BY <2>1, <2>2
<1>7. Cardinality(Since(ip, clock)') <= RATE_PER_MIN
  <2>1. Since(ip, clock)' \in SUBSET admitted'[ip]
    BY DEF Since
  <2>2. Cardinality(Since(ip, clock)') \in Nat
    BY <2>1, <1>5, PartsAreFinite
  <2>3. QED
    BY <2>2, <1>0, <1>6
<1>8. Cardinality(Within(ip, clock - Minute, clock)') < RATE_PER_MIN
  <2>1. Within(ip, clock - Minute, clock)' \in SUBSET before
    BY <1>0, <1>4 DEF Within
  <2>2. QED
    BY <2>1, <1>0, <1>3, PartsAreFinite
<1>9. ASSUME NEW start \in Nat
      PROVE  Cardinality(Within(ip, start, start + Minute + 1)') < 2 * RATE_PER_MIN
  <2>1. CASE start + Minute < clock
    <3>1. Within(ip, start, start + Minute + 1)' = Within(ip, start, start + Minute + 1)
      BY <2>1, <1>0, <1>9 DEF Within
    <3>2. QED
      BY <3>1, <1>0, <1>9 DEF IpOK
  <2>2. CASE ~(start + Minute < clock)
    <3>1. Within(ip, start, start + Minute + 1)' \in SUBSET (before \cup {x})
      BY <2>2, <1>0, <1>2, <1>4, <1>9 DEF Within
    <3>2. /\ Cardinality(Within(ip, start, start + Minute + 1)') \in Nat
          /\ Cardinality(Within(ip, start, start + Minute + 1)') <= Cardinality(before) + 1
      <4> HIDE DEF before
      <4>1. QED
        BY <3>1, <1>3, OneMore
    <3>3. QED
      BY <3>2, <1>3, <1>0
  <2>3. QED
    BY <2>1, <2>2
<1>10. QED
  BY <1>0, <1>1, <1>5, <1>6, <1>7, <1>8, <1>9 DEF IpOK

\* An arrival inside a window is counted, and let through below the rate.
LEMMA WindowFills ==
    ASSUME RateInv, NEW ip \in Ips, ~NewWindow(ip), NEW x, x.at = clock,
           clock' = clock, hits'[ip] = [hits[ip] EXCEPT !.n = @ + 1],
           hits'[ip].n <= RATE_PER_MIN, admitted'[ip] = admitted[ip] \cup {x}
    PROVE  IpOK(ip)'
<1> DEFINE h == hits[ip]
           ws == hits[ip].windowStart
<1>0. /\ RATE_PER_MIN \in Nat /\ RATE_PER_MIN > 0 /\ Minute \in Nat /\ Minute > 0
      /\ clock \in Nat /\ IpOK(ip)
  BY ProxyAssumption DEF RateInv
<1>1. /\ h \in [n : Nat, windowStart : Nat] /\ ws \in Nat /\ ws <= clock /\ h.n \in Nat
      /\ IsFiniteSet(admitted[ip])
      /\ \A a \in admitted[ip] : a.at \in Nat /\ a.at <= clock /\ a.at <= ws + Minute
  BY <1>0 DEF IpOK
<1>2. h.n > 0 /\ clock <= ws + Minute
  BY <1>0, <1>1 DEF NewWindow
<1>3. /\ hits'[ip] \in [n : Nat, windowStart : Nat]
      /\ hits'[ip].n = h.n + 1 /\ hits'[ip].windowStart = ws
  BY <1>1
<1>4. /\ IsFiniteSet(admitted'[ip])
      /\ \A a \in admitted'[ip] : a.at \in Nat /\ a.at <= clock /\ a.at <= ws + Minute
  BY <1>0, <1>1, <1>2, FS_AddElement
<1>5. \E a \in admitted'[ip] : a.at = ws
  BY <1>0, <1>2 DEF IpOK
<1>6. /\ IsFiniteSet(Since(ip, ws)) /\ Cardinality(Since(ip, ws)) \in Nat
      /\ Cardinality(Since(ip, ws)) <= h.n
  BY <1>0, <1>1, PartsAreFinite DEF Since, IpOK
<1>7. /\ IsFiniteSet(Since(ip, ws)') /\ Cardinality(Since(ip, ws)') \in Nat
      /\ Cardinality(Since(ip, ws)') <= h.n + 1
      /\ Cardinality(Since(ip, ws)') <= RATE_PER_MIN
  <2>1. Since(ip, ws)' \in SUBSET (Since(ip, ws) \cup {x})
    BY DEF Since
  <2>2. /\ IsFiniteSet(Since(ip, ws)') /\ Cardinality(Since(ip, ws)') \in Nat
        /\ Cardinality(Since(ip, ws)') <= Cardinality(Since(ip, ws)) + 1
    BY <2>1, <1>6, OneMore
  <2>3. QED
    BY <2>2, <1>0, <1>1, <1>3, <1>6
<1>8. /\ IsFiniteSet(Within(ip, ws - Minute, ws))
      /\ Cardinality(Within(ip, ws - Minute, ws)) \in Nat
      /\ Cardinality(Within(ip, ws - Minute, ws)) < RATE_PER_MIN
  BY <1>0, <1>1, PartsAreFinite DEF Within, IpOK
<1>9. Within(ip, ws - Minute, ws)' = Within(ip, ws - Minute, ws)
  BY <1>0, <1>1 DEF Within
<1>10. ASSUME NEW start \in Nat
       PROVE  Cardinality(Within(ip, start, start + Minute + 1)') < 2 * RATE_PER_MIN
  <2>1. CASE start + Minute < clock
    <3>1. Within(ip, start, start + Minute + 1)' = Within(ip, start, start + Minute + 1)
      BY <2>1, <1>0, <1>10 DEF Within
    <3>2. QED
      BY <3>1, <1>0, <1>10 DEF IpOK
  <2>2. CASE ~(start + Minute < clock)
    <3>1. Within(ip, start, start + Minute + 1)'
            \in SUBSET (Since(ip, ws)' \cup Within(ip, ws - Minute, ws))
      BY <2>2, <1>0, <1>1, <1>4, <1>10 DEF Within, Since
    <3>2. /\ Cardinality(Within(ip, start, start + Minute + 1)')
                <= Cardinality(Since(ip, ws)') + Cardinality(Within(ip, ws - Minute, ws))
      BY <3>1, <1>7, <1>8, TwoParts
    <3>3. Within(ip, start, start + Minute + 1)' \in SUBSET admitted'[ip]
      BY DEF Within
    <3>4. Cardinality(Within(ip, start, start + Minute + 1)') \in Nat
      BY <3>3, <1>4, PartsAreFinite
    <3>5. QED
      BY <3>2, <3>4, <1>0, <1>7, <1>8
  <2>3. QED
    BY <2>1, <2>2
<1>11. QED
  BY <1>0, <1>1, <1>2, <1>3, <1>4, <1>5, <1>7, <1>8, <1>9, <1>10 DEF IpOK

\* An arrival beyond the rate is counted and turned away.
LEMMA WindowIsFull ==
    ASSUME RateInv, NEW ip \in Ips, ~NewWindow(ip), clock' = clock,
           hits'[ip] = [hits[ip] EXCEPT !.n = @ + 1], admitted'[ip] = admitted[ip]
    PROVE  IpOK(ip)'
<1>1. clock \in Nat /\ IpOK(ip) /\ hits[ip] \in [n : Nat, windowStart : Nat]
  BY DEF RateInv, IpOK
<1>2. /\ hits'[ip] \in [n : Nat, windowStart : Nat]
      /\ hits'[ip].n = hits[ip].n + 1 /\ hits'[ip].windowStart = hits[ip].windowStart
  BY <1>1
<1>3. \A f, t : Since(ip, f)' = Since(ip, f) /\ Within(ip, f, t)' = Within(ip, f, t)
  BY DEF Since, Within
<1>4. hits[ip].n > 0
  BY <1>1 DEF NewWindow
<1>5. Cardinality(Since(ip, hits[ip].windowStart)) <= hits'[ip].n
  <2>1. /\ Cardinality(Since(ip, hits[ip].windowStart)) \in Nat
        /\ Cardinality(Since(ip, hits[ip].windowStart)) <= hits[ip].n
    BY <1>1, PartsAreFinite DEF Since, IpOK
  <2>2. QED
    BY <2>1, <1>1, <1>2
<1>6. QED
  BY <1>1, <1>2, <1>3, <1>4, <1>5 DEF IpOK

LEMMA AdmitKeeps ==
    ASSUME RateInv, NEW h \in Posts, NEW ip \in Ips, Admit(h, ip)
    PROVE  RateInv'
<1> DEFINE x == [at |-> clock, nth |-> Arrivals]
<1>1. /\ clock \in Nat /\ clock' = clock
      /\ DOMAIN hits = Ips /\ DOMAIN admitted = Ips
      /\ hits' = [hits EXCEPT ![ip] = Hit(ip)]
  BY DEF RateInv, Admit
<1>2. /\ DOMAIN hits' = Ips /\ hits'[ip] = Hit(ip)
      /\ \A i \in Ips \ {ip} : hits'[i] = hits[i]
  BY <1>1
<1>3. \/ /\ Hit(ip).n <= RATE_PER_MIN
         /\ admitted' = [admitted EXCEPT ![ip] = admitted[ip] \cup {x}]
      \/ ~(Hit(ip).n <= RATE_PER_MIN) /\ admitted' = admitted
  BY DEF Admit
<1>4. /\ DOMAIN admitted' = Ips
      /\ \A i \in Ips \ {ip} : admitted'[i] = admitted[i]
  BY <1>1, <1>3
<1>5. \A i \in Ips \ {ip} : IpOK(i)'
  BY <1>1, <1>2, <1>4, IpRests
<1>6. x.at = clock /\ RATE_PER_MIN \in Nat /\ RATE_PER_MIN > 0
  BY ProxyAssumption
<1>7. IpOK(ip)'
  <2>1. CASE NewWindow(ip)
    <3>1. Hit(ip) = [n |-> 1, windowStart |-> clock]
      BY <2>1 DEF Hit
    <3>2. admitted'[ip] = admitted[ip] \cup {x}
      BY <3>1, <1>1, <1>3, <1>6
    <3>3. QED
      BY <2>1, <3>1, <3>2, <1>1, <1>2, <1>6, WindowOpens
  <2>2. CASE ~NewWindow(ip)
    <3>1. Hit(ip) = [hits[ip] EXCEPT !.n = @ + 1]
      BY <2>2 DEF Hit
    <3>2. CASE Hit(ip).n <= RATE_PER_MIN /\ admitted'[ip] = admitted[ip] \cup {x}
      BY <2>2, <3>1, <3>2, <1>1, <1>2, <1>6, WindowFills
    <3>3. CASE admitted' = admitted
      BY <2>2, <3>1, <3>3, <1>1, <1>2, WindowIsFull
    <3>4. QED
      BY <3>2, <3>3, <1>1, <1>3
  <2>3. QED
    BY <2>1, <2>2
<1>8. QED
  BY <1>1, <1>2, <1>4, <1>5, <1>7 DEF RateInv

LEMMA RateStep ==
    ASSUME RateInv, [ProxyNext]_proxyVars
    PROVE  RateInv'
<1>1. ASSUME UNCHANGED <<hits, admitted>>, clock' \in Nat, clock <= clock'
      PROVE  RateInv'
  BY <1>1, IpRests DEF RateInv
<1>2. CASE TimePasses
  BY <1>1, <1>2 DEF TimePasses, RateInv
<1>3. CASE UNCHANGED <<clock, hits, admitted>>
  BY <1>1, <1>3 DEF RateInv
<1>4. QED
  BY <1>2, <1>3, AdmitKeeps DEF ProxyNext, proxyVars, ReadBody, UpstreamFails, Meter

LEMMA RateIsBounded == RateInv => RateBounded
<1> SUFFICES ASSUME RateInv, NEW ip \in Ips, NEW start \in 0..MaxClock
             PROVE  Cardinality({a \in admitted[ip] : a.at \in start..(start + Minute)})
                        < 2 * RATE_PER_MIN
  BY DEF RateBounded
<1>1. IpOK(ip) /\ Minute \in Nat /\ start \in Nat
  BY ProxyAssumption DEF RateInv
<1>2. {a \in admitted[ip] : a.at \in start..(start + Minute)} = Within(ip, start, start + Minute + 1)
  BY <1>1 DEF Within, IpOK
<1>3. QED
  BY <1>1, <1>2 DEF IpOK

(***************************************************************************)
(* The views of donations.                                                 *)
(***************************************************************************)
Logs == Seq([from : Donors, value : Gifts])

ViewType ==
    [pc : {"account", "reads", "shown"}, npc : Tokens, open : SUBSET {"balance", "logs"},
     balance : Int, logs : Logs, donors : SUBSET Donors, asked : Logs, out : Nat]

\* A view tells what it has read, between what was so when it was asked for
\* and what is so now.
ViewOK(w) ==
    LET upToNow == gifts[w.npc]
    IN  /\ w \in ViewType
        /\ IsPrefix(w.asked, upToNow) /\ w.out <= paidOut[w.npc]
        /\ "logs" \notin w.open => IsPrefix(w.asked, w.logs) /\ IsPrefix(w.logs, upToNow)
        /\ "balance" \notin w.open =>
             /\ Given(w.asked) - paidOut[w.npc] <= w.balance
             /\ w.balance <= Given(upToNow) - w.out
        /\ w.pc = "shown" => w.open = {} /\ w.donors \in Top(w.logs)

DonationsInv ==
    /\ gifts \in [Tokens -> Logs]
    /\ paidOut \in [Tokens -> Nat]
    /\ DOMAIN view = Viewers
    /\ \A v \in Viewers : view[v] = NoView \/ ViewOK(view[v])

LEMMA PrefixPointwise ==
    ASSUME NEW S, NEW s \in Seq(S), NEW t \in Seq(S)
    PROVE  IsPrefix(s, t) <=> Len(s) <= Len(t) /\ \A i \in 1..Len(s) : s[i] = t[i]
<1>1. Len(s) \in Nat /\ Len(t) \in Nat
  OBVIOUS
<1>2. SubSeq(s, 1, Len(s)) = [i \in 1..Len(s) |-> s[i]]
  OBVIOUS
<1>3. ASSUME Len(s) <= Len(t) PROVE SubSeq(t, 1, Len(s)) = [i \in 1..Len(s) |-> t[i]]
  BY <1>1, <1>3
<1>4. QED
  BY <1>1, <1>2, <1>3 DEF IsPrefix

LEMMA PrefixesChain ==
    ASSUME NEW S, NEW s \in Seq(S), NEW t \in Seq(S), NEW u \in Seq(S),
           IsPrefix(s, t), IsPrefix(t, u)
    PROVE  IsPrefix(s, u)
<1>1. Len(s) \in Nat /\ Len(t) \in Nat /\ Len(u) \in Nat
  OBVIOUS
<1>2. /\ Len(s) <= Len(t) /\ \A i \in 1..Len(s) : s[i] = t[i]
      /\ Len(t) <= Len(u) /\ \A i \in 1..Len(t) : t[i] = u[i]
  BY PrefixPointwise
<1>3. Len(s) <= Len(u) /\ \A i \in 1..Len(s) : s[i] = u[i]
  BY <1>1, <1>2
<1>4. QED
  BY <1>3, PrefixPointwise

LEMMA PrefixOfItself ==
    ASSUME NEW S, NEW s \in Seq(S)
    PROVE  IsPrefix(s, s)
BY PrefixPointwise

LEMMA PrefixOfLonger ==
    ASSUME NEW S, NEW s \in Seq(S), NEW x \in S
    PROVE  Append(s, x) \in Seq(S) /\ IsPrefix(s, Append(s, x))
<1>1. /\ Append(s, x) \in Seq(S) /\ Len(Append(s, x)) = Len(s) + 1 /\ Len(s) \in Nat
      /\ \A i \in 1..Len(s) : Append(s, x)[i] = s[i]
  OBVIOUS
<1>2. ASSUME NEW t \in Seq(S), Len(t) = Len(s) + 1, \A i \in 1..Len(s) : t[i] = s[i]
      PROVE  IsPrefix(s, t)
  BY <1>1, <1>2, PrefixPointwise
<1>3. QED
  BY <1>1, <1>2

LEMMA DomainsAreFinite ==
    ASSUME NEW S, NEW s \in Seq(S)
    PROVE  DOMAIN s = 1..Len(s) /\ Len(s) \in Nat /\ IsFiniteSet(DOMAIN s)
<1>1. DOMAIN s = 1..Len(s) /\ Len(s) \in Nat
  OBVIOUS
<1>2. QED
  BY <1>1, FS_Interval

\* A sum over a smaller set, of the same summands, is no greater.
LEMMA SumOverPart ==
    ASSUME NEW T, IsFiniteSet(T), NEW S \in SUBSET T, NEW f, NEW g,
           \A i \in T : g[i] \in Nat, \A i \in S : f[i] = g[i]
    PROVE  SumOf(f, S) \in Nat /\ SumOf(g, T) \in Nat /\ SumOf(f, S) <= SumOf(g, T)
<1>1. IsFiniteSet(S) /\ IsFiniteSet(T \ S) /\ S \cap (T \ S) = {} /\ S \cup (T \ S) = T
  BY FS_Subset
<1>2. SumOf(g, T) = SumOf(g, S) + SumOf(g, T \ S)
  <2>1. SumOf(g, S \cup (T \ S)) = SumOf(g, S) + SumOf(g, T \ S)
    BY <1>1, SumUnion
  <2>2. QED
    BY <2>1, <1>1
<1>3. SumOf(g, S) \in Nat /\ SumOf(g, T \ S) \in Nat
  BY <1>1, SumType
<1>4. SumOf(f, S) = SumOf(g, S)
  BY SumSame
<1>5. QED
  BY <1>2, <1>3, <1>4

LEMMA ValuesAreNatural ==
    ASSUME NEW logs \in Logs, NEW i \in DOMAIN logs
    PROVE  logs[i].from \in Donors /\ logs[i].value \in Nat
<1>1. logs[i] \in [from : Donors, value : Gifts]
  <2>1. \A S, s : s \in Seq(S) => \A k \in DOMAIN s : s[k] \in S
    OBVIOUS
  <2>2. QED
    BY <2>1 DEF Logs
<1>2. QED
  BY <1>1, DonationsAssumption

LEMMA WorthIsNatural ==
    ASSUME NEW logs \in Logs, NEW S \in SUBSET DOMAIN logs
    PROVE  Worth(logs, S) \in Nat
<1> DEFINE f == [i \in DOMAIN logs |-> logs[i].value]
<1>1. \A i \in DOMAIN logs : f[i] \in Nat
  BY ValuesAreNatural
<1>2. IsFiniteSet(S)
  BY DomainsAreFinite, FS_Subset DEF Logs
<1>3. SumOf(f, S) \in Nat
  BY <1>1, <1>2, SumType
<1>4. QED
  BY <1>3 DEF Worth

\* More logs are worth no less, in all and of each donor.
LEMMA MoreIsWorthMore ==
    ASSUME NEW s \in Logs, NEW t \in Logs, IsPrefix(s, t)
    PROVE  /\ Given(s) \in Nat /\ Given(t) \in Nat /\ Given(s) <= Given(t)
           /\ \A d : Total(s, d) \in Nat /\ Total(t, d) \in Nat /\ Total(s, d) <= Total(t, d)
<1>1. /\ DOMAIN s = 1..Len(s) /\ DOMAIN t = 1..Len(t) /\ Len(s) \in Nat /\ Len(t) \in Nat
      /\ IsFiniteSet(DOMAIN t)
  BY DomainsAreFinite DEF Logs
<1>2. Len(s) <= Len(t) /\ \A i \in 1..Len(s) : s[i] = t[i]
  BY PrefixPointwise DEF Logs
<1>3. DOMAIN s \in SUBSET DOMAIN t /\ \A i \in DOMAIN s : s[i] = t[i]
  BY <1>1, <1>2
<1>4. \A i \in DOMAIN t : t[i].value \in Nat
  BY ValuesAreNatural
<1>5. Given(s) \in Nat /\ Given(t) \in Nat /\ Given(s) <= Given(t)
  <2> DEFINE f == [i \in DOMAIN s |-> s[i].value]
             g == [i \in DOMAIN t |-> t[i].value]
  <2>1. (\A i \in DOMAIN t : g[i] \in Nat) /\ \A i \in DOMAIN s : f[i] = g[i]
    BY <1>3, <1>4
  <2>2. /\ SumOf(f, DOMAIN s) \in Nat /\ SumOf(g, DOMAIN t) \in Nat
        /\ SumOf(f, DOMAIN s) <= SumOf(g, DOMAIN t)
    <3> HIDE DEF f, g
    <3>1. QED
      BY <2>1, <1>1, <1>3, SumOverPart
  <2>3. QED
    BY <2>2 DEF Given, Worth
<1>6. ASSUME NEW d
      PROVE  Total(s, d) \in Nat /\ Total(t, d) \in Nat /\ Total(s, d) <= Total(t, d)
  <2> DEFINE f == [i \in DOMAIN s |-> IF s[i].from = d THEN s[i].value ELSE 0]
             g == [i \in DOMAIN t |-> IF t[i].from = d THEN t[i].value ELSE 0]
  <2>1. (\A i \in DOMAIN t : g[i] \in Nat) /\ \A i \in DOMAIN s : f[i] = g[i]
    BY <1>3, <1>4
  <2>2. /\ SumOf(f, DOMAIN s) \in Nat /\ SumOf(g, DOMAIN t) \in Nat
        /\ SumOf(f, DOMAIN s) <= SumOf(g, DOMAIN t)
    <3> HIDE DEF f, g
    <3>1. QED
      BY <2>1, <1>1, <1>3, SumOverPart
  <2>3. QED
    BY <2>2 DEF Total
<1>7. QED
  BY <1>5, <1>6

\* What the indexer adds up for a donor is what the donor gave.
LEMMA FromIsTotal ==
    ASSUME NEW logs \in Logs, NEW d
    PROVE  From(logs, d) = Total(logs, d)
<1> DEFINE own == {i \in DOMAIN logs : logs[i].from = d}
           f == [i \in DOMAIN logs |-> logs[i].value]
           g == [i \in DOMAIN logs |-> IF logs[i].from = d THEN logs[i].value ELSE 0]
<1>1. (\A i \in own : f[i] = g[i]) /\ \A i \in DOMAIN logs \ own : g[i] = 0
  OBVIOUS
<1>2. own \in SUBSET DOMAIN logs
  OBVIOUS
<1>3. SumOf(f, own) = SumOf(g, own) /\ SumOf(g, own) = SumOf(g, DOMAIN logs)
  <2> HIDE DEF own, f, g
  <2>1. QED
    BY <1>1, <1>2, SumSame, SumSupport
<1>4. QED
  BY <1>3 DEF From, Worth, Total

LEMMA DonationsStart == DonationsInit => DonationsInv
<1> SUFFICES ASSUME DonationsInit PROVE DonationsInv
  OBVIOUS
<1>1. <<>> \in Logs
  BY DEF Logs
<1>2. QED
  BY <1>1 DEF DonationsInit, DonationsInv

\* A view v that moves to w keeps the invariant.
LEMMA ViewMoves ==
    ASSUME DonationsInv, NEW v \in Viewers, NEW w, w = NoView \/ ViewOK(w),
           view' = [view EXCEPT ![v] = w], UNCHANGED <<gifts, paidOut>>
    PROVE  DonationsInv'
<1>1. /\ DOMAIN view' = Viewers /\ view'[v] = w
      /\ \A u \in Viewers \ {v} : view'[u] = view[u]
  BY DEF DonationsInv
<1>2. \A x : ViewOK(x)' <=> ViewOK(x)
  <2> SUFFICES ASSUME NEW x PROVE ViewOK(x)' <=> ViewOK(x)
    OBVIOUS
  <2>1. QED
    BY DEF ViewOK
<1>3. ASSUME NEW u \in Viewers PROVE view'[u] = NoView \/ ViewOK(view'[u])
  BY <1>1, <1>3 DEF DonationsInv
<1>4. \A u \in Viewers : view'[u] = NoView \/ ViewOK(view[u])'
  BY <1>2, <1>3 DEF ViewOK
<1>5. QED
  BY <1>1, <1>4 DEF DonationsInv

\* What is given or spent meanwhile leaves every view right.
LEMMA ChainMoves ==
    ASSUME DonationsInv, UNCHANGED view,
           gifts' \in [Tokens -> Logs], paidOut' \in [Tokens -> Nat],
           \A n \in Tokens : IsPrefix(gifts[n], gifts'[n]) /\ paidOut[n] <= paidOut'[n]
    PROVE  DonationsInv'
<1> SUFFICES ASSUME NEW v \in Viewers, view[v] # NoView PROVE ViewOK(view[v])'
  BY DEF DonationsInv
<1> DEFINE w == view[v]
           n == view[v].npc
<1>1. ViewOK(w) /\ w \in ViewType /\ n \in Tokens /\ view'[v] = w
  BY DEF DonationsInv, ViewOK, ViewType
<1>2. /\ w.asked \in Logs /\ w.logs \in Logs /\ w.out \in Nat /\ w.balance \in Int
      /\ gifts[n] \in Logs /\ gifts'[n] \in Logs /\ paidOut[n] \in Nat /\ paidOut'[n] \in Nat
      /\ IsPrefix(gifts[n], gifts'[n]) /\ paidOut[n] <= paidOut'[n]
  BY <1>1 DEF DonationsInv, ViewType
<1>3. IsPrefix(w.asked, gifts'[n]) /\ w.out <= paidOut'[n]
  <2>1. IsPrefix(w.asked, gifts[n]) /\ w.out <= paidOut[n]
    BY <1>1 DEF ViewOK
  <2>2. QED
    BY <2>1, <1>2, PrefixesChain DEF Logs
<1>4. ASSUME "logs" \notin w.open PROVE IsPrefix(w.asked, w.logs) /\ IsPrefix(w.logs, gifts'[n])
  <2>1. IsPrefix(w.asked, w.logs) /\ IsPrefix(w.logs, gifts[n])
    BY <1>1, <1>4 DEF ViewOK
  <2>2. QED
    BY <2>1, <1>2, PrefixesChain DEF Logs
<1>5. ASSUME "balance" \notin w.open
      PROVE  Given(w.asked) - paidOut'[n] <= w.balance /\ w.balance <= Given(gifts'[n]) - w.out
  <2>1. Given(w.asked) - paidOut[n] <= w.balance /\ w.balance <= Given(gifts[n]) - w.out
    BY <1>1, <1>5 DEF ViewOK
  <2>2. /\ Given(gifts[n]) \in Nat /\ Given(gifts'[n]) \in Nat
        /\ Given(gifts[n]) <= Given(gifts'[n])
    BY <1>2, MoreIsWorthMore
  <2>3. Given(w.asked) \in Nat
    BY <1>2, MoreIsWorthMore, PrefixOfItself DEF Logs
  <2>4. QED
    BY <2>1, <2>2, <2>3, <1>2
<1>6. w.pc = "shown" => w.open = {} /\ w.donors \in Top(w.logs)
  BY <1>1 DEF ViewOK
<1>7. QED
  BY <1>1, <1>3, <1>4, <1>5, <1>6 DEF ViewOK

LEMMA DonateKeeps ==
    ASSUME DonationsInv, NEW npc \in Tokens, NEW donor \in Donors, NEW value \in Gifts,
           Donate(npc, donor, value)
    PROVE  DonationsInv'
<1> DEFINE log == [from |-> donor, value |-> value]
<1>1. gifts' = [gifts EXCEPT ![npc] = Append(gifts[npc], log)] /\ UNCHANGED <<paidOut, view>>
  BY DEF Donate
<1>2. gifts \in [Tokens -> Logs] /\ paidOut \in [Tokens -> Nat]
  BY DEF DonationsInv
<1>3. log \in [from : Donors, value : Gifts]
  OBVIOUS
<1>4. \A s \in Logs : /\ Append(s, log) \in Logs /\ IsPrefix(s, Append(s, log))
                      /\ IsPrefix(s, s)
  BY <1>3, PrefixOfLonger, PrefixOfItself DEF Logs
<1>5. /\ gifts' \in [Tokens -> Logs] /\ paidOut' \in [Tokens -> Nat]
      /\ \A n \in Tokens : IsPrefix(gifts[n], gifts'[n]) /\ paidOut[n] <= paidOut'[n]
  <2> HIDE DEF log
  <2>1. QED
    BY <1>1, <1>2, <1>4
<1>6. QED
  BY <1>1, <1>5, ChainMoves

LEMMA PayOutKeeps ==
    ASSUME DonationsInv, NEW npc \in Tokens, PayOut(npc)
    PROVE  DonationsInv'
<1>1. paidOut' = [paidOut EXCEPT ![npc] = paidOut[npc] + 1] /\ UNCHANGED <<gifts, view>>
  BY DEF PayOut
<1>2. gifts \in [Tokens -> Logs] /\ paidOut \in [Tokens -> Nat]
  BY DEF DonationsInv
<1>3. \A s \in Logs : IsPrefix(s, s)
  BY PrefixOfItself DEF Logs
<1>4. /\ gifts' \in [Tokens -> Logs] /\ paidOut' \in [Tokens -> Nat]
      /\ \A n \in Tokens : IsPrefix(gifts[n], gifts'[n]) /\ paidOut[n] <= paidOut'[n]
  BY <1>1, <1>2, <1>3
<1>5. QED
  BY <1>1, <1>4, ChainMoves

LEMMA RequestViewKeeps ==
    ASSUME DonationsInv, NEW v \in Viewers, NEW npc \in Tokens \cup Strays, RequestView(v, npc)
    PROVE  DonationsInv'
<1> DEFINE w == [pc |-> IF npc \in tbaCache THEN "reads" ELSE "account", npc |-> npc,
                 open |-> {"balance", "logs"}, balance |-> 0, logs |-> <<>>, donors |-> {},
                 asked |-> gifts[npc], out |-> paidOut[npc]]
<1>1. UNCHANGED <<gifts, paidOut>>
  BY DEF RequestView
<1>2. CASE npc \in Strays
  <2>1. view' = [view EXCEPT ![v] = NoView]
    BY <1>2 DEF RequestView
  <2>2. QED
    BY <2>1, <1>1, ViewMoves
<1>3. CASE npc \notin Strays
  <2>1. view' = [view EXCEPT ![v] = w]
    BY <1>3 DEF RequestView
  <2>2. npc \in Tokens /\ gifts[npc] \in Logs /\ paidOut[npc] \in Nat
    BY <1>3 DEF DonationsInv
  <2>3. IsPrefix(gifts[npc], gifts[npc]) /\ <<>> \in Logs
    BY <2>2, PrefixOfItself DEF Logs
  <2>4. w \in ViewType
    BY <2>2, <2>3 DEF ViewType
  <2>5. ViewOK(w)
    BY <2>2, <2>3, <2>4 DEF ViewOK
  <2>6. QED
    <3> HIDE DEF w
    <3>1. QED
      BY <2>1, <2>5, <1>1, ViewMoves
<1>4. QED
  BY <1>2, <1>3

\* What is asked of the view that a step takes up.
LEMMA ViewOf ==
    ASSUME DonationsInv, NEW v \in Viewers, view[v].pc \in {"account", "reads", "shown"}
    PROVE  /\ ViewOK(view[v]) /\ view[v] \in ViewType
           /\ view[v].npc \in Tokens /\ gifts[view[v].npc] \in Logs
           /\ paidOut[view[v].npc] \in Nat
<1>1. view[v] # NoView
  BY DEF NoView
<1>2. ViewOK(view[v])
  BY <1>1 DEF DonationsInv
<1>3. QED
  BY <1>2 DEF ViewOK, ViewType, DonationsInv

LEMMA ResolveKeeps ==
    ASSUME DonationsInv, NEW v \in Viewers, Resolve(v)
    PROVE  DonationsInv'
<1> DEFINE w == [view[v] EXCEPT !.pc = "reads"]
<1>1. view[v].pc = "account" /\ UNCHANGED <<gifts, paidOut>> /\ view' = [view EXCEPT ![v] = w]
  BY DEF Resolve, DonationsInv
<1>2. ViewOK(view[v]) /\ view[v] \in ViewType
  BY <1>1, ViewOf
<1>3. /\ w \in ViewType /\ w.pc = "reads" /\ w.npc = view[v].npc /\ w.open = view[v].open
      /\ w.balance = view[v].balance /\ w.logs = view[v].logs /\ w.asked = view[v].asked
      /\ w.out = view[v].out
  BY <1>2 DEF ViewType
<1>4. ViewOK(w)
  <2> HIDE DEF w
  <2>1. QED
    BY <1>2, <1>3 DEF ViewOK
<1>5. QED
  <2> HIDE DEF w
  <2>1. QED
    BY <1>1, <1>4, ViewMoves

LEMMA ReadBalanceKeeps ==
    ASSUME DonationsInv, NEW v \in Viewers, ReadBalance(v)
    PROVE  DonationsInv'
<1> DEFINE n == view[v].npc
           b == Given(gifts[n]) - paidOut[n]
           w == [view[v] EXCEPT !.open = @ \ {"balance"}, !.balance = b]
<1>1. view[v].pc = "reads" /\ UNCHANGED <<gifts, paidOut>> /\ view' = [view EXCEPT ![v] = w]
  BY DEF ReadBalance, DonationsInv
<1>2. /\ ViewOK(view[v]) /\ view[v] \in ViewType /\ n \in Tokens /\ gifts[n] \in Logs
      /\ paidOut[n] \in Nat
  BY <1>1, ViewOf
<1>3. /\ view[v].asked \in Logs /\ view[v].out \in Nat
      /\ IsPrefix(view[v].asked, gifts[n]) /\ view[v].out <= paidOut[n]
  BY <1>2 DEF ViewOK, ViewType
<1>4. /\ Given(view[v].asked) \in Nat /\ Given(gifts[n]) \in Nat
      /\ Given(view[v].asked) <= Given(gifts[n])
  BY <1>2, <1>3, MoreIsWorthMore
<1>5. b \in Int /\ Given(view[v].asked) - paidOut[n] <= b /\ b <= Given(gifts[n]) - view[v].out
  BY <1>2, <1>3, <1>4
<1>6. /\ w \in ViewType /\ w.pc = "reads" /\ w.npc = n /\ w.open = view[v].open \ {"balance"}
      /\ w.balance = b /\ w.logs = view[v].logs /\ w.asked = view[v].asked
      /\ w.out = view[v].out
  <2> HIDE DEF b
  <2>1. QED
    BY <1>1, <1>2, <1>5 DEF ViewType
<1>7. ViewOK(w)
  <2> HIDE DEF w, b
  <2>1. QED
    BY <1>2, <1>3, <1>5, <1>6 DEF ViewOK
<1>8. QED
  <2> HIDE DEF w
  <2>1. QED
    BY <1>1, <1>7, ViewMoves

LEMMA ReadLogsKeeps ==
    ASSUME DonationsInv, NEW v \in Viewers, ReadLogs(v)
    PROVE  DonationsInv'
<1> DEFINE n == view[v].npc
           w == [view[v] EXCEPT !.open = @ \ {"logs"}, !.logs = gifts[n]]
<1>1. view[v].pc = "reads" /\ UNCHANGED <<gifts, paidOut>> /\ view' = [view EXCEPT ![v] = w]
  BY DEF ReadLogs, DonationsInv
<1>2. /\ ViewOK(view[v]) /\ view[v] \in ViewType /\ n \in Tokens /\ gifts[n] \in Logs
  BY <1>1, ViewOf
<1>3. IsPrefix(view[v].asked, gifts[n]) /\ IsPrefix(gifts[n], gifts[n])
  BY <1>2, PrefixOfItself DEF ViewOK, Logs
<1>4. /\ w \in ViewType /\ w.pc = "reads" /\ w.npc = n /\ w.open = view[v].open \ {"logs"}
      /\ w.balance = view[v].balance /\ w.logs = gifts[n] /\ w.asked = view[v].asked
      /\ w.out = view[v].out
  BY <1>1, <1>2 DEF ViewType
<1>5. ViewOK(w)
  <2> HIDE DEF w
  <2>1. QED
    BY <1>2, <1>3, <1>4 DEF ViewOK
<1>6. QED
  <2> HIDE DEF w
  <2>1. QED
    BY <1>1, <1>5, ViewMoves

LEMMA ShowKeeps ==
    ASSUME DonationsInv, NEW v \in Viewers, Show(v)
    PROVE  DonationsInv'
<1>1. PICK top \in Top(view[v].logs) :
          view' = [view EXCEPT ![v] = [view[v] EXCEPT !.pc = "shown", !.donors = top]]
  BY DEF Show, DonationsInv
<1> DEFINE w == [view[v] EXCEPT !.pc = "shown", !.donors = top]
<1>2. view[v].pc = "reads" /\ view[v].open = {} /\ UNCHANGED <<gifts, paidOut>>
  BY DEF Show
<1>3. ViewOK(view[v]) /\ view[v] \in ViewType
  BY <1>2, ViewOf
<1>4. top \in SUBSET Donors
  <2>1. view[v].logs \in Logs
    BY <1>3 DEF ViewType
  <2>2. Givers(view[v].logs) \in SUBSET Donors
    <3>1. \A log \in ToSet(view[v].logs) : log.from \in Donors
      BY <2>1, ValuesAreNatural DEF ToSet
    <3>2. QED
      BY <3>1 DEF Givers
  <2>3. QED
    BY <2>2, <1>1 DEF Top
<1>5. /\ w \in ViewType /\ w.pc = "shown" /\ w.npc = view[v].npc /\ w.open = view[v].open
      /\ w.balance = view[v].balance /\ w.logs = view[v].logs /\ w.asked = view[v].asked
      /\ w.out = view[v].out /\ w.donors = top
  BY <1>3, <1>4 DEF ViewType
<1>6. ViewOK(w)
  <2> HIDE DEF w
  <2>1. QED
    BY <1>1, <1>2, <1>3, <1>5 DEF ViewOK
<1>7. QED
  <2> HIDE DEF w
  <2>1. QED
    BY <1>1, <1>2, <1>6, ViewMoves DEF w

LEMMA DonationsStep ==
    ASSUME DonationsInv, [DonationsNext]_donationVars
    PROVE  DonationsInv'
<1>1. ASSUME NEW v \in Viewers, RpcFails(v) PROVE DonationsInv'
  BY <1>1, ViewMoves DEF RpcFails
<1>2. CASE UNCHANGED donationVars
  <2>1. \A n \in Tokens : IsPrefix(gifts[n], gifts[n])
    BY PrefixOfItself DEF DonationsInv, Logs
  <2>2. QED
    BY <1>2, <2>1, ChainMoves DEF donationVars, DonationsInv
<1>3. QED
  BY <1>1, <1>2, DonateKeeps, PayOutKeeps, RequestViewKeeps, ResolveKeeps, ReadBalanceKeeps,
     ReadLogsKeeps, ShowKeeps DEF DonationsNext

LEMMA ViewsAreCurrent == DonationsInv => ViewsCurrent
<1> SUFFICES ASSUME DonationsInv, NEW v \in Viewers, view[v].pc = "shown"
             PROVE  LET upToNow == gifts[view[v].npc]
                    IN  /\ IsPrefix(view[v].asked, view[v].logs) /\ IsPrefix(view[v].logs, upToNow)
                        /\ Given(view[v].asked) - paidOut[view[v].npc] <= view[v].balance
                        /\ view[v].balance <= Given(upToNow) - view[v].out
                        /\ \A d \in Givers(view[v].asked) \ view[v].donors :
                             \A e \in view[v].donors : Total(view[v].asked, d) <= Total(upToNow, e)
  BY DEF ViewsCurrent
<1> DEFINE upToNow == gifts[view[v].npc]
           asked == view[v].asked
           logs == view[v].logs
<1>1. ViewOK(view[v]) /\ asked \in Logs /\ logs \in Logs /\ upToNow \in Logs
  BY ViewOf DEF ViewType
<1>2. /\ IsPrefix(asked, logs) /\ IsPrefix(logs, upToNow) /\ view[v].donors \in Top(logs)
      /\ Given(asked) - paidOut[view[v].npc] <= view[v].balance
      /\ view[v].balance <= Given(upToNow) - view[v].out
  BY <1>1 DEF ViewOK
<1>3. ASSUME NEW d \in Givers(asked) \ view[v].donors, NEW e \in view[v].donors
      PROVE  Total(asked, d) <= Total(upToNow, e)
  <2>1. d \in Givers(logs)
    <3>1. /\ DOMAIN asked = 1..Len(asked) /\ DOMAIN logs = 1..Len(logs)
          /\ Len(asked) \in Nat /\ Len(logs) \in Nat
      BY <1>1, DomainsAreFinite DEF Logs
    <3>2. Len(asked) <= Len(logs) /\ \A i \in 1..Len(asked) : asked[i] = logs[i]
      BY <1>1, <1>2, PrefixPointwise DEF Logs
    <3>3. PICK i \in DOMAIN asked : d = asked[i].from
      BY <1>3 DEF Givers, ToSet
    <3>4. i \in DOMAIN logs /\ d = logs[i].from
      BY <3>1, <3>2, <3>3
    <3>5. QED
      BY <3>4 DEF Givers, ToSet
  <2>2. From(logs, e) >= From(logs, d)
    BY <1>2, <1>3, <2>1 DEF Top
  <2>3. From(logs, e) = Total(logs, e) /\ From(logs, d) = Total(logs, d)
    BY <1>1, FromIsTotal
  <2>4. /\ Total(asked, d) \in Nat /\ Total(logs, d) \in Nat /\ Total(asked, d) <= Total(logs, d)
        /\ Total(logs, e) \in Nat /\ Total(upToNow, e) \in Nat /\ Total(logs, e) <= Total(upToNow, e)
    BY <1>1, <1>2, MoreIsWorthMore
  <2>5. QED
    BY <2>2, <2>3, <2>4
<1>4. QED
  BY <1>2, <1>3

\* The proxy lets fewer than twice its rate through in any minute, and shows
\* views of the donations that are as recent as their requests, for any
\* addresses, rates, donors, gifts and overlapping requests (rateOk, view,
\* donationsTo).
THEOREM ProxyKeepsItsWord == ProxySpec => []ProxyKept
<1> DEFINE Inv == RateInv /\ DonationsInv
<1>1. ProxyInit /\ DonationsInit => Inv
  BY RateStart, DonationsStart
<1>2. ASSUME Inv,
             [ \/ ProxyNext /\ UNCHANGED donationVars
               \/ DonationsNext /\ UNCHANGED proxyVars ]_<<proxyVars, donationVars>>
      PROVE  Inv'
  <2>1. [ProxyNext]_proxyVars /\ [DonationsNext]_donationVars
    BY <1>2
  <2>2. QED
    BY <2>1, <1>2, RateStep, DonationsStep
<1>3. Inv => ProxyKept
  BY RateIsBounded, ViewsAreCurrent DEF ProxyKept
<1>4. QED
  BY <1>1, <1>2, <1>3, PTL DEF ProxySpec

=============================================================================
