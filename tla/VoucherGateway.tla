--------------------------- MODULE VoucherGateway ---------------------------
(***************************************************************************)
(* A provider gateway that serves requests against signed vouchers and     *)
(* settles them in batches on the InferenceLedger                          *)
(* (ai3-inference/conformance/src/harness/stub-gateway.ts, with its        *)
(* LedgerClient).  A handler is split at every await on the chain: between *)
(* two of its steps other requests, the users and the chain may move.  An  *)
(* RPC read and the code that follows it up to the next await are one      *)
(* step.  The response body, its signature and its streaming are left out: *)
(* no guard reads them.                                                    *)
(***************************************************************************)
EXTENDS InferenceLedger, SequencesExt

CONSTANTS
    Gateway,        \* the provider EOA: named by vouchers, sender of settle()
    Requests,       \* HTTP requests of one behaviour
    Estimate,       \* pre-flight estimate the cap must reach, estimateWei
    SettleEvery,    \* batch size that triggers a settlement
    Concurrency,    \* how many requests may be handled at the same time: the
                    \* values to explore
    Opening,        \* escrow every user has transferred to every provider
    RpcFaults,      \* TRUE: calls to the chain may fail, mined or not
    NoVoucher       \* what a request that has not arrived carries

ASSUME GatewayAssumption ==
    /\ Gateway \in Providers
    /\ Estimate \in Nat
    /\ SettleEvery \in Nat \ {0}
    /\ Concurrency \subseteq Nat \ {0}
    /\ Opening \in Nat
    /\ RpcFaults \in BOOLEAN
    /\ IsFiniteSet(Requests)

VARIABLES
    usedLocal,  \* usedNonces of the gateway: the local replay guard
    pending,    \* served settlements waiting for a batch
    req,        \* request -> [stage, v, fee, batch]
    manual,     \* batch taken by a settleNow() call, <<>> when none is running
    lost,       \* history: settlements dropped with a batch
    limit       \* requests handled at the same time, fixed by the deployment

gatewayVars == <<usedLocal, pending, req, manual, lost, limit>>
vars == <<ledgerVars, gatewayVars>>

\* Stages awaiting the chain, in the order of the checks.  "rejected" is any
\* end before the request is served (402, 400, 500); "failed" is a 500 after
\* it was served, out of the settlement it awaited.
Waiting == {"clock", "nonce", "balance", "settling"}
Final == {"answered", "rejected", "failed"}
IdleRequest == [stage |-> "idle", v |-> NoVoucher, fee |-> 0, batch |-> <<>>]

LocalKey(v) == <<v.user, v.nonce>>
Active == {r \in Requests : req[r].stage \in Waiting}

GatewayTypeOK ==
    /\ usedLocal \subseteq Users \X Nonces
    /\ pending \in Seq(Settlement)
    /\ \A r \in Requests :
        /\ req[r].stage \in Waiting \cup Final \cup {"idle"}
        /\ req[r].stage # "idle" => req[r].v \in Voucher
        /\ req[r].batch \in Seq(Settlement)
    /\ manual \in Seq(Settlement)
    /\ lost \subseteq Settlement
    /\ limit \in Concurrency

\* The gateway starts on a ledger that users have funded.
Init ==
    /\ unallocated = [u \in Users |-> 0]
    /\ balanceOf = [a \in Accounts |-> Opening]
    /\ accrued = [p \in Providers |-> 0]
    /\ refunds = [a \in Accounts |-> NoRefund]
    /\ usedNonces = {}
    /\ held = Opening * Cardinality(Accounts)
    /\ now = 0
    /\ signed = {}
    /\ requestedAt = [a \in Accounts |-> NotRequested]
    /\ usedLocal = {}
    /\ pending = <<>>
    /\ req = [r \in Requests |-> IdleRequest]
    /\ manual = <<>>
    /\ lost = {}
    /\ limit \in Concurrency

Advance(r, stage) == req' = [req EXCEPT ![r].stage = stage]

(***************************************************************************)
(* The 402 gate, checkVoucher                                              *)
(***************************************************************************)
\* Header, provider and signature checks read nothing that changes; the fee
\* that metering will compute is fixed by the request.  Next offers signed
\* vouchers only: an unsigned one is turned away here and leaves no trace.
Arrive(r, v, fee) ==
    /\ req[r].stage = "idle"
    /\ Cardinality(Active) < limit
    /\ req' = [req EXCEPT ![r] =
            [stage |-> IF v.provider = Gateway /\ v \in signed
                       THEN "clock" ELSE "rejected",
             v |-> v, fee |-> fee, batch |-> <<>>]]
    /\ UNCHANGED <<ledgerVars, usedLocal, pending, manual, lost, limit>>

\* Faulty variant: the gate trusts the chain alone for replays.
ReadClockWithoutLocalGuard(r) ==
    /\ req[r].stage = "clock"
    /\ Advance(r, IF req[r].v.expiry <= now THEN "rejected" ELSE "nonce")
    /\ UNCHANGED <<ledgerVars, usedLocal, pending, manual, lost, limit>>

\* chainNow(), then the expiry check and the lookup in the local guard.
ReadClock(r) ==
    LET v == req[r].v
    IN  /\ req[r].stage = "clock"
        /\ Advance(r, IF v.expiry <= now \/ LocalKey(v) \in usedLocal
                      THEN "rejected" ELSE "nonce")
        /\ UNCHANGED <<ledgerVars, usedLocal, pending, manual, lost, limit>>

\* Faulty variant: a cap below the estimate is never answered.
ReadNonceWithoutAnswer(r) ==
    LET v == req[r].v
    IN  /\ req[r].stage = "nonce"
        /\ Slot(v) \in usedNonces \/ v.maxFee >= Estimate
        /\ Advance(r, IF Slot(v) \in usedNonces THEN "rejected" ELSE "balance")
        /\ UNCHANGED <<ledgerVars, usedLocal, pending, manual, lost, limit>>

\* nonceUsed(), then the cap against the estimate.
ReadNonce(r) ==
    LET v == req[r].v
    IN  /\ req[r].stage = "nonce"
        /\ Advance(r, IF Slot(v) \in usedNonces \/ v.maxFee < Estimate
                      THEN "rejected" ELSE "balance")
        /\ UNCHANGED <<ledgerVars, usedLocal, pending, manual, lost, limit>>

\* Faulty variant: the settlement is queued before the body is parsed.
RejectAtBalanceQueued(r) ==
    /\ req[r].stage = "balance"
    /\ Advance(r, "rejected")
    /\ pending' = Append(pending, [v |-> req[r].v, fee |-> req[r].fee])
    /\ UNCHANGED <<ledgerVars, usedLocal, manual, lost, limit>>

\* balanceOf() below the cap, or a body that is not JSON: the voucher is not
\* consumed.
RejectAtBalance(r) ==
    /\ req[r].stage = "balance"
    /\ Advance(r, "rejected")
    /\ UNCHANGED <<ledgerVars, usedLocal, pending, manual, lost, limit>>

(***************************************************************************)
(* Serving.  Once balanceOf() covers the cap the rest of the handler runs  *)
(* without an await up to the settlement: the nonce enters the local guard,*)
(* the settlement enters pending, and a full pending list is spliced into  *)
(* a batch that this request settles before it answers.                    *)
(***************************************************************************)
Serve(r) ==
    LET v == req[r].v
        queue == Append(pending, [v |-> v, fee |-> req[r].fee])
        full == Len(queue) >= SettleEvery
    IN  /\ req[r].stage = "balance"
        /\ balanceOf[<<v.user, Gateway>>] >= v.maxFee
        /\ usedLocal' = usedLocal \cup {LocalKey(v)}
        /\ pending' = IF full THEN <<>> ELSE queue
        /\ req' = [req EXCEPT ![r].stage = IF full THEN "settling" ELSE "answered",
                              ![r].batch = IF full THEN queue ELSE <<>>]
        /\ UNCHANGED <<ledgerVars, manual, lost, limit>>

(***************************************************************************)
(* settleNow().  The batch has already left pending: when the transaction  *)
(* reverts, or the RPC reports an error, nothing puts it back.             *)
(***************************************************************************)
Mined(b) ==
    /\ Settle(Gateway, b)
    /\ UNCHANGED lost

Dropped(b) ==
    /\ ~ Accepts(Gateway, b) \/ RpcFaults
    /\ lost' = lost \cup ToSet(b)
    /\ UNCHANGED ledgerVars

SettleForRequest(r) ==
    /\ req[r].stage = "settling"
    /\ \E stage \in {"answered", "failed"} :
        /\ req' = [req EXCEPT ![r].batch = <<>>, ![r].stage = stage]
        /\ \/ /\ Mined(req[r].batch)
              /\ stage = "failed" => RpcFaults
           \/ /\ Dropped(req[r].batch)
              /\ stage = "failed"
    /\ UNCHANGED <<usedLocal, pending, manual, limit>>

SettleNow ==
    /\ manual = <<>>
    /\ pending # <<>>
    /\ manual' = pending
    /\ pending' = <<>>
    /\ UNCHANGED <<ledgerVars, usedLocal, req, lost, limit>>

\* Faulty variant: pending is emptied once the transaction returns.
SettleManualThenClear ==
    /\ manual # <<>>
    /\ manual' = <<>>
    /\ pending' = <<>>
    /\ Mined(manual) \/ Dropped(manual)
    /\ UNCHANGED <<usedLocal, req, limit>>

SettleManual ==
    /\ manual # <<>>
    /\ manual' = <<>>
    /\ Mined(manual) \/ Dropped(manual)
    /\ UNCHANGED <<usedLocal, pending, req, limit>>

\* A read of the chain fails: the handler answers 500.
ReadFails(r) ==
    /\ RpcFaults
    /\ req[r].stage \in {"clock", "nonce", "balance"}
    /\ Advance(r, "rejected")
    /\ UNCHANGED <<ledgerVars, usedLocal, pending, manual, lost, limit>>

RequestStep(r) ==
    \/ ReadClock(r)
    \/ ReadNonce(r)
    \/ RejectAtBalance(r)
    \/ Serve(r)
    \/ SettleForRequest(r)

ChainStep ==
    /\ \/ UserStep
       \/ ExitStep
       \/ ProviderWithdraw(Gateway)
       \/ \E v \in Voucher : SignVoucher(v)
       \/ Tick
    /\ UNCHANGED gatewayVars

Next ==
    \/ ChainStep
    \/ \E r \in Requests : RequestStep(r) \/ ReadFails(r)
    \/ \E r \in Requests, v \in signed, fee \in Fees : Arrive(r, v, fee)
    \/ SettleNow
    \/ SettleManual

Spec == Init /\ [][Next]_vars

\* The event loop runs every ready handler and every RPC call returns.
Fairness ==
    /\ \A r \in Requests : WF_vars(RequestStep(r))
    /\ WF_vars(SettleManual)

FairSpec == Spec /\ Fairness

(***************************************************************************)
(* Properties                                                              *)
(***************************************************************************)
Answered == {r \in Requests : req[r].stage = "answered"}

\* The batches taken from pending and not yet settled.
InFlight == {manual} \cup {req[r].batch : r \in Requests}

Queued == UNION {ToSet(q) : q \in InFlight \cup {pending}}

\* A gateway that handles one request at a time answers once per nonce,
\* re-signed under another cap or not (checkVoucher, usedNonces).
OneAnswerInTurn ==
    limit = 1 => \A r, s \in Answered : r # s => Slot(req[r].v) # Slot(req[s].v)

\* A voucher is the user's authorization for one request: no two answered
\* requests share a nonce (checkVoucher, usedNonces).
OneVoucherOneAnswer ==
    \A r, s \in Answered : r # s => Slot(req[r].v) # Slot(req[s].v)

\* Every answered request is on its way to payment: its settlement is queued,
\* in a batch, on the chain, or was dropped with a batch that was not mined
\* (pending, settleNow).  The state is well typed.
AnsweredIsAccounted ==
    /\ GatewayTypeOK
    /\ \A r \in Answered :
           \/ Slot(req[r].v) \in usedNonces
           \/ [v |-> req[r].v, fee |-> req[r].fee] \in Queued \cup lost

\* The chain never charges for a request that the gateway did not serve: a
\* rejected request leaves the user's escrow alone, whatever else is batched
\* with it (checkVoucher, the 400 path, settleNow).
ChargedOnlyIfServed ==
    \A u \in Users, n \in Nonces :
        <<u, Gateway, n>> \in usedNonces =>
            \E r \in Requests :
                /\ req[r].stage \in {"answered", "failed"}
                /\ Slot(req[r].v) = <<u, Gateway, n>>

\* Every request gets an answer, whatever the users and the chain do and
\* however the settlement it triggered ends (the handler and its catch).
EveryRequestEnds ==
    \A r \in Requests :
        req[r].stage \in Waiting ~> req[r].stage \in Final
=============================================================================
