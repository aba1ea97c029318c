----------------------------- MODULE MCGateway ------------------------------
(***************************************************************************)
(* TLC instances of the inference market: the gateway over the ledger, the *)
(* registry with the broker that reads it, the serving broker, the         *)
(* inference proxy and its donation indexer.  A behaviour explores one of  *)
(* them.                                                                   *)
(***************************************************************************)
EXTENDS VoucherGateway, Market, Proxy, TLC

CONSTANTS k1, k2, relay, modified, gpt

VARIABLE part  \* what this behaviour explores

Images == k1 :> relay @@ k2 :> modified
Ceilings == relay :> 2 @@ modified :> 1

\* A listing that is right, one whose signer lags behind a redeployed enclave,
\* and one that claims more than its image may.
Listing(signer, ref, tier, price) ==
    [signer |-> signer, ref |-> ref, tier |-> tier, price |-> price, model |-> gpt]
Wares == {Listing(k1, k1, 2, 2), Listing(k1, k2, 1, 1), Listing(k2, k2, 2, 1)}
AnyProvider == [model |-> gpt, pinned |-> NoOne]

\* What a part does not explore starts in one of its initial states and stays.
GatewayInit ==
    /\ part \in {"gateway", "market", "serving", "proxy", "donations"}
    /\ Init /\ MarketInit /\ ServingInit /\ ProxyInit /\ DonationsInit
    /\ part # "gateway" => limit = CHOOSE n \in Concurrency : TRUE
    /\ part # "serving" => supplier = NoSupplier /\ offered = CHOOSE s \in Suppliers : TRUE

GatewayNext ==
    \/ part = "gateway" /\ Next /\ UNCHANGED <<part, marketVars, servingVars, proxyVars, donationVars>>
    \/ part = "market" /\ MarketNext /\ UNCHANGED <<part, vars, servingVars, proxyVars, donationVars>>
    \/ part = "serving" /\ ServingNext /\ UNCHANGED <<part, vars, marketVars, proxyVars, donationVars>>
    \/ part = "proxy" /\ ProxyNext /\ UNCHANGED <<part, vars, marketVars, servingVars, donationVars>>
    \/ part = "donations" /\ DonationsNext /\ UNCHANGED <<part, vars, marketVars, servingVars, proxyVars>>

GatewaySpec ==
    GatewayInit /\ [][GatewayNext]_<<part, vars, marketVars, servingVars, proxyVars, donationVars>> /\ Fairness
=============================================================================
