------------------------------- MODULE Market -------------------------------
(***************************************************************************)
(* The provider market: ServiceRegistry.sol, the AutoInfBrokerProvider     *)
(* that picks a service and asks it, and the attestation check of          *)
(* packages/verify that decides whether an answer is stamped as verified.  *)
(* A provider runs enclaves, each with a key and a quote; it may redeploy  *)
(* and update its listing at any time.  A quote is named by the key its    *)
(* report_data binds, and an attestationRef (a hash) by its quote.         *)
(* Requests, texts, token counts and what an answer costs are left out.    *)
(***************************************************************************)
EXTENDS ServingBroker, Integers, FiniteSets, SequencesExt

CONSTANTS
    Sellers,      \* accounts that may list a service
    Enclaves,     \* keys made inside an enclave, one quote each
    Listings,     \* what a listing may say: [signer, ref, tier, price, model]
    RunsOn,       \* key -> image measured in its quote
    MaxTierOf,    \* image -> highest tier the allow-list grants it
    OutOfDate,    \* keys whose quote DCAP does not accept
    BondWei,      \* bondWei
    PageSize,     \* pageSize of ViemRegistryReader
    Asks,         \* complete() calls that may overlap
    Client,       \* [model, pinned], options of the broker or NoOne
    NoOne,
    MaxEdits,     \* bound: registry transactions
    MaxNested     \* bound: calls back from a refund

ASSUME MarketAssumption ==
    /\ BondWei \in Nat /\ MaxEdits \in Nat /\ MaxNested \in Nat
    /\ PageSize \in Nat \ {0}
    /\ OutOfDate \subseteq Enclaves /\ NoOne \notin Enclaves
    /\ IsFiniteSet(Sellers)

VARIABLES
    service,    \* _services
    providers,  \* providers, append-only
    pot,        \* wei the registry holds
    refunding,    \* refunding under way: deactivate() inside msg.sender.call
    edits,      \* transactions so far
    chosen,     \* the broker's chosen service, with its verifier
    ask,        \* call -> [pc, offset, seen, via, key, fetched]
    verifier,   \* verifier, named by the call that made it
    stamped     \* history: [by, key], verifier and key of the stamped answers

registryVars == <<service, providers, pot, refunding, edits>>
brokerVars == <<chosen, ask, verifier, stamped>>
marketVars == <<registryVars, brokerVars>>

Unlisted == [signer |-> NoOne, ref |-> NoOne, tier |-> 0, price |-> 0,
             model |-> NoOne, active |-> FALSE]
IdleAsk == [pc |-> "idle", offset |-> 0, seen |-> <<>>, via |-> NoOne,
            key |-> NoOne, fetched |-> NoOne]
NoVerifier == [svc |-> Unlisted, quote |-> "unchecked", bound |-> NoOne]

MarketInit ==
    /\ service = [p \in Sellers |-> Unlisted]
    /\ providers = <<>>
    /\ pot = 0
    /\ refunding = <<>>
    /\ edits = 0
    /\ chosen = NoOne
    /\ ask = [c \in Asks |-> IdleAsk]
    /\ verifier = [c \in Asks |-> NoVerifier]
    /\ stamped = {}

(***************************************************************************)
(* ServiceRegistry.  A refund runs code of the provider, which may call    *)
(* the registry again before deactivate() returns; a provider that refuses *)
(* the refund reverts all of it.  Nothing else happens in between.         *)
(***************************************************************************)
\* p may send a transaction, or calls from inside its own refund.
MayEdit(p) ==
    /\ edits < MaxEdits
    /\ chosen = NoOne    \* bound: a broker that has chosen reads no listing again
    /\ refunding # <<>> => Last(refunding).provider = p

\* What the registry stores of a listing.
Listed(l) == [signer |-> l.signer, ref |-> l.ref, tier |-> l.tier,
              price |-> l.price, model |-> l.model, active |-> TRUE]

Register(p, listing) ==
    /\ MayEdit(p)
    /\ ~ service[p].active
    /\ service' = [service EXCEPT ![p] = Listed(listing)]
    /\ providers' = IF p \in Range(providers) THEN providers
                    ELSE Append(providers, p)
    /\ pot' = pot + BondWei
    /\ edits' = edits + 1
    /\ UNCHANGED <<refunding, brokerVars>>

Update(p, listing) ==
    /\ MayEdit(p)
    /\ service[p].active
    /\ service' = [service EXCEPT ![p] = Listed(listing)]
    /\ edits' = edits + 1
    /\ UNCHANGED <<providers, pot, refunding, brokerVars>>

\* deactivate() calls msg.sender only to send a bond back.
Refunding(p) ==
    IF BondWei = 0 THEN refunding
    ELSE Append(refunding, [provider |-> p, before |-> <<service, providers, pot>>])

Deactivate(p) ==
    /\ MayEdit(p) /\ Len(refunding) < MaxNested
    /\ service[p].active
    /\ service' = [service EXCEPT ![p].active = FALSE]
    /\ pot' = pot - BondWei
    /\ refunding' = Refunding(p)
    /\ edits' = edits + 1
    /\ UNCHANGED <<providers, brokerVars>>

\* The refund is taken, or refused: BondRefundFailed.
RefundEnds ==
    /\ refunding # <<>>
    /\ \/ UNCHANGED <<service, providers, pot>>
       \/ LET before == Last(refunding).before IN
          /\ service' = before[1]
          /\ providers' = before[2]
          /\ pot' = before[3]
    /\ refunding' = Front(refunding)
    /\ UNCHANGED <<edits, brokerVars>>

(***************************************************************************)
(* ensureService(): the pages of the registry are read one by one, while   *)
(* it changes; the first choice is kept for good.                          *)
(***************************************************************************)
AskAt(c, pc) == refunding = <<>> /\ ask[c].pc = pc
AskGoes(c, pc) == ask' = [ask EXCEPT ![c].pc = pc]

Ask(c) ==
    /\ AskAt(c, "idle")
    /\ ask' = [ask EXCEPT ![c] = IF chosen = NoOne THEN [IdleAsk EXCEPT !.pc = "list"]
                                 ELSE [IdleAsk EXCEPT !.pc = "post", !.via = chosen]]
    /\ UNCHANGED <<registryVars, chosen, verifier, stamped>>

\* list(offset, limit)
Page(offset) ==
    LET end == IF offset + PageSize > Len(providers) THEN Len(providers)
               ELSE offset + PageSize
    IN  [i \in 1..(end - offset) |->
            service[providers[offset + i]] @@ [provider |-> providers[offset + i]]]

\* The active services, those of the pinned provider, those of the model.
Pool(seen) ==
    SelectSeq(seen, LAMBDA s :
        /\ s.active
        /\ Client.pinned # NoOne => s.provider = Client.pinned
        /\ Client.model # NoOne => s.model = Client.model)

\* The cheapest of a pool, the first of those that cost the same.
Cheapest(pool) ==
    FoldLeft(LAMBDA best, s : IF s.price < best.price THEN s ELSE best,
             Head(pool), pool)

\* A full page is followed by the next; after the last one c chooses.
ReadPage(c) ==
    LET page == Page(ask[c].offset)
        pool == Pool(ask[c].seen \o page)
    IN  /\ AskAt(c, "list")
        /\ IF Len(page) = PageSize
           THEN /\ ask' = [ask EXCEPT ![c].seen = @ \o page, ![c].offset = @ + PageSize]
                /\ UNCHANGED <<chosen, verifier>>
           ELSE IF pool = <<>>
           THEN /\ ask' = [ask EXCEPT ![c] = IdleAsk]    \* throws
                /\ UNCHANGED <<chosen, verifier>>
           ELSE /\ verifier' = [verifier EXCEPT ![c] = [NoVerifier EXCEPT !.svc = Cheapest(pool)]]
                /\ chosen' = c
                /\ ask' = [ask EXCEPT ![c] = [IdleAsk EXCEPT !.pc = "post", !.via = c]]
        /\ UNCHANGED <<registryVars, stamped>>

(***************************************************************************)
(* complete(): an answer signed by an enclave, and its verification.       *)
(***************************************************************************)
Via(c) == verifier[ask[c].via]

\* The endpoint answers, signed by whichever enclave serves it; c recovers the
\* key from the signature.
Answer(c) ==
    /\ AskAt(c, "post")
    /\ \E k \in Enclaves : ask' = [ask EXCEPT ![c].key = k, ![c].pc = "fetch"]
    /\ UNCHANGED <<registryVars, chosen, verifier, stamped>>

\* An HTTP error, an answer without attestation headers, or a quote that
\* cannot be fetched end a call unstamped.
Unattested(c) ==
    /\ AskAt(c, "post") \/ AskAt(c, "fetch")
    /\ ask' = [ask EXCEPT ![c] = IdleAsk]
    /\ UNCHANGED <<registryVars, chosen, verifier, stamped>>

\* The image a quote measures has a ceiling; a label that is no tier is under
\* none (Tiers are 0 for scripted up to 3 for fusion).
Tiers == 0..3
Ceiling(blob) == MaxTierOf[RunsOn[blob]]
TierWithin(claimed, max) == claimed \in Tiers /\ claimed <= max

\* report_data holds the hash of the key the quote was made for.
Binds(blob, key) == blob = key

\* Reference, key binding, tier: the checks before the hardware is asked.
QuoteFits(c) ==
    LET svc == Via(c).svc
        blob == ask[c].fetched
    IN  /\ blob = svc.ref
        /\ Binds(blob, ask[c].key)
        /\ TierWithin(svc.tier, Ceiling(blob))

\* The DCAP check accepts a quote whose status is up to date; it answers
\* FALSE to everything else, and when it cannot be reached: QuoteFails.
HardwareAccepts(blob) == blob \notin OutOfDate

\* verifyResponse(): the calls of done end, stamped if the signature recovers
\* to the listed signer; else unsigned, or thrown if the host insists.
Stamps(done, by) ==
    {[by |-> by, key |-> ask[d].key] : d \in {e \in done : ask[e].key = by.svc.signer}}

Finish(done, by) ==
    /\ ask' = [d \in Asks |-> IF d \in done THEN IdleAsk ELSE ask[d]]
    /\ stamped' = stamped \cup Stamps(done, by)

\* The storage gateway sends the blob asked for or another one;
\* verifyQuoteOnce() does not repeat a check that succeeded or is under way.
FetchQuote(c) ==
    /\ AskAt(c, "fetch")
    /\ \/ /\ Via(c).quote = "unchecked"
          /\ verifier' = [verifier EXCEPT ![ask[c].via].quote = "running"]
          /\ \E blob \in Enclaves :
                ask' = [ask EXCEPT ![c].fetched = blob, ![c].pc = "running"]
          /\ UNCHANGED stamped
       \/ /\ Via(c).quote = "running"
          /\ AskGoes(c, "joined")
          /\ UNCHANGED <<verifier, stamped>>
       \/ /\ Via(c).quote = "checked"
          /\ Finish({c}, Via(c))
          /\ UNCHANGED verifier
    /\ UNCHANGED <<registryVars, chosen>>

\* Calls that wait for the check c runs, c among them.
Sharing(c) == {d \in Asks : ask[d].via = ask[c].via /\ ask[d].pc \in {"running", "joined"}}

\* The check ends with success, for every call that waits ...
QuoteHolds(c) ==
    /\ AskAt(c, "running")
    /\ QuoteFits(c)
    /\ HardwareAccepts(ask[c].fetched)
    /\ LET by == [Via(c) EXCEPT !.quote = "checked", !.bound = ask[c].fetched] IN
       /\ verifier' = [verifier EXCEPT ![ask[c].via] = by]
       /\ Finish(Sharing(c), by)
    /\ UNCHANGED <<registryVars, chosen>>

\* Faulty variant: the failed promise stays cached as if it had resolved.
QuoteFailsCached(c) ==
    /\ AskAt(c, "running")
    /\ verifier' = [verifier EXCEPT ![ask[c].via].quote = "checked"]
    /\ Finish(Sharing(c), NoVerifier)
    /\ UNCHANGED <<registryVars, chosen>>

\* ... or fails, and with it all of them: a check failed, or the quote verifier
\* said no or could not be reached.  The next call tries again.
QuoteFails(c) ==
    /\ AskAt(c, "running")
    /\ verifier' = [verifier EXCEPT ![ask[c].via].quote = "unchecked"]
    /\ Finish(Sharing(c), NoVerifier)
    /\ UNCHANGED <<registryVars, chosen>>

MarketNext ==
    \/ \E p \in Sellers :
        \/ \E listing \in Listings : Register(p, listing) \/ Update(p, listing)
        \/ Deactivate(p)
    \/ RefundEnds
    \/ \E c \in Asks :
        \/ Ask(c) \/ ReadPage(c) \/ Answer(c) \/ Unattested(c) \/ FetchQuote(c)
        \/ QuoteHolds(c) \/ QuoteFails(c)

\* The market and the serving broker side by side.
MarketSpec ==
    /\ MarketInit /\ ServingInit
    /\ [][\/ MarketNext /\ UNCHANGED servingVars
          \/ ServingNext /\ UNCHANGED marketVars]_<<marketVars, servingVars>>

(***************************************************************************)
(* Properties                                                              *)
(***************************************************************************)
\* The registry holds one bond per active listing, also in the middle of a
\* refund whose receiver calls back (register, deactivate).
BondsBacked == pot = BondWei * Cardinality({p \in Sellers : service[p].active})

\* An answer is stamped only under a listing whose own quote was checked, once,
\* by this verifier: the blob was the one referenced and accepted by the
\* hardware check, its image may claim the listed tier, and the answer is
\* signed by the listed key - whatever calls share the check, and however it
\* failed before (verifyQuoteOnce, verifyResponse).
StampedIsAttested ==
    \A a \in stamped :
        LET svc == a.by.svc IN
        /\ a.key = svc.signer
        /\ a.by.bound = svc.ref
        /\ HardwareAccepts(svc.ref)
        /\ TierWithin(svc.tier, Ceiling(svc.ref))

\* The market keeps its word on both sides, and so does the other way to an
\* attested answer, the serving broker.
MarketKept == BondsBacked /\ StampedIsAttested /\ SignersAcknowledged
=============================================================================
