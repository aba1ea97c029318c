---------------------------- MODULE ServingBroker ----------------------------
(***************************************************************************)
(* Inference straight from a 0G serving broker, ZeroGBrokerProvider in     *)
(* packages/npc-agent/src/inference/zerog-broker-provider.ts.  The calls   *)
(* of one provider object overlap at their awaits: prewarm() at boot and   *)
(* complete() for each line an NPC says share the supplier that the first  *)
(* of them picks and the set of signers acknowledged so far.  The broker   *)
(* SDK is external; prompts, texts and the balance read are left out.      *)
(***************************************************************************)
EXTENDS Naturals

CONSTANTS
    Suppliers,  \* TeeML providers that listService() may name
    Lines,      \* calls of prewarm() and complete() that may overlap
    NoSupplier, \* no provider picked or listed
    MaxLines    \* bound: calls

VARIABLES
    offered,    \* the first TEE provider of listService()
    supplier,   \* provider
    acked,      \* acked, the signers this process has acknowledged
    signers,    \* acknowledged on chain
    line,       \* call -> [pc, warm, via]
    vouched,    \* history: suppliers whose answers carry a signature
    lines       \* calls so far

servingVars == <<offered, supplier, acked, signers, line, vouched, lines>>

NoLine == [pc |-> "idle", warm |-> FALSE, via |-> NoSupplier]

ServingInit ==
    /\ offered \in Suppliers
    /\ supplier \in Suppliers \cup {NoSupplier}    \* providerAddress, if given
    /\ acked = {} /\ signers = {} /\ vouched = {}
    /\ line = [l \in Lines |-> NoLine]
    /\ lines = 0

LineAt(l, pc) == line[l].pc = pc
LineGoes(l, pc) == line' = [line EXCEPT ![l].pc = pc]
LineEnds(l) == line' = [line EXCEPT ![l] = NoLine]

\* external: the services on offer change.
Relisted ==
    /\ \E s \in (Suppliers \cup {NoSupplier}) \ {offered} : offered' = s
    /\ UNCHANGED <<supplier, acked, signers, line, vouched, lines>>

\* ensureProvider(): the supplier picked before, or the list is asked for.
Begins(l, warm) ==
    /\ LineAt(l, "idle") /\ lines < MaxLines
    /\ line' = [line EXCEPT ![l] = [warm |-> warm, via |-> supplier,
                   pc |-> IF supplier = NoSupplier THEN "list" ELSE "metadata"]]
    /\ lines' = lines + 1
    /\ UNCHANGED <<offered, supplier, acked, signers, vouched>>

\* The last of several first calls to see its list decides for all later ones;
\* each goes on with the supplier it saw.
Picks(l) ==
    /\ LineAt(l, "list")
    /\ IF offered = NoSupplier THEN LineEnds(l) /\ UNCHANGED supplier    \* throws
       ELSE /\ supplier' = offered
            /\ line' = [line EXCEPT ![l].pc = "metadata", ![l].via = offered]
    /\ UNCHANGED <<offered, acked, signers, vouched, lines>>

\* What follows an acknowledged signer: prewarm() returns, complete() asks.
Ready(l) == IF line[l].warm THEN LineEnds(l) ELSE LineGoes(l, "post")

KnowsMetadata(l) ==
    /\ LineAt(l, "metadata")
    /\ IF line[l].via \in acked THEN Ready(l) ELSE LineGoes(l, "acknowledge")
    /\ UNCHANGED <<offered, supplier, acked, signers, vouched, lines>>

Acknowledges(l) ==
    /\ LineAt(l, "acknowledge")
    /\ signers' = signers \cup {line[l].via}
    /\ acked' = acked \cup {line[l].via}
    /\ Ready(l)
    /\ UNCHANGED <<offered, supplier, vouched, lines>>

\* The transaction fails, or only its answer is lost.
AcknowledgeFails(l) ==
    /\ LineAt(l, "acknowledge")
    /\ signers' \in {signers, signers \cup {line[l].via}}
    /\ LineEnds(l)
    /\ UNCHANGED <<offered, supplier, acked, vouched, lines>>

\* The answer, and whether processResponse() vouches for it: it may say no,
\* fail, or not be asked for want of a chat id.
Completes(l, verified) ==
    /\ LineAt(l, "post")
    /\ vouched' = IF verified THEN vouched \cup {line[l].via} ELSE vouched
    /\ LineEnds(l)
    /\ UNCHANGED <<offered, supplier, acked, signers, lines>>

LineFails(l) ==
    /\ LineAt(l, "list") \/ LineAt(l, "metadata") \/ LineAt(l, "post")
    /\ LineEnds(l)
    /\ UNCHANGED <<offered, supplier, acked, signers, vouched, lines>>

ServingNext ==
    \/ Relisted
    \/ \E l \in Lines :
        \/ \E warm \in BOOLEAN : Begins(l, warm)
        \/ Picks(l) \/ KnowsMetadata(l) \/ Acknowledges(l) \/ AcknowledgeFails(l)
        \/ \E verified \in BOOLEAN : Completes(l, verified)
        \/ LineFails(l)

-----------------------------------------------------------------------------
\* No prompt is sent to a supplier, and no answer of one is signed as verified,
\* before its signer is acknowledged on chain, whichever of the overlapping
\* calls picked it or sent the acknowledgement (prewarm, complete).
SignersAcknowledged ==
    /\ acked \cup vouched \subseteq signers
    /\ \A l \in Lines : LineAt(l, "post") => line[l].via \in signers
=============================================================================
