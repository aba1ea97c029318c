----------------------------- MODULE Donations ------------------------------
(***************************************************************************)
(* The donation indexer of the inference proxy (src/proxy/donations.mjs):  *)
(* who gave how much to an NPC's token-bound account, told from two reads  *)
(* of the chain that run side by side.  The encoding of calls and words is *)
(* left out; amounts are atoms.                                            *)
(***************************************************************************)
EXTENDS Integers, FiniteSets, FiniteSetsExt, SequencesExt, Sums

CONSTANTS
    Tokens,   \* NPCs of npcTokens
    Strays,   \* npcIds without a token
    Donors,
    Gifts,    \* amounts of a gift
    Viewers,  \* GET requests that may be handled at the same time
    Shown,    \* how many donors a view names
    MaxGifts, \* bound: gifts
    MaxViews  \* bound: requests

ASSUME DonationsAssumption == Gifts \subseteq Nat /\ Shown \in Nat \ {0}

VARIABLES
    gifts,    \* chain: NPC -> the Transfer logs to its account, as [from, value]
    paidOut,  \* chain: NPC -> what its account has spent
    tbaCache, \* _tbaCache: NPCs whose account is known
    view,     \* request -> the view being put together
    viewed    \* requests so far

donationVars == <<gifts, paidOut, tbaCache, view, viewed>>

NoView == [pc |-> "idle"]

DonationsInit ==
    /\ gifts = [npc \in Tokens |-> <<>>]
    /\ paidOut = [npc \in Tokens |-> 0]
    /\ tbaCache = {}
    /\ view = [v \in Viewers |-> NoView]
    /\ viewed = 0

\* What some of the logs add up to, and all of them.
Worth(logs, indices) == SumOf([i \in DOMAIN logs |-> logs[i].value], indices)
Given(logs) == Worth(logs, DOMAIN logs)
\* Faulty variant: a donor's last gift stands for all of them.
LastFrom(logs, donor) ==
    LET own == SelectSeq(logs, LAMBDA log : log.from = donor)
    IN  IF own = <<>> THEN 0 ELSE Last(own).value

\* donationsTo(): what each donor's logs add up to.
From(logs, donor) == Worth(logs, {i \in DOMAIN logs : logs[i].from = donor})
Givers(logs) == {log.from : log \in ToSet(logs)}

\* The first few of the donors in order of their totals; ties in any order.
Top(logs) ==
    {top \in SUBSET Givers(logs) :
        /\ Cardinality(top) = Min({Shown, Cardinality(Givers(logs))})
        /\ \A d \in top, e \in Givers(logs) \ top : From(logs, d) >= From(logs, e)}

-----------------------------------------------------------------------------
Donate(npc, donor, value) ==
    /\ SumOf([n \in Tokens |-> Len(gifts[n])], Tokens) < MaxGifts
    /\ gifts' = [gifts EXCEPT ![npc] = Append(@, [from |-> donor, value |-> value])]
    /\ UNCHANGED <<paidOut, tbaCache, view, viewed>>

PayOut(npc) ==
    /\ paidOut[npc] < Given(gifts[npc])
    /\ paidOut' = [paidOut EXCEPT ![npc] = @ + 1]
    /\ UNCHANGED <<gifts, tbaCache, view, viewed>>

\* GET /api/donations/:npcId; an NPC without a token is unknown at once.
RequestView(v, npc) ==
    /\ view[v].pc \in {"idle", "shown"}
    /\ viewed < MaxViews
    /\ viewed' = viewed + 1
    /\ view' = [view EXCEPT ![v] =
                  IF npc \in Strays THEN NoView
                  ELSE [pc |-> IF npc \in tbaCache THEN "reads" ELSE "account", npc |-> npc,
                        open |-> {"balance", "logs"}, balance |-> 0, logs |-> <<>>, donors |-> {},
                        asked |-> gifts[npc], out |-> paidOut[npc]]]
    /\ UNCHANGED <<gifts, paidOut, tbaCache>>

\* computeTba(): the registry's view of the account, kept for good.
Resolve(v) ==
    /\ view[v].pc = "account"
    /\ tbaCache' = tbaCache \cup {view[v].npc}
    /\ view' = [view EXCEPT ![v].pc = "reads"]
    /\ UNCHANGED <<gifts, paidOut, viewed>>

ReadBalance(v) ==
    /\ view[v].pc = "reads" /\ "balance" \in view[v].open
    /\ LET npc == view[v].npc
       IN  view' = [view EXCEPT ![v].open = @ \ {"balance"},
                                ![v].balance = Given(gifts[npc]) - paidOut[npc]]
    /\ UNCHANGED <<gifts, paidOut, tbaCache, viewed>>

ReadLogs(v) ==
    /\ view[v].pc = "reads" /\ "logs" \in view[v].open
    /\ view' = [view EXCEPT ![v].open = @ \ {"logs"}, ![v].logs = gifts[view[v].npc]]
    /\ UNCHANGED <<gifts, paidOut, tbaCache, viewed>>

Show(v) ==
    /\ view[v].pc = "reads" /\ view[v].open = {}
    /\ \E top \in Top(view[v].logs) :
         view' = [view EXCEPT ![v].pc = "shown", ![v].donors = top]
    /\ UNCHANGED <<gifts, paidOut, tbaCache, viewed>>

\* makeRpc(): an error of any read rejects the view, answered 502.
RpcFails(v) ==
    /\ view[v].pc \in {"account", "reads"}
    /\ view' = [view EXCEPT ![v] = NoView]
    /\ UNCHANGED <<gifts, paidOut, tbaCache, viewed>>

DonationsNext ==
    \/ \E npc \in Tokens :
        \/ \E donor \in Donors, value \in Gifts : Donate(npc, donor, value)
        \/ PayOut(npc)
    \/ \E v \in Viewers :
        \/ \E npc \in Tokens \cup Strays : RequestView(v, npc)
        \/ Resolve(v) \/ ReadBalance(v) \/ ReadLogs(v) \/ Show(v) \/ RpcFails(v)

-----------------------------------------------------------------------------
Total(logs, donor) ==
    SumOf([i \in DOMAIN logs |-> IF logs[i].from = donor THEN logs[i].value ELSE 0], DOMAIN logs)

\* A view is as recent as its request, whatever is given and spent while it is
\* put together: it counts every gift made before; its balance is one that what
\* was given and spent in between explains; and no donor it leaves out had
\* already given more than one that it names has given by now.
ViewsCurrent ==
    \A v \in Viewers : view[v].pc = "shown" =>
        LET now == gifts[view[v].npc]
        IN  /\ IsPrefix(view[v].asked, view[v].logs) /\ IsPrefix(view[v].logs, now)
            /\ Given(view[v].asked) - paidOut[view[v].npc] <= view[v].balance
            /\ view[v].balance <= Given(now) - view[v].out
            /\ \A d \in Givers(view[v].asked) \ view[v].donors :
                 \A e \in view[v].donors : Total(view[v].asked, d) <= Total(now, e)
=============================================================================
