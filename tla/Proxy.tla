------------------------------- MODULE Proxy --------------------------------
(***************************************************************************)
(* The inference proxy, src/proxy/server.mjs: the rate limit per address,  *)
(* calls that await their body and the upstream, and the ledger of what    *)
(* each NPC spent; the donations it serves views of are in Donations.  The *)
(* shared secret and prompts are left out; a price is the cost of an       *)
(* answer.                                                                 *)
(***************************************************************************)
EXTENDS Donations, Functions

CONSTANTS
    Ips,          \* client addresses
    Posts,        \* POSTs that may be handled at the same time
    Metered,      \* npcIds
    Prices,       \* costs of an answer
    RATE_PER_MIN, \* calls per window
    Minute,       \* 60 s, in ticks of the clock
    MaxClock,     \* bound: ticks
    MaxPosts,     \* bound: POSTs to arrive
    Nobody        \* no npcId

ASSUME ProxyAssumption ==
    /\ RATE_PER_MIN \in Nat \ {0} /\ Minute \in Nat \ {0}
    /\ Prices \subseteq Nat

VARIABLES
    clock,     \* Date.now()
    hits,      \* ip -> [n, windowStart], n = 0 for an address not seen
    spentOn,   \* ledger: npcId -> [gccSpent, calls]
    post,      \* handler -> [pc, npc]
    admitted   \* history: ip -> arrivals let through, as [at, nth]

proxyVars == <<clock, hits, spentOn, post, admitted>>

NoPost == [pc |-> "idle", npc |-> Nobody]

ProxyInit ==
    /\ clock = 0
    /\ hits = [ip \in Ips |-> [n |-> 0, windowStart |-> 0]]
    /\ spentOn = [npc \in Metered |-> [gccSpent |-> 0, calls |-> 0]]
    /\ post = [h \in Posts |-> NoPost]
    /\ admitted = [ip \in Ips |-> {}]

TimePasses ==
    /\ clock < MaxClock
    /\ clock' = clock + 1
    /\ UNCHANGED <<hits, spentOn, post, admitted>>

\* rateOk(): the window opens with its first call, and no sooner than a minute
\* after the one before it did.
NewWindow(ip) == hits[ip].n = 0 \/ clock - hits[ip].windowStart > Minute
\* Faulty variant: the count starts again on the minute of the clock.
HitOnTheMinute(ip) ==
    IF clock \div Minute # hits[ip].windowStart \div Minute \/ hits[ip].n = 0
    THEN [n |-> 1, windowStart |-> clock]
    ELSE [hits[ip] EXCEPT !.n = @ + 1]

Hit(ip) ==
    IF NewWindow(ip) THEN [n |-> 1, windowStart |-> clock]
    ELSE [hits[ip] EXCEPT !.n = @ + 1]

Arrivals == SumOf([ip \in Ips |-> Cardinality(admitted[ip])], Ips)

\* A POST arrives: it is let through or answered 429, which counts as a hit.
Admit(h, ip) ==
    /\ post[h].pc = "idle"
    /\ Arrivals < MaxPosts
    /\ hits[ip].n <= RATE_PER_MIN + 1   \* bound
    /\ hits' = [hits EXCEPT ![ip] = Hit(ip)]
    /\ IF Hit(ip).n <= RATE_PER_MIN
       THEN /\ post' = [post EXCEPT ![h].pc = "body"]
            /\ admitted' = [admitted EXCEPT ![ip] = @ \cup {[at |-> clock, nth |-> Arrivals]}]
       ELSE UNCHANGED <<post, admitted>>
    /\ UNCHANGED <<clock, spentOn>>

\* The body is read: it asks for an NPC, or for none, or is refused.
ReadBody(h) ==
    /\ post[h].pc = "body"
    /\ \/ \E npc \in Metered \cup {Nobody} :
            post' = [post EXCEPT ![h].pc = "upstream", ![h].npc = npc]
       \/ post' = [post EXCEPT ![h] = NoPost]
    /\ UNCHANGED <<clock, hits, spentOn, admitted>>

\* The upstream is unreachable or answers an error.
UpstreamFails(h) ==
    /\ post[h].pc = "upstream"
    /\ post' = [post EXCEPT ![h] = NoPost]
    /\ UNCHANGED <<clock, hits, spentOn, admitted>>

\* The upstream answers; its body is read and the ledger entry is read and
\* replaced without an await in between.
Meter(h, cost) ==
    /\ post[h].pc = "upstream"
    /\ LET npc == post[h].npc IN
       spentOn' = IF npc = Nobody THEN spentOn
                  ELSE [spentOn EXCEPT ![npc] =
                           [gccSpent |-> @.gccSpent + cost, calls |-> @.calls + 1]]
    /\ post' = [post EXCEPT ![h] = NoPost]
    /\ UNCHANGED <<clock, hits, admitted>>

ProxyNext ==
    \/ TimePasses
    \/ \E h \in Posts :
        \/ \E ip \in Ips : Admit(h, ip)
        \/ ReadBody(h) \/ UpstreamFails(h)
        \/ \E cost \in Prices : Meter(h, cost)

ProxySpec ==
    /\ ProxyInit /\ DonationsInit
    /\ [][ \/ ProxyNext /\ UNCHANGED donationVars
           \/ DonationsNext /\ UNCHANGED proxyVars ]_<<proxyVars, donationVars>>

(***************************************************************************)
(* Properties                                                              *)
(***************************************************************************)
\* The limiter lets fewer than twice its rate through in any minute, also in
\* one that straddles two of its windows (rateOk).
RateBounded ==
    \A ip \in Ips, start \in 0..MaxClock :
        Cardinality({a \in admitted[ip] : a.at \in start..(start + Minute)})
            < 2 * RATE_PER_MIN

\* What the proxy answers for: its rate, and its views of the donations.
ProxyKept == RateBounded /\ ViewsCurrent
=============================================================================
