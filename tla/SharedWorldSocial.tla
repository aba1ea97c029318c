------------------------- MODULE SharedWorldSocial -------------------------
(***************************************************************************)
(* How the NPCs of packages/gamekit/src/shared-world.ts get to know each   *)
(* other: talk() and what it leaves behind (affinity, the index of         *)
(* relationships, directives, overhearing and interjections), and what     *)
(* pitch(), gossip() and rememberTheft() write into the memories that      *)
(* discernment later decides by.                                           *)
(*                                                                         *)
(* Every call is a job that stops at each await on the store, the memory   *)
(* or the model.  overhear() runs in the background of a talk that has     *)
(* returned, so jobs overlap even on a host that awaits each of its calls. *)
(* Words, tags, times, episodes and the system log are left out.           *)
(***************************************************************************)
EXTENDS Integers, FiniteSetsExt, SequencesExt

CONSTANTS
    Npcs,            \* the NPCs, in the order of their ids (a sequence)
    Visitors,        \* players and pedlars without a record
    OwnerOf,         \* [NPC -> soul], the owner in its record
    Purse,           \* [NPC -> GCC at the start]
    Starving,        \* starvingBelowGcc
    Rich,            \* balance from which the tier is the rich one
    ThinkCost,       \* GCC a turn costs
    Replies,         \* what the oracle may answer: [delta, goto]
    CommandAffinity, \* commandAffinity
    MaxListeners,    \* overhear.maxListeners
    InterjectMax,    \* overhear.interjectMaxPerTalk
    Hosts,           \* kinds of hosts: [rooms, overhear, lanes, apart, flaky,
                     \* hearsay, offers, calls, agents, mints]; rooms: of each NPC; flaky: the memory service may be down;
                     \* hearsay: discernmentTheta <= 0.5, so a relayed belief counts;
                     \* agents: NPCs minted before; mints: more are, while it runs
    Nowhere

Folk == ToSet(Npcs)
Pairs == (Folk \cup Visitors) \X (Folk \cup Visitors)

ASSUME SocialAssumption ==
    /\ Starving <= Rich /\ InterjectMax \in Nat /\ MaxListeners \in Nat
    /\ Npcs \in Seq(Folk) /\ DOMAIN Purse = Folk /\ DOMAIN OwnerOf = Folk
    /\ \A host \in Hosts :
        /\ host.lanes \in Nat /\ host.agents \subseteq Folk
        /\ \A offer \in host.offers :
            /\ offer.kind \in {"talk", "adjust", "theft", "pitch", "gossip"}
            /\ <<offer.npc, offer.other>> \in Folk \X (Folk \cup Visitors)

VARIABLES
    shost,      \* the host of this behaviour
    minted,     \* NPCs with a tokenId
    rel,        \* affinity stored per pair
    relIndex,   \* REL_INDEX: the pairs that snapshotState() enumerates
    sgcc,       \* GCC per NPC
    whereabouts,\* room per NPC
    inbox,      \* gotoInbox
    beliefs,    \* wary beliefs in each NPC's corpora: [about, self, at]
    jobs,       \* every call and background task so far, in order of their start
    felt,       \* history: the sum of the deltas each pair was given
    losses      \* history: how often an NPC fell for a swindler

socialVars == <<shost, minted, rel, relIndex, sgcc, whereabouts, inbox, beliefs, jobs, felt, losses>>

SocialInit ==
    /\ shost \in Hosts
    /\ minted = shost.agents
    /\ rel = [p \in Pairs |-> 0]
    /\ relIndex = {}
    /\ sgcc = Purse
    /\ whereabouts = shost.rooms
    /\ inbox = [n \in Folk |-> <<>>]
    /\ beliefs = [n \in Folk |-> {}]
    /\ jobs = <<>>
    /\ felt = [p \in Pairs |-> 0]
    /\ losses = [p \in Pairs |-> 0]

FirstStep == [talk |-> "purse", adjust |-> "get", theft |-> "get", pitch |-> "purse",
              gossip |-> "learn", overhear |-> "gate"]

Job(kind, npc, other, delta) ==
    [kind |-> kind, pc |-> FirstStep[kind], npc |-> npc, other |-> other, delta |-> delta,
     hushed |-> FALSE, root |-> Len(jobs) + 1, thought |-> FALSE,
     seen |-> 0, before |-> 0, aff |-> 0, goto |-> Nowhere, index |-> {}, paid |-> 0,
     corpus |-> "world"]

Pair(j) == <<jobs[j].npc, jobs[j].other>>
At(j, pc) == jobs[j].pc = pc
To(j, pc) == jobs' = [jobs EXCEPT ![j].pc = pc]

Running == {j \in DOMAIN jobs : jobs[j].pc \notin {"done", "failed"}}
HostCalls == {j \in DOMAIN jobs : jobs[j].root = j}

\* A call starts: of the host, of a fair or of an action turn.
Launch(kind, npc, other, delta) ==
    /\ jobs' = Append(jobs, Job(kind, npc, other, delta))
    /\ UNCHANGED <<shost, minted, whereabouts, rel, relIndex, sgcc, inbox, beliefs, felt, losses>>

\* The host calls when it has a lane free; apart: never twice at once on a pair.
Call(offer) ==
    /\ offer \in shost.offers
    /\ Cardinality(HostCalls) < shost.calls
    /\ Cardinality(HostCalls \cap Running) < shost.lanes
    /\ shost.apart => \A j \in Running : Pair(j) # <<offer.npc, offer.other>>
    /\ Launch(offer.kind, offer.npc, offer.other, offer.delta)

ReadPurseOf(j) ==
    /\ At(j, "purse")
    /\ jobs' = [jobs EXCEPT ![j].seen = sgcc[jobs[j].npc],
                            ![j].pc = IF jobs[j].kind = "talk" THEN "before" ELSE "discern"]
    /\ UNCHANGED <<shost, minted, whereabouts, rel, relIndex, sgcc, inbox, beliefs, felt, losses>>

(***************************************************************************)
(* talk().                                                                 *)
(***************************************************************************)
ReadBefore(j) ==
    /\ At(j, "before")
    /\ jobs' = [jobs EXCEPT ![j].before = rel[Pair(j)], ![j].pc = "think"]
    /\ UNCHANGED <<shost, minted, whereabouts, rel, relIndex, sgcc, inbox, beliefs, felt, losses>>

\* A starving NPC speaks a scripted line: no inference, no effects, no cost.
Think(j) ==
    /\ At(j, "think")
    /\ IF jobs[j].seen < Starving
       THEN To(j, "spoken")
       ELSE \E r \in Replies :
                jobs' = [jobs EXCEPT ![j].thought = TRUE, ![j].delta = r.delta, ![j].goto = r.goto,
                                     ![j].pc = IF r.delta = 0 THEN "burn" ELSE "get"]
    /\ UNCHANGED <<shost, minted, whereabouts, rel, relIndex, sgcc, inbox, beliefs, felt, losses>>

\* RelationshipMemory.applyDelta(): get, then set.
RelGet(j) ==
    /\ At(j, "get")
    /\ jobs' = [jobs EXCEPT ![j].aff = rel[Pair(j)], ![j].pc = "set"]
    /\ UNCHANGED <<shost, minted, whereabouts, rel, relIndex, sgcc, inbox, beliefs, felt, losses>>

\* Faulty variant: the affinity is added to the one read when the turn began.
RelSetFromTurn(j) ==
    /\ At(j, "set")
    /\ rel' = [rel EXCEPT ![Pair(j)] = jobs[j].before + jobs[j].delta]
    /\ felt' = [felt EXCEPT ![Pair(j)] = @ + jobs[j].delta]
    /\ To(j, "readIndex")
    /\ UNCHANGED <<shost, minted, whereabouts, relIndex, sgcc, inbox, beliefs, losses>>

RelSet(j) ==
    /\ At(j, "set")
    /\ rel' = [rel EXCEPT ![Pair(j)] = jobs[j].aff + jobs[j].delta]
    /\ felt' = [felt EXCEPT ![Pair(j)] = @ + jobs[j].delta]
    /\ To(j, "readIndex")
    /\ UNCHANGED <<shost, minted, whereabouts, relIndex, sgcc, inbox, beliefs, losses>>

\* addToRelIndex(): the list is read, and written whole if the pair is new.
ReadIndex(j) ==
    /\ At(j, "readIndex")
    /\ jobs' = [jobs EXCEPT ![j].index = relIndex, ![j].pc = "writeIndex"]
    /\ UNCHANGED <<shost, minted, whereabouts, rel, relIndex, sgcc, inbox, beliefs, felt, losses>>

AfterIndex == [talk |-> "burn", adjust |-> "done", theft |-> "learn"]

\* Faulty variant: the pair is indexed only when it was indifferent before.
WriteIndexOnFirst(j) ==
    /\ At(j, "writeIndex")
    /\ relIndex' = IF jobs[j].before # 0 THEN jobs[j].index \cup {Pair(j)} ELSE relIndex
    /\ To(j, AfterIndex[jobs[j].kind])
    /\ UNCHANGED <<shost, minted, whereabouts, rel, sgcc, inbox, beliefs, felt, losses>>

WriteIndex(j) ==
    /\ At(j, "writeIndex")
    /\ relIndex' = IF Pair(j) \in jobs[j].index THEN relIndex ELSE jobs[j].index \cup {Pair(j)}
    /\ To(j, AfterIndex[jobs[j].kind])
    /\ UNCHANGED <<shost, minted, whereabouts, rel, sgcc, inbox, beliefs, felt, losses>>

\* pushGoto(): a repeated directive is dropped.
PushGoto(queue, place) == IF queue # <<>> /\ Last(queue) = place THEN queue ELSE Append(queue, place)

\* The owner commands; others must have persuaded the NPC by the end of the turn.
Obeys(j) ==
    \/ jobs[j].other = OwnerOf[jobs[j].npc]
    \/ jobs[j].before + jobs[j].delta >= CommandAffinity

Burn(j) ==
    /\ At(j, "burn")
    /\ sgcc' = [sgcc EXCEPT ![jobs[j].npc] = Max({0, jobs[j].seen - ThinkCost})]
    /\ inbox' = IF jobs[j].goto = Nowhere \/ ~Obeys(j) THEN inbox
                ELSE [inbox EXCEPT ![jobs[j].npc] = PushGoto(@, jobs[j].goto)]
    /\ To(j, "spoken")
    /\ UNCHANGED <<shost, minted, whereabouts, rel, relIndex, beliefs, felt, losses>>

\* talk() returns; unless it is an interjection, overhear() goes on behind it.
Spoken(j) ==
    /\ At(j, "spoken")
    /\ LET ended == [jobs EXCEPT ![j].pc = "done"]
       IN  jobs' = IF shost.overhear /\ ~jobs[j].hushed
                   THEN Append(ended, [Job("overhear", jobs[j].npc, jobs[j].other, 0)
                                           EXCEPT !.root = jobs[j].root])
                   ELSE ended
    /\ UNCHANGED <<shost, minted, whereabouts, rel, relIndex, sgcc, inbox, beliefs, felt, losses>>

(***************************************************************************)
(* overhear(): who listens, and who of them may interject.                 *)
(***************************************************************************)
Rank(o) == CHOOSE i \in DOMAIN Npcs : Npcs[i] = o
Ahead(S, o) == {p \in S : Rank(p) < Rank(o)}
FirstOf(S, n) == {o \in S : Cardinality(Ahead(S, o)) < n}
InOrder(S) == [i \in 1..Cardinality(S) |-> CHOOSE o \in S : Cardinality(Ahead(S, o)) = i - 1]

Listeners(j) ==
    FirstOf({o \in Folk \ ToSet(Pair(j)) : whereabouts[o] = whereabouts[jobs[j].npc]}, MaxListeners)

Bold(j) == InOrder(FirstOf({o \in Listeners(j) : sgcc[o] >= Rich}, InterjectMax))

Interjection(o, j) ==
    [Job("talk", o, jobs[j].npc, 0) EXCEPT !.hushed = TRUE, !.root = jobs[j].root]

\* Faulty variant: an interjection may be overheard in turn.
OverhearAloud(j) ==
    /\ At(j, "gate")
    /\ jobs' = [jobs EXCEPT ![j].pc = "done"]
               \o [i \in DOMAIN Bold(j) |-> [Interjection(Bold(j)[i], j) EXCEPT !.hushed = FALSE]]
    /\ UNCHANGED <<shost, minted, whereabouts, rel, relIndex, sgcc, inbox, beliefs, felt, losses>>

Overhear(j) ==
    /\ At(j, "gate")
    /\ jobs' = [jobs EXCEPT ![j].pc = "done"]
               \o [i \in DOMAIN Bold(j) |-> Interjection(Bold(j)[i], j)]
    /\ UNCHANGED <<shost, minted, whereabouts, rel, relIndex, sgcc, inbox, beliefs, felt, losses>>

(***************************************************************************)
(* pitch(), gossip(), rememberTheft(): beliefs.                            *)
(***************************************************************************)
\* memoryCorpus(): what an NPC learns goes to the memory of this world, or of
\* the agent once it is minted; nothing is carried from the one to the other.
Corpus(npc) == IF npc \in minted THEN "agent" ELSE "world"

Mint(npc) ==
    /\ shost.mints /\ npc \notin minted
    /\ minted' = minted \cup {npc}
    /\ UNCHANGED <<shost, whereabouts, rel, relIndex, sgcc, inbox, beliefs, jobs, felt, losses>>

\* discernment(): a belief of the NPC's own passes the gate, a relayed one
\* only when the threshold is low.
Discerns(npc, about) ==
    \E b \in beliefs[npc] : b.about = about /\ b.at = Corpus(npc) /\ (b.self \/ shost.hearsay)

\* pitch() asks for the corpus once, before it decides.
Discern(j) ==
    /\ At(j, "discern")
    /\ jobs' = [jobs EXCEPT ![j].corpus = Corpus(jobs[j].npc),
                            ![j].pc = IF Discerns(jobs[j].npc, jobs[j].other) THEN "done" ELSE "pay"]
    /\ UNCHANGED <<shost, minted, whereabouts, rel, relIndex, sgcc, inbox, beliefs, felt, losses>>

\* A swindle takes what was asked, as far as it is there.
Pay(j) ==
    /\ At(j, "pay")
    /\ LET moved == Min({jobs[j].delta, jobs[j].seen})
       IN  /\ sgcc' = [sgcc EXCEPT ![jobs[j].npc] = Max({0, jobs[j].seen - moved})]
           /\ jobs' = [jobs EXCEPT ![j].paid = moved, ![j].pc = "learn"]
    /\ losses' = [losses EXCEPT ![Pair(j)] = @ + 1]
    /\ UNCHANGED <<shost, minted, whereabouts, rel, relIndex, inbox, beliefs, felt>>

\* Faulty variant: what was suffered is asserted by the one who did it.
LearnByHearsay(j) ==
    /\ At(j, "learn")
    /\ beliefs' = [beliefs EXCEPT ![jobs[j].npc] = @ \cup {[about |-> jobs[j].other, self |-> FALSE,
                                                             at |-> Corpus(jobs[j].npc)]}]
    /\ To(j, "done")
    /\ UNCHANGED <<shost, minted, whereabouts, rel, relIndex, sgcc, inbox, felt, losses>>

\* The call returns when the belief is stored.
Learn(j) ==
    /\ At(j, "learn")
    /\ beliefs' = [beliefs EXCEPT ![jobs[j].npc] =
                      @ \cup {[about |-> jobs[j].other, self |-> jobs[j].kind # "gossip",
                               at |-> IF jobs[j].kind = "pitch" THEN jobs[j].corpus
                                      ELSE Corpus(jobs[j].npc)]}]
    /\ To(j, "done")
    /\ UNCHANGED <<shost, minted, whereabouts, rel, relIndex, sgcc, inbox, felt, losses>>

\* The memory service is down: pitch and theft go on, gossip() answers false.
LearnFails(j) ==
    /\ At(j, "learn") /\ shost.flaky
    /\ To(j, IF jobs[j].kind = "gossip" THEN "failed" ELSE "done")
    /\ UNCHANGED <<shost, minted, whereabouts, rel, relIndex, sgcc, inbox, beliefs, felt, losses>>

\* takeGoto(): the executor drains the inbox.
TakeGoto(n) ==
    /\ inbox[n] # <<>>
    /\ inbox' = [inbox EXCEPT ![n] = <<>>]
    /\ UNCHANGED <<shost, minted, whereabouts, rel, relIndex, sgcc, beliefs, jobs, felt, losses>>

\* place(), on a record nobody else is writing.
Place(n, room) ==
    /\ whereabouts' = [whereabouts EXCEPT ![n] = room]
    /\ UNCHANGED <<shost, minted, rel, relIndex, sgcc, inbox, beliefs, jobs, felt, losses>>

Proceed(j) ==
    \/ ReadPurseOf(j) \/ ReadBefore(j) \/ Think(j) \/ RelGet(j) \/ RelSet(j)
    \/ ReadIndex(j) \/ WriteIndex(j) \/ Burn(j) \/ Spoken(j) \/ Overhear(j)
    \/ Discern(j) \/ Pay(j) \/ Learn(j) \/ LearnFails(j)

SocialNext ==
    \/ \E offer \in shost.offers : Call(offer)
    \/ \E j \in DOMAIN jobs : Proceed(j)
    \/ \E n \in Folk : TakeGoto(n) \/ Mint(n)

SocialSpec == SocialInit /\ [][SocialNext]_socialVars

(***************************************************************************)
(* Properties.                                                             *)
(***************************************************************************)
\* One spoken line sets off at most InterjectMax inferences beside its own,
\* however many rich NPCs hear it and hear each other (overhear's cost cap).
OneInterjection ==
    \A r \in HostCalls :
        Cardinality({j \in DOMAIN jobs : jobs[j].root = r /\ jobs[j].thought}) <= 1 + InterjectMax

\* No delta is lost while no two calls run on one pair, even when calls on
\* other pairs overlap (applyDelta rereads before it writes); and on a host
\* that awaits its calls snapshotState() finds every relationship at rest: the
\* index misses none.  Nobody overhears here: see the README for what does.
RelationshipsKept ==
    ~shost.overhear =>
        /\ (shost.apart \/ shost.lanes = 1) => rel = felt
        /\ shost.lanes = 1 /\ Running = {} => \A p \in Pairs : rel[p] # 0 => p \in relIndex

\* What an NPC has suffered or, where hearsay counts, was told of somebody
\* keeps it from falling for them, whatever else happened (pitch, gossip,
\* rememberTheft), on a host that awaits its calls and whose memory service
\* answers.  An NPC that is minted meanwhile forgets, and learns once more.
Forewarned(p) ==
    \E j \in HostCalls \ Running :
        /\ Pair(j) = p
        /\ jobs[j].kind = "theft" \/ (jobs[j].kind = "gossip" /\ shost.hearsay)

BurnedOnce ==
    [][ \A p \in Pairs : losses'[p] # losses[p] /\ shost.lanes = 1 /\ ~shost.flaky =>
            IF p[1] \in minted \ shost.agents THEN losses[p] <= 1
            ELSE losses[p] = 0 /\ ~Forewarned(p) ]_socialVars
=============================================================================
