--------------------------- MODULE SharedWorldLife ---------------------------
(***************************************************************************)
(* What SharedWorld keeps of a world from day to day: the registry, and an *)
(* NPC's purse, works, diary, log and thoughts (getScoped, createNpc,      *)
(* activate, backfillSilver, forgeArtifact, dream, logEvent,               *)
(* appendTrajectory, snapshotState, artifactsOf of shared-world.ts).  Each is one value under a key of its world, read and *)
(* later rewritten whole; the world "pal" first moves what an older        *)
(* version left under a bare key.  A call is split at its awaits; calls of *)
(* one host, or of two hosts on one store, overlap, and a host may die.    *)
(***************************************************************************)
EXTENDS Integers, FiniteSets, Sequences, FiniteSetsExt, SequencesExt

CONSTANTS
    Unset,       \* null: no value under the key
    Cost,        \* materialsSilver of a work
    Start,       \* the silver a new NPC is given, and one without a purse
    Pages,       \* how many entries a diary, a log and a stream of thoughts keep
    Hands,       \* slots for calls that overlap
    Ages         \* hosts and stores to explore, the values of age

VARIABLES
    age,        \* fixed: whether it is "pal", who forges and dreams, what is under
                \* bare keys, who has a record, which calls to make, whether they
                \* may fail; bound: how many calls
    cell,       \* cell -> the value under the world's key, or Unset
    recorded,   \* NPCs with a record (npcKey)
    engraved,   \* works with a record (artifactKey)
    insight,    \* beliefs the memory service holds of the resident
    hand,       \* slot -> the call that runs in it
    asked,      \* calls made so far
    told,       \* history: cell -> its value, had each update been one step
    crossed,    \* history: cells whose updates crossed
    charged     \* history: works that were paid for

lifeVars == <<age, cell, recorded, engraved, insight, hand, asked, told, crossed, charged>>

Lists == {"npcs", "works", "diary", "log", "thoughts"}
Cells == Lists \cup {"purse"}
AtRest == [kind |-> "none"]

Do(what) == [do |-> what, of |-> "none"]
Read(c) == [do |-> "read", of |-> c]
Put(c) == [do |-> "put", of |-> c]

\* The awaits of each call, in order; logEvent() is awaited by dream().
Awaits ==
    [create |-> <<Do("record"), Do("open"), Read("npcs"), Put("npcs")>>,
     activate |-> <<Do("record"), Read("npcs"), Put("npcs")>>,
     forge |-> <<Read("purse"), Read("purse"), Put("purse"), Do("engrave"), Read("works"), Put("works")>>,
     backfill |-> <<Read("purse"), Put("purse")>>,
     observe |-> <<Read("thoughts"), Put("thoughts")>>,
     dream |-> <<Do("reflect"), Do("compose"), Read("log"), Put("log"), Read("diary"), Put("diary")>>,
     snapshot |-> <<Read("npcs"), Do("each")>>,
     show |-> <<Read("works"), Do("each")>>]

\* What the lists of a world hold: what calls are about, and what is under bare keys.
Entries ==
    UNION {{o.arg : o \in a.offers}
           \cup UNION {IF a.left[c] = Unset THEN {} ELSE ToSet(a.left[c]) : c \in Lists} : a \in Ages}
ValuesOf(c) == IF c = "purse" THEN Int ELSE Seq(Entries)

\* An older version left NPCs with a record, and no works.
ASSUME LifeAssumption ==
    /\ Pages \in Nat \ {0} /\ {Cost, Start} \subseteq Nat
    /\ \A c \in Cells : Unset \notin ValuesOf(c)
    /\ \A a \in Ages :
        /\ \A c \in Cells : a.left[c] \in ValuesOf(c) \cup {Unset}
        /\ a.left.npcs # Unset => ToSet(a.left.npcs) \subseteq a.records
        /\ a.left.works \in {<<>>, Unset}
        /\ \A o \in a.offers : o.kind \in DOMAIN Awaits

\* What a read of the cell would return: a bare value counts in "pal" only.
Left(c) == IF age.pal THEN age.left[c] ELSE Unset
Or(v, c) == IF v # Unset THEN v ELSE IF c = "purse" THEN 0 ELSE <<>>
Holds(c) == IF cell[c] # Unset THEN Or(cell[c], c) ELSE Or(Left(c), c)

LifeInit ==
    /\ age \in Ages
    /\ cell = [c \in Cells |-> Unset]
    /\ recorded = age.records /\ engraved = {} /\ insight = 0
    /\ hand = [h \in Hands |-> AtRest] /\ asked = 0
    /\ told = [c \in Cells |-> Holds(c)]
    /\ crossed = {} /\ charged = {}

-----------------------------------------------------------------------------
Step(h) == Awaits[hand[h].kind][hand[h].step]
IsAt(h, what) == hand[h] # AtRest /\ Step(h).do = what
Returned(h) == [hand EXCEPT ![h] = AtRest]
Advanced(h, held) ==
    IF hand[h].step = Len(Awaits[hand[h].kind]) THEN Returned(h)
    ELSE [hand EXCEPT ![h].step = @ + 1, ![h].moving = FALSE, ![h].held = held]

\* A call begins; forging needs an NPC.  (Only the resident forges and dreams.)
Begin(h, kind, arg) ==
    /\ hand[h] = AtRest /\ asked < age.asked
    /\ \A g \in Hands : g < h => hand[g] # AtRest
    /\ kind = "forge" => age.resident \in recorded
    /\ asked' = asked + 1
    /\ hand' = [hand EXCEPT ![h] = [kind |-> kind, arg |-> arg, step |-> 1, moving |-> FALSE,
                                    held |-> <<>>, owed |-> {}, got |-> {}]]
    /\ UNCHANGED <<age, cell, recorded, engraved, insight, told, crossed, charged>>

\* What a read gives its call; backfillSilver() tells no purse from an empty one.
Found(h, c) == IF hand[h].kind = "backfill" THEN cell[c] ELSE Or(cell[c], c)

\* An implementation that takes the bare value whenever there is one.
LookBareFirst(h, c, v) ==
    IF v # Unset THEN [hand EXCEPT ![h].moving = TRUE, ![h].held = v]
    ELSE Advanced(h, Found(h, c))

\* getScoped(): the world's key first; in "pal", and there only, a bare value is
\* moved, by a write of its own, and returned.
Look(h, c, v) ==
    IF cell[c] = Unset /\ v # Unset THEN [hand EXCEPT ![h].moving = TRUE, ![h].held = v]
    ELSE Advanced(h, Found(h, c))

Poor(h) == hand[h].kind = "forge" /\ hand[h].step = 2 /\ hand[h].held < Cost
Listing(h) == hand[h].kind \in {"snapshot", "show"}

ReadCell(h) ==
    /\ IsAt(h, "read") /\ ~hand[h].moving /\ ~Poor(h)
    /\ LET c == Step(h).of
           next == Look(h, c, Left(c))
       IN  hand' = IF Listing(h) THEN [next EXCEPT ![h].owed = ToSet(told[c])] ELSE next
    /\ UNCHANGED <<age, cell, recorded, engraved, insight, asked, told, crossed, charged>>

MoveBare(h) ==
    /\ IsAt(h, "read") /\ hand[h].moving
    /\ cell' = [cell EXCEPT ![Step(h).of] = hand[h].held]
    /\ hand' = Advanced(h, hand[h].held)
    /\ UNCHANGED <<age, recorded, engraved, insight, asked, told, crossed, charged>>

\* forgeArtifact() of an NPC without the silver.
TooPoor(h) ==
    /\ IsAt(h, "read") /\ Poor(h)
    /\ hand' = Returned(h)
    /\ UNCHANGED <<age, cell, recorded, engraved, insight, asked, told, crossed, charged>>

-----------------------------------------------------------------------------
\* What a call writes into the value it holds: one entry of a set or of a
\* capped list, or the purse less the price, never below 0.
Once(list, x) == IF x \in ToSet(list) THEN list ELSE Append(list, x)
Latest(list) == SubSeq(list, Max({1, Len(list) - Pages + 1}), Len(list))
Written(c, v, x) ==
    CASE c \in {"npcs", "works"} -> Once(v, x)
      [] c \in {"diary", "log", "thoughts"} -> Latest(Append(v, x))
      [] c = "purse" -> Max({0, v - Cost})
TrulyWritten(c, v, x) == IF c = "purse" THEN v - Cost ELSE Written(c, v, x)

\* Calls that will write, or have been let in by, a value of c that they hold.
Holding(c) ==
    {h \in Hands : hand[h] # AtRest /\
        \/ hand[h].moving /\ Step(h).of = c
        \/ Step(h) = Put(c) /\ (hand[h].kind = "backfill" => hand[h].held = Unset)
        \/ c = "purse" /\ hand[h].kind = "forge" /\ hand[h].step = 2}
Crossing(h, c) == crossed \cup (IF Holding(c) \ {h} = {} THEN {} ELSE {c})

PutCell(h) ==
    /\ IsAt(h, "put") /\ hand[h].kind # "backfill"
    /\ LET c == Step(h).of
       IN  /\ cell' = [cell EXCEPT ![c] = Written(c, hand[h].held, hand[h].arg)]
           /\ told' = [told EXCEPT ![c] = TrulyWritten(c, @, hand[h].arg)]
           /\ crossed' = Crossing(h, c)
           /\ charged' = IF c = "purse" THEN charged \cup {hand[h].arg} ELSE charged
    /\ hand' = Advanced(h, <<>>)
    /\ UNCHANGED <<age, recorded, engraved, insight, asked>>

\* createNpc() and activate(): the record and the balance come before the list.
Record(h) ==
    /\ IsAt(h, "record")
    /\ recorded' = recorded \cup {hand[h].arg}
    /\ hand' = Advanced(h, <<>>)
    /\ UNCHANGED <<age, cell, engraved, insight, asked, told, crossed, charged>>

\* backfillSilver(): a purse only where there was none, not where it is empty.
Backfill(h) ==
    /\ IsAt(h, "put") /\ hand[h].kind = "backfill"
    /\ IF hand[h].held = Unset
       THEN /\ cell' = [cell EXCEPT !["purse"] = Start]
            /\ told' = [told EXCEPT !["purse"] = IF cell["purse"] = Unset THEN Start ELSE @]
            /\ crossed' = Crossing(h, "purse")
       ELSE UNCHANGED <<cell, told, crossed>>
    /\ hand' = Advanced(h, <<>>)
    /\ UNCHANGED <<age, recorded, engraved, insight, asked, charged>>

\* createNpc(): a purse of its own, or the resident's anew.
OpenPurse(h) ==
    /\ IsAt(h, "open")
    /\ IF hand[h].arg = age.resident
       THEN /\ cell' = [cell EXCEPT !["purse"] = Start]
            /\ told' = [told EXCEPT !["purse"] = Start]
            /\ crossed' = Crossing(h, "purse")
       ELSE UNCHANGED <<cell, told, crossed>>
    /\ hand' = Advanced(h, <<>>)
    /\ UNCHANGED <<age, recorded, engraved, insight, asked, charged>>

Engrave(h) ==
    /\ IsAt(h, "engrave")
    /\ engraved' = engraved \cup {hand[h].arg}
    /\ hand' = Advanced(h, <<>>)
    /\ UNCHANGED <<age, cell, recorded, insight, asked, told, crossed, charged>>

\* dream(): beliefs form, or the service fails and the standing ones serve.
FormBelief(h, formed) ==
    /\ IsAt(h, "reflect")
    /\ insight' = Min({1, insight + formed})  \* bound: one belief
    /\ hand' = Advanced(h, <<>>)
    /\ UNCHANGED <<age, cell, recorded, engraved, asked, told, crossed, charged>>

\* The page needs an NPC, a belief to write of, and a model that answers.
Compose(h, answers) ==
    /\ IsAt(h, "compose")
    /\ hand' = IF age.resident \in recorded /\ insight > 0 /\ answers THEN Advanced(h, <<>>) ELSE Returned(h)
    /\ UNCHANGED <<age, cell, recorded, engraved, insight, asked, told, crossed, charged>>

\* logEvent(), appendTrajectory() and dream() swallow what the store throws: a
\* line that is lost takes no page with it.
LineSwallowed(h) ==
    /\ hand[h] # AtRest /\ age.flaky /\ Step(h).of = "log"
    /\ hand' = [hand EXCEPT ![h].step = 5, ![h].moving = FALSE, ![h].held = <<>>]
    /\ UNCHANGED <<age, cell, recorded, engraved, insight, asked, told, crossed, charged>>

PageSwallowed(h) ==
    /\ hand[h] # AtRest /\ age.flaky /\ Step(h).of \in {"diary", "thoughts"}
    /\ hand' = Returned(h)
    /\ UNCHANGED <<age, cell, recorded, engraved, insight, asked, told, crossed, charged>>

\* snapshotState() and artifactsOf() list the entries that have a record, one
\* after the other.
TakesNext(h, known) ==
    /\ hand' = IF hand[h].held = <<>> THEN Returned(h)
               ELSE [hand EXCEPT ![h].held = Tail(@),
                                 ![h].got = @ \cup ({Head(hand[h].held)} \cap known)]
    /\ UNCHANGED <<age, cell, recorded, engraved, insight, asked, told, crossed, charged>>
SnapshotLists(h) == IsAt(h, "each") /\ hand[h].kind = "snapshot" /\ TakesNext(h, recorded)
ArtifactsList(h) == IsAt(h, "each") /\ hand[h].kind = "show" /\ TakesNext(h, engraved)

\* The host dies: its calls end where they are, the store stays.
HostDies ==
    /\ age.flaky /\ \E h \in Hands : hand[h] # AtRest
    /\ hand' = [h \in Hands |-> AtRest]
    /\ UNCHANGED <<age, cell, recorded, engraved, insight, asked, told, crossed, charged>>

Continue(h) ==
    \/ ReadCell(h) \/ MoveBare(h) \/ TooPoor(h) \/ PutCell(h) \/ Backfill(h)
    \/ Record(h) \/ OpenPurse(h) \/ Engrave(h) \/ LineSwallowed(h) \/ PageSwallowed(h)
    \/ SnapshotLists(h) \/ ArtifactsList(h)
    \/ \E formed \in 0..1 : FormBelief(h, formed)
    \/ \E answers \in BOOLEAN : Compose(h, answers)

LifeNext ==
    \/ HostDies
    \/ \E h \in Hands :
        \/ Continue(h)
        \/ \E o \in age.offers : Begin(h, o.kind, o.arg)

LifeSpec == LifeInit /\ [][LifeNext]_lifeVars

-----------------------------------------------------------------------------
\* A key whose updates did not cross holds what the calls wrote, one after the
\* other, on top of what "pal" had left under the bare key: moving it, a reader
\* that moves it, a failed night and a host that dies lose and repeat nothing.
\* (Updates that cross do lose entries: each call rewrites the list it read.)
LedgersKept == \A c \in Cells \ crossed : Holds(c) = told[c]

\* In whatever order the calls overlap and wherever they stop: what is listed
\* has a record, and a work that has one was paid for.
RecordsFirst ==
    /\ ToSet(Holds("npcs")) \subseteq recorded
    /\ ToSet(Holds("works")) \subseteq engraved
    /\ engraved \subseteq charged

\* A listing that has read every entry names all that was listed when it began.
ListingsComplete ==
    \A h \in Hands : hand[h] # AtRest /\ IsAt(h, "each") /\ hand[h].held = <<>>
        /\ (IF hand[h].kind = "snapshot" THEN "npcs" ELSE "works") \notin crossed
        => hand[h].owed = hand[h].got

\* What a world keeps survives its calls: the three above.
RegistryKept == LedgersKept /\ RecordsFirst /\ ListingsComplete
=============================================================================
