-------------------------- MODULE TieredStoreProofs --------------------------
(***************************************************************************)
(* Theorems about TieredStore, for any keys, callers, retries and faults   *)
(* of the archive, restarts and forgotten keys.                            *)
(***************************************************************************)
EXTENDS TieredStore, SumTheorems, SequenceTheorems

(***************************************************************************)
(* Chains of nodes, oldest first: for any sequence of nodes that link back *)
(* to earlier ones of an older or equal value.                             *)
(***************************************************************************)
Linked(ns) ==
    /\ ns \in Seq([v: Nat, p: Nat])
    /\ \A c \in 1..Len(ns) :
        /\ ns[c].p < c
        /\ ns[c].p # 0 => ns[ns[c].p].v <= ns[c].v

LEMMA LinkedNodes ==
    ASSUME NEW ns, Linked(ns)
    PROVE  /\ Len(ns) \in Nat
           /\ \A c \in 1..Len(ns) :
               /\ ns[c] \in [v: Nat, p: Nat]
               /\ ns[c].v \in Nat /\ ns[c].p \in 0..(c - 1) /\ ns[c].p \in 0..Len(ns)
               /\ ns[c].p # 0 => ns[ns[c].p].v <= ns[c].v
<1>1. ns \in Seq([v: Nat, p: Nat])
  BY DEF Linked
<1>2. Len(ns) \in Nat
  BY <1>1, LenProperties
<1>3. \A c \in 1..Len(ns) : ns[c] \in [v: Nat, p: Nat]
  BY <1>1, ElementOfSeq
<1>4. \A c \in 1..Len(ns) : ns[c].v \in Nat /\ ns[c].p \in Nat
  BY <1>3
<1>5. QED
  BY <1>2, <1>3, <1>4 DEF Linked

ChainsOf(ns) ==
    CHOOSE f : f = [c \in 0..Len(ns) |->
                       IF c = 0 THEN <<>> ELSE Append(f[ns[c].p], c)]

\* A set of naturals without a least element is empty.
LEMMA LeastNatural ==
    ASSUME NEW T \in SUBSET Nat, T # {}
    PROVE  \E m \in T : \A k \in T : m <= k
<1>1. PICK n \in T : TRUE
  OBVIOUS
<1> DEFINE U == T \cap 0..n
           Least == {V \in SUBSET (0..n) : V = {} \/ \E m \in V : \A k \in V : m <= k}
<1>2. IsFiniteSet(U)
  <2>1. IsFiniteSet(0..n)
    BY <1>1, FS_Interval
  <2>2. QED
    BY <2>1, FS_Subset
<1>3. ASSUME NEW V \in SUBSET U, NEW x \in U \ V, V \in Least
      PROVE  V \cup {x} \in Least
  <2>1. CASE V = {}
    BY <1>1, <2>1
  <2>2. CASE V # {}
    <3>1. PICK m \in V : \A k \in V : m <= k
      BY <1>3, <2>2
    <3>2. x \in Nat /\ m \in Nat /\ \A k \in V : k \in Nat
      BY <1>3, <3>1
    <3>3. \E l \in V \cup {x} : \A k \in V \cup {x} : l <= k
      <4>1. CASE x <= m
        BY <3>1, <3>2, <4>1
      <4>2. CASE ~ (x <= m)
        BY <3>1, <3>2, <4>2
      <4>3. QED
        BY <4>1, <4>2
    <3>4. QED
      BY <1>3, <3>3
  <2>3. QED
    BY <2>1, <2>2
<1>4. {} \in Least
  OBVIOUS
<1>5. U \in Least
  <2> HIDE DEF Least
  <2>1. QED
    BY <1>2, <1>3, <1>4, SubsetInduction
<1>6. PICK m \in U : \A k \in U : m <= k
  BY <1>1, <1>5
<1>7. QED
  BY <1>1, <1>6

\* What holds of c whenever it holds of all below c holds of 0..n.
LEMMA UpTo ==
    ASSUME NEW n \in Nat, NEW S,
           \A c \in 0..n : (\A d \in 0..n : d < c => d \in S) => c \in S
    PROVE  0..n \subseteq S
<1> SUFFICES ASSUME (0..n) \ S # {} PROVE FALSE
  OBVIOUS
<1>1. PICK m \in (0..n) \ S : \A k \in (0..n) \ S : m <= k
  <2>1. (0..n) \ S \in SUBSET Nat
    OBVIOUS
  <2>2. QED
    BY <2>1, LeastNatural
<1>2. \A d \in 0..n : d < m => d \in S
  BY <1>1
<1>3. QED
  BY <1>1, <1>2

\* Chains are well defined: each node's chain is that of the node it links to,
\* and the node.
LEMMA ChainsEquation ==
    ASSUME NEW ns, Linked(ns)
    PROVE  \A c \in 0..Len(ns) :
               ChainsOf(ns)[c] = IF c = 0 THEN <<>> ELSE Append(ChainsOf(ns)[ns[c].p], c)
<1> DEFINE Defined(n) == {f \in [0..n -> Seq(Nat)] :
               \A c \in 0..n : f[c] = IF c = 0 THEN <<>> ELSE Append(f[ns[c].p], c)}
           S == {n \in Nat : Defined(n) # {}}
<1>1. Len(ns) \in Nat /\ \A c \in 1..Len(ns) : ns[c].p \in Nat /\ ns[c].p < c
  BY LinkedNodes
<1>2. 0 \in S
  <2>1. <<>> \in Seq(Nat)
    BY EmptySeq
  <2>2. [c \in 0..0 |-> <<>>] \in Defined(0)
    BY <2>1
  <2>3. QED
    BY <2>2
<1>3. ASSUME NEW n \in 1..Len(ns), n - 1 \in S
      PROVE  n \in S
  <2>1. PICK f \in Defined(n - 1) : TRUE
    BY <1>3
  <2> DEFINE g == [c \in 0..n |-> IF c = n THEN Append(f[ns[n].p], n) ELSE f[c]]
  <2>2. ns[n].p \in 0..(n - 1) /\ f[ns[n].p] \in Seq(Nat)
    BY <1>1, <2>1
  <2>3. g \in [0..n -> Seq(Nat)]
    <3>1. Append(f[ns[n].p], n) \in Seq(Nat)
      BY <1>1, <2>2, AppendProperties
    <3>2. \A c \in 0..n : c # n => f[c] \in Seq(Nat)
      BY <2>1
    <3>3. QED
      BY <3>1, <3>2
  <2>4. ASSUME NEW c \in 0..n
        PROVE  g[c] = IF c = 0 THEN <<>> ELSE Append(g[ns[c].p], c)
    <3>1. CASE c = n
      <4>1. ns[n].p \in 0..n /\ ns[n].p # n /\ n # 0
        BY <1>1, <2>2
      <4>2. g[n] = Append(f[ns[n].p], n) /\ g[ns[n].p] = f[ns[n].p]
        BY <3>1, <4>1
      <4>3. QED
        BY <3>1, <4>1, <4>2
    <3>2. CASE c # n
      <4>1. c \in 0..(n - 1)
        BY <3>2
      <4>2. c # 0 => ns[c].p \in 0..(n - 1) /\ ns[c].p # n
        BY <1>1, <4>1
      <4>3. f[c] = IF c = 0 THEN <<>> ELSE Append(f[ns[c].p], c)
        BY <2>1, <4>1
      <4>4. g[c] = f[c] /\ (c # 0 => g[ns[c].p] = f[ns[c].p])
        <5>1. g[c] = f[c]
          BY <3>2
        <5>2. ASSUME c # 0 PROVE ns[c].p \in 0..n /\ ns[c].p # n
          BY <1>1, <4>2, <5>2
        <5>3. c # 0 => g[ns[c].p] = f[ns[c].p]
          BY <5>2
        <5>4. QED
          BY <5>1, <5>3
      <4>5. QED
        BY <4>3, <4>4
    <3>3. QED
      BY <3>1, <3>2
  <2> HIDE DEF g
  <2>5. g \in Defined(n)
    BY <2>3, <2>4
  <2>6. n \in Nat
    BY <1>1
  <2>7. QED
    BY <2>5, <2>6
<1>4. 0..Len(ns) \subseteq S
  <2> HIDE DEF S
  <2>1. ASSUME NEW c \in 0..Len(ns), \A d \in 0..Len(ns) : d < c => d \in S
        PROVE  c \in S
    BY <1>1, <1>2, <1>3, <2>1
  <2>2. QED
    BY <1>1, <2>1, UpTo
<1>5. PICK f \in Defined(Len(ns)) : TRUE
  <2>1. Len(ns) \in 0..Len(ns)
    BY <1>1
  <2>2. Len(ns) \in S
    BY <1>4, <2>1
  <2>3. QED
    BY <2>2
<1>6. f = [c \in 0..Len(ns) |-> IF c = 0 THEN <<>> ELSE Append(f[ns[c].p], c)]
  BY <1>5
<1>7. PICK g : g = ChainsOf(ns)
  OBVIOUS
<1>8. g = [c \in 0..Len(ns) |-> IF c = 0 THEN <<>> ELSE Append(g[ns[c].p], c)]
  BY <1>6, <1>7 DEF ChainsOf
<1>9. \A c \in 0..Len(ns) : g[c] = IF c = 0 THEN <<>> ELSE Append(g[ns[c].p], c)
  BY <1>8
<1>10. QED
  BY <1>7, <1>9

LEMMA ChainsFacts ==
    ASSUME NEW ns, Linked(ns), NEW c \in 0..Len(ns)
    PROVE  /\ ChainsOf(ns)[0] = <<>>
           /\ c # 0 => /\ ns[c].p \in 0..Len(ns) /\ ns[c].p < c
                       /\ ChainsOf(ns)[c] = Append(ChainsOf(ns)[ns[c].p], c)
<1>1. Len(ns) \in Nat
  BY LinkedNodes
<1>2. c # 0 => ns[c].p \in 0..Len(ns) /\ ns[c].p < c
  BY <1>1, LinkedNodes
<1>3. /\ ChainsOf(ns)[0] = IF 0 = 0 THEN <<>> ELSE Append(ChainsOf(ns)[ns[0].p], 0)
      /\ ChainsOf(ns)[c] = IF c = 0 THEN <<>> ELSE Append(ChainsOf(ns)[ns[c].p], c)
  <2>1. 0 \in 0..Len(ns)
    BY <1>1
  <2>2. QED
    BY <2>1, ChainsEquation
<1>4. QED
  BY <1>2, <1>3

\* A chain ends at its own node, and its values never go back.
Ordered(ns, c) ==
    LET h == ChainsOf(ns)[c]
    IN  /\ h \in Seq(1..Len(ns))
        /\ c # 0 => Len(h) > 0 /\ h[Len(h)] = c
        /\ \A i, j \in 1..Len(h) : i < j => ns[h[i]].v <= ns[h[j]].v

LEMMA ChainsOrdered ==
    ASSUME NEW ns, Linked(ns), NEW c \in 0..Len(ns)
    PROVE  Ordered(ns, c)
<1> DEFINE S == {d \in 0..Len(ns) : Ordered(ns, d)}
<1>1. Len(ns) \in Nat /\ \A d \in 1..Len(ns) : ns[d].v \in Nat
  BY LinkedNodes
<1>2. ASSUME NEW d \in 0..Len(ns), \A e \in 0..Len(ns) : e < d => e \in S
      PROVE  d \in S
  <2>1. CASE d = 0
    <3>1. ChainsOf(ns)[d] = <<>>
      BY <2>1, ChainsFacts
    <3>2. <<>> \in Seq(1..Len(ns)) /\ Len(<<>>) = 0
      BY EmptySeq
    <3> DEFINE h == ChainsOf(ns)[d]
    <3>3. h \in Seq(1..Len(ns)) /\ 1..Len(h) = {}
      BY <3>1, <3>2
    <3> HIDE DEF h
    <3>4. Ordered(ns, d)
      BY <2>1, <3>3 DEF Ordered, h
    <3>5. QED
      BY <3>4
  <2>2. CASE d # 0
    <3> DEFINE q == ns[d].p
               g == ChainsOf(ns)[q]
               h == ChainsOf(ns)[d]
    <3>1. q \in 0..Len(ns) /\ q < d /\ h = Append(g, d) /\ d \in 1..Len(ns)
      BY <2>2, ChainsFacts
    <3>2. Ordered(ns, q)
      BY <1>2, <3>1
    <3>3. g \in Seq(1..Len(ns)) /\ (q = 0 => g = <<>>)
      BY <3>1, <3>2, ChainsFacts DEF Ordered
    <3>8. /\ q # 0 => Len(g) > 0 /\ g[Len(g)] = q
          /\ \A i, j \in 1..Len(g) : i < j => ns[g[i]].v <= ns[g[j]].v
      BY <3>2 DEF Ordered
    <3> HIDE DEF g, h
    <3>4. /\ h \in Seq(1..Len(ns)) /\ Len(h) = Len(g) + 1 /\ Len(g) \in Nat
          /\ \A i \in 1..Len(g) : h[i] = g[i]
          /\ h[Len(h)] = d
      BY <3>1, <3>3, AppendProperties
    <3>5. \A i \in 1..Len(g) : ns[g[i]].v <= ns[d].v
      <4> SUFFICES ASSUME NEW i \in 1..Len(g) PROVE ns[g[i]].v <= ns[d].v
        OBVIOUS
      <4>1. q # 0 /\ g[i] \in 1..Len(ns)
        BY <3>3
      <4>2. ns[q].v <= ns[d].v /\ q \in 1..Len(ns)
        BY <1>1, <3>1, <4>1, LinkedNodes
      <4>3. ns[g[i]].v <= ns[q].v
        <5>1. Len(g) \in 1..Len(g) /\ g[Len(g)] = q
          BY <3>4, <3>8, <4>1
        <5>2. CASE i = Len(g)
          BY <1>1, <4>2, <5>1, <5>2
        <5>3. CASE i # Len(g)
          BY <3>8, <5>1, <5>3
        <5>4. QED
          BY <5>2, <5>3
      <4>4. QED
        BY <1>1, <3>1, <4>1, <4>2, <4>3
    <3>6. \A i, j \in 1..Len(h) : i < j => ns[h[i]].v <= ns[h[j]].v
      <4> SUFFICES ASSUME NEW i \in 1..Len(h), NEW j \in 1..Len(h), i < j
                   PROVE  ns[h[i]].v <= ns[h[j]].v
        OBVIOUS
      <4>1. CASE j = Len(h)
        BY <3>4, <3>5, <4>1
      <4>2. CASE j # Len(h)
        <5>1. i \in 1..Len(g) /\ j \in 1..Len(g)
          BY <3>4, <4>2
        <5>2. h[i] = g[i] /\ h[j] = g[j]
          BY <3>4, <5>1
        <5>3. ns[g[i]].v <= ns[g[j]].v
          BY <3>8, <5>1
        <5>4. QED
          BY <5>2, <5>3
      <4>3. QED
        BY <4>1, <4>2
    <3>7. QED
      BY <3>4, <3>6 DEF Ordered, h
  <2>3. QED
    BY <2>1, <2>2
<1>3. 0..Len(ns) \subseteq S
  <2> HIDE DEF S
  <2>1. QED
    BY <1>1, <1>2, UpTo
<1>4. QED
  BY <1>3

\* An upload leaves every chain as it is.
LEMMA ChainsKept ==
    ASSUME NEW ns, NEW n, Linked(ns), Linked(Append(ns, n)), NEW c \in 0..Len(ns)
    PROVE  ChainsOf(Append(ns, n))[c] = ChainsOf(ns)[c]
<1> DEFINE more == Append(ns, n)
           S == {d \in 0..Len(ns) : ChainsOf(more)[d] = ChainsOf(ns)[d]}
<1>1. /\ Len(ns) \in Nat /\ Len(more) = Len(ns) + 1
      /\ \A d \in 1..Len(ns) : more[d] = ns[d]
  BY DEF Linked
<1>2. ASSUME NEW d \in 0..Len(ns), \A e \in 0..Len(ns) : e < d => e \in S
      PROVE  d \in S
  <2>1. CASE d = 0
    BY <1>1, <2>1, ChainsFacts
  <2>2. CASE d # 0
    <3> HIDE DEF more
    <3>1. more[d] = ns[d] /\ d \in 0..Len(more)
      BY <1>1, <2>2
    <3>2. /\ ns[d].p \in 0..Len(ns) /\ ns[d].p < d
          /\ ChainsOf(ns)[d] = Append(ChainsOf(ns)[ns[d].p], d)
      BY <2>2, ChainsFacts
    <3>3. ChainsOf(more)[d] = Append(ChainsOf(more)[ns[d].p], d)
      BY <2>2, <3>1, ChainsFacts DEF more
    <3>4. QED
      BY <1>2, <3>2, <3>3
  <2>3. QED
    BY <2>1, <2>2
<1>3. 0..Len(ns) \subseteq S
  <2> HIDE DEF S
  <2>1. QED
    BY <1>1, <1>2, UpTo
<1>4. QED
  BY <1>3

(***************************************************************************)
(* What is recorded along a chain.                                         *)
(***************************************************************************)
Recorded(ns, c, v) ==
    \E i \in 1..Len(ChainsOf(ns)[c]) : ns[ChainsOf(ns)[c][i]].v = v

LEMMA RecordedKept ==
    ASSUME NEW ns, NEW n, Linked(ns), Linked(Append(ns, n)), NEW c \in 0..Len(ns),
           NEW v, Recorded(ns, c, v)
    PROVE  Recorded(Append(ns, n), c, v)
<1> DEFINE h == ChainsOf(ns)[c]
<1>1. h \in Seq(1..Len(ns))
  BY ChainsOrdered DEF Ordered
<1>2. ChainsOf(Append(ns, n))[c] = h
  BY ChainsKept
<1>3. PICK i \in 1..Len(h) : ns[h[i]].v = v
  BY DEF Recorded
<1> HIDE DEF h
<1>4. h[i] \in 1..Len(ns)
  BY <1>1, <1>3
<1>5. Append(ns, n)[h[i]] = ns[h[i]]
  BY <1>4 DEF Linked
<1>6. QED
  BY <1>2, <1>3, <1>5 DEF Recorded

LEMMA RecordedGrows ==
    ASSUME NEW ns, Linked(ns), NEW c \in 1..Len(ns)
    PROVE  /\ Recorded(ns, c, ns[c].v)
           /\ \A v : Recorded(ns, ns[c].p, v) => Recorded(ns, c, v)
<1> DEFINE h == ChainsOf(ns)[c]
           g == ChainsOf(ns)[ns[c].p]
<1>1. /\ ns[c].p \in 0..Len(ns) /\ h = Append(g, c) /\ Len(ns) \in Nat
      /\ c \in 0..Len(ns) /\ c # 0
  BY ChainsFacts, LinkedNodes
<1>2. g \in Seq(1..Len(ns))
  BY <1>1, ChainsOrdered DEF Ordered
<1> HIDE DEF h, g
<1>3. /\ Len(h) = Len(g) + 1 /\ Len(g) \in Nat /\ h[Len(h)] = c
      /\ \A i \in 1..Len(g) : h[i] = g[i]
  BY <1>1, <1>2, AppendProperties
<1>4. Recorded(ns, c, ns[c].v)
  <2>1. Len(h) \in 1..Len(h)
    BY <1>3
  <2>2. QED
    BY <1>3, <2>1 DEF Recorded, h
<1>5. ASSUME NEW v, Recorded(ns, ns[c].p, v)
      PROVE  Recorded(ns, c, v)
  <2>1. PICK i \in 1..Len(g) : ns[g[i]].v = v
    BY <1>5 DEF Recorded, g
  <2>2. i \in 1..Len(h) /\ h[i] = g[i]
    BY <1>3
  <2>3. QED
    BY <2>1, <2>2 DEF Recorded, h
<1>6. QED
  BY <1>4, <1>5

LEMMA RecordedBelow ==
    ASSUME NEW ns, Linked(ns), NEW c \in 0..Len(ns), NEW v, Recorded(ns, c, v)
    PROVE  c # 0 /\ v <= ns[c].v
<1> DEFINE h == ChainsOf(ns)[c]
<1>1. PICK i \in 1..Len(h) : ns[h[i]].v = v
  BY DEF Recorded
<1>2. /\ h \in Seq(1..Len(ns)) /\ (c # 0 => Len(h) > 0 /\ h[Len(h)] = c)
      /\ \A j, k \in 1..Len(h) : j < k => ns[h[j]].v <= ns[h[k]].v
  BY ChainsOrdered DEF Ordered
<1>3. c = 0 => h = <<>>
  BY ChainsFacts
<1> HIDE DEF h
<1>4. c # 0
  BY <1>1, <1>3
<1>5. Len(h) \in 1..Len(h) /\ Len(h) \in Nat
  BY <1>2, <1>4
<1>6. CASE i = Len(h)
  <2>1. ns[c].v = v /\ ns[c].v \in Nat
    BY <1>1, <1>2, <1>4, <1>6, LinkedNodes
  <2>2. QED
    BY <1>4, <2>1
<1>7. CASE i # Len(h)
  BY <1>1, <1>2, <1>4, <1>5, <1>7
<1>8. QED
  BY <1>6, <1>7

\* The archive's definitions in these terms.
LEMMA ArchiveChains == Archive!Chains = ChainsOf(nodes)
BY DEF Archive!Chains, Archive!NoCid, ChainsOf

LEMMA ArchiveHistory ==
    ASSUME NEW k \in Keys, Linked(nodes), head[k] \in 0..Len(nodes)
    PROVE  LET h == ChainsOf(nodes)[head[k]]
           IN  /\ h \in Seq(1..Len(nodes))
               /\ DOMAIN Archive!History(k) = 1..Len(h)
               /\ \A i \in 1..Len(h) : Archive!History(k)[i] = nodes[h[i]].v
<1> DEFINE h == ChainsOf(nodes)[head[k]]
<1>1. h \in Seq(1..Len(nodes))
  BY ChainsOrdered DEF Ordered
<1>2. Archive!History(k) = [i \in DOMAIN h |-> nodes[h[i]].v]
  BY ArchiveChains DEF Archive!History
<1> HIDE DEF h
<1>3. DOMAIN h = 1..Len(h)
  BY <1>1
<1>4. QED
  BY <1>1, <1>2, <1>3 DEF h

(***************************************************************************)
(* The inductive invariant.  It needs one set() of the archive at a time,  *)
(* which the queue provides and the synchronous mode leaves to the callers *)
(* (OneSet); the run TieredFork shows what two of them do to a chain.      *)
(***************************************************************************)
OneSet == \A m \in Modes : m \/ \A c, d \in Callers : c = d

Writers == Callers \cup {Worker}

\* The writes on their way to the archive.
Asked(w) == [key |-> writer[w].key, value |-> writer[w].value]
Queued == {queue[i] : i \in 1..Len(queue)}
Pending == Queued \cup {Asked(w) : w \in {u \in Writers : ~ Idle(u)}}

\* The archived value of a key is not newer than v.
Behind(k, v) == head[k] # 0 => nodes[head[k]].v <= v

\* The queue's worker is alone: nobody else runs a set() of the archive in the
\* asynchronous mode, and nothing is queued in the other.
OneAtATime ==
    /\ asyncArchive => \A c \in Callers : Idle(c)
    /\ ~ asyncArchive => queue = <<>>
    /\ writer[Worker].stage # "idle" => queue # <<>> /\ Asked(Worker) = queue[1]

NodesLinked == Linked(nodes) /\ \A c \in 1..Len(nodes) : nodes[c].v <= written

QueueInOrder ==
    \A i, j \in 1..Len(queue) : i <= j => queue[i].value <= queue[j].value

PendingNewer ==
    /\ Pending \subseteq Entry
    /\ \A e \in Pending : /\ e.value <= written
                          /\ Behind(e.key, e.value)
                          /\ hot[e.key] # Missing => e.value <= hot[e.key]

\* A set() that read the head still extends the chain it read.
Extends(w) ==
    /\ writer[w].prev \in 0..Len(nodes)
    /\ writer[w].prev # 0 => nodes[writer[w].prev].v <= writer[w].value
    /\ \/ writer[w].prev = head[writer[w].key]
       \/ head[writer[w].key] = 0 /\ writer[w].key \in forgotten

WritersExtend ==
    \A w \in Writers :
        /\ writer[w].stage \in {"upload", "writeHead"} => Extends(w)
        /\ writer[w].stage = "writeHead" =>
               /\ writer[w].cid \in 1..Len(nodes)
               /\ nodes[writer[w].cid] = [v |-> writer[w].value, p |-> writer[w].prev]

MirroredIsHead ==
    writer[Worker].stage = "ok" =>
        \/ writer[Worker].key \in forgotten
        \/ /\ head[writer[Worker].key] # 0
           /\ nodes[head[writer[Worker].key]].v = writer[Worker].value

HotIsLatest ==
    \A k \in Keys : hot[k] # Missing =>
        /\ hot[k] <= written
        /\ Behind(k, hot[k])
        /\ k \in Archived => LastEntry(k) \in issued

\* NothingSilentlyLost, in terms of chains.
Safe(e) ==
    \/ e.key \in forgotten
    \/ e \in Queued
    \/ \E c \in Callers : ~ Idle(c) /\ Asked(c) = e
    \/ Recorded(nodes, head[e.key], e.value)
    \/ e \in reported

AllSafe == \A e \in issued : Safe(e)

TieredInv ==
    /\ TypeOK
    /\ OneAtATime
    /\ NodesLinked
    /\ QueueInOrder
    /\ PendingNewer
    /\ WritersExtend
    /\ MirroredIsHead
    /\ HotIsLatest
    /\ AllSafe

(***************************************************************************)
(* What the steps of the archive's set() do to the one that runs it.       *)
(***************************************************************************)
Fields(r) == [stage |-> r.stage, key |-> r.key, value |-> r.value,
              prev |-> r.prev, cid |-> r.cid]

LEMMA WriterType ==
    ASSUME TypeOK, NEW w \in Writers
    PROVE  /\ DOMAIN writer = Writers
           /\ writer[w] = Fields(writer[w])
           /\ writer[w].prev \in Archive!Cids /\ writer[w].cid \in Archive!Cids
BY DEF TypeOK, Archive!DriveTypeOK, Writers, Fields

LEMMA StageUpdate ==
    ASSUME NEW r, r = Fields(r), NEW t
    PROVE  [r EXCEPT !.stage = t] =
               [stage |-> t, key |-> r.key, value |-> r.value,
                prev |-> r.prev, cid |-> r.cid]
BY DEF Fields

LEMMA PrevUpdate ==
    ASSUME NEW r, r = Fields(r), NEW t, NEW q
    PROVE  [r EXCEPT !.stage = t, !.prev = q] =
               [stage |-> t, key |-> r.key, value |-> r.value,
                prev |-> q, cid |-> r.cid]
<1>1. PICK x : x = [r EXCEPT !.stage = t]
  OBVIOUS
<1>2. x = [stage |-> t, key |-> r.key, value |-> r.value,
           prev |-> r.prev, cid |-> r.cid]
  BY <1>1, StageUpdate
<1>3. [x EXCEPT !.prev = q] = [stage |-> t, key |-> r.key, value |-> r.value,
                               prev |-> q, cid |-> r.cid]
  BY <1>2
<1>4. [r EXCEPT !.stage = t, !.prev = q] = [[r EXCEPT !.stage = t] EXCEPT !.prev = q]
  OBVIOUS
<1>5. QED
  BY <1>1, <1>3, <1>4, Zenon

LEMMA CidUpdate ==
    ASSUME NEW r, r = Fields(r), NEW t, NEW q
    PROVE  [r EXCEPT !.stage = t, !.cid = q] =
               [stage |-> t, key |-> r.key, value |-> r.value,
                prev |-> r.prev, cid |-> q]
<1>1. PICK x : x = [r EXCEPT !.stage = t]
  OBVIOUS
<1>2. x = [stage |-> t, key |-> r.key, value |-> r.value,
           prev |-> r.prev, cid |-> r.cid]
  BY <1>1, StageUpdate
<1>3. [x EXCEPT !.cid = q] = [stage |-> t, key |-> r.key, value |-> r.value,
                              prev |-> r.prev, cid |-> q]
  BY <1>2
<1>4. [r EXCEPT !.stage = t, !.cid = q] = [[r EXCEPT !.stage = t] EXCEPT !.cid = q]
  OBVIOUS
<1>5. QED
  BY <1>1, <1>3, <1>4, Zenon

\* The call that w runs becomes the given one.
Becomes(w, stage, prev, cid) ==
    writer' = [writer EXCEPT ![w] =
                  [stage |-> stage, key |-> writer[w].key, value |-> writer[w].value,
                   prev |-> prev, cid |-> cid]]

LEMMA StepsMean ==
    ASSUME TypeOK, NEW w \in Writers
    PROVE  /\ Archive!ReadHead(w) =>
                  Becomes(w, "upload", head[writer[w].key], writer[w].cid)
           /\ Archive!Upload(w) =>
                  Becomes(w, "writeHead", writer[w].prev, Len(nodes) + 1)
           /\ Archive!WriteHead(w) =>
                  \E outcome \in {"ok", "failed"} :
                      Becomes(w, outcome, writer[w].prev, writer[w].cid)
           /\ Archive!SetFails(w) =>
                  Becomes(w, "failed", writer[w].prev, writer[w].cid)
<1> DEFINE r == writer[w]
<1>1. r = Fields(r) /\ w \in DOMAIN writer
  BY WriterType DEF Fields
<1>2. ASSUME Archive!ReadHead(w)
      PROVE  Becomes(w, "upload", head[r.key], r.cid)
  <2>1. writer' = [writer EXCEPT ![w] = [r EXCEPT !.stage = "upload", !.prev = head[r.key]]]
    BY <1>1, <1>2 DEF Archive!ReadHead
  <2>2. [r EXCEPT !.stage = "upload", !.prev = head[r.key]] =
          [stage |-> "upload", key |-> r.key, value |-> r.value,
           prev |-> head[r.key], cid |-> r.cid]
    <3> DEFINE old == head[r.key]
    <3> HIDE DEF old, r
    <3>1. [r EXCEPT !.stage = "upload", !.prev = old] =
            [stage |-> "upload", key |-> r.key, value |-> r.value,
             prev |-> old, cid |-> r.cid]
      BY <1>1, PrevUpdate
    <3>2. QED
      BY <3>1 DEF old
  <2>3. QED
    BY <2>1, <2>2 DEF Becomes
<1>3. ASSUME Archive!Upload(w)
      PROVE  Becomes(w, "writeHead", r.prev, Len(nodes) + 1)
  <2>1. writer' = [writer EXCEPT ![w] = [r EXCEPT !.stage = "writeHead", !.cid = Len(nodes) + 1]]
    BY <1>1, <1>3 DEF Archive!Upload
  <2>2. [r EXCEPT !.stage = "writeHead", !.cid = Len(nodes) + 1] =
          [stage |-> "writeHead", key |-> r.key, value |-> r.value,
           prev |-> r.prev, cid |-> Len(nodes) + 1]
    BY <1>1, CidUpdate
  <2>3. QED
    BY <2>1, <2>2 DEF Becomes
<1>4. ASSUME NEW t, writer' = [writer EXCEPT ![w].stage = t]
      PROVE  Becomes(w, t, r.prev, r.cid)
  <2>1. writer' = [writer EXCEPT ![w] = [r EXCEPT !.stage = t]]
    BY <1>1, <1>4
  <2>2. [r EXCEPT !.stage = t] =
          [stage |-> t, key |-> r.key, value |-> r.value,
           prev |-> r.prev, cid |-> r.cid]
    BY <1>1, StageUpdate
  <2>3. QED
    BY <2>1, <2>2 DEF Becomes
<1>5. QED
  BY <1>2, <1>3, <1>4 DEF Archive!WriteHead, Archive!SetFails

\* w becomes a call of the given form; the others go on as they were.
Moves(w, r) ==
    /\ writer' = [writer EXCEPT ![w] = r]
    /\ r \in [stage: Archive!Stages, key: Keys \cup {Missing},
              value: Versions \cup {Missing}, prev: Archive!Cids, cid: Archive!Cids]

LEMMA MovesMeans ==
    ASSUME TypeOK, NEW w \in Writers, NEW r, Moves(w, r)
    PROVE  /\ writer'[w] = r
           /\ \A u \in Writers \ {w} : writer'[u] = writer[u]
           /\ writer' \in [Writers -> [stage: Archive!Stages, key: Keys \cup {Missing},
                                       value: Versions \cup {Missing},
                                       prev: Archive!Cids, cid: Archive!Cids]]
BY DEF TypeOK, Archive!DriveTypeOK, Writers, Moves

(***************************************************************************)
(* What the invariant says of the values it speaks of.                     *)
(***************************************************************************)
LEMMA EntryFacts ==
    \A e \in Entry : /\ e = [key |-> e.key, value |-> e.value]
                     /\ e.key \in Keys /\ e.value \in Versions /\ e.value \in Nat
BY DEF Entry, Versions

LEMMA InvFacts ==
    ASSUME TieredInv
    PROVE  /\ queue \in Seq(Entry) /\ Len(queue) \in Nat
           /\ \A i \in 1..Len(queue) : queue[i] \in Entry
           /\ nodes \in Seq([v: Versions, p: Archive!Cids])
           /\ Len(nodes) \in Nat /\ Len(nodes) <= MaxNodes
           /\ \A c \in 1..Len(nodes) : nodes[c].v \in Nat /\ nodes[c].v <= written
           /\ \A k \in Keys : head[k] \in 0..Len(nodes)
           /\ written \in Nat /\ written <= MaxWrites
           /\ hot \in [Keys -> Versions \cup {Missing}]
           /\ \A k \in Keys : hot[k] # Missing => hot[k] \in Versions /\ hot[k] \in Nat
           /\ \A w \in Writers : ~ Idle(w) =>
                  /\ Asked(w) \in Pending /\ Asked(w) \in Entry
                  /\ Asked(w).key = writer[w].key /\ Asked(w).value = writer[w].value
                  /\ writer[w].key \in Keys
                  /\ writer[w].value \in Versions /\ writer[w].value \in Nat
<1>1. /\ queue \in Seq(Entry) /\ nodes \in Seq([v: Versions, p: Archive!Cids])
      /\ Len(nodes) <= MaxNodes /\ head \in [Keys -> 0..Len(nodes)]
      /\ written \in 0..MaxWrites /\ hot \in [Keys -> Versions \cup {Missing}]
  BY DEF TieredInv, TypeOK, Archive!DriveTypeOK
<1>2. Len(queue) \in Nat /\ Len(nodes) \in Nat
  BY <1>1, LenProperties
<1>3. \A i \in 1..Len(queue) : queue[i] \in Entry
  BY <1>1, ElementOfSeq
<1>4. \A c \in 1..Len(nodes) : nodes[c].v \in Nat /\ nodes[c].v <= written
  BY LinkedNodes DEF TieredInv, NodesLinked
<1>5. ASSUME NEW w \in Writers, ~ Idle(w)
      PROVE  /\ Asked(w) \in Pending /\ Asked(w) \in Entry
             /\ Asked(w).key = writer[w].key /\ Asked(w).value = writer[w].value
             /\ writer[w].key \in Keys
             /\ writer[w].value \in Versions /\ writer[w].value \in Nat
  <2>1. Asked(w) \in Pending
    BY <1>5 DEF Pending
  <2>2. Asked(w) \in Entry
    BY <2>1 DEF TieredInv, PendingNewer
  <2>3. Asked(w).key = writer[w].key /\ Asked(w).value = writer[w].value
    BY DEF Asked
  <2>4. QED
    BY <2>1, <2>2, <2>3, EntryFacts
<1>6. written \in Nat /\ written <= MaxWrites
  BY <1>1, TieredAssumption
<1>7. \A k \in Keys : hot[k] # Missing => hot[k] \in Versions /\ hot[k] \in Nat
  BY <1>1 DEF Versions
<1>8. QED
  BY <1>1, <1>2, <1>3, <1>4, <1>5, <1>6, <1>7

\* At most one set() of the archive runs.
LEMMA OneRuns ==
    ASSUME TieredInv, OneSet, NEW w \in Writers, ~ Idle(w)
    PROVE  /\ \A u \in Writers \ {w} : Idle(u)
           /\ \/ /\ w = Worker /\ asyncArchive /\ queue # <<>>
                 /\ Asked(w) = queue[1]
              \/ /\ w \in Callers /\ w # Worker /\ ~ asyncArchive /\ queue = <<>>
                 /\ writer[Worker].stage = "idle"
<1>1. asyncArchive \in Modes /\ asyncArchive \in BOOLEAN
  BY TieredAssumption DEF TieredInv, TypeOK
<1>2. CASE asyncArchive
  <2>1. w = Worker
    BY <1>2 DEF TieredInv, OneAtATime, Writers
  <2>2. writer[w].stage # "idle"
    BY DEF Idle, Archive!Running
  <2>3. QED
    BY <1>2, <2>1, <2>2 DEF TieredInv, OneAtATime, Writers
<1>3. CASE ~ asyncArchive
  <2>1. queue = <<>> /\ writer[Worker].stage = "idle"
    BY <1>3 DEF TieredInv, OneAtATime
  <2>2. Idle(Worker)
    BY <2>1 DEF Idle, Archive!Running
  <2>3. w \in Callers /\ w # Worker
    BY <2>2 DEF Writers
  <2>4. \A u \in Callers : u = w
    BY <1>1, <1>3, <2>3 DEF OneSet
  <2>5. QED
    BY <1>3, <2>1, <2>2, <2>3, <2>4 DEF Writers
<1>4. QED
  BY <1>1, <1>2, <1>3

(***************************************************************************)
(* The steps of a set() of the archive keep the invariant.                 *)
(***************************************************************************)
\* What such a step leaves alone, and what it reports.
Around(w) ==
    /\ UNCHANGED <<queueVars, logVars>>
    /\ reported' = reported \/ reported' = reported \cup {Asked(w)}
    /\ w \in Callers /\ writer'[w].stage = "failed" => Asked(w) \in reported'

LEMMA BecomesMeans ==
    ASSUME TypeOK, NEW w \in Writers, NEW s \in Archive!Stages,
           NEW p \in Archive!Cids, NEW c \in Archive!Cids, Becomes(w, s, p, c)
    PROVE  /\ writer'[w].stage = s /\ writer'[w].prev = p /\ writer'[w].cid = c
           /\ writer'[w].key = writer[w].key /\ writer'[w].value = writer[w].value
           /\ Asked(w)' = Asked(w)
           /\ \A u \in Writers \ {w} : writer'[u] = writer[u] /\ Asked(u)' = Asked(u)
           /\ writer' \in [Writers -> [stage: Archive!Stages, key: Keys \cup {Missing},
                                       value: Versions \cup {Missing},
                                       prev: Archive!Cids, cid: Archive!Cids]]
<1>1. writer[w].key \in Keys \cup {Missing} /\ writer[w].value \in Versions \cup {Missing}
  BY DEF TypeOK, Archive!DriveTypeOK, Writers
<1> DEFINE r == [stage |-> s, key |-> writer[w].key, value |-> writer[w].value,
                 prev |-> p, cid |-> c]
<1>2. /\ r.stage = s /\ r.key = writer[w].key /\ r.value = writer[w].value
      /\ r.prev = p /\ r.cid = c
  OBVIOUS
<1>3. Moves(w, r)
  BY <1>1 DEF Becomes, Moves
<1> HIDE DEF r
<1>4. /\ writer'[w] = r
      /\ \A u \in Writers \ {w} : writer'[u] = writer[u]
      /\ writer' \in [Writers -> [stage: Archive!Stages, key: Keys \cup {Missing},
                                  value: Versions \cup {Missing},
                                  prev: Archive!Cids, cid: Archive!Cids]]
  BY <1>3, MovesMeans
<1>5. QED
  BY <1>2, <1>4 DEF Asked

LEMMA StepLeaves ==
    ASSUME TieredInv, OneSet, NEW w \in Writers, ~ Idle(w), Around(w),
           NEW s \in Archive!Stages, NEW p \in Archive!Cids, NEW c \in Archive!Cids,
           Becomes(w, s, p, c)
    PROVE  /\ hot' \in [Keys -> Versions \cup {Missing}]
           /\ queue' \in Seq(Entry)
           /\ attempts' \in 0..ArchiveRetries
           /\ reported' \subseteq Entry
           /\ written' \in 0..MaxWrites
           /\ issued' \subseteq Entry
           /\ forgotten' \subseteq Keys
           /\ asyncArchive' \in Modes
           /\ crashes' \in 0..MaxCrashes
           /\ OneAtATime'
           /\ QueueInOrder'
           /\ Pending' \subseteq Pending
           /\ \A u \in Writers \ {w} : Idle(u)'
           /\ writer'[Worker].stage = "ok" => w = Worker
<1> USE DEF Around, queueVars, logVars
<1>1. /\ Asked(w)' = Asked(w)
      /\ \A u \in Writers \ {w} : writer'[u] = writer[u] /\ Asked(u)' = Asked(u)
  BY BecomesMeans DEF TieredInv
<1>2. /\ \A u \in Writers \ {w} : Idle(u)
      /\ \/ /\ w = Worker /\ asyncArchive /\ queue # <<>>
            /\ Asked(w) = queue[1]
         \/ /\ w \in Callers /\ w # Worker /\ ~ asyncArchive /\ queue = <<>>
            /\ writer[Worker].stage = "idle"
  BY OneRuns
<1>3. \A u \in Writers \ {w} : Idle(u)'
  BY <1>1, <1>2 DEF Idle
<1>4. reported' \subseteq Entry
  BY InvFacts DEF TieredInv, TypeOK
<1>5. OneAtATime'
  <2>1. asyncArchive' => \A u \in Callers : Idle(u)'
    BY <1>2, <1>3, TieredAssumption DEF Writers
  <2>2. ~ asyncArchive' => queue' = <<>>
    BY DEF TieredInv, OneAtATime
  <2>3. writer'[Worker].stage # "idle" => queue' # <<>> /\ Asked(Worker)' = queue'[1]
    <3>1. CASE w = Worker
      BY <1>1, <1>2, <3>1
    <3>2. CASE w # Worker
      BY <1>1, <1>2, <3>2 DEF Writers
    <3>3. QED
      BY <3>1, <3>2
  <2>4. QED
    BY <2>1, <2>2, <2>3 DEF OneAtATime
<1>6. Pending' \subseteq Pending
  <2>1. ASSUME NEW u \in Writers, ~ Idle(u)'
        PROVE  Asked(u)' \in Pending
    BY <1>1, <1>3, <2>1, InvFacts
  <2>2. Queued' = Queued
    BY DEF Queued
  <2>3. QED
    BY <2>1, <2>2 DEF Pending
<1>7. QueueInOrder'
  BY DEF TieredInv, QueueInOrder
<1>8. writer'[Worker].stage = "ok" => w = Worker
  BY <1>1, <1>2 DEF Writers
<1>9. QED
  BY <1>3, <1>4, <1>5, <1>6, <1>7, <1>8 DEF TieredInv, TypeOK

LEMMA ReadHeadKeeps ==
    ASSUME TieredInv, OneSet, NEW w \in Writers, Archive!ReadHead(w), Around(w)
    PROVE  TieredInv'
<1>1. writer[w].stage = "readHead" /\ ~ Idle(w) /\ nodes' = nodes /\ head' = head
  BY DEF Archive!ReadHead, Idle, Archive!Running
<1>2. /\ writer[w].key \in Keys /\ Asked(w) \in Pending
      /\ Asked(w).key = writer[w].key /\ Asked(w).value = writer[w].value
      /\ head[writer[w].key] \in 0..Len(nodes) /\ Len(nodes) \in Nat /\ Len(nodes) <= MaxNodes
      /\ written \in Nat
  BY <1>1, InvFacts
<1> DEFINE p == head[writer[w].key]
           c == writer[w].cid
<1>3. /\ "upload" \in Archive!Stages /\ p \in Archive!Cids /\ c \in Archive!Cids
      /\ TypeOK
  BY <1>2, WriterType, TieredAssumption DEF TieredInv, Archive!Stages, Archive!Running, Archive!Cids
<1>4. Becomes(w, "upload", p, c)
  BY <1>3, StepsMean
<1> HIDE DEF p, c
<1>5. /\ writer'[w].stage = "upload" /\ writer'[w].prev = p
      /\ writer'[w].key = writer[w].key /\ writer'[w].value = writer[w].value
      /\ \A u \in Writers \ {w} : writer'[u] = writer[u] /\ Asked(u)' = Asked(u)
      /\ Asked(w)' = Asked(w)
      /\ writer' \in [Writers -> [stage: Archive!Stages, key: Keys \cup {Missing},
                                  value: Versions \cup {Missing},
                                  prev: Archive!Cids, cid: Archive!Cids]]
  BY <1>3, <1>4, BecomesMeans
<1>6. /\ hot' \in [Keys -> Versions \cup {Missing}]
      /\ queue' \in Seq(Entry)
      /\ attempts' \in 0..ArchiveRetries
      /\ reported' \subseteq Entry
      /\ written' \in 0..MaxWrites
      /\ issued' \subseteq Entry
      /\ forgotten' \subseteq Keys
      /\ asyncArchive' \in Modes
      /\ crashes' \in 0..MaxCrashes
      /\ OneAtATime'
      /\ QueueInOrder'
      /\ Pending' \subseteq Pending
      /\ \A u \in Writers \ {w} : Idle(u)'
      /\ writer'[Worker].stage = "ok" => w = Worker
  BY <1>1, <1>3, <1>4, StepLeaves
<1> USE DEF Around, queueVars, logVars
<1>7. TypeOK'
  BY <1>1, <1>5, <1>6 DEF TieredInv, TypeOK, Archive!DriveTypeOK, Writers
<1>8. NodesLinked'
  BY <1>1 DEF TieredInv, NodesLinked
<1>9. PendingNewer'
  BY <1>1, <1>6 DEF TieredInv, PendingNewer, Behind
<1>10. WritersExtend'
  <2>1. Extends(w)'
    <3>1. Behind(Asked(w).key, Asked(w).value)
      BY <1>2 DEF TieredInv, PendingNewer
    <3>2. QED
      BY <1>1, <1>2, <1>5, <3>1 DEF Extends, Behind, p
  <2>2. \A u \in Writers \ {w} : writer'[u].stage \notin {"upload", "writeHead"}
    BY <1>6 DEF Idle, Archive!Running
  <2>3. QED
    BY <1>5, <2>1, <2>2 DEF WritersExtend
<1>11. MirroredIsHead'
  BY <1>5, <1>6 DEF MirroredIsHead
<1>12. HotIsLatest'
  BY <1>1 DEF TieredInv, HotIsLatest, Behind, LastEntry
<1>13. AllSafe'
  <2>1. ASSUME NEW e \in issued, Safe(e)
        PROVE  Safe(e)'
    <3>1. \A u \in Callers : ~ Idle(u) /\ Asked(u) = e => ~ Idle(u)' /\ Asked(u)' = e
      BY <1>1, <1>5, OneRuns DEF Writers, Idle, Archive!Running
    <3>2. QED
      BY <1>1, <2>1, <3>1 DEF Safe, Queued
  <2>2. QED
    BY <2>1 DEF TieredInv, AllSafe
<1>14. QED
  BY <1>6, <1>7, <1>8, <1>9, <1>10, <1>11, <1>12, <1>13 DEF TieredInv

LEMMA LinkedGrows ==
    ASSUME NEW ns, Linked(ns), NEW v \in Nat, NEW p \in 0..Len(ns),
           p # 0 => ns[p].v <= v
    PROVE  LET more == Append(ns, [v |-> v, p |-> p])
           IN  /\ Linked(more)
               /\ Len(more) = Len(ns) + 1
               /\ \A c \in 1..Len(ns) : more[c] = ns[c]
               /\ more[Len(ns) + 1] = [v |-> v, p |-> p]
<1> DEFINE n == [v |-> v, p |-> p]
           more == Append(ns, n)
<1>1. /\ ns \in Seq([v: Nat, p: Nat]) /\ Len(ns) \in Nat
      /\ \A c \in 1..Len(ns) :
          /\ ns[c].v \in Nat /\ ns[c].p \in 0..Len(ns) /\ ns[c].p < c
          /\ ns[c].p # 0 => ns[ns[c].p].v <= ns[c].v
  BY LinkedNodes DEF Linked
<1>2. n \in [v: Nat, p: Nat] /\ n.v = v /\ n.p = p
  BY <1>1
<1> HIDE DEF n
<1>3. /\ more \in Seq([v: Nat, p: Nat]) /\ Len(more) = Len(ns) + 1
      /\ \A c \in 1..Len(ns) : more[c] = ns[c]
      /\ more[Len(ns) + 1] = n
  BY <1>1, <1>2, AppendProperties
<1> HIDE DEF more
<1>4. ASSUME NEW c \in 1..Len(more)
      PROVE  more[c].p < c /\ (more[c].p # 0 => more[more[c].p].v <= more[c].v)
  <2>1. CASE c = Len(ns) + 1
    <3>1. p < c /\ (p # 0 => p \in 1..Len(ns))
      BY <1>1, <2>1
    <3>2. QED
      BY <1>2, <1>3, <2>1, <3>1
  <2>2. CASE c # Len(ns) + 1
    <3>1. c \in 1..Len(ns)
      <4>1. Len(more) = Len(ns) + 1 /\ Len(ns) \in Nat /\ c \in 1..Len(more)
        BY <1>1, <1>3
      <4>2. QED
        BY <2>2, <4>1
    <3>2. c \in 1..Len(ns) /\ more[c] = ns[c]
      BY <1>3, <3>1
    <3>3. ns[c].p # 0 => ns[c].p \in 1..Len(ns)
      BY <1>1, <3>2
    <3>4. QED
      BY <1>1, <1>3, <3>2, <3>3
  <2>3. QED
    BY <2>1, <2>2
<1>5. Linked(more)
  BY <1>3, <1>4 DEF Linked
<1>6. QED
  BY <1>3, <1>5 DEF more, n

LEMMA UploadKeeps ==
    ASSUME TieredInv, OneSet, NEW w \in Writers, Archive!Upload(w), Around(w)
    PROVE  TieredInv'
<1> DEFINE p == writer[w].prev
           c == Len(nodes) + 1
           v == writer[w].value
<1>1. /\ writer[w].stage = "upload" /\ ~ Idle(w) /\ head' = head
      /\ nodes' = Append(nodes, [v |-> v, p |-> p]) /\ Len(nodes) < MaxNodes
  BY DEF Archive!Upload, Idle, Archive!Running
<1>2. /\ writer[w].key \in Keys /\ Asked(w) \in Pending /\ v \in Nat /\ v \in Versions
      /\ Asked(w).key = writer[w].key /\ Asked(w).value = v
      /\ Len(nodes) \in Nat /\ Len(nodes) <= MaxNodes
      /\ nodes \in Seq([v: Versions, p: Archive!Cids])
      /\ written \in Nat /\ \A k \in Keys : head[k] \in 0..Len(nodes)
  BY <1>1, InvFacts
<1>3. Extends(w)
  BY <1>1 DEF TieredInv, WritersExtend
<1>4. /\ "writeHead" \in Archive!Stages /\ p \in Archive!Cids /\ c \in Archive!Cids
      /\ TypeOK
  BY <1>1, <1>2, WriterType, TieredAssumption DEF TieredInv, Archive!Stages, Archive!Running, Archive!Cids
<1>5. Becomes(w, "writeHead", p, c)
  BY <1>4, StepsMean
<1>6. p \in 0..Len(nodes) /\ (p # 0 => nodes[p].v <= v)
  BY <1>3 DEF Extends
<1>7. /\ Linked(nodes) /\ Linked(nodes') /\ Len(nodes') = Len(nodes) + 1
      /\ \A d \in 1..Len(nodes) : nodes'[d] = nodes[d]
      /\ nodes'[c] = [v |-> v, p |-> p]
  BY <1>1, <1>2, <1>6, LinkedGrows DEF TieredInv, NodesLinked
<1>8. nodes' \in Seq([v: Versions, p: Archive!Cids])
  <2>1. [v |-> v, p |-> p] \in [v: Versions, p: Archive!Cids]
    BY <1>2, <1>4
  <2>2. QED
    BY <1>1, <1>2, <2>1, AppendProperties
<1> HIDE DEF p, c, v
<1>9. /\ writer'[w].stage = "writeHead" /\ writer'[w].prev = p /\ writer'[w].cid = c
      /\ writer'[w].key = writer[w].key /\ writer'[w].value = writer[w].value
      /\ \A u \in Writers \ {w} : writer'[u] = writer[u] /\ Asked(u)' = Asked(u)
      /\ Asked(w)' = Asked(w)
      /\ writer' \in [Writers -> [stage: Archive!Stages, key: Keys \cup {Missing},
                                  value: Versions \cup {Missing},
                                  prev: Archive!Cids, cid: Archive!Cids]]
  BY <1>4, <1>5, BecomesMeans
<1>10. /\ hot' \in [Keys -> Versions \cup {Missing}]
       /\ queue' \in Seq(Entry)
       /\ attempts' \in 0..ArchiveRetries
       /\ reported' \subseteq Entry
       /\ written' \in 0..MaxWrites
       /\ issued' \subseteq Entry
       /\ forgotten' \subseteq Keys
       /\ asyncArchive' \in Modes
       /\ crashes' \in 0..MaxCrashes
       /\ OneAtATime'
       /\ QueueInOrder'
       /\ Pending' \subseteq Pending
       /\ \A u \in Writers \ {w} : Idle(u)'
       /\ writer'[Worker].stage = "ok" => w = Worker
  BY <1>1, <1>4, <1>5, StepLeaves
<1> USE DEF Around, queueVars, logVars
<1>11. Len(nodes') \in Nat /\ Len(nodes') <= MaxNodes
  BY <1>1, <1>2, <1>7, TieredAssumption
<1>12. TypeOK'
  <2>1. head' \in [Keys -> 0..Len(nodes')]
    <3>1. 0..Len(nodes) \subseteq 0..Len(nodes')
      BY <1>2, <1>7
    <3>2. QED
      BY <1>1, <3>1 DEF TieredInv, TypeOK, Archive!DriveTypeOK
  <2>2. QED
    BY <1>8, <1>9, <1>10, <1>11, <2>1 DEF TypeOK, Archive!DriveTypeOK, Writers
<1>13. NodesLinked'
  <2>1. ASSUME NEW d \in 1..Len(nodes')
        PROVE  nodes'[d].v <= written'
    <3>1. CASE d = c
      <4>1. v <= written
        BY <1>2 DEF TieredInv, PendingNewer
      <4>2. QED
        BY <1>7, <3>1, <4>1
    <3>2. CASE d # c
      <4>1. d \in 1..Len(nodes)
        BY <1>2, <1>7, <3>2 DEF c
      <4>2. QED
        BY <1>7, <4>1 DEF TieredInv, NodesLinked
    <3>3. QED
      BY <3>1, <3>2
  <2>2. QED
    BY <1>7, <2>1 DEF NodesLinked
<1>14. \A k \in Keys : head[k] # 0 => nodes'[head[k]] = nodes[head[k]]
  BY <1>2, <1>7
<1>15. PendingNewer'
  BY <1>1, <1>10, <1>14, EntryFacts DEF TieredInv, PendingNewer, Behind
<1>16. WritersExtend'
  <2>1. p \in 0..Len(nodes') /\ (p # 0 => nodes'[p].v <= v)
    BY <1>2, <1>6, <1>7
  <2>2. Extends(w)'
    BY <1>1, <1>3, <1>9, <2>1 DEF Extends, p, v
  <2>3. c \in 1..Len(nodes')
    BY <1>2, <1>7 DEF c
  <2>4. \A u \in Writers \ {w} : writer'[u].stage \notin {"upload", "writeHead"}
    BY <1>10 DEF Idle, Archive!Running
  <2>5. QED
    BY <1>7, <1>9, <2>2, <2>3, <2>4 DEF WritersExtend, v
<1>17. MirroredIsHead'
  BY <1>9, <1>10 DEF MirroredIsHead
<1>18. HotIsLatest'
  BY <1>1, <1>14 DEF TieredInv, HotIsLatest, Behind, LastEntry
<1>19. AllSafe'
  <2>1. ASSUME NEW e \in issued, Safe(e)
        PROVE  Safe(e)'
    <3>1. \A u \in Callers : ~ Idle(u) /\ Asked(u) = e => ~ Idle(u)' /\ Asked(u)' = e
      BY <1>1, <1>9, OneRuns DEF Writers, Idle, Archive!Running
    <3>2. Recorded(nodes, head[e.key], e.value) => Recorded(nodes', head[e.key], e.value)
      <4>1. head[e.key] \in 0..Len(nodes)
        BY <1>2, EntryFacts DEF TieredInv, TypeOK
      <4>2. QED
        BY <1>1, <1>7, <4>1, RecordedKept
    <3>3. QED
      BY <1>1, <2>1, <3>1, <3>2 DEF Safe, Queued
  <2>2. QED
    BY <2>1 DEF TieredInv, AllSafe
<1>20. QED
  BY <1>10, <1>12, <1>13, <1>15, <1>16, <1>17, <1>18, <1>19 DEF TieredInv

LEMMA WriteHeadKeeps ==
    ASSUME TieredInv, OneSet, NEW w \in Writers, Archive!WriteHead(w), Around(w)
    PROVE  TieredInv'
<1> DEFINE p == writer[w].prev
           c == writer[w].cid
           v == writer[w].value
           k == writer[w].key
<1>1. /\ writer[w].stage = "writeHead" /\ ~ Idle(w) /\ nodes' = nodes
      /\ head' = [head EXCEPT ![k] = c]
  BY DEF Archive!WriteHead, Idle, Archive!Running
<1>2. /\ k \in Keys /\ Asked(w) \in Pending /\ v \in Nat
      /\ Asked(w).key = k /\ Asked(w).value = v
      /\ Len(nodes) \in Nat /\ Len(nodes) <= MaxNodes
      /\ written \in Nat /\ \A l \in Keys : head[l] \in 0..Len(nodes)
      /\ Len(queue) \in Nat
  BY <1>1, InvFacts
<1>3. Extends(w) /\ c \in 1..Len(nodes) /\ nodes[c] = [v |-> v, p |-> p]
  BY <1>1 DEF TieredInv, WritersExtend
<1>4. p \in Archive!Cids /\ c \in Archive!Cids /\ TypeOK
  BY WriterType DEF TieredInv
<1>5. PICK o \in {"ok", "failed"} : Becomes(w, o, p, c)
  BY <1>4, StepsMean
<1>6. o \in Archive!Stages
  BY DEF Archive!Stages
<1> HIDE DEF p, c, v, k
<1>7. /\ writer'[w].stage = o
      /\ writer'[w].key = writer[w].key /\ writer'[w].value = writer[w].value
      /\ \A u \in Writers \ {w} : writer'[u] = writer[u] /\ Asked(u)' = Asked(u)
      /\ Asked(w)' = Asked(w)
      /\ writer' \in [Writers -> [stage: Archive!Stages, key: Keys \cup {Missing},
                                  value: Versions \cup {Missing},
                                  prev: Archive!Cids, cid: Archive!Cids]]
  BY <1>4, <1>5, <1>6, BecomesMeans
<1>8. /\ hot' \in [Keys -> Versions \cup {Missing}]
      /\ queue' \in Seq(Entry)
      /\ attempts' \in 0..ArchiveRetries
      /\ reported' \subseteq Entry
      /\ written' \in 0..MaxWrites
      /\ issued' \subseteq Entry
      /\ forgotten' \subseteq Keys
      /\ asyncArchive' \in Modes
      /\ crashes' \in 0..MaxCrashes
      /\ OneAtATime'
      /\ QueueInOrder'
      /\ Pending' \subseteq Pending
      /\ \A u \in Writers \ {w} : Idle(u)'
      /\ writer'[Worker].stage = "ok" => w = Worker
  BY <1>1, <1>4, <1>5, <1>6, StepLeaves
<1>9. \A u \in Writers : Idle(u)'
  BY <1>7, <1>8 DEF Idle, Archive!Running
<1> USE DEF Around, queueVars, logVars
<1>10. head' \in [Keys -> 0..Len(nodes)] /\ head'[k] = c /\ nodes[c].v = v /\ nodes[c].p = p
       /\ \A l \in Keys \ {k} : head'[l] = head[l]
  BY <1>1, <1>2, <1>3 DEF TieredInv, TypeOK, Archive!DriveTypeOK
<1>11. TypeOK'
  BY <1>1, <1>7, <1>8, <1>10 DEF TieredInv, TypeOK, Archive!DriveTypeOK, Writers
<1>12. NodesLinked'
  BY <1>1 DEF TieredInv, NodesLinked
<1>13. PendingNewer'
  <2>1. Pending' = Queued
    BY <1>9 DEF Pending, Queued
  <2>2. ASSUME NEW e \in Queued
        PROVE  Behind(e.key, e.value)'
    <3>1. e \in Pending
      BY DEF Pending
    <3>2. PICK i \in 1..Len(queue) : e = queue[i]
      BY DEF Queued
    <3>3. queue # <<>> /\ 1 \in 1..Len(queue) /\ 1 <= i
      BY <1>2, <3>2
    <3>4. Asked(w) = queue[1]
      BY <1>1, <3>3, OneRuns
    <3>5. v <= e.value
      BY <1>2, <3>2, <3>3, <3>4 DEF TieredInv, QueueInOrder
    <3>6. Behind(e.key, e.value) /\ e.key \in Keys
      BY <3>1, EntryFacts DEF TieredInv, PendingNewer
    <3>7. QED
      BY <1>1, <1>10, <3>5, <3>6 DEF Behind
  <2>3. QED
    BY <1>8, <2>1, <2>2 DEF TieredInv, PendingNewer
<1>14. WritersExtend'
  <2>1. \A u \in Writers : writer'[u].stage \notin {"upload", "writeHead"}
    BY <1>9 DEF Idle, Archive!Running
  <2>2. QED
    BY <2>1 DEF WritersExtend
<1>15. MirroredIsHead'
  <2>1. SUFFICES ASSUME w = Worker
                 PROVE  head'[k] # 0 /\ nodes'[head'[k]].v = v
    BY <1>7, <1>8 DEF MirroredIsHead, k, v
  <2>2. QED
    BY <1>1, <1>3, <1>10
<1>16. HotIsLatest'
  <2>1. ASSUME NEW l \in Keys, hot[l] # Missing
        PROVE  Behind(l, hot[l])'
    <3>1. CASE l = k
      <4>1. v <= hot[k]
        BY <1>2, <2>1, <3>1 DEF TieredInv, PendingNewer
      <4>2. QED
        BY <1>1, <1>10, <3>1, <4>1 DEF Behind
    <3>2. CASE l # k
      BY <1>1, <1>10, <2>1, <3>2 DEF TieredInv, HotIsLatest, Behind
    <3>3. QED
      BY <3>1, <3>2
  <2>2. QED
    BY <2>1 DEF TieredInv, HotIsLatest, LastEntry
<1>17. AllSafe'
  <2>1. Linked(nodes)
    BY DEF TieredInv, NodesLinked
  <2>2. Recorded(nodes, c, v) /\ \A x : Recorded(nodes, p, x) => Recorded(nodes, c, x)
    BY <1>3, <1>10, <2>1, RecordedGrows
  <2>3. ASSUME NEW e \in issued, Safe(e)
        PROVE  Safe(e)'
    <3>1. e.key \in Keys
      BY EntryFacts DEF TieredInv, TypeOK
    <3>2. CASE e.key \in forgotten \/ e \in Queued \/ e \in reported
      BY <3>2 DEF Safe, Queued
    <3>3. ASSUME NEW u \in Callers, ~ Idle(u), Asked(u) = e
          PROVE  Safe(e)'
      <4>1. u = w
        BY <1>1, <3>3, OneRuns DEF Writers
      <4>2. Recorded(nodes', head'[e.key], e.value)
        BY <1>1, <1>2, <1>10, <2>2, <3>3, <4>1
      <4>3. QED
        BY <4>2 DEF Safe
    <3>4. CASE Recorded(nodes, head[e.key], e.value)
      <4>1. CASE e.key # k
        BY <1>1, <1>10, <3>1, <3>4, <4>1 DEF Safe
      <4>2. CASE e.key = k
        <5>1. CASE p = head[k]
          BY <1>1, <1>10, <2>2, <3>4, <4>2, <5>1 DEF Safe
        <5>2. CASE k \in forgotten
          BY <4>2, <5>2 DEF Safe
        <5>3. QED
          BY <1>3, <5>1, <5>2 DEF Extends, p, k
      <4>3. QED
        BY <4>1, <4>2
    <3>5. QED
      BY <2>3, <3>2, <3>3, <3>4 DEF Safe
  <2>4. QED
    BY <2>3 DEF TieredInv, AllSafe
<1>18. QED
  BY <1>8, <1>11, <1>12, <1>13, <1>14, <1>15, <1>16, <1>17 DEF TieredInv

LEMMA SetFailsKeeps ==
    ASSUME TieredInv, OneSet, NEW w \in Writers, Archive!SetFails(w), Around(w)
    PROVE  TieredInv'
<1> DEFINE p == writer[w].prev
           c == writer[w].cid
<1>1. ~ Idle(w) /\ nodes' = nodes /\ head' = head
  BY DEF Archive!SetFails, Idle
<1>2. p \in Archive!Cids /\ c \in Archive!Cids /\ TypeOK /\ "failed" \in Archive!Stages
  BY WriterType DEF TieredInv, Archive!Stages
<1>3. Becomes(w, "failed", p, c)
  BY <1>2, StepsMean
<1> HIDE DEF p, c
<1>4. /\ writer'[w].stage = "failed"
      /\ \A u \in Writers \ {w} : writer'[u] = writer[u] /\ Asked(u)' = Asked(u)
      /\ writer' \in [Writers -> [stage: Archive!Stages, key: Keys \cup {Missing},
                                  value: Versions \cup {Missing},
                                  prev: Archive!Cids, cid: Archive!Cids]]
  BY <1>2, <1>3, BecomesMeans
<1>5. /\ hot' \in [Keys -> Versions \cup {Missing}]
      /\ queue' \in Seq(Entry)
      /\ attempts' \in 0..ArchiveRetries
      /\ reported' \subseteq Entry
      /\ written' \in 0..MaxWrites
      /\ issued' \subseteq Entry
      /\ forgotten' \subseteq Keys
      /\ asyncArchive' \in Modes
      /\ crashes' \in 0..MaxCrashes
      /\ OneAtATime'
      /\ QueueInOrder'
      /\ Pending' \subseteq Pending
      /\ \A u \in Writers \ {w} : Idle(u)'
      /\ writer'[Worker].stage = "ok" => w = Worker
  BY <1>1, <1>2, <1>3, StepLeaves
<1>6. \A u \in Writers : Idle(u)'
  BY <1>4, <1>5 DEF Idle, Archive!Running
<1> USE DEF Around, queueVars, logVars
<1>7. TypeOK'
  BY <1>1, <1>4, <1>5 DEF TieredInv, TypeOK, Archive!DriveTypeOK, Writers
<1>8. NodesLinked'
  BY <1>1 DEF TieredInv, NodesLinked
<1>9. PendingNewer'
  BY <1>1, <1>5 DEF TieredInv, PendingNewer, Behind
<1>10. WritersExtend'
  <2>1. \A u \in Writers : writer'[u].stage \notin {"upload", "writeHead"}
    BY <1>6 DEF Idle, Archive!Running
  <2>2. QED
    BY <2>1 DEF WritersExtend
<1>11. MirroredIsHead'
  BY <1>4, <1>5 DEF MirroredIsHead
<1>12. HotIsLatest'
  BY <1>1 DEF TieredInv, HotIsLatest, Behind, LastEntry
<1>13. AllSafe'
  <2>1. ASSUME NEW e \in issued, Safe(e)
        PROVE  Safe(e)'
    <3>1. ASSUME NEW u \in Callers, ~ Idle(u), Asked(u) = e
          PROVE  e \in reported'
      BY <1>1, <1>4, <3>1, OneRuns DEF Writers
    <3>2. QED
      BY <1>1, <2>1, <3>1 DEF Safe, Queued
  <2>2. QED
    BY <2>1 DEF TieredInv, AllSafe
<1>14. QED
  BY <1>5, <1>7, <1>8, <1>9, <1>10, <1>11, <1>12, <1>13 DEF TieredInv

\* Every step of a set() of the archive, of the worker or of a caller.
LEMMA ArchivingKeeps ==
    ASSUME TieredInv, OneSet,
           WorkerArchives \/ \E c \in Callers : CallerArchives(c)
    PROVE  TieredInv'
<1>1. PICK w \in Writers : Archive!SetStep(w) /\ Around(w)
  <2>1. CASE WorkerArchives
    <3>1. Worker \in Writers /\ Worker \notin Callers
      BY TieredAssumption DEF Writers
    <3>2. Archive!SetStep(Worker) /\ Around(Worker)
      BY <2>1, <3>1 DEF WorkerArchives, Around
    <3>3. QED
      BY <3>1, <3>2
  <2>2. ASSUME NEW c \in Callers, CallerArchives(c)
        PROVE  Archive!SetStep(c) /\ Around(c) /\ c \in Writers
    BY <2>2 DEF CallerArchives, Around, Writers, Asked
  <2>3. QED
    BY <2>1, <2>2
<1>2. QED
  BY <1>1, ReadHeadKeeps, UploadKeeps, WriteHeadKeeps, SetFailsKeeps DEF Archive!SetStep

(***************************************************************************)
(* The steps of the tiered store keep it.                                  *)
(***************************************************************************)
LEMMA SetKeeps ==
    ASSUME TieredInv, NEW c \in Callers, NEW k \in Keys, Set(c, k)
    PROVE  TieredInv'
<1> PICK v, e0 : v = written + 1 /\ e0 = [key |-> k, value |-> v]
  OBVIOUS
<1> DEFINE Mirrored0 == k \in Archived /\ asyncArchive
           Calls == k \in Archived /\ ~ asyncArchive
<1>1. /\ Idle(c) /\ written < MaxWrites /\ written' = v
      /\ hot' = [hot EXCEPT ![k] = v]
      /\ queue' = IF Mirrored0 THEN Append(queue, e0) ELSE queue
      /\ writer' = IF Calls THEN Archive!Calling(c, k, v) ELSE writer
      /\ issued' = IF k \in Archived THEN issued \cup {e0} ELSE issued
      /\ UNCHANGED <<nodes, head, attempts, reported, forgotten, crashes, asyncArchive>>
  BY DEF Set
<1>2. /\ queue \in Seq(Entry) /\ Len(queue) \in Nat
      /\ \A i \in 1..Len(queue) : queue[i] \in Entry
      /\ written \in Nat /\ TypeOK
      /\ \A d \in 1..Len(nodes) : nodes[d].v \in Nat /\ nodes[d].v <= written
      /\ \A l \in Keys : head[l] \in 0..Len(nodes)
      /\ Len(nodes) \in Nat
  BY InvFacts DEF TieredInv
<1>3. v \in Versions /\ v \in Nat /\ v > written /\ v \in 0..MaxWrites
  BY <1>1, <1>2, TieredAssumption DEF Versions
<1>4. e0 \in Entry /\ e0.key = k /\ e0.value = v
  BY <1>3 DEF Entry
<1>5. \A e \in Pending : e \in Entry /\ e.value <= written /\ e.value \in Nat
  BY EntryFacts DEF TieredInv, PendingNewer
<1>6. c \in Writers /\ c # Worker /\ Worker \in Writers
  BY TieredAssumption DEF Writers
<1>7. /\ queue' \in Seq(Entry) /\ QueueInOrder'
      /\ Queued \subseteq Queued' /\ Queued' \subseteq Queued \cup {e0}
      /\ queue # <<>> => queue' # <<>> /\ queue'[1] = queue[1]
      /\ Mirrored0 => e0 \in Queued'
  <2>1. CASE ~ Mirrored0
    <3>1. queue' = queue
      BY <1>1, <2>1
    <3>2. QED
      BY <1>2, <2>1, <3>1 DEF TieredInv, QueueInOrder, Queued
  <2>2. CASE Mirrored0
    <3>1. queue' = Append(queue, e0)
      BY <1>1, <2>2
    <3>2. /\ queue' \in Seq(Entry) /\ Len(queue') = Len(queue) + 1
          /\ \A i \in 1..Len(queue) : queue'[i] = queue[i]
          /\ queue'[Len(queue) + 1] = e0
      BY <1>2, <1>4, <3>1, AppendProperties
    <3>3. ASSUME NEW i \in 1..Len(queue'), NEW j \in 1..Len(queue'), i <= j
          PROVE  queue'[i].value <= queue'[j].value
      <4>1. CASE j \in 1..Len(queue)
        <5>1. i \in 1..Len(queue)
          BY <1>2, <3>3, <4>1
        <5>2. QED
          BY <3>2, <3>3, <4>1, <5>1 DEF TieredInv, QueueInOrder
      <4>2. CASE j = Len(queue) + 1
        <5>1. CASE i = Len(queue) + 1
          BY <1>3, <1>4, <3>2, <4>2, <5>1
        <5>2. CASE i # Len(queue) + 1
          <6>1. i \in 1..Len(queue)
            BY <1>2, <3>2, <5>2
          <6>2. queue[i] \in Pending
            BY <6>1 DEF Pending, Queued
          <6>3. QED
            BY <1>2, <1>3, <1>4, <1>5, <3>2, <4>2, <6>1, <6>2
        <5>3. QED
          BY <5>1, <5>2
      <4>3. QED
        BY <1>2, <3>2, <4>1, <4>2
    <3>4. queue # <<>> => queue' # <<>> /\ queue'[1] = queue[1]
      <4>1. queue # <<>> => 1 \in 1..Len(queue)
        BY <1>2
      <4>2. QED
        BY <1>2, <3>2, <4>1
    <3>5. Queued \subseteq Queued' /\ Queued' \subseteq Queued \cup {e0} /\ e0 \in Queued'
      <4>1. Len(queue) + 1 \in 1..Len(queue') /\ \A i \in 1..Len(queue) : i \in 1..Len(queue')
        BY <1>2, <3>2
      <4>2. \A i \in 1..Len(queue') : i \in 1..Len(queue) \/ i = Len(queue) + 1
        BY <1>2, <3>2
      <4>3. QED
        BY <3>2, <4>1, <4>2 DEF Queued
    <3>6. QED
      BY <3>2, <3>3, <3>4, <3>5 DEF QueueInOrder
  <2>3. QED
    BY <2>1, <2>2
<1>8. /\ writer' \in [Writers -> [stage: Archive!Stages, key: Keys \cup {Missing},
                                  value: Versions \cup {Missing},
                                  prev: Archive!Cids, cid: Archive!Cids]]
      /\ \A u \in Writers \ {c} : writer'[u] = writer[u] /\ Asked(u)' = Asked(u)
      /\ Calls => writer'[c].stage = "readHead" /\ Asked(c)' = e0
      /\ ~ Calls => writer' = writer
  <2>1. CASE ~ Calls
    <3>1. writer' = writer
      BY <1>1, <2>1
    <3>2. QED
      BY <1>2, <2>1, <3>1 DEF TypeOK, Archive!DriveTypeOK, Writers, Asked
  <2>2. CASE Calls
    <3> DEFINE r == [stage |-> "readHead", key |-> k, value |-> v, prev |-> 0, cid |-> 0]
    <3>1. Moves(c, r)
      BY <1>1, <1>3, <2>2, TieredAssumption
         DEF Moves, Archive!Calling, Archive!NoCid, Archive!Stages, Archive!Running, Archive!Cids
    <3>2. r.stage = "readHead" /\ r.key = k /\ r.value = v
      OBVIOUS
    <3> HIDE DEF r
    <3>3. /\ writer'[c] = r /\ \A u \in Writers \ {c} : writer'[u] = writer[u]
          /\ writer' \in [Writers -> [stage: Archive!Stages, key: Keys \cup {Missing},
                                      value: Versions \cup {Missing},
                                      prev: Archive!Cids, cid: Archive!Cids]]
      BY <1>2, <1>6, <3>1, MovesMeans
    <3>4. QED
      BY <2>2, <3>2, <3>3 DEF Asked
  <2>3. QED
    BY <2>1, <2>2
<1>9. \A u \in Writers : writer'[u].stage # "readHead" => writer'[u] = writer[u] /\ Asked(u)' = Asked(u)
  <2>1. ~ Calls => Asked(c)' = Asked(c)
    BY <1>8 DEF Asked
  <2>2. QED
    BY <1>6, <1>8, <2>1
<1>10. Pending' \subseteq Pending \cup {e0}
  <2>1. ASSUME NEW u \in Writers, ~ Idle(u)'
        PROVE  Asked(u)' \in Pending \cup {e0}
    <3>1. CASE u = c
      <4>1. Calls
        BY <1>1, <1>8, <2>1, <3>1 DEF Idle
      <4>2. QED
        BY <1>8, <3>1, <4>1
    <3>2. CASE u # c
      BY <1>8, <2>1, <3>2, InvFacts DEF Idle
    <3>3. QED
      BY <3>1, <3>2
  <2>2. Queued' \subseteq Pending \cup {e0}
    BY <1>7 DEF Pending
  <2>3. QED
    BY <2>1, <2>2 DEF Pending
<1>11. hot'[k] = v /\ \A l \in Keys \ {k} : hot'[l] = hot[l]
  BY <1>1, <1>2 DEF TypeOK
<1>12. TypeOK'
  <2>1. hot' \in [Keys -> Versions \cup {Missing}]
    BY <1>1, <1>2, <1>3 DEF TypeOK
  <2>2. issued' \subseteq Entry
    BY <1>1, <1>2, <1>4 DEF TypeOK
  <2>3. QED
    BY <1>1, <1>2, <1>3, <1>7, <1>8, <2>1, <2>2 DEF TypeOK, Archive!DriveTypeOK, Writers
<1>13. OneAtATime'
  <2>1. asyncArchive' => \A u \in Callers : Idle(u)'
    BY <1>1, <1>8 DEF TieredInv, OneAtATime, Idle
  <2>2. ~ asyncArchive' => queue' = <<>>
    BY <1>1 DEF TieredInv, OneAtATime
  <2>3. writer'[Worker].stage # "idle" => queue' # <<>> /\ Asked(Worker)' = queue'[1]
    BY <1>6, <1>7, <1>8 DEF TieredInv, OneAtATime
  <2>4. QED
    BY <2>1, <2>2, <2>3 DEF OneAtATime
<1>14. NodesLinked'
  BY <1>1, <1>2, <1>3 DEF TieredInv, NodesLinked
<1>15. \A l \in Keys : Behind(l, v)
  BY <1>2, <1>3 DEF Behind
<1>16. PendingNewer'
  <2>1. ASSUME NEW e \in Pending
        PROVE  /\ e \in Entry /\ e.value <= written'
               /\ Behind(e.key, e.value)'
               /\ hot'[e.key] # Missing => e.value <= hot'[e.key]
    <3>1. e.value <= written' /\ e.value <= v
      BY <1>1, <1>2, <1>3, <1>5
    <3>2. Behind(e.key, e.value)'
      BY <1>1 DEF TieredInv, PendingNewer, Behind
    <3>3. hot'[e.key] # Missing => e.value <= hot'[e.key]
      BY <1>5, <1>11, <3>1, EntryFacts DEF TieredInv, PendingNewer
    <3>4. QED
      BY <1>5, <3>1, <3>2, <3>3
  <2>2. /\ e0 \in Entry /\ e0.value <= written'
        /\ Behind(e0.key, e0.value)'
        /\ hot'[e0.key] # Missing => e0.value <= hot'[e0.key]
    BY <1>1, <1>3, <1>4, <1>11, <1>15 DEF Behind
  <2>3. QED
    BY <1>10, <2>1, <2>2 DEF PendingNewer
<1>17. WritersExtend'
  BY <1>1, <1>9 DEF TieredInv, WritersExtend, Extends
<1>18. MirroredIsHead'
  BY <1>1, <1>6, <1>8 DEF TieredInv, MirroredIsHead
<1>19. HotIsLatest'
  <2>1. ASSUME NEW l \in Keys \ {k}, hot[l] # Missing
        PROVE  /\ hot[l] <= written' /\ Behind(l, hot[l])'
               /\ l \in Archived => LastEntry(l)' \in issued'
    <3>1. hot[l] \in Nat
      BY <2>1, InvFacts
    <3>2. QED
      BY <1>1, <1>2, <1>3, <1>11, <2>1, <3>1 DEF TieredInv, HotIsLatest, Behind, LastEntry
  <2>2. /\ v <= written' /\ Behind(k, v)'
        /\ k \in Archived => LastEntry(k)' \in issued'
    BY <1>1, <1>3, <1>11, <1>15 DEF Behind, LastEntry
  <2>3. QED
    BY <1>11, <2>1, <2>2 DEF HotIsLatest
<1>20. AllSafe'
  <2>1. ASSUME NEW e \in issued, Safe(e)
        PROVE  Safe(e)'
    <3>1. \A u \in Callers : ~ Idle(u) /\ Asked(u) = e => ~ Idle(u)' /\ Asked(u)' = e
      BY <1>1, <1>8 DEF Writers, Idle
    <3>2. QED
      BY <1>1, <1>7, <2>1, <3>1 DEF Safe
  <2>2. k \in Archived => Safe(e0)'
    <3>1. Calls => ~ Idle(c)' /\ Asked(c)' = e0
      BY <1>8 DEF Idle, Archive!Running
    <3>2. QED
      BY <1>7, <3>1 DEF Safe
  <2>3. QED
    BY <1>1, <2>1, <2>2 DEF TieredInv, AllSafe
<1>21. QED
  BY <1>7, <1>12, <1>13, <1>14, <1>16, <1>17, <1>18, <1>19, <1>20 DEF TieredInv

LEMMA DeleteKeeps ==
    ASSUME TieredInv, NEW k \in Keys, Delete(k)
    PROVE  TieredInv'
<1>1. /\ hot' = [hot EXCEPT ![k] = Missing]
      /\ UNCHANGED <<nodes, head, writer, queue, attempts, reported, logVars>>
  BY DEF Delete
<1>2. /\ hot' \in [Keys -> Versions \cup {Missing}] /\ hot'[k] = Missing
      /\ \A l \in Keys \ {k} : hot'[l] = hot[l]
  BY <1>1 DEF TieredInv, TypeOK
<1> USE DEF logVars
<1>3. TypeOK'
  BY <1>1, <1>2 DEF TieredInv, TypeOK, Archive!DriveTypeOK
<1>4. OneAtATime' /\ NodesLinked' /\ QueueInOrder'
  BY <1>1 DEF TieredInv, OneAtATime, NodesLinked, QueueInOrder, Idle, Asked
<1>5. Pending' = Pending
  BY <1>1 DEF Pending, Queued, Asked, Idle
<1>6. PendingNewer'
  BY <1>1, <1>2, <1>5, EntryFacts DEF TieredInv, PendingNewer, Behind
<1>7. WritersExtend' /\ MirroredIsHead'
  BY <1>1 DEF TieredInv, WritersExtend, Extends, MirroredIsHead
<1>8. HotIsLatest'
  BY <1>1, <1>2 DEF TieredInv, HotIsLatest, Behind, LastEntry
<1>9. AllSafe'
  BY <1>1 DEF TieredInv, AllSafe, Safe, Queued, Idle, Asked
<1>10. QED
  BY <1>3, <1>4, <1>6, <1>7, <1>8, <1>9 DEF TieredInv

LEMMA ForgetKeeps ==
    ASSUME TieredInv, NEW k \in Keys, Forget(k)
    PROVE  TieredInv'
<1>1. /\ head' = [head EXCEPT ![k] = 0]
      /\ forgotten' = forgotten \cup {k}
      /\ UNCHANGED <<nodes, writer, queueVars, reported, written, issued, crashes, asyncArchive>>
  BY DEF Forget, Archive!DropHead, Archive!NoCid
<1>2. /\ Len(nodes) \in Nat
      /\ \A w \in Writers : ~ Idle(w) => writer[w].key \in Keys
      /\ \A i \in 1..Len(queue) : queue[i] \in Entry
      /\ Len(queue) \in Nat
  BY InvFacts
<1>3. /\ head' \in [Keys -> 0..Len(nodes)] /\ head'[k] = 0
      /\ \A l \in Keys \ {k} : head'[l] = head[l]
  BY <1>1, <1>2 DEF TieredInv, TypeOK, Archive!DriveTypeOK
<1> USE DEF queueVars
<1>4. TypeOK'
  BY <1>1, <1>3 DEF TieredInv, TypeOK, Archive!DriveTypeOK
<1>5. OneAtATime' /\ NodesLinked' /\ QueueInOrder'
  BY <1>1 DEF TieredInv, OneAtATime, NodesLinked, QueueInOrder, Idle, Asked
<1>6. \A l \in Keys : \A x : Behind(l, x) => Behind(l, x)'
  BY <1>1, <1>3 DEF Behind
<1>7. PendingNewer'
  <2>1. Pending' = Pending
    BY <1>1 DEF Pending, Queued, Asked, Idle
  <2>2. \A e \in Pending : Behind(e.key, e.value)'
    BY <1>1, <1>3, EntryFacts DEF TieredInv, PendingNewer, Behind
  <2>3. QED
    BY <1>1, <2>1, <2>2 DEF TieredInv, PendingNewer
<1>8. WritersExtend'
  <2>1. ASSUME NEW w \in Writers, writer[w].stage \in {"upload", "writeHead"}
        PROVE  Extends(w)'
    <3>1. writer[w].key \in Keys
      BY <1>2, <2>1 DEF Idle, Archive!Running
    <3>2. Extends(w)
      BY <2>1 DEF TieredInv, WritersExtend
    <3>3. QED
      BY <1>1, <1>3, <3>1, <3>2 DEF Extends
  <2>2. QED
    BY <1>1, <2>1 DEF TieredInv, WritersExtend
<1>9. MirroredIsHead'
  <2>1. SUFFICES ASSUME writer[Worker].stage = "ok"
                 PROVE  \/ writer[Worker].key \in forgotten'
                        \/ /\ head'[writer[Worker].key] # 0
                           /\ nodes[head'[writer[Worker].key]].v = writer[Worker].value
    BY <1>1 DEF MirroredIsHead
  <2>2. queue # <<>> /\ Asked(Worker) = queue[1]
    BY <2>1 DEF TieredInv, OneAtATime
  <2>3. writer[Worker].key \in Keys
    <3>1. queue[1] \in Entry
      BY <1>2, <2>2 DEF TieredInv, TypeOK
    <3>2. QED
      BY <2>2, <3>1, EntryFacts DEF Asked
  <2>4. QED
    BY <1>1, <1>3, <2>1, <2>3 DEF TieredInv, MirroredIsHead
<1>10. HotIsLatest'
  BY <1>1, <1>3 DEF TieredInv, HotIsLatest, Behind, LastEntry
<1>11. AllSafe'
  <2>1. ASSUME NEW e \in issued, Safe(e)
        PROVE  Safe(e)'
    <3>1. e.key \in Keys
      BY EntryFacts DEF TieredInv, TypeOK
    <3>2. QED
      BY <1>1, <1>3, <2>1, <3>1 DEF Safe, Queued, Idle, Asked
  <2>2. QED
    BY <1>1, <2>1 DEF TieredInv, AllSafe
<1>12. QED
  BY <1>4, <1>5, <1>7, <1>8, <1>9, <1>10, <1>11 DEF TieredInv

LEMMA AttemptKeeps ==
    ASSUME TieredInv, Attempt
    PROVE  TieredInv'
<1> DEFINE r == [stage |-> "readHead", key |-> Head(queue).key,
                 value |-> Head(queue).value, prev |-> 0, cid |-> 0]
<1>1. /\ queue # <<>> /\ attempts < ArchiveRetries /\ attempts' = attempts + 1
      /\ writer' = [writer EXCEPT ![Worker] = r]
      /\ UNCHANGED <<nodes, head, hot, queue, reported, logVars>>
  BY DEF Attempt, Archive!Calling, Archive!NoCid
<1>2. /\ queue \in Seq(Entry) /\ Len(queue) \in Nat /\ 1 \in 1..Len(queue)
      /\ queue[1] \in Entry /\ Head(queue) = queue[1] /\ TypeOK
  BY <1>1, InvFacts DEF TieredInv
<1>3. Worker \in Writers /\ \A c \in Callers : c \in Writers \ {Worker}
  BY TieredAssumption DEF Writers
<1>4. Moves(Worker, r)
  BY <1>1, <1>2, EntryFacts, TieredAssumption
     DEF Moves, Archive!Stages, Archive!Running, Archive!Cids
<1>5. r.stage = "readHead" /\ [key |-> r.key, value |-> r.value] = queue[1]
  BY <1>2, EntryFacts
<1> HIDE DEF r
<1>6. /\ writer'[Worker] = r /\ \A u \in Writers \ {Worker} : writer'[u] = writer[u]
      /\ writer' \in [Writers -> [stage: Archive!Stages, key: Keys \cup {Missing},
                                  value: Versions \cup {Missing},
                                  prev: Archive!Cids, cid: Archive!Cids]]
  BY <1>2, <1>3, <1>4, MovesMeans
<1>7. Asked(Worker)' = queue[1]
  BY <1>5, <1>6 DEF Asked
<1> USE DEF logVars
<1>8. TypeOK'
  <2>1. attempts' \in 0..ArchiveRetries
    BY <1>1, <1>2, TieredAssumption DEF TypeOK
  <2>2. QED
    BY <1>1, <1>2, <1>6, <2>1 DEF TypeOK, Archive!DriveTypeOK, Writers
<1>9. OneAtATime'
  BY <1>1, <1>3, <1>6, <1>7 DEF TieredInv, OneAtATime, Idle
<1>10. NodesLinked' /\ QueueInOrder'
  BY <1>1 DEF TieredInv, NodesLinked, QueueInOrder
<1>11. PendingNewer'
  <2>1. ASSUME NEW u \in Writers, ~ Idle(u)'
        PROVE  Asked(u)' \in Pending
    <3>1. CASE u = Worker
      BY <1>2, <1>7, <3>1 DEF Pending, Queued
    <3>2. CASE u # Worker
      BY <1>6, <2>1, <3>2, InvFacts DEF Idle, Asked
    <3>3. QED
      BY <3>1, <3>2
  <2>2. Pending' \subseteq Pending
    BY <1>1, <2>1 DEF Pending, Queued
  <2>3. QED
    BY <1>1, <2>2 DEF TieredInv, PendingNewer, Behind
<1>12. WritersExtend'
  BY <1>1, <1>5, <1>6 DEF TieredInv, WritersExtend, Extends
<1>13. MirroredIsHead'
  BY <1>5, <1>6 DEF MirroredIsHead
<1>14. HotIsLatest'
  BY <1>1 DEF TieredInv, HotIsLatest, Behind, LastEntry
<1>15. AllSafe'
  BY <1>1, <1>3, <1>6 DEF TieredInv, AllSafe, Safe, Queued, Idle, Asked
<1>16. QED
  BY <1>8, <1>9, <1>10, <1>11, <1>12, <1>13, <1>14, <1>15 DEF TieredInv

\* The first entry leaves the queue when it is recorded or reported.
LEMMA NextEntryKeeps ==
    ASSUME TieredInv, queue # <<>>, Idle(Worker), NextEntry(Worker),
           UNCHANGED <<nodes, head, hot, logVars>>,
           reported' = reported \/ reported' = reported \cup {queue[1]},
           \/ queue[1].key \in forgotten
           \/ Recorded(nodes, head[queue[1].key], queue[1].value)
           \/ queue[1] \in reported'
    PROVE  TieredInv'
<1>1. /\ queue' = Tail(queue) /\ attempts' = 0
      /\ writer' = [writer EXCEPT ![Worker] = Archive!IdleWriter]
  BY DEF NextEntry
<1>2. /\ queue \in Seq(Entry) /\ Len(queue) \in Nat /\ 1 \in 1..Len(queue)
      /\ queue[1] \in Entry /\ TypeOK
  BY InvFacts DEF TieredInv
<1>3. Worker \in Writers /\ \A c \in Callers : c \in Writers \ {Worker}
  BY TieredAssumption DEF Writers
<1>4. /\ Moves(Worker, Archive!IdleWriter) /\ Archive!IdleWriter.stage = "idle"
  BY <1>1, TieredAssumption
     DEF Moves, Archive!Stages, Archive!Running, Archive!Cids, Archive!IdleWriter, Archive!NoCid
<1>5. /\ writer'[Worker].stage = "idle"
      /\ \A u \in Writers \ {Worker} : writer'[u] = writer[u]
      /\ writer' \in [Writers -> [stage: Archive!Stages, key: Keys \cup {Missing},
                                  value: Versions \cup {Missing},
                                  prev: Archive!Cids, cid: Archive!Cids]]
  BY <1>2, <1>3, <1>4, MovesMeans
<1>6. /\ queue' \in Seq(Entry) /\ Len(queue') = Len(queue) - 1
      /\ \A i \in 1..Len(queue') : queue'[i] = queue[i + 1]
  BY <1>1, <1>2, HeadTailProperties
<1>7. Queued' \subseteq Queued /\ Queued \subseteq Queued' \cup {queue[1]}
  <2>1. \A i \in 1..Len(queue') : i + 1 \in 1..Len(queue)
    BY <1>2, <1>6
  <2>2. \A i \in 1..Len(queue) : i = 1 \/ (i - 1 \in 1..Len(queue') /\ (i - 1) + 1 = i)
    BY <1>2, <1>6
  <2>3. ASSUME NEW i \in 1..Len(queue')
        PROVE  queue'[i] \in Queued
    BY <1>6, <2>1 DEF Queued
  <2>4. ASSUME NEW i \in 1..Len(queue), i # 1
        PROVE  queue[i] \in Queued'
    <3>1. queue'[i - 1] = queue[i] /\ i - 1 \in 1..Len(queue')
      BY <1>6, <2>2, <2>4
    <3>2. QED
      BY <3>1 DEF Queued
  <2>5. QED
    BY <2>3, <2>4 DEF Queued
<1> USE DEF logVars
<1>8. TypeOK'
  <2>1. attempts' \in 0..ArchiveRetries
    BY <1>1, TieredAssumption
  <2>2. QED
    BY <1>2, <1>5, <1>6, <2>1 DEF TypeOK, Archive!DriveTypeOK, Writers
<1>9. OneAtATime'
  <2>1. asyncArchive \in BOOLEAN /\ asyncArchive
    BY <1>2, TieredAssumption DEF TieredInv, TypeOK, OneAtATime
  <2>2. QED
    BY <1>3, <1>5, <2>1 DEF TieredInv, OneAtATime, Idle
<1>10. NodesLinked'
  BY DEF TieredInv, NodesLinked
<1>11. QueueInOrder'
  <2>1. ASSUME NEW i \in 1..Len(queue'), NEW j \in 1..Len(queue'), i <= j
        PROVE  queue'[i].value <= queue'[j].value
    <3>1. i + 1 \in 1..Len(queue) /\ j + 1 \in 1..Len(queue) /\ i + 1 <= j + 1
      BY <1>2, <1>6, <2>1
    <3>2. QED
      BY <1>6, <3>1 DEF TieredInv, QueueInOrder
  <2>2. QED
    BY <2>1 DEF QueueInOrder
<1>12. PendingNewer'
  <2>1. ASSUME NEW u \in Writers, ~ Idle(u)'
        PROVE  Asked(u)' \in Pending
    <3>1. u # Worker
      BY <1>5, <2>1 DEF Idle, Archive!Running
    <3>2. QED
      BY <1>5, <2>1, <3>1, InvFacts DEF Idle, Asked
  <2>2. Pending' \subseteq Pending
    BY <1>7, <2>1 DEF Pending
  <2>3. QED
    BY <2>2 DEF TieredInv, PendingNewer, Behind
<1>13. WritersExtend'
  BY <1>5 DEF TieredInv, WritersExtend, Extends
<1>14. MirroredIsHead'
  BY <1>5 DEF MirroredIsHead
<1>15. HotIsLatest'
  BY DEF TieredInv, HotIsLatest, Behind, LastEntry
<1>16. AllSafe'
  <2>1. ASSUME NEW e \in issued, Safe(e)
        PROVE  Safe(e)'
    <3>1. \A u \in Callers : ~ Idle(u) /\ Asked(u) = e => ~ Idle(u)' /\ Asked(u)' = e
      BY <1>3, <1>5 DEF Idle, Asked
    <3>2. QED
      BY <1>7, <2>1, <3>1 DEF Safe
  <2>2. QED
    BY <2>1 DEF TieredInv, AllSafe
<1>17. QED
  BY <1>8, <1>9, <1>10, <1>11, <1>12, <1>13, <1>14, <1>15, <1>16 DEF TieredInv

LEMMA MirroredKeeps ==
    ASSUME TieredInv, Mirrored
    PROVE  TieredInv'
<1>1. /\ writer[Worker].stage = "ok" /\ NextEntry(Worker)
      /\ UNCHANGED <<nodes, head, hot, reported, logVars>>
  BY DEF Mirrored
<1>2. queue # <<>> /\ Asked(Worker) = queue[1] /\ Idle(Worker)
  BY <1>1 DEF TieredInv, OneAtATime, Idle, Archive!Running
<1>3. queue[1].key = writer[Worker].key /\ queue[1].value = writer[Worker].value
  BY <1>2 DEF Asked
<1>4. /\ \A k \in Keys : head[k] \in 0..Len(nodes)
      /\ queue[1] \in Entry /\ Len(nodes) \in Nat
  BY <1>2, InvFacts
<1>5. \/ queue[1].key \in forgotten
      \/ Recorded(nodes, head[queue[1].key], queue[1].value)
  <2>1. SUFFICES ASSUME queue[1].key \notin forgotten
                 PROVE  Recorded(nodes, head[queue[1].key], queue[1].value)
    OBVIOUS
  <2>2. /\ head[queue[1].key] # 0
        /\ nodes[head[queue[1].key]].v = queue[1].value
    BY <1>1, <1>3, <2>1 DEF TieredInv, MirroredIsHead
  <2>3. head[queue[1].key] \in 1..Len(nodes) /\ Linked(nodes)
    BY <1>4, <2>2, EntryFacts DEF TieredInv, NodesLinked
  <2>4. QED
    BY <2>2, <2>3, RecordedGrows
<1>6. QED
  BY <1>1, <1>2, <1>5, NextEntryKeeps

LEMMA GiveUpKeeps ==
    ASSUME TieredInv, GiveUp
    PROVE  TieredInv'
<1>1. /\ writer[Worker].stage = "failed" /\ NextEntry(Worker)
      /\ reported' = reported \cup {Head(queue)}
      /\ UNCHANGED <<nodes, head, hot, logVars>>
  BY DEF GiveUp
<1>2. queue # <<>> /\ Idle(Worker)
  BY <1>1 DEF TieredInv, OneAtATime, Idle, Archive!Running
<1>3. Head(queue) = queue[1]
  BY <1>2, InvFacts
<1>4. QED
  BY <1>1, <1>2, <1>3, NextEntryKeeps

LEMMA CrashKeeps ==
    ASSUME TieredInv, Crash
    PROVE  TieredInv'
<1>1. /\ crashes < MaxCrashes /\ crashes' = crashes + 1
      /\ hot' = [k \in Keys |-> Missing] /\ queue' = <<>> /\ attempts' = 0
      /\ writer' = [w \in Writers |-> Archive!IdleWriter]
      /\ issued' = {}
      /\ UNCHANGED <<nodes, head, reported, written, forgotten, asyncArchive>>
  BY DEF Crash, Writers
<1>2. /\ Archive!IdleWriter \in [stage: Archive!Stages, key: Keys \cup {Missing},
                                 value: Versions \cup {Missing},
                                 prev: Archive!Cids, cid: Archive!Cids]
      /\ Archive!IdleWriter.stage = "idle"
  BY TieredAssumption
     DEF Archive!Stages, Archive!Running, Archive!Cids, Archive!IdleWriter, Archive!NoCid
<1>3. \A w \in Writers : writer'[w].stage = "idle" /\ Idle(w)'
  BY <1>1, <1>2 DEF Idle, Archive!Running
<1>4. Worker \in Writers /\ Callers \subseteq Writers
  BY DEF Writers
<1>5. queue' \in Seq(Entry) /\ Len(queue') = 0
  BY <1>1, EmptySeq
<1>6. TypeOK'
  <2>1. attempts' \in 0..ArchiveRetries /\ crashes' \in 0..MaxCrashes
    BY <1>1, TieredAssumption DEF TieredInv, TypeOK
  <2>2. writer' \in [Writers -> [stage: Archive!Stages, key: Keys \cup {Missing},
                                 value: Versions \cup {Missing},
                                 prev: Archive!Cids, cid: Archive!Cids]]
    BY <1>1, <1>2
  <2>3. QED
    BY <1>1, <1>5, <2>1, <2>2 DEF TieredInv, TypeOK, Archive!DriveTypeOK, Writers
<1>7. OneAtATime'
  BY <1>1, <1>3, <1>4 DEF OneAtATime
<1>8. NodesLinked' /\ QueueInOrder'
  BY <1>1, <1>5 DEF TieredInv, NodesLinked, QueueInOrder
<1>9. PendingNewer'
  <2>1. Pending' = {}
    BY <1>3, <1>5 DEF Pending, Queued
  <2>2. QED
    BY <2>1 DEF PendingNewer
<1>10. WritersExtend' /\ MirroredIsHead'
  BY <1>3, <1>4 DEF WritersExtend, MirroredIsHead
<1>11. HotIsLatest' /\ AllSafe'
  BY <1>1 DEF HotIsLatest, AllSafe
<1>12. QED
  BY <1>6, <1>7, <1>8, <1>9, <1>10, <1>11 DEF TieredInv

LEMMA TieredInit == Init => TieredInv
<1> SUFFICES ASSUME Init PROVE TieredInv
  OBVIOUS
<1>1. /\ nodes = <<>> /\ head = [k \in Keys |-> 0]
      /\ writer = [w \in Writers |-> Archive!IdleWriter]
      /\ hot = [k \in Keys |-> Missing] /\ queue = <<>> /\ attempts = 0
      /\ reported = {} /\ written = 0 /\ issued = {} /\ forgotten = {}
      /\ crashes = 0 /\ asyncArchive \in Modes
  BY DEF Init, Archive!DriveInit, Archive!NoCid, Writers
<1>2. /\ Archive!IdleWriter \in [stage: Archive!Stages, key: Keys \cup {Missing},
                                 value: Versions \cup {Missing},
                                 prev: Archive!Cids, cid: Archive!Cids]
      /\ Archive!IdleWriter.stage = "idle"
  BY TieredAssumption
     DEF Archive!Stages, Archive!Running, Archive!Cids, Archive!IdleWriter, Archive!NoCid
<1>3. \A w \in Writers : writer[w].stage = "idle" /\ Idle(w)
  BY <1>1, <1>2 DEF Idle, Archive!Running
<1>4. Worker \in Writers /\ Callers \subseteq Writers
  BY DEF Writers
<1>5. /\ queue \in Seq(Entry) /\ Len(queue) = 0
      /\ nodes \in Seq([v: Versions, p: Archive!Cids]) /\ Len(nodes) = 0
      /\ nodes \in Seq([v: Nat, p: Nat])
  BY <1>1, EmptySeq
<1>6. TypeOK
  <2>1. attempts \in 0..ArchiveRetries /\ crashes \in 0..MaxCrashes /\ written \in 0..MaxWrites
    BY <1>1, TieredAssumption
  <2>2. Len(nodes) <= MaxNodes /\ head \in [Keys -> 0..Len(nodes)]
    BY <1>1, <1>5, TieredAssumption
  <2>3. writer \in [Writers -> [stage: Archive!Stages, key: Keys \cup {Missing},
                                value: Versions \cup {Missing},
                                prev: Archive!Cids, cid: Archive!Cids]]
    BY <1>1, <1>2
  <2>4. QED
    BY <1>1, <1>5, <2>1, <2>2, <2>3 DEF TypeOK, Archive!DriveTypeOK, Writers
<1>7. OneAtATime
  BY <1>1, <1>3, <1>4 DEF OneAtATime
<1>8. NodesLinked /\ QueueInOrder
  BY <1>5 DEF NodesLinked, Linked, QueueInOrder
<1>9. PendingNewer
  <2>1. Pending = {}
    BY <1>3, <1>5 DEF Pending, Queued
  <2>2. QED
    BY <2>1 DEF PendingNewer
<1>10. WritersExtend /\ MirroredIsHead
  BY <1>3, <1>4 DEF WritersExtend, MirroredIsHead
<1>11. HotIsLatest /\ AllSafe
  BY <1>1 DEF HotIsLatest, AllSafe
<1>12. QED
  BY <1>6, <1>7, <1>8, <1>9, <1>10, <1>11 DEF TieredInv

LEMMA TieredStutter ==
    ASSUME TieredInv, UNCHANGED vars
    PROVE  TieredInv'
<1> USE DEF vars, queueVars, logVars
<1>1. TypeOK' /\ OneAtATime' /\ NodesLinked' /\ QueueInOrder'
  BY DEF TieredInv, TypeOK, Archive!DriveTypeOK, OneAtATime, Idle, Asked, NodesLinked,
         QueueInOrder
<1>2. Pending' = Pending
  BY DEF Pending, Queued, Asked, Idle
<1>3. PendingNewer'
  BY <1>2 DEF TieredInv, PendingNewer, Behind
<1>4. WritersExtend' /\ MirroredIsHead' /\ HotIsLatest'
  BY DEF TieredInv, WritersExtend, Extends, MirroredIsHead, HotIsLatest, Behind, LastEntry
<1>5. AllSafe'
  BY DEF TieredInv, AllSafe, Safe, Queued, Idle, Asked
<1>6. QED
  BY <1>1, <1>3, <1>4, <1>5 DEF TieredInv

LEMMA TieredStep ==
    ASSUME TieredInv, OneSet, [Next]_vars
    PROVE  TieredInv'
<1>1. ASSUME NEW c \in Callers, NEW k \in Keys, Set(c, k)
      PROVE  TieredInv'
  BY <1>1, SetKeeps
<1>2. ASSUME NEW k \in Keys, Delete(k) \/ Forget(k)
      PROVE  TieredInv'
  BY <1>2, DeleteKeeps, ForgetKeeps
<1>3. ASSUME NEW c \in Callers, CallerArchives(c)
      PROVE  TieredInv'
  BY <1>3, ArchivingKeeps
<1>4. CASE WorkerStep
  BY <1>4, AttemptKeeps, MirroredKeeps, GiveUpKeeps, ArchivingKeeps DEF WorkerStep
<1>5. CASE Crash
  BY <1>5, CrashKeeps
<1>6. CASE UNCHANGED vars
  BY <1>6, TieredStutter
<1>7. QED
  BY <1>1, <1>2, <1>3, <1>4, <1>5, <1>6 DEF Next

\* The tiered store keeps what its properties rest on: one write of the archive
\* at a time, a queue in the order of its writes, nodes that link back to the
\* chain they extend, and every durable write somewhere (set, enqueueArchive,
\* AutoDriveStore.set).
THEOREM TieredInvariant == OneSet => (Spec => []TieredInv)
<1> SUFFICES ASSUME OneSet PROVE Spec => []TieredInv
  OBVIOUS
<1>1. Init => TieredInv
  BY TieredInit
<1>2. TieredInv /\ [Next]_vars => TieredInv'
  BY TieredStep
<1>3. QED
  BY <1>1, <1>2, PTL DEF Spec

(***************************************************************************)
(* The properties that the runs check.                                     *)
(***************************************************************************)
\* In a quiet state a durable key whose last write was not reported as failed
\* has that write as its newest archived value.
LEMMA QuietAgrees ==
    ASSUME TieredInv, Quiet, NEW k \in Kept, hot[k] # Missing,
           LastEntry(k) \notin reported
    PROVE  head[k] # 0 /\ nodes[head[k]].v = hot[k]
<1>1. k \in Keys /\ k \in Archived /\ k \notin forgotten
  BY TieredAssumption DEF Kept
<1>2. LastEntry(k) \in issued /\ Behind(k, hot[k])
  BY <1>1 DEF TieredInv, HotIsLatest
<1>3. Safe(LastEntry(k)) /\ LastEntry(k).key = k /\ LastEntry(k).value = hot[k]
  BY <1>2 DEF TieredInv, AllSafe, LastEntry
<1>4. LastEntry(k) \notin Queued
  <2>1. Len(queue) = 0
    BY EmptySeq DEF Quiet
  <2>2. QED
    BY <2>1 DEF Queued
<1>5. Recorded(nodes, head[k], hot[k])
  BY <1>1, <1>3, <1>4 DEF Safe, Quiet
<1>6. Linked(nodes) /\ head[k] \in 0..Len(nodes)
  BY <1>1, InvFacts DEF TieredInv, NodesLinked
<1>7. head[k] # 0 /\ hot[k] <= nodes[head[k]].v
  BY <1>5, <1>6, RecordedBelow
<1>8. nodes[head[k]].v \in Nat /\ hot[k] \in Nat
  BY <1>1, <1>6, <1>7, InvFacts
<1>9. QED
  BY <1>2, <1>7, <1>8 DEF Behind

\* MirrorAgrees for any keys, callers, retries, faults and restarts: a quiet
\* archive holds what the hot tier holds (set, enqueueArchive).
THEOREM MirrorIsFaithful == OneSet => (Spec => []MirrorAgrees)
<1> SUFFICES ASSUME OneSet PROVE Spec => []MirrorAgrees
  OBVIOUS
<1>1. TieredInv => MirrorAgrees
  <2> SUFFICES ASSUME TieredInv PROVE MirrorAgrees
    OBVIOUS
  <2>1. ASSUME Quiet, NEW k \in Kept, hot[k] # Missing, LastEntry(k) \notin reported
        PROVE  Archive!ValueAt(k) = hot[k]
    BY <2>1, QuietAgrees DEF Archive!ValueAt, Archive!NoCid
  <2>2. QED
    BY <2>1 DEF TieredInv, MirrorAgrees
<1>2. QED
  BY <1>1, TieredInvariant, PTL

\* HistoryInOrder for any instance: the permanent history of a key never goes
\* back to an older write (enqueueArchive, AutoDriveStore.set).
THEOREM HistoriesInOrder == OneSet => (Spec => []HistoryInOrder)
<1> SUFFICES ASSUME OneSet PROVE Spec => []HistoryInOrder
  OBVIOUS
<1>1. TieredInv => HistoryInOrder
  <2> SUFFICES ASSUME TieredInv, NEW k \in Keys
               PROVE  LET h == Archive!History(k)
                      IN  \A i, j \in DOMAIN h : i < j => h[i] <= h[j]
    BY DEF HistoryInOrder
  <2>1. Linked(nodes) /\ head[k] \in 0..Len(nodes)
    BY InvFacts DEF TieredInv, NodesLinked
  <2>2. Ordered(nodes, head[k])
    BY <2>1, ChainsOrdered
  <2> DEFINE h == ChainsOf(nodes)[head[k]]
  <2>3. /\ h \in Seq(1..Len(nodes))
        /\ DOMAIN Archive!History(k) = 1..Len(h)
        /\ \A i \in 1..Len(h) : Archive!History(k)[i] = nodes[h[i]].v
    BY <2>1, ArchiveHistory
  <2>4. \A i, j \in 1..Len(h) : i < j => nodes[h[i]].v <= nodes[h[j]].v
    BY <2>2 DEF Ordered
  <2> HIDE DEF h
  <2>5. QED
    BY <2>3, <2>4
<1>2. QED
  BY <1>1, TieredInvariant, PTL

\* NothingSilentlyLost for any instance: a durable write is recorded, on its way
\* or reported (set, enqueueArchive).
THEOREM NothingIsLost == OneSet => (Spec => []NothingSilentlyLost)
<1> SUFFICES ASSUME OneSet PROVE Spec => []NothingSilentlyLost
  OBVIOUS
<1>1. TieredInv => NothingSilentlyLost
  <2> SUFFICES ASSUME TieredInv, NEW e \in issued
               PROVE  \/ e.key \in forgotten
                      \/ \E i \in DOMAIN queue : queue[i] = e
                      \/ \E c \in Callers : /\ ~ Idle(c)
                                            /\ writer[c].key = e.key
                                            /\ writer[c].value = e.value
                      \/ \E i \in DOMAIN Archive!History(e.key) :
                             Archive!History(e.key)[i] = e.value
                      \/ e \in reported
    BY DEF NothingSilentlyLost
  <2>1. Safe(e) /\ e.key \in Keys
    BY EntryFacts DEF TieredInv, AllSafe, TypeOK
  <2>2. CASE e \in Queued
    <3>1. DOMAIN queue = 1..Len(queue)
      BY InvFacts
    <3>2. QED
      BY <2>2, <3>1 DEF Queued
  <2>3. CASE Recorded(nodes, head[e.key], e.value)
    <3>1. Linked(nodes) /\ head[e.key] \in 0..Len(nodes)
      BY <2>1, InvFacts DEF TieredInv, NodesLinked
    <3>2. QED
      BY <2>1, <2>3, <3>1, ArchiveHistory DEF Recorded
  <2>4. QED
    BY <2>1, <2>2, <2>3 DEF Safe, Asked
<1>2. QED
  BY <1>1, TieredInvariant, PTL

\* A step writes the head of a key over the last node of the chain it read.
LEMMA HeadMoves ==
    ASSUME TieredInv, OneSet, [Next]_vars, NEW k \in Keys, head'[k] # head[k]
    PROVE  \/ head'[k] = 0 /\ k \in forgotten'
           \/ /\ nodes' = nodes /\ ~ Quiet
              /\ head'[k] \in 1..Len(nodes)
              /\ nodes[head'[k]].p = head[k] \/ head[k] = 0
<1> USE DEF vars, queueVars, logVars
<1>1. head \in [Keys -> 0..Len(nodes)]
  BY DEF TieredInv, TypeOK, Archive!DriveTypeOK
<1>2. ASSUME NEW l \in Keys, Forget(l)
      PROVE  head'[k] = 0 /\ k \in forgotten'
  BY <1>1, <1>2 DEF Forget, Archive!DropHead, Archive!NoCid
<1>3. ASSUME NEW w \in Writers, Archive!SetStep(w)
      PROVE  /\ nodes' = nodes /\ ~ Quiet
             /\ head'[k] \in 1..Len(nodes)
             /\ nodes[head'[k]].p = head[k] \/ head[k] = 0
  <2>1. /\ writer[w].stage = "writeHead" /\ nodes' = nodes
        /\ head' = [head EXCEPT ![writer[w].key] = writer[w].cid]
    BY <1>3 DEF Archive!SetStep, Archive!ReadHead, Archive!Upload, Archive!WriteHead,
                Archive!SetFails
  <2>2. k = writer[w].key /\ head'[k] = writer[w].cid
    BY <1>1, <2>1
  <2>3. /\ Extends(w) /\ writer[w].cid \in 1..Len(nodes)
        /\ nodes[writer[w].cid].p = writer[w].prev
    <3>1. /\ Extends(w) /\ writer[w].cid \in 1..Len(nodes)
          /\ nodes[writer[w].cid] = [v |-> writer[w].value, p |-> writer[w].prev]
      BY <2>1 DEF TieredInv, WritersExtend
    <3>2. QED
      BY <3>1
  <2>4. ~ Quiet
    BY <2>1 DEF Quiet, Idle, Archive!Running, Writers
  <2>5. QED
    BY <2>1, <2>2, <2>3, <2>4 DEF Extends
<1>4. QED
  BY <1>2, <1>3 DEF Next, Set, Delete, CallerArchives, WorkerStep, Attempt, Mirrored, GiveUp,
                    WorkerArchives, Crash, Writers

\* ArchiveAppendOnly for any instance: only delete() shortens the history that a
\* reader walks (set, delete, history).
THEOREM ArchiveOnlyGrows == OneSet => (Spec => ArchiveAppendOnly)
<1> SUFFICES ASSUME OneSet PROVE Spec => ArchiveAppendOnly
  OBVIOUS
<1>1. ASSUME TieredInv, [Next]_vars, NEW k \in Keys, head'[k] # head[k]
      PROVE  \/ head'[k] = Archive!NoCid
             \/ Archive!Chains[head[k]] = SubSeq(Archive!Chains'[head'[k]], 1,
                                                 Len(Archive!Chains[head[k]]))
  <2>1. CASE head'[k] = 0
    BY <2>1 DEF Archive!NoCid
  <2>2. CASE head'[k] # 0
    <3> PICK ns, c, d : ns = nodes /\ c = head[k] /\ d = head'[k]
      OBVIOUS
    <3>1. nodes' = ns /\ d \in 1..Len(ns) /\ (ns[d].p = c \/ c = 0)
      BY <1>1, <2>2, HeadMoves
    <3>2. Linked(ns) /\ c \in 0..Len(ns) /\ Len(ns) \in Nat
      BY InvFacts, <1>1 DEF TieredInv, NodesLinked
    <3>3. Archive!Chains = ChainsOf(ns) /\ Archive!Chains' = ChainsOf(ns)
      <4>1. Archive!Chains = ChainsOf(nodes)
        BY ArchiveChains
      <4>2. Archive!Chains' = ChainsOf(nodes')
        BY DEF Archive!Chains, Archive!NoCid, ChainsOf
      <4>3. QED
        BY <3>1, <4>1, <4>2
    <3>4. PICK g, h : g = ChainsOf(ns)[c] /\ h = ChainsOf(ns)[d]
      OBVIOUS
    <3>5. g \in Seq(1..Len(ns)) /\ h \in Seq(1..Len(ns)) /\ (c = 0 => g = <<>>)
      <4>1. d \in 0..Len(ns)
        BY <3>1, <3>2
      <4>2. Ordered(ns, c) /\ Ordered(ns, d)
        BY <3>2, <4>1, ChainsOrdered
      <4>3. ChainsOf(ns)[0] = <<>>
        BY <3>2, ChainsFacts
      <4>4. QED
        BY <3>4, <4>2, <4>3 DEF Ordered
    <3>6. g = SubSeq(h, 1, Len(g))
      <4>1. CASE c = 0
        <5>1. Len(g) = 0
          BY <3>5, <4>1, EmptySeq
        <5>2. SubSeq(h, 1, 0) = <<>>
          BY SubSeqEmpty
        <5>3. QED
          BY <3>5, <4>1, <5>1, <5>2
      <4>2. CASE c # 0
        <5>1. h = Append(g, d)
          <6>1. d \in 0..Len(ns) /\ d # 0 /\ ns[d].p = c
            BY <3>1, <3>2, <4>2
          <6>2. ChainsOf(ns)[d] = Append(ChainsOf(ns)[ns[d].p], d)
            BY <3>2, <6>1, ChainsFacts
          <6>3. QED
            BY <3>4, <6>1, <6>2
        <5>2. /\ Len(h) = Len(g) + 1 /\ Len(g) \in Nat
              /\ \A i \in 1..Len(g) : h[i] = g[i] /\ h[i] \in 1..Len(ns)
          BY <3>1, <3>5, <5>1, AppendProperties
        <5>3. /\ SubSeq(h, 1, Len(g)) \in Seq(1..Len(ns))
              /\ Len(SubSeq(h, 1, Len(g))) = Len(g)
              /\ \A i \in 1..Len(g) : SubSeq(h, 1, Len(g))[i] = h[i]
          BY <5>2, SubSeqProperties
        <5>4. QED
          BY <3>5, <5>2, <5>3, SeqEqual
      <4>3. QED
        BY <4>1, <4>2
    <3>7. QED
      BY <3>3, <3>4, <3>6
  <2>3. QED
    BY <2>1, <2>2
<1>2. TieredInv /\ [Next]_vars =>
        [\A k \in Keys :
            head'[k] # head[k] =>
                \/ head'[k] = Archive!NoCid
                \/ Archive!Chains[head[k]] = SubSeq(Archive!Chains'[head'[k]], 1,
                                                    Len(Archive!Chains[head[k]]))]_(Archive!driveVars)
  BY <1>1
<1>3. QED
  BY <1>2, TieredInvariant, PTL DEF Spec, ArchiveAppendOnly, Archive!AppendOnly

\* ReadsNeverGoBack for any instance with readThrough: once the mirror is quiet,
\* no step makes get() return something older (get, delete).
THEOREM ReadsOnlyAdvance ==
    OneSet /\ ReadThrough => (Spec => ReadsNeverGoBack)
<1> SUFFICES ASSUME OneSet, ReadThrough PROVE Spec => ReadsNeverGoBack
  OBVIOUS
<1>1. ASSUME TieredInv, [Next]_vars, NEW k \in Kept \ forgotten', Quiet,
             Read(k) # Missing, hot[k] # Missing => LastEntry(k) \notin reported
      PROVE  Read(k)' # Missing /\ Read(k)' >= Read(k)
  <2> USE DEF vars, queueVars, logVars
  <2>1. k \in Keys /\ k \in Kept /\ k \notin forgotten'
    BY <1>1, TieredAssumption DEF Kept
  <2>2. /\ hot \in [Keys -> Versions \cup {Missing}] /\ written \in Nat
        /\ \A c \in 1..Len(nodes) : nodes[c].v \in Nat /\ nodes[c].v <= written
        /\ head[k] \in 0..Len(nodes) /\ Len(nodes) \in Nat
    BY <1>1, <2>1, InvFacts
  <2>3. PICK r : r = nodes[head[k]].v
    OBVIOUS
  <2>4. head[k] # 0 /\ Read(k) = r /\ (hot[k] # Missing => hot[k] = r)
    <3>1. CASE hot[k] = Missing
      BY <1>1, <2>3, <3>1 DEF Read, Archive!ValueAt, Archive!NoCid
    <3>2. CASE hot[k] # Missing
      BY <1>1, <2>1, <2>3, <3>2, QuietAgrees DEF Read
    <3>3. QED
      BY <3>1, <3>2
  <2>5. r \in Nat /\ r <= written /\ r # Missing
    BY <2>2, <2>3, <2>4, TieredAssumption
  <2>6. head'[k] = head[k]
    BY <1>1, <2>1, HeadMoves
  <2>7. nodes' = nodes
    <3>1. \A w \in Writers : writer[w].stage # "upload"
      BY <1>1 DEF Quiet, Idle, Archive!Running, Writers
    <3>2. \A w \in Writers : Archive!SetStep(w) => nodes' = nodes
      BY <3>1 DEF Archive!SetStep, Archive!ReadHead, Archive!Upload, Archive!WriteHead,
                  Archive!SetFails
    <3>3. QED
      BY <1>1, <3>2 DEF Next, Set, Delete, Forget, Archive!DropHead, CallerArchives,
                        WorkerStep, Attempt, Mirrored, GiveUp, WorkerArchives, Crash, Writers
  <2>8. Archive!ValueAt(k)' = r
    BY <2>3, <2>4, <2>6, <2>7 DEF Archive!ValueAt, Archive!NoCid
  <2>9. \/ hot'[k] = hot[k]
        \/ hot'[k] = Missing
        \/ hot'[k] = written + 1
    <3>1. ASSUME NEW c \in Callers, NEW l \in Keys, Set(c, l)
          PROVE  hot'[k] = hot[k] \/ hot'[k] = written + 1
      BY <2>1, <2>2, <3>1 DEF Set
    <3>2. ASSUME NEW l \in Keys, Delete(l)
          PROVE  hot'[k] = hot[k] \/ hot'[k] = Missing
      BY <2>1, <2>2, <3>2 DEF Delete
    <3>3. CASE Crash
      BY <2>1, <3>3 DEF Crash
    <3>4. CASE \/ \E l \in Keys : Forget(l)
               \/ \E c \in Callers : CallerArchives(c)
               \/ WorkerStep
               \/ UNCHANGED vars
      BY <3>4 DEF Forget, CallerArchives, WorkerStep, Attempt, Mirrored, GiveUp, WorkerArchives
    <3>5. QED
      BY <1>1, <3>1, <3>2, <3>3, <3>4 DEF Next
  <2>10. Read(k)' = IF hot'[k] # Missing THEN hot'[k] ELSE r
    BY <2>8 DEF Read
  <2>11. CASE hot'[k] = Missing
    BY <2>4, <2>5, <2>10, <2>11
  <2>12. CASE hot'[k] # Missing /\ hot'[k] = hot[k]
    BY <2>4, <2>5, <2>10, <2>12
  <2>13. CASE hot'[k] # Missing /\ hot'[k] = written + 1
    BY <2>2, <2>4, <2>5, <2>10, <2>13
  <2>14. QED
    BY <2>9, <2>11, <2>12, <2>13
<1>2. TieredInv /\ [Next]_vars =>
        [\A k \in Kept \ forgotten' :
            (/\ Quiet
             /\ Read(k) # Missing
             /\ hot[k] # Missing => LastEntry(k) \notin reported) =>
                /\ Read(k)' # Missing
                /\ Read(k)' >= Read(k)]_vars
  BY <1>1
<1>3. QED
  BY <1>2, TieredInvariant, PTL DEF Spec, ReadsNeverGoBack
=============================================================================
