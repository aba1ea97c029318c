------------------------- MODULE PlanExecutorProofs -------------------------
(***************************************************************************)
(* Theorems about the plan executor, for any town, texts, plans, memory    *)
(* failures and rejected calls: no step of a plan is lost or repeated,     *)
(* directives lead, and nextHop() walks on shortest paths.                 *)
(***************************************************************************)
EXTENDS PlanExecutor, SumTheorems, SequenceTheorems, FiniteSetTheorems, TLAPS

-----------------------------------------------------------------------------
(***************************************************************************)
(* The search.  d is the depth at which a room was met.                    *)
(***************************************************************************)
LEMMA Streets ==
    ASSUME NEW g \in Graphs, NEW r \in Rooms
    PROVE  /\ g[r] \in Seq(Rooms) /\ Len(g[r]) \in Nat /\ DOMAIN g[r] = 1..Len(g[r])
           /\ \A i \in 1..Len(g[r]) : g[r][i] \in Rooms
           /\ Range(g[r]) = {g[r][i] : i \in 1..Len(g[r])}
<1>1. g \in [Rooms -> Seq(Rooms)]
  BY TownAssumption
<1>2. PICK s : s = g[r]
  OBVIOUS
<1>3. s \in Seq(Rooms)
  BY <1>1, <1>2
<1>4. Len(s) \in Nat /\ DOMAIN s = 1..Len(s) /\ \A i \in 1..Len(s) : s[i] \in Rooms
  BY <1>3
<1>5. QED
  BY <1>2, <1>3, <1>4 DEF Range

\* Whoever was met was met from a neighbour, one step nearer to the start.
Tree(g, from, s, d) ==
    /\ s = [q |-> s.q, prev |-> s.prev]
    /\ s.q \in Seq(DOMAIN s.prev)
    /\ DOMAIN s.prev \subseteq Rooms /\ from \in DOMAIN s.prev
    /\ d \in [DOMAIN s.prev -> Nat] /\ d[from] = 0
    /\ \A x \in DOMAIN s.prev : d[x] < Cardinality(DOMAIN s.prev)
    /\ \A x \in DOMAIN s.prev \ {from} :
          /\ s.prev[x] \in DOMAIN s.prev /\ x \in Range(g[s.prev[x]])
          /\ d[x] = d[s.prev[x]] + 1

Sorted(q, d) == \A i, j \in 1..Len(q) : i <= j => d[q[i]] <= d[q[j]]

\* The neighbours of a room have been met, none of them late.
Closed(g, s, d, x) == \A y \in Range(g[x]) : y \in DOMAIN s.prev /\ d[y] <= d[x] + 1

\* Between visits: the rooms waiting are in order, and the last ones met.
Wave(g, s, d) ==
    /\ Sorted(s.q, d)
    /\ \A i \in 1..Len(s.q), x \in DOMAIN s.prev : d[x] <= d[s.q[i]] + 1
    /\ \A x \in DOMAIN s.prev : x \in Range(s.q) \/ Closed(g, s, d, x)

\* While cur is visited, after its first n neighbours.
Visiting(g, s, d, cur, n) ==
    /\ cur \in DOMAIN s.prev
    /\ Sorted(s.q, d)
    /\ \A x \in DOMAIN s.prev : d[x] <= d[cur] + 1
    /\ \A i \in 1..Len(s.q) : d[cur] <= d[s.q[i]]
    /\ \A x \in DOMAIN s.prev : x = cur \/ x \in Range(s.q) \/ Closed(g, s, d, x)
    /\ \A j \in 1..n : g[cur][j] \in DOMAIN s.prev

LEMMA MeetKeeps ==
    ASSUME NEW g \in Graphs, NEW from, NEW s, NEW d, NEW cur, NEW n \in Nat,
           Tree(g, from, s, d), Visiting(g, s, d, cur, n), n + 1 <= Len(g[cur])
    PROVE  \E e : /\ Tree(g, from, Meet(s, cur, g[cur][n + 1]), e)
                  /\ Visiting(g, Meet(s, cur, g[cur][n + 1]), e, cur, n + 1)
<1> DEFINE r == g[cur][n + 1]
           D == DOMAIN s.prev
<1>0. cur \in D /\ D \subseteq Rooms
  BY DEF Visiting, Tree
<1>1. r \in Rooms /\ r \in Range(g[cur])
  <2>1. cur \in Rooms /\ n + 1 \in 1..Len(g[cur])
    BY <1>0, Streets
  <2>2. QED
    BY <2>1, Streets
<1>2. \A j \in 1..(n + 1) : j \in 1..n \/ j = n + 1
  OBVIOUS
<1>3. CASE r \in D
  <2>1. Meet(s, cur, r) = s
    BY <1>3 DEF Meet
  <2>2. Visiting(g, s, d, cur, n + 1)
    BY <1>2, <1>3 DEF Visiting
  <2>3. QED
    BY <2>1, <2>2
<1>4. CASE r \notin D
  <2> DEFINE E == D \cup {r}
             z == [q |-> Append(s.q, r),
                   prev |-> [x \in E |-> IF x = r THEN cur ELSE s.prev[x]]]
             e == [x \in E |-> IF x = r THEN d[cur] + 1 ELSE d[x]]
  <2>1. Meet(s, cur, r) = z
    BY <1>4 DEF Meet
  <2>2. /\ DOMAIN z.prev = E /\ z.q = Append(s.q, r) /\ z = [q |-> z.q, prev |-> z.prev]
        /\ z.prev[r] = cur /\ \A x \in D : z.prev[x] = s.prev[x]
    BY <1>4
  <2>3. s.q \in Seq(D) /\ d \in [D -> Nat] /\ from \in D /\ d[from] = 0
    BY DEF Tree
  <2>4. /\ z.q \in Seq(E) /\ Len(s.q) \in Nat /\ Len(z.q) = Len(s.q) + 1
        /\ \A i \in 1..Len(s.q) : z.q[i] = s.q[i] /\ s.q[i] \in D
        /\ z.q[Len(s.q) + 1] = r
        /\ DOMAIN z.q = 1..(Len(s.q) + 1) /\ DOMAIN s.q = 1..Len(s.q)
    <3>1. s.q \in Seq(E) /\ r \in E
      BY <2>3
    <3> HIDE DEF r, E, z
    <3>2. QED
      BY <2>2, <2>3, <3>1
  <2>5. e \in [E -> Nat] /\ e[r] = d[cur] + 1 /\ (\A x \in D : e[x] = d[x]) /\ d[cur] \in Nat
    BY <1>0, <1>4, <2>3
  <2>6. IsFiniteSet(D) /\ Cardinality(E) = Cardinality(D) + 1 /\ Cardinality(D) \in Nat
    <3>1. IsFiniteSet(D)
      BY <1>0, TownAssumption, FS_Subset
    <3> HIDE DEF r, D
    <3>2. QED
      BY <3>1, <1>4, FS_AddElement, FS_CardinalityType
  <2> HIDE DEF z, e
  <2>7. Tree(g, from, z, e)
    <3>1. \A x \in E : e[x] < Cardinality(E)
      <4>1. \A x \in D : d[x] < Cardinality(D) /\ d[x] \in Nat
        BY <2>3 DEF Tree
      <4> HIDE DEF r, D
      <4>2. QED
        BY <4>1, <2>5, <2>6, <1>0
    <3>2. ASSUME NEW x \in E \ {from}
          PROVE  /\ z.prev[x] \in E /\ x \in Range(g[z.prev[x]]) /\ e[x] = e[z.prev[x]] + 1
      <4>1. CASE x = r
        BY <4>1, <1>0, <1>1, <2>2, <2>5
      <4>2. CASE x \in D
        <5>1. s.prev[x] \in D /\ x \in Range(g[s.prev[x]]) /\ d[x] = d[s.prev[x]] + 1
          BY <4>2, <3>2 DEF Tree
        <5>2. QED
          BY <5>1, <4>2, <2>2, <2>5
      <4>3. QED
        BY <4>1, <4>2
    <3>3. e[from] = 0 /\ from \in E /\ E \subseteq Rooms
      BY <1>0, <1>1, <2>3, <2>5
    <3>4. QED
      BY <3>1, <3>2, <3>3, <2>2, <2>4, <2>5 DEF Tree
  <2>8. Visiting(g, z, e, cur, n + 1)
    <3>1. \A x \in E : e[x] <= e[cur] + 1
      <4>1. \A x \in D : d[x] <= d[cur] + 1 /\ d[x] \in Nat
        BY <2>3 DEF Visiting
      <4>2. QED
        BY <4>1, <2>5, <1>0
    <3>2. ASSUME NEW i \in 1..Len(z.q)
          PROVE  \/ i \in 1..Len(s.q) /\ z.q[i] = s.q[i] /\ z.q[i] \in D /\ e[z.q[i]] = d[s.q[i]]
                 \/ i = Len(s.q) + 1 /\ z.q[i] = r /\ e[z.q[i]] = d[cur] + 1
      <4>1. i \in 1..Len(s.q) \/ i = Len(s.q) + 1
        BY <2>4
      <4>2. CASE i \in 1..Len(s.q)
        BY <4>2, <2>4, <2>5
      <4>3. CASE i = Len(s.q) + 1
        BY <4>3, <2>4, <2>5
      <4>4. QED
        BY <4>1, <4>2, <4>3
    <3>3. \A i \in 1..Len(s.q) : d[cur] <= d[s.q[i]] /\ d[s.q[i]] <= d[cur] + 1 /\ d[s.q[i]] \in Nat
      BY <2>3, <2>4 DEF Visiting
    <3>4. \A i \in 1..Len(z.q) : e[cur] <= e[z.q[i]]
      BY <3>2, <3>3, <2>5, <1>0
    <3>5. Sorted(z.q, e)
      <4>1. ASSUME NEW i \in 1..Len(z.q), NEW j \in 1..Len(z.q), i <= j
            PROVE  e[z.q[i]] <= e[z.q[j]]
        <5>1. CASE j = Len(s.q) + 1
          <6>1. e[z.q[j]] = d[cur] + 1
            BY <5>1, <2>4, <2>5
          <6>2. e[z.q[i]] = d[cur] + 1 \/ e[z.q[i]] <= d[cur] + 1
            BY <3>2, <3>3
          <6>3. QED
            BY <6>1, <6>2, <2>5
        <5>2. CASE j \in 1..Len(s.q)
          <6>1. i \in 1..Len(s.q)
            BY <4>1, <5>2, <2>4
          <6>2. d[s.q[i]] <= d[s.q[j]]
            BY <6>1, <5>2, <4>1 DEF Visiting, Sorted
          <6>3. e[z.q[i]] = d[s.q[i]] /\ e[z.q[j]] = d[s.q[j]]
            BY <6>1, <5>2, <3>2, <2>4
          <6>4. QED
            BY <6>2, <6>3
        <5>3. QED
          BY <5>1, <5>2, <3>2
      <4>2. QED
        BY <4>1 DEF Sorted
    <3>6. ASSUME NEW x \in E
          PROVE  x = cur \/ x \in Range(z.q) \/ Closed(g, z, e, x)
      <4>1. CASE x = r
        BY <4>1, <2>4 DEF Range
      <4>2. CASE x \in D /\ x \in Range(s.q)
        BY <4>2, <2>4 DEF Range
      <4>3. CASE x \in D /\ Closed(g, s, d, x)
        BY <4>3, <2>2, <2>5 DEF Closed
      <4>4. QED
        BY <4>1, <4>2, <4>3 DEF Visiting
    <3>7. \A j \in 1..(n + 1) : g[cur][j] \in E
      BY <1>2 DEF Visiting
    <3>8. QED
      BY <1>0, <2>2, <3>1, <3>4, <3>5, <3>6, <3>7 DEF Visiting
  <2>9. QED
    BY <2>1, <2>7, <2>8
<1>5. QED
  BY <1>3, <1>4


Leaving(s) == [q |-> Tail(s.q), prev |-> s.prev]

\* What a visit goes through, met by met.
Meetings(g, s, cur, k, run) ==
    run = [n \in 0..k |-> IF n = 0 THEN Leaving(s) ELSE Meet(run[n - 1], cur, g[cur][n])]

LEMMA MeetingsExist ==
    ASSUME NEW g, NEW s, NEW cur, NEW k \in Nat
    PROVE  \E run : Meetings(g, s, cur, k, run)
<1> DEFINE F == {n \in 0..k : \E run : Meetings(g, s, cur, n, run)}
<1>1. 0 \in F
  <2> DEFINE run == [n \in 0..0 |-> Leaving(s)]
  <2>1. Meetings(g, s, cur, 0, run)
    BY DEF Meetings
  <2>2. QED
    BY <2>1
<1>2. ASSUME NEW n \in 0..(k - 1), n \in F PROVE n + 1 \in F
  <2>1. PICK run : Meetings(g, s, cur, n, run)
    BY <1>2
  <2> DEFINE more == [i \in 0..(n + 1) |->
                        IF i <= n THEN run[i] ELSE Meet(run[n], cur, g[cur][n + 1])]
  <2>2. \A i \in 0..n : run[i] = IF i = 0 THEN Leaving(s) ELSE Meet(run[i - 1], cur, g[cur][i])
    BY <2>1 DEF Meetings
  <2>3. ASSUME NEW i \in 0..(n + 1)
        PROVE  more[i] = IF i = 0 THEN Leaving(s) ELSE Meet(more[i - 1], cur, g[cur][i])
    <3>1. CASE i = n + 1
      <4>1. /\ more[n + 1] = Meet(run[n], cur, g[cur][n + 1])
            /\ more[n] = run[n] /\ i - 1 = n /\ i # 0
        BY <3>1
      <4>2. QED
        BY <4>1, <3>1
    <3>2. CASE i <= n
      <4>1. i \in 0..n /\ more[i] = run[i] /\ (i # 0 => more[i - 1] = run[i - 1])
        BY <3>2
      <4>2. QED
        BY <4>1, <2>2
    <3>3. QED
      BY <3>1, <3>2
  <2>4. Meetings(g, s, cur, n + 1, more)
    BY <2>3 DEF Meetings
  <2>5. n + 1 \in 0..k
    OBVIOUS
  <2>6. QED
    BY <2>4, <2>5
<1>3. \A n \in 0..k : n \in F
  <2> HIDE DEF F
  <2>1. QED
    BY <1>1, <1>2, IntervalInduction
<1>4. QED
  BY <1>3

LEMMA LeavingKeeps ==
    ASSUME NEW g \in Graphs, NEW from, NEW s, NEW d,
           Tree(g, from, s, d), Wave(g, s, d), s.q # <<>>
    PROVE  Tree(g, from, Leaving(s), d) /\ Visiting(g, Leaving(s), d, Head(s.q), 0)
<1> DEFINE D == DOMAIN s.prev
           cur == Head(s.q)
<1>1. PICK q : q = s.q
  OBVIOUS
<1>2. q \in Seq(D) /\ q # <<>> /\ d \in [D -> Nat]
  BY <1>1 DEF Tree
<1>3. /\ Len(q) \in Nat /\ Len(q) >= 1 /\ q[1] = Head(q) /\ q[1] \in D
      /\ Tail(q) \in Seq(D) /\ Len(Tail(q)) = Len(q) - 1
      /\ \A i \in 1..(Len(q) - 1) : Tail(q)[i] = q[i + 1]
      /\ DOMAIN q = 1..Len(q) /\ DOMAIN Tail(q) = 1..(Len(q) - 1)
      /\ \A i \in 1..Len(q) : q[i] \in D
  <2> HIDE DEF D
  <2>1. QED
    BY <1>2
<1>4. PICK z : z = Leaving(s)
  OBVIOUS
<1>5. z.q = Tail(q) /\ z.prev = s.prev /\ z = [q |-> z.q, prev |-> z.prev] /\ cur = q[1]
  BY <1>1, <1>3, <1>4 DEF Leaving
<1>6. Tree(g, from, z, d)
  BY <1>3, <1>5 DEF Tree
<1>7. \A i, j \in 1..Len(q) : i <= j => d[q[i]] <= d[q[j]]
  BY <1>1 DEF Wave, Sorted
<1>8. Sorted(z.q, d)
  <2>1. ASSUME NEW i \in 1..(Len(q) - 1), NEW j \in 1..(Len(q) - 1), i <= j
        PROVE  d[z.q[i]] <= d[z.q[j]]
    <3>1. i + 1 \in 1..Len(q) /\ j + 1 \in 1..Len(q) /\ i + 1 <= j + 1
      BY <1>3, <2>1
    <3>2. QED
      BY <3>1, <1>3, <1>5, <1>7
  <2>2. QED
    BY <2>1, <1>3, <1>5 DEF Sorted
<1>9. \A x \in D : d[x] <= d[cur] + 1
  BY <1>1, <1>3, <1>5 DEF Wave
<1>10. \A i \in 1..Len(z.q) : d[cur] <= d[z.q[i]]
  <2>1. ASSUME NEW i \in 1..(Len(q) - 1) PROVE d[cur] <= d[z.q[i]]
    <3>1. i + 1 \in 1..Len(q) /\ 1 \in 1..Len(q) /\ 1 <= i + 1
      BY <1>3
    <3>2. QED
      BY <3>1, <1>3, <1>5, <1>7
  <2>2. QED
    BY <2>1, <1>3, <1>5
<1>11. ASSUME NEW x \in D PROVE x = cur \/ x \in Range(z.q) \/ Closed(g, z, d, x)
  <2>1. CASE x \in Range(q)
    <3>1. PICK i \in 1..Len(q) : x = q[i]
      BY <2>1, <1>3 DEF Range
    <3>2. CASE i = 1
      BY <3>1, <3>2, <1>5
    <3>3. CASE i # 1
      <4>1. i - 1 \in 1..(Len(q) - 1) /\ (i - 1) + 1 = i
        BY <3>3, <1>3
      <4>2. z.q[i - 1] = x /\ i - 1 \in DOMAIN z.q
        BY <4>1, <3>1, <1>3, <1>5
      <4>3. QED
        BY <4>2 DEF Range
    <3>4. QED
      BY <3>2, <3>3
  <2>2. CASE Closed(g, s, d, x)
    BY <2>2, <1>5 DEF Closed
  <2>3. QED
    BY <2>1, <2>2, <1>1 DEF Wave
<1>12. Visiting(g, z, d, cur, 0)
  BY <1>3, <1>5, <1>8, <1>9, <1>10, <1>11 DEF Visiting
<1>13. QED
  BY <1>4, <1>6, <1>12

LEMMA VisitKeeps ==
    ASSUME NEW g \in Graphs, NEW from, NEW s, NEW d,
           Tree(g, from, s, d), Wave(g, s, d), s.q # <<>>
    PROVE  \E e : Tree(g, from, Visit(g, s), e) /\ Wave(g, Visit(g, s), e)
<1> DEFINE cur == Head(s.q)
           n == Len(g[cur])
           met == CHOOSE f : f = [i \in 0..n |-> IF i = 0 THEN [q |-> Tail(s.q), prev |-> s.prev]
                                                 ELSE Meet(f[i - 1], cur, g[cur][i])]
<1>1. cur \in Rooms
  <2>1. s.q \in Seq(DOMAIN s.prev) /\ s.q # <<>> /\ DOMAIN s.prev \subseteq Rooms
    BY DEF Tree
  <2>2. PICK q : q = s.q
    OBVIOUS
  <2>3. Head(q) \in DOMAIN s.prev
    BY <2>1, <2>2
  <2>4. QED
    BY <2>1, <2>2, <2>3
<1>2. n \in Nat
  BY <1>1, Streets
<1>3. Meetings(g, s, cur, n, met)
  <2>1. \E run : Meetings(g, s, cur, n, run)
    <3> HIDE DEF n, cur
    <3>1. QED
      BY <1>2, MeetingsExist
  <2>2. QED
    BY <2>1 DEF Meetings, Leaving
<1>4. Visit(g, s) = met[n]
  BY DEF Visit
<1> HIDE DEF met
<1>5. \A i \in 0..n : met[i] = IF i = 0 THEN Leaving(s) ELSE Meet(met[i - 1], cur, g[cur][i])
  BY <1>3 DEF Meetings
<1> DEFINE F == {i \in 0..n : \E e : Tree(g, from, met[i], e) /\ Visiting(g, met[i], e, cur, i)}
<1>6. 0 \in F
  BY <1>2, <1>5, LeavingKeeps
<1>7. ASSUME NEW i \in 0..(n - 1), i \in F PROVE i + 1 \in F
  <2>1. PICK e : Tree(g, from, met[i], e) /\ Visiting(g, met[i], e, cur, i)
    BY <1>7
  <2>2. i \in Nat /\ i + 1 <= n /\ i + 1 \in 0..n /\ i + 1 # 0 /\ (i + 1) - 1 = i
    BY <1>2
  <2>3. met[i + 1] = Meet(met[i], cur, g[cur][i + 1])
    BY <2>2, <1>5
  <2>4. QED
    BY <2>1, <2>2, <2>3, MeetKeeps
<1>8. \A i \in 0..n : i \in F
  <2> HIDE DEF F, n
  <2>1. QED
    BY <1>2, <1>6, <1>7, IntervalInduction
<1>9. PICK e : Tree(g, from, met[n], e) /\ Visiting(g, met[n], e, cur, n)
  <2>1. n \in F
    BY <1>2, <1>8
  <2>2. QED
    BY <2>1
<1>10. PICK z : z = met[n]
  OBVIOUS
<1>11. /\ e \in [DOMAIN z.prev -> Nat] /\ z.q \in Seq(DOMAIN z.prev) /\ cur \in DOMAIN z.prev
       /\ \A x \in DOMAIN z.prev : e[x] <= e[cur] + 1
       /\ \A i \in 1..Len(z.q) : e[cur] <= e[z.q[i]]
  BY <1>9, <1>10 DEF Tree, Visiting
<1>12. \A i \in 1..Len(z.q), x \in DOMAIN z.prev : e[x] <= e[z.q[i]] + 1
  <2>1. \A i \in 1..Len(z.q) : z.q[i] \in DOMAIN z.prev
    <3>1. PICK q : q = z.q
      OBVIOUS
    <3>2. \A i \in 1..Len(q) : q[i] \in DOMAIN z.prev
      BY <1>11, <3>1
    <3>3. QED
      BY <3>1, <3>2
  <2>2. QED
    BY <2>1, <1>11
<1>13. Closed(g, z, e, cur)
  <2>1. Range(g[cur]) = {g[cur][j] : j \in 1..n}
    BY <1>1, Streets
  <2>2. \A j \in 1..n : g[cur][j] \in DOMAIN z.prev
    BY <1>9, <1>10 DEF Visiting
  <2>3. QED
    BY <2>1, <2>2, <1>11 DEF Closed
<1>14. \A x \in DOMAIN z.prev : x \in Range(z.q) \/ Closed(g, z, e, x)
  BY <1>9, <1>10, <1>13 DEF Visiting
<1>15. Wave(g, z, e)
  BY <1>9, <1>10, <1>12, <1>14 DEF Wave, Visiting
<1>16. QED
  BY <1>4, <1>9, <1>10, <1>15

\* What a search goes through, visit by visit.
Searches(g, from, to, k, run) ==
    run = [n \in 0..k |-> IF n = 0 THEN Outset(from) ELSE SearchOn(g, run[n - 1], to)]

LEMMA SearchesExist ==
    ASSUME NEW g, NEW from, NEW to, NEW k \in Nat
    PROVE  \E run : Searches(g, from, to, k, run)
<1> DEFINE F == {n \in 0..k : \E run : Searches(g, from, to, n, run)}
<1>1. 0 \in F
  <2> DEFINE run == [n \in 0..0 |-> Outset(from)]
  <2>1. Searches(g, from, to, 0, run)
    BY DEF Searches
  <2>2. QED
    BY <2>1
<1>2. ASSUME NEW n \in 0..(k - 1), n \in F PROVE n + 1 \in F
  <2>1. PICK run : Searches(g, from, to, n, run)
    BY <1>2
  <2> DEFINE more == [i \in 0..(n + 1) |->
                        IF i <= n THEN run[i] ELSE SearchOn(g, run[n], to)]
  <2>2. \A i \in 0..n : run[i] = IF i = 0 THEN Outset(from) ELSE SearchOn(g, run[i - 1], to)
    BY <2>1 DEF Searches
  <2>3. ASSUME NEW i \in 0..(n + 1)
        PROVE  more[i] = IF i = 0 THEN Outset(from) ELSE SearchOn(g, more[i - 1], to)
    <3>1. CASE i = n + 1
      <4>1. /\ more[n + 1] = SearchOn(g, run[n], to)
            /\ more[n] = run[n] /\ i - 1 = n /\ i # 0
        BY <3>1
      <4>2. QED
        BY <4>1, <3>1
    <3>2. CASE i <= n
      <4>1. i \in 0..n /\ more[i] = run[i] /\ (i # 0 => more[i - 1] = run[i - 1])
        BY <3>2
      <4>2. QED
        BY <4>1, <2>2
    <3>3. QED
      BY <3>1, <3>2
  <2>4. Searches(g, from, to, n + 1, more)
    BY <2>3 DEF Searches
  <2>5. n + 1 \in 0..k
    OBVIOUS
  <2>6. QED
    BY <2>4, <2>5
<1>3. \A n \in 0..k : n \in F
  <2> HIDE DEF F
  <2>1. QED
    BY <1>1, <1>2, IntervalInduction
<1>4. QED
  BY <1>3

LEMMA SearchFinds ==
    ASSUME NEW g \in Graphs, NEW from \in Rooms, NEW to
    PROVE  \E d : Tree(g, from, Search(g, from, to), d) /\ Wave(g, Search(g, from, to), d)
<1> DEFINE N == Cardinality(Rooms)
           search == CHOOSE f : f = [n \in 0..N |-> IF n = 0 THEN Outset(from)
                                                    ELSE SearchOn(g, f[n - 1], to)]
<1>1. N \in Nat
  BY TownAssumption, FS_CardinalityType
<1>2. Searches(g, from, to, N, search)
  BY <1>1, SearchesExist DEF Searches
<1>3. Search(g, from, to) = search[N]
  BY DEF Search
<1> HIDE DEF search
<1>4. \A n \in 0..N : search[n] = IF n = 0 THEN Outset(from) ELSE SearchOn(g, search[n - 1], to)
  BY <1>2 DEF Searches
<1> DEFINE F == {n \in 0..N : \E d : Tree(g, from, search[n], d) /\ Wave(g, search[n], d)}
<1>5. 0 \in F
  <2> DEFINE z == Outset(from)
             d == [r \in {from} |-> 0]
  <2>1. /\ z.q = <<from>> /\ z.prev = [r \in {from} |-> Nowhere] /\ DOMAIN z.prev = {from}
        /\ z = [q |-> z.q, prev |-> z.prev]
    BY DEF Outset
  <2>2. Len(<<from>>) = 1 /\ <<from>>[1] = from /\ <<from>> \in Seq({from}) /\ DOMAIN <<from>> = 1..1
    OBVIOUS
  <2>3. Cardinality({from}) = 1
    BY FS_Singleton
  <2>4. Tree(g, from, z, d)
    BY <2>1, <2>2, <2>3 DEF Tree
  <2>5. Wave(g, z, d)
    BY <2>1, <2>2 DEF Wave, Sorted, Range
  <2>6. search[0] = z
    BY <1>1, <1>4
  <2> HIDE DEF z, d
  <2>7. QED
    BY <1>1, <2>4, <2>5, <2>6
<1>6. ASSUME NEW n \in 0..(N - 1), n \in F PROVE n + 1 \in F
  <2>1. PICK d : Tree(g, from, search[n], d) /\ Wave(g, search[n], d)
    BY <1>6
  <2>2. n + 1 \in 0..N /\ n + 1 # 0 /\ (n + 1) - 1 = n
    BY <1>1
  <2>3. search[n + 1] = SearchOn(g, search[n], to)
    BY <2>2, <1>4
  <2>4. PICK s : s = search[n]
    OBVIOUS
  <2>5. \E e : Tree(g, from, SearchOn(g, s, to), e) /\ Wave(g, SearchOn(g, s, to), e)
    <3>1. CASE s.q = <<>> \/ to \in DOMAIN s.prev
      BY <2>1, <2>4, <3>1 DEF SearchOn
    <3>2. CASE ~(s.q = <<>> \/ to \in DOMAIN s.prev)
      BY <2>1, <2>4, <3>2, VisitKeeps DEF SearchOn
    <3>3. QED
      BY <3>1, <3>2
  <2>6. QED
    BY <2>2, <2>3, <2>4, <2>5
<1>7. \A n \in 0..N : n \in F
  <2> HIDE DEF F, N
  <2>1. QED
    BY <1>1, <1>5, <1>6, IntervalInduction
<1>8. N \in F
  BY <1>1, <1>7
<1>9. QED
  BY <1>3, <1>8

\* The rooms around a target, hop by hop.
Balls(to, k, run) ==
    run = [n \in 0..k |-> IF n = 0 THEN {to} ELSE Wider(run[n - 1])]

LEMMA BallsExist ==
    ASSUME NEW to, NEW k \in Nat
    PROVE  \E run : Balls(to, k, run)
<1> DEFINE F == {n \in 0..k : \E run : Balls(to, n, run)}
<1>1. 0 \in F
  <2> DEFINE run == [n \in 0..0 |-> {to}]
  <2>1. Balls(to, 0, run)
    BY DEF Balls
  <2>2. QED
    BY <2>1
<1>2. ASSUME NEW n \in 0..(k - 1), n \in F PROVE n + 1 \in F
  <2>1. PICK run : Balls(to, n, run)
    BY <1>2
  <2> DEFINE more == [i \in 0..(n + 1) |->
                        IF i <= n THEN run[i] ELSE Wider(run[n])]
  <2>2. \A i \in 0..n : run[i] = IF i = 0 THEN {to} ELSE Wider(run[i - 1])
    BY <2>1 DEF Balls
  <2>3. ASSUME NEW i \in 0..(n + 1)
        PROVE  more[i] = IF i = 0 THEN {to} ELSE Wider(more[i - 1])
    <3>1. CASE i = n + 1
      <4>1. /\ more[n + 1] = Wider(run[n])
            /\ more[n] = run[n] /\ i - 1 = n /\ i # 0
        BY <3>1
      <4>2. QED
        BY <4>1, <3>1
    <3>2. CASE i <= n
      <4>1. i \in 0..n /\ more[i] = run[i] /\ (i # 0 => more[i - 1] = run[i - 1])
        BY <3>2
      <4>2. QED
        BY <4>1, <2>2
    <3>3. QED
      BY <3>1, <3>2
  <2>4. Balls(to, n + 1, more)
    BY <2>3 DEF Balls
  <2>5. n + 1 \in 0..k
    OBVIOUS
  <2>6. QED
    BY <2>4, <2>5
<1>3. \A n \in 0..k : n \in F
  <2> HIDE DEF F
  <2>1. QED
    BY <1>1, <1>2, IntervalInduction
<1>4. QED
  BY <1>3

\* What a hop before a room near the target is near to.
LEMMA NearBack ==
    ASSUME NEW to, NEW k \in 0..Cardinality(Rooms), NEW x \in Rooms, graph \in Graphs
    PROVE  /\ Around(to, 0) = {to}
           /\ x \in Around(to, k + 1) <=>
                 x \in Around(to, k) \/ Range(graph[x]) \cap Around(to, k) # {}
<1> DEFINE N == Cardinality(Rooms) + 1
           near == CHOOSE f : f = [i \in 0..N |-> IF i = 0 THEN {to} ELSE Wider(f[i - 1])]
<1>1. Cardinality(Rooms) \in Nat /\ N \in Nat
  BY TownAssumption, FS_CardinalityType
<1>2. Balls(to, N, near)
  <2>1. \E run : Balls(to, N, run)
    <3> HIDE DEF N
    <3>1. QED
      BY <1>1, BallsExist
  <2>2. QED
    BY <2>1 DEF Balls
<1>3. \A i : Around(to, i) = near[i]
  BY DEF Around
<1> HIDE DEF near
<1>4. \A i \in 0..N : near[i] = IF i = 0 THEN {to} ELSE Wider(near[i - 1])
  BY <1>2 DEF Balls
<1>5. 0 \in 0..N /\ k + 1 \in 0..N /\ k + 1 # 0 /\ (k + 1) - 1 = k
  BY <1>1
<1>6. near[0] = {to} /\ near[k + 1] = Wider(near[k])
  BY <1>4, <1>5
<1>7. QED
  BY <1>3, <1>6 DEF Wider

LEMMA NearerIsNear ==
    ASSUME NEW to, NEW n \in 0..(Cardinality(Rooms) + 1), graph \in Graphs
    PROVE  \A m \in 0..n : Around(to, m) \cap Rooms \subseteq Around(to, n)
<1>0. Cardinality(Rooms) \in Nat
  BY TownAssumption, FS_CardinalityType
<1> DEFINE F == {i \in 0..n : \A m \in 0..i : Around(to, m) \cap Rooms \subseteq Around(to, i)}
<1>1. 0 \in F
  OBVIOUS
<1>2. ASSUME NEW i \in 0..(n - 1), i \in F PROVE i + 1 \in F
  <2>1. i \in 0..Cardinality(Rooms) /\ i + 1 \in 0..n
    BY <1>0
  <2>2. \A x \in Rooms : x \in Around(to, i) => x \in Around(to, i + 1)
    BY <2>1, NearBack
  <2>3. \A m \in 0..(i + 1) : m \in 0..i \/ m = i + 1
    BY <2>1
  <2>4. QED
    BY <1>2, <2>1, <2>2, <2>3
<1>3. \A i \in 0..n : i \in F
  <2> HIDE DEF F
  <2>1. QED
    BY <1>0, <1>1, <1>2, IntervalInduction
<1>4. n \in F
  BY <1>0, <1>3
<1>5. QED
  BY <1>4

\* No room is met deeper than it is far: the target, once met, is as near to
\* any room as their depths say.
LEMMA MetInTime ==
    ASSUME NEW from, NEW s, NEW d, NEW to \in DOMAIN s.prev, graph \in Graphs,
           Tree(graph, from, s, d), Wave(graph, s, d)
    PROVE  \A k \in 0..(Cardinality(Rooms) + 1) :
              from \in Around(to, k) => d[to] <= k
<1> DEFINE D == DOMAIN s.prev
           N == Cardinality(Rooms) + 1
           F == {k \in 0..N : \A x \in D : x \in Around(to, k) => d[to] <= d[x] + k}
<1>0. /\ Cardinality(Rooms) \in Nat /\ D \subseteq Rooms /\ d \in [D -> Nat]
      /\ from \in D /\ d[from] = 0 /\ s.q \in Seq(D)
  BY TownAssumption, FS_CardinalityType DEF Tree
<1>1. 0 \in F
  <2>1. Around(to, 0) = {to}
    BY <1>0, NearBack
  <2>2. QED
    BY <1>0, <2>1
<1>2. ASSUME NEW k \in 0..(N - 1), k \in F PROVE k + 1 \in F
  <2>1. k \in 0..Cardinality(Rooms) /\ k \in Nat
    BY <1>0
  <2>2. ASSUME NEW x \in D, x \in Around(to, k + 1) PROVE d[to] <= d[x] + (k + 1)
    <3>0. d[x] \in Nat /\ d[to] \in Nat
      BY <1>0
    <3>1. CASE x \in Around(to, k)
      BY <3>0, <3>1, <1>2, <2>1
    <3>2. CASE x \in Range(s.q)
      <4>1. PICK q : q = s.q
        OBVIOUS
      <4>2. PICK i \in 1..Len(q) : x = q[i]
        BY <3>2, <4>1, <1>0 DEF Range
      <4>3. d[to] <= d[x] + 1
        BY <4>1, <4>2 DEF Wave
      <4>4. QED
        BY <4>3, <3>0, <2>1
    <3>3. CASE Closed(graph, s, d, x) /\ x \notin Around(to, k)
      <4>1. Range(graph[x]) \cap Around(to, k) # {}
        BY <3>3, <2>1, <2>2, <1>0, NearBack
      <4>2. PICK y \in Range(graph[x]) : y \in Around(to, k)
        BY <4>1
      <4>3. y \in D /\ d[y] <= d[x] + 1 /\ d[y] \in Nat
        BY <3>3, <1>0 DEF Closed
      <4>4. d[to] <= d[y] + k
        BY <4>2, <4>3, <1>2
      <4>5. QED
        BY <4>3, <4>4, <3>0, <2>1
    <3>4. QED
      BY <3>1, <3>2, <3>3 DEF Wave
  <2>3. k + 1 \in 0..N
    BY <1>0
  <2>4. QED
    BY <2>2, <2>3
<1>3. \A k \in 0..N : k \in F
  <2>1. N \in Nat
    BY <1>0
  <2> HIDE DEF F, N
  <2>2. QED
    BY <2>1, <1>1, <1>2, IntervalInduction
<1>4. QED
  BY <1>0, <1>3

\* The way back, room by room.
StepsBack(prev, from, to, k, run) ==
    run = [n \in 0..k |-> IF n = 0 THEN to ELSE StepBack(prev, from, run[n - 1])]

LEMMA StepsBackExist ==
    ASSUME NEW prev, NEW from, NEW to, NEW k \in Nat
    PROVE  \E run : StepsBack(prev, from, to, k, run)
<1> DEFINE F == {n \in 0..k : \E run : StepsBack(prev, from, to, n, run)}
<1>1. 0 \in F
  <2> DEFINE run == [n \in 0..0 |-> to]
  <2>1. StepsBack(prev, from, to, 0, run)
    BY DEF StepsBack
  <2>2. QED
    BY <2>1
<1>2. ASSUME NEW n \in 0..(k - 1), n \in F PROVE n + 1 \in F
  <2>1. PICK run : StepsBack(prev, from, to, n, run)
    BY <1>2
  <2> DEFINE more == [i \in 0..(n + 1) |->
                        IF i <= n THEN run[i] ELSE StepBack(prev, from, run[n])]
  <2>2. \A i \in 0..n : run[i] = IF i = 0 THEN to ELSE StepBack(prev, from, run[i - 1])
    BY <2>1 DEF StepsBack
  <2>3. ASSUME NEW i \in 0..(n + 1)
        PROVE  more[i] = IF i = 0 THEN to ELSE StepBack(prev, from, more[i - 1])
    <3>1. CASE i = n + 1
      <4>1. /\ more[n + 1] = StepBack(prev, from, run[n])
            /\ more[n] = run[n] /\ i - 1 = n /\ i # 0
        BY <3>1
      <4>2. QED
        BY <4>1, <3>1
    <3>2. CASE i <= n
      <4>1. i \in 0..n /\ more[i] = run[i] /\ (i # 0 => more[i - 1] = run[i - 1])
        BY <3>2
      <4>2. QED
        BY <4>1, <2>2
    <3>3. QED
      BY <3>1, <3>2
  <2>4. StepsBack(prev, from, to, n + 1, more)
    BY <2>3 DEF StepsBack
  <2>5. n + 1 \in 0..k
    OBVIOUS
  <2>6. QED
    BY <2>4, <2>5
<1>3. \A n \in 0..k : n \in F
  <2> HIDE DEF F
  <2>1. QED
    BY <1>1, <1>2, IntervalInduction
<1>4. QED
  BY <1>3

\* The way back ends next to the start, and its rooms are as near to the
\* target as their depths say.
LEMMA WayBack ==
    ASSUME NEW from, NEW s, NEW d, NEW to \in DOMAIN s.prev, to # from, graph \in Graphs,
           Tree(graph, from, s, d)
    PROVE  LET hop == WalkBack(s.prev, from, to)
           IN  /\ hop \in DOMAIN s.prev /\ hop \in Range(graph[from])
               /\ d[to] - 1 \in 0..Cardinality(Rooms) /\ hop \in Around(to, d[to] - 1)
<1> DEFINE D == DOMAIN s.prev
           N == Cardinality(Rooms)
           back == CHOOSE f : f = [n \in 0..N |-> IF n = 0 THEN to
                                                  ELSE StepBack(s.prev, from, f[n - 1])]
<1>0. /\ N \in Nat /\ D \subseteq Rooms /\ d \in [D -> Nat] /\ from \in D /\ d[from] = 0
      /\ \A x \in D : d[x] < Cardinality(D)
      /\ \A x \in D \ {from} : /\ s.prev[x] \in D /\ x \in Range(graph[s.prev[x]])
                               /\ d[x] = d[s.prev[x]] + 1
  BY TownAssumption, FS_CardinalityType DEF Tree
<1>1. Cardinality(D) \in Nat /\ Cardinality(D) <= N
  BY <1>0, TownAssumption, FS_Subset, FS_CardinalityType
<1>2. StepsBack(s.prev, from, to, N, back)
  <2>1. \E run : StepsBack(s.prev, from, to, N, run)
    <3> HIDE DEF N
    <3>1. QED
      BY <1>0, StepsBackExist
  <2>2. QED
    BY <2>1 DEF StepsBack
<1>3. WalkBack(s.prev, from, to) = back[N]
  BY DEF WalkBack
<1> HIDE DEF back
<1>4. \A n \in 0..N : back[n] = IF n = 0 THEN to ELSE StepBack(s.prev, from, back[n - 1])
  BY <1>2 DEF StepsBack
<1> DEFINE OnWay(h, n) == /\ h \in D \ {from} /\ d[h] <= d[to] /\ h \in Around(to, d[to] - d[h])
                          /\ s.prev[h] = from \/ d[h] = d[to] - n
           F == {n \in 0..N : OnWay(back[n], n)}
<1>5. d[to] \in Nat /\ d[to] < N
  BY <1>0, <1>1
<1>6. 0 \in F
  <2>1. Around(to, 0) = {to} /\ back[0] = to /\ 0 \in 0..N
    BY <1>0, <1>4, NearBack
  <2>2. d[to] - d[to] = 0 /\ d[to] = d[to] - 0 /\ d[to] <= d[to]
    BY <1>5
  <2>3. QED
    BY <2>1, <2>2
<1>7. ASSUME NEW n \in 0..(N - 1), n \in F PROVE n + 1 \in F
  <2>1. n + 1 \in 0..N /\ n + 1 # 0 /\ (n + 1) - 1 = n /\ n \in Nat
    BY <1>0
  <2>2. PICK h : h = back[n]
    OBVIOUS
  <2>3. OnWay(h, n)
    BY <1>7, <2>2
  <2>4. back[n + 1] = StepBack(s.prev, from, h)
    BY <2>1, <2>2, <1>4
  <2>5. CASE s.prev[h] = from
    <3>1. StepBack(s.prev, from, h) = h
      BY <2>5 DEF StepBack
    <3>2. QED
      BY <3>1, <2>1, <2>3, <2>4, <2>5
  <2>6. CASE s.prev[h] # from
    <3>1. PICK p : p = s.prev[h]
      OBVIOUS
    <3>2. StepBack(s.prev, from, h) = p /\ p # from
      BY <2>6, <3>1 DEF StepBack
    <3>3. /\ p \in D /\ h \in Range(graph[p]) /\ d[h] = d[p] + 1 /\ d[h] = d[to] - n
          /\ d[h] \in Nat /\ d[p] \in Nat
      BY <2>3, <2>6, <3>1, <1>0
    <3>4. /\ d[to] - d[h] \in 0..N /\ d[to] - d[p] = (d[to] - d[h]) + 1
          /\ d[p] <= d[to] /\ d[p] = d[to] - (n + 1)
      <4>1. d[h] <= d[to] /\ d[to] \in Nat /\ d[to] < N /\ N \in Nat
        BY <2>3, <1>5, <1>0
      <4>2. d[h] = d[p] + 1 /\ d[h] = d[to] - n /\ d[h] \in Nat /\ d[p] \in Nat /\ n \in Nat
        BY <3>3, <2>1
      <4> HIDE DEF N
      <4>3. QED
        BY <4>1, <4>2
    <3>5. p \in Around(to, d[to] - d[p])
      <4>1. p \in Rooms /\ Range(graph[p]) \cap Around(to, d[to] - d[h]) # {}
        BY <3>3, <2>3, <1>0
      <4>2. p \in Around(to, (d[to] - d[h]) + 1)
        BY <4>1, <3>4, NearBack
      <4>3. QED
        BY <4>2, <3>4
    <3>6. OnWay(p, n + 1)
      BY <3>2, <3>3, <3>4, <3>5
    <3>7. QED
      BY <3>2, <3>6, <2>1, <2>4
  <2>7. QED
    BY <2>5, <2>6
<1>8. \A n \in 0..N : n \in F
  <2> HIDE DEF F, N
  <2>1. QED
    BY <1>0, <1>6, <1>7, IntervalInduction
<1>9. PICK h : h = back[N]
  OBVIOUS
<1>10. OnWay(h, N)
  <2>1. N \in 0..N
    BY <1>0
  <2>2. QED
    BY <2>1, <1>8, <1>9
<1>11. d[h] \in Nat /\ s.prev[h] = from
  <2>1. d[h] \in Nat
    BY <1>10, <1>0
  <2>2. d[h] # d[to] - N
    BY <2>1, <1>0, <1>5
  <2>3. QED
    BY <2>1, <2>2, <1>10
<1>12. d[h] = 1 /\ h \in Range(graph[from]) /\ h \in D
  BY <1>10, <1>11, <1>0
<1>13. QED
  BY <1>0, <1>3, <1>5, <1>9, <1>10, <1>12

\* nextHop() answers a neighbour from which the target is nearest.
LEMMA HopIsShortest ==
    ASSUME graph \in Graphs, NEW from \in Rooms, NEW to \in Rooms, from # to,
           Hops[graph][from][to] # Nowhere
    PROVE  /\ Hops[graph][from][to] \in Rooms
           /\ Hops[graph][from][to] \in Range(graph[from])
           /\ \A n \in 0..Cardinality(Rooms) :
                 from \in Around(to, n + 1) => Hops[graph][from][to] \in Around(to, n)
<1>1. PICK h : h = Hops[graph][from][to]
  OBVIOUS
<1>2. h = NextHop(graph, from, to)
  BY <1>1 DEF Hops
<1>3. PICK s : s = Search(graph, from, to)
  OBVIOUS
<1>4. PICK d : Tree(graph, from, s, d) /\ Wave(graph, s, d)
  BY <1>3, SearchFinds
<1>5. to \in DOMAIN s.prev /\ h = WalkBack(s.prev, from, to)
  BY <1>1, <1>2, <1>3 DEF NextHop
<1>6. /\ h \in DOMAIN s.prev /\ h \in Range(graph[from])
      /\ d[to] - 1 \in 0..Cardinality(Rooms) /\ h \in Around(to, d[to] - 1)
  BY <1>4, <1>5, WayBack
<1>7. h \in Rooms /\ d[to] \in Nat /\ Cardinality(Rooms) \in Nat
  BY <1>4, <1>5, <1>6, TownAssumption, FS_CardinalityType DEF Tree
<1>8. ASSUME NEW n \in 0..Cardinality(Rooms), from \in Around(to, n + 1)
      PROVE  h \in Around(to, n)
  <2>1. n + 1 \in 0..(Cardinality(Rooms) + 1) /\ n \in 0..(Cardinality(Rooms) + 1)
    BY <1>7
  <2>2. d[to] <= n + 1
    BY <1>4, <1>5, <1>8, <2>1, MetInTime
  <2>3. d[to] - 1 \in 0..n
    BY <1>6, <1>7, <2>2
  <2>4. QED
    BY <1>6, <1>7, <2>1, <2>3, NearerIsNear
<1>9. QED
  BY <1>1, <1>6, <1>7, <1>8

-----------------------------------------------------------------------------
(***************************************************************************)
(* Steps and where they occur.                                             *)
(***************************************************************************)
Positions(t, s) == {i \in DOMAIN s : s[i] = t}

LEMMA OccursType ==
    ASSUME NEW S, NEW s \in Seq(S), NEW t
    PROVE  IsFiniteSet(Positions(t, s)) /\ Occurs(t, s) = Cardinality(Positions(t, s))
           /\ Occurs(t, s) \in Nat
<1>1. Len(s) \in Nat /\ DOMAIN s = 1..Len(s)
  OBVIOUS
<1>2. IsFiniteSet(1..Len(s)) /\ Positions(t, s) \subseteq 1..Len(s)
  BY <1>1, FS_Interval DEF Positions
<1>3. IsFiniteSet(Positions(t, s))
  BY <1>2, FS_Subset
<1>4. QED
  BY <1>3, FS_CardinalityType DEF Occurs, Positions

LEMMA OccursJoin ==
    ASSUME NEW S, NEW s \in Seq(S), NEW u \in Seq(S), NEW t
    PROVE  Occurs(t, s \o u) = Occurs(t, s) + Occurs(t, u)
<1> DEFINE n == Len(s)
           A == Positions(t, s)
           B == Positions(t, u)
           C == {n + j : j \in B}
<1>1. /\ n \in Nat /\ Len(u) \in Nat /\ DOMAIN s = 1..n /\ DOMAIN u = 1..Len(u)
      /\ s \o u \in Seq(S) /\ Len(s \o u) = n + Len(u) /\ DOMAIN (s \o u) = 1..(n + Len(u))
      /\ \A i \in 1..(n + Len(u)) : (s \o u)[i] = IF i <= n THEN s[i] ELSE u[i - n]
  OBVIOUS
<1>2. A \subseteq 1..n /\ B \subseteq 1..Len(u)
  BY <1>1 DEF Positions
<1>3. Positions(t, s \o u) = A \cup C
  <2>1. ASSUME NEW i \in Positions(t, s \o u) PROVE i \in A \cup C
    <3>1. i \in 1..(n + Len(u)) /\ (s \o u)[i] = t
      BY <1>1 DEF Positions
    <3>2. CASE i <= n
      BY <3>1, <3>2, <1>1 DEF Positions
    <3>3. CASE ~(i <= n)
      <4>1. i - n \in 1..Len(u) /\ u[i - n] = t /\ n + (i - n) = i
        BY <3>1, <3>3, <1>1
      <4>2. i - n \in B
        BY <4>1, <1>1 DEF Positions
      <4>3. QED
        BY <4>1, <4>2
    <3>4. QED
      BY <3>2, <3>3
  <2>2. ASSUME NEW i \in A PROVE i \in Positions(t, s \o u)
    <3>1. i \in 1..n /\ s[i] = t
      BY <1>1 DEF Positions
    <3>2. i \in 1..(n + Len(u)) /\ (s \o u)[i] = t
      BY <3>1, <1>1
    <3>3. QED
      BY <3>2, <1>1 DEF Positions
  <2>3. ASSUME NEW j \in B PROVE n + j \in Positions(t, s \o u)
    <3>1. j \in 1..Len(u) /\ u[j] = t
      BY <1>1 DEF Positions
    <3>2. n + j \in 1..(n + Len(u)) /\ ~(n + j <= n) /\ (n + j) - n = j
      BY <3>1, <1>1
    <3>3. (s \o u)[n + j] = t
      BY <3>1, <3>2, <1>1
    <3>4. QED
      BY <3>2, <3>3, <1>1 DEF Positions
  <2>4. QED
    BY <2>1, <2>2, <2>3
<1>4. /\ IsFiniteSet(A) /\ Occurs(t, s) = Cardinality(A)
      /\ IsFiniteSet(B) /\ Occurs(t, u) = Cardinality(B)
  BY OccursType
<1>5. IsFiniteSet(C) /\ Cardinality(C) = Cardinality(B)
  <2> DEFINE f == [j \in B |-> n + j]
  <2>1. f \in Bijection(B, C)
    <3>1. f \in [B -> C]
      OBVIOUS
    <3>2. \A i, j \in B : f[i] = f[j] => i = j
      <4>1. \A i \in B : f[i] = n + i /\ i \in Nat
        BY <1>2, <1>1
      <4>2. QED
        BY <4>1, <1>1
    <3>3. \A c \in C : \E j \in B : f[j] = c
      OBVIOUS
    <3>4. QED
      BY <3>1, <3>2, <3>3, Fun_IsBij
  <2>2. ExistsBijection(B, C)
    BY <2>1 DEF ExistsBijection
  <2>3. QED
    BY <2>2, <1>4, FS_Bijection
<1>6. A \cap C = {}
  <2>1. ASSUME NEW i \in A, NEW j \in B, i = n + j PROVE FALSE
    BY <2>1, <1>1, <1>2
  <2>2. QED
    BY <2>1
<1>7. Cardinality(A \cup C) = Cardinality(A) + Cardinality(C)
  <2>1. Cardinality(A \cup C) = Cardinality(A) + Cardinality(C) - Cardinality(A \cap C)
    <3> HIDE DEF A, C
    <3>1. QED
      BY <1>4, <1>5, FS_Union
  <2>2. Cardinality(A) \in Nat /\ Cardinality(C) \in Nat /\ Cardinality({}) = 0
    <3> HIDE DEF A, C
    <3>1. QED
      BY <1>4, <1>5, FS_CardinalityType, FS_EmptySet
  <2>3. QED
    <3>1. Cardinality(A \cap C) = 0
      BY <1>6, <2>2
    <3> HIDE DEF A, C
    <3>2. QED
      BY <2>1, <2>2, <3>1
<1>8. Occurs(t, s \o u) = Cardinality(A \cup C)
  BY <1>1, <1>3, OccursType
<1>9. QED
  BY <1>4, <1>5, <1>7, <1>8

LEMMA OccursOnce ==
    ASSUME NEW S, NEW x \in S, NEW t
    PROVE  Occurs(t, <<>>) = 0 /\ Occurs(t, <<x>>) = IF x = t THEN 1 ELSE 0
<1>1. <<>> \in Seq(S) /\ <<x>> \in Seq(S) /\ DOMAIN <<x>> = {1} /\ <<x>>[1] = x
  OBVIOUS
<1>2. Positions(t, <<>>) = {}
  BY DEF Positions
<1>3. Positions(t, <<x>>) = IF x = t THEN {1} ELSE {}
  BY <1>1 DEF Positions
<1>4. Cardinality({}) = 0 /\ Cardinality({1}) = 1
  BY FS_EmptySet, FS_Singleton
<1>5. QED
  BY <1>1, <1>2, <1>3, <1>4, OccursType

Leads(s) == \A i, j \in DOMAIN s : i < j /\ s[i] \in PlanTexts => s[j] \notin Directives

LEMMA LeadsAlone ==
    ASSUME NEW s \in Seq(PlanTexts), NEW x \in Texts
    PROVE  Leads(s) /\ Leads(<<x>> \o s)
<1>1. Len(s) \in Nat /\ DOMAIN s = 1..Len(s) /\ \A i \in 1..Len(s) : s[i] \in PlanTexts
  OBVIOUS
<1>2. \A y \in PlanTexts : y \notin Directives
  BY TextsAssumption
<1>3. Leads(s)
  BY <1>1, <1>2 DEF Leads
<1>4. s \in Seq(Texts) /\ <<x>> \in Seq(Texts)
  BY DEF Texts
<1>5. PICK u : u = <<x>> \o s
  OBVIOUS
<1>6. DOMAIN u = 1..(Len(s) + 1) /\ \A i \in 2..(Len(s) + 1) : u[i] = s[i - 1]
  BY <1>1, <1>4, <1>5
<1>7. ASSUME NEW j \in DOMAIN u, NEW i \in DOMAIN u, i < j PROVE u[j] \notin Directives
  <2>1. j \in 2..(Len(s) + 1) /\ j - 1 \in 1..Len(s)
    BY <1>1, <1>6, <1>7
  <2>2. QED
    BY <2>1, <1>1, <1>2, <1>6
<1>8. QED
  BY <1>3, <1>5, <1>7 DEF Leads

LEMMA LeadsBehind ==
    ASSUME NEW s \in Seq(Directives), NEW u \in Seq(Texts), Leads(u)
    PROVE  Leads(s \o u)
<1>1. /\ Len(s) \in Nat /\ Len(u) \in Nat /\ DOMAIN u = 1..Len(u)
      /\ \A i \in 1..Len(s) : s[i] \in Directives
  OBVIOUS
<1>2. s \in Seq(Texts)
  BY DEF Texts
<1>3. PICK v : v = s \o u
  OBVIOUS
<1>4. /\ DOMAIN v = 1..(Len(s) + Len(u))
      /\ \A i \in 1..(Len(s) + Len(u)) : v[i] = IF i <= Len(s) THEN s[i] ELSE u[i - Len(s)]
  BY <1>1, <1>2, <1>3
<1>5. ASSUME NEW i \in DOMAIN v, NEW j \in DOMAIN v, i < j, v[i] \in PlanTexts
      PROVE  v[j] \notin Directives
  <2>0. i \in 1..(Len(s) + Len(u)) /\ j \in 1..(Len(s) + Len(u))
    BY <1>4
  <2>1. ~(i <= Len(s))
    <3>1. ASSUME i <= Len(s) PROVE FALSE
      <4>1. i \in 1..Len(s) /\ v[i] = s[i]
        BY <3>1, <2>0, <1>1, <1>4
      <4>2. v[i] \in Directives
        BY <4>1, <1>1
      <4>3. QED
        BY <4>2, <1>5, TextsAssumption
    <3>2. QED
      BY <3>1
  <2>2. /\ i - Len(s) \in 1..Len(u) /\ j - Len(s) \in 1..Len(u) /\ i - Len(s) < j - Len(s)
        /\ v[i] = u[i - Len(s)] /\ v[j] = u[j - Len(s)]
    <3>1. i \in Int /\ j \in Int /\ ~(j <= Len(s))
      BY <1>1, <1>5, <2>0, <2>1
    <3>2. v[i] = u[i - Len(s)] /\ v[j] = u[j - Len(s)]
      BY <1>4, <2>0, <2>1, <3>1
    <3>3. QED
      BY <1>1, <1>5, <2>0, <2>1, <3>1, <3>2
  <2>3. QED
    BY <2>2, <1>1, <1>5 DEF Leads
<1>6. QED
  BY <1>3, <1>5 DEF Leads

LEMMA LeadsOn ==
    ASSUME NEW x \in Texts, NEW u \in Seq(Texts), Leads(<<x>> \o u)
    PROVE  Leads(u)
<1>1. PICK v : v = <<x>> \o u
  OBVIOUS
<1>2. /\ Len(u) \in Nat /\ DOMAIN u = 1..Len(u) /\ DOMAIN v = 1..(Len(u) + 1)
      /\ \A i \in 1..Len(u) : v[i + 1] = u[i]
  BY <1>1
<1>3. ASSUME NEW i \in DOMAIN u, NEW j \in DOMAIN u, i < j, u[i] \in PlanTexts
      PROVE  u[j] \notin Directives
  <2>1. /\ i + 1 \in DOMAIN v /\ j + 1 \in DOMAIN v /\ i + 1 < j + 1
        /\ v[i + 1] = u[i] /\ v[j + 1] = u[j]
    BY <1>2, <1>3
  <2>2. QED
    BY <2>1, <1>1, <1>3 DEF Leads
<1>4. QED
  BY <1>3 DEF Leads

-----------------------------------------------------------------------------
(***************************************************************************)
(* The executor.                                                           *)
(***************************************************************************)
LineOf(q, c) == (IF c = None THEN <<>> ELSE <<c>>) \o (IF q = Unloaded THEN <<>> ELSE q)

\* A tick under way knows where it set out from, and its hop is nextHop()'s.
TickOK ==
    /\ tick.pc = "load" => current = None
    /\ tick.pc \in {"me", "roster", "place", "talk"} => current # None
    /\ tick.pc \in {"roster", "place"} => tick.room = where[Me]
    /\ tick.pc = "place" => /\ tick.goal # tick.room
                            /\ tick.hop = Hops[graph][tick.room][tick.goal]

PlanInv ==
    /\ TypeOK
    /\ \A t \in Texts : owed[t] = Occurs(t, Line)
    /\ Leads(Line)
    /\ TickOK

LEMMA NotUnloaded ==
    /\ None \notin Texts /\ Unloaded \notin Seq(Texts)
    /\ Seq(PlanTexts) \subseteq Seq(Texts) /\ Seq(Directives) \subseteq Seq(Texts)
<1>1. None \notin Texts
  BY TextsAssumption DEF Texts
<1>2. ASSUME Unloaded \in Seq(Texts) PROVE FALSE
  <2>1. PICK u : u = <<None>> /\ u \in Seq(Texts)
    BY <1>2 DEF Unloaded
  <2>2. Len(u) = 1 /\ u[1] = None
    BY <2>1
  <2>3. u[1] \in Texts
    BY <2>1, <2>2
  <2>4. QED
    BY <2>2, <2>3, <1>1
<1>3. QED
  BY <1>1, <1>2 DEF Texts

LEMMA LineType ==
    ASSUME NEW q, NEW c, q = Unloaded \/ q \in Seq(Texts), c \in Texts \cup {None}
    PROVE  LineOf(q, c) \in Seq(Texts)
<1>1. (IF c = None THEN <<>> ELSE <<c>>) \in Seq(Texts)
  <2>1. CASE c = None
    BY <2>1
  <2>2. CASE c # None
    <3>1. c \in Texts /\ <<c>> \in Seq(Texts)
      BY <2>2
    <3>2. QED
      BY <3>1, <2>2
  <2>3. QED
    BY <2>1, <2>2
<1>2. (IF q = Unloaded THEN <<>> ELSE q) \in Seq(Texts)
  OBVIOUS
<1>3. QED
  BY <1>1, <1>2 DEF LineOf

\* The next step is taken up: the line is the same.
LEMMA ShiftKeeps ==
    ASSUME TypeOK, NEW q, NEW c, c \in Texts \cup {None},
           q \in Seq(Texts) \/ (q = Unloaded /\ c # None),
           ShiftOrIdle(q, c)
    PROVE  /\ queue' = Unloaded \/ queue' \in Seq(Texts)
           /\ current' \in Texts \cup {None} /\ answer' \in Kinds
           /\ Line' = LineOf(q, c)
           /\ \/ tick' = Resting
              \/ tick' = [pc |-> "me"] /\ current' # None
<1>1. Line' = LineOf(queue', current')
  BY DEF Line, Queued, LineOf
<1>2. CASE c = None /\ q # <<>>
  <2>1. /\ q \in Seq(Texts) /\ queue' = Tail(q) /\ current' = Head(q)
        /\ tick' = IF current' = None THEN Resting ELSE [pc |-> "me"]
        /\ answer' = IF current' = None THEN "idle" ELSE answer
    BY <1>2 DEF ShiftOrIdle
  <2>2. Head(q) \in Texts /\ Tail(q) \in Seq(Texts) /\ <<Head(q)>> \o Tail(q) = q
    BY <2>1, <1>2
  <2>3. Tail(q) # Unloaded /\ q # Unloaded /\ Head(q) # None
    BY <2>1, <2>2, NotUnloaded
  <2>4. LineOf(q, c) = q
    <3>1. <<>> \o q = q
      BY <2>1
    <3>2. QED
      BY <3>1, <2>3, <1>2 DEF LineOf
  <2>5. LineOf(queue', current') = q
    BY <2>1, <2>2, <2>3 DEF LineOf
  <2>6. QED
    BY <1>1, <2>1, <2>2, <2>3, <2>4, <2>5 DEF TypeOK
<1>3. CASE ~(c = None /\ q # <<>>)
  <2>1. /\ queue' = q /\ current' = c
        /\ current' = None => tick' = Resting /\ answer' = "idle"
        /\ current' # None => tick' = [pc |-> "me"] /\ answer' = answer
    BY <1>3 DEF ShiftOrIdle
  <2>2. answer' \in Kinds
    <3>1. "idle" \in Kinds
      BY DEF Kinds
    <3>2. answer \in Kinds
      BY DEF TypeOK
    <3>3. QED
      BY <2>1, <3>1, <3>2
  <2>3. Line' = LineOf(q, c)
    BY <1>1, <2>1
  <2>4. QED
    BY <2>1, <2>2, <2>3
<1>4. QED
  BY <1>2, <1>3

\* The step of a tick ends: the line is what waits behind it.
LEMMA EndKeeps ==
    ASSUME PlanInv, current # None, NEW kind \in Kinds, EndStep(kind), queue' = queue
    PROVE  /\ current' = None /\ tick' = Resting /\ answer' \in Kinds
           /\ owed' \in [Texts -> Nat]
           /\ \A t \in Texts : owed'[t] = Occurs(t, Line')
           /\ Leads(Line')
<1>1. /\ current' = None /\ tick' = Resting /\ answer' = kind
      /\ owed' = [owed EXCEPT ![current] = @ - 1]
  BY DEF EndStep
<1>2. /\ queue = Unloaded \/ queue \in Seq(Texts)
      /\ owed \in [Texts -> Nat] /\ \A t \in Texts : owed[t] = Occurs(t, Line)
      /\ Leads(Line)
  BY DEF PlanInv, TypeOK
<1>3. Queued \in Seq(Texts) /\ <<current>> \in Seq(Texts)
  <2>1. current \in Texts
    BY DEF PlanInv, TypeOK
  <2>2. QED
    BY <1>2, <2>1 DEF Queued
<1>4. Line = <<current>> \o Queued
  BY DEF Line
<1>5. Line' = Queued
  <2>1. <<>> \o Queued = Queued
    BY <1>3
  <2>2. Queued' = Queued
    BY DEF Queued
  <2>3. QED
    BY <2>1, <2>2, <1>1 DEF Line
<1>6. current \in Texts
  BY DEF PlanInv, TypeOK
<1>7. ASSUME NEW t \in Texts
      PROVE  owed'[t] = Occurs(t, Line') /\ owed'[t] \in Nat
  <2>1. owed[t] = Occurs(t, <<current>>) + Occurs(t, Queued)
    BY <1>2, <1>3, <1>4, OccursJoin
  <2>2. Occurs(t, <<current>>) = (IF current = t THEN 1 ELSE 0) /\ Occurs(t, Queued) \in Nat
    BY <1>3, <1>6, OccursOnce, OccursType
  <2>3. owed'[t] = IF current = t THEN owed[t] - 1 ELSE owed[t]
    BY <1>1, <1>2
  <2>4. QED
    BY <1>5, <2>1, <2>2, <2>3
<1>8. Leads(Queued)
  BY <1>2, <1>3, <1>4, <1>6, LeadsOn
<1>9. owed' \in [Texts -> Nat]
  BY <1>1, <1>2, <1>7
<1>10. QED
  BY <1>1, <1>5, <1>7, <1>8, <1>9

LEMMA BeginKeeps ==
    ASSUME PlanInv, BeginTick
    PROVE  PlanInv'
<1>1. /\ inbox \in Seq(Directives) /\ inbox \in Seq(Texts) /\ inbox' = <<>>
      /\ queue = Unloaded \/ queue \in Seq(Texts)
      /\ current \in Texts \cup {None} /\ owed \in [Texts -> Nat]
      /\ \A t \in Texts : owed[t] = Occurs(t, Line)
      /\ Leads(Line) /\ TypeOK
  BY NotUnloaded DEF PlanInv, TypeOK, BeginTick
<1>2. Line = LineOf(queue, current) /\ Line \in Seq(Texts)
  <2>1. Line = LineOf(queue, current)
    BY DEF Line, Queued, LineOf
  <2>2. QED
    BY <1>1, <2>1, LineType
<1>3. /\ owed' = [t \in Texts |-> owed[t] + Occurs(t, inbox)]
      /\ UNCHANGED <<graph, where, plan, consulted, events>>
  BY DEF BeginTick, Handed
<1>4. /\ queue' = Unloaded \/ queue' \in Seq(Texts)
      /\ current' \in Texts \cup {None} /\ answer' \in Kinds
      /\ Line' = inbox \o Line
      /\ \/ tick' = Resting
         \/ tick' = [pc |-> "me"] /\ current' # None
         \/ tick' = [pc |-> "load"] /\ current' = None
  <2>1. CASE Preempted = [queue |-> Unloaded, current |-> None]
    <3>1. /\ tick' = [pc |-> "load"] /\ UNCHANGED <<queue, current, answer>>
      BY <2>1 DEF BeginTick
    <3>2. inbox = <<>>
      <4>1. ASSUME inbox # <<>> PROVE FALSE
        <5>1. Preempted.queue = inbox \o Line
          BY <4>1 DEF Preempted
        <5>2. inbox \o Line \in Seq(Texts)
          BY <1>1, <1>2
        <5>3. Preempted.queue = Unloaded
          BY <2>1
        <5>4. QED
          BY <5>1, <5>2, <5>3, NotUnloaded
      <4>2. QED
        BY <4>1
    <3>3. current = None
      <4>1. Preempted.current = current
        BY <3>2 DEF Preempted
      <4>2. QED
        BY <4>1, <2>1
    <3>4. Line' = Line /\ inbox \o Line = Line
      <4>1. Line' = Line
        BY <3>1 DEF Line, Queued
      <4>2. <<>> \o Line = Line
        BY <1>2
      <4>3. QED
        BY <4>1, <4>2, <3>2
    <3>5. QED
      BY <1>1, <3>1, <3>3, <3>4 DEF TypeOK
  <2>2. CASE Preempted # [queue |-> Unloaded, current |-> None]
    <3>1. ShiftOrIdle(Preempted.queue, Preempted.current)
      BY <2>2 DEF BeginTick
    <3>2. PICK q, c : q = Preempted.queue /\ c = Preempted.current
      OBVIOUS
    <3>3. /\ c \in Texts \cup {None}
          /\ q \in Seq(Texts) \/ (q = Unloaded /\ c # None)
          /\ LineOf(q, c) = inbox \o Line
      <4>1. CASE inbox = <<>>
        <5>1. q = queue /\ c = current
          BY <3>2, <4>1 DEF Preempted
        <5>2. ~(q = Unloaded /\ c = None)
          <6>1. Preempted = [queue |-> queue, current |-> current]
            BY <4>1 DEF Preempted
          <6>2. QED
            BY <2>2, <5>1, <6>1
        <5>3. <<>> \o Line = Line
          BY <1>2
        <5>4. QED
          BY <1>1, <1>2, <4>1, <5>1, <5>2, <5>3
      <4>2. CASE inbox # <<>>
        <5>1. q = inbox \o Line /\ c = None
          BY <3>2, <4>2 DEF Preempted
        <5>2. q \in Seq(Texts) /\ <<>> \o q = q
          BY <1>1, <1>2, <5>1
        <5>3. q # Unloaded
          BY <5>2, NotUnloaded
        <5>4. LineOf(q, c) = q
          BY <5>1, <5>2, <5>3 DEF LineOf
        <5>5. QED
          BY <5>1, <5>2, <5>4
      <4>3. QED
        BY <4>1, <4>2
    <3>4. ShiftOrIdle(q, c)
      BY <3>1, <3>2
    <3>5. QED
      BY <1>1, <3>3, <3>4, ShiftKeeps
  <2>3. QED
    BY <2>1, <2>2
<1>5. ASSUME NEW t \in Texts
      PROVE  owed'[t] = Occurs(t, Line') /\ owed'[t] \in Nat
  <2>1. Occurs(t, inbox \o Line) = Occurs(t, inbox) + Occurs(t, Line)
        /\ Occurs(t, inbox) \in Nat /\ Occurs(t, Line) \in Nat
    BY <1>1, <1>2, OccursJoin, OccursType
  <2>2. owed'[t] = owed[t] + Occurs(t, inbox) /\ owed[t] = Occurs(t, Line)
    BY <1>1, <1>3
  <2>3. QED
    BY <2>1, <2>2, <1>4
<1>6. Leads(Line')
  BY <1>1, <1>2, <1>4, LeadsBehind
<1>7. owed' \in [Texts -> Nat] /\ inbox' \in Seq(Directives)
  BY <1>1, <1>3, <1>5
<1>8. TickOK'
  BY <1>4 DEF TickOK, Resting
<1>9. TypeOK'
  BY <1>1, <1>3, <1>4, <1>7 DEF TypeOK
<1>10. QED
  BY <1>5, <1>6, <1>8, <1>9 DEF PlanInv

LEMMA LoadKeeps ==
    ASSUME PlanInv, LoadThenShift
    PROVE  PlanInv'
<1>1. PICK steps \in PlanSteps : owed' = Replaced(steps) /\ ShiftOrIdle(steps, None)
  BY DEF LoadThenShift
<1>2. /\ TypeOK /\ current = None /\ consulted' = TRUE
      /\ owed \in [Texts -> Nat] /\ \A t \in Texts : owed[t] = Occurs(t, Line)
      /\ UNCHANGED <<graph, inbox, where, plan, events>>
  BY DEF PlanInv, TypeOK, TickOK, LoadThenShift
<1>3. steps \in Seq(PlanTexts) /\ steps \in Seq(Texts)
  <2>1. plan \in Seq(PlanTexts) /\ <<>> \in Seq(PlanTexts)
    BY <1>2, TextsAssumption DEF TypeOK
  <2>2. QED
    BY <2>1, NotUnloaded DEF PlanSteps
<1>4. LineOf(steps, None) = steps
  <2>1. <<>> \o steps = steps /\ steps # Unloaded
    BY <1>3, NotUnloaded
  <2>2. QED
    BY <2>1 DEF LineOf
<1>5. /\ queue' = Unloaded \/ queue' \in Seq(Texts)
      /\ current' \in Texts \cup {None} /\ answer' \in Kinds
      /\ Line' = steps
      /\ \/ tick' = Resting
         \/ tick' = [pc |-> "me"] /\ current' # None
  BY <1>1, <1>2, <1>3, <1>4, ShiftKeeps
<1>6. Queued \in Seq(Texts) /\ Line = Queued
  <2>1. Queued \in Seq(Texts)
    BY <1>2 DEF Queued, TypeOK
  <2>2. <<>> \o Queued = Queued
    BY <2>1
  <2>3. QED
    BY <2>1, <2>2, <1>2 DEF Line
<1>7. ASSUME NEW t \in Texts
      PROVE  owed'[t] = Occurs(t, Line') /\ owed'[t] \in Nat
  <2>1. Occurs(t, steps) \in Nat /\ Occurs(t, Queued) \in Nat
    BY <1>3, <1>6, OccursType
  <2>2. owed'[t] = (owed[t] + Occurs(t, steps)) - Occurs(t, Queued)
    BY <1>1 DEF Replaced
  <2>3. owed[t] = Occurs(t, Queued)
    BY <1>2, <1>6
  <2>4. QED
    BY <2>1, <2>2, <2>3, <1>5
<1>8. Leads(Line')
  <2>1. \A x \in Texts : Leads(steps)
    BY <1>3, LeadsAlone
  <2>2. CASE Texts = {}
    <3>1. \A i \in DOMAIN steps : steps[i] \in Texts
      BY <1>3
    <3>2. QED
      BY <2>2, <3>1, <1>5 DEF Leads
  <2>3. QED
    BY <2>1, <2>2, <1>5
<1>9. owed' \in [Texts -> Nat]
  BY <1>1, <1>7 DEF Replaced
<1>10. TickOK'
  BY <1>5 DEF TickOK, Resting
<1>11. TypeOK'
  BY <1>2, <1>5, <1>9 DEF TypeOK
<1>12. QED
  BY <1>7, <1>8, <1>10, <1>11 DEF PlanInv

\* What a tick may do at its step's end.
LEMMA StepEnds ==
    ASSUME PlanInv, current # None, NEW kind \in Kinds, EndStep(kind),
           UNCHANGED <<graph, queue, inbox, where, plan, consulted, events>>
    PROVE  PlanInv'
<1>1. /\ current' = None /\ tick' = Resting /\ answer' \in Kinds
      /\ owed' \in [Texts -> Nat]
      /\ \A t \in Texts : owed'[t] = Occurs(t, Line')
      /\ Leads(Line')
  BY EndKeeps
<1>2. TickOK'
  BY <1>1 DEF TickOK, Resting
<1>3. TypeOK'
  BY <1>1 DEF PlanInv, TypeOK
<1>4. QED
  BY <1>1, <1>2, <1>3 DEF PlanInv

\* A step of the tick that leaves the line alone.
LEMMA TickGoesOn ==
    ASSUME PlanInv, TickOK', where' \in [Npcs -> Rooms \cup {Nowhere}], answer' \in Kinds,
           \/ tick' = Resting
           \/ tick' \in [pc : {"load", "me"}]
           \/ tick' \in [pc : {"roster"}, room : Rooms]
           \/ tick' \in [pc : {"place"}, room : Rooms, hop : Rooms, goal : Rooms]
           \/ tick' \in [pc : {"talk"}, target : Others],
           UNCHANGED <<graph, queue, current, inbox, plan, owed, consulted>>
    PROVE  PlanInv'
<1>1. Line' = Line
  BY DEF Line, Queued
<1>2. TypeOK'
  BY DEF PlanInv, TypeOK
<1>3. QED
  BY <1>1, <1>2 DEF PlanInv

LEMMA ReadMeKeeps ==
    ASSUME PlanInv, ReadMe
    PROVE  PlanInv'
<1>1. /\ tick.pc = "me" /\ current # None
      /\ where \in [Npcs -> Rooms \cup {Nowhere}] /\ Me \in Npcs /\ answer \in Kinds
      /\ UNCHANGED <<graph, queue, inbox, where, plan, consulted, events>>
  BY DEF PlanInv, TypeOK, TickOK, ReadMe, Npcs
<1>2. CASE where[Me] = Nowhere
  <2>1. EndStep("skip") /\ "skip" \in Kinds
    BY <1>2 DEF ReadMe, Kinds
  <2>2. QED
    BY <1>1, <2>1, StepEnds
<1>3. CASE where[Me] # Nowhere
  <2>1. /\ tick' = [pc |-> "roster", room |-> where[Me]]
        /\ UNCHANGED <<current, owed, answer>> /\ where[Me] \in Rooms
    BY <1>1, <1>3 DEF ReadMe
  <2>2. tick' \in [pc : {"roster"}, room : Rooms] /\ tick'.pc = "roster" /\ tick'.room = where[Me]
    BY <2>1
  <2>3. TickOK'
    BY <1>1, <2>1, <2>2 DEF TickOK
  <2>4. QED
    BY <1>1, <2>1, <2>2, <2>3, TickGoesOn
<1>4. QED
  BY <1>2, <1>3

LEMMA ReadRosterKeeps ==
    ASSUME PlanInv, ReadRoster
    PROVE  PlanInv'
<1> DEFINE goal == TargetRoom(current)
           hop == Hops[graph][tick.room][goal]
<1>1. /\ tick.pc = "roster" /\ current \in Texts /\ current # None
      /\ graph \in Graphs /\ where \in [Npcs -> Rooms \cup {Nowhere}] /\ answer \in Kinds
      /\ tick.room = where[Me] /\ tick.room \in Rooms
      /\ UNCHANGED <<graph, queue, inbox, where, plan, consulted, events>>
  <2>1. tick.pc = "roster"
    BY DEF ReadRoster
  <2>2. tick \in [pc : {"roster"}, room : Rooms]
    BY <2>1 DEF PlanInv, TypeOK, Resting
  <2>3. QED
    BY <2>1, <2>2 DEF PlanInv, TypeOK, TickOK, ReadRoster
<1>2. goal \in Rooms \cup {Nowhere}
  <2>1. CASE Person(current) = {}
    BY <2>1, <1>1, TextsAssumption DEF TargetRoom, Texts
  <2>2. CASE Person(current) # {}
    <3>1. PICK o : o = CHOOSE x \in Person(current) : TRUE
      OBVIOUS
    <3>2. o \in Person(current)
      BY <2>2, <3>1
    <3>3. o \in Npcs
      BY <3>2 DEF Person, Listed, Npcs
    <3>4. goal = where[o]
      BY <2>2, <3>1 DEF TargetRoom
    <3>5. QED
      BY <3>3, <3>4, <1>1
  <2>3. QED
    BY <2>1, <2>2
<1>3. CASE EndStep("skip") \/ EndStep("arrive")
  <2>1. "skip" \in Kinds /\ "arrive" \in Kinds
    BY DEF Kinds
  <2>2. QED
    BY <1>1, <1>3, <2>1, StepEnds
<1>4. CASE /\ goal \notin {Nowhere, tick.room} /\ hop # Nowhere
           /\ tick' = [pc |-> "place", room |-> tick.room, hop |-> hop, goal |-> goal]
           /\ UNCHANGED <<current, owed, answer>>
  <2>1. goal \in Rooms /\ goal # tick.room
    BY <1>2, <1>4
  <2>2. hop \in Rooms
    <3> HIDE DEF goal
    <3>1. QED
      BY <1>1, <1>4, <2>1, HopIsShortest
  <2>3. /\ tick' \in [pc : {"place"}, room : Rooms, hop : Rooms, goal : Rooms]
        /\ tick'.pc = "place" /\ tick'.room = tick.room /\ tick'.goal = goal /\ tick'.hop = hop
    <3> HIDE DEF goal, hop
    <3>1. QED
      BY <1>1, <1>4, <2>1, <2>2
  <2>4. TickOK'
    <3>1. tick'.hop = Hops[graph'][tick'.room][tick'.goal]
      BY <1>1, <2>3
    <3>2. QED
      BY <1>1, <1>4, <2>1, <2>3, <3>1 DEF TickOK
  <2>5. QED
    BY <1>1, <1>4, <2>3, <2>4, TickGoesOn
<1>5. CASE \E o \in Partners(current, goal) :
              tick' = [pc |-> "talk", target |-> o] /\ UNCHANGED <<current, owed, answer>>
  <2>1. PICK o \in Partners(current, goal) :
              tick' = [pc |-> "talk", target |-> o] /\ UNCHANGED <<current, owed, answer>>
    BY <1>5
  <2>2. o \in Others
    BY <2>1 DEF Partners, Person, Listed
  <2>3. tick' \in [pc : {"talk"}, target : Others] /\ tick'.pc = "talk"
    BY <2>1, <2>2
  <2>4. TickOK'
    BY <1>1, <2>1, <2>3 DEF TickOK
  <2>5. QED
    BY <1>1, <2>1, <2>3, <2>4, TickGoesOn
<1>6. QED
  BY <1>3, <1>4, <1>5 DEF ReadRoster

LEMMA PlaceKeeps ==
    ASSUME PlanInv, Place
    PROVE  PlanInv'
<1>1. tick.pc = "place" /\ where' = [where EXCEPT ![Me] = tick.hop] /\ tick' = Resting
      /\ answer' = "move" /\ UNCHANGED <<graph, queue, current, inbox, plan, owed, consulted>>
  BY DEF Place
<1>2. tick.hop \in Rooms
  <2>1. tick \in [pc : {"place"}, room : Rooms, hop : Rooms, goal : Rooms]
    BY <1>1 DEF PlanInv, TypeOK, Resting
  <2>2. QED
    BY <2>1
<1>3. where' \in [Npcs -> Rooms \cup {Nowhere}]
  BY <1>1, <1>2 DEF PlanInv, TypeOK
<1>4. TickOK' /\ answer' \in Kinds
  BY <1>1 DEF TickOK, Resting, Kinds
<1>5. QED
  BY <1>1, <1>3, <1>4, TickGoesOn

LEMMA ThrowKeeps ==
    ASSUME PlanInv, Throw
    PROVE  PlanInv'
<1>1. /\ tick' = Resting /\ answer' = "throw"
      /\ UNCHANGED <<graph, queue, current, inbox, where, plan, owed, consulted>>
  BY DEF Throw
<1>2. TickOK' /\ answer' \in Kinds
  BY <1>1 DEF TickOK, Resting, Kinds
<1>3. where' \in [Npcs -> Rooms \cup {Nowhere}]
  BY <1>1 DEF PlanInv, TypeOK
<1>4. QED
  BY <1>1, <1>2, <1>3, TickGoesOn

LEMMA PushKeeps ==
    ASSUME PlanInv, NEW d \in Directives, PushGoto(d)
    PROVE  PlanInv'
<1>1. /\ inbox' = inbox \/ inbox' = Append(inbox, d)
      /\ UNCHANGED <<graph, queue, current, where, plan, tick, answer, owed, consulted>>
  BY DEF PushGoto
<1>2. inbox \in Seq(Directives)
  BY DEF PlanInv, TypeOK
<1>3. inbox' \in Seq(Directives)
  BY <1>1, <1>2
<1>4. Line' = Line
  BY <1>1 DEF Line, Queued
<1>5. TypeOK' /\ TickOK'
  BY <1>1, <1>3 DEF PlanInv, TypeOK, TickOK
<1>6. QED
  BY <1>1, <1>4, <1>5 DEF PlanInv

LEMMA WanderKeeps ==
    ASSUME PlanInv, NEW o \in Others, Wander(o)
    PROVE  PlanInv'
<1>1. PICK r \in Rooms : where' = [where EXCEPT ![o] = r]
  BY DEF Wander
<1>2. /\ UNCHANGED <<graph, queue, current, inbox, plan, tick, answer, owed, consulted>>
      /\ where \in [Npcs -> Rooms \cup {Nowhere}] /\ Me # o /\ Me \in Npcs /\ answer \in Kinds
  BY TownAssumption DEF Wander, PlanInv, TypeOK, Npcs
<1>3. where' \in [Npcs -> Rooms \cup {Nowhere}] /\ where'[Me] = where[Me]
  BY <1>1, <1>2
<1>4. TickOK'
  BY <1>2, <1>3 DEF PlanInv, TickOK
<1>5. Line' = Line
  BY <1>2 DEF Line, Queued
<1>6. TypeOK'
  BY <1>2, <1>3 DEF PlanInv, TypeOK
<1>7. QED
  BY <1>2, <1>4, <1>5, <1>6 DEF PlanInv

LEMMA ReloadKeeps ==
    ASSUME PlanInv, Reload
    PROVE  PlanInv'
<1>1. PICK steps \in {plan', <<>>} : queue' = steps /\ owed' = Replaced(steps)
  BY DEF Reload
<1>2. /\ plan' \in Plans /\ consulted' = TRUE
      /\ UNCHANGED <<graph, current, inbox, where, tick, answer>>
      /\ current \in Texts \cup {None} /\ owed \in [Texts -> Nat]
      /\ \A t \in Texts : owed[t] = Occurs(t, Line)
  BY DEF Reload, PlanInv, TypeOK
<1>3. steps \in Seq(PlanTexts) /\ steps \in Seq(Texts)
  <2>1. plan' \in Seq(PlanTexts) /\ <<>> \in Seq(PlanTexts)
    BY <1>2, TextsAssumption
  <2>2. QED
    BY <2>1, NotUnloaded
<1> DEFINE half == IF current = None THEN <<>> ELSE <<current>>
<1>4. half \in Seq(Texts) /\ Queued \in Seq(Texts)
  <2>1. Queued \in Seq(Texts)
    BY DEF PlanInv, TypeOK, Queued
  <2>2. CASE current = None
    BY <2>1, <2>2
  <2>3. CASE current # None
    <3>1. current \in Texts /\ <<current>> \in Seq(Texts)
      BY <1>2, <2>3
    <3>2. QED
      BY <2>1, <2>3, <3>1
  <2>4. QED
    BY <2>2, <2>3
<1>5. Line = half \o Queued /\ Line' = half \o steps
  <2>1. Queued' = steps
    BY <1>1, <1>3, NotUnloaded DEF Queued
  <2>2. QED
    BY <1>2, <2>1 DEF Line
<1>6. ASSUME NEW t \in Texts
      PROVE  owed'[t] = Occurs(t, Line') /\ owed'[t] \in Nat
  <2>1. /\ Occurs(t, half \o Queued) = Occurs(t, half) + Occurs(t, Queued)
        /\ Occurs(t, half \o steps) = Occurs(t, half) + Occurs(t, steps)
        /\ Occurs(t, half) \in Nat /\ Occurs(t, Queued) \in Nat /\ Occurs(t, steps) \in Nat
    <3> HIDE DEF half
    <3>1. QED
      BY <1>3, <1>4, OccursJoin, OccursType
  <2>2. owed'[t] = (owed[t] + Occurs(t, steps)) - Occurs(t, Queued)
    BY <1>1 DEF Replaced
  <2>3. owed[t] = Occurs(t, Line)
    BY <1>2
  <2> HIDE DEF half
  <2>4. QED
    BY <2>1, <2>2, <2>3, <1>5
<1>7. Leads(Line')
  <2>1. CASE current = None
    <3>1. <<>> \o steps = steps
      BY <1>3
    <3>2. Line' = steps
      BY <3>1, <2>1, <1>5
    <3>3. \A i \in DOMAIN steps : steps[i] \in PlanTexts
      BY <1>3
    <3>4. QED
      BY <3>2, <3>3, TextsAssumption DEF Leads
  <2>2. CASE current # None
    <3>1. current \in Texts /\ Line' = <<current>> \o steps
      BY <1>2, <1>5, <2>2
    <3>2. QED
      BY <3>1, <1>3, LeadsAlone
  <2>3. QED
    BY <2>1, <2>2
<1>8. owed' \in [Texts -> Nat]
  BY <1>1, <1>6 DEF Replaced
<1>9. TickOK' /\ TypeOK'
  BY <1>1, <1>2, <1>3, <1>8 DEF PlanInv, TypeOK, TickOK
<1>10. QED
  BY <1>6, <1>7, <1>9 DEF PlanInv

LEMMA PlanStart == PlanInit => PlanInv
<1> SUFFICES ASSUME PlanInit PROVE PlanInv
  OBVIOUS
<1>1. /\ graph \in Graphs /\ plan \in Plans /\ queue \in Plans \cup {Unloaded} /\ current = None
      /\ inbox = <<>> /\ where \in Starts /\ tick = Resting /\ answer = "none"
      /\ owed = [t \in Texts |-> Occurs(t, Queued)] /\ consulted \in BOOLEAN
  BY DEF PlanInit
<1>2. queue = Unloaded \/ (queue \in Seq(PlanTexts) /\ queue \in Seq(Texts))
  BY <1>1, TextsAssumption, NotUnloaded
<1>3. Queued \in Seq(PlanTexts) /\ Queued \in Seq(Texts)
  BY <1>2 DEF Queued
<1>4. Line = Queued
  <2>1. <<>> \o Queued = Queued
    BY <1>3
  <2>2. QED
    BY <1>1, <2>1 DEF Line
<1>5. \A t \in Texts : Occurs(t, Queued) \in Nat
  BY <1>3, OccursType
<1>6. Leads(Line)
  <2>1. \A i \in DOMAIN Queued : Queued[i] \in PlanTexts
    BY <1>3
  <2>2. QED
    BY <1>4, <2>1, TextsAssumption DEF Leads
<1>7. where \in [Npcs -> Rooms \cup {Nowhere}] /\ inbox \in Seq(Directives)
  <2>1. where \in [Npcs -> Rooms \cup {Nowhere}]
    BY <1>1, TownAssumption DEF Npcs
  <2>2. inbox \in Seq(Directives)
    BY <1>1
  <2>3. QED
    BY <2>1, <2>2
<1>8. TypeOK
  BY <1>1, <1>2, <1>5, <1>7 DEF TypeOK, Kinds
<1>9. TickOK
  BY <1>1 DEF TickOK, Resting
<1>10. QED
  BY <1>1, <1>4, <1>6, <1>8, <1>9 DEF PlanInv

LEMMA PlanStep == PlanInv /\ [PlanNext]_planVars => PlanInv'
<1> SUFFICES ASSUME PlanInv, [PlanNext]_planVars PROVE PlanInv'
  OBVIOUS
<1>1. CASE UNCHANGED planVars
  <2>1. Line' = Line
    BY <1>1 DEF planVars, Line, Queued
  <2>2. QED
    BY <1>1, <2>1 DEF planVars, PlanInv, TypeOK, TickOK
<1>2. CASE Talk
  <2>1. current # None /\ "talk" \in Kinds
    BY <1>2 DEF PlanInv, TickOK, Talk, Kinds
  <2>2. QED
    BY <1>2, <2>1, StepEnds DEF Talk
<1>3. QED
  BY <1>1, <1>2, BeginKeeps, LoadKeeps, ReadMeKeeps, ReadRosterKeeps, PlaceKeeps, ThrowKeeps,
     PushKeeps, ReloadKeeps, WanderKeeps
  DEF PlanNext, TickStep

LEMMA PlanInvHolds == PlanSpec => []PlanInv
BY PlanStart, PlanStep, PTL DEF PlanSpec

\* No step of a plan and no directive is lost or done twice, for any town, texts,
\* plans, reloads, memory failures and rejected ticks (runTick, loadFromMemory).
THEOREM NoStepIsLost == PlanSpec => []StepsKept
<1>1. PlanInv => StepsKept
  BY DEF PlanInv, StepsKept
<1>2. QED
  BY <1>1, PlanInvHolds, PTL

\* Directives stand before every step of the plan, even the half-done one, unless
\* that was itself a directive (runTick, takeGoto).
THEOREM DirectivesGoFirst == PlanSpec => []DirectivesLead
<1>1. PlanInv => DirectivesLead
  BY DEF PlanInv, Leads, DirectivesLead
<1>2. QED
  BY <1>1, PlanInvHolds, PTL

\* Whatever the town's streets, an executor moves along one of them, onto a
\* shortest path to where the roster showed its target (nextHop, place).
THEOREM WalksAreShortest == PlanSpec => WalksShortestPath
<1>1. ASSUME PlanInv, [PlanNext]_planVars, where'[Me] # where[Me]
      PROVE  /\ where'[Me] \in Range(graph[where[Me]])
             /\ \A n \in 0..Cardinality(Rooms) :
                   where[Me] \in Around(tick.goal, n+1) => where'[Me] \in Around(tick.goal, n)
  <2>1. Place
    <3>1. ASSUME NEW o \in Others, Wander(o) PROVE FALSE
      BY <1>1, <3>1, TownAssumption DEF Wander, PlanInv, TypeOK, Npcs
    <3>2. QED
      BY <1>1, <3>1
      DEF PlanNext, TickStep, planVars, BeginTick, LoadThenShift, ReadMe, ReadRoster, Talk,
          Throw, PushGoto, Reload
  <2>2. /\ tick \in [pc : {"place"}, room : Rooms, hop : Rooms, goal : Rooms]
        /\ tick.room = where[Me] /\ tick.goal # tick.room /\ graph \in Graphs
        /\ tick.hop = Hops[graph][tick.room][tick.goal]
    BY <1>1, <2>1 DEF Place, PlanInv, TypeOK, TickOK, Resting
  <2>3. where'[Me] = tick.hop
    BY <1>1, <2>1 DEF Place, PlanInv, TypeOK, Npcs
  <2>4. PICK from \in Rooms, to \in Rooms : from = tick.room /\ to = tick.goal
    BY <2>2
  <2>5. from # to /\ Hops[graph][from][to] = where'[Me] /\ from = where[Me]
    BY <2>2, <2>3, <2>4
  <2>6. where'[Me] # Nowhere
    BY <2>2, <2>3, TownAssumption
  <2>7. /\ Hops[graph][from][to] \in Range(graph[from])
        /\ \A n \in 0..Cardinality(Rooms) :
              from \in Around(to, n + 1) => Hops[graph][from][to] \in Around(to, n)
    BY <2>2, <2>5, <2>6, HopIsShortest
  <2>8. QED
    BY <2>4, <2>5, <2>7
<1>2. QED
  BY <1>1, PlanInvHolds, PTL DEF PlanSpec, WalksShortestPath
=============================================================================
