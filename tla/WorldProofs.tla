----------------------------- MODULE WorldProofs -----------------------------
(***************************************************************************)
(* Theorems about the town, however calls overlap and services fail: what  *)
(* a guild's members may believe and whom they may ban, for any guild,     *)
(* peers, claims and clocks; what a world keeps from day to day, for any   *)
(* calls, lists and hosts that die; how its NPCs get to know, overhear and *)
(* warn each other, for any of them, hosts, replies and fairs; that turns  *)
(* of the action loop make no silver, whatever the model writes; and that  *)
(* an anchored tick can be replayed and its transactions keep the money,   *)
(* for any worlds, transactions, turns of oracles and faults.              *)
(***************************************************************************)
EXTENDS Cognition, SharedWorldLife, FairTick, ActionLoop, Oracles, SumTheorems, FiniteSetTheorems,
        SequenceTheorems, TLAPS

-----------------------------------------------------------------------------
(***************************************************************************)
(* The guild.                                                              *)
(***************************************************************************)

\* Who may vote for a sanction in good faith.
Aggrieved(n, topic, peer) == Informed(n, topic) \/ Wronged(n, peer)
Party(topic, peer) == {n \in Members : Aggrieved(n, topic, peer)}

\* A call that learns: of a deal that was lived; the trust it read was earned.
LearnOK(t) ==
    /\ t = [kind |-> "learn", pc |-> t.pc, of |-> t.of, peer |-> t.peer, topic |-> t.topic,
            outcome |-> t.outcome, seen |-> t.seen]
    /\ t.of \in Members /\ t.peer \in Peers /\ t.outcome \in DOMAIN Deltas
    /\ [of |-> t.of, peer |-> t.peer, topic |-> t.topic, outcome |-> t.outcome] \in lived
    /\ t.pc = "set" => t.seen \in Int /\ (t.seen < 0 => Wronged(t.of, t.peer))
    /\ t.pc = "reflect" => town.reflects

\* A warning under way: its source holds a belief of its own.
WarnOK(t) ==
    /\ t = [kind |-> "warn", pc |-> t.pc, from |-> t.from, of |-> t.of, topic |-> t.topic]
    /\ [of |-> t.from, topic |-> t.topic, by |-> t.from] \in facts

\* A vote under way: whoever voted for it has a reason.
RoundOK(t) ==
    /\ t = [kind |-> "round", pc |-> t.pc, proposer |-> t.proposer, target |-> t.target,
            topic |-> t.topic, until |-> t.until, ayes |-> t.ayes, left |-> t.left]
    /\ t.target \in Peers /\ t.until \in Nat
    /\ \A n \in t.ayes \cap Members : Aggrieved(n, t.topic, t.target)

TaskOK(t) == t = Free \/ LearnOK(t) \/ WarnOK(t) \/ RoundOK(t)
UnderWay == {task[s] : s \in Tasks}
TasksOK == DOMAIN task = Tasks /\ \A t \in UnderWay : TaskOK(t)

GuildTypeOK ==
    /\ trust \in [Members -> [Members \cup Peers -> Int]]
    /\ blacklist \in [Peers -> Nat]
    /\ day \in Nat
    /\ used \in [CallKinds -> Nat]

BeliefsFelt == \A f \in facts : Felt(f.by, f.topic)
EpisodesLived == \A e \in episodes : \E l \in lived : l.of = e.of /\ l.topic = e.topic
TrustEarned == \A n \in Members, p \in Peers : trust[n][p] < 0 => Wronged(n, p)
OnRecord(p) == \E n \in Members : Wronged(n, p)
RapsLived == \A p \in raps : OnRecord(p)
DecreeOK(d) ==
    /\ d.target \in Peers /\ d.until \in Nat
    /\ blacklist[d.target] >= d.until
    /\ IF d.grounds = "rap" THEN OnRecord(d.target)
       ELSE 100 * Cardinality(Party(d.topic, d.target)) >= Threshold * Len(Guild)
DecreesOK == \A d \in decrees : DecreeOK(d)

\* A loan is out or settled; ids are not used again.
LoansOK ==
    /\ \A l \in loans : l.id \in Nat /\ l.id < used.loan
    /\ \A l, m \in loans : l.id = m.id => l = m
    /\ \A x \in settled : x.id \in Nat /\ x.id < used.loan
    /\ \A x, y \in settled : x.id = y.id => x = y
    /\ \A x \in settled, l \in loans : x.id # l.id
    /\ \A l \in loans \cup defaults : l.lender \in Members /\ l.borrower \in Peers

GuildInvariant ==
    /\ GuildTypeOK /\ TasksOK /\ BeliefsFelt /\ EpisodesLived /\ TrustEarned
    /\ RapsLived /\ DecreesOK /\ LoansOK

-----------------------------------------------------------------------------
LEMMA MaxOfTwo ==
    ASSUME NEW a \in Int, NEW b \in Int
    PROVE  Max({a, b}) \in {a, b} /\ Max({a, b}) >= a /\ Max({a, b}) >= b
<1>1. \E x \in {a, b} : \A y \in {a, b} : x >= y
  <2>1. CASE a >= b
    BY <2>1
  <2>2. CASE b >= a
    BY <2>2
  <2>3. QED
    BY <2>1, <2>2
<1>2. /\ Max({a, b}) \in {a, b}
      /\ \A y \in {a, b} : Max({a, b}) >= y
  BY <1>1 DEF Max
<1>3. QED
  BY <1>2

LEMMA MinOfTwo ==
    ASSUME NEW a \in Int, NEW b \in Int
    PROVE  Min({a, b}) \in {a, b} /\ Min({a, b}) <= a /\ Min({a, b}) <= b
<1>1. \E x \in {a, b} : \A y \in {a, b} : x <= y
  <2>1. CASE a <= b
    BY <2>1
  <2>2. CASE b <= a
    BY <2>2
  <2>3. QED
    BY <2>1, <2>2
<1>2. /\ Min({a, b}) \in {a, b}
      /\ \A y \in {a, b} : Min({a, b}) <= y
  BY <1>1 DEF Min
<1>3. QED
  BY <1>2

\* A clamped trust is below 0 only where the sum was.
LEMMA ClampKeepsSign ==
    ASSUME NEW x \in Int
    PROVE  Clamp(x) \in Int /\ (Clamp(x) < 0 => x < 0)
<1>1. Min({20, x}) \in {20, x}
  BY MinOfTwo
<1>2. /\ Max({-20, Min({20, x})}) \in {-20, Min({20, x})}
      /\ Max({-20, Min({20, x})}) >= Min({20, x})
  BY <1>1, MaxOfTwo
<1>3. QED
  BY <1>1, <1>2, MinOfTwo DEF Clamp

LEMMA GuildFinite == IsFiniteSet(Members) /\ Len(Guild) \in Nat
<1>1. Guild \in Seq(ToSet(Guild))
  BY CognitionAssumption
<1>2. Len(Guild) \in Nat /\ DOMAIN Guild = 1..Len(Guild)
  BY <1>1
<1>3. IsFiniteSet(DOMAIN Guild)
  BY <1>2, FS_Interval
<1>4. Members = {Guild[i] : i \in DOMAIN Guild}
  BY DEF Members, ToSet
<1>5. Guild \in Surjection(DOMAIN Guild, Members)
  BY <1>1, <1>4 DEF Surjection
<1>6. QED
  BY <1>2, <1>3, <1>5, FS_Surjection

-----------------------------------------------------------------------------
(***************************************************************************)
(* Memory only grows, and nothing that rests on it is taken back.          *)
(***************************************************************************)
Grows == town' = town /\ lived \subseteq lived' /\ facts \subseteq facts'

LEMMA GrowsKeeps ==
    ASSUME Grows
    PROVE  /\ \A n, topic : Felt(n, topic) => Felt(n, topic)'
           /\ \A n, p : Wronged(n, p) => Wronged(n, p)'
           /\ \A n, topic, p : Aggrieved(n, topic, p) => Aggrieved(n, topic, p)'
           /\ \A p : OnRecord(p) => OnRecord(p)'
<1>1. ASSUME NEW n, NEW topic, Felt(n, topic)
      PROVE  Felt(n, topic)'
  BY <1>1 DEF Grows, Felt
<1>2. ASSUME NEW n, NEW p, Wronged(n, p)
      PROVE  Wronged(n, p)'
  BY <1>2 DEF Grows, Wronged
<1>3. ASSUME NEW n, NEW topic, Informed(n, topic)
      PROVE  Informed(n, topic)'
  <2>1. CASE Felt(n, topic)
    BY <1>1, <2>1 DEF Informed
  <2>2. CASE \E f \in facts : f.of = n /\ f.topic = topic /\ f.by # n /\ Felt(f.by, topic)
    <3>1. PICK f \in facts : f.of = n /\ f.topic = topic /\ f.by # n /\ Felt(f.by, topic)
      BY <2>2
    <3>2. f \in facts' /\ Felt(f.by, topic)'
      BY <1>1, <3>1 DEF Grows
    <3>3. QED
      BY <3>1, <3>2 DEF Informed
  <2>3. QED
    BY <1>3, <2>1, <2>2 DEF Informed
<1>4. QED
  BY <1>1, <1>2, <1>3 DEF Aggrieved, OnRecord

LEMMA TaskKept ==
    ASSUME Grows, NEW t, TaskOK(t)
    PROVE  TaskOK(t)'
<1>1. CASE t = Free
  BY <1>1 DEF TaskOK
<1>2. CASE LearnOK(t)
  BY <1>2, GrowsKeeps DEF Grows, TaskOK, LearnOK
<1>3. CASE WarnOK(t)
  BY <1>3 DEF Grows, TaskOK, WarnOK
<1>4. CASE RoundOK(t)
  BY <1>4, GrowsKeeps DEF TaskOK, RoundOK
<1>5. QED
  BY <1>1, <1>2, <1>3, <1>4 DEF TaskOK

LEMMA TaskChanged ==
    ASSUME Grows, TasksOK, NEW s \in Tasks, NEW t, TaskOK(t)',
           task' = [task EXCEPT ![s] = t]
    PROVE  TasksOK'
<1>1. DOMAIN task' = Tasks
  BY DEF TasksOK
<1>2. UnderWay' \subseteq UnderWay \cup {t}
  BY DEF TasksOK, UnderWay
<1>3. ASSUME NEW x \in UnderWay'
      PROVE  TaskOK(x)'
  BY <1>2, TaskKept DEF TasksOK
<1>4. QED
  BY <1>1, <1>3 DEF TasksOK

LEMMA TasksKept ==
    ASSUME Grows, TasksOK, UNCHANGED task
    PROVE  TasksOK'
BY TaskKept DEF TasksOK, UnderWay

LEMMA FreeOK == TaskOK(Free)'
BY DEF TaskOK

LEMMA PartyGrows ==
    ASSUME Grows, NEW topic, NEW p
    PROVE  /\ Cardinality(Party(topic, p)) \in Nat /\ Cardinality(Party(topic, p)') \in Nat
           /\ Cardinality(Party(topic, p)) <= Cardinality(Party(topic, p)')
<1>1. Party(topic, p) \subseteq Party(topic, p)' /\ Party(topic, p)' \subseteq Members
  BY GrowsKeeps DEF Party
<1>2. IsFiniteSet(Party(topic, p)')
  BY <1>1, GuildFinite, FS_Subset
<1>3. QED
  BY <1>1, <1>2, FS_Subset, FS_CardinalityType

\* A decree stays sound while memory grows and its target's ban is not cut.
LEMMA DecreeKept ==
    ASSUME Grows, GuildTypeOK, NEW d, DecreeOK(d),
           blacklist' \in [Peers -> Nat], blacklist'[d.target] >= blacklist[d.target]
    PROVE  DecreeOK(d)'
<1>1. blacklist[d.target] \in Nat /\ blacklist'[d.target] \in Nat /\ d.until \in Nat
  BY DEF GuildTypeOK, DecreeOK
<1>2. OnRecord(d.target) => OnRecord(d.target)'
  BY GrowsKeeps
<1>3. /\ Cardinality(Party(d.topic, d.target)) \in Nat
      /\ Cardinality(Party(d.topic, d.target)') \in Nat
      /\ Cardinality(Party(d.topic, d.target)) <= Cardinality(Party(d.topic, d.target)')
  BY PartyGrows
<1>4. 100 * Cardinality(Party(d.topic, d.target)) >= Threshold * Len(Guild)
      => 100 * Cardinality(Party(d.topic, d.target)') >= Threshold * Len(Guild)
  BY <1>3, GuildFinite DEF Threshold
<1>5. QED
  BY <1>1, <1>2, <1>4 DEF DecreeOK

\* What a step that enacts nothing keeps of the polity.
LEMMA PolityStays ==
    ASSUME Grows, GuildTypeOK, RapsLived, DecreesOK, UNCHANGED polity
    PROVE  RapsLived' /\ DecreesOK'
<1>1. RapsLived'
  BY GrowsKeeps DEF RapsLived, polity
<1>2. ASSUME NEW d \in decrees
      PROVE  DecreeOK(d)'
  <2>1. DecreeOK(d)
    BY DEF DecreesOK
  <2>2. /\ blacklist' \in [Peers -> Nat] /\ blacklist'[d.target] \in Nat
        /\ blacklist'[d.target] = blacklist[d.target]
    BY <2>1 DEF DecreeOK, GuildTypeOK, polity
  <2>3. QED
    BY <2>1, <2>2, DecreeKept
<1>3. QED
  BY <1>1, <1>2 DEF DecreesOK, polity

-----------------------------------------------------------------------------
\* What the parts of a step come to.
LEMMA LoansStay ==
    ASSUME LoansOK, used.loan \in Nat, used'.loan \in Nat, used'.loan >= used.loan,
           UNCHANGED <<loans, settled>>, defaults' \subseteq defaults
    PROVE  LoansOK'
BY DEF LoansOK

LEMMA Counts ==
    ASSUME GuildTypeOK, NEW kind \in CallKinds, Counted(kind)
    PROVE  /\ used' \in [CallKinds -> Nat]
           /\ used.loan \in Nat /\ used'.loan \in Nat /\ used'.loan >= used.loan
BY DEF Counted, CallKinds, GuildTypeOK

\* A call moves on without touching the polity or the loans.
LEMMA CallMoves ==
    ASSUME GuildInvariant, Grows, TasksOK', BeliefsFelt', EpisodesLived', TrustEarned',
           trust' \in [Members -> [Members \cup Peers -> Int]],
           used' = used \/ \E kind \in CallKinds : Counted(kind),
           UNCHANGED polity, UNCHANGED credit
    PROVE  GuildInvariant'
<1>1. used' \in [CallKinds -> Nat] /\ used.loan \in Nat /\ used'.loan \in Nat
      /\ used'.loan >= used.loan
  <2>1. CASE used' = used
    BY <2>1 DEF GuildInvariant, GuildTypeOK, CallKinds
  <2>2. CASE \E kind \in CallKinds : Counted(kind)
    BY <2>2, Counts DEF GuildInvariant
  <2>3. QED
    BY <2>1, <2>2
<1>2. LoansOK'
  BY <1>1, LoansStay DEF GuildInvariant, credit
<1>3. RapsLived' /\ DecreesOK'
  BY PolityStays DEF GuildInvariant
<1>4. GuildTypeOK'
  BY <1>1 DEF GuildInvariant, GuildTypeOK, polity, credit
<1>5. QED
  BY <1>2, <1>3, <1>4 DEF GuildInvariant

LEMMA MemoryStays ==
    ASSUME GuildInvariant, UNCHANGED <<town, memory>>
    PROVE  Grows /\ BeliefsFelt' /\ EpisodesLived' /\ TrustEarned'
           /\ trust' \in [Members -> [Members \cup Peers -> Int]]
<1>1. Grows /\ facts' = facts /\ episodes' = episodes /\ lived' = lived /\ trust' = trust
  BY DEF Grows, memory
<1>2. BeliefsFelt' /\ TrustEarned'
  BY <1>1, GrowsKeeps DEF GuildInvariant, BeliefsFelt, TrustEarned
<1>3. EpisodesLived'
  BY <1>1 DEF GuildInvariant, EpisodesLived
<1>4. QED
  BY <1>1, <1>2, <1>3 DEF GuildInvariant, GuildTypeOK

\* A new belief that its bearer, or who passes it on, came to by living it.
LEMMA BeliefAdded ==
    ASSUME GuildInvariant, Grows, NEW new, facts' \subseteq facts \cup new,
           \A f \in new : Felt(f.by, f.topic)'
    PROVE  BeliefsFelt'
<1>1. \A f \in facts : Felt(f.by, f.topic)'
  BY GrowsKeeps DEF GuildInvariant, BeliefsFelt
<1>2. QED
  BY <1>1 DEF BeliefsFelt

LEMMA TrustStays ==
    ASSUME GuildInvariant, Grows, trust' = trust
    PROVE  TrustEarned' /\ trust' \in [Members -> [Members \cup Peers -> Int]]
BY GrowsKeeps DEF GuildInvariant, GuildTypeOK, TrustEarned

\* Who acts on what recall() gives has a reason.
LEMMA RecallIsReason ==
    ASSUME GuildInvariant, NEW n \in Members, NEW p \in Peers, NEW topic, NEW heard,
           VoteBeliefGated(n, p, topic, heard)
    PROVE  Aggrieved(n, topic, p)
<1>1. CASE Discernment(n, topic)
  <2>1. PICK f \in facts : f.of = n /\ f.topic = topic
    BY <1>1 DEF Discernment
  <2>2. Felt(f.by, topic)
    BY <2>1 DEF GuildInvariant, BeliefsFelt
  <2>3. CASE f.by = n
    BY <2>2, <2>3 DEF Informed, Aggrieved
  <2>4. CASE f.by # n
    BY <2>1, <2>2, <2>4 DEF Informed, Aggrieved
  <2>5. QED
    BY <2>3, <2>4
<1>2. CASE ~Discernment(n, topic)
  <2> DEFINE signal == Recall(n, p, topic, heard)
  <2>a. signal.q = ("kernel" \in heard /\ Discernment(n, topic))
    BY Zenon DEF Recall
  <2>b. signal.trust = IF "trust" \in heard THEN trust[n][p] ELSE 0
    BY Zenon DEF Recall
  <2>c. signal.q \/ signal.trust < TrustFloor
    BY Zenon DEF VoteBeliefGated
  <2>d. signal.trust < TrustFloor
    BY <1>2, <2>a, <2>c, Zenon
  <2>1. trust[n][p] \in Int /\ trust[n][p] < TrustFloor
    <3> HIDE DEF signal
    <3>1. QED
      BY <2>b, <2>d DEF TrustFloor, GuildInvariant, GuildTypeOK
  <2>2. Wronged(n, p)
    BY <2>1 DEF TrustFloor, GuildInvariant, TrustEarned
  <2>3. QED
    BY <2>2 DEF Aggrieved
<1>3. QED
  BY <1>1, <1>2

-----------------------------------------------------------------------------
\* Learning.
LEMMA StartsOK ==
    ASSUME GuildInvariant, NEW s \in Tasks, NEW n \in Members, NEW p \in Peers, NEW topic,
           NEW outcome \in DOMAIN Deltas, StartsLearning(s, n, p, topic, outcome),
           UNCHANGED <<town, facts, episodes, trust>>
    PROVE  /\ Grows /\ TasksOK' /\ BeliefsFelt' /\ EpisodesLived' /\ TrustEarned'
           /\ trust' \in [Members -> [Members \cup Peers -> Int]]
           /\ outcome = "loss" => OnRecord(p)'
<1> DEFINE t == [kind |-> "learn", pc |-> "remember", of |-> n, peer |-> p,
                 topic |-> topic, outcome |-> outcome, seen |-> 0]
           e == [of |-> n, peer |-> p, topic |-> topic, outcome |-> outcome]
<1>1. task' = [task EXCEPT ![s] = t] /\ lived' = lived \cup {e}
  BY DEF StartsLearning
<1>2. Grows /\ e \in lived'
  BY <1>1 DEF Grows
<1>3. LearnOK(t)'
  BY <1>2 DEF LearnOK
<1>4. TaskOK(t)'
  BY <1>3 DEF TaskOK
<1>5. TasksOK'
  <2> HIDE DEF t
  <2>1. QED
    BY <1>1, <1>2, <1>4, TaskChanged DEF GuildInvariant
<1>6. BeliefsFelt'
  BY <1>2, GrowsKeeps DEF GuildInvariant, BeliefsFelt
<1>7. EpisodesLived'
  BY <1>1 DEF GuildInvariant, EpisodesLived
<1>8. outcome = "loss" => OnRecord(p)'
  BY <1>2 DEF OnRecord, Wronged
<1>9. QED
  BY <1>2, <1>5, <1>6, <1>7, <1>8, TrustStays

LEMMA PitchedKeeps ==
    ASSUME GuildInvariant, NEW s \in Tasks, NEW n \in Members, NEW p \in Peers, NEW c,
           NEW outcome \in DOMAIN Deltas, NEW heard, Pitched(s, n, p, c, outcome, heard)
    PROVE  GuildInvariant'
<1>1. "deal" \in CallKinds
  BY DEF CallKinds
<1>2. QED
  BY <1>1, StartsOK, CallMoves DEF Pitched

LEMMA RecordsOK ==
    ASSUME GuildInvariant, NEW s \in Tasks, NEW n \in Members, NEW p \in Peers,
           RecordMisconduct(s, n, p),
           UNCHANGED <<day, loans, settled>>, defaults' \subseteq defaults,
           used' = used \/ \E kind \in CallKinds : Counted(kind)
    PROVE  GuildInvariant'
<1>1. "loss" \in DOMAIN Deltas
  BY DEF Deltas
<1>2. StartsLearning(s, n, p, Misconduct(p), "loss") /\ raps' = raps \cup {p}
      /\ UNCHANGED <<town, facts, episodes, trust, blacklist, decrees>>
  BY DEF RecordMisconduct
<1>3. /\ Grows /\ TasksOK' /\ BeliefsFelt' /\ EpisodesLived' /\ TrustEarned'
      /\ trust' \in [Members -> [Members \cup Peers -> Int]]
      /\ OnRecord(p)'
  BY <1>1, <1>2, StartsOK
<1>4. used' \in [CallKinds -> Nat] /\ used.loan \in Nat /\ used'.loan \in Nat
      /\ used'.loan >= used.loan
  <2>1. CASE used' = used
    BY <2>1 DEF GuildInvariant, GuildTypeOK, CallKinds
  <2>2. CASE \E kind \in CallKinds : Counted(kind)
    BY <2>2, Counts DEF GuildInvariant
  <2>3. QED
    BY <2>1, <2>2
<1>5. LoansOK'
  BY <1>4, LoansStay DEF GuildInvariant
<1>6. RapsLived'
  BY <1>2, <1>3, GrowsKeeps DEF GuildInvariant, RapsLived
<1>7. DecreesOK'
  <2>1. ASSUME NEW d \in decrees
        PROVE  DecreeOK(d)'
    <3>1. DecreeOK(d)
      BY DEF GuildInvariant, DecreesOK
    <3>2. /\ blacklist' \in [Peers -> Nat] /\ blacklist'[d.target] \in Nat
          /\ blacklist'[d.target] = blacklist[d.target]
      BY <1>2, <3>1 DEF DecreeOK, GuildInvariant, GuildTypeOK
    <3>3. QED
      BY <1>3, <3>1, <3>2, DecreeKept DEF GuildInvariant
  <2>2. QED
    BY <1>2, <2>1 DEF DecreesOK
<1>8. GuildTypeOK'
  BY <1>2, <1>3, <1>4 DEF GuildInvariant, GuildTypeOK
<1>9. QED
  BY <1>3, <1>5, <1>6, <1>7, <1>8 DEF GuildInvariant

LEMMA CrimeKeeps ==
    ASSUME GuildInvariant, NEW s \in Tasks, NEW n \in Members, NEW p \in Peers,
           AttemptCrime(s, n, p)
    PROVE  GuildInvariant'
<1>1. "crime" \in CallKinds
  BY DEF CallKinds
<1>2. QED
  BY <1>1, RecordsOK DEF AttemptCrime, credit

LEMMA DefaultKeeps ==
    ASSUME GuildInvariant, NEW s \in Tasks, NEW l \in defaults, DefaultRecorded(s, l)
    PROVE  GuildInvariant'
<1>1. l.lender \in Members /\ l.borrower \in Peers
  BY DEF GuildInvariant, LoansOK
<1>2. QED
  BY <1>1, RecordsOK DEF DefaultRecorded

\* The task in a slot, if it is one of these.
LEMMA LearnTask ==
    ASSUME GuildInvariant, NEW s \in Tasks, task[s].kind = "learn"
    PROVE  LearnOK(task[s])
<1>1. TaskOK(task[s])
  BY DEF GuildInvariant, TasksOK, UnderWay
<1>2. task[s] # Free /\ ~WarnOK(task[s]) /\ ~RoundOK(task[s])
  BY DEF Free, WarnOK, RoundOK
<1>3. QED
  BY <1>1, <1>2 DEF TaskOK

LEMMA WarnTask ==
    ASSUME GuildInvariant, NEW s \in Tasks, task[s].kind = "warn"
    PROVE  WarnOK(task[s])
<1>1. TaskOK(task[s])
  BY DEF GuildInvariant, TasksOK, UnderWay
<1>2. task[s] # Free /\ ~LearnOK(task[s]) /\ ~RoundOK(task[s])
  BY DEF Free, LearnOK, RoundOK
<1>3. QED
  BY <1>1, <1>2 DEF TaskOK

LEMMA RoundTask ==
    ASSUME GuildInvariant, NEW s \in Tasks, task[s].kind = "round"
    PROVE  RoundOK(task[s])
<1>1. TaskOK(task[s])
  BY DEF GuildInvariant, TasksOK, UnderWay
<1>2. task[s] # Free /\ ~LearnOK(task[s]) /\ ~WarnOK(task[s])
  BY DEF Free, LearnOK, WarnOK
<1>3. QED
  BY <1>1, <1>2 DEF TaskOK

LEMMA EndsOK ==
    ASSUME GuildInvariant, Grows, NEW s \in Tasks, Ends(s)
    PROVE  TasksOK'
BY TaskChanged, FreeOK DEF Ends, GuildInvariant

\* A call that learns goes on to a step that asks nothing more of it.
LEMMA LearnGoes ==
    ASSUME GuildInvariant, Grows, NEW s \in Tasks, task[s].kind = "learn",
           NEW pc, pc # "set", pc = "reflect" => town.reflects, Goes(s, pc)
    PROVE  TasksOK'
<1> DEFINE t == [task[s] EXCEPT !.pc = pc]
<1>1. LearnOK(task[s])
  BY LearnTask
<1>2. task' = [task EXCEPT ![s] = t]
  BY DEF Goes
<1>3. PICK of, peer, topic, outcome, seen :
          /\ task[s] = [kind |-> "learn", pc |-> task[s].pc, of |-> of, peer |-> peer,
                        topic |-> topic, outcome |-> outcome, seen |-> seen]
          /\ of \in Members /\ peer \in Peers /\ outcome \in DOMAIN Deltas
          /\ [of |-> of, peer |-> peer, topic |-> topic, outcome |-> outcome] \in lived
  BY <1>1 DEF LearnOK
<1>4. t = [kind |-> "learn", pc |-> pc, of |-> of, peer |-> peer,
           topic |-> topic, outcome |-> outcome, seen |-> seen]
  BY <1>3
<1> DEFINE x == [kind |-> "learn", pc |-> pc, of |-> of, peer |-> peer,
                 topic |-> topic, outcome |-> outcome, seen |-> seen]
<1>5. LearnOK(x)'
  BY <1>3 DEF LearnOK, Grows
<1>6. TaskOK(x)'
  BY <1>5 DEF TaskOK
<1>7. task' = [task EXCEPT ![s] = x]
  BY <1>2, <1>4
<1> HIDE DEF x, t
<1>8. QED
  BY <1>6, <1>7, TaskChanged DEF GuildInvariant

LEMMA LearnedOK ==
    ASSUME GuildInvariant, Grows, NEW s \in Tasks, task[s].kind = "learn", Learned(s)
    PROVE  TasksOK'
<1>1. CASE town.reflects
  <2>1. Goes(s, "reflect")
    BY <1>1 DEF Learned
  <2>2. QED
    BY <1>1, <2>1, LearnGoes
<1>2. CASE ~town.reflects
  BY <1>2, EndsOK DEF Learned
<1>3. QED
  BY <1>1, <1>2

LEMMA RemembersKeeps ==
    ASSUME GuildInvariant, NEW s \in Tasks, NEW kept, Remembers(s, kept)
    PROVE  GuildInvariant'
<1> DEFINE t == task[s]
           new == IF "belief" \in kept /\ t.outcome = "loss"
                  THEN {[of |-> t.of, topic |-> t.topic, by |-> t.of]} ELSE {}
<1>1. t.kind = "learn"
  BY DEF Remembers, Runs
<1>2. LearnOK(t)
  BY <1>1, LearnTask
<1>3. /\ facts' = facts \cup new
      /\ episodes' \subseteq episodes \cup {[of |-> t.of, topic |-> t.topic]}
      /\ Goes(s, "get") /\ UNCHANGED <<town, trust, lived, polity, credit, used>>
  BY DEF Remembers
<1>4. Grows
  BY <1>3 DEF Grows
<1>5. \A f \in new : Felt(f.by, f.topic)'
  BY <1>2, <1>3 DEF LearnOK, Felt
<1>6. BeliefsFelt'
  <2> HIDE DEF new
  <2>1. QED
    BY <1>3, <1>4, <1>5, BeliefAdded
<1>7. EpisodesLived'
  BY <1>2, <1>3 DEF LearnOK, GuildInvariant, EpisodesLived
<1>8. TasksOK'
  BY <1>1, <1>3, <1>4, LearnGoes
<1>9. QED
  BY <1>3, <1>4, <1>6, <1>7, <1>8, TrustStays, CallMoves

\* A call that has read the trust it will raise or lower.
LEMMA LearnFresh ==
    ASSUME Grows, NEW of \in Members, NEW peer \in Peers, NEW topic,
           NEW outcome \in DOMAIN Deltas, NEW now \in Int, now < 0 => Wronged(of, peer)',
           [of |-> of, peer |-> peer, topic |-> topic, outcome |-> outcome] \in lived
    PROVE  LearnOK([kind |-> "learn", pc |-> "set", of |-> of, peer |-> peer,
                    topic |-> topic, outcome |-> outcome, seen |-> now])'
BY DEF LearnOK, Grows

LEMMA TrustGetKeeps ==
    ASSUME GuildInvariant, NEW s \in Tasks, NEW ok \in BOOLEAN, TrustGet(s, ok)
    PROVE  GuildInvariant'
<1>1. task[s].kind = "learn"
  BY DEF TrustGet, Runs
<1>2. LearnOK(task[s])
  BY <1>1, LearnTask
<1>3. UNCHANGED <<town, memory, polity, credit, used>>
  BY DEF TrustGet
<1>4. Grows /\ BeliefsFelt' /\ EpisodesLived' /\ TrustEarned'
      /\ trust' \in [Members -> [Members \cup Peers -> Int]]
  BY <1>3, MemoryStays
<1>5. TasksOK'
  <2>1. CASE Learned(s)
    BY <1>1, <1>4, <2>1, LearnedOK
  <2>2. CASE task' = [task EXCEPT ![s].pc = "set",
                                  ![s].seen = trust[task[s].of][task[s].peer]]
    <3>1. PICK of, peer, topic, outcome, pc, seen :
              /\ task[s] = [kind |-> "learn", pc |-> pc, of |-> of, peer |-> peer,
                            topic |-> topic, outcome |-> outcome, seen |-> seen]
              /\ of \in Members /\ peer \in Peers /\ outcome \in DOMAIN Deltas
              /\ [of |-> of, peer |-> peer, topic |-> topic, outcome |-> outcome] \in lived
      BY <1>2 DEF LearnOK
    <3>2. trust[of][peer] \in Int /\ task[s].of = of /\ task[s].peer = peer
      BY <3>1 DEF GuildInvariant, GuildTypeOK
    <3>3. PICK now \in Int : now = trust[of][peer]
      BY <3>2
    <3> DEFINE z == [task[s] EXCEPT !.pc = "set"]
               y == [z EXCEPT !.seen = now]
               x == [kind |-> "learn", pc |-> "set", of |-> of, peer |-> peer,
                     topic |-> topic, outcome |-> outcome, seen |-> now]
    <3>4. task' = [task EXCEPT ![s] = y]
      <4>1. task' = [task EXCEPT ![s].pc = "set", ![s].seen = now]
        BY <2>2, <3>2, <3>3
      <4>2. QED
        BY <4>1 DEF GuildInvariant, TasksOK
    <3>5. now < 0 => Wronged(of, peer)'
      BY <1>4, <3>1, <3>3, GrowsKeeps DEF GuildInvariant, TrustEarned
    <3>6. y = x
      <4>1. z = [kind |-> "learn", pc |-> "set", of |-> of, peer |-> peer,
                 topic |-> topic, outcome |-> outcome, seen |-> seen]
        BY <3>1
      <4> HIDE DEF z
      <4>2. QED
        BY <4>1
    <3>7. LearnOK(x)'
      BY <1>4, <3>1, <3>5, LearnFresh
    <3>8. TaskOK(x)'
      BY <3>7 DEF TaskOK
    <3>9. QED
      <4> HIDE DEF x, y
      <4>1. QED
        BY <1>4, <3>4, <3>6, <3>8, TaskChanged DEF GuildInvariant
  <2>3. QED
    BY <2>1, <2>2 DEF TrustGet
<1>6. QED
  BY <1>3, <1>4, <1>5, CallMoves

LEMMA TrustSetKeeps ==
    ASSUME GuildInvariant, NEW s \in Tasks, NEW ok \in BOOLEAN, TrustSet(s, ok)
    PROVE  GuildInvariant'
<1> DEFINE t == task[s]
<1>1. t.kind = "learn" /\ t.pc = "set"
  BY DEF TrustSet, Runs
<1>2. LearnOK(t)
  BY <1>1, LearnTask
<1>3. /\ trust' = IF ok THEN [trust EXCEPT ![t.of][t.peer] = Clamp(t.seen + Deltas[t.outcome])]
                  ELSE trust
      /\ Learned(s) /\ UNCHANGED <<town, facts, episodes, lived, polity, credit, used>>
  BY DEF TrustSet
<1>4. Grows
  BY <1>3 DEF Grows
<1> DEFINE v == Clamp(t.seen + Deltas[t.outcome])
<1>5. /\ t.of \in Members /\ t.peer \in Peers /\ t.seen \in Int
      /\ t.seen < 0 => Wronged(t.of, t.peer)
      /\ t.outcome = "loss" => Wronged(t.of, t.peer)
  BY <1>1, <1>2 DEF LearnOK, Wronged
<1>6. Deltas[t.outcome] \in Int /\ (Deltas[t.outcome] < 0 => t.outcome = "loss")
  BY <1>2 DEF LearnOK, Deltas
<1>7. v \in Int /\ (v < 0 => Wronged(t.of, t.peer))
  <2>1. t.seen + Deltas[t.outcome] \in Int
    BY <1>5, <1>6
  <2>2. v \in Int /\ (v < 0 => t.seen + Deltas[t.outcome] < 0)
    BY <2>1, ClampKeepsSign
  <2>3. QED
    BY <1>5, <1>6, <2>2
<1> HIDE DEF v
<1>8. trust' \in [Members -> [Members \cup Peers -> Int]]
  BY <1>3, <1>5, <1>7 DEF v, GuildInvariant, GuildTypeOK
<1>9. TrustEarned'
  <2>1. ASSUME NEW n \in Members, NEW p \in Peers, trust'[n][p] < 0
        PROVE  Wronged(n, p)
    <3>1. CASE n = t.of /\ p = t.peer /\ ok
      BY <1>3, <1>5, <1>7, <2>1, <3>1 DEF v, GuildInvariant, GuildTypeOK
    <3>2. CASE ~(n = t.of /\ p = t.peer /\ ok)
      <4>1. trust'[n][p] = trust[n][p]
        BY <1>3, <1>5, <3>2 DEF GuildInvariant, GuildTypeOK
      <4>2. QED
        BY <2>1, <4>1 DEF GuildInvariant, TrustEarned
    <3>3. QED
      BY <3>1, <3>2
  <2>2. QED
    BY <1>4, <2>1, GrowsKeeps DEF TrustEarned
<1>10. BeliefsFelt' /\ EpisodesLived'
  BY <1>3, <1>4, GrowsKeeps DEF GuildInvariant, BeliefsFelt, EpisodesLived
<1>11. TasksOK'
  BY <1>1, <1>3, <1>4, LearnedOK
<1>12. QED
  BY <1>3, <1>4, <1>8, <1>9, <1>10, <1>11, CallMoves

LEMMA ReflectsKeeps ==
    ASSUME GuildInvariant, NEW s \in Tasks, NEW ok \in BOOLEAN, Reflects(s, ok)
    PROVE  GuildInvariant'
<1> DEFINE n == task[s].of
           new == {[of |-> n, topic |-> e.topic, by |-> n] :
                     e \in {x \in episodes : x.of = n}}
<1>1. task[s].kind = "learn" /\ task[s].pc = "reflect"
  BY DEF Reflects, Runs
<1>2. town.reflects
  BY <1>1, LearnTask DEF LearnOK
<1>3. /\ facts \subseteq facts' /\ facts' \subseteq facts \cup new
      /\ Ends(s) /\ UNCHANGED <<town, episodes, trust, lived, polity, credit, used>>
  BY DEF Reflects
<1>4. Grows
  BY <1>3 DEF Grows
<1>5. ASSUME NEW f \in new
      PROVE  Felt(f.by, f.topic)'
  <2>1. PICK e \in episodes : e.of = n /\ f = [of |-> n, topic |-> e.topic, by |-> n]
    BY <1>5
  <2>2. PICK l \in lived : l.of = n /\ l.topic = e.topic
    BY <2>1 DEF GuildInvariant, EpisodesLived
  <2>3. f.by = n /\ f.topic = e.topic
    BY <2>1
  <2>4. QED
    BY <1>2, <1>3, <2>2, <2>3 DEF Felt
<1>6. BeliefsFelt'
  <2> HIDE DEF new
  <2>1. QED
    BY <1>3, <1>4, <1>5, BeliefAdded
<1>7. EpisodesLived' /\ TasksOK'
  BY <1>3, <1>4, EndsOK DEF GuildInvariant, EpisodesLived
<1>8. QED
  BY <1>3, <1>4, <1>6, <1>7, TrustStays, CallMoves

-----------------------------------------------------------------------------
\* Warning.
LEMMA WarnKeeps ==
    ASSUME GuildInvariant, NEW s \in Tasks, NEW from, NEW to, NEW topic,
           Warn(s, from, to, topic)
    PROVE  GuildInvariant'
<1> DEFINE t == [kind |-> "warn", pc |-> "trust", from |-> from, of |-> to, topic |-> topic]
<1>1. /\ task' = [task EXCEPT ![s] = t] /\ Counted("warning")
      /\ [of |-> from, topic |-> topic, by |-> from] \in facts
      /\ UNCHANGED <<town, memory, polity, credit>>
  BY DEF Warn, Warnable, Faculty
<1>2. Grows /\ BeliefsFelt' /\ EpisodesLived' /\ TrustEarned'
      /\ trust' \in [Members -> [Members \cup Peers -> Int]]
  BY <1>1, MemoryStays
<1>3. WarnOK(t)'
  BY <1>1, <1>2 DEF WarnOK, Grows
<1>4. TaskOK(t)'
  BY <1>3 DEF TaskOK
<1>5. TasksOK'
  <2> HIDE DEF t
  <2>1. QED
    BY <1>1, <1>2, <1>4, TaskChanged DEF GuildInvariant
<1>6. "warning" \in CallKinds
  BY DEF CallKinds
<1>7. QED
  BY <1>1, <1>2, <1>5, <1>6, CallMoves

LEMMA WarnHeardKeeps ==
    ASSUME GuildInvariant, NEW s \in Tasks, NEW ok \in BOOLEAN, WarnHeard(s, ok)
    PROVE  GuildInvariant'
<1>1. task[s].kind = "warn" /\ UNCHANGED <<town, memory, polity, credit, used>>
  BY DEF WarnHeard, Runs
<1>2. Grows /\ BeliefsFelt' /\ EpisodesLived' /\ TrustEarned'
      /\ trust' \in [Members -> [Members \cup Peers -> Int]]
  BY <1>1, MemoryStays
<1>3. TasksOK'
  <2>1. CASE Ends(s)
    BY <1>2, <2>1, EndsOK
  <2>2. CASE Goes(s, "implant")
    <3>1. PICK pc, from, of, topic :
              /\ task[s] = [kind |-> "warn", pc |-> pc, from |-> from, of |-> of, topic |-> topic]
              /\ [of |-> from, topic |-> topic, by |-> from] \in facts
      BY <1>1, WarnTask DEF WarnOK
    <3> DEFINE y == [task[s] EXCEPT !.pc = "implant"]
               x == [kind |-> "warn", pc |-> "implant", from |-> from, of |-> of,
                     topic |-> topic]
    <3>2. task' = [task EXCEPT ![s] = y]
      BY <2>2 DEF Goes
    <3>3. y = x
      BY <3>1
    <3>4. WarnOK(x)'
      BY <1>2, <3>1 DEF WarnOK, Grows
    <3>5. TaskOK(x)'
      BY <3>4 DEF TaskOK
    <3> HIDE DEF x, y
    <3>6. QED
      BY <1>2, <3>2, <3>3, <3>5, TaskChanged DEF GuildInvariant
  <2>3. QED
    BY <2>1, <2>2 DEF WarnHeard
<1>4. QED
  BY <1>1, <1>2, <1>3, CallMoves

LEMMA WarnImplantsKeeps ==
    ASSUME GuildInvariant, NEW s \in Tasks, NEW ok \in BOOLEAN, WarnImplants(s, ok)
    PROVE  GuildInvariant'
<1>1. task[s].kind = "warn"
  BY DEF WarnImplants, Runs
<1>2. PICK of, from, topic :
          /\ of = task[s].of /\ from = task[s].from /\ topic = task[s].topic
          /\ [of |-> from, topic |-> topic, by |-> from] \in facts
  BY <1>1, WarnTask DEF WarnOK
<1> DEFINE new == {[of |-> of, topic |-> topic, by |-> from]}
<1>3. /\ facts \subseteq facts' /\ facts' \subseteq facts \cup new
      /\ Ends(s) /\ UNCHANGED <<town, episodes, trust, lived, polity, credit, used>>
  BY <1>2 DEF WarnImplants
<1>4. Grows
  BY <1>3 DEF Grows
<1>5. Felt(from, topic)
  BY <1>2 DEF GuildInvariant, BeliefsFelt
<1>6. \A f \in new : Felt(f.by, f.topic)'
  BY <1>4, <1>5, GrowsKeeps
<1>7. BeliefsFelt'
  <2> HIDE DEF new
  <2>1. QED
    BY <1>3, <1>4, <1>6, BeliefAdded
<1>8. EpisodesLived' /\ TasksOK'
  BY <1>3, <1>4, EndsOK DEF GuildInvariant, EpisodesLived
<1>9. QED
  BY <1>3, <1>4, <1>7, <1>8, TrustStays, CallMoves

-----------------------------------------------------------------------------
\* Voting.
LEMMA RoundOpensKeeps ==
    ASSUME GuildInvariant, NEW s \in Tasks, NEW n \in Members, NEW p \in Peers, NEW topic,
           NEW term \in Terms, NEW heard, RoundOpens(s, n, p, topic, term, heard)
    PROVE  GuildInvariant'
<1>1. PICK until, left :
          /\ until = day + term
          /\ task' = [task EXCEPT ![s] =
                         [kind |-> "round", pc |-> "vote", proposer |-> n, target |-> p,
                          topic |-> topic, until |-> until, ayes |-> {n}, left |-> left]]
  BY DEF RoundOpens, Submit
<1>2. /\ Counted("round") /\ VoteBeliefGated(n, p, topic, heard)
      /\ UNCHANGED <<town, memory, polity, credit>>
  BY DEF RoundOpens
<1> DEFINE t == [kind |-> "round", pc |-> "vote", proposer |-> n, target |-> p,
                 topic |-> topic, until |-> until, ayes |-> {n}, left |-> left]
<1>3. Grows /\ BeliefsFelt' /\ EpisodesLived' /\ TrustEarned'
      /\ trust' \in [Members -> [Members \cup Peers -> Int]]
  BY <1>2, MemoryStays
<1>4. Aggrieved(n, topic, p)'
  BY <1>2, <1>3, RecallIsReason, GrowsKeeps
<1>5. until \in Nat
  BY <1>1, CognitionAssumption DEF GuildInvariant, GuildTypeOK
<1>6. RoundOK(t)'
  BY <1>4, <1>5 DEF RoundOK
<1>7. TaskOK(t)'
  BY <1>6 DEF TaskOK
<1>8. TasksOK'
  <2>1. task' = [task EXCEPT ![s] = t]
    BY <1>1
  <2> HIDE DEF t
  <2>2. QED
    BY <1>3, <1>7, <2>1, TaskChanged DEF GuildInvariant
<1>9. "round" \in CallKinds
  BY DEF CallKinds
<1>10. QED
  BY <1>2, <1>3, <1>8, <1>9, CallMoves

\* A sanction by those who have a reason, or by the record, is a sound decree.
LEMMA EnactKeeps ==
    ASSUME GuildInvariant, NEW p \in Peers, NEW until \in Nat, NEW ayes, NEW topic, NEW grounds,
           EnactSanction(p, until, ayes, topic, grounds), UNCHANGED <<town, memory, raps>>,
           IF grounds = "rap" THEN OnRecord(p)
           ELSE \A n \in ayes \cap Members : Aggrieved(n, topic, p)
    PROVE  blacklist' \in [Peers -> Nat] /\ RapsLived' /\ DecreesOK'
<1>1. Grows
  BY MemoryStays
<1>2. RapsLived'
  BY <1>1, GrowsKeeps DEF GuildInvariant, RapsLived
<1>3. CASE Passes(ayes)
  <2>1. PICK b : b = Max({blacklist[p], until})
    OBVIOUS
  <2> DEFINE d == [target |-> p, until |-> until, ayes |-> ayes, topic |-> topic,
                   grounds |-> grounds]
  <2>2. blacklist' = [blacklist EXCEPT ![p] = b] /\ decrees' = decrees \cup {d}
    BY <1>3, <2>1 DEF EnactSanction
  <2>3. blacklist \in [Peers -> Nat] /\ blacklist[p] \in Nat
    BY DEF GuildInvariant, GuildTypeOK
  <2>4. b \in Nat /\ b >= blacklist[p] /\ b >= until
    BY <2>1, <2>3, MaxOfTwo
  <2>5. /\ blacklist' \in [Peers -> Nat]
        /\ \A q \in Peers : blacklist'[q] >= blacklist[q]
    BY <2>2, <2>3, <2>4
  <2>6. \A e \in decrees : DecreeOK(e)'
    <3>1. ASSUME NEW e \in decrees
          PROVE  DecreeOK(e)'
      <4>1. DecreeOK(e) /\ e.target \in Peers
        BY DEF GuildInvariant, DecreesOK, DecreeOK
      <4>2. QED
        BY <1>1, <2>5, <4>1, DecreeKept DEF GuildInvariant
    <3>2. QED
      BY <3>1
  <2>7. CASE grounds = "rap"
    <3>1. OnRecord(p)'
      BY <1>1, <2>7, GrowsKeeps
    <3>2. DecreeOK(d)'
      BY <2>2, <2>3, <2>4, <2>7, <3>1 DEF DecreeOK
    <3>3. QED
      BY <1>2, <2>2, <2>5, <2>6, <3>2 DEF DecreesOK
  <2>8. CASE grounds # "rap"
    <3>1. ayes \cap Members \subseteq Party(topic, p)'
      BY <1>1, <2>8, GrowsKeeps DEF Party
    <3>2. IsFiniteSet(Party(topic, p)')
      <4>1. Party(topic, p)' \subseteq Members
        BY DEF Party
      <4>2. QED
        BY <4>1, GuildFinite, FS_Subset
    <3>3. /\ Cardinality(ayes \cap Members) \in Nat
          /\ Cardinality(Party(topic, p)') \in Nat
          /\ Cardinality(ayes \cap Members) <= Cardinality(Party(topic, p)')
      BY <3>1, <3>2, FS_Subset, FS_CardinalityType
    <3>4. 100 * Cardinality(Party(topic, p)') >= Threshold * Len(Guild)
      BY <1>3, <3>3, GuildFinite DEF Passes, Threshold
    <3>5. DecreeOK(d)'
      BY <2>2, <2>3, <2>4, <2>8, <3>4 DEF DecreeOK
    <3>6. QED
      BY <1>2, <2>2, <2>5, <2>6, <3>5 DEF DecreesOK
  <2>9. QED
    BY <2>7, <2>8
<1>4. CASE ~Passes(ayes)
  <2>1. UNCHANGED polity
    BY <1>4 DEF EnactSanction, polity
  <2>2. DecreesOK'
    BY <1>1, <2>1, PolityStays DEF GuildInvariant
  <2>3. QED
    BY <1>2, <2>1, <2>2 DEF GuildInvariant, GuildTypeOK, polity
<1>5. QED
  BY <1>3, <1>4

LEMMA MemberVotesKeeps ==
    ASSUME GuildInvariant, NEW s \in Tasks, NEW heard, MemberVotes(s, heard)
    PROVE  GuildInvariant'
<1> DEFINE r == task[s]
           n == Head(r.left)
           votes == CastVote(r.ayes, n, VoteBeliefGated(n, r.target, r.topic, heard))
<1>1. r.kind = "round" /\ UNCHANGED <<town, memory, raps, credit, used>>
  BY DEF MemberVotes, Runs
<1>2. Grows /\ BeliefsFelt' /\ EpisodesLived' /\ TrustEarned'
      /\ trust' \in [Members -> [Members \cup Peers -> Int]]
  BY <1>1, MemoryStays
<1>3. PICK pc, proposer, target, topic, until, ayes, left :
          /\ r = [kind |-> "round", pc |-> pc, proposer |-> proposer, target |-> target,
                  topic |-> topic, until |-> until, ayes |-> ayes, left |-> left]
          /\ target \in Peers /\ until \in Nat
          /\ \A m \in ayes \cap Members : Aggrieved(m, topic, target)
  BY <1>1, RoundTask DEF RoundOK
<1>4. r.target = target /\ r.topic = topic /\ r.until = until /\ r.ayes = ayes
  BY <1>3
<1>5. \A m \in votes \cap Members : Aggrieved(m, topic, target)
  <2>1. CASE VoteBeliefGated(n, target, topic, heard)
    <3>1. n \in Members => Aggrieved(n, topic, target)
      BY <1>3, <2>1, RecallIsReason
    <3>2. votes = ayes \cup {n}
      BY <1>4, <2>1 DEF CastVote
    <3> HIDE DEF votes, n
    <3>3. QED
      BY <1>3, <3>1, <3>2
  <2>2. CASE ~VoteBeliefGated(n, target, topic, heard)
    <3>1. votes = ayes
      BY <1>4, <2>2 DEF CastVote
    <3>2. QED
      BY <1>3, <3>1
  <2>3. QED
    BY <2>1, <2>2
<1>6. CASE Len(r.left) > 1
  <2>1. PICK ayes2, left2 : ayes2 = votes /\ left2 = Tail(r.left)
    OBVIOUS
  <2> DEFINE z == [r EXCEPT !.ayes = ayes2]
             y == [z EXCEPT !.left = left2]
             x == [kind |-> "round", pc |-> pc, proposer |-> proposer, target |-> target,
                   topic |-> topic, until |-> until, ayes |-> ayes2, left |-> left2]
  <2>2. /\ task' = [task EXCEPT ![s].ayes = votes, ![s].left = Tail(@)]
        /\ UNCHANGED polity
    BY <1>1, <1>6 DEF MemberVotes, polity
  <2>3. z = [kind |-> "round", pc |-> pc, proposer |-> proposer, target |-> target,
             topic |-> topic, until |-> until, ayes |-> ayes2, left |-> left] /\ z.left = r.left
    BY <1>3
  <2>4. y = x
    <3> HIDE DEF z
    <3>1. QED
      BY <2>3
  <2>5. task' = [task EXCEPT ![s] = y]
    <3>1. s \in DOMAIN task
      BY DEF GuildInvariant, TasksOK
    <3> HIDE DEF votes
    <3>2. QED
      BY <2>1, <2>2, <2>3, <3>1
  <2>6. RoundOK(x)'
    <3>1. \A m \in ayes2 \cap Members : Aggrieved(m, topic, target)'
      BY <1>2, <1>5, <2>1, GrowsKeeps
    <3>2. QED
      BY <1>3, <3>1 DEF RoundOK
  <2>7. TaskOK(x)'
    BY <2>6 DEF TaskOK
  <2>8. TasksOK'
    <3> HIDE DEF x, y
    <3>1. QED
      BY <1>2, <2>4, <2>5, <2>7, TaskChanged DEF GuildInvariant
  <2>9. QED
    BY <1>1, <1>2, <2>2, <2>8, CallMoves
<1>7. CASE ~(Len(r.left) > 1)
  <2>1. Ends(s) /\ EnactSanction(r.target, r.until, votes, r.topic, "belief")
    BY <1>7 DEF MemberVotes
  <2>2. blacklist' \in [Peers -> Nat] /\ RapsLived' /\ DecreesOK'
    <3>1. EnactSanction(target, until, votes, topic, "belief")
      BY <1>4, <2>1
    <3> HIDE DEF votes
    <3>2. QED
      BY <1>1, <1>3, <1>5, <3>1, EnactKeeps
  <2>3. TasksOK'
    BY <1>2, <2>1, EndsOK
  <2>4. LoansOK'
    BY <1>1 DEF GuildInvariant, LoansOK, credit
  <2>5. QED
    BY <1>1, <1>2, <2>2, <2>3, <2>4 DEF GuildInvariant, GuildTypeOK, credit
<1>8. QED
  BY <1>6, <1>7

LEMMA RapSanctionKeeps ==
    ASSUME GuildInvariant, NEW p \in Peers, NEW term \in Terms, RapSanction(p, term)
    PROVE  GuildInvariant'
<1>1. /\ p \in raps /\ Counted("rap") /\ UNCHANGED <<town, memory, task, raps, credit>>
      /\ EnactSanction(p, day + term, Members, Misconduct(p), "rap")
  BY DEF RapSanction
<1>2. day + term \in Nat /\ OnRecord(p)
  BY <1>1, CognitionAssumption DEF GuildInvariant, GuildTypeOK, RapsLived
<1>3. blacklist' \in [Peers -> Nat] /\ RapsLived' /\ DecreesOK'
  BY <1>1, <1>2, EnactKeeps
<1>4. Grows /\ BeliefsFelt' /\ EpisodesLived' /\ TrustEarned'
      /\ trust' \in [Members -> [Members \cup Peers -> Int]]
  BY <1>1, MemoryStays
<1>5. TasksOK'
  BY <1>1, <1>4, TasksKept DEF GuildInvariant
<1>6. used' \in [CallKinds -> Nat] /\ LoansOK'
  <2>1. "rap" \in CallKinds
    BY DEF CallKinds
  <2>2. QED
    BY <1>1, <2>1, Counts, LoansStay DEF GuildInvariant, credit
<1>7. QED
  BY <1>1, <1>3, <1>4, <1>5, <1>6 DEF GuildInvariant, GuildTypeOK, credit

-----------------------------------------------------------------------------
\* Lending, and the clock.
LEMMA LendKeeps ==
    ASSUME GuildInvariant, NEW n \in Members, NEW p \in Peers, Lend(n, p)
    PROVE  GuildInvariant'
<1>1. /\ Counted("loan") /\ UNCHANGED <<town, memory, task, polity, defaults, day, settled>>
      /\ loans' = loans \cup {[id |-> used.loan, lender |-> n, borrower |-> p,
                               due |-> day + 1]}
  BY DEF Lend
<1>2. Grows /\ BeliefsFelt' /\ EpisodesLived' /\ TrustEarned'
      /\ trust' \in [Members -> [Members \cup Peers -> Int]]
  BY <1>1, MemoryStays
<1>3. TasksOK' /\ RapsLived' /\ DecreesOK'
  BY <1>1, <1>2, TasksKept, PolityStays DEF GuildInvariant
<1>4. /\ used' \in [CallKinds -> Nat] /\ used.loan \in Nat /\ used'.loan = used.loan + 1
  BY <1>1 DEF Counted, CallKinds, GuildInvariant, GuildTypeOK
<1>5. LoansOK'
  BY <1>1, <1>4 DEF GuildInvariant, LoansOK
<1>6. QED
  BY <1>1, <1>2, <1>3, <1>4, <1>5 DEF GuildInvariant, GuildTypeOK, polity

LEMMA SettleKeeps ==
    ASSUME GuildInvariant, NEW balance, SettleLoans(balance)
    PROVE  GuildInvariant'
<1>1. PICK matured, paid :
          /\ matured \subseteq loans
          /\ loans' = loans \ matured
          /\ settled' = settled \cup {[id |-> l.id, paid |-> paid] : l \in matured}
          /\ defaults' \subseteq defaults \cup matured
          /\ UNCHANGED <<town, memory, task, polity, day, used>>
  <2> DEFINE m == {l \in loans : l.due <= day}
  <2>1. m \subseteq loans
    OBVIOUS
  <2>2. QED
    BY <2>1 DEF SettleLoans
<1>2. Grows /\ BeliefsFelt' /\ EpisodesLived' /\ TrustEarned'
      /\ trust' \in [Members -> [Members \cup Peers -> Int]]
  BY <1>1, MemoryStays
<1>3. TasksOK' /\ RapsLived' /\ DecreesOK'
  BY <1>1, <1>2, TasksKept, PolityStays DEF GuildInvariant
<1>4. LoansOK'
  <2>1. /\ \A l \in loans : l.id \in Nat /\ l.id < used.loan
        /\ \A x \in settled : x.id \in Nat /\ x.id < used.loan
        /\ \A x, y \in settled : x.id = y.id => x = y
        /\ \A x \in settled, l \in loans : x.id # l.id
        /\ \A l \in loans \cup defaults : l.lender \in Members /\ l.borrower \in Peers
    BY DEF GuildInvariant, LoansOK
  <2>2. \A x \in settled' : x \in settled \/ \E l \in matured : x = [id |-> l.id, paid |-> paid]
    BY <1>1
  <2>3. \A l \in loans' \cup defaults' : l.lender \in Members /\ l.borrower \in Peers
    BY <1>1, <2>1
  <2>4. /\ \A l \in loans' : l.id \in Nat /\ l.id < used'.loan
        /\ \A x \in settled' : x.id \in Nat /\ x.id < used'.loan
    BY <1>1, <2>1, <2>2
  <2>5. \A x, y \in settled' : x.id = y.id => x = y
    BY <1>1, <2>1, <2>2
  <2>6. \A x \in settled', l \in loans' : x.id # l.id
    <3>1. \A l, m \in loans : l.id = m.id => l = m
      BY DEF GuildInvariant, LoansOK
    <3>2. QED
      BY <1>1, <2>1, <2>2, <3>1
  <2>7. \A l, m \in loans' : l.id = m.id => l = m
    BY <1>1 DEF GuildInvariant, LoansOK
  <2>8. QED
    BY <2>3, <2>4, <2>5, <2>6, <2>7 DEF LoansOK
<1>5. GuildTypeOK'
  BY <1>1, <1>2 DEF GuildInvariant, GuildTypeOK, polity
<1>6. QED
  BY <1>2, <1>3, <1>4, <1>5 DEF GuildInvariant

LEMMA DayKeeps ==
    ASSUME GuildInvariant, DayPasses
    PROVE  GuildInvariant'
<1>1. UNCHANGED <<town, memory, task, polity, used, loans, defaults, settled>>
      /\ day' = day + 1
  BY DEF DayPasses
<1>2. Grows /\ BeliefsFelt' /\ EpisodesLived' /\ TrustEarned'
      /\ trust' \in [Members -> [Members \cup Peers -> Int]]
  BY <1>1, MemoryStays
<1>3. TasksOK' /\ RapsLived' /\ DecreesOK'
  BY <1>1, <1>2, TasksKept, PolityStays DEF GuildInvariant
<1>4. LoansOK'
  BY <1>1 DEF GuildInvariant, LoansOK
<1>5. GuildTypeOK'
  <2>1. blacklist \in [Peers -> Nat] /\ day \in Nat /\ used \in [CallKinds -> Nat]
    BY DEF GuildInvariant, GuildTypeOK
  <2>2. blacklist' = blacklist /\ used' = used
    BY <1>1 DEF polity
  <2>3. day' \in Nat
    BY <1>1, <2>1
  <2>4. QED
    BY <1>2, <2>1, <2>2, <2>3 DEF GuildTypeOK
<1>6. QED
  BY <1>2, <1>3, <1>4, <1>5 DEF GuildInvariant

-----------------------------------------------------------------------------
LEMMA GuildOpens == ASSUME CognitionInit PROVE GuildInvariant
<1>1. GuildTypeOK /\ TrustEarned
  <2>1. /\ trust = [n \in Members |-> [p \in Members \cup Peers |-> 0]]
        /\ blacklist = [p \in Peers |-> 0] /\ day = 0
        /\ used = [kind \in CallKinds |-> 0]
    BY DEF CognitionInit
  <2>2. QED
    BY <2>1 DEF GuildTypeOK, TrustEarned
<1>2. TasksOK
  BY DEF CognitionInit, TasksOK, UnderWay, TaskOK
<1>3. BeliefsFelt /\ EpisodesLived /\ RapsLived /\ DecreesOK /\ LoansOK
  BY DEF CognitionInit, BeliefsFelt, EpisodesLived, RapsLived, DecreesOK, LoansOK
<1>4. QED
  BY <1>1, <1>2, <1>3 DEF GuildInvariant

LEMMA GuildStays ==
    ASSUME GuildInvariant, UNCHANGED cognitionVars
    PROVE  GuildInvariant'
<1>1. /\ UNCHANGED <<town, memory, task, polity, credit, used>>
  BY DEF cognitionVars, memory, polity, credit
<1>2. Grows /\ BeliefsFelt' /\ EpisodesLived' /\ TrustEarned'
      /\ trust' \in [Members -> [Members \cup Peers -> Int]]
  BY <1>1, MemoryStays
<1>3. QED
  BY <1>1, <1>2, TasksKept, CallMoves DEF GuildInvariant

LEMMA GuildNext ==
    ASSUME GuildInvariant, [CognitionNext]_cognitionVars
    PROVE  GuildInvariant'
<1>1. ASSUME NEW s \in Tasks, TaskNext(s)
      PROVE  GuildInvariant'
  BY <1>1, PitchedKeeps, RemembersKeeps, TrustGetKeeps, TrustSetKeeps, ReflectsKeeps,
     WarnKeeps, WarnHeardKeeps, WarnImplantsKeeps, RoundOpensKeeps, MemberVotesKeeps,
     CrimeKeeps, DefaultKeeps
  DEF TaskNext
<1>2. QED
  BY <1>1, RapSanctionKeeps, LendKeeps, SettleKeeps, DayKeeps, GuildStays DEF CognitionNext

\* Nobody is banned on rumour, whatever calls overlap and whichever services
\* fail: behind every belief stands what its teller lived, behind distrust a
\* loss, behind a ban a record or the share of the guild it takes, each with a
\* reason at first hand; no ban is cut short, and a loan is settled once.  For
\* every guild and every number of peers, calls and days.
THEOREM NoBanOnRumour == CognitionSpec => []PolityKept
<1>1. CognitionInit => GuildInvariant
  BY GuildOpens
<1>2. GuildInvariant /\ [CognitionNext]_cognitionVars => GuildInvariant'
  BY GuildNext
<1>3. ASSUME GuildInvariant PROVE PolityKept
  <2>1. ASSUME NEW d \in decrees
        PROVE  /\ blacklist[d.target] >= d.until
               /\ IF d.grounds = "rap" THEN \E n \in Members : Wronged(n, d.target)
                  ELSE 100 * Cardinality({n \in Members : Informed(n, d.topic) \/ Wronged(n, d.target)})
                         >= Threshold * Len(Guild)
    BY <1>3 DEF GuildInvariant, DecreesOK, DecreeOK, OnRecord, Party, Aggrieved
  <2>2. QED
    BY <1>3, <2>1 DEF GuildInvariant, BeliefsFelt, TrustEarned, LoansOK, PolityKept
<1>4. QED
  BY <1>1, <1>2, <1>3, PTL DEF CognitionSpec

-----------------------------------------------------------------------------
(***************************************************************************)
(* What a world keeps.                                                     *)
(***************************************************************************)
Listings == {"snapshot", "show"}
Listed(kind) == IF kind = "snapshot" THEN "npcs" ELSE "works"
Existing(kind) == IF kind = "snapshot" THEN recorded ELSE engraved
Await(j) == Awaits[j.kind][j.step]

CallShape(j) ==
    /\ j = [kind |-> j.kind, arg |-> j.arg, step |-> j.step, moving |-> j.moving,
            held |-> j.held, owed |-> j.owed, got |-> j.got]
    /\ j.kind \in DOMAIN Awaits /\ j.step \in 1..Len(Awaits[j.kind])
    /\ j.moving \in BOOLEAN /\ j.arg \in Entries

\* What a call has done by the step it is at.
Deeds(j) ==
    /\ j.kind \in {"create", "activate"} /\ j.step >= 2 => j.arg \in recorded
    /\ j.kind = "forge" /\ j.step >= 2 => cell["purse"] # Unset \/ Left("purse") = Unset
    /\ j.kind = "forge" /\ j.step >= 4 => j.arg \in charged
    /\ j.kind = "forge" /\ j.step >= 5 => j.arg \in engraved

\* A bare value on its way: nothing else got there, unless updates crossed.
MoveOK(j) ==
    j.moving =>
        /\ Await(j).do = "read" /\ Await(j).of \in Cells
        /\ j.held = Left(Await(j).of) /\ j.held # Unset
        /\ Await(j).of \notin crossed => cell[Await(j).of] \in {Unset, j.held}
        /\ ~(j.kind = "forge" /\ j.step = 2)
        /\ j.kind \in Listings /\ Await(j).of \notin crossed => j.owed = ToSet(j.held)

\* A call about to write holds what is there, unless updates crossed.
PutOK(j) ==
    Await(j).do = "put" =>
        LET c == Await(j).of
        IN  IF j.kind = "backfill"
            THEN j.held = Unset => /\ Left("purse") = Unset
                                   /\ "purse" \notin crossed => cell["purse"] = Unset
            ELSE /\ j.held \in ValuesOf(c)
                 /\ c \notin crossed => j.held = Holds(c)
                 /\ c = "npcs" => ToSet(j.held) \subseteq recorded
                 /\ c = "works" => ToSet(j.held) \subseteq engraved
                 /\ c = "purse" /\ c \notin crossed => j.held >= Cost

\* The price is checked against what the purse holds.
CheckOK(j) ==
    j.kind = "forge" /\ j.step = 2 =>
        j.held \in Int /\ ("purse" \notin crossed => j.held = Holds("purse"))

\* A listing has named, or will name, all there was when it read the list.
ListingOK(j) ==
    j.kind \in Listings =>
        /\ j.step = 1 => j.got = {}
        /\ j.step = 2 => /\ j.held \in Seq(Entries) /\ ToSet(j.held) \subseteq Existing(j.kind)
                         /\ Listed(j.kind) \notin crossed => j.owed = j.got \cup ToSet(j.held)

CallOK(j) == CallShape(j) /\ Deeds(j) /\ MoveOK(j) /\ PutOK(j) /\ CheckOK(j) /\ ListingOK(j)

Busy == {hand[h] : h \in Hands} \ {AtRest}
CallsOK == \A j \in Busy : CallOK(j)

LifeTypeOK ==
    /\ age \in Ages /\ age.records \subseteq recorded
    /\ DOMAIN hand = Hands /\ DOMAIN cell = Cells /\ DOMAIN told = Cells
    /\ \A c \in Cells : cell[c] \in ValuesOf(c) \cup {Unset} /\ told[c] \in ValuesOf(c)

LifeInvariant == LifeTypeOK /\ LedgersKept /\ RecordsFirst /\ CallsOK

-----------------------------------------------------------------------------
\* The scripts, step by step.
Script(kind) == Awaits[kind]

LEMMA ScriptSteps ==
    /\ DOMAIN Awaits = {"create", "activate", "forge", "backfill", "observe", "dream",
                        "snapshot", "show"}
    /\ Awaits["create"] = <<Do("record"), Do("open"), Read("npcs"), Put("npcs")>>
    /\ Awaits["activate"] = <<Do("record"), Read("npcs"), Put("npcs")>>
    /\ Awaits["forge"] = <<Read("purse"), Read("purse"), Put("purse"), Do("engrave"),
                           Read("works"), Put("works")>>
    /\ Awaits["backfill"] = <<Read("purse"), Put("purse")>>
    /\ Awaits["observe"] = <<Read("thoughts"), Put("thoughts")>>
    /\ Awaits["dream"] = <<Do("reflect"), Do("compose"), Read("log"), Put("log"),
                           Read("diary"), Put("diary")>>
    /\ Awaits["snapshot"] = <<Read("npcs"), Do("each")>>
    /\ Awaits["show"] = <<Read("works"), Do("each")>>
BY DEF Awaits

LEMMA Kinds ==
    /\ \A what : Do(what).do = what /\ Do(what).of = "none"
    /\ \A c : Read(c).do = "read" /\ Read(c).of = c /\ Put(c).do = "put" /\ Put(c).of = c
BY DEF Do, Read, Put

\* What a kind's steps are, as far as the invariant tells them apart.
StepFacts(k, i) ==
    LET a == Awaits[k][i]
        b == Awaits[k][i + 1]
        n == Len(Awaits[k])
    IN  /\ a.do = "read" =>
            /\ a.of \in Cells /\ i < n
            /\ \/ k \in Listings /\ i = 1 /\ n = 2 /\ a.of = Listed(k) /\ b = Do("each")
               \/ k = "forge" /\ i = 1 /\ a.of = "purse" /\ b = Read("purse")
               \/ k \notin Listings /\ ~(k = "forge" /\ i = 1) /\ b = Put(a.of)
            /\ a.of = "npcs" /\ k \notin Listings => k \in {"create", "activate"} /\ i >= 2
            /\ a.of = "works" /\ k \notin Listings => k = "forge" /\ i = 5
            /\ a.of = "purse" => (k = "forge" /\ i \in {1, 2}) \/ (k = "backfill" /\ i = 1)
            /\ k = "forge" => i \in {1, 2, 5} /\ (i = 5 => a.of = "works")
        /\ a.do = "put" =>
            /\ a.of \in Cells /\ a = Put(a.of) /\ k \notin Listings /\ i >= 2
            /\ i < n => b.do \notin {"put", "each"}
            /\ a.of = "npcs" => k \in {"create", "activate"}
            /\ a.of = "works" => k = "forge" /\ i = 6
            /\ a.of = "purse" => (k = "forge" /\ i = 3) \/ k = "backfill"
            /\ k = "backfill" => i = 2 /\ n = 2 /\ a.of = "purse"
            /\ k = "forge" => (i = 3 /\ a.of = "purse") \/ (i = 6 /\ n = 6)
        /\ a.do \in {"record", "open", "engrave", "reflect", "compose"} =>
            /\ i < n /\ b.do \notin {"put", "each"} /\ k \notin Listings /\ k # "backfill"
            /\ a.do = "record" <=> k \in {"create", "activate"} /\ i = 1
            /\ a.do = "open" => k = "create" /\ i = 2
            /\ a.do = "engrave" <=> k = "forge" /\ i = 4
            /\ k = "forge" => i = 4
        /\ a.do = "each" => k \in Listings /\ i = 2
        /\ a.do \in {"read", "put", "record", "open", "engrave", "reflect", "compose", "each"}
        /\ a.of = "log" => k = "dream"
        /\ n \in Nat /\ i \in Int

LEMMA StepsAre ==
    ASSUME NEW k \in DOMAIN Awaits, NEW i \in 1..Len(Awaits[k])
    PROVE  StepFacts(k, i)
<1>1. CASE k = "create"
  <2>1. Len(Awaits[k]) = 4 /\ i \in {1, 2, 3, 4}
    BY <1>1, ScriptSteps
  <2>2. QED
    BY <1>1, <2>1, ScriptSteps, Kinds DEF StepFacts, Listings, Listed, Cells, Lists
<1>2. CASE k = "activate"
  <2>1. Len(Awaits[k]) = 3 /\ i \in {1, 2, 3}
    BY <1>2, ScriptSteps
  <2>2. QED
    BY <1>2, <2>1, ScriptSteps, Kinds DEF StepFacts, Listings, Listed, Cells, Lists
<1>3. CASE k = "forge"
  <2>1. Len(Awaits[k]) = 6 /\ i \in {1, 2, 3, 4, 5, 6}
    BY <1>3, ScriptSteps
  <2>2. CASE i = 1
    BY <1>3, <2>1, <2>2, ScriptSteps, Kinds DEF StepFacts, Listings, Listed, Cells, Lists
  <2>3. CASE i = 2
    BY <1>3, <2>1, <2>3, ScriptSteps, Kinds DEF StepFacts, Listings, Listed, Cells, Lists
  <2>4. CASE i = 3
    BY <1>3, <2>1, <2>4, ScriptSteps, Kinds DEF StepFacts, Listings, Listed, Cells, Lists
  <2>5. CASE i = 4
    BY <1>3, <2>1, <2>5, ScriptSteps, Kinds DEF StepFacts, Listings, Listed, Cells, Lists
  <2>6. CASE i = 5
    BY <1>3, <2>1, <2>6, ScriptSteps, Kinds DEF StepFacts, Listings, Listed, Cells, Lists
  <2>7. CASE i = 6
    BY <1>3, <2>1, <2>7, ScriptSteps, Kinds DEF StepFacts, Listings, Listed, Cells, Lists
  <2>8. QED
    BY <2>1, <2>2, <2>3, <2>4, <2>5, <2>6, <2>7
<1>4. CASE k \in {"backfill", "observe", "snapshot", "show"}
  <2>1. Len(Awaits[k]) = 2 /\ i \in {1, 2}
    <3>1. \A x, y : Len(<<x, y>>) = 2
      OBVIOUS
    <3>2. Len(Awaits[k]) = 2
      BY <1>4, <3>1, ScriptSteps
    <3>3. QED
      BY <3>2
  <2>2. QED
    BY <1>4, <2>1, ScriptSteps, Kinds DEF StepFacts, Listings, Listed, Cells, Lists
<1>5. CASE k = "dream"
  <2>1. Len(Awaits[k]) = 6 /\ i \in {1, 2, 3, 4, 5, 6}
    BY <1>5, ScriptSteps
  <2>2. QED
    BY <1>5, <2>1, ScriptSteps, Kinds DEF StepFacts, Listings, Listed, Cells, Lists
<1>6. QED
  BY <1>1, <1>2, <1>3, <1>4, <1>5, ScriptSteps

-----------------------------------------------------------------------------
LEMMA ValuesAre ==
    ASSUME LifeTypeOK, NEW c \in Cells
    PROVE  /\ Unset \notin ValuesOf(c)
           /\ Left(c) \in ValuesOf(c) \cup {Unset}
           /\ \A v \in ValuesOf(c) \cup {Unset} : Or(v, c) \in ValuesOf(c)
           /\ Holds(c) \in ValuesOf(c)
           /\ Or(cell[c], c) \in ValuesOf(c)
           /\ (cell[c] # Unset \/ Left(c) = Unset) => Holds(c) = Or(cell[c], c)
           /\ cell[c] = Unset /\ Left(c) # Unset => Holds(c) = Left(c)
<1>1. Unset \notin ValuesOf(c)
  BY LifeAssumption
<1>2. Left(c) \in ValuesOf(c) \cup {Unset}
  BY LifeAssumption DEF LifeTypeOK, Left
<1>3. ASSUME NEW v \in ValuesOf(c) \cup {Unset}
      PROVE  Or(v, c) \in ValuesOf(c)
  <2>1. <<>> \in Seq(Entries) /\ 0 \in Int
    OBVIOUS
  <2>2. CASE c = "purse"
    BY <2>1, <2>2 DEF Or, ValuesOf
  <2>3. CASE c # "purse"
    BY <2>1, <2>3 DEF Or, ValuesOf
  <2>4. QED
    BY <2>2, <2>3
<1>4. cell[c] \in ValuesOf(c) \cup {Unset}
  BY DEF LifeTypeOK
<1>5. Holds(c) \in ValuesOf(c) /\ Or(cell[c], c) \in ValuesOf(c)
  BY <1>2, <1>3, <1>4 DEF Holds
<1>6. /\ (cell[c] # Unset \/ Left(c) = Unset) => Holds(c) = Or(cell[c], c)
      /\ cell[c] = Unset /\ Left(c) # Unset => Holds(c) = Left(c)
  BY DEF Holds, Or
<1>7. QED
  BY <1>1, <1>2, <1>3, <1>5, <1>6

\* What a step may do to a cell under the eyes of the call in slot g: leave it
\* alone, rewrite it and mark that updates crossed, or move the bare value.
CellFor(g, c) ==
    \/ cell'[c] = cell[c]
    \/ (g \in Holding(c) => c \in crossed') /\ cell'[c] # Unset
    \/ /\ cell'[c] = Left(c) /\ Left(c) # Unset
       /\ c \notin crossed => cell[c] \in {Unset, Left(c)}

LifeGrows ==
    /\ age' = age /\ recorded \subseteq recorded' /\ engraved \subseteq engraved'
    /\ charged \subseteq charged' /\ crossed \subseteq crossed'

LEMMA LeftStays ==
    ASSUME LifeGrows, NEW c
    PROVE  Left(c)' = Left(c)
BY DEF LifeGrows, Left

LEMMA OtherCallKept ==
    ASSUME LifeTypeOK, LifeGrows, NEW g \in Hands, NEW j, hand[g] = j, j # AtRest,
           CallOK(j), \A c \in Cells : CellFor(g, c)
    PROVE  CallOK(j)'
<1> DEFINE a == Await(j)
<1>1. StepFacts(j.kind, j.step) /\ CallShape(j)
  BY StepsAre DEF CallOK, CallShape
<1>2. CallShape(j)'
  BY <1>1 DEF CallShape
<1>3. /\ Step(g) = a
      /\ \A c : j.moving /\ a.of = c => g \in Holding(c)
      /\ \A c : a = Put(c) /\ (j.kind = "backfill" => j.held = Unset) => g \in Holding(c)
      /\ j.kind = "forge" /\ j.step = 2 => g \in Holding("purse")
  BY DEF Holding, Step, Await
<1>4. "purse" \in Cells
  BY DEF Cells
<1>5. Deeds(j)'
  <2>1. Deeds(j)
    BY DEF CallOK
  <2>2. CellFor(g, "purse") /\ Left("purse")' = Left("purse")
    BY <1>4, LeftStays
  <2>3. QED
    BY <2>1, <2>2 DEF Deeds, CellFor, LifeGrows
<1>6. MoveOK(j)'
  <2>1. MoveOK(j)
    BY DEF CallOK
  <2>2. SUFFICES ASSUME j.moving
                 PROVE  MoveOK(j)'
    BY DEF MoveOK
  <2>3. a.of \in Cells /\ j.held = Left(a.of) /\ j.held # Unset /\ g \in Holding(a.of)
    BY <1>3, <2>1, <2>2 DEF MoveOK
  <2>4. CellFor(g, a.of) /\ Left(a.of)' = Left(a.of)
    BY <2>3, LeftStays
  <2>5. a.of \notin crossed' => cell'[a.of] \in {Unset, j.held}
    BY <2>1, <2>2, <2>3, <2>4 DEF CellFor, MoveOK, LifeGrows
  <2>6. QED
    BY <2>1, <2>2, <2>4, <2>5 DEF MoveOK, LifeGrows, Await
<1>7. PutOK(j)'
  <2>1. PutOK(j)
    BY DEF CallOK
  <2>2. SUFFICES ASSUME a.do = "put"
                 PROVE  PutOK(j)'
    BY DEF PutOK, Await
  <2>3. a.of \in Cells /\ a = Put(a.of)
    BY <1>1, <2>2 DEF StepFacts, Await
  <2>4. CASE j.kind = "backfill"
    <3>1. a.of = "purse"
      BY <1>1, <2>2, <2>4 DEF StepFacts, Await
    <3>2. ASSUME j.held = Unset
          PROVE  Left("purse")' = Unset /\ ("purse" \notin crossed' => cell'["purse"] = Unset)
      <4>1. g \in Holding("purse")
        BY <1>3, <2>3, <3>1, <3>2
      <4>2. Left("purse") = Unset /\ ("purse" \notin crossed => cell["purse"] = Unset)
        BY <2>1, <2>2, <2>4, <3>2 DEF PutOK
      <4>3. CellFor(g, "purse")
        BY <1>4
      <4>4. QED
        BY <4>1, <4>2, <4>3, LeftStays DEF CellFor, LifeGrows
    <3>3. QED
      BY <2>4, <3>2 DEF PutOK
  <2>5. CASE j.kind # "backfill"
    <3>1. g \in Holding(a.of)
      BY <1>3, <2>3, <2>5
    <3>2. CellFor(g, a.of) /\ Left(a.of)' = Left(a.of)
      BY <2>3, LeftStays
    <3>3. a.of \notin crossed' => Holds(a.of)' = Holds(a.of)
      BY <3>1, <3>2 DEF CellFor, Holds, Or, LifeGrows
    <3>4. QED
      BY <2>1, <2>2, <2>5, <3>3 DEF PutOK, LifeGrows, Await
  <2>6. QED
    BY <2>4, <2>5
<1>8. CheckOK(j)'
  <2>1. CheckOK(j)
    BY DEF CallOK
  <2>2. CASE j.kind = "forge" /\ j.step = 2
    <3>1. CellFor(g, "purse") /\ Left("purse")' = Left("purse") /\ g \in Holding("purse")
      BY <1>3, <1>4, <2>2, LeftStays
    <3>2. "purse" \notin crossed' => Holds("purse")' = Holds("purse")
      BY <3>1 DEF CellFor, Holds, Or, LifeGrows
    <3>3. QED
      BY <2>1, <3>2 DEF CheckOK, LifeGrows
  <2>3. CASE ~(j.kind = "forge" /\ j.step = 2)
    BY <2>3 DEF CheckOK
  <2>4. QED
    BY <2>2, <2>3
<1>9. ListingOK(j)'
  BY DEF CallOK, ListingOK, LifeGrows, Existing
<1>10. QED
  BY <1>2, <1>5, <1>6, <1>7, <1>8, <1>9 DEF CallOK

\* A step of the call in slot h.
LEMMA HandChanged ==
    ASSUME LifeInvariant, LifeGrows, NEW h \in Hands, NEW x,
           \A g \in Hands \ {h} : hand[g] # AtRest => \A c \in Cells : CellFor(g, c),
           hand' = [hand EXCEPT ![h] = x], x = AtRest \/ CallOK(x)'
    PROVE  CallsOK' /\ DOMAIN hand' = Hands
<1>1. DOMAIN hand' = Hands
  BY DEF LifeInvariant, LifeTypeOK
<1>2. ASSUME NEW j \in Busy'
      PROVE  CallOK(j)'
  <2>1. PICK g \in Hands : j = hand'[g] /\ j # AtRest
    BY DEF Busy
  <2>2. CASE g = h
    BY <2>1, <2>2 DEF LifeInvariant, LifeTypeOK
  <2>3. CASE g # h
    <3>1. hand[g] = j
      BY <2>1, <2>3 DEF LifeInvariant, LifeTypeOK
    <3>2. CallOK(j)
      BY <2>1, <3>1 DEF LifeInvariant, CallsOK, Busy
    <3>3. QED
      BY <2>1, <2>3, <3>1, <3>2, OtherCallKept DEF LifeInvariant
  <2>4. QED
    BY <2>2, <2>3
<1>3. QED
  BY <1>1, <1>2 DEF CallsOK

LEMMA CallIs ==
    ASSUME LifeInvariant, NEW h \in Hands, hand[h] # AtRest
    PROVE  CallOK(hand[h]) /\ StepFacts(hand[h].kind, hand[h].step) /\ Step(h) = Await(hand[h])
<1>1. CallOK(hand[h])
  BY DEF LifeInvariant, CallsOK, Busy
<1>2. QED
  BY <1>1, StepsAre DEF CallOK, CallShape, Step, Await

\* Where a call is after a step.
Onward(j, v, o) == [kind |-> j.kind, arg |-> j.arg, step |-> j.step + 1, moving |-> FALSE,
                    held |-> v, owed |-> o, got |-> j.got]
After(j, v) == IF j.step = Len(Awaits[j.kind]) THEN AtRest ELSE Onward(j, v, j.owed)

LEMMA AdvancedIs ==
    ASSUME LifeInvariant, NEW h \in Hands, NEW j, j = hand[h], j # AtRest, NEW v
    PROVE  Advanced(h, v) = [hand EXCEPT ![h] = After(j, v)]
<1>1. CallShape(j)
  BY CallIs DEF CallOK
<1> DEFINE x == [j EXCEPT !.step = @ + 1]
           w == [x EXCEPT !.moving = FALSE]
           y == [w EXCEPT !.held = v]
<1>2. y = Onward(j, v, j.owed)
  <2>1. x = [kind |-> j.kind, arg |-> j.arg, step |-> j.step + 1, moving |-> j.moving,
             held |-> j.held, owed |-> j.owed, got |-> j.got]
    BY <1>1 DEF CallShape
  <2> HIDE DEF x
  <2>2. ASSUME NEW m, NEW u, u = [x EXCEPT !.moving = m]
        PROVE  [u EXCEPT !.held = v] =
                   [kind |-> j.kind, arg |-> j.arg, step |-> j.step + 1, moving |-> m,
                    held |-> v, owed |-> j.owed, got |-> j.got]
    <3>1. u = [kind |-> j.kind, arg |-> j.arg, step |-> j.step + 1, moving |-> m,
               held |-> j.held, owed |-> j.owed, got |-> j.got]
      BY <2>1, <2>2
    <3>2. QED
      BY <3>1
  <2>3. QED
    BY <2>2, Zenon DEF Onward
<1>3. [hand EXCEPT ![h].step = @ + 1, ![h].moving = FALSE, ![h].held = v]
      = [hand EXCEPT ![h] = y]
  BY DEF LifeInvariant, LifeTypeOK
<1>4. QED
  BY <1>2, <1>3 DEF Advanced, After, Returned

\* A step other than a read leaves its call in order, with what it owes done.
LEMMA GoesOn ==
    ASSUME LifeInvariant, LifeGrows, NEW h \in Hands, NEW j, j = hand[h], j # AtRest,
           Await(j).do \notin {"read", "each"},
           Await(j).do = "record" => j.arg \in recorded',
           j.kind = "forge" /\ j.step = 3 => j.arg \in charged',
           Await(j).do = "engrave" => j.arg \in engraved',
           cell'["purse"] = Unset => cell["purse"] = Unset
    PROVE  After(j, <<>>) = AtRest \/ CallOK(After(j, <<>>))'
<1> DEFINE x == Onward(j, <<>>, j.owed)
<1>1. CallOK(j) /\ StepFacts(j.kind, j.step)
  BY CallIs
<1>2. CASE j.step = Len(Awaits[j.kind])
  BY <1>2 DEF After
<1>3. CASE j.step # Len(Awaits[j.kind])
  <2>1. /\ j.kind \in DOMAIN Awaits /\ j.step \in 1..Len(Awaits[j.kind]) /\ j.arg \in Entries
        /\ j.step \in Int /\ Len(Awaits[j.kind]) \in Nat
    BY <1>1 DEF CallOK, CallShape, StepFacts
  <2>2. j.step < Len(Awaits[j.kind]) /\ j.step + 1 \in 1..Len(Awaits[j.kind])
    BY <1>3, <2>1
  <2>3. /\ x.kind = j.kind /\ x.arg = j.arg /\ x.step = j.step + 1 /\ x.moving = FALSE
        /\ x.held = <<>> /\ x.owed = j.owed /\ x.got = j.got
    BY DEF Onward
  <2>4. /\ j.kind \notin Listings /\ j.kind # "backfill"
        /\ Awaits[j.kind][j.step + 1].do \notin {"put", "each"}
        /\ j.kind = "forge" => j.step >= 3
        /\ j.kind = "forge" /\ j.step = 4 => Await(j).do = "engrave"
        /\ j.kind \in {"create", "activate"} /\ j.step = 1 => Await(j).do = "record"
    BY <1>1, <1>3, <2>1, <2>2 DEF StepFacts, Await
  <2>5. CallShape(x)
    <3>1. x = [kind |-> x.kind, arg |-> x.arg, step |-> x.step, moving |-> x.moving,
               held |-> x.held, owed |-> x.owed, got |-> x.got]
      BY DEF Onward
    <3> HIDE DEF x
    <3>2. QED
      BY <2>1, <2>2, <2>3, <3>1 DEF CallShape
  <2> HIDE DEF x
  <2>6. CallShape(x)' /\ MoveOK(x)' /\ ListingOK(x)'
    BY <2>3, <2>4, <2>5 DEF CallShape, MoveOK, ListingOK
  <2>7. Deeds(x)'
    <3>1. Deeds(j) /\ Left("purse")' = Left("purse")
      BY <1>1, LeftStays DEF CallOK
    <3>2. QED
      BY <2>1, <2>3, <2>4, <3>1 DEF Deeds, LifeGrows
  <2>8. PutOK(x)' /\ CheckOK(x)'
    BY <2>1, <2>3, <2>4 DEF PutOK, CheckOK, Await
  <2>9. QED
    BY <1>3, <2>6, <2>7, <2>8 DEF CallOK, After, x
<1>4. QED
  BY <1>2, <1>3

\* A read leaves its call in order, if what it got is what is there.
LEMMA ReadsOn ==
    ASSUME LifeInvariant, LifeGrows, UNCHANGED <<recorded, engraved, crossed>>,
           NEW h \in Hands, NEW j, j = hand[h], j # AtRest, NEW c, NEW v, NEW o,
           Await(j).do = "read", Await(j).of = c,
           cell'["purse"] = Unset => cell["purse"] = Unset,
           IF j.kind = "backfill"
           THEN v = Unset => Left("purse") = Unset /\ cell'["purse"] = Unset
           ELSE v \in ValuesOf(c) /\ (c \notin crossed => v = Holds(c)'),
           c = "npcs" => ToSet(v) \subseteq recorded,
           c = "works" => ToSet(v) \subseteq engraved,
           j.kind = "forge" /\ j.step = 1 => cell'["purse"] # Unset \/ Left("purse") = Unset,
           j.kind = "forge" /\ j.step = 2 /\ c \notin crossed => v >= Cost,
           j.kind \in Listings /\ c \notin crossed => o = ToSet(v)
    PROVE  /\ j.step # Len(Awaits[j.kind])
           /\ CallOK(Onward(j, v, o))'
<1> DEFINE x == Onward(j, v, o)
           b == Awaits[j.kind][j.step + 1]
<1>1. CallOK(j) /\ StepFacts(j.kind, j.step)
  BY CallIs
<1>2. /\ j.kind \in DOMAIN Awaits /\ j.step \in 1..Len(Awaits[j.kind]) /\ j.arg \in Entries
      /\ j.step \in Int /\ Len(Awaits[j.kind]) \in Nat
  BY <1>1 DEF CallOK, CallShape, StepFacts
<1>3. j.step < Len(Awaits[j.kind]) /\ j.step + 1 \in 1..Len(Awaits[j.kind]) /\ c \in Cells
  BY <1>1, <1>2 DEF StepFacts, Await
<1>4. /\ x.kind = j.kind /\ x.arg = j.arg /\ x.step = j.step + 1 /\ x.moving = FALSE
      /\ x.held = v /\ x.owed = o /\ x.got = j.got
  BY DEF Onward
<1>5. CallShape(x)
  <2>1. x = [kind |-> x.kind, arg |-> x.arg, step |-> x.step, moving |-> x.moving,
             held |-> x.held, owed |-> x.owed, got |-> x.got]
    BY DEF Onward
  <2> HIDE DEF x
  <2>2. QED
    BY <1>2, <1>3, <1>4, <2>1 DEF CallShape
<1>6. \/ /\ j.kind \in Listings /\ j.step = 1 /\ c = Listed(j.kind) /\ b = Do("each")
      \/ /\ j.kind = "forge" /\ j.step = 1 /\ c = "purse" /\ b = Read("purse")
      \/ /\ j.kind \notin Listings /\ ~(j.kind = "forge" /\ j.step = 1) /\ b = Put(c)
  BY <1>1 DEF StepFacts, Await
<1>7. /\ j.kind \in {"create", "activate"} => j.step >= 2
      /\ j.kind = "forge" => j.step \in {1, 2, 5} /\ (j.step = 5 => c = "works")
      /\ c = "purse" => (j.kind = "forge" /\ j.step \in {1, 2}) \/ j.kind = "backfill"
      /\ j.kind = "backfill" => c = "purse"
  <2>1. j.kind \in {"create", "activate"} /\ j.step = 1 => Await(j).do = "record"
    <3>1. "create" \in DOMAIN Awaits /\ "activate" \in DOMAIN Awaits
      BY ScriptSteps
    <3>2. Awaits["create"][1] = Do("record") /\ Awaits["activate"][1] = Do("record")
      BY ScriptSteps
    <3>3. QED
      BY <3>2, Kinds DEF Await
  <2>2. j.kind = "backfill" => c = "purse"
    <3>1. Awaits["backfill"][1] = Read("purse") /\ Awaits["backfill"][2] = Put("purse")
          /\ Len(Awaits["backfill"]) = 2
      BY ScriptSteps
    <3>2. ASSUME j.kind = "backfill"
          PROVE  j.step = 1
      <4>1. j.step < 2 /\ j.step \in 1..2
        BY <1>2, <1>3, <3>1, <3>2
      <4>2. QED
        BY <4>1
    <3>3. QED
      BY <3>1, <3>2, Kinds DEF Await
  <2>3. QED
    BY <1>1, <1>2, <2>1, <2>2 DEF StepFacts, Await
<1> HIDE DEF x
<1>8. CallShape(x)' /\ MoveOK(x)'
  BY <1>4, <1>5 DEF CallShape, MoveOK
<1>9. Left("purse")' = Left("purse")
  BY LeftStays
<1>10. Deeds(x)'
  <2>1. Deeds(j)
    BY <1>1 DEF CallOK
  <2>2. QED
    BY <1>2, <1>4, <1>7, <1>9, <2>1 DEF Deeds, LifeGrows
<1>11. PutOK(x)'
  <2>1. CASE b = Put(c)
    <3>1. Await(x) = Put(c) /\ Put(c).of = c /\ Await(x)' = Await(x)
      BY <1>4, <2>1, Kinds DEF Await
    <3>2. CASE j.kind = "backfill"
      BY <1>4, <1>9, <3>2 DEF PutOK
    <3>3. CASE j.kind # "backfill"
      <4>1. c = "purse" /\ c \notin crossed => v >= Cost
        BY <1>6, <1>7, <2>1, <3>3, Kinds
      <4>2. Await(x)'.of = c
        BY <3>1
      <4>3. QED
        BY <1>4, <3>1, <3>3, <4>1, <4>2 DEF PutOK, LifeGrows
    <3>4. QED
      BY <3>2, <3>3
  <2>2. CASE b # Put(c)
    <3>1. Await(x)'.do # "put"
      BY <1>4, <1>6, <2>2, Kinds DEF Await
    <3>2. QED
      BY <3>1 DEF PutOK
  <2>3. QED
    BY <2>1, <2>2
<1>12. CheckOK(x)'
  <2>1. CASE j.kind = "forge" /\ j.step = 1
    <3>1. c = "purse" /\ j.kind # "backfill"
      BY <1>6, <2>1 DEF Listings
    <3>2. v \in Int /\ ("purse" \notin crossed => v = Holds("purse")')
      BY <3>1 DEF ValuesOf
    <3>3. QED
      BY <1>4, <2>1, <3>2 DEF CheckOK
  <2>2. CASE ~(j.kind = "forge" /\ j.step = 1)
    <3>1. ~(x.kind = "forge" /\ x.step = 2)
      BY <1>2, <1>4, <2>2
    <3>2. QED
      BY <3>1 DEF CheckOK
  <2>3. QED
    BY <2>1, <2>2
<1>13. ListingOK(x)'
  <2>1. SUFFICES ASSUME j.kind \in Listings
                 PROVE  ListingOK(x)'
    BY <1>4 DEF ListingOK
  <2>2. j.step = 1 /\ c = Listed(j.kind) /\ j.got = {} /\ j.kind # "backfill" /\ c # "purse"
        /\ (c = "npcs" => j.kind = "snapshot") /\ (c = "works" => j.kind = "show")
    BY <1>1, <1>6, <2>1 DEF CallOK, ListingOK, Listings, Listed
  <2>3. v \in Seq(Entries) /\ ToSet(v) \subseteq Existing(j.kind)
    BY <2>2 DEF ValuesOf, Existing, Listed
  <2>4. QED
    BY <1>4, <2>1, <2>2, <2>3 DEF ListingOK, Existing, LifeGrows
<1>14. QED
  BY <1>3, <1>8, <1>10, <1>11, <1>12, <1>13 DEF CallOK, x

\* A step of one call that leaves every cell alone.
LEMMA QuietStep ==
    ASSUME LifeInvariant, NEW h \in Hands, NEW x,
           hand' = [hand EXCEPT ![h] = x], x = AtRest \/ CallOK(x)',
           UNCHANGED <<age, cell, told, crossed>>,
           recorded \subseteq recorded', engraved \subseteq engraved',
           charged \subseteq charged', engraved' \subseteq charged'
    PROVE  LifeInvariant'
<1>1. LifeGrows /\ (\A g \in Hands : \A c \in Cells : CellFor(g, c))
  BY DEF LifeGrows, CellFor
<1>2. CallsOK' /\ DOMAIN hand' = Hands
  BY <1>1, HandChanged
<1>3. \A c : Holds(c)' = Holds(c)
  BY DEF Holds, Left
<1>4. LedgersKept' /\ RecordsFirst'
  BY <1>3 DEF LifeInvariant, LedgersKept, RecordsFirst
<1>5. LifeTypeOK'
  BY <1>2 DEF LifeInvariant, LifeTypeOK
<1>6. QED
  BY <1>2, <1>4, <1>5 DEF LifeInvariant

LEMMA BeginKeeps ==
    ASSUME LifeInvariant, NEW h \in Hands, NEW o \in age.offers, Begin(h, o.kind, o.arg)
    PROVE  LifeInvariant'
<1>1. o.kind \in DOMAIN Awaits /\ o.arg \in Entries
  BY LifeAssumption DEF LifeInvariant, LifeTypeOK, Entries
<1>2. PICK x : x = [kind |-> o.kind, arg |-> o.arg, step |-> 1, moving |-> FALSE,
                    held |-> <<>>, owed |-> {}, got |-> {}]
  OBVIOUS
<1>3. /\ x.kind = o.kind /\ x.arg = o.arg /\ x.step = 1 /\ x.moving = FALSE /\ x.got = {}
      /\ x = [kind |-> x.kind, arg |-> x.arg, step |-> x.step, moving |-> x.moving,
              held |-> x.held, owed |-> x.owed, got |-> x.got]
  BY <1>2
<1>4. 1 \in 1..Len(Awaits[x.kind]) /\ Await(x).do # "put"
  <2>1. \A y, z, u, w, r, t : /\ 1 \in 1..Len(<<y, z>>) /\ 1 \in 1..Len(<<y, z, u>>)
                        /\ 1 \in 1..Len(<<y, z, u, w>>) /\ 1 \in 1..Len(<<y, z, u, w, r, t>>)
                        /\ <<y, z>>[1] = y /\ <<y, z, u>>[1] = y /\ <<y, z, u, w>>[1] = y
                        /\ <<y, z, u, w, r, t>>[1] = y
    OBVIOUS
  <2>2. x.kind \in DOMAIN Awaits
    BY <1>1, <1>3
  <2>3. QED
    BY <1>3, <2>1, <2>2, ScriptSteps, Kinds DEF Await
<1>5. CallShape(x)' /\ Deeds(x)' /\ MoveOK(x)' /\ PutOK(x)' /\ CheckOK(x)' /\ ListingOK(x)'
  <2>1. CallShape(x)' /\ Deeds(x)' /\ MoveOK(x)'
    <3>1. CallShape(x)'
      BY <1>1, <1>3, <1>4 DEF CallShape
    <3>2. Deeds(x)'
      BY <1>3 DEF Deeds
    <3>3. MoveOK(x)'
      BY <1>3 DEF MoveOK
    <3>4. QED
      BY <3>1, <3>2, <3>3
  <2>2. PutOK(x)' /\ CheckOK(x)' /\ ListingOK(x)'
    BY <1>3, <1>4 DEF PutOK, CheckOK, ListingOK, Await
  <2>3. QED
    BY <2>1, <2>2
<1>6. QED
  BY <1>2, <1>5, QuietStep DEF Begin, CallOK, LifeInvariant, RecordsFirst

\* A call that ends where it is.
LEMMA ReturnKeeps ==
    ASSUME LifeInvariant, NEW h \in Hands, hand' = Returned(h),
           UNCHANGED <<age, cell, recorded, engraved, told, crossed, charged>>
    PROVE  LifeInvariant'
<1>1. PICK x : x = AtRest
  OBVIOUS
<1>2. hand' = [hand EXCEPT ![h] = x]
  BY <1>1 DEF Returned
<1>3. QED
  BY <1>1, <1>2, QuietStep DEF LifeInvariant, RecordsFirst

\* A call that goes on, its deed done, the cells left alone.
LEMMA DeedKeeps ==
    ASSUME LifeInvariant, NEW h \in Hands, hand[h] # AtRest, hand' = Advanced(h, <<>>),
           Step(h).do \notin {"read", "each"},
           Step(h).do = "record" => hand[h].arg \in recorded',
           hand[h].kind = "forge" => hand[h].step # 3,
           Step(h).do = "engrave" => hand[h].arg \in engraved',
           UNCHANGED <<age, cell, told, crossed, charged>>,
           recorded \subseteq recorded', engraved \subseteq engraved', engraved' \subseteq charged
    PROVE  LifeInvariant'
<1>1. PICK j : j = hand[h]
  OBVIOUS
<1>2. PICK x : x = After(j, <<>>)
  OBVIOUS
<1>3. hand' = [hand EXCEPT ![h] = x]
  BY <1>1, <1>2, AdvancedIs
<1>4. Step(h) = Await(j)
  BY <1>1, CallIs
<1>5. LifeGrows
  BY DEF LifeGrows
<1>6. After(j, <<>>) = AtRest \/ CallOK(After(j, <<>>))'
  BY <1>1, <1>4, <1>5, GoesOn
<1>7. x = AtRest \/ CallOK(x)'
  BY <1>2, <1>6
<1>8. QED
  BY <1>3, <1>7, QuietStep

LEMMA RecordKeeps ==
    ASSUME LifeInvariant, NEW h \in Hands, Record(h)
    PROVE  LifeInvariant'
<1>1. hand[h] # AtRest /\ Step(h).do = "record"
  BY DEF Record, IsAt
<1>2. hand[h].kind = "forge" => hand[h].step # 3
  BY <1>1, CallIs DEF StepFacts, Await
<1>3. QED
  BY <1>1, <1>2, DeedKeeps DEF Record, LifeInvariant, RecordsFirst

LEMMA EngraveKeeps ==
    ASSUME LifeInvariant, NEW h \in Hands, Engrave(h)
    PROVE  LifeInvariant'
<1>1. hand[h] # AtRest /\ Step(h).do = "engrave"
  BY DEF Engrave, IsAt
<1>2. hand[h].kind = "forge" /\ hand[h].step = 4
  BY <1>1, CallIs DEF StepFacts, Await
<1>3. hand[h].arg \in charged
  BY <1>1, <1>2, CallIs DEF CallOK, Deeds
<1>4. QED
  BY <1>1, <1>2, <1>3, DeedKeeps DEF Engrave, LifeInvariant, RecordsFirst

LEMMA DreamKeeps ==
    ASSUME LifeInvariant, NEW h \in Hands,
           (\E formed \in 0..1 : FormBelief(h, formed)) \/ (\E answers \in BOOLEAN : Compose(h, answers))
    PROVE  LifeInvariant'
<1>1. hand[h] # AtRest /\ Step(h).do \in {"reflect", "compose"}
  BY DEF FormBelief, Compose, IsAt
<1>2. hand[h].kind = "forge" => hand[h].step # 3
  BY <1>1, CallIs DEF StepFacts, Await
<1>3. hand' = Returned(h) \/ hand' = Advanced(h, <<>>)
  BY DEF FormBelief, Compose
<1>4. UNCHANGED <<age, cell, recorded, engraved, told, crossed, charged>>
  BY DEF FormBelief, Compose
<1>5. CASE hand' = Returned(h)
  BY <1>4, <1>5, ReturnKeeps
<1>6. CASE hand' = Advanced(h, <<>>)
  BY <1>1, <1>2, <1>4, <1>6, DeedKeeps DEF LifeInvariant, RecordsFirst
<1>7. QED
  BY <1>3, <1>5, <1>6

LEMMA SwallowedKeeps ==
    ASSUME LifeInvariant, NEW h \in Hands, LineSwallowed(h) \/ PageSwallowed(h) \/ TooPoor(h)
    PROVE  LifeInvariant'
<1>1. CASE PageSwallowed(h) \/ TooPoor(h)
  BY <1>1, ReturnKeeps DEF PageSwallowed, TooPoor
<1>2. CASE LineSwallowed(h)
  <2>1. PICK j : j = hand[h] /\ j # AtRest
    BY <1>2 DEF LineSwallowed
  <2>2. CallOK(j) /\ j.kind = "dream"
    BY <1>2, <2>1, CallIs DEF StepFacts, Await, LineSwallowed
  <2>3. PICK x : x = [kind |-> j.kind, arg |-> j.arg, step |-> 5, moving |-> FALSE,
                      held |-> <<>>, owed |-> j.owed, got |-> j.got]
    OBVIOUS
  <2>4. /\ x.kind = "dream" /\ x.arg = j.arg /\ x.step = 5 /\ x.moving = FALSE
        /\ x = [kind |-> x.kind, arg |-> x.arg, step |-> x.step, moving |-> x.moving,
                held |-> x.held, owed |-> x.owed, got |-> x.got]
    BY <2>2, <2>3
  <2>5. 5 \in 1..Len(Awaits["dream"]) /\ Awaits["dream"][5] = Read("diary") /\ "dream" \in DOMAIN Awaits
    BY ScriptSteps
  <2>6. CallShape(x)' /\ Deeds(x)' /\ MoveOK(x)' /\ ListingOK(x)'
    BY <2>2, <2>4, <2>5 DEF CallOK, CallShape, Deeds, MoveOK, ListingOK, Listings
  <2>7. PutOK(x)' /\ CheckOK(x)'
    BY <2>4, <2>5, Kinds DEF PutOK, CheckOK, Await
  <2>8. hand' = [hand EXCEPT ![h] = x]
    <3> DEFINE y == [j EXCEPT !.step = 5]
               w == [y EXCEPT !.moving = FALSE]
    <3>1. hand' = [hand EXCEPT ![h] = [w EXCEPT !.held = <<>>]]
      BY <1>2, <2>1 DEF LineSwallowed, LifeInvariant, LifeTypeOK
    <3>2. y = [kind |-> j.kind, arg |-> j.arg, step |-> 5, moving |-> j.moving,
               held |-> j.held, owed |-> j.owed, got |-> j.got]
      BY <2>2 DEF CallOK, CallShape
    <3> HIDE DEF y
    <3>3. ASSUME NEW m, NEW u, u = [y EXCEPT !.moving = m]
          PROVE  [u EXCEPT !.held = <<>>] =
                     [kind |-> j.kind, arg |-> j.arg, step |-> 5, moving |-> m,
                      held |-> <<>>, owed |-> j.owed, got |-> j.got]
      <4>1. u = [kind |-> j.kind, arg |-> j.arg, step |-> 5, moving |-> m,
                 held |-> j.held, owed |-> j.owed, got |-> j.got]
        BY <3>2, <3>3
      <4>2. QED
        BY <4>1
    <3>4. [w EXCEPT !.held = <<>>] = x
      BY <2>3, <3>3, Zenon
    <3>5. QED
      BY <3>1, <3>4
  <2>9. QED
    BY <1>2, <2>6, <2>7, <2>8, QuietStep DEF LineSwallowed, CallOK, LifeInvariant, RecordsFirst
<1>3. QED
  BY <1>1, <1>2

\* One more entry named by a listing.
LEMMA TakesNextKeeps ==
    ASSUME LifeInvariant, NEW h \in Hands, SnapshotLists(h) \/ ArtifactsList(h)
    PROVE  LifeInvariant'
<1>1. PICK j : j = hand[h]
  OBVIOUS
<1>2. /\ j # AtRest /\ Await(j).do = "each" /\ j.kind \in Listings
      /\ TakesNext(h, Existing(j.kind)) /\ CallOK(j) /\ StepFacts(j.kind, j.step)
  BY <1>1, CallIs DEF SnapshotLists, ArtifactsList, IsAt, Existing, Listings
<1>3. j.step = 2 /\ j.held \in Seq(Entries) /\ ToSet(j.held) \subseteq Existing(j.kind)
  BY <1>2 DEF StepFacts, Await, CallOK, ListingOK
<1>4. CASE j.held = <<>>
  BY <1>1, <1>2, <1>4, ReturnKeeps DEF TakesNext
<1>5. CASE j.held # <<>>
  <2>1. PICK s : s = Tail(j.held)
    OBVIOUS
  <2>2. PICK x : x = [kind |-> j.kind, arg |-> j.arg, step |-> 2, moving |-> j.moving,
                      held |-> s, owed |-> j.owed, got |-> j.got \cup {Head(j.held)}]
    OBVIOUS
  <2>3. /\ x.kind = j.kind /\ x.arg = j.arg /\ x.step = 2 /\ x.moving = j.moving
        /\ x.held = s /\ x.owed = j.owed /\ x.got = j.got \cup {Head(j.held)}
        /\ x = [kind |-> x.kind, arg |-> x.arg, step |-> x.step, moving |-> x.moving,
                held |-> x.held, owed |-> x.owed, got |-> x.got]
    BY <2>2, Zenon
  <2>4. s \in Seq(Entries) /\ Head(j.held) \in ToSet(j.held)
        /\ ToSet(j.held) = {Head(j.held)} \cup ToSet(s)
    <3>1. s \in Seq(Entries) /\ Len(s) = Len(j.held) - 1 /\ Len(j.held) \in Nat \ {0}
          /\ (\A i \in 1..Len(s) : s[i] = j.held[i + 1])
      BY <1>3, <1>5, <2>1
    <3>2. Head(j.held) = j.held[1] /\ DOMAIN j.held = 1..Len(j.held) /\ DOMAIN s = 1..Len(s)
      BY <1>3, <1>5, <3>1
    <3>3. ASSUME NEW i \in 1..Len(j.held)
          PROVE  j.held[i] = Head(j.held) \/ j.held[i] \in ToSet(s)
      <4>1. CASE i = 1
        BY <3>2, <4>1
      <4>2. CASE i # 1
        <5>1. i - 1 \in 1..Len(s) /\ (i - 1) + 1 = i
          BY <3>1, <4>2
        <5>2. s[i - 1] = j.held[i]
          BY <3>1, <5>1
        <5>3. QED
          BY <3>2, <5>1, <5>2 DEF ToSet
      <4>3. QED
        BY <4>1, <4>2
    <3>4. ASSUME NEW i \in 1..Len(s)
          PROVE  s[i] \in ToSet(j.held)
      <4>1. i + 1 \in 1..Len(j.held) /\ s[i] = j.held[i + 1]
        BY <3>1
      <4>2. QED
        BY <3>2, <4>1 DEF ToSet
    <3>5. Head(j.held) \in ToSet(j.held)
      BY <3>1, <3>2 DEF ToSet
    <3>6. QED
      BY <3>1, <3>2, <3>3, <3>4, <3>5 DEF ToSet
  <2>5. hand' = [hand EXCEPT ![h] = x]
    <3> DEFINE y == [j EXCEPT !.held = s]
               z == [y EXCEPT !.got = @ \cup ({Head(j.held)} \cap Existing(j.kind))]
    <3>1. hand' = [hand EXCEPT ![h] = z]
      BY <1>1, <1>2, <1>5, <2>1 DEF TakesNext, LifeInvariant, LifeTypeOK
    <3>2. y = [kind |-> j.kind, arg |-> j.arg, step |-> 2, moving |-> j.moving,
               held |-> s, owed |-> j.owed, got |-> j.got]
      BY <1>2, <1>3 DEF CallOK, CallShape
    <3>3. j.got \cup ({Head(j.held)} \cap Existing(j.kind)) = j.got \cup {Head(j.held)}
      BY <1>3, <2>4
    <3> HIDE DEF y
    <3>4. z = x
      BY <2>2, <3>2, <3>3
    <3>5. QED
      BY <3>1, <3>4
  <2>6. j.moving = FALSE
    BY <1>2 DEF CallOK, CallShape, MoveOK
  <2>7. UNCHANGED <<age, cell, recorded, engraved, told, crossed, charged>>
    BY <1>2 DEF TakesNext
  <2>8. CallShape(x)' /\ Deeds(x)' /\ MoveOK(x)'
    <3>1. CallShape(x)'
      BY <1>2, <1>3, <2>3 DEF CallOK, CallShape
    <3>2. Deeds(x)'
      BY <1>2, <2>3 DEF Deeds, Listings
    <3>3. MoveOK(x)'
      BY <2>3, <2>6 DEF MoveOK
    <3>4. QED
      BY <3>1, <3>2, <3>3
  <2>9. PutOK(x)' /\ CheckOK(x)'
    <3>1. Await(x) = Await(j)
      BY <1>3, <2>3 DEF Await
    <3>2. Await(x)' = Await(x)
      BY DEF Await
    <3>3. QED
      BY <1>2, <2>3, <3>1, <3>2 DEF PutOK, CheckOK, Listings
  <2>10. ListingOK(x)'
    BY <1>2, <1>3, <2>3, <2>4, <2>7 DEF CallOK, ListingOK, Existing
  <2>11. QED
    BY <2>5, <2>7, <2>8, <2>9, <2>10, QuietStep DEF CallOK, LifeInvariant, RecordsFirst
<1>6. QED
  BY <1>4, <1>5

LEMMA HostDiesKeeps ==
    ASSUME LifeInvariant, HostDies
    PROVE  LifeInvariant'
<1>1. CallsOK' /\ DOMAIN hand' = Hands
  BY DEF HostDies, CallsOK, Busy
<1>2. \A c : Holds(c)' = Holds(c)
  BY DEF HostDies, Holds, Left
<1>3. LedgersKept' /\ RecordsFirst' /\ LifeTypeOK'
  BY <1>1, <1>2 DEF HostDies, LifeInvariant, LedgersKept, RecordsFirst, LifeTypeOK
<1>4. QED
  BY <1>1, <1>3 DEF LifeInvariant

\* A read that finds a bare value to move.
LEMMA LookKeeps ==
    ASSUME LifeInvariant, NEW h \in Hands, NEW j, j = hand[h], j # AtRest, ~j.moving,
           Await(j).do = "read", NEW c, c = Await(j).of, cell[c] = Unset, Left(c) # Unset,
           NEW x, NEW o,
           x = [kind |-> j.kind, arg |-> j.arg, step |-> j.step, moving |-> TRUE,
                held |-> Left(c), owed |-> o, got |-> j.got],
           j.kind \in Listings => o = ToSet(told[c]),
           UNCHANGED <<age, cell, recorded, engraved, told, crossed, charged>>
    PROVE  CallOK(x)'
<1>1. CallOK(j) /\ StepFacts(j.kind, j.step) /\ c \in Cells
  BY CallIs DEF StepFacts, Await
<1>2. /\ x.kind = j.kind /\ x.arg = j.arg /\ x.step = j.step /\ x.moving = TRUE
      /\ x.held = Left(c) /\ x.owed = o /\ x.got = j.got
      /\ x = [kind |-> x.kind, arg |-> x.arg, step |-> x.step, moving |-> x.moving,
              held |-> x.held, owed |-> x.owed, got |-> x.got]
  BY Zenon
<1>3. Await(x) = Await(j) /\ Await(x)' = Await(x)
  BY <1>2 DEF Await
<1>4. Left(c)' = Left(c)
  BY DEF Left
<1>5. ~(j.kind = "forge" /\ j.step = 2)
  <2>1. SUFFICES ASSUME j.kind = "forge", j.step = 2
                 PROVE  FALSE
    OBVIOUS
  <2>2. c = "purse"
    BY <2>1, ScriptSteps, Kinds DEF Await
  <2>3. QED
    BY <1>1, <2>1, <2>2 DEF CallOK, Deeds
<1>6. CallShape(x)'
  BY <1>1, <1>2 DEF CallOK, CallShape
<1>7. Deeds(x)'
  <2>1. Deeds(j)' = Deeds(j)
    BY DEF Deeds, Left
  <2>2. QED
    BY <1>1, <1>2, <2>1 DEF CallOK, Deeds
<1>8. MoveOK(x)'
  <2>1. c \notin crossed /\ j.kind \in Listings => o = ToSet(Left(c))
    <3>1. Holds(c) = Left(c)
      BY <1>1, ValuesAre DEF LifeInvariant
    <3>2. QED
      BY <1>1, <3>1 DEF LifeInvariant, LedgersKept
  <2>2. QED
    BY <1>1, <1>2, <1>3, <1>4, <1>5, <2>1 DEF MoveOK
<1>9. PutOK(x)' /\ CheckOK(x)'
  BY <1>2, <1>3, <1>5 DEF PutOK, CheckOK
<1>10. ListingOK(x)'
  <2>1. j.kind \in Listings => j.step = 1
    BY <1>1 DEF StepFacts, Await
  <2>2. QED
    BY <1>1, <1>2, <2>1 DEF CallOK, ListingOK
<1>11. QED
  BY <1>6, <1>7, <1>8, <1>9, <1>10 DEF CallOK

LEMMA ReadCellKeeps ==
    ASSUME LifeInvariant, NEW h \in Hands, ReadCell(h)
    PROVE  LifeInvariant'
<1>1. PICK j : j = hand[h]
  OBVIOUS
<1>2. PICK c : c = Step(h).of
  OBVIOUS
<1>3. /\ j # AtRest /\ ~j.moving /\ Await(j).do = "read" /\ Await(j).of = c
      /\ CallOK(j) /\ StepFacts(j.kind, j.step) /\ c \in Cells
  BY <1>1, <1>2, CallIs DEF ReadCell, IsAt, StepFacts, Await
<1>4. UNCHANGED <<age, cell, recorded, engraved, told, crossed, charged>>
  BY DEF ReadCell
<1>5. PICK o : o = IF j.kind \in Listings THEN ToSet(told[c]) ELSE j.owed
  OBVIOUS
<1>6. hand' = IF j.kind \in Listings THEN [Look(h, c, Left(c)) EXCEPT ![h].owed = o]
              ELSE Look(h, c, Left(c))
  BY <1>1, <1>2, <1>5 DEF ReadCell, Listing, Listings
<1>7. j = [kind |-> j.kind, arg |-> j.arg, step |-> j.step, moving |-> j.moving,
           held |-> j.held, owed |-> j.owed, got |-> j.got]
  BY <1>3 DEF CallOK, CallShape
<1>8. DOMAIN hand = Hands
  BY DEF LifeInvariant, LifeTypeOK
<1>9. CASE cell[c] = Unset /\ Left(c) # Unset
  <2>1. PICK x : x = [kind |-> j.kind, arg |-> j.arg, step |-> j.step, moving |-> TRUE,
                      held |-> Left(c), owed |-> o, got |-> j.got]
    OBVIOUS
  <2>2. CallOK(x)'
    BY <1>1, <1>3, <1>4, <1>5, <1>9, <2>1, LookKeeps
  <2>3. PICK y : y = [j EXCEPT !.moving = TRUE]
    OBVIOUS
  <2>4. PICK z : z = [y EXCEPT !.held = Left(c)]
    OBVIOUS
  <2>5. z = [kind |-> j.kind, arg |-> j.arg, step |-> j.step, moving |-> TRUE,
             held |-> Left(c), owed |-> j.owed, got |-> j.got]
    <3>1. ASSUME NEW m, NEW u, u = [j EXCEPT !.moving = m]
          PROVE  [u EXCEPT !.held = Left(c)] =
                     [kind |-> j.kind, arg |-> j.arg, step |-> j.step, moving |-> m,
                      held |-> Left(c), owed |-> j.owed, got |-> j.got]
      <4>1. u = [kind |-> j.kind, arg |-> j.arg, step |-> j.step, moving |-> m,
                 held |-> j.held, owed |-> j.owed, got |-> j.got]
        BY <1>7, <3>1
      <4>2. QED
        BY <4>1
    <3>2. QED
      BY <2>3, <2>4, <3>1, Zenon
  <2>6. Look(h, c, Left(c)) = [hand EXCEPT ![h] = z]
    BY <1>1, <1>8, <1>9, <2>3, <2>4 DEF Look
  <2>7. hand' = [hand EXCEPT ![h] = x]
    <3>1. CASE j.kind \in Listings
      <4>1. [z EXCEPT !.owed = o] = x
        <5>1. ASSUME NEW m, NEW u, u = [kind |-> j.kind, arg |-> j.arg, step |-> j.step,
                     moving |-> m, held |-> Left(c), owed |-> j.owed, got |-> j.got]
              PROVE  [u EXCEPT !.owed = o] =
                         [kind |-> j.kind, arg |-> j.arg, step |-> j.step, moving |-> m,
                          held |-> Left(c), owed |-> o, got |-> j.got]
          BY <5>1
        <5>2. QED
          BY <2>1, <2>5, <5>1, Zenon
      <4>2. hand' = [hand EXCEPT ![h] = [z EXCEPT !.owed = o]]
        BY <1>6, <1>8, <2>6, <3>1
      <4>3. QED
        BY <4>1, <4>2
    <3>2. CASE j.kind \notin Listings
      <4>1. x = z
        BY <1>5, <2>1, <2>5, <3>2, Zenon
      <4>2. QED
        BY <1>6, <2>6, <3>2, <4>1
    <3>3. QED
      BY <3>1, <3>2
  <2>8. QED
    BY <1>4, <2>2, <2>7, QuietStep DEF LifeInvariant, RecordsFirst
<1>10. CASE ~(cell[c] = Unset /\ Left(c) # Unset)
  <2>1. PICK v : v = Found(h, c)
    OBVIOUS
  <2>2. PICK x : x = Onward(j, v, o)
    OBVIOUS
  <2>3. LifeGrows
    BY <1>4 DEF LifeGrows
  <2>4. Holds(c) = Or(cell[c], c) /\ Holds(c)' = Holds(c) /\ Holds(c) \in ValuesOf(c)
    <3>1. Holds(c)' = Holds(c)
      BY <1>4 DEF Holds, Left
    <3>2. QED
      BY <1>3, <1>10, <3>1, ValuesAre DEF LifeInvariant
  <2>5. j.kind = "backfill" => c = "purse"
    <3>1. Awaits["backfill"][1] = Read("purse") /\ Awaits["backfill"][2] = Put("purse")
          /\ Len(Awaits["backfill"]) = 2
      BY ScriptSteps
    <3>2. j.step \in 1..Len(Awaits[j.kind])
      BY <1>3 DEF CallOK, CallShape
    <3>3. ASSUME j.kind = "backfill"
          PROVE  j.step \in {1, 2}
      <4>1. j.step \in 1..2
        BY <3>1, <3>2, <3>3
      <4>2. QED
        BY <4>1
    <3>4. QED
      BY <1>3, <3>1, <3>3, Kinds DEF Await
  <2>6. IF j.kind = "backfill"
        THEN v = Unset => Left("purse") = Unset /\ cell'["purse"] = Unset
        ELSE v \in ValuesOf(c) /\ (c \notin crossed => v = Holds(c)')
    BY <1>1, <1>4, <1>10, <2>1, <2>4, <2>5 DEF Found
  <2>7. (c = "npcs" => ToSet(v) \subseteq recorded) /\ (c = "works" => ToSet(v) \subseteq engraved)
    BY <1>1, <2>1, <2>4, <2>5 DEF Found, LifeInvariant, RecordsFirst
  <2>8. j.kind = "forge" => j.step \in {1, 2, 5}
    BY <1>3 DEF StepFacts, Await
  <2>9. j.kind = "forge" /\ j.step \in {1, 2} => c = "purse"
    BY <1>3, ScriptSteps, Kinds DEF Await
  <2>10. j.kind = "forge" /\ j.step = 1 => cell'["purse"] # Unset \/ Left("purse") = Unset
    BY <1>4, <1>10, <2>9
  <2>11. j.kind = "forge" /\ j.step = 2 /\ c \notin crossed => v >= Cost
    <3>1. SUFFICES ASSUME j.kind = "forge", j.step = 2, c \notin crossed
                   PROVE  v >= Cost
      OBVIOUS
    <3>2. c = "purse" /\ j.held \in Int /\ j.held = Holds("purse")
      BY <1>3, <2>9, <3>1 DEF CallOK, CheckOK
    <3>3. v = Holds("purse")
      BY <1>1, <2>1, <2>4, <3>1, <3>2 DEF Found
    <3>4. ~(j.held < Cost)
      BY <1>1, <3>1 DEF ReadCell, Poor
    <3>5. QED
      BY <3>2, <3>3, <3>4, LifeAssumption
  <2>12. j.kind \in Listings /\ c \notin crossed => o = ToSet(v)
    BY <1>1, <1>3, <1>5, <2>1, <2>4 DEF Found, LifeInvariant, LedgersKept, Listings
  <2>13. j.step # Len(Awaits[j.kind]) /\ CallOK(Onward(j, v, o))'
    BY <1>1, <1>3, <1>4, <2>3, <2>6, <2>7, <2>10, <2>11, <2>12, ReadsOn
  <2>14. CallOK(x)'
    BY <2>2, <2>13
  <2>15. Look(h, c, Left(c)) = [hand EXCEPT ![h] = Onward(j, v, j.owed)]
    BY <1>1, <1>3, <1>10, <2>1, <2>13, AdvancedIs DEF Look, After
  <2>16. hand' = [hand EXCEPT ![h] = x]
    <3>1. CASE j.kind \in Listings
      <4>1. [Onward(j, v, j.owed) EXCEPT !.owed = o] = Onward(j, v, o)
        <5>1. ASSUME NEW m, NEW u, u = [kind |-> j.kind, arg |-> j.arg, step |-> j.step + 1,
                     moving |-> m, held |-> v, owed |-> j.owed, got |-> j.got]
              PROVE  [u EXCEPT !.owed = o] =
                         [kind |-> j.kind, arg |-> j.arg, step |-> j.step + 1,
                          moving |-> m, held |-> v, owed |-> o, got |-> j.got]
          BY <5>1
        <5>2. QED
          BY <5>1, Zenon DEF Onward
      <4>2. hand' = [hand EXCEPT ![h] = [Onward(j, v, j.owed) EXCEPT !.owed = o]]
        BY <1>6, <1>8, <2>15, <3>1
      <4>3. QED
        BY <2>2, <4>1, <4>2
    <3>2. CASE j.kind \notin Listings
      BY <1>5, <1>6, <2>2, <2>15, <3>2
    <3>3. QED
      BY <3>1, <3>2
  <2>17. QED
    BY <1>4, <2>14, <2>16, QuietStep DEF LifeInvariant, RecordsFirst
<1>11. QED
  BY <1>9, <1>10

-----------------------------------------------------------------------------
\* A step of one call that writes one cell.
LEMMA CellStep ==
    ASSUME LifeInvariant, LifeGrows, NEW h \in Hands, NEW x,
           hand' = [hand EXCEPT ![h] = x], x = AtRest \/ CallOK(x)',
           NEW c \in Cells, NEW v \in ValuesOf(c), NEW t \in ValuesOf(c),
           cell' = [cell EXCEPT ![c] = v], DOMAIN told' = Cells, told'[c] = t,
           \A d \in Cells \ {c} : told'[d] = told[d],
           crossed' \subseteq crossed \cup {c}, c \notin crossed' => t = v,
           \A g \in Hands \ {h} : hand[g] # AtRest => CellFor(g, c),
           c = "npcs" => ToSet(v) \subseteq recorded,
           c = "works" => ToSet(v) \subseteq engraved,
           UNCHANGED <<recorded, engraved>>
    PROVE  LifeInvariant'
<1>1. DOMAIN cell = Cells
  BY DEF LifeInvariant, LifeTypeOK
<1>2. /\ DOMAIN cell' = Cells /\ DOMAIN told' = Cells /\ cell'[c] = v /\ told'[c] = t
      /\ \A d \in Cells \ {c} : cell'[d] = cell[d] /\ told'[d] = told[d]
  BY <1>1
<1>3. \A g \in Hands \ {h} : hand[g] # AtRest => \A d \in Cells : CellFor(g, d)
  BY <1>2 DEF CellFor
<1>4. CallsOK' /\ DOMAIN hand' = Hands
  BY <1>3, HandChanged
<1>5. v # Unset
  BY ValuesAre DEF LifeInvariant
<1>6. Holds(c)' = v
  BY <1>2, <1>5 DEF Holds, Or
<1>7. ASSUME NEW d \in Cells \ {c}
      PROVE  Holds(d)' = Holds(d)
  BY <1>2, LeftStays DEF Holds
<1>8. LedgersKept'
  <2>1. ASSUME NEW d \in Cells, d \notin crossed'
        PROVE  Holds(d)' = told'[d]
    <3>1. CASE d = c
      BY <1>2, <1>6, <2>1, <3>1
    <3>2. CASE d # c
      BY <1>2, <1>7, <2>1, <3>2 DEF LifeInvariant, LedgersKept, LifeGrows
    <3>3. QED
      BY <3>1, <3>2
  <2>2. QED
    BY <2>1 DEF LedgersKept
<1>9. RecordsFirst'
  <2>1. "npcs" \in Cells /\ "works" \in Cells
    BY DEF Cells, Lists
  <2>2. ToSet(Holds("npcs")') \subseteq recorded
    <3>1. CASE c = "npcs"
      BY <1>6, <3>1
    <3>2. CASE c # "npcs"
      BY <1>7, <2>1, <3>2 DEF LifeInvariant, RecordsFirst
    <3>3. QED
      BY <3>1, <3>2
  <2>3. ToSet(Holds("works")') \subseteq engraved
    <3>1. CASE c = "works"
      BY <1>6, <3>1
    <3>2. CASE c # "works"
      BY <1>7, <2>1, <3>2 DEF LifeInvariant, RecordsFirst
    <3>3. QED
      BY <3>1, <3>2
  <2>4. QED
    BY <2>2, <2>3 DEF RecordsFirst, LifeInvariant, LifeGrows
<1>10. LifeTypeOK'
  <2>1. ASSUME NEW d \in Cells
        PROVE  cell'[d] \in ValuesOf(d) \cup {Unset} /\ told'[d] \in ValuesOf(d)
    <3>1. CASE d = c
      BY <1>2, <3>1
    <3>2. CASE d # c
      BY <1>2, <3>2 DEF LifeInvariant, LifeTypeOK
    <3>3. QED
      BY <3>1, <3>2
  <2>2. QED
    BY <1>2, <1>4, <2>1 DEF LifeInvariant, LifeTypeOK, LifeGrows
<1>11. QED
  BY <1>4, <1>8, <1>9, <1>10 DEF LifeInvariant

LEMMA MoveBareKeeps ==
    ASSUME LifeInvariant, NEW h \in Hands, MoveBare(h)
    PROVE  LifeInvariant'
<1>1. PICK j : j = hand[h]
  OBVIOUS
<1>2. PICK c : c = Step(h).of
  OBVIOUS
<1>3. /\ j # AtRest /\ j.moving /\ Await(j).do = "read" /\ Await(j).of = c
      /\ CallOK(j) /\ StepFacts(j.kind, j.step)
  BY <1>1, <1>2, CallIs DEF MoveBare, IsAt
<1>4. PICK v : v = j.held
  OBVIOUS
<1>5. PICK t : t = told[c]
  OBVIOUS
<1>6. /\ c \in Cells /\ v = Left(c) /\ v # Unset
      /\ c \notin crossed => cell[c] \in {Unset, v}
      /\ ~(j.kind = "forge" /\ j.step = 2)
      /\ j.kind \in Listings /\ c \notin crossed => j.owed = ToSet(v)
  BY <1>3, <1>4 DEF CallOK, MoveOK
<1>7. /\ cell' = [cell EXCEPT ![c] = v] /\ hand' = Advanced(h, v)
      /\ UNCHANGED <<age, recorded, engraved, told, crossed, charged>>
  BY <1>1, <1>2, <1>4 DEF MoveBare
<1>8. LifeGrows
  BY <1>7 DEF LifeGrows
<1>9. v \in ValuesOf(c) /\ t \in ValuesOf(c)
  BY <1>5, <1>6, ValuesAre DEF LifeInvariant, LifeTypeOK
<1>10. DOMAIN cell = Cells /\ DOMAIN told = Cells
  BY DEF LifeInvariant, LifeTypeOK
<1>11. /\ cell'[c] = v /\ DOMAIN told' = Cells /\ told'[c] = t
       /\ \A d \in Cells \ {c} : told'[d] = told[d]
  BY <1>5, <1>6, <1>7, <1>10
<1>12. Holds(c)' = v
  BY <1>6, <1>11 DEF Holds, Or
<1>13. c \notin crossed => t = v
  <2>1. c \notin crossed => Holds(c) = v
    BY <1>6, <1>9 DEF Holds, Or
  <2>2. QED
    BY <1>5, <1>6, <2>1 DEF LifeInvariant, LedgersKept
<1>14. (c = "npcs" => ToSet(v) \subseteq recorded) /\ (c = "works" => ToSet(v) \subseteq engraved)
  <2>1. age.pal /\ v = age.left[c]
    BY <1>6 DEF Left
  <2>2. ASSUME c = "npcs"
        PROVE  ToSet(v) \subseteq recorded
    <3>1. v = age.left.npcs /\ age.left.npcs # Unset
      BY <1>6, <2>1, <2>2
    <3>2. QED
      BY <3>1, LifeAssumption DEF LifeInvariant, LifeTypeOK
  <2>3. ASSUME c = "works"
        PROVE  ToSet(v) \subseteq engraved
    <3>1. v = age.left.works
      BY <2>1, <2>3
    <3>2. v = <<>>
      BY <1>6, <3>1, LifeAssumption DEF LifeInvariant, LifeTypeOK
    <3>3. ToSet(v) = {}
      BY <3>2 DEF ToSet
    <3>4. QED
      BY <3>3
  <2>4. QED
    BY <2>2, <2>3
<1>15. cell'["purse"] = Unset => cell["purse"] = Unset
  BY <1>6, <1>7, <1>10
<1>16. IF j.kind = "backfill"
       THEN v = Unset => Left("purse") = Unset /\ cell'["purse"] = Unset
       ELSE v \in ValuesOf(c) /\ (c \notin crossed => v = Holds(c)')
  BY <1>6, <1>9, <1>12
<1>17. j.kind = "forge" /\ j.step = 1 => cell'["purse"] # Unset \/ Left("purse") = Unset
  <2>1. j.kind = "forge" /\ j.step = 1 => c = "purse"
    BY <1>3, ScriptSteps, Kinds DEF Await
  <2>2. QED
    BY <1>6, <1>11, <2>1
<1>18. j.step # Len(Awaits[j.kind]) /\ CallOK(Onward(j, v, j.owed))'
  <2>1. UNCHANGED <<recorded, engraved, crossed>>
    BY <1>7
  <2>2. j.kind = "forge" /\ j.step = 2 /\ c \notin crossed => v >= Cost
    BY <1>6
  <2>3. PICK o : o = j.owed
    OBVIOUS
  <2>4. j.kind \in Listings /\ c \notin crossed => o = ToSet(v)
    BY <1>6, <2>3
  <2>5. c = "npcs" => ToSet(v) \subseteq recorded
    BY <1>14
  <2>6. c = "works" => ToSet(v) \subseteq engraved
    BY <1>14
  <2>7. j.step # Len(Awaits[j.kind]) /\ CallOK(Onward(j, v, o))'
    BY <1>1, <1>3, <1>8, <1>15, <1>16, <1>17, <2>1, <2>2, <2>4, <2>5, <2>6, ReadsOn, Zenon
  <2>8. QED
    BY <2>3, <2>7
<1>19. PICK x : x = Onward(j, v, j.owed)
  OBVIOUS
<1>20. hand' = [hand EXCEPT ![h] = x] /\ CallOK(x)'
  BY <1>1, <1>3, <1>7, <1>18, <1>19, AdvancedIs DEF After
<1>21. \A g \in Hands \ {h} : hand[g] # AtRest => CellFor(g, c)
  BY <1>6, <1>11 DEF CellFor
<1>22. QED
  BY <1>6, <1>7, <1>8, <1>9, <1>11, <1>13, <1>14, <1>20, <1>21, CellStep

\* What a write of its own makes of the cell it was read from.
LEMMA WrittenIs ==
    ASSUME NEW c \in Cells, NEW v \in ValuesOf(c), NEW x \in Entries
    PROVE  /\ Written(c, v, x) \in ValuesOf(c) /\ TrulyWritten(c, v, x) \in ValuesOf(c)
           /\ (c = "purse" => v >= Cost) => TrulyWritten(c, v, x) = Written(c, v, x)
           /\ c \in {"npcs", "works"} => ToSet(Written(c, v, x)) \subseteq ToSet(v) \cup {x}
<1>1. CASE c = "purse"
  <2>1. v \in Int /\ Cost \in Nat
    BY <1>1, LifeAssumption DEF ValuesOf
  <2>2. Written(c, v, x) = Max({0, v - Cost}) /\ TrulyWritten(c, v, x) = v - Cost
    BY <1>1 DEF Written, TrulyWritten
  <2>3. Max({0, v - Cost}) \in Int /\ (v >= Cost => Max({0, v - Cost}) = v - Cost)
    <3>1. PICK n : n = v - Cost
      OBVIOUS
    <3>2. n \in Int /\ (v >= Cost => n >= 0)
      BY <2>1, <3>1
    <3>3. Max({0, n}) \in {0, n} /\ Max({0, n}) >= 0 /\ Max({0, n}) >= n
      BY <3>2, MaxOfTwo
    <3>4. QED
      BY <3>1, <3>2, <3>3
  <2>4. QED
    BY <1>1, <2>1, <2>2, <2>3 DEF ValuesOf
<1>2. CASE c # "purse"
  <2>1. v \in Seq(Entries) /\ Append(v, x) \in Seq(Entries)
    BY <1>2 DEF ValuesOf
  <2>2. CASE c \in {"npcs", "works"}
    <3>1. Written(c, v, x) = Once(v, x)
      BY <2>2 DEF Written
    <3>2. ToSet(Append(v, x)) \subseteq ToSet(v) \cup {x}
      BY <2>1 DEF ToSet
    <3>3. QED
      BY <1>2, <2>1, <3>1, <3>2 DEF Once, ValuesOf, TrulyWritten
  <2>3. CASE c \notin {"npcs", "works"}
    <3>1. c \in {"diary", "log", "thoughts"}
      BY <1>2, <2>3 DEF Cells, Lists
    <3>2. Written(c, v, x) = Latest(Append(v, x))
      BY <2>3, <3>1 DEF Written
    <3>3. PICK s : s = Append(v, x)
      OBVIOUS
    <3>4. PICK m : m = Max({1, Len(s) - Pages + 1})
      OBVIOUS
    <3>5. s \in Seq(Entries) /\ Len(s) \in Nat
      BY <2>1, <3>3
    <3>6. m \in Int /\ m >= 1
      <4>1. PICK n : n = Len(s) - Pages + 1
        OBVIOUS
      <4>2. n \in Int
        BY <3>5, <4>1, LifeAssumption
      <4>3. Max({1, n}) \in {1, n} /\ Max({1, n}) >= 1
        BY <4>2, MaxOfTwo
      <4>4. QED
        BY <3>4, <4>1, <4>2, <4>3
    <3>7. SubSeq(s, m, Len(s)) \in Seq(Entries)
      BY <3>5, <3>6
    <3>8. QED
      BY <1>2, <2>3, <3>2, <3>3, <3>4, <3>7 DEF Latest, ValuesOf, TrulyWritten
  <2>4. QED
    BY <2>2, <2>3
<1>3. QED
  BY <1>1, <1>2

\* Whoever held the cell sees that updates crossed.
LEMMA OthersSee ==
    ASSUME NEW h \in Hands, NEW c, crossed' = Crossing(h, c), cell'[c] # Unset
    PROVE  /\ crossed \subseteq crossed' /\ crossed' \subseteq crossed \cup {c}
           /\ \A g \in Hands \ {h} : CellFor(g, c)
BY DEF Crossing, CellFor

LEMMA PutCellKeeps ==
    ASSUME LifeInvariant, NEW h \in Hands, PutCell(h)
    PROVE  LifeInvariant'
<1>1. PICK j : j = hand[h]
  OBVIOUS
<1>2. PICK c : c = Step(h).of
  OBVIOUS
<1>3. /\ j # AtRest /\ j.kind # "backfill" /\ Await(j).do = "put" /\ Await(j).of = c
      /\ CallOK(j) /\ StepFacts(j.kind, j.step)
  BY <1>1, <1>2, CallIs DEF PutCell, IsAt
<1>4. /\ c \in Cells /\ j.held \in ValuesOf(c) /\ j.arg \in Entries
      /\ c \notin crossed => j.held = Holds(c)
      /\ c = "npcs" => ToSet(j.held) \subseteq recorded
      /\ c = "works" => ToSet(j.held) \subseteq engraved
      /\ c = "purse" /\ c \notin crossed => j.held >= Cost
  BY <1>3 DEF StepFacts, Await, CallOK, CallShape, PutOK
<1>5. told[c] \in ValuesOf(c) /\ DOMAIN cell = Cells /\ DOMAIN told = Cells
  BY <1>4 DEF LifeInvariant, LifeTypeOK
<1>6. PICK v : v = Written(c, j.held, j.arg)
  OBVIOUS
<1>7. PICK t : t = TrulyWritten(c, told[c], j.arg)
  OBVIOUS
<1>8. v \in ValuesOf(c) /\ t \in ValuesOf(c)
  BY <1>4, <1>5, <1>6, <1>7, WrittenIs
<1>9. /\ cell' = [cell EXCEPT ![c] = v] /\ told' = [told EXCEPT ![c] = t]
      /\ crossed' = Crossing(h, c)
      /\ charged' = IF c = "purse" THEN charged \cup {j.arg} ELSE charged
      /\ hand' = Advanced(h, <<>>)
      /\ UNCHANGED <<age, recorded, engraved>>
  BY <1>1, <1>2, <1>6, <1>7 DEF PutCell
<1>10. /\ cell'[c] = v /\ DOMAIN told' = Cells /\ told'[c] = t
       /\ \A d \in Cells \ {c} : told'[d] = told[d]
       /\ \A d \in Cells \ {c} : cell'[d] = cell[d]
  BY <1>4, <1>5, <1>9
<1>11. v # Unset
  BY <1>4, <1>8, ValuesAre DEF LifeInvariant
<1>12. /\ crossed \subseteq crossed' /\ crossed' \subseteq crossed \cup {c}
       /\ \A g \in Hands \ {h} : CellFor(g, c)
  BY <1>9, <1>10, <1>11, OthersSee
<1>13. LifeGrows
  BY <1>9, <1>12 DEF LifeGrows
<1>14. c \notin crossed' => t = v
  <2>1. SUFFICES ASSUME c \notin crossed
                 PROVE  t = v
    BY <1>12
  <2>2. told[c] = j.held
    BY <1>4, <2>1 DEF LifeInvariant, LedgersKept
  <2>3. QED
    BY <1>4, <1>6, <1>7, <2>1, <2>2, WrittenIs
<1>15. c = "npcs" => ToSet(v) \subseteq recorded
  <2>1. c = "npcs" => j.kind \in {"create", "activate"} /\ j.step >= 2
    BY <1>3 DEF StepFacts, Await
  <2>2. c = "npcs" => j.arg \in recorded
    BY <1>3, <2>1 DEF CallOK, Deeds
  <2>3. QED
    BY <1>4, <1>6, <2>2, WrittenIs
<1>16. c = "works" => ToSet(v) \subseteq engraved
  <2>1. c = "works" => j.kind = "forge" /\ j.step = 6
    BY <1>3 DEF StepFacts, Await
  <2>2. c = "works" => j.arg \in engraved
    BY <1>3, <2>1 DEF CallOK, Deeds
  <2>3. QED
    BY <1>4, <1>6, <2>2, WrittenIs
<1>17. j.kind = "forge" /\ j.step = 3 => j.arg \in charged'
  <2>1. j.kind = "forge" /\ j.step = 3 => c = "purse"
    BY <1>3, ScriptSteps, Kinds DEF Await
  <2>2. QED
    BY <1>9, <2>1
<1>18. cell'["purse"] = Unset => cell["purse"] = Unset
  <2>1. "purse" \in Cells
    BY DEF Cells
  <2>2. QED
    BY <1>10, <1>11, <2>1
<1>19. PICK x : x = After(j, <<>>)
  OBVIOUS
<1>20. After(j, <<>>) = AtRest \/ CallOK(After(j, <<>>))'
  BY <1>1, <1>3, <1>13, <1>17, <1>18, GoesOn
<1>21. hand' = [hand EXCEPT ![h] = x] /\ (x = AtRest \/ CallOK(x)')
  BY <1>1, <1>3, <1>9, <1>19, <1>20, AdvancedIs
<1>22. UNCHANGED <<recorded, engraved>>
  BY <1>9
<1>23. QED
  BY <1>4, <1>8, <1>9, <1>10, <1>12, <1>13, <1>14, <1>15, <1>16, <1>21, <1>22, CellStep

\* A new purse: backfillSilver() and createNpc().
LEMMA PurseKeeps ==
    ASSUME LifeInvariant, NEW h \in Hands, hand[h] # AtRest, hand' = Advanced(h, <<>>),
           Step(h).do \in {"put", "open"},
           hand[h].kind = "forge" => hand[h].step # 3,
           NEW t \in Int, "purse" \notin crossed' => t = Start,
           cell' = [cell EXCEPT !["purse"] = Start], told' = [told EXCEPT !["purse"] = t],
           crossed' = Crossing(h, "purse"),
           UNCHANGED <<age, recorded, engraved, charged>>
    PROVE  LifeInvariant'
<1>1. PICK j : j = hand[h]
  OBVIOUS
<1>2. PICK v : v = Start
  OBVIOUS
<1>3. "purse" \in Cells /\ v \in Int /\ DOMAIN cell = Cells /\ DOMAIN told = Cells
  BY <1>2, LifeAssumption DEF Cells, LifeInvariant, LifeTypeOK
<1>4. v \in ValuesOf("purse") /\ t \in ValuesOf("purse") /\ v # Unset
  BY <1>3, ValuesAre DEF LifeInvariant, ValuesOf
<1>5. /\ cell'["purse"] = v /\ DOMAIN told' = Cells /\ told'["purse"] = t
      /\ \A d \in Cells \ {"purse"} : told'[d] = told[d]
  BY <1>2, <1>3
<1>6. /\ crossed \subseteq crossed' /\ crossed' \subseteq crossed \cup {"purse"}
      /\ \A g \in Hands \ {h} : CellFor(g, "purse")
  BY <1>4, <1>5, OthersSee
<1>7. LifeGrows
  BY <1>6 DEF LifeGrows
<1>8. Step(h) = Await(j)
  BY <1>1, CallIs
<1>9. PICK x : x = After(j, <<>>)
  OBVIOUS
<1>10. After(j, <<>>) = AtRest \/ CallOK(After(j, <<>>))'
  BY <1>1, <1>4, <1>5, <1>7, <1>8, GoesOn
<1>11. hand' = [hand EXCEPT ![h] = x] /\ (x = AtRest \/ CallOK(x)')
  BY <1>1, <1>9, <1>10, AdvancedIs
<1>12. cell' = [cell EXCEPT !["purse"] = v] /\ ("purse" \notin crossed' => t = v)
  BY <1>2
<1>13. UNCHANGED <<recorded, engraved>>
  OBVIOUS
<1>14. ("purse" = "npcs" => ToSet(v) \subseteq recorded) /\ ("purse" = "works" => ToSet(v) \subseteq engraved)
  OBVIOUS
<1>15. PICK c : c = "purse"
  OBVIOUS
<1>16. QED
  BY <1>3, <1>4, <1>5, <1>6, <1>7, <1>11, <1>12, <1>13, <1>14, CellStep

LEMMA BackfillKeeps ==
    ASSUME LifeInvariant, NEW h \in Hands, Backfill(h)
    PROVE  LifeInvariant'
<1>1. /\ hand[h] # AtRest /\ Step(h).do = "put" /\ hand[h].kind = "backfill"
      /\ CallOK(hand[h]) /\ Step(h) = Await(hand[h])
  BY CallIs DEF Backfill, IsAt
<1>2. CASE hand[h].held = Unset
  <2>1. PICK t : t = IF cell["purse"] = Unset THEN Start ELSE told["purse"]
    OBVIOUS
  <2>2. told' = [told EXCEPT !["purse"] = t]
    BY <1>2, <2>1 DEF Backfill
  <2>3. "purse" \in Cells
    BY DEF Cells
  <2>4. t \in Int
    BY <2>1, <2>3, LifeAssumption DEF LifeInvariant, LifeTypeOK, ValuesOf
  <2>5. "purse" \notin crossed => cell["purse"] = Unset
    BY <1>1, <1>2 DEF CallOK, PutOK
  <2>6. crossed' = Crossing(h, "purse")
    BY <1>2 DEF Backfill
  <2>7. "purse" \notin crossed' => t = Start
    BY <2>1, <2>5, <2>6 DEF Crossing
  <2>8. QED
    BY <1>1, <1>2, <2>2, <2>4, <2>6, <2>7, PurseKeeps DEF Backfill
<1>3. CASE hand[h].held # Unset
  BY <1>1, <1>3, DeedKeeps DEF Backfill, LifeInvariant, RecordsFirst
<1>4. QED
  BY <1>2, <1>3

LEMMA OpenPurseKeeps ==
    ASSUME LifeInvariant, NEW h \in Hands, OpenPurse(h)
    PROVE  LifeInvariant'
<1>1. hand[h] # AtRest /\ Step(h).do = "open" /\ Step(h) = Await(hand[h])
      /\ StepFacts(hand[h].kind, hand[h].step)
  BY CallIs DEF OpenPurse, IsAt
<1>2. hand[h].kind # "forge"
  BY <1>1 DEF StepFacts, Await
<1>3. CASE hand[h].arg = age.resident
  <2>1. PICK t : t = Start
    OBVIOUS
  <2>2. t \in Int
    BY <2>1, LifeAssumption
  <2>3. told' = [told EXCEPT !["purse"] = t]
    BY <1>3, <2>1 DEF OpenPurse
  <2>4. QED
    BY <1>1, <1>2, <1>3, <2>1, <2>2, <2>3, PurseKeeps DEF OpenPurse
<1>4. CASE hand[h].arg # age.resident
  BY <1>1, <1>2, <1>4, DeedKeeps DEF OpenPurse, LifeInvariant, RecordsFirst
<1>5. QED
  BY <1>3, <1>4

-----------------------------------------------------------------------------
LEMMA LifeStarts == ASSUME LifeInit PROVE LifeInvariant
<1>1. CallsOK /\ DOMAIN hand = Hands
  BY DEF LifeInit, CallsOK, Busy
<1>2. ASSUME NEW c \in Cells
      PROVE  cell[c] = Unset /\ told[c] = Holds(c)
  BY DEF LifeInit
<1>3. ASSUME NEW c \in Cells
      PROVE  Left(c) \in ValuesOf(c) \cup {Unset} /\ Holds(c) = Or(Left(c), c)
             /\ Holds(c) \in ValuesOf(c)
  <2>1. Left(c) \in ValuesOf(c) \cup {Unset}
    BY LifeAssumption DEF LifeInit, Left
  <2>2. Holds(c) = Or(Left(c), c)
    BY <1>2 DEF Holds
  <2>3. CASE Left(c) = Unset
    <3>1. <<>> \in Seq(Entries) /\ 0 \in Int
      OBVIOUS
    <3>2. CASE c = "purse"
      BY <2>2, <2>3, <3>1, <3>2 DEF Or, ValuesOf
    <3>3. CASE c # "purse"
      BY <2>2, <2>3, <3>1, <3>3 DEF Or, ValuesOf
    <3>4. QED
      BY <2>1, <2>2, <3>2, <3>3
  <2>4. CASE Left(c) # Unset
    BY <2>1, <2>2, <2>4 DEF Or
  <2>5. QED
    BY <2>1, <2>2, <2>3, <2>4
<1>4. LifeTypeOK
  BY <1>1, <1>2, <1>3 DEF LifeInit, LifeTypeOK
<1>5. LedgersKept
  BY <1>2 DEF LedgersKept
<1>6. RecordsFirst
  <2>1. "npcs" \in Cells /\ "works" \in Cells
    BY DEF Cells, Lists
  <2>2. ToSet(<<>>) = {}
    BY DEF ToSet
  <2>3. ToSet(Holds("npcs")) \subseteq recorded
    <3>1. Left("npcs") = age.left.npcs \/ Left("npcs") = Unset
      BY DEF Left
    <3>2. Left("npcs") # Unset => ToSet(Left("npcs")) \subseteq recorded
      BY <3>1, LifeAssumption DEF LifeInit
    <3>3. QED
      BY <1>3, <2>1, <2>2, <3>2 DEF Or
  <2>4. ToSet(Holds("works")) \subseteq engraved
    <3>1. Left("works") = age.left.works \/ Left("works") = Unset
      BY DEF Left
    <3>2. Left("works") \in {<<>>, Unset}
      BY <3>1, LifeAssumption DEF LifeInit
    <3>3. Holds("works") = <<>>
      BY <1>3, <2>1, <3>2 DEF Or
    <3>4. QED
      BY <2>2, <3>3
  <2>5. QED
    BY <2>3, <2>4 DEF RecordsFirst, LifeInit
<1>7. QED
  BY <1>1, <1>4, <1>5, <1>6 DEF LifeInvariant

LEMMA LifeStutters == ASSUME LifeInvariant, UNCHANGED lifeVars PROVE LifeInvariant'
<1>1. UNCHANGED <<age, cell, recorded, engraved, hand, told, crossed, charged>>
  BY DEF lifeVars
<1>2. \A c : Holds(c)' = Holds(c)
  BY <1>1 DEF Holds, Left
<1>3. LedgersKept' /\ RecordsFirst' /\ LifeTypeOK'
  BY <1>1, <1>2 DEF LifeInvariant, LedgersKept, RecordsFirst, LifeTypeOK
<1>4. \A g \in Hands : \A c \in Cells : CellFor(g, c)
  BY <1>1 DEF CellFor
<1>5. LifeGrows
  BY <1>1 DEF LifeGrows
<1>6. ASSUME NEW j \in Busy'
      PROVE  CallOK(j)'
  <2>1. PICK g \in Hands : j = hand[g] /\ j # AtRest
    BY <1>1 DEF Busy
  <2>2. CallOK(j)
    BY <2>1 DEF LifeInvariant, CallsOK, Busy
  <2>3. QED
    BY <1>4, <1>5, <2>1, <2>2, OtherCallKept DEF LifeInvariant
<1>7. QED
  BY <1>3, <1>6 DEF LifeInvariant, CallsOK

LEMMA LifeSteps == ASSUME LifeInvariant, LifeNext PROVE LifeInvariant'
<1>1. CASE HostDies
  BY <1>1, HostDiesKeeps
<1>2. ASSUME NEW h \in Hands, Continue(h)
      PROVE  LifeInvariant'
  BY <1>2, ReadCellKeeps, MoveBareKeeps, SwallowedKeeps, PutCellKeeps, BackfillKeeps,
     RecordKeeps, OpenPurseKeeps, EngraveKeeps, TakesNextKeeps, DreamKeeps DEF Continue
<1>3. ASSUME NEW h \in Hands, NEW o \in age.offers, Begin(h, o.kind, o.arg)
      PROVE  LifeInvariant'
  BY <1>3, BeginKeeps
<1>4. QED
  BY <1>1, <1>2, <1>3 DEF LifeNext

\* However the calls of a world overlap, and whenever one of its hosts dies: a
\* key whose updates did not cross holds what the calls wrote on top of what
\* was left under the bare key, what is listed has a record, a work that has
\* one was paid for, and a listing names all that was listed when it began.
THEOREM WorldIsKept == LifeSpec => []RegistryKept
<1>1. LifeInit => LifeInvariant
  BY LifeStarts
<1>2. LifeInvariant /\ [LifeNext]_lifeVars => LifeInvariant'
  BY LifeSteps, LifeStutters
<1>3. LifeInvariant => RegistryKept
  <2>1. SUFFICES ASSUME LifeInvariant, NEW h \in Hands, hand[h] # AtRest, IsAt(h, "each"),
                        hand[h].held = <<>>,
                        (IF hand[h].kind = "snapshot" THEN "npcs" ELSE "works") \notin crossed
                 PROVE  hand[h].owed = hand[h].got
    BY DEF RegistryKept, ListingsComplete, LifeInvariant
  <2>2. /\ CallOK(hand[h]) /\ hand[h].kind \in Listings /\ hand[h].step = 2
    BY <2>1, CallIs DEF StepFacts, IsAt, Await
  <2>3. hand[h].owed = hand[h].got \cup ToSet(hand[h].held)
    BY <2>1, <2>2 DEF CallOK, ListingOK, Listed
  <2>4. ToSet(hand[h].held) = {}
    BY <2>1 DEF ToSet
  <2>5. QED
    BY <2>3, <2>4
<1>4. QED
  BY <1>1, <1>2, <1>3, PTL DEF LifeSpec

-----------------------------------------------------------------------------
(***************************************************************************)
(* The NPCs and their talk.                                                *)
(***************************************************************************)
Sequence(s) == s \in Seq(ToSet(s))

LEMMA SequenceIs ==
    ASSUME NEW n \in Nat, NEW f, f = [i \in 1..n |-> f[i]]
    PROVE  Sequence(f) /\ Len(f) = n /\ DOMAIN f = 1..n
<1>1. DOMAIN f = 1..n
  OBVIOUS
<1>2. f \in [1..n -> ToSet(f)]
  BY <1>1 DEF ToSet
<1>3. f \in Seq(ToSet(f))
  BY <1>2, SeqDef
<1>4. Len(f) = n
  BY <1>1, <1>3
<1>5. QED
  BY <1>1, <1>3, <1>4 DEF Sequence

LEMMA SequenceHas ==
    ASSUME NEW s, Sequence(s)
    PROVE  Len(s) \in Nat /\ DOMAIN s = 1..Len(s) /\ s = [i \in 1..Len(s) |-> s[i]]
BY DEF Sequence

LEMMA AppendedIs ==
    ASSUME NEW s, Sequence(s), NEW x
    PROVE  /\ Sequence(Append(s, x)) /\ DOMAIN Append(s, x) = 1..(Len(s) + 1)
           /\ Len(Append(s, x)) = Len(s) + 1 /\ Append(s, x)[Len(s) + 1] = x
           /\ \A i \in 1..Len(s) : Append(s, x)[i] = s[i]
<1> DEFINE S == ToSet(s) \cup {x}
           t == Append(s, x)
<1>1. s \in Seq(S)
  BY SeqMonotonic DEF Sequence
<1>2. /\ t \in Seq(S) /\ Len(t) = Len(s) + 1 /\ t[Len(s) + 1] = x
      /\ \A i \in 1..Len(s) : t[i] = s[i]
  BY <1>1, AppendProperties
<1> HIDE DEF t
<1>3. Len(t) \in Nat /\ t = [i \in 1..Len(t) |-> t[i]]
  BY <1>2
<1>4. Sequence(t) /\ DOMAIN t = 1..Len(t)
  BY <1>3, SequenceIs
<1>5. QED
  BY <1>2, <1>4 DEF t

LEMMA JoinedIs ==
    ASSUME NEW s, Sequence(s), NEW u, Sequence(u)
    PROVE  /\ Sequence(s \o u) /\ DOMAIN (s \o u) = 1..(Len(s) + Len(u))
           /\ Len(s \o u) = Len(s) + Len(u)
           /\ \A i \in 1..Len(s) : (s \o u)[i] = s[i]
           /\ \A i \in 1..Len(u) : (s \o u)[Len(s) + i] = u[i]
<1> DEFINE S == ToSet(s) \cup ToSet(u)
           t == s \o u
<1>1. s \in Seq(S) /\ u \in Seq(S) /\ Len(s) \in Nat /\ Len(u) \in Nat
  BY SeqMonotonic DEF Sequence
<1>2. /\ t \in Seq(S) /\ Len(t) = Len(s) + Len(u)
      /\ \A i \in 1 .. Len(s) + Len(u) : t[i] = IF i <= Len(s) THEN s[i] ELSE u[i - Len(s)]
  BY <1>1, ConcatProperties
<1> HIDE DEF t
<1>3. Len(t) \in Nat /\ t = [i \in 1..Len(t) |-> t[i]]
  BY <1>2
<1>4. Sequence(t) /\ DOMAIN t = 1..Len(t)
  BY <1>3, SequenceIs
<1>5. \A i \in 1..Len(s) : t[i] = s[i]
  BY <1>1, <1>2
<1>6. ASSUME NEW i \in 1..Len(u)
      PROVE  t[Len(s) + i] = u[i]
  <2>1. /\ Len(s) + i \in 1 .. Len(s) + Len(u) /\ ~(Len(s) + i <= Len(s))
        /\ (Len(s) + i) - Len(s) = i
    BY <1>1
  <2>2. QED
    BY <1>2, <2>1
<1>7. QED
  BY <1>2, <1>4, <1>5, <1>6 DEF t

\* The first n of a set of NPCs are n at most.
LEMMA FirstAreFew ==
    ASSUME NEW S \in SUBSET Folk, NEW n \in Nat
    PROVE  IsFiniteSet(FirstOf(S, n)) /\ Cardinality(FirstOf(S, n)) \in 0..n
<1>1. ASSUME NEW o \in Folk
      PROVE  Rank(o) \in DOMAIN Npcs /\ Npcs[Rank(o)] = o
  <2>1. \E i \in DOMAIN Npcs : Npcs[i] = o
    BY DEF Folk, ToSet
  <2>2. QED
    BY <2>1 DEF Rank
<1>2. DOMAIN Npcs = 1..Len(Npcs) /\ Len(Npcs) \in Nat
  BY SocialAssumption
<1>3. IsFiniteSet(S)
  <2> DEFINE f == [o \in S |-> Rank(o)]
  <2>1. f \in Injection(S, 1..Len(Npcs))
    <3>1. \A o \in S : f[o] \in 1..Len(Npcs)
      BY <1>1, <1>2
    <3>2. \A o, p \in S : f[o] = f[p] => o = p
      BY <1>1
    <3>3. f \in [S -> 1..Len(Npcs)]
      BY <3>1
    <3> HIDE DEF f
    <3>4. QED
      BY <3>2, <3>3 DEF Injection, IsInjective
  <2>2. QED
    BY <1>2, <2>1, FS_Injection, FS_Interval
<1>4. ASSUME NEW o \in S
      PROVE  IsFiniteSet(Ahead(S, o)) /\ Cardinality(Ahead(S, o)) \in Nat
  BY <1>3, FS_Subset, FS_CardinalityType DEF Ahead
<1> DEFINE F == FirstOf(S, n)
           place == [o \in F |-> Cardinality(Ahead(S, o))]
<1>5. F \subseteq S /\ IsFiniteSet(F)
  BY <1>3, FS_Subset DEF FirstOf
<1>6. ASSUME NEW o \in S, NEW p \in S, Rank(o) < Rank(p)
      PROVE  Cardinality(Ahead(S, o)) # Cardinality(Ahead(S, p))
  <2>1. Rank(o) \in Int /\ Rank(p) \in Int
    BY <1>1, <1>2
  <2>2. Ahead(S, o) \subseteq Ahead(S, p)
    <3>1. ASSUME NEW q \in Ahead(S, o)
          PROVE  q \in Ahead(S, p)
      <4>1. q \in S /\ Rank(q) < Rank(o) /\ Rank(q) \in Int
        BY <1>1, <1>2, <3>1 DEF Ahead
      <4>2. Rank(q) < Rank(p)
        BY <1>6, <2>1, <4>1
      <4>3. QED
        BY <4>1, <4>2 DEF Ahead
    <3>2. QED
      BY <3>1
  <2>3. o \in Ahead(S, p) /\ o \notin Ahead(S, o)
    BY <1>6, <2>1 DEF Ahead
  <2>4. QED
    BY <1>4, <2>2, <2>3, FS_Subset
<1>7. place \in Injection(F, 0..(n - 1))
  <2>1. ASSUME NEW o \in F
        PROVE  place[o] \in 0..(n - 1)
    BY <1>4, <1>5 DEF FirstOf
  <2>2. ASSUME NEW o \in F, NEW p \in F, place[o] = place[p]
        PROVE  o = p
    <3>1. o \in S /\ p \in S
      BY <1>5
    <3>2. ~(Rank(o) < Rank(p)) /\ ~(Rank(p) < Rank(o))
      BY <1>6, <2>2, <3>1
    <3>3. Rank(o) = Rank(p)
      BY <1>1, <1>2, <3>1, <3>2
    <3>4. QED
      BY <1>1, <3>1, <3>3
  <2>3. place \in [F -> 0..(n - 1)]
    BY <2>1
  <2> HIDE DEF place
  <2>4. QED
    BY <2>2, <2>3 DEF Injection, IsInjective
<1>8. Cardinality(F) <= n
  <2>1. IsFiniteSet(0..(n - 1)) /\ Cardinality(0..(n - 1)) = n
    BY FS_Interval
  <2>2. QED
    BY <1>7, <2>1, FS_Injection
<1>9. QED
  BY <1>5, <1>8, FS_CardinalityType

LEMMA BoldAreFew ==
    ASSUME NEW j
    PROVE  Sequence(Bold(j)) /\ Len(Bold(j)) \in 0..InterjectMax
<1> DEFINE B == FirstOf({o \in Listeners(j) : sgcc[o] >= Rich}, InterjectMax)
<1>1. Cardinality(B) \in 0..InterjectMax /\ Cardinality(B) \in Nat
  <2>1. {o \in Listeners(j) : sgcc[o] >= Rich} \subseteq Folk /\ InterjectMax \in Nat
    BY SocialAssumption DEF Listeners, FirstOf
  <2>2. QED
    BY <2>1, FirstAreFew
<1> HIDE DEF B
<1>2. InOrder(B) = [i \in 1..Cardinality(B) |-> InOrder(B)[i]]
  BY DEF InOrder
<1>3. Bold(j) = InOrder(B)
  BY DEF Bold, B
<1>4. QED
  BY <1>1, <1>2, <1>3, SequenceIs

-----------------------------------------------------------------------------
Fields == {"kind", "pc", "npc", "other", "delta", "hushed", "root", "thought", "seen",
           "before", "aff", "goto", "index", "paid", "corpus"}
Stops ==
    [talk |-> {"purse", "before", "think", "get", "set", "readIndex", "writeIndex", "burn",
               "spoken", "done"},
     adjust |-> {"get", "set", "readIndex", "writeIndex", "done"},
     theft |-> {"get", "set", "readIndex", "writeIndex", "learn", "done"},
     pitch |-> {"purse", "discern", "pay", "learn", "done"},
     gossip |-> {"learn", "done", "failed"},
     overhear |-> {"gate", "done"}]

JobOK(r) ==
    /\ DOMAIN r = Fields /\ r.kind \in DOMAIN Stops /\ r.pc \in Stops[r.kind]
    /\ r.thought => r.kind = "talk"

SocialTypeOK ==
    /\ shost \in Hosts /\ Sequence(jobs) /\ (\A j \in DOMAIN jobs : JobOK(jobs[j]))
    /\ shost.agents \subseteq minted
    /\ DOMAIN beliefs = Folk /\ DOMAIN losses = Pairs /\ DOMAIN rel = Pairs

\* Whoever speaks without being called by the host overheard somebody who was.
RootsOK ==
    \A j \in DOMAIN jobs :
        /\ jobs[j].root \in HostCalls
        /\ jobs[j].root # j =>
            /\ shost.overhear
            /\ jobs[j].kind = "overhear" \/ (jobs[j].kind = "talk" /\ jobs[j].hushed)
        /\ jobs[j].root = j =>
            /\ ~jobs[j].hushed /\ jobs[j].kind # "overhear"
            /\ Pair(j) \in Folk \X (Folk \cup Visitors)
        /\ jobs[j].kind = "overhear" => ~jobs[j].hushed

\* A line is overheard once, when it has been spoken; interjections come of that.
Heard(r) == {j \in DOMAIN jobs : jobs[j].root = r /\ jobs[j].hushed}
EavesOK ==
    /\ \A o \in DOMAIN jobs : jobs[o].kind = "overhear" =>
        /\ jobs[jobs[o].root].pc = "done"
        /\ jobs[o].pc = "gate" => Heard(jobs[o].root) = {}
    /\ \A o, q \in DOMAIN jobs :
        jobs[o].kind = "overhear" /\ jobs[q].kind = "overhear" /\ jobs[o].root = jobs[q].root => o = q
    /\ \A j \in DOMAIN jobs : jobs[j].hushed =>
        \E o \in DOMAIN jobs : jobs[o].kind = "overhear" /\ jobs[o].root = jobs[j].root
    /\ \A r \in HostCalls : Cardinality(Heard(r)) <= InterjectMax

LanesOK ==
    \A i, k \in HostCalls \cap Running :
        shost.lanes = 1 \/ (shost.apart /\ Pair(i) = Pair(k)) => i = k

\* A call about to write an affinity has read the one that is there.
RelOK ==
    ~shost.overhear /\ (shost.apart \/ shost.lanes = 1) =>
        /\ rel = felt
        /\ \A j \in DOMAIN jobs : At(j, "set") => jobs[j].aff = rel[Pair(j)]

\* A relationship is in the index or about to be.
IndexOK ==
    ~shost.overhear /\ shost.lanes = 1 =>
        /\ \A p \in Pairs : rel[p] # 0 =>
            \/ p \in relIndex
            \/ \E j \in DOMAIN jobs : Pair(j) = p /\ (At(j, "readIndex") \/ At(j, "writeIndex"))
        /\ \A j \in DOMAIN jobs : At(j, "writeIndex") => jobs[j].index = relIndex

\* What an NPC believes is in the memory that was its own then; a loss is
\* believed, or about to be; and who is about to fall for somebody believed
\* nothing of it.
Corpora == {"world", "agent"}
Steady(n) == n \notin minted \ shost.agents
Learning(p, c) ==
    \E j \in DOMAIN jobs : Pair(j) = p /\ jobs[j].kind = "pitch" /\ At(j, "learn") /\ jobs[j].corpus = c
Scarred(p, c) == \E b \in beliefs[p[1]] : b.about = p[2] /\ b.at = c /\ b.self
Knows(p, c) == Scarred(p, c) \/ Learning(p, c)
Wary(n, about, c) == \E b \in beliefs[n] : b.about = about /\ b.at = c /\ (b.self \/ shost.hearsay)
OneIf(b) == IF b THEN 1 ELSE 0

BeliefsOK ==
    \A n \in Folk : \A b \in beliefs[n] : b.at \in Corpora /\ (Steady(n) => b.at = Corpus(n))
PitchOK(j) ==
    jobs[j].kind = "pitch" /\ jobs[j].pc \in {"pay", "learn"} =>
        /\ jobs[j].corpus \in Corpora /\ (Steady(jobs[j].npc) => jobs[j].corpus = Corpus(jobs[j].npc))
        /\ At(j, "pay") => ~Wary(jobs[j].npc, jobs[j].other, jobs[j].corpus)
WarnedOK(j) ==
    /\ jobs[j].pc # "failed"
    /\ At(j, "done") /\ Steady(jobs[j].npc)
       /\ (jobs[j].kind = "theft" \/ (jobs[j].kind = "gossip" /\ shost.hearsay))
       => Wary(jobs[j].npc, jobs[j].other, Corpus(jobs[j].npc))
LossOK(p) ==
    /\ losses[p] \in Nat
    /\ p[1] \in Folk => losses[p] <= OneIf(Knows(p, "world")) + OneIf(Knows(p, "agent"))
FearOK ==
    shost.lanes = 1 /\ ~shost.flaky =>
        /\ BeliefsOK
        /\ \A j \in DOMAIN jobs : PitchOK(j) /\ WarnedOK(j)
        /\ \A p \in Pairs : LossOK(p)

SocialInvariant == SocialTypeOK /\ RootsOK /\ EavesOK /\ LanesOK /\ RelOK /\ IndexOK /\ FearOK

-----------------------------------------------------------------------------
Same(i) ==
    /\ jobs'[i].kind = jobs[i].kind /\ jobs'[i].npc = jobs[i].npc /\ jobs'[i].other = jobs[i].other
    /\ jobs'[i].hushed = jobs[i].hushed /\ jobs'[i].root = jobs[i].root

\* A job goes on, and no other.
Moved(j) ==
    /\ j \in Running /\ jobs[j].kind # "overhear"
    /\ Sequence(jobs') /\ DOMAIN jobs' = DOMAIN jobs /\ shost' = shost
    /\ \A i \in DOMAIN jobs \ {j} : jobs'[i] = jobs[i]
    /\ Same(j) /\ JobOK(jobs'[j])

LEMMA MovedIs ==
    ASSUME SocialTypeOK, NEW j \in Running, jobs[j].kind # "overhear", NEW r,
           jobs' = [jobs EXCEPT ![j] = r], JobOK(r), shost' = shost,
           r.kind = jobs[j].kind, r.npc = jobs[j].npc, r.other = jobs[j].other,
           r.hushed = jobs[j].hushed, r.root = jobs[j].root
    PROVE  Moved(j) /\ jobs'[j] = r
<1>1. j \in DOMAIN jobs /\ Len(jobs) \in Nat /\ DOMAIN jobs = 1..Len(jobs)
      /\ jobs = [i \in 1..Len(jobs) |-> jobs[i]]
  BY SequenceHas DEF SocialTypeOK, Running
<1>2. DOMAIN jobs' = DOMAIN jobs /\ jobs'[j] = r /\ (\A i \in DOMAIN jobs \ {j} : jobs'[i] = jobs[i])
  BY <1>1
<1>3. PICK f : f = jobs'
  OBVIOUS
<1>4. f = [i \in 1..Len(jobs) |-> f[i]]
  BY <1>1, <1>3
<1>5. Sequence(jobs')
  BY <1>1, <1>3, <1>4, SequenceIs
<1>6. QED
  BY <1>2, <1>5 DEF Moved, Same

LEMMA MovedKeeps ==
    ASSUME SocialInvariant, NEW j, Moved(j)
    PROVE  /\ RootsOK' /\ EavesOK' /\ LanesOK'
           /\ \A i \in DOMAIN jobs : JobOK(jobs'[i]) /\ Pair(i)' = Pair(i)
           /\ HostCalls' = HostCalls /\ HostCalls' \cap Running' \subseteq HostCalls \cap Running
<1>1. /\ DOMAIN jobs' = DOMAIN jobs /\ (\A i \in DOMAIN jobs : Same(i)) /\ j \in DOMAIN jobs
      /\ (\A i \in DOMAIN jobs : i # j => jobs'[i] = jobs[i]) /\ shost' = shost
  BY DEF Moved, Same, Running
<1>2. \A i \in DOMAIN jobs : Pair(i)' = Pair(i)
  BY <1>1 DEF Pair, Same
<1>3. HostCalls' = HostCalls
  BY <1>1 DEF HostCalls, Same
<1>4. HostCalls' \cap Running' \subseteq HostCalls \cap Running
  BY <1>1, <1>3 DEF HostCalls, Running, Moved
<1>5. RootsOK'
  BY <1>1, <1>2, <1>3 DEF SocialInvariant, RootsOK, Same
<1>6. \A r : Heard(r)' = Heard(r)
  BY <1>1 DEF Heard, Same
<1>7. EavesOK'
  <2>1. \A o \in DOMAIN jobs : jobs[o].kind = "overhear" => o # j /\ jobs[o].root # j
        /\ jobs[o].root \in DOMAIN jobs
    BY DEF SocialInvariant, EavesOK, RootsOK, Moved, Running, HostCalls
  <2>2. ASSUME NEW o \in DOMAIN jobs, jobs'[o].kind = "overhear"
        PROVE  /\ jobs'[jobs'[o].root].pc = "done"
               /\ jobs'[o].pc = "gate" => (Heard(jobs[o].root))' = {}
    <3>1. PICK r : r = jobs[o].root
      OBVIOUS
    <3>2. jobs'[o] = jobs[o] /\ jobs'[r] = jobs[r] /\ jobs[o].kind = "overhear"
      BY <1>1, <2>1, <2>2, <3>1 DEF Same
    <3>3. jobs[r].pc = "done" /\ (jobs[o].pc = "gate" => Heard(r) = {})
      BY <3>1, <3>2 DEF SocialInvariant, EavesOK
    <3>4. (Heard(jobs[o].root))' = Heard(r)'
      BY <3>1, <3>2
    <3>5. QED
      BY <1>6, <3>1, <3>2, <3>3, <3>4
  <2>3. \A o, q \in DOMAIN jobs :
            jobs'[o].kind = "overhear" /\ jobs'[q].kind = "overhear" /\ jobs'[o].root = jobs'[q].root => o = q
    BY <1>1 DEF SocialInvariant, EavesOK, Same
  <2>4. \A k \in DOMAIN jobs : jobs'[k].hushed =>
            \E o \in DOMAIN jobs : jobs'[o].kind = "overhear" /\ jobs'[o].root = jobs'[k].root
    BY <1>1 DEF SocialInvariant, EavesOK, Same
  <2>5. \A r \in HostCalls : Cardinality(Heard(r))' <= InterjectMax
    BY <1>6 DEF SocialInvariant, EavesOK
  <2>6. QED
    BY <1>1, <1>3, <2>2, <2>3, <2>4, <2>5 DEF EavesOK
<1>8. LanesOK'
  BY <1>1, <1>2, <1>4 DEF SocialInvariant, LanesOK, HostCalls
<1>9. \A i \in DOMAIN jobs : JobOK(jobs'[i])
  BY <1>1 DEF Moved, SocialInvariant, SocialTypeOK
<1>10. QED
  BY <1>2, <1>3, <1>4, <1>5, <1>7, <1>8, <1>9

LEMMA TypeKept ==
    ASSUME SocialInvariant, NEW j, Moved(j), minted' = minted,
           DOMAIN beliefs' = Folk, DOMAIN losses' = Pairs, DOMAIN rel' = Pairs
    PROVE  SocialTypeOK'
<1>1. \A i \in DOMAIN jobs : JobOK(jobs'[i])
  BY MovedKeeps
<1>2. QED
  BY <1>1 DEF SocialInvariant, SocialTypeOK, Moved

\* What the other jobs know of stays as it was.
LEMMA OthersKept ==
    ASSUME SocialInvariant, NEW j, Moved(j)
    PROVE  \A i \in DOMAIN jobs : i # j => /\ jobs'[i] = jobs[i] /\ Pair(i)' = Pair(i)
                                           /\ \A pc : At(i, pc)' = At(i, pc)
BY MovedKeeps DEF Moved, At

\* Steps of one job, by what they leave alone.
LEMMA RelKept ==
    ASSUME SocialInvariant, NEW j, Moved(j), UNCHANGED <<rel, felt>>,
           jobs'[j].pc = "set" => jobs'[j].aff = rel[Pair(j)]
    PROVE  RelOK'
<1>1. /\ DOMAIN jobs' = DOMAIN jobs /\ j \in DOMAIN jobs /\ shost' = shost /\ Same(j)
      /\ Pair(j)' = Pair(j) /\ jobs[j].pc \notin {"done", "failed"}
  BY MovedKeeps DEF Moved, Running
<1>2. \A i \in DOMAIN jobs : i # j => /\ jobs'[i] = jobs[i] /\ Pair(i)' = Pair(i)
                                      /\ \A pc : At(i, pc)' = At(i, pc)
  BY OthersKept
<1>3. RelOK'
  <2>1. SUFFICES ASSUME ~shost.overhear /\ (shost.apart \/ shost.lanes = 1)
                 PROVE  /\ rel = felt
                        /\ \A i \in DOMAIN jobs : At(i, "set")' => jobs'[i].aff = rel[Pair(i)']
    BY <1>1 DEF RelOK
  <2>2. rel = felt /\ \A i \in DOMAIN jobs : At(i, "set") => jobs[i].aff = rel[Pair(i)]
    BY <2>1 DEF SocialInvariant, RelOK
  <2>3. QED
    BY <1>1, <1>2, <2>2 DEF At
<1>4. QED
  BY <1>3

LEMMA IndexKept ==
    ASSUME SocialInvariant, NEW j, Moved(j), UNCHANGED <<rel, relIndex>>,
           jobs[j].pc \in {"readIndex", "writeIndex"} => jobs'[j].pc \in {"readIndex", "writeIndex"},
           jobs'[j].pc = "writeIndex" => jobs'[j].index = relIndex
    PROVE  IndexOK'
<1>1. /\ DOMAIN jobs' = DOMAIN jobs /\ j \in DOMAIN jobs /\ shost' = shost /\ Same(j)
      /\ Pair(j)' = Pair(j) /\ jobs[j].pc \notin {"done", "failed"}
  BY MovedKeeps DEF Moved, Running
<1>2. \A i \in DOMAIN jobs : i # j => /\ jobs'[i] = jobs[i] /\ Pair(i)' = Pair(i)
                                      /\ \A pc : At(i, pc)' = At(i, pc)
  BY OthersKept
<1>3. IndexOK'
  <2>1. SUFFICES ASSUME ~shost.overhear, shost.lanes = 1
                 PROVE  IndexOK'
    BY <1>1 DEF IndexOK
  <2>2. ASSUME NEW p \in Pairs, rel[p] # 0, p \notin relIndex
        PROVE  \E i \in DOMAIN jobs : Pair(i)' = p /\ (At(i, "readIndex")' \/ At(i, "writeIndex")')
    <3>1. PICK i \in DOMAIN jobs : Pair(i) = p /\ (At(i, "readIndex") \/ At(i, "writeIndex"))
      BY <2>1, <2>2 DEF SocialInvariant, IndexOK
    <3>2. CASE i = j
      BY <1>1, <3>1, <3>2 DEF At
    <3>3. CASE i # j
      BY <1>2, <3>1, <3>3
    <3>4. QED
      BY <3>2, <3>3
  <2>3. ASSUME NEW i \in DOMAIN jobs, At(i, "writeIndex")'
        PROVE  jobs'[i].index = relIndex
    <3>1. CASE i = j
      BY <2>3, <3>1 DEF At
    <3>2. CASE i # j
      BY <1>2, <2>1, <2>3, <3>2 DEF SocialInvariant, IndexOK
    <3>3. QED
      BY <3>1, <3>2
  <2>4. QED
    BY <1>1, <2>2, <2>3 DEF IndexOK
<1>4. QED
  BY <1>3

LEMMA FearKept ==
    ASSUME SocialInvariant, NEW j, Moved(j), UNCHANGED <<minted, beliefs, losses>>,
           \/ shost.flaky
           \/ /\ jobs[j].pc # "learn" /\ jobs'[j].pc # "failed"
              /\ jobs[j].kind = "pitch" => jobs'[j].pc # "learn"
              /\ jobs'[j].pc = "pay" =>
                    /\ jobs'[j].corpus = Corpus(jobs[j].npc)
                    /\ ~Wary(jobs[j].npc, jobs[j].other, Corpus(jobs[j].npc))
              /\ jobs'[j].pc = "done" => jobs[j].kind \notin {"theft", "gossip"}
    PROVE  FearOK'
<1>1. /\ DOMAIN jobs' = DOMAIN jobs /\ j \in DOMAIN jobs /\ shost' = shost /\ Same(j)
      /\ Pair(j)' = Pair(j) /\ jobs[j].pc \notin {"done", "failed"}
  BY MovedKeeps DEF Moved, Running
<1>2. \A i \in DOMAIN jobs : i # j => /\ jobs'[i] = jobs[i] /\ Pair(i)' = Pair(i)
                                      /\ \A pc : At(i, pc)' = At(i, pc)
  BY OthersKept
<1>3. FearOK'
  <2>1. SUFFICES ASSUME shost.lanes = 1, ~shost.flaky
                 PROVE  FearOK'
    BY <1>1 DEF FearOK
  <2>2. BeliefsOK /\ (\A i \in DOMAIN jobs : PitchOK(i) /\ WarnedOK(i)) /\ (\A p \in Pairs : LossOK(p))
    BY <2>1 DEF SocialInvariant, FearOK
  <2>3. BeliefsOK' /\ (\A n : Steady(n)' = Steady(n) /\ Corpus(n)' = Corpus(n))
        /\ (\A n, x, c : Wary(n, x, c)' = Wary(n, x, c)) /\ (\A p, c : Scarred(p, c)' = Scarred(p, c))
    BY <1>1, <2>2 DEF BeliefsOK, Steady, Corpus, Wary, Scarred
  <2>4. ASSUME NEW i \in DOMAIN jobs
        PROVE  PitchOK(i)' /\ WarnedOK(i)'
    <3>1. CASE i = j
      <4>1. /\ jobs[j].pc # "learn" /\ jobs'[j].pc # "failed"
            /\ jobs[j].kind = "pitch" => jobs'[j].pc # "learn"
            /\ jobs'[j].pc = "pay" =>
                  /\ jobs'[j].corpus = Corpus(jobs[j].npc)
                  /\ ~Wary(jobs[j].npc, jobs[j].other, Corpus(jobs[j].npc))
            /\ jobs'[j].pc = "done" => jobs[j].kind \notin {"theft", "gossip"}
        BY <2>1
      <4>2. Corpus(jobs[j].npc) \in Corpora
        BY DEF Corpus, Corpora
      <4>3. PICK n : n = jobs[j].npc
        OBVIOUS
      <4>4. PICK x : x = jobs[j].other
        OBVIOUS
      <4>5. jobs'[j].npc = n /\ jobs'[j].other = x /\ jobs'[j].kind = jobs[j].kind
        BY <1>1, <4>3, <4>4 DEF Same
      <4>6. PitchOK(j)'
        <5>1. PICK c : c = Corpus(n)
          OBVIOUS
        <5>2. jobs'[j].pc = "pay" => ~Wary(n, x, c)' /\ jobs'[j].corpus = c
          BY <2>3, <4>1, <4>3, <4>4, <5>1
        <5>3. c \in Corpora /\ Corpus(n)' = c
          BY <2>3, <4>2, <4>3, <5>1
        <5>4. SUFFICES ASSUME jobs'[j].kind = "pitch", jobs'[j].pc \in {"pay", "learn"}
                       PROVE  /\ jobs'[j].corpus \in Corpora
                              /\ jobs'[j].corpus = Corpus(n)'
                              /\ (~Wary(jobs[j].npc, jobs[j].other, jobs[j].corpus))'
          BY <4>5 DEF PitchOK
        <5>5. jobs'[j].corpus = c
          BY <4>1, <4>5, <5>2, <5>4
        <5>6. (~Wary(jobs[j].npc, jobs[j].other, jobs[j].corpus))'
          BY <4>1, <4>5, <5>2, <5>4, <5>5
        <5>7. QED
          BY <5>3, <5>5, <5>6
      <4>7. WarnedOK(j)'
        BY <4>1, <4>5 DEF WarnedOK, At
      <4>8. QED
        BY <3>1, <4>6, <4>7
    <3>2. CASE i # j
      <4>1. jobs'[i] = jobs[i] /\ PitchOK(i) /\ WarnedOK(i)
        BY <1>2, <2>2, <3>2
      <4>2. PICK r : r = jobs[i]
        OBVIOUS
      <4>3. PitchOK(i)'
        BY <2>3, <4>1, <4>2 DEF PitchOK, At
      <4>4. WarnedOK(i)'
        <5>1. PICK c : c = Corpus(r.npc)
          OBVIOUS
        <5>2. Corpus(r.npc)' = c /\ Steady(r.npc)' = Steady(r.npc)
              /\ Wary(r.npc, r.other, c)' = Wary(r.npc, r.other, c)
          BY <2>3, <5>1
        <5>3. WarnedOK(i) <=>
                  /\ r.pc # "failed"
                  /\ r.pc = "done" /\ Steady(r.npc)
                     /\ (r.kind = "theft" \/ (r.kind = "gossip" /\ shost.hearsay))
                     => Wary(r.npc, r.other, c)
          BY <4>2, <5>1 DEF WarnedOK, At
        <5>4. WarnedOK(i)' <=>
                  /\ r.pc # "failed"
                  /\ r.pc = "done" /\ Steady(r.npc)
                     /\ (r.kind = "theft" \/ (r.kind = "gossip" /\ shost.hearsay))
                     => Wary(r.npc, r.other, c)'
          BY <1>1, <4>1, <4>2, <5>2 DEF WarnedOK, At
        <5>5. QED
          BY <4>1, <5>2, <5>3, <5>4
      <4>5. QED
        BY <4>3, <4>4
    <3>3. QED
      BY <3>1, <3>2
  <2>5. ASSUME NEW p, NEW c, Learning(p, c)
        PROVE  Learning(p, c)'
    <3>1. PICK i \in DOMAIN jobs : Pair(i) = p /\ jobs[i].kind = "pitch" /\ At(i, "learn") /\ jobs[i].corpus = c
      BY <2>5 DEF Learning
    <3>2. i # j
      BY <2>1, <3>1 DEF At
    <3>3. QED
      BY <1>1, <1>2, <3>1, <3>2 DEF Learning
  <2>6. ASSUME NEW p \in Pairs
        PROVE  LossOK(p)'
    <3>1. LossOK(p) /\ losses' = losses
      BY <2>2
    <3>2. (Knows(p, "world") => Knows(p, "world")') /\ (Knows(p, "agent") => Knows(p, "agent")')
      BY <2>3, <2>5 DEF Knows
    <3>3. QED
      BY <3>1, <3>2 DEF LossOK, OneIf
  <2>7. QED
    BY <1>1, <2>3, <2>4, <2>6 DEF FearOK
<1>4. QED
  BY <1>3

\* No call of the host starts; one may end.
CallsOnlyEnd ==
    HostCalls' = HostCalls /\ HostCalls' \cap Running' \subseteq HostCalls \cap Running

LEMMA PrivateKeeps ==
    ASSUME SocialInvariant, NEW j, Moved(j),
           UNCHANGED <<minted, rel, relIndex, beliefs, felt, losses>>,
           jobs'[j].pc = "set" => jobs'[j].aff = rel[Pair(j)],
           jobs[j].pc \in {"readIndex", "writeIndex"} => jobs'[j].pc \in {"readIndex", "writeIndex"},
           jobs'[j].pc = "writeIndex" => jobs'[j].index = relIndex,
           \/ shost.flaky
           \/ /\ jobs[j].pc # "learn" /\ jobs'[j].pc # "failed"
              /\ jobs[j].kind = "pitch" => jobs'[j].pc # "learn"
              /\ jobs'[j].pc = "pay" =>
                    /\ jobs'[j].corpus = Corpus(jobs[j].npc)
                    /\ ~Wary(jobs[j].npc, jobs[j].other, Corpus(jobs[j].npc))
              /\ jobs'[j].pc = "done" => jobs[j].kind \notin {"theft", "gossip"}
    PROVE  SocialInvariant' /\ CallsOnlyEnd
<1>1. SocialTypeOK'
  BY TypeKept DEF SocialInvariant, SocialTypeOK
<1>2. RelOK' /\ IndexOK' /\ FearOK'
  BY RelKept, IndexKept, FearKept
<1>3. QED
  BY <1>1, <1>2, MovedKeeps DEF SocialInvariant, CallsOnlyEnd

-----------------------------------------------------------------------------
LEMMA StopsAre ==
    /\ DOMAIN Stops = {"talk", "adjust", "theft", "pitch", "gossip", "overhear"}
    /\ Stops["talk"] = {"purse", "before", "think", "get", "set", "readIndex", "writeIndex",
                        "burn", "spoken", "done"}
    /\ Stops["adjust"] = {"get", "set", "readIndex", "writeIndex", "done"}
    /\ Stops["theft"] = {"get", "set", "readIndex", "writeIndex", "learn", "done"}
    /\ Stops["pitch"] = {"purse", "discern", "pay", "learn", "done"}
    /\ Stops["gossip"] = {"learn", "done", "failed"}
    /\ Stops["overhear"] = {"gate", "done"}
BY DEF Stops

\* Which kinds of calls stop where.
LEMMA StopsOf ==
    ASSUME NEW k \in DOMAIN Stops
    PROVE  /\ "purse" \in Stops[k] => k \in {"talk", "pitch"}
           /\ "before" \in Stops[k] \/ "think" \in Stops[k] \/ "burn" \in Stops[k]
              \/ "spoken" \in Stops[k] => k = "talk"
           /\ "get" \in Stops[k] \/ "set" \in Stops[k] \/ "readIndex" \in Stops[k]
              \/ "writeIndex" \in Stops[k] =>
                k \in {"talk", "adjust", "theft"}
           /\ "discern" \in Stops[k] \/ "pay" \in Stops[k] => k = "pitch"
           /\ "learn" \in Stops[k] => k \in {"theft", "pitch", "gossip"}
           /\ "gate" \in Stops[k] => k = "overhear"
           /\ k \in {"talk", "adjust", "theft"} => {"get", "set", "readIndex", "writeIndex"} \subseteq Stops[k]
           /\ "done" \in Stops[k]
BY StopsAre

LEMMA RunsAt ==
    ASSUME SocialInvariant, NEW j \in DOMAIN jobs, NEW pc, At(j, pc), pc \notin {"done", "failed"}
    PROVE  /\ JobOK(jobs[j]) /\ j \in Running /\ pc \in Stops[jobs[j].kind]
           /\ jobs[j].kind \in DOMAIN Stops
BY DEF SocialInvariant, SocialTypeOK, JobOK, Running, At

LEMMA ReadPurseKeeps ==
    ASSUME SocialInvariant, NEW j \in DOMAIN jobs, ReadPurseOf(j)
    PROVE  SocialInvariant' /\ CallsOnlyEnd
<1>1. /\ JobOK(jobs[j]) /\ j \in Running /\ jobs[j].pc = "purse" /\ jobs[j].kind \in {"talk", "pitch"}
  BY RunsAt, StopsOf DEF ReadPurseOf, At
<1>2. PICK r : r = [jobs[j] EXCEPT !.seen = sgcc[jobs[j].npc],
                                   !.pc = IF jobs[j].kind = "talk" THEN "before" ELSE "discern"]
  OBVIOUS
<1>3. DOMAIN r = Fields /\ \A f \in Fields \ {"seen", "pc"} : r[f] = jobs[j][f]
  BY <1>1, <1>2 DEF JobOK
<1>4. r.pc = IF jobs[j].kind = "talk" THEN "before" ELSE "discern"
  BY <1>1, <1>2 DEF JobOK, Fields
<1>5. /\ r.kind = jobs[j].kind /\ r.npc = jobs[j].npc /\ r.other = jobs[j].other
      /\ r.hushed = jobs[j].hushed /\ r.root = jobs[j].root /\ r.thought = jobs[j].thought
  BY <1>3 DEF Fields
<1>6. JobOK(r)
  BY <1>1, <1>3, <1>4, <1>5, StopsAre DEF JobOK
<1>7. jobs' = [jobs EXCEPT ![j] = r]
  BY <1>2 DEF ReadPurseOf, SocialInvariant, SocialTypeOK
<1>8. Moved(j) /\ jobs'[j] = r
  BY <1>1, <1>5, <1>6, <1>7, MovedIs DEF ReadPurseOf, SocialInvariant
<1>9. QED
  BY <1>1, <1>4, <1>5, <1>8, PrivateKeeps DEF ReadPurseOf

LEMMA ToIs ==
    ASSUME SocialInvariant, NEW j \in Running, jobs[j].kind # "overhear", NEW pc, To(j, pc),
           pc \in Stops[jobs[j].kind], shost' = shost
    PROVE  Moved(j) /\ jobs'[j].pc = pc /\ jobs'[j].corpus = jobs[j].corpus
<1>1. JobOK(jobs[j]) /\ j \in DOMAIN jobs
  BY DEF SocialInvariant, SocialTypeOK, Running
<1>2. PICK r : r = [jobs[j] EXCEPT !.pc = pc]
  OBVIOUS
<1>3. DOMAIN r = Fields /\ (\A f \in Fields \ {"pc"} : r[f] = jobs[j][f]) /\ r.pc = pc
  BY <1>1, <1>2 DEF JobOK, Fields
<1>4. /\ r.kind = jobs[j].kind /\ r.npc = jobs[j].npc /\ r.other = jobs[j].other
      /\ r.hushed = jobs[j].hushed /\ r.root = jobs[j].root /\ r.thought = jobs[j].thought
      /\ r.corpus = jobs[j].corpus
  BY <1>3 DEF Fields
<1>5. JobOK(r)
  BY <1>1, <1>3, <1>4 DEF JobOK
<1>6. jobs' = [jobs EXCEPT ![j] = r]
  BY <1>2 DEF To, SocialInvariant, SocialTypeOK
<1>7. QED
  BY <1>3, <1>4, <1>5, <1>6, MovedIs DEF SocialInvariant

LEMMA ReadBeforeKeeps ==
    ASSUME SocialInvariant, NEW j \in DOMAIN jobs, ReadBefore(j)
    PROVE  SocialInvariant' /\ CallsOnlyEnd
<1>1. /\ JobOK(jobs[j]) /\ j \in Running /\ jobs[j].pc = "before" /\ jobs[j].kind = "talk"
  BY RunsAt, StopsOf DEF ReadBefore, At
<1>2. PICK r : r = [jobs[j] EXCEPT !.before = rel[Pair(j)], !.pc = "think"]
  OBVIOUS
<1>3. DOMAIN r = Fields /\ (\A f \in Fields \ {"before", "pc"} : r[f] = jobs[j][f]) /\ r.pc = "think"
  BY <1>1, <1>2 DEF JobOK, Fields
<1>4. /\ r.kind = jobs[j].kind /\ r.npc = jobs[j].npc /\ r.other = jobs[j].other
      /\ r.hushed = jobs[j].hushed /\ r.root = jobs[j].root /\ r.thought = jobs[j].thought
  BY <1>3 DEF Fields
<1>5. JobOK(r)
  BY <1>1, <1>3, <1>4, StopsAre DEF JobOK
<1>6. jobs' = [jobs EXCEPT ![j] = r]
  BY <1>2 DEF ReadBefore, SocialInvariant, SocialTypeOK
<1>7. Moved(j) /\ jobs'[j] = r
  BY <1>1, <1>4, <1>5, <1>6, MovedIs DEF ReadBefore, SocialInvariant
<1>8. QED
  BY <1>1, <1>3, <1>4, <1>7, PrivateKeeps DEF ReadBefore

LEMMA ThinkKeeps ==
    ASSUME SocialInvariant, NEW j \in DOMAIN jobs, Think(j)
    PROVE  SocialInvariant' /\ CallsOnlyEnd
<1>1. /\ JobOK(jobs[j]) /\ j \in Running /\ jobs[j].pc = "think" /\ jobs[j].kind = "talk"
  BY RunsAt, StopsOf DEF Think, At
<1>2. CASE To(j, "spoken")
  <2>1. Moved(j) /\ jobs'[j].pc = "spoken"
    BY <1>1, <1>2, ToIs, StopsAre DEF Think
  <2>2. QED
    BY <1>1, <2>1, PrivateKeeps DEF Think
<1>3. ASSUME NEW a \in Replies,
             jobs' = [jobs EXCEPT ![j].thought = TRUE, ![j].delta = a.delta, ![j].goto = a.goto,
                                  ![j].pc = IF a.delta = 0 THEN "burn" ELSE "get"]
      PROVE  SocialInvariant' /\ CallsOnlyEnd
  <2>1. PICK r : r = [jobs[j] EXCEPT !.thought = TRUE, !.delta = a.delta, !.goto = a.goto,
                                     !.pc = IF a.delta = 0 THEN "burn" ELSE "get"]
    OBVIOUS
  <2>2. /\ DOMAIN r = Fields
        /\ \A f \in Fields \ {"thought", "delta", "goto", "pc"} : r[f] = jobs[j][f]
    BY <1>1, <2>1 DEF JobOK
  <2>3. r.pc \in {"burn", "get"}
    BY <1>1, <2>1 DEF JobOK, Fields
  <2>4. /\ r.kind = jobs[j].kind /\ r.npc = jobs[j].npc /\ r.other = jobs[j].other
        /\ r.hushed = jobs[j].hushed /\ r.root = jobs[j].root
    BY <2>2 DEF Fields
  <2>5. JobOK(r)
    BY <1>1, <2>2, <2>3, <2>4, StopsAre DEF JobOK
  <2>6. jobs' = [jobs EXCEPT ![j] = r]
    BY <1>3, <2>1 DEF SocialInvariant, SocialTypeOK
  <2>7. Moved(j) /\ jobs'[j] = r
    BY <1>1, <2>4, <2>5, <2>6, MovedIs DEF Think, SocialInvariant
  <2>8. QED
    BY <1>1, <2>3, <2>4, <2>7, PrivateKeeps DEF Think
<1>4. QED
  BY <1>2, <1>3 DEF Think

LEMMA RelGetKeeps ==
    ASSUME SocialInvariant, NEW j \in DOMAIN jobs, RelGet(j)
    PROVE  SocialInvariant' /\ CallsOnlyEnd
<1>1. /\ JobOK(jobs[j]) /\ j \in Running /\ jobs[j].pc = "get"
      /\ jobs[j].kind \in {"talk", "adjust", "theft"}
  BY RunsAt, StopsOf DEF RelGet, At
<1>2. PICK r : r = [jobs[j] EXCEPT !.aff = rel[Pair(j)], !.pc = "set"]
  OBVIOUS
<1>3. /\ DOMAIN r = Fields /\ (\A f \in Fields \ {"aff", "pc"} : r[f] = jobs[j][f])
      /\ r.pc = "set" /\ r.aff = rel[Pair(j)]
  BY <1>1, <1>2 DEF JobOK, Fields
<1>4. /\ r.kind = jobs[j].kind /\ r.npc = jobs[j].npc /\ r.other = jobs[j].other
      /\ r.hushed = jobs[j].hushed /\ r.root = jobs[j].root /\ r.thought = jobs[j].thought
  BY <1>3 DEF Fields
<1>5. JobOK(r)
  BY <1>1, <1>3, <1>4, StopsOf DEF JobOK
<1>6. jobs' = [jobs EXCEPT ![j] = r]
  BY <1>2 DEF RelGet, SocialInvariant, SocialTypeOK
<1>7. Moved(j) /\ jobs'[j] = r
  BY <1>1, <1>4, <1>5, <1>6, MovedIs DEF RelGet, SocialInvariant
<1>8. QED
  BY <1>1, <1>3, <1>4, <1>7, PrivateKeeps DEF RelGet

LEMMA ReadIndexKeeps ==
    ASSUME SocialInvariant, NEW j \in DOMAIN jobs, ReadIndex(j)
    PROVE  SocialInvariant' /\ CallsOnlyEnd
<1>1. /\ JobOK(jobs[j]) /\ j \in Running /\ jobs[j].pc = "readIndex"
      /\ jobs[j].kind \in {"talk", "adjust", "theft"}
  BY RunsAt, StopsOf DEF ReadIndex, At
<1>2. PICK r : r = [jobs[j] EXCEPT !.index = relIndex, !.pc = "writeIndex"]
  OBVIOUS
<1>3. /\ DOMAIN r = Fields /\ (\A f \in Fields \ {"index", "pc"} : r[f] = jobs[j][f])
      /\ r.pc = "writeIndex" /\ r.index = relIndex
  BY <1>1, <1>2 DEF JobOK, Fields
<1>4. /\ r.kind = jobs[j].kind /\ r.npc = jobs[j].npc /\ r.other = jobs[j].other
      /\ r.hushed = jobs[j].hushed /\ r.root = jobs[j].root /\ r.thought = jobs[j].thought
  BY <1>3 DEF Fields
<1>5. JobOK(r)
  BY <1>1, <1>3, <1>4, StopsOf DEF JobOK
<1>6. jobs' = [jobs EXCEPT ![j] = r]
  BY <1>2 DEF ReadIndex, SocialInvariant, SocialTypeOK
<1>7. Moved(j) /\ jobs'[j] = r
  BY <1>1, <1>4, <1>5, <1>6, MovedIs DEF ReadIndex, SocialInvariant
<1>8. QED
  BY <1>1, <1>3, <1>4, <1>7, PrivateKeeps DEF ReadIndex

LEMMA BurnKeeps ==
    ASSUME SocialInvariant, NEW j \in DOMAIN jobs, Burn(j)
    PROVE  SocialInvariant' /\ CallsOnlyEnd
<1>1. /\ JobOK(jobs[j]) /\ j \in Running /\ jobs[j].pc = "burn" /\ jobs[j].kind = "talk"
  BY RunsAt, StopsOf DEF Burn, At
<1>2. Moved(j) /\ jobs'[j].pc = "spoken"
  BY <1>1, ToIs, StopsAre DEF Burn
<1>3. QED
  BY <1>1, <1>2, PrivateKeeps DEF Burn

LEMMA DiscernKeeps ==
    ASSUME SocialInvariant, NEW j \in DOMAIN jobs, Discern(j)
    PROVE  SocialInvariant' /\ CallsOnlyEnd
<1>1. /\ JobOK(jobs[j]) /\ j \in Running /\ jobs[j].pc = "discern" /\ jobs[j].kind = "pitch"
  BY RunsAt, StopsOf DEF Discern, At
<1>2. PICK r : r = [jobs[j] EXCEPT !.corpus = Corpus(jobs[j].npc),
                                   !.pc = IF Discerns(jobs[j].npc, jobs[j].other) THEN "done" ELSE "pay"]
  OBVIOUS
<1>3. DOMAIN r = Fields /\ (\A f \in Fields \ {"corpus", "pc"} : r[f] = jobs[j][f])
  BY <1>1, <1>2 DEF JobOK
<1>4. /\ r.corpus = Corpus(jobs[j].npc)
      /\ r.pc = IF Discerns(jobs[j].npc, jobs[j].other) THEN "done" ELSE "pay"
  BY <1>1, <1>2 DEF JobOK, Fields
<1>5. /\ r.kind = jobs[j].kind /\ r.npc = jobs[j].npc /\ r.other = jobs[j].other
      /\ r.hushed = jobs[j].hushed /\ r.root = jobs[j].root /\ r.thought = jobs[j].thought
  BY <1>3 DEF Fields
<1>6. JobOK(r)
  BY <1>1, <1>3, <1>4, <1>5, StopsAre DEF JobOK
<1>7. jobs' = [jobs EXCEPT ![j] = r]
  BY <1>2 DEF Discern, SocialInvariant, SocialTypeOK
<1>8. Moved(j) /\ jobs'[j] = r
  BY <1>1, <1>5, <1>6, <1>7, MovedIs DEF Discern, SocialInvariant
<1>9. r.pc = "pay" => ~Wary(jobs[j].npc, jobs[j].other, Corpus(jobs[j].npc))
  BY <1>4 DEF Discerns, Wary
<1>10. QED
  BY <1>1, <1>4, <1>5, <1>8, <1>9, PrivateKeeps DEF Discern

LEMMA LearnFailsKeeps ==
    ASSUME SocialInvariant, NEW j \in DOMAIN jobs, LearnFails(j)
    PROVE  SocialInvariant' /\ CallsOnlyEnd
<1>1. /\ JobOK(jobs[j]) /\ j \in Running /\ jobs[j].pc = "learn"
      /\ jobs[j].kind \in {"theft", "pitch", "gossip"}
  BY RunsAt, StopsOf DEF LearnFails, At
<1>2. PICK pc : pc = IF jobs[j].kind = "gossip" THEN "failed" ELSE "done"
  OBVIOUS
<1>3. pc \in Stops[jobs[j].kind] /\ To(j, pc)
  BY <1>1, <1>2, StopsAre DEF LearnFails
<1>4. Moved(j) /\ jobs'[j].pc = pc
  BY <1>1, <1>3, ToIs DEF LearnFails
<1>5. QED
  BY <1>1, <1>2, <1>4, PrivateKeeps DEF LearnFails

\* Two calls that may not overlap do not, on a host where nobody overhears.
LEMMA AllAreCalls ==
    ASSUME SocialInvariant, ~shost.overhear
    PROVE  Running \subseteq HostCalls
BY DEF SocialInvariant, RootsOK, Running, HostCalls

LEMMA RelSetKeeps ==
    ASSUME SocialInvariant, NEW j \in DOMAIN jobs, RelSet(j)
    PROVE  SocialInvariant' /\ CallsOnlyEnd
<1>1. /\ JobOK(jobs[j]) /\ j \in Running /\ jobs[j].pc = "set"
      /\ jobs[j].kind \in {"talk", "adjust", "theft"}
  BY RunsAt, StopsOf DEF RelSet, At
<1>2. Moved(j) /\ jobs'[j].pc = "readIndex"
  <2>1. "readIndex" \in Stops[jobs[j].kind] /\ jobs[j].kind # "overhear"
    BY <1>1, StopsAre
  <2>2. QED
    BY <1>1, <2>1, ToIs DEF RelSet
<1>3. PICK p : p = Pair(j)
  OBVIOUS
<1>4. PICK x : x = jobs[j].aff + jobs[j].delta
  OBVIOUS
<1>5. /\ rel' = [rel EXCEPT ![p] = x]
      /\ felt' = [felt EXCEPT ![p] = felt[p] + jobs[j].delta]
      /\ UNCHANGED <<shost, minted, relIndex, beliefs, losses>>
  BY <1>3, <1>4 DEF RelSet
<1>6. SocialTypeOK'
  BY <1>2, <1>5, TypeKept DEF SocialInvariant, SocialTypeOK
<1>7. /\ DOMAIN jobs' = DOMAIN jobs /\ Pair(j)' = p
      /\ \A i \in DOMAIN jobs : i # j => /\ jobs'[i] = jobs[i] /\ Pair(i)' = Pair(i)
                                         /\ \A pc : At(i, pc)' = At(i, pc)
  BY <1>2, <1>3, MovedKeeps, OthersKept DEF Moved
<1>8. RelOK'
  <2>1. SUFFICES ASSUME ~shost.overhear, shost.apart \/ shost.lanes = 1
                 PROVE  /\ rel' = felt'
                        /\ \A i \in DOMAIN jobs : At(i, "set")' => jobs'[i].aff = rel'[Pair(i)']
    BY <1>5, <1>7 DEF RelOK
  <2>2. rel = felt /\ \A i \in DOMAIN jobs : At(i, "set") => jobs[i].aff = rel[Pair(i)]
    BY <2>1 DEF SocialInvariant, RelOK
  <2>3. x = felt[p] + jobs[j].delta
    BY <1>1, <1>3, <1>4, <2>2 DEF At
  <2>4. ASSUME NEW i \in DOMAIN jobs, At(i, "set")'
        PROVE  jobs'[i].aff = rel'[Pair(i)']
    <3>1. i # j
      BY <1>2, <2>4 DEF At
    <3>2. At(i, "set") /\ jobs'[i] = jobs[i] /\ Pair(i)' = Pair(i)
      BY <1>7, <2>4, <3>1
    <3>3. i \in Running
      BY <3>2 DEF At, Running
    <3>4. Pair(i) # p
      BY <1>1, <1>3, <2>1, <3>1, <3>3, AllAreCalls DEF SocialInvariant, LanesOK
    <3>5. rel'[Pair(i)] = rel[Pair(i)]
      BY <1>5, <3>4
    <3>6. QED
      BY <2>2, <3>2, <3>5
  <2>5. QED
    BY <1>5, <2>2, <2>3, <2>4
<1>9. IndexOK'
  <2>1. SUFFICES ASSUME ~shost.overhear, shost.lanes = 1
                 PROVE  IndexOK'
    BY <1>5 DEF IndexOK
  <2>2. ASSUME NEW q \in Pairs, rel'[q] # 0, q \notin relIndex
        PROVE  \E i \in DOMAIN jobs : Pair(i)' = q /\ (At(i, "readIndex")' \/ At(i, "writeIndex")')
    <3>1. CASE q = p
      BY <1>2, <1>7, <3>1 DEF At
    <3>2. CASE q # p
      <4>1. rel[q] # 0
        BY <1>5, <2>2, <3>2
      <4>2. PICK i \in DOMAIN jobs : Pair(i) = q /\ (At(i, "readIndex") \/ At(i, "writeIndex"))
        BY <2>1, <2>2, <4>1 DEF SocialInvariant, IndexOK
      <4>3. i # j
        BY <1>3, <3>2, <4>2
      <4>4. QED
        BY <1>7, <4>2, <4>3
    <3>3. QED
      BY <3>1, <3>2
  <2>3. ASSUME NEW i \in DOMAIN jobs, At(i, "writeIndex")'
        PROVE  jobs'[i].index = relIndex
    <3>1. i # j
      BY <1>2, <2>3 DEF At
    <3>2. QED
      BY <1>7, <2>1, <2>3, <3>1 DEF SocialInvariant, IndexOK
  <2>4. QED
    BY <1>5, <1>7, <2>2, <2>3 DEF IndexOK
<1>10. FearOK'
  BY <1>1, <1>2, <1>5, FearKept
<1>11. QED
  BY <1>2, <1>6, <1>8, <1>9, <1>10, MovedKeeps DEF SocialInvariant, CallsOnlyEnd

LEMMA WriteIndexKeeps ==
    ASSUME SocialInvariant, NEW j \in DOMAIN jobs, WriteIndex(j)
    PROVE  SocialInvariant' /\ CallsOnlyEnd
<1>1. /\ JobOK(jobs[j]) /\ j \in Running /\ jobs[j].pc = "writeIndex"
      /\ jobs[j].kind \in {"talk", "adjust", "theft"}
  BY RunsAt, StopsOf DEF WriteIndex, At
<1>2. PICK pc : pc = AfterIndex[jobs[j].kind]
  OBVIOUS
<1>3. /\ pc \in Stops[jobs[j].kind] /\ pc \in {"burn", "done", "learn"}
      /\ pc = "done" => jobs[j].kind = "adjust"
  BY <1>1, <1>2, StopsAre DEF AfterIndex
<1>4. Moved(j) /\ jobs'[j].pc = pc
  BY <1>1, <1>2, <1>3, ToIs DEF WriteIndex
<1>5. PICK p : p = Pair(j)
  OBVIOUS
<1>6. /\ relIndex' = IF p \in jobs[j].index THEN relIndex ELSE jobs[j].index \cup {p}
      /\ UNCHANGED <<shost, minted, rel, felt, beliefs, losses>>
  BY <1>5 DEF WriteIndex
<1>7. SocialTypeOK'
  BY <1>4, <1>6, TypeKept DEF SocialInvariant, SocialTypeOK
<1>8. RelOK' /\ FearOK'
  BY <1>1, <1>3, <1>4, <1>6, RelKept, FearKept
<1>9. /\ DOMAIN jobs' = DOMAIN jobs
      /\ \A i \in DOMAIN jobs : i # j => /\ jobs'[i] = jobs[i] /\ Pair(i)' = Pair(i)
                                         /\ \A x : At(i, x)' = At(i, x)
  BY <1>4, OthersKept DEF Moved
<1>10. IndexOK'
  <2>1. SUFFICES ASSUME ~shost.overhear, shost.lanes = 1
                 PROVE  IndexOK'
    BY <1>6 DEF IndexOK
  <2>2. relIndex \cup {p} = relIndex'
    BY <1>1, <1>6, <2>1 DEF SocialInvariant, IndexOK, At
  <2>3. ASSUME NEW q \in Pairs, rel'[q] # 0, q \notin relIndex'
        PROVE  \E i \in DOMAIN jobs : Pair(i)' = q /\ (At(i, "readIndex")' \/ At(i, "writeIndex")')
    <3>1. PICK i \in DOMAIN jobs : Pair(i) = q /\ (At(i, "readIndex") \/ At(i, "writeIndex"))
      BY <1>6, <2>1, <2>2, <2>3 DEF SocialInvariant, IndexOK
    <3>2. i # j
      BY <1>5, <2>2, <2>3, <3>1
    <3>3. QED
      BY <1>9, <3>1, <3>2
  <2>4. ASSUME NEW i \in DOMAIN jobs
        PROVE  ~At(i, "writeIndex")'
    <3>1. CASE i = j
      BY <1>3, <1>4, <3>1 DEF At
    <3>2. CASE i # j
      <4>1. SUFFICES ASSUME At(i, "writeIndex")
                     PROVE  FALSE
        BY <1>9, <3>2
      <4>2. i \in Running
        BY <4>1 DEF At, Running
      <4>3. QED
        BY <1>1, <2>1, <3>2, <4>2, AllAreCalls DEF SocialInvariant, LanesOK
    <3>3. QED
      BY <3>1, <3>2
  <2>5. QED
    BY <1>6, <1>9, <2>3, <2>4 DEF IndexOK
<1>11. QED
  BY <1>4, <1>7, <1>8, <1>10, MovedKeeps DEF SocialInvariant, CallsOnlyEnd

\* Pitches, thefts and gossip are calls of the host, one at a time in one lane.
LEMMA CallsAlone ==
    ASSUME SocialInvariant, NEW j \in Running, jobs[j].kind \in {"theft", "pitch", "gossip"}
    PROVE  /\ j \in HostCalls /\ Pair(j) \in Folk \X (Folk \cup Visitors)
           /\ shost.lanes = 1 =>
                \A i \in Running : jobs[i].kind \in {"theft", "pitch", "gossip"} => i = j
<1>1. ASSUME NEW i \in Running, jobs[i].kind \in {"theft", "pitch", "gossip"}
      PROVE  i \in HostCalls
  BY <1>1 DEF SocialInvariant, RootsOK, Running, HostCalls
<1>2. j \in HostCalls /\ jobs[j].root = j /\ j \in DOMAIN jobs
  BY <1>1 DEF HostCalls
<1>3. QED
  BY <1>1, <1>2 DEF SocialInvariant, RootsOK, LanesOK

LEMMA PayKeeps ==
    ASSUME SocialInvariant, NEW j \in DOMAIN jobs, Pay(j)
    PROVE  SocialInvariant' /\ CallsOnlyEnd
<1>1. /\ JobOK(jobs[j]) /\ j \in Running /\ jobs[j].pc = "pay" /\ jobs[j].kind = "pitch"
  BY RunsAt, StopsOf DEF Pay, At
<1>2. PICK m : m = Min({jobs[j].delta, jobs[j].seen})
  OBVIOUS
<1>3. PICK r : r = [jobs[j] EXCEPT !.paid = m, !.pc = "learn"]
  OBVIOUS
<1>4. DOMAIN r = Fields /\ (\A f \in Fields \ {"paid", "pc"} : r[f] = jobs[j][f]) /\ r.pc = "learn"
  BY <1>1, <1>3 DEF JobOK, Fields
<1>5. /\ r.kind = jobs[j].kind /\ r.npc = jobs[j].npc /\ r.other = jobs[j].other
      /\ r.hushed = jobs[j].hushed /\ r.root = jobs[j].root /\ r.thought = jobs[j].thought
      /\ r.corpus = jobs[j].corpus
  BY <1>4 DEF Fields
<1>6. JobOK(r)
  BY <1>1, <1>4, <1>5, StopsAre DEF JobOK
<1>7. jobs' = [jobs EXCEPT ![j] = r]
  BY <1>2, <1>3 DEF Pay, SocialInvariant, SocialTypeOK
<1>8. Moved(j) /\ jobs'[j] = r
  BY <1>1, <1>5, <1>6, <1>7, MovedIs DEF Pay, SocialInvariant
<1>9. PICK p : p = Pair(j)
  OBVIOUS
<1>10. /\ losses' = [losses EXCEPT ![p] = losses[p] + 1]
       /\ UNCHANGED <<shost, minted, rel, relIndex, felt, beliefs>>
  BY <1>9 DEF Pay
<1>11. SocialTypeOK'
  BY <1>8, <1>10, TypeKept DEF SocialInvariant, SocialTypeOK
<1>12. RelOK' /\ IndexOK'
  BY <1>1, <1>4, <1>8, <1>10, RelKept, IndexKept
<1>13. /\ DOMAIN jobs' = DOMAIN jobs /\ Pair(j)' = p
       /\ \A i \in DOMAIN jobs : i # j => /\ jobs'[i] = jobs[i] /\ Pair(i)' = Pair(i)
                                          /\ \A pc : At(i, pc)' = At(i, pc)
  BY <1>8, <1>9, MovedKeeps, OthersKept DEF Moved
<1>14. FearOK'
  <2>1. SUFFICES ASSUME shost.lanes = 1, ~shost.flaky
                 PROVE  FearOK'
    BY <1>10 DEF FearOK
  <2>2. BeliefsOK /\ (\A i \in DOMAIN jobs : PitchOK(i) /\ WarnedOK(i)) /\ (\A q \in Pairs : LossOK(q))
    BY <2>1 DEF SocialInvariant, FearOK
  <2>3. BeliefsOK' /\ (\A n : Steady(n)' = Steady(n) /\ Corpus(n)' = Corpus(n))
        /\ (\A n, x, c : Wary(n, x, c)' = Wary(n, x, c)) /\ (\A q, c : Scarred(q, c)' = Scarred(q, c))
    BY <1>10, <2>2 DEF BeliefsOK, Steady, Corpus, Wary, Scarred
  <2>4. PICK c : c = jobs[j].corpus
    OBVIOUS
  <2>5. /\ c \in Corpora /\ (Steady(jobs[j].npc) => c = Corpus(jobs[j].npc))
        /\ ~Wary(jobs[j].npc, jobs[j].other, c)
    BY <1>1, <2>2, <2>4 DEF PitchOK, At
  <2>6. ASSUME NEW i \in DOMAIN jobs
        PROVE  PitchOK(i)' /\ WarnedOK(i)'
    <3>1. CASE i = j
      <4>1. PICK n : n = jobs[j].npc
        OBVIOUS
      <4>2. r.npc = n /\ Steady(n)' = Steady(n) /\ Corpus(n)' = Corpus(n) /\ (Steady(n) => c = Corpus(n))
        BY <1>5, <2>3, <2>5, <4>1
      <4>3. QED
        BY <1>4, <1>5, <1>8, <2>4, <2>5, <3>1, <4>2 DEF PitchOK, WarnedOK, At
    <3>2. CASE i # j
      <4>1. jobs'[i] = jobs[i] /\ PitchOK(i) /\ WarnedOK(i)
        BY <1>13, <2>2, <3>2
      <4>2. PICK s : s = jobs[i]
        OBVIOUS
      <4>3. PitchOK(i)'
        BY <2>3, <4>1, <4>2 DEF PitchOK, At
      <4>4. PICK d : d = Corpus(s.npc)
        OBVIOUS
      <4>5. Corpus(s.npc)' = d /\ Steady(s.npc)' = Steady(s.npc)
            /\ Wary(s.npc, s.other, d)' = Wary(s.npc, s.other, d)
        BY <2>3, <4>4
      <4>6. WarnedOK(i) <=>
                /\ s.pc # "failed"
                /\ s.pc = "done" /\ Steady(s.npc)
                   /\ (s.kind = "theft" \/ (s.kind = "gossip" /\ shost.hearsay))
                   => Wary(s.npc, s.other, d)
        BY <4>2, <4>4 DEF WarnedOK, At
      <4>7. WarnedOK(i)' <=>
                /\ s.pc # "failed"
                /\ s.pc = "done" /\ Steady(s.npc)
                   /\ (s.kind = "theft" \/ (s.kind = "gossip" /\ shost.hearsay))
                   => Wary(s.npc, s.other, d)'
        BY <1>10, <4>1, <4>2, <4>5 DEF WarnedOK, At
      <4>8. QED
        BY <4>1, <4>3, <4>5, <4>6, <4>7
    <3>3. QED
      BY <3>1, <3>2
  <2>7. ASSUME NEW q, NEW d, Learning(q, d)
        PROVE  Learning(q, d)' /\ ~(q = p /\ d = c)
    <3>1. PICK i \in DOMAIN jobs : Pair(i) = q /\ jobs[i].kind = "pitch" /\ At(i, "learn") /\ jobs[i].corpus = d
      BY <2>7 DEF Learning
    <3>2. i # j /\ i \in Running
      BY <1>1, <3>1 DEF At, Running
    <3>3. FALSE
      BY <1>1, <2>1, <3>1, <3>2, CallsAlone
    <3>4. QED
      BY <3>3
  <2>8. p \in Folk \X (Folk \cup Visitors) /\ p[1] = jobs[j].npc /\ p[2] = jobs[j].other
    BY <1>1, <1>9, CallsAlone DEF Pair
  <2>9. ~Knows(p, c)
    <3>1. ~Scarred(p, c)
      BY <2>5, <2>8 DEF Scarred, Wary
    <3>2. QED
      BY <2>7, <3>1 DEF Knows
  <2>10. Knows(p, c)'
    <3>1. Learning(p, c)'
      BY <1>1, <1>4, <1>5, <1>8, <1>13, <2>4 DEF Learning, At
    <3>2. QED
      BY <3>1 DEF Knows
  <2>11. ASSUME NEW q, NEW d, Knows(q, d)
         PROVE  Knows(q, d)'
    BY <2>3, <2>7, <2>11 DEF Knows
  <2>12. ASSUME NEW q \in Pairs
         PROVE  LossOK(q)'
    <3>1. LossOK(q)
      BY <2>2
    <3>2. (Knows(q, "world") => Knows(q, "world")') /\ (Knows(q, "agent") => Knows(q, "agent")')
      BY <2>11
    <3>3. CASE q = p
      <4>1. losses'[q] = losses[q] + 1
        BY <1>10, <3>3 DEF SocialInvariant, SocialTypeOK
      <4>2. CASE c = "world"
        BY <2>9, <2>10, <3>1, <3>2, <3>3, <4>1, <4>2 DEF LossOK, OneIf
      <4>3. CASE c = "agent"
        BY <2>9, <2>10, <3>1, <3>2, <3>3, <4>1, <4>3 DEF LossOK, OneIf
      <4>4. QED
        BY <2>5, <4>2, <4>3 DEF Corpora
    <3>4. CASE q # p
      <4>1. losses'[q] = losses[q]
        BY <1>10, <3>4 DEF SocialInvariant, SocialTypeOK
      <4>2. QED
        BY <3>1, <3>2, <4>1 DEF LossOK, OneIf
    <3>5. QED
      BY <3>3, <3>4
  <2>13. QED
    BY <1>10, <1>13, <2>3, <2>6, <2>12 DEF FearOK
<1>15. QED
  BY <1>8, <1>11, <1>12, <1>14, MovedKeeps DEF SocialInvariant, CallsOnlyEnd

LEMMA LearnKeeps ==
    ASSUME SocialInvariant, NEW j \in DOMAIN jobs, Learn(j)
    PROVE  SocialInvariant' /\ CallsOnlyEnd
<1>1. /\ JobOK(jobs[j]) /\ j \in Running /\ jobs[j].pc = "learn"
      /\ jobs[j].kind \in {"theft", "pitch", "gossip"}
  BY RunsAt, StopsOf DEF Learn, At
<1>2. Moved(j) /\ jobs'[j].pc = "done" /\ jobs'[j].corpus = jobs[j].corpus
  BY <1>1, ToIs, StopsAre DEF Learn
<1>3. PICK n : n = jobs[j].npc
  OBVIOUS
<1>4. PICK b : b = [about |-> jobs[j].other, self |-> jobs[j].kind # "gossip",
                    at |-> IF jobs[j].kind = "pitch" THEN jobs[j].corpus ELSE Corpus(n)]
  OBVIOUS
<1>5. /\ beliefs' = [beliefs EXCEPT ![n] = beliefs[n] \cup {b}]
      /\ UNCHANGED <<shost, minted, rel, relIndex, felt, losses>>
  BY <1>3, <1>4 DEF Learn
<1>6. SocialTypeOK'
  BY <1>2, <1>5, TypeKept DEF SocialInvariant, SocialTypeOK
<1>7. RelOK' /\ IndexOK'
  BY <1>1, <1>2, <1>5, RelKept, IndexKept
<1>8. /\ DOMAIN jobs' = DOMAIN jobs /\ Same(j)
      /\ \A i \in DOMAIN jobs : i # j => /\ jobs'[i] = jobs[i] /\ Pair(i)' = Pair(i)
                                         /\ \A pc : At(i, pc)' = At(i, pc)
  BY <1>2, OthersKept DEF Moved
<1>9. /\ b.about = jobs[j].other /\ (b.self <=> jobs[j].kind # "gossip")
      /\ b.at = IF jobs[j].kind = "pitch" THEN jobs[j].corpus ELSE Corpus(n)
  BY <1>4
<1>10. n \in Folk /\ Pair(j) = <<n, jobs[j].other>>
  BY <1>1, <1>3, CallsAlone DEF Pair
<1>11. FearOK'
  <2>1. SUFFICES ASSUME shost.lanes = 1, ~shost.flaky
                 PROVE  FearOK'
    BY <1>5 DEF FearOK
  <2>2. BeliefsOK /\ (\A i \in DOMAIN jobs : PitchOK(i) /\ WarnedOK(i)) /\ (\A q \in Pairs : LossOK(q))
    BY <2>1 DEF SocialInvariant, FearOK
  <2>3. \A m : Steady(m)' = Steady(m) /\ Corpus(m)' = Corpus(m)
    BY <1>5 DEF Steady, Corpus
  <2>4. /\ beliefs'[n] = beliefs[n] \cup {b}
        /\ \A m \in Folk : beliefs[m] \subseteq beliefs'[m] /\ (m # n => beliefs'[m] = beliefs[m])
    BY <1>5, <1>10 DEF SocialInvariant, SocialTypeOK
  <2>5. b.at \in Corpora /\ (Steady(n) => b.at = Corpus(n))
    <3>1. Corpus(n) \in Corpora
      BY DEF Corpus, Corpora
    <3>2. jobs[j].kind = "pitch" =>
            jobs[j].corpus \in Corpora /\ (Steady(n) => jobs[j].corpus = Corpus(n))
      BY <1>1, <1>3, <2>2 DEF PitchOK
    <3>3. QED
      BY <1>9, <3>1, <3>2
  <2>6. BeliefsOK'
    <3>1. ASSUME NEW m \in Folk, NEW x \in beliefs'[m]
          PROVE  x.at \in Corpora /\ (Steady(m)' => x.at = Corpus(m)')
      <4>1. CASE x \in beliefs[m]
        BY <2>2, <2>3, <4>1 DEF BeliefsOK
      <4>2. CASE x \notin beliefs[m]
        <5>1. m = n /\ x = b
          BY <2>4, <3>1, <4>2
        <5>2. QED
          BY <2>3, <2>5, <5>1
      <4>3. QED
        BY <4>1, <4>2
    <3>2. QED
      BY <3>1 DEF BeliefsOK
  <2>7. ASSUME NEW i \in DOMAIN jobs
        PROVE  PitchOK(i)'
    <3>1. SUFFICES ASSUME jobs'[i].kind = "pitch", jobs'[i].pc \in {"pay", "learn"}
                   PROVE  FALSE
      BY DEF PitchOK
    <3>2. i # j
      BY <1>2, <3>1
    <3>3. jobs[i].kind = "pitch" /\ i \in Running
      BY <1>8, <3>1, <3>2 DEF Running
    <3>4. QED
      BY <1>1, <2>1, <3>2, <3>3, CallsAlone
  <2>8. ASSUME NEW i \in DOMAIN jobs
        PROVE  WarnedOK(i)'
    <3>1. PICK s : s = jobs[i]
      OBVIOUS
    <3>2. PICK t : t = jobs'[i]
      OBVIOUS
    <3>3. PICK d : d = Corpus(s.npc)
      OBVIOUS
    <3>4. t.kind = s.kind /\ t.npc = s.npc /\ t.other = s.other
      BY <1>8, <3>1, <3>2 DEF Same
    <3>5. WarnedOK(i)' <=>
              /\ t.pc # "failed"
              /\ t.pc = "done" /\ Steady(s.npc)
                 /\ (s.kind = "theft" \/ (s.kind = "gossip" /\ shost.hearsay))
                 => Wary(s.npc, s.other, d)'
      <4>1. Corpus(s.npc)' = d /\ Steady(s.npc)' = Steady(s.npc)
        BY <2>3, <3>3
      <4>2. QED
        BY <1>5, <3>2, <3>4, <4>1 DEF WarnedOK, At
    <3>6. CASE i = j
      <4>1. t.pc = "done" /\ s.npc = n /\ s.other = jobs[j].other /\ s.kind = jobs[j].kind
        BY <1>2, <1>3, <3>1, <3>2, <3>6
      <4>2. ASSUME s.kind = "theft" \/ (s.kind = "gossip" /\ shost.hearsay)
            PROVE  Wary(s.npc, s.other, d)'
        <5>1. b.about = s.other /\ b.at = d /\ (b.self \/ shost.hearsay)
          BY <1>9, <3>3, <4>1, <4>2
        <5>2. b \in beliefs'[s.npc]
          BY <2>4, <4>1
        <5>3. QED
          BY <1>5, <5>1, <5>2 DEF Wary
      <4>3. QED
        BY <3>5, <4>1, <4>2
    <3>7. CASE i # j
      <4>1. t = s /\ WarnedOK(i)
        BY <1>8, <2>2, <3>1, <3>2, <3>7
      <4>2. /\ s.pc # "failed"
            /\ s.pc = "done" /\ Steady(s.npc)
               /\ (s.kind = "theft" \/ (s.kind = "gossip" /\ shost.hearsay))
               => Wary(s.npc, s.other, d)
        BY <3>1, <3>3, <4>1 DEF WarnedOK, At
      <4>3. ASSUME s.kind \in {"theft", "gossip"}
            PROVE  s.npc \in Folk
        <5>1. jobs[i].root = i /\ i \in HostCalls
          BY <3>1, <4>3 DEF SocialInvariant, RootsOK, HostCalls
        <5>2. QED
          BY <3>1, <5>1 DEF SocialInvariant, RootsOK, Pair
      <4>4. s.npc \in Folk /\ Wary(s.npc, s.other, d) => Wary(s.npc, s.other, d)'
        BY <1>5, <2>4 DEF Wary
      <4>5. QED
        BY <3>5, <4>1, <4>2, <4>3, <4>4
    <3>8. QED
      BY <3>6, <3>7
  <2>9. ASSUME NEW q \in Pairs, q[1] \in Folk, NEW d, Knows(q, d)
        PROVE  Knows(q, d)'
    <3>1. CASE Scarred(q, d)
      <4>1. Scarred(q, d)'
        BY <2>4, <2>9, <3>1 DEF Scarred
      <4>2. QED
        BY <4>1 DEF Knows
    <3>2. CASE Learning(q, d)
      <4>1. PICK i \in DOMAIN jobs :
                Pair(i) = q /\ jobs[i].kind = "pitch" /\ At(i, "learn") /\ jobs[i].corpus = d
        BY <3>2 DEF Learning
      <4>2. i \in Running
        BY <4>1 DEF At, Running
      <4>3. i = j
        BY <1>1, <2>1, <4>1, <4>2, CallsAlone
      <4>4. q[1] = n /\ q[2] = jobs[j].other /\ jobs[j].kind = "pitch" /\ jobs[j].corpus = d
        BY <1>10, <4>1, <4>3
      <4>5. b \in beliefs'[q[1]] /\ b.about = q[2] /\ b.at = d /\ b.self
        BY <1>9, <2>4, <4>4
      <4>6. Scarred(q, d)'
        BY <4>5 DEF Scarred
      <4>7. QED
        BY <4>6 DEF Knows
    <3>3. QED
      BY <2>9, <3>1, <3>2 DEF Knows
  <2>10. ASSUME NEW q \in Pairs
         PROVE  LossOK(q)'
    <3>1. LossOK(q) /\ losses' = losses
      BY <1>5, <2>2
    <3>2. q[1] \in Folk => (Knows(q, "world") => Knows(q, "world")') /\ (Knows(q, "agent") => Knows(q, "agent")')
      BY <2>9
    <3>3. QED
      BY <3>1, <3>2 DEF LossOK, OneIf
  <2>11. QED
    BY <1>5, <1>8, <2>6, <2>7, <2>8, <2>10 DEF FearOK
<1>12. QED
  BY <1>2, <1>6, <1>7, <1>11, MovedKeeps DEF SocialInvariant, CallsOnlyEnd

LEMMA IdleKeeps ==
    ASSUME SocialInvariant, UNCHANGED <<shost, minted, rel, relIndex, beliefs, jobs, felt, losses>>
    PROVE  SocialInvariant'
<1>1. SocialTypeOK' /\ HostCalls' = HostCalls /\ Running' = Running
      /\ \A j : Pair(j)' = Pair(j) /\ (\A pc : At(j, pc)' = At(j, pc))
  BY DEF SocialInvariant, SocialTypeOK, HostCalls, Running, Pair, At
<1>2. RootsOK' /\ LanesOK'
  BY <1>1 DEF SocialInvariant, RootsOK, LanesOK
<1>3. EavesOK'
  <2>1. \A r : Heard(r)' = Heard(r)
    BY DEF Heard
  <2>2. QED
    BY <1>1, <2>1 DEF SocialInvariant, EavesOK
<1>4. RelOK' /\ IndexOK'
  BY <1>1 DEF SocialInvariant, RelOK, IndexOK
<1>5. FearOK'
  <2>1. /\ \A n : Steady(n)' = Steady(n) /\ Corpus(n)' = Corpus(n)
        /\ \A n, x, c : Wary(n, x, c)' = Wary(n, x, c)
        /\ \A p, c : Knows(p, c)' = Knows(p, c)
    BY <1>1 DEF Steady, Corpus, Wary, Knows, Scarred, Learning
  <2>2. SUFFICES ASSUME shost.lanes = 1, ~shost.flaky
                 PROVE  FearOK'
    BY DEF FearOK
  <2>3. BeliefsOK /\ (\A j \in DOMAIN jobs : PitchOK(j) /\ WarnedOK(j)) /\ (\A p \in Pairs : LossOK(p))
    BY <2>2 DEF SocialInvariant, FearOK
  <2>4. BeliefsOK' /\ (\A j \in DOMAIN jobs : PitchOK(j)' /\ WarnedOK(j)')
    BY <1>1, <2>1, <2>3 DEF BeliefsOK, PitchOK, WarnedOK
  <2>5. \A p \in Pairs : LossOK(p)'
    BY <2>1, <2>3 DEF LossOK
  <2>6. QED
    BY <2>4, <2>5 DEF FearOK
<1>6. QED
  BY <1>1, <1>2, <1>3, <1>4, <1>5 DEF SocialInvariant

\* Who is minted does not stay the one it was, and nobody else is touched.
LEMMA MintKeeps ==
    ASSUME SocialInvariant, NEW npc, Mint(npc)
    PROVE  SocialInvariant'
<1>1. /\ UNCHANGED <<shost, rel, relIndex, beliefs, jobs, felt, losses>>
      /\ minted' = minted \cup {npc} /\ npc \notin minted
  BY DEF Mint
<1>2. SocialTypeOK' /\ HostCalls' = HostCalls /\ Running' = Running
      /\ \A j : Pair(j)' = Pair(j) /\ (\A pc : At(j, pc)' = At(j, pc))
  BY <1>1 DEF SocialInvariant, SocialTypeOK, HostCalls, Running, Pair, At
<1>3. RootsOK' /\ LanesOK'
  BY <1>1, <1>2 DEF SocialInvariant, RootsOK, LanesOK
<1>4. EavesOK'
  <2>1. \A r : Heard(r)' = Heard(r)
    BY <1>1 DEF Heard
  <2>2. QED
    BY <1>1, <1>2, <2>1 DEF SocialInvariant, EavesOK
<1>5. RelOK' /\ IndexOK'
  BY <1>1, <1>2 DEF SocialInvariant, RelOK, IndexOK
<1>6. FearOK'
  <2>1. /\ \A n : Steady(n)' => Steady(n) /\ Corpus(n)' = Corpus(n)
        /\ \A n, x, c : Wary(n, x, c)' = Wary(n, x, c)
        /\ \A p, c : Knows(p, c)' = Knows(p, c)
    <3>1. npc \notin shost.agents
      BY <1>1 DEF SocialInvariant, SocialTypeOK
    <3>2. \A n : Steady(n)' => Steady(n) /\ Corpus(n)' = Corpus(n)
      BY <1>1, <3>1 DEF Steady, Corpus
    <3>3. \A n, x, c : Wary(n, x, c)' = Wary(n, x, c)
      BY <1>1 DEF Wary
    <3>4. \A p, c : Knows(p, c)' = Knows(p, c)
      BY <1>1, <1>2 DEF Knows, Scarred, Learning
    <3>5. QED
      BY <3>2, <3>3, <3>4
  <2>2. SUFFICES ASSUME shost.lanes = 1, ~shost.flaky
                 PROVE  FearOK'
    BY <1>1 DEF FearOK
  <2>3. BeliefsOK /\ (\A j \in DOMAIN jobs : PitchOK(j) /\ WarnedOK(j)) /\ (\A p \in Pairs : LossOK(p))
    BY <2>2 DEF SocialInvariant, FearOK
  <2>4. BeliefsOK'
    BY <1>1, <2>1, <2>3 DEF BeliefsOK
  <2>5. ASSUME NEW j \in DOMAIN jobs
        PROVE  PitchOK(j)' /\ WarnedOK(j)'
    <3>1. PICK s : s = jobs[j]
      OBVIOUS
    <3>2. PICK d : d = Corpus(s.npc)
      OBVIOUS
    <3>3. PitchOK(j) /\ WarnedOK(j)
      BY <2>3
    <3>4. (Steady(s.npc)' => Steady(s.npc) /\ Corpus(s.npc)' = d)
          /\ (\A c : Wary(s.npc, s.other, c)' = Wary(s.npc, s.other, c))
      BY <2>1, <3>2
    <3>5. PitchOK(j) <=>
            (s.kind = "pitch" /\ s.pc \in {"pay", "learn"} =>
                /\ s.corpus \in Corpora /\ (Steady(s.npc) => s.corpus = d)
                /\ s.pc = "pay" => ~Wary(s.npc, s.other, s.corpus))
      BY <3>1, <3>2 DEF PitchOK, At
    <3>6. PitchOK(j)' <=>
            (s.kind = "pitch" /\ s.pc \in {"pay", "learn"} =>
                /\ s.corpus \in Corpora /\ (Steady(s.npc)' => s.corpus = Corpus(s.npc)')
                /\ s.pc = "pay" => ~Wary(s.npc, s.other, s.corpus)')
      BY <1>1, <3>1 DEF PitchOK, At
    <3>7. PitchOK(j)'
      BY <3>3, <3>4, <3>5, <3>6
    <3>8. WarnedOK(j) <=>
            /\ s.pc # "failed"
            /\ s.pc = "done" /\ Steady(s.npc)
               /\ (s.kind = "theft" \/ (s.kind = "gossip" /\ shost.hearsay))
               => Wary(s.npc, s.other, d)
      BY <3>1, <3>2 DEF WarnedOK, At
    <3>9. Steady(s.npc)' =>
           (WarnedOK(j)' <=>
            /\ s.pc # "failed"
            /\ s.pc = "done" /\ Steady(s.npc)'
               /\ (s.kind = "theft" \/ (s.kind = "gossip" /\ shost.hearsay))
               => Wary(s.npc, s.other, d)')
      BY <1>1, <3>1, <3>4 DEF WarnedOK, At
    <3>10. ~Steady(s.npc)' => (WarnedOK(j)' <=> s.pc # "failed")
      BY <1>1, <3>1 DEF WarnedOK, At
    <3>11. WarnedOK(j)'
      BY <3>3, <3>4, <3>8, <3>9, <3>10
    <3>12. QED
      BY <3>7, <3>11
  <2>6. \A p \in Pairs : LossOK(p)'
    BY <1>1, <2>1, <2>3 DEF LossOK
  <2>7. QED
    BY <1>1, <2>4, <2>5, <2>6 DEF FearOK
<1>7. QED
  BY <1>2, <1>3, <1>4, <1>5, <1>6 DEF SocialInvariant

-----------------------------------------------------------------------------
(***************************************************************************)
(* Steps that start jobs.                                                  *)
(***************************************************************************)
\* The job has just ended, as a talk or as what follows one.
Ended(i) ==
    /\ Same(i) /\ JobOK(jobs'[i]) /\ jobs[i].kind \in {"talk", "overhear"}
    /\ jobs[i].pc \in {"spoken", "gate"} /\ jobs'[i].pc = "done"

\* The jobs of N have started, beside the ones there are.
Grown(N) ==
    /\ Sequence(jobs') /\ DOMAIN jobs' = DOMAIN jobs \cup N /\ N \cap DOMAIN jobs = {}
    /\ \A i \in DOMAIN jobs : jobs'[i] = jobs[i] \/ Ended(i)
    /\ \A i \in N : /\ JobOK(jobs'[i]) /\ jobs'[i].pc \in {"purse", "get", "learn", "gate"}
                    /\ jobs'[i].pc = "learn" => jobs'[i].kind # "pitch"
    /\ UNCHANGED <<shost, minted, rel, relIndex, beliefs, felt, losses>>

LEMMA GrownPairs ==
    ASSUME NEW N, Grown(N)
    PROVE  \A i \in DOMAIN jobs :
              /\ Same(i) /\ Pair(i)' = Pair(i) /\ i \in DOMAIN jobs'
              /\ jobs[i].pc \notin {"spoken", "gate"} => jobs'[i] = jobs[i]
              /\ (jobs'[i] = jobs[i] \/ jobs'[i].pc = "done")
BY DEF Grown, Ended, Same, Pair

LEMMA GrownKeeps ==
    ASSUME SocialInvariant, NEW N, Grown(N)
    PROVE  SocialTypeOK' /\ RelOK' /\ IndexOK' /\ FearOK'
<1>1. /\ DOMAIN jobs' = DOMAIN jobs \cup N /\ N \cap DOMAIN jobs = {}
      /\ UNCHANGED <<shost, minted, rel, relIndex, beliefs, felt, losses>>
  BY DEF Grown
<1>2. \A i \in DOMAIN jobs : /\ Same(i) /\ Pair(i)' = Pair(i)
                             /\ jobs[i].pc \notin {"spoken", "gate"} => jobs'[i] = jobs[i]
                             /\ (jobs'[i] = jobs[i] \/ jobs'[i].pc = "done")
  BY GrownPairs
<1>3. \A i \in N : jobs'[i].pc \in {"purse", "get", "learn", "gate"}
                   /\ (jobs'[i].pc = "learn" => jobs'[i].kind # "pitch")
  BY DEF Grown
<1>4. SocialTypeOK'
  BY DEF SocialInvariant, SocialTypeOK, Grown, Ended
<1>5. RelOK'
  <2>1. SUFFICES ASSUME ~shost.overhear, shost.apart \/ shost.lanes = 1
                 PROVE  /\ rel = felt
                        /\ \A i \in DOMAIN jobs' : At(i, "set")' => jobs'[i].aff = rel[Pair(i)']
    BY <1>1 DEF RelOK
  <2>2. rel = felt /\ \A i \in DOMAIN jobs : At(i, "set") => jobs[i].aff = rel[Pair(i)]
    BY <2>1 DEF SocialInvariant, RelOK
  <2>3. ASSUME NEW i \in DOMAIN jobs', jobs'[i].pc = "set"
        PROVE  jobs'[i].aff = rel[Pair(i)']
    <3>1. i \in DOMAIN jobs
      BY <1>1, <1>3, <2>3
    <3>2. jobs'[i] = jobs[i] /\ Pair(i)' = Pair(i)
      BY <1>2, <2>3, <3>1
    <3>3. QED
      BY <2>2, <2>3, <3>1, <3>2 DEF At
  <2>4. QED
    BY <2>2, <2>3 DEF At
<1>6. IndexOK'
  <2>1. SUFFICES ASSUME ~shost.overhear, shost.lanes = 1
                 PROVE  IndexOK'
    BY <1>1 DEF IndexOK
  <2>2. ASSUME NEW p \in Pairs, rel[p] # 0, p \notin relIndex
        PROVE  \E i \in DOMAIN jobs' : Pair(i)' = p /\ (At(i, "readIndex")' \/ At(i, "writeIndex")')
    <3>1. PICK i \in DOMAIN jobs : Pair(i) = p /\ (At(i, "readIndex") \/ At(i, "writeIndex"))
      BY <2>1, <2>2 DEF SocialInvariant, IndexOK
    <3>2. jobs'[i] = jobs[i] /\ Pair(i)' = p /\ i \in DOMAIN jobs'
      BY <1>1, <1>2, <3>1 DEF At
    <3>3. QED
      BY <3>1, <3>2 DEF At
  <2>3. ASSUME NEW i \in DOMAIN jobs', jobs'[i].pc = "writeIndex"
        PROVE  jobs'[i].index = relIndex
    <3>1. i \in DOMAIN jobs
      BY <1>1, <1>3, <2>3
    <3>2. jobs'[i] = jobs[i]
      BY <1>2, <2>3, <3>1
    <3>3. QED
      BY <2>1, <2>3, <3>1, <3>2 DEF SocialInvariant, IndexOK, At
  <2>4. QED
    BY <1>1, <2>2, <2>3 DEF IndexOK, At
<1>7. FearOK'
  <2>1. SUFFICES ASSUME shost.lanes = 1, ~shost.flaky
                 PROVE  FearOK'
    BY <1>1 DEF FearOK
  <2>2. BeliefsOK /\ (\A i \in DOMAIN jobs : PitchOK(i) /\ WarnedOK(i)) /\ (\A p \in Pairs : LossOK(p))
    BY <2>1 DEF SocialInvariant, FearOK
  <2>3. BeliefsOK' /\ (\A n : Steady(n)' = Steady(n) /\ Corpus(n)' = Corpus(n))
        /\ (\A n, x, c : Wary(n, x, c)' = Wary(n, x, c)) /\ (\A p, c : Scarred(p, c)' = Scarred(p, c))
    BY <1>1, <2>2 DEF BeliefsOK, Steady, Corpus, Wary, Scarred
  <2>4. ASSUME NEW i \in DOMAIN jobs'
        PROVE  PitchOK(i)' /\ WarnedOK(i)'
    <3>1. CASE i \in DOMAIN jobs /\ jobs'[i] = jobs[i]
      <4>1. PitchOK(i) /\ WarnedOK(i)
        BY <2>2, <3>1
      <4>2. PICK r : r = jobs[i]
        OBVIOUS
      <4>3. PitchOK(i)'
        BY <2>3, <3>1, <4>1, <4>2 DEF PitchOK, At
      <4>4. PICK c : c = Corpus(r.npc)
        OBVIOUS
      <4>5. Corpus(r.npc)' = c /\ Steady(r.npc)' = Steady(r.npc)
            /\ Wary(r.npc, r.other, c)' = Wary(r.npc, r.other, c)
        BY <2>3, <4>4
      <4>6. WarnedOK(i) <=>
                /\ r.pc # "failed"
                /\ r.pc = "done" /\ Steady(r.npc)
                   /\ (r.kind = "theft" \/ (r.kind = "gossip" /\ shost.hearsay))
                   => Wary(r.npc, r.other, c)
        BY <4>2, <4>4 DEF WarnedOK, At
      <4>7. WarnedOK(i)' <=>
                /\ r.pc # "failed"
                /\ r.pc = "done" /\ Steady(r.npc)
                   /\ (r.kind = "theft" \/ (r.kind = "gossip" /\ shost.hearsay))
                   => Wary(r.npc, r.other, c)'
        BY <1>1, <3>1, <4>2, <4>5 DEF WarnedOK, At
      <4>8. QED
        BY <4>1, <4>3, <4>5, <4>6, <4>7
    <3>2. CASE i \in DOMAIN jobs /\ jobs'[i] # jobs[i]
      <4>1. jobs'[i].kind \in {"talk", "overhear"} /\ jobs'[i].pc = "done"
        BY <3>2 DEF Grown, Ended, Same
      <4>2. QED
        BY <4>1 DEF PitchOK, WarnedOK, At
    <3>3. CASE i \in N
      <4>1. /\ jobs'[i].pc \in {"purse", "get", "learn", "gate"}
            /\ jobs'[i].pc = "learn" => jobs'[i].kind # "pitch"
        BY <1>3, <3>3
      <4>2. QED
        BY <4>1 DEF PitchOK, WarnedOK, At
    <3>4. QED
      BY <1>1, <3>1, <3>2, <3>3
  <2>5. ASSUME NEW p, NEW c, Learning(p, c)
        PROVE  Learning(p, c)'
    <3>1. PICK i \in DOMAIN jobs : Pair(i) = p /\ jobs[i].kind = "pitch" /\ At(i, "learn") /\ jobs[i].corpus = c
      BY <2>5 DEF Learning
    <3>2. jobs'[i] = jobs[i] /\ Pair(i)' = p /\ i \in DOMAIN jobs'
      BY <1>1, <1>2, <3>1 DEF At
    <3>3. QED
      BY <3>1, <3>2 DEF Learning, At
  <2>6. ASSUME NEW p \in Pairs
        PROVE  LossOK(p)'
    <3>1. LossOK(p) /\ losses' = losses
      BY <1>1, <2>2
    <3>2. (Knows(p, "world") => Knows(p, "world")') /\ (Knows(p, "agent") => Knows(p, "agent")')
      BY <2>3, <2>5 DEF Knows
    <3>3. QED
      BY <3>1, <3>2 DEF LossOK, OneIf
  <2>7. QED
    BY <1>1, <2>3, <2>4, <2>6 DEF FearOK
<1>8. QED
  BY <1>4, <1>5, <1>6, <1>7

LEMMA JobIs ==
    ASSUME NEW k \in DOMAIN Stops, NEW a, NEW b, NEW d, NEW r, r = Job(k, a, b, d)
    PROVE  /\ DOMAIN r = Fields /\ JobOK(r) /\ r.kind = k /\ r.npc = a /\ r.other = b
           /\ ~r.hushed /\ r.root = Len(jobs) + 1 /\ ~r.thought
           /\ r.pc \in {"purse", "get", "learn", "gate"} /\ (r.pc = "learn" => r.kind = "gossip")
<1>1. /\ r.kind = k /\ r.npc = a /\ r.other = b /\ r.hushed = FALSE /\ r.root = Len(jobs) + 1
      /\ r.thought = FALSE /\ r.pc = FirstStep[k]
  BY DEF Job
<1>2. DOMAIN r = Fields
  BY DEF Job, Fields
<1>3. FirstStep[k] \in Stops[k] /\ FirstStep[k] \in {"purse", "get", "learn", "gate"}
      /\ (FirstStep[k] = "learn" => k = "gossip")
  BY StopsAre DEF FirstStep
<1>4. QED
  BY <1>1, <1>2, <1>3 DEF JobOK

\* A call of the host, in a lane that is free.
LEMMA LaunchKeeps ==
    ASSUME SocialInvariant, NEW kind \in {"talk", "adjust", "theft", "pitch", "gossip"}, NEW npc, NEW other,
           NEW delta, Launch(kind, npc, other, delta), <<npc, other>> \in Folk \X (Folk \cup Visitors),
           shost.lanes = 1 => HostCalls \cap Running = {},
           shost.apart => \A j \in HostCalls \cap Running : Pair(j) # <<npc, other>>
    PROVE  /\ SocialInvariant' /\ Len(jobs) + 1 \notin DOMAIN jobs
           /\ HostCalls' = HostCalls \cup {Len(jobs) + 1}
           /\ HostCalls' \cap Running' \subseteq (HostCalls \cap Running) \cup {Len(jobs) + 1}
<1>1. UNCHANGED <<shost, minted, rel, relIndex, beliefs, felt, losses>>
  BY DEF Launch
<1>2. PICK r : r = Job(kind, npc, other, delta)
  OBVIOUS
<1>3. kind \in DOMAIN Stops
  BY <1>1, StopsAre
<1>4. /\ DOMAIN r = Fields /\ JobOK(r) /\ r.kind = kind /\ r.npc = npc /\ r.other = other
      /\ ~r.hushed /\ r.root = Len(jobs) + 1
      /\ r.pc \in {"purse", "get", "learn", "gate"} /\ (r.pc = "learn" => r.kind = "gossip")
  BY <1>2, <1>3, JobIs
<1>5. jobs' = Append(jobs, r)
  BY <1>2 DEF Launch
<1>6. PICK m : m = Len(jobs) + 1
  OBVIOUS
<1>7. Sequence(jobs) /\ Len(jobs) \in Nat /\ DOMAIN jobs = 1..Len(jobs)
  BY SequenceHas DEF SocialInvariant, SocialTypeOK
<1>8. /\ Sequence(jobs') /\ DOMAIN jobs' = 1..m /\ jobs'[m] = r
      /\ \A i \in DOMAIN jobs : jobs'[i] = jobs[i]
  BY <1>5, <1>6, <1>7, AppendedIs
<1>9. DOMAIN jobs' = DOMAIN jobs \cup {m} /\ m \notin DOMAIN jobs
  BY <1>6, <1>7, <1>8
<1>10. Grown({m})
  BY <1>1, <1>4, <1>8, <1>9 DEF Grown
<1>11. Pair(m)' = <<npc, other>> /\ \A i \in DOMAIN jobs : Pair(i)' = Pair(i)
  BY <1>4, <1>8 DEF Pair
<1>12. HostCalls' = HostCalls \cup {m}
  BY <1>4, <1>6, <1>8, <1>9 DEF HostCalls
<1>13. RootsOK'
  <2>1. ASSUME NEW i \in DOMAIN jobs
        PROVE  /\ jobs'[i].root \in HostCalls'
               /\ jobs'[i].root # i =>
                    /\ shost'.overhear
                    /\ jobs'[i].kind = "overhear" \/ (jobs'[i].kind = "talk" /\ jobs'[i].hushed)
               /\ jobs'[i].root = i =>
                    /\ ~jobs'[i].hushed /\ jobs'[i].kind # "overhear"
                    /\ Pair(i)' \in Folk \X (Folk \cup Visitors)
               /\ jobs'[i].kind = "overhear" => ~jobs'[i].hushed
    BY <1>1, <1>8, <1>11, <1>12 DEF SocialInvariant, RootsOK
  <2>2. /\ jobs'[m].root = m /\ m \in HostCalls' /\ ~jobs'[m].hushed /\ jobs'[m].kind # "overhear"
        /\ Pair(m)' \in Folk \X (Folk \cup Visitors)
    BY <1>1, <1>4, <1>6, <1>8, <1>11, <1>12
  <2>3. QED
    BY <1>9, <2>1, <2>2 DEF RootsOK
<1>14. EavesOK'
  <2>1. \A i \in DOMAIN jobs : jobs[i].root \in DOMAIN jobs /\ jobs[i].root # m
    BY <1>9 DEF SocialInvariant, RootsOK, HostCalls
  <2>2. \A q : Heard(q)' = Heard(q)
    BY <1>4, <1>8, <1>9 DEF Heard
  <2>3. Heard(m) = {}
    BY <2>1 DEF Heard
  <2>4. ASSUME NEW o \in DOMAIN jobs', jobs'[o].kind = "overhear"
        PROVE  /\ o \in DOMAIN jobs /\ jobs'[o] = jobs[o]
               /\ jobs'[jobs'[o].root].pc = "done"
               /\ jobs'[o].pc = "gate" => (Heard(jobs[o].root))' = {}
    <3>1. o \in DOMAIN jobs /\ jobs'[o] = jobs[o]
      BY <1>1, <1>4, <1>8, <1>9, <2>4
    <3>2. PICK q : q = jobs[o].root
      OBVIOUS
    <3>3. jobs'[q] = jobs[q] /\ Heard(q)' = Heard(q) /\ (Heard(jobs[o].root))' = Heard(q)'
      BY <1>8, <2>1, <2>2, <3>1, <3>2
    <3>4. jobs[q].pc = "done" /\ (jobs[o].pc = "gate" => Heard(q) = {})
      BY <2>4, <3>1, <3>2 DEF SocialInvariant, EavesOK
    <3>5. QED
      BY <3>1, <3>2, <3>3, <3>4
  <2>5. \A o, q \in DOMAIN jobs' :
            jobs'[o].kind = "overhear" /\ jobs'[q].kind = "overhear" /\ jobs'[o].root = jobs'[q].root => o = q
    BY <2>4 DEF SocialInvariant, EavesOK
  <2>6. \A k \in DOMAIN jobs' : jobs'[k].hushed =>
            \E o \in DOMAIN jobs' : jobs'[o].kind = "overhear" /\ jobs'[o].root = jobs'[k].root
    <3>1. ASSUME NEW k \in DOMAIN jobs', jobs'[k].hushed
          PROVE  \E o \in DOMAIN jobs' : jobs'[o].kind = "overhear" /\ jobs'[o].root = jobs'[k].root
      <4>1. k \in DOMAIN jobs /\ jobs'[k] = jobs[k]
        <5>1. k # m
          BY <1>4, <1>8, <3>1
        <5>2. QED
          BY <1>8, <1>9, <5>1
      <4>2. jobs[k].hushed
        BY <3>1, <4>1
      <4>3. PICK o \in DOMAIN jobs : jobs[o].kind = "overhear" /\ jobs[o].root = jobs[k].root
        BY <4>1, <4>2 DEF SocialInvariant, EavesOK
      <4>4. o \in DOMAIN jobs' /\ jobs'[o] = jobs[o]
        BY <1>8, <1>9
      <4>5. QED
        BY <4>1, <4>3, <4>4
    <3>2. QED
      BY <3>1
  <2>7. \A q \in HostCalls' : Cardinality(Heard(q))' <= InterjectMax
    <3>1. Cardinality({}) <= InterjectMax
      BY FS_EmptySet, SocialAssumption
    <3>2. QED
      BY <1>12, <2>2, <2>3, <3>1 DEF SocialInvariant, EavesOK
  <2>8. QED
    BY <2>4, <2>5, <2>6, <2>7 DEF EavesOK
<1>15. LanesOK'
  <2>1. Running' \cap DOMAIN jobs = Running
    BY <1>8, <1>9 DEF Running
  <2>2. SUFFICES ASSUME NEW i \in HostCalls' \cap Running', NEW k \in HostCalls' \cap Running',
                        shost.lanes = 1 \/ (shost.apart /\ Pair(i)' = Pair(k)')
                 PROVE  i = k
    BY <1>1 DEF LanesOK
  <2>3. CASE shost.lanes = 1
    <3>1. HostCalls \cap Running = {}
      BY <2>3
    <3>2. \A x \in HostCalls' \cap Running' : x = m
      BY <1>9, <1>12, <2>1, <3>1 DEF HostCalls
    <3>3. QED
      BY <3>2
  <2>4. CASE shost.apart /\ Pair(i)' = Pair(k)'
    <3>1. \A x \in HostCalls' \cap Running' : x = m \/ x \in HostCalls \cap Running
      BY <1>12, <2>1 DEF HostCalls
    <3>2. \A x \in HostCalls \cap Running : Pair(x)' # Pair(m)' /\ Pair(x)' = Pair(x)
      BY <1>11, <2>4 DEF HostCalls
    <3>3. QED
      BY <2>4, <3>1, <3>2 DEF SocialInvariant, LanesOK
  <2>5. QED
    BY <2>2, <2>3, <2>4
<1>16. HostCalls' \cap Running' \subseteq (HostCalls \cap Running) \cup {m}
  BY <1>8, <1>9, <1>12 DEF HostCalls, Running
<1>17. QED
  BY <1>6, <1>9, <1>10, <1>12, <1>13, <1>14, <1>15, <1>16, GrownKeeps DEF SocialInvariant

LEMMA CallKeeps ==
    ASSUME SocialInvariant, NEW offer, Call(offer)
    PROVE  SocialInvariant'
<1>1. /\ offer \in shost.offers /\ Cardinality(HostCalls \cap Running) < shost.lanes
      /\ shost.apart => \A j \in Running : Pair(j) # <<offer.npc, offer.other>>
      /\ Launch(offer.kind, offer.npc, offer.other, offer.delta) /\ shost \in Hosts
  BY DEF Call, SocialInvariant, SocialTypeOK
<1>2. /\ offer.kind \in {"talk", "adjust", "theft", "pitch", "gossip"} /\ shost.lanes \in Nat
      /\ <<offer.npc, offer.other>> \in Folk \X (Folk \cup Visitors)
  BY <1>1, SocialAssumption
<1>3. IsFiniteSet(HostCalls \cap Running)
  <2>1. DOMAIN jobs = 1..Len(jobs) /\ Len(jobs) \in Nat
    BY SequenceHas DEF SocialInvariant, SocialTypeOK
  <2>2. IsFiniteSet(DOMAIN jobs)
    BY <2>1, FS_Interval
  <2>3. HostCalls \cap Running \subseteq DOMAIN jobs
    BY DEF HostCalls
  <2>4. QED
    BY <2>2, <2>3, FS_Subset
<1>4. shost.lanes = 1 => HostCalls \cap Running = {}
  BY <1>1, <1>3, FS_CardinalityType, FS_EmptySet
<1>5. PICK kind, npc, other, delta :
          kind = offer.kind /\ npc = offer.npc /\ other = offer.other /\ delta = offer.delta
  OBVIOUS
<1>6. QED
  BY <1>1, <1>2, <1>4, <1>5, LaunchKeeps

\* What a job becomes when it ends.
LEMMA EndedIs ==
    ASSUME SocialInvariant, NEW j \in Running, jobs[j].kind \in {"talk", "overhear"},
           jobs[j].pc \in {"spoken", "gate"}, NEW s, s = [jobs EXCEPT ![j].pc = "done"]
    PROVE  /\ Sequence(s) /\ Len(s) = Len(jobs) /\ DOMAIN s = DOMAIN jobs
           /\ \A i \in DOMAIN jobs : i # j => s[i] = jobs[i]
           /\ DOMAIN s[j] = Fields /\ s[j].pc = "done"
           /\ \A f \in Fields \ {"pc"} : s[j][f] = jobs[j][f]
<1>1. j \in DOMAIN jobs /\ Len(jobs) \in Nat /\ DOMAIN jobs = 1..Len(jobs)
      /\ jobs = [i \in 1..Len(jobs) |-> jobs[i]] /\ JobOK(jobs[j])
  BY SequenceHas DEF SocialInvariant, SocialTypeOK, Running
<1>2. s = [i \in 1..Len(jobs) |-> s[i]]
  BY <1>1
<1>3. Sequence(s) /\ Len(s) = Len(jobs)
  BY <1>1, <1>2, SequenceIs
<1>4. s[j] = [jobs[j] EXCEPT !.pc = "done"]
  BY <1>1
<1>5. DOMAIN s[j] = Fields /\ s[j].pc = "done" /\ (\A f \in Fields \ {"pc"} : s[j][f] = jobs[j][f])
  BY <1>1, <1>4 DEF JobOK, Fields
<1>6. QED
  BY <1>1, <1>3, <1>5

LEMMA EndedOf ==
    ASSUME SocialInvariant, NEW j \in Running, jobs[j].kind \in {"talk", "overhear"},
           jobs[j].pc \in {"spoken", "gate"}, DOMAIN jobs'[j] = Fields, jobs'[j].pc = "done",
           \A f \in Fields \ {"pc"} : jobs'[j][f] = jobs[j][f]
    PROVE  Ended(j)
<1>1. JobOK(jobs[j])
  BY DEF SocialInvariant, SocialTypeOK, Running
<1>2. /\ jobs'[j].kind = jobs[j].kind /\ jobs'[j].npc = jobs[j].npc /\ jobs'[j].other = jobs[j].other
      /\ jobs'[j].hushed = jobs[j].hushed /\ jobs'[j].root = jobs[j].root
      /\ jobs'[j].thought = jobs[j].thought
  BY DEF Fields
<1>3. JobOK(jobs'[j])
  BY <1>1, <1>2, StopsAre DEF JobOK
<1>4. QED
  BY <1>2, <1>3 DEF Ended, Same

\* A line that was spoken aloud is overheard, for the first time.
LEMMA SpokenKeeps ==
    ASSUME SocialInvariant, NEW j \in DOMAIN jobs, Spoken(j)
    PROVE  SocialInvariant' /\ CallsOnlyEnd
<1>1. /\ JobOK(jobs[j]) /\ j \in Running /\ jobs[j].pc = "spoken" /\ jobs[j].kind = "talk"
  BY RunsAt, StopsOf DEF Spoken, At
<1>2. CASE ~(shost.overhear /\ ~jobs[j].hushed)
  <2>1. To(j, "done")
    BY <1>2 DEF Spoken, To
  <2>2. Moved(j) /\ jobs'[j].pc = "done"
    BY <1>1, <2>1, ToIs, StopsAre DEF Spoken
  <2>3. QED
    BY <1>1, <2>2, PrivateKeeps DEF Spoken
<1>3. CASE shost.overhear /\ ~jobs[j].hushed
  <2>1. PICK s : s = [jobs EXCEPT ![j].pc = "done"]
    OBVIOUS
  <2>2. /\ Sequence(s) /\ Len(s) = Len(jobs) /\ DOMAIN s = DOMAIN jobs
        /\ \A i \in DOMAIN jobs : i # j => s[i] = jobs[i]
        /\ DOMAIN s[j] = Fields /\ s[j].pc = "done"
        /\ \A f \in Fields \ {"pc"} : s[j][f] = jobs[j][f]
    BY <1>1, <2>1, EndedIs
  <2>3. PICK a, b : a = jobs[j].npc /\ b = jobs[j].other
    OBVIOUS
  <2>4. PICK kind : kind = "overhear" /\ kind \in DOMAIN Stops
    BY StopsAre
  <2>5. PICK z : z = Job(kind, a, b, 0)
    OBVIOUS
  <2>6. /\ DOMAIN z = Fields /\ JobOK(z) /\ z.kind = kind /\ ~z.hushed /\ ~z.thought
        /\ z.pc \in {"purse", "get", "learn", "gate"} /\ (z.pc = "learn" => z.kind = "gossip")
    BY <2>4, <2>5, JobIs
  <2>7. PICK r : r = [z EXCEPT !.root = jobs[j].root]
    OBVIOUS
  <2>8. DOMAIN r = Fields /\ r.root = jobs[j].root /\ (\A f \in Fields \ {"root"} : r[f] = z[f])
    BY <2>6, <2>7 DEF Fields
  <2>9. r.kind = z.kind /\ r.pc = z.pc /\ r.hushed = z.hushed /\ r.thought = z.thought
    BY <2>8 DEF Fields
  <2>10. JobOK(r) /\ r.kind = "overhear" /\ ~r.hushed /\ r.pc = "gate"
    BY <2>4, <2>6, <2>8, <2>9, StopsAre DEF JobOK
  <2>11. jobs' = Append(s, r)
    BY <1>3, <2>1, <2>3, <2>4, <2>5, <2>7 DEF Spoken
  <2>12. PICK m : m = Len(jobs) + 1
    OBVIOUS
  <2>13. Sequence(jobs) /\ Len(jobs) \in Nat /\ DOMAIN jobs = 1..Len(jobs)
    BY SequenceHas DEF SocialInvariant, SocialTypeOK
  <2>14. /\ Sequence(jobs') /\ DOMAIN jobs' = 1..m /\ jobs'[m] = r
         /\ \A i \in DOMAIN jobs : jobs'[i] = s[i]
    BY <2>2, <2>11, <2>12, <2>13, AppendedIs
  <2>15. DOMAIN jobs' = DOMAIN jobs \cup {m} /\ m \notin DOMAIN jobs
    BY <2>12, <2>13, <2>14
  <2>16. Ended(j)
    <3>1. jobs'[j] = s[j]
      BY <2>14
    <3>2. QED
      BY <1>1, <2>2, <3>1, EndedOf
  <2>17. \A i \in DOMAIN jobs : i # j => jobs'[i] = jobs[i]
    BY <2>2, <2>14
  <2>18. Grown({m})
    BY <2>10, <2>14, <2>15, <2>16, <2>17 DEF Grown, Spoken
  <2>19. \A i \in DOMAIN jobs : /\ Same(i) /\ Pair(i)' = Pair(i) /\ i \in DOMAIN jobs'
                                /\ jobs[i].pc \notin {"spoken", "gate"} => jobs'[i] = jobs[i]
                                /\ (jobs'[i] = jobs[i] \/ jobs'[i].pc = "done")
    BY <2>18, GrownPairs
  \* The line was the host's call, and nobody has overheard it so far.
  <2>20. jobs[j].root = j /\ j \in HostCalls
    BY <1>1, <1>3 DEF SocialInvariant, RootsOK, HostCalls
  <2>21. \A o \in DOMAIN jobs : jobs[o].kind = "overhear" => jobs[o].root # j
    BY <1>1 DEF SocialInvariant, EavesOK
  <2>22. Heard(j) = {}
    BY <2>20, <2>21 DEF SocialInvariant, EavesOK, Heard
  <2>23. r.root = j /\ j # m
    BY <2>8, <2>15, <2>20
  <2>24. HostCalls' = HostCalls
    BY <2>14, <2>15, <2>19, <2>23 DEF HostCalls, Same
  <2>25. RootsOK'
    <3>1. ASSUME NEW i \in DOMAIN jobs
          PROVE  /\ jobs'[i].root \in HostCalls'
                 /\ jobs'[i].root # i =>
                      /\ shost'.overhear
                      /\ jobs'[i].kind = "overhear" \/ (jobs'[i].kind = "talk" /\ jobs'[i].hushed)
                 /\ jobs'[i].root = i =>
                      /\ ~jobs'[i].hushed /\ jobs'[i].kind # "overhear"
                      /\ Pair(i)' \in Folk \X (Folk \cup Visitors)
                 /\ jobs'[i].kind = "overhear" => ~jobs'[i].hushed
      BY <2>19, <2>24 DEF SocialInvariant, RootsOK, Same, Spoken
    <3>2. /\ jobs'[m].root = j /\ j \in HostCalls' /\ ~jobs'[m].hushed /\ jobs'[m].kind = "overhear"
          /\ shost'.overhear
      BY <1>3, <2>10, <2>14, <2>20, <2>23, <2>24 DEF Spoken
    <3>3. QED
      BY <2>15, <2>23, <3>1, <3>2 DEF RootsOK
  <2>26. EavesOK'
    <3>1. \A q : Heard(q)' = Heard(q)
      BY <2>10, <2>14, <2>15, <2>19 DEF Heard, Same
    <3>2. ASSUME NEW o \in DOMAIN jobs', jobs'[o].kind = "overhear"
          PROVE  /\ jobs'[jobs'[o].root].pc = "done"
                 /\ jobs'[o].pc = "gate" => (Heard(jobs[o].root))' = {}
      <4>1. CASE o = m
        <5>1. jobs'[o].root = j /\ (Heard(jobs[o].root))' = Heard(j)'
          BY <2>14, <2>23, <4>1
        <5>2. QED
          BY <2>2, <2>14, <2>22, <3>1, <5>1
      <4>2. CASE o \in DOMAIN jobs
        <5>1. jobs'[o] = jobs[o]
          BY <1>1, <2>17, <2>19, <3>2, <4>2 DEF Same
        <5>2. PICK q : q = jobs[o].root
          OBVIOUS
        <5>3. q \in DOMAIN jobs /\ q # j
          BY <2>21, <3>2, <4>2, <5>1, <5>2 DEF SocialInvariant, RootsOK, HostCalls
        <5>4. jobs'[q] = jobs[q] /\ (Heard(jobs[o].root))' = Heard(q)'
          BY <2>17, <5>1, <5>2, <5>3
        <5>5. jobs[q].pc = "done" /\ (jobs[o].pc = "gate" => Heard(q) = {})
          BY <3>2, <4>2, <5>1, <5>2 DEF SocialInvariant, EavesOK
        <5>6. QED
          BY <3>1, <5>1, <5>2, <5>4, <5>5
      <4>3. QED
        BY <2>15, <4>1, <4>2
    <3>3. ASSUME NEW o \in DOMAIN jobs', NEW q \in DOMAIN jobs',
                 jobs'[o].kind = "overhear", jobs'[q].kind = "overhear", jobs'[o].root = jobs'[q].root
          PROVE  o = q
      <4>1. \A x \in DOMAIN jobs : jobs'[x].kind = "overhear" =>
                jobs[x].kind = "overhear" /\ jobs'[x].root = jobs[x].root /\ jobs'[x].root # j
        BY <2>19, <2>21 DEF Same
      <4>2. jobs'[m].root = j
        BY <2>14, <2>23
      <4>3. QED
        BY <2>15, <3>3, <4>1, <4>2 DEF SocialInvariant, EavesOK
    <3>4. ASSUME NEW k \in DOMAIN jobs', jobs'[k].hushed
          PROVE  \E o \in DOMAIN jobs' : jobs'[o].kind = "overhear" /\ jobs'[o].root = jobs'[k].root
      <4>1. k # m
        BY <2>10, <2>14, <3>4
      <4>2. k \in DOMAIN jobs /\ jobs[k].hushed /\ jobs'[k].root = jobs[k].root
        BY <2>15, <2>19, <3>4, <4>1 DEF Same
      <4>3. PICK o \in DOMAIN jobs : jobs[o].kind = "overhear" /\ jobs[o].root = jobs[k].root
        BY <4>2 DEF SocialInvariant, EavesOK
      <4>4. o \in DOMAIN jobs' /\ jobs'[o].kind = "overhear" /\ jobs'[o].root = jobs[o].root
        BY <2>19, <4>3 DEF Same
      <4>5. QED
        BY <4>2, <4>3, <4>4
    <3>5. \A q \in HostCalls' : Cardinality(Heard(q))' <= InterjectMax
      BY <2>24, <3>1 DEF SocialInvariant, EavesOK
    <3>6. QED
      BY <3>2, <3>3, <3>4, <3>5 DEF EavesOK
  <2>27. LanesOK' /\ CallsOnlyEnd
    <3>1. HostCalls' \cap Running' \subseteq HostCalls \cap Running
      BY <2>19, <2>24 DEF HostCalls, Running
    <3>2. QED
      BY <2>19, <2>24, <3>1 DEF SocialInvariant, LanesOK, HostCalls, Spoken, CallsOnlyEnd
  <2>28. QED
    BY <2>18, <2>25, <2>26, <2>27, GrownKeeps DEF SocialInvariant
<1>4. QED
  BY <1>2, <1>3

\* Those who interject do so for the one line that was overheard.
LEMMA OverhearKeeps ==
    ASSUME SocialInvariant, NEW j \in DOMAIN jobs, Overhear(j)
    PROVE  SocialInvariant' /\ CallsOnlyEnd
<1>1. /\ JobOK(jobs[j]) /\ j \in Running /\ jobs[j].pc = "gate" /\ jobs[j].kind = "overhear"
  BY RunsAt, StopsOf DEF Overhear, At
<1>2. PICK s : s = [jobs EXCEPT ![j].pc = "done"]
  OBVIOUS
<1>3. /\ Sequence(s) /\ Len(s) = Len(jobs) /\ DOMAIN s = DOMAIN jobs
      /\ \A i \in DOMAIN jobs : i # j => s[i] = jobs[i]
      /\ DOMAIN s[j] = Fields /\ s[j].pc = "done"
      /\ \A f \in Fields \ {"pc"} : s[j][f] = jobs[j][f]
  BY <1>1, <1>2, EndedIs
<1>4. PICK B : B = Bold(j)
  OBVIOUS
<1>5. PICK n : n = Len(B)
  OBVIOUS
<1>6. Sequence(B) /\ n \in Nat /\ n <= InterjectMax /\ DOMAIN B = 1..n
  BY <1>4, <1>5, BoldAreFew, SequenceHas, SocialAssumption
<1>7. PICK u : u = [i \in 1..n |-> Interjection(B[i], j)]
  OBVIOUS
<1>8. PICK q : q = jobs[j].root
  OBVIOUS
<1>9. ASSUME NEW i \in 1..n
      PROVE  /\ JobOK(u[i]) /\ u[i].kind = "talk" /\ u[i].hushed /\ u[i].root = q
             /\ u[i].pc \in {"purse", "get", "learn", "gate"} /\ u[i].pc # "learn"
  <2>1. PICK a, b : a = B[i] /\ b = jobs[j].npc
    OBVIOUS
  <2>2. PICK k : k = "talk" /\ k \in DOMAIN Stops
    BY StopsAre
  <2>3. PICK z : z = Job(k, a, b, 0)
    OBVIOUS
  <2>4. /\ DOMAIN z = Fields /\ JobOK(z) /\ z.kind = k
        /\ z.pc \in {"purse", "get", "learn", "gate"} /\ (z.pc = "learn" => z.kind = "gossip")
    BY <2>2, <2>3, JobIs
  <2>5. PICK r : r = [z EXCEPT !.hushed = TRUE, !.root = q]
    OBVIOUS
  <2>6. /\ DOMAIN r = Fields /\ r.root = q /\ r.hushed
        /\ \A f \in Fields \ {"hushed", "root"} : r[f] = z[f]
    BY <2>4, <2>5 DEF Fields
  <2>7. r.kind = z.kind /\ r.pc = z.pc /\ r.thought = z.thought
    BY <2>6 DEF Fields
  <2>8. JobOK(r)
    BY <2>4, <2>6, <2>7 DEF JobOK
  <2>9. u[i] = r
    BY <1>7, <1>8, <2>1, <2>2, <2>3, <2>5 DEF Interjection
  <2>10. QED
    BY <2>2, <2>4, <2>6, <2>7, <2>8, <2>9
<1>10. Sequence(u) /\ Len(u) = n
  <2>1. u = [i \in 1..n |-> u[i]]
    BY <1>7
  <2>2. QED
    BY <1>6, <2>1, SequenceIs
<1>11. jobs' = s \o u
  BY <1>2, <1>4, <1>6, <1>7 DEF Overhear
<1>12. Sequence(jobs) /\ Len(jobs) \in Nat /\ DOMAIN jobs = 1..Len(jobs)
  BY SequenceHas DEF SocialInvariant, SocialTypeOK
<1>13. /\ Sequence(jobs') /\ DOMAIN jobs' = 1..(Len(jobs) + n)
       /\ \A i \in DOMAIN jobs : jobs'[i] = s[i]
       /\ \A i \in 1..n : jobs'[Len(jobs) + i] = u[i]
  <2>1. PICK t : t = s \o u
    OBVIOUS
  <2>2. Sequence(s) /\ Sequence(u)
    BY <1>3, <1>10
  <2>3. /\ Sequence(s \o u) /\ DOMAIN (s \o u) = 1..(Len(s) + Len(u))
        /\ \A i \in 1..Len(s) : (s \o u)[i] = s[i]
        /\ \A i \in 1..Len(u) : (s \o u)[Len(s) + i] = u[i]
    BY <2>2, JoinedIs
  <2>4. /\ Sequence(t) /\ DOMAIN t = 1..(Len(s) + Len(u))
        /\ \A i \in 1..Len(s) : t[i] = s[i]
        /\ \A i \in 1..Len(u) : t[Len(s) + i] = u[i]
    BY <2>3, <2>1
  <2>5. jobs' = t
    BY <1>11, <2>1
  <2>6. QED
    BY <1>3, <1>10, <1>12, <2>4, <2>5
<1>14. PICK N : N = (Len(jobs) + 1)..(Len(jobs) + n)
  OBVIOUS
<1>15. DOMAIN jobs' = DOMAIN jobs \cup N /\ N \cap DOMAIN jobs = {}
  BY <1>6, <1>12, <1>13, <1>14
<1>16. ASSUME NEW k \in N
       PROVE  /\ JobOK(jobs'[k]) /\ jobs'[k].kind = "talk" /\ jobs'[k].hushed /\ jobs'[k].root = q
              /\ jobs'[k].pc \in {"purse", "get", "learn", "gate"} /\ jobs'[k].pc # "learn"
  <2>1. PICK i \in 1..n : k = Len(jobs) + i
    <3>1. k - Len(jobs) \in 1..n /\ k = Len(jobs) + (k - Len(jobs))
      BY <1>6, <1>12, <1>14
    <3>2. QED
      BY <3>1
  <2>2. jobs'[k] = u[i]
    BY <1>13, <2>1
  <2>3. QED
    BY <1>9, <2>2
<1>17. Ended(j)
  <2>1. jobs'[j] = s[j]
    BY <1>13
  <2>2. QED
    BY <1>1, <1>3, <2>1, EndedOf
<1>18. \A i \in DOMAIN jobs : i # j => jobs'[i] = jobs[i]
  BY <1>3, <1>13
<1>19. Grown(N)
  BY <1>13, <1>15, <1>16, <1>17, <1>18 DEF Grown, Overhear
<1>20. shost' = shost
  BY DEF Overhear
<1>21. \A i \in DOMAIN jobs : /\ Same(i) /\ Pair(i)' = Pair(i) /\ i \in DOMAIN jobs'
                              /\ jobs[i].pc \notin {"spoken", "gate"} => jobs'[i] = jobs[i]
                              /\ (jobs'[i] = jobs[i] \/ jobs'[i].pc = "done")
  BY <1>19, GrownPairs
<1>22. /\ q \in HostCalls /\ q \in DOMAIN jobs /\ q # j /\ shost.overhear /\ Heard(q) = {}
       /\ jobs[q].pc = "done" /\ q \notin N
  BY <1>1, <1>8, <1>15 DEF SocialInvariant, RootsOK, EavesOK, HostCalls
<1>23. HostCalls' = HostCalls
  BY <1>15, <1>16, <1>21, <1>22 DEF HostCalls, Same
<1>24. RootsOK'
  <2>1. ASSUME NEW i \in DOMAIN jobs
        PROVE  /\ jobs'[i].root \in HostCalls'
               /\ jobs'[i].root # i =>
                    /\ shost'.overhear
                    /\ jobs'[i].kind = "overhear" \/ (jobs'[i].kind = "talk" /\ jobs'[i].hushed)
               /\ jobs'[i].root = i =>
                    /\ ~jobs'[i].hushed /\ jobs'[i].kind # "overhear"
                    /\ Pair(i)' \in Folk \X (Folk \cup Visitors)
               /\ jobs'[i].kind = "overhear" => ~jobs'[i].hushed
    BY <1>21, <1>23, <1>20 DEF SocialInvariant, RootsOK, Same
  <2>2. ASSUME NEW k \in N
        PROVE  /\ jobs'[k].root = q /\ q # k /\ q \in HostCalls' /\ shost'.overhear
               /\ jobs'[k].kind = "talk" /\ jobs'[k].hushed
    BY <1>16, <1>22, <1>23, <1>20
  <2>3. QED
    BY <1>15, <2>1, <2>2 DEF RootsOK
<1>25. EavesOK'
  <2>1. \A x : x # q => Heard(x)' = Heard(x)
    BY <1>15, <1>16, <1>21 DEF Heard, Same
  <2>2. Heard(q)' = N
    <3>1. \A i \in DOMAIN jobs : ~(jobs'[i].root = q /\ jobs'[i].hushed)
      BY <1>21, <1>22 DEF Heard, Same
    <3>2. QED
      BY <1>15, <1>16, <3>1 DEF Heard
  <2>3. Cardinality(N) <= InterjectMax
    <3>1. Cardinality(N) = n
      <4>1. Len(jobs) + 1 \in Int /\ Len(jobs) + n \in Int
        BY <1>6, <1>12
      <4>2. Cardinality(N) = IF Len(jobs) + 1 > Len(jobs) + n THEN 0
                             ELSE (Len(jobs) + n) - (Len(jobs) + 1) + 1
        BY <1>14, <4>1, FS_Interval
      <4>3. QED
        BY <1>6, <1>12, <4>2
    <3>2. QED
      BY <1>6, <3>1
  <2>4. ASSUME NEW o \in DOMAIN jobs', jobs'[o].kind = "overhear"
        PROVE  /\ o \in DOMAIN jobs /\ jobs[o].kind = "overhear" /\ jobs'[o].root = jobs[o].root
               /\ jobs'[jobs'[o].root].pc = "done"
               /\ jobs'[o].pc = "gate" => (Heard(jobs[o].root))' = {}
    <3>1. o \in DOMAIN jobs /\ jobs[o].kind = "overhear" /\ jobs'[o].root = jobs[o].root
      BY <1>15, <1>16, <1>21, <2>4 DEF Same
    <3>2. PICK x : x = jobs[o].root
      OBVIOUS
    <3>3. x \in DOMAIN jobs /\ jobs[x].pc = "done" /\ (jobs[o].pc = "gate" => Heard(x) = {})
      BY <3>1, <3>2 DEF SocialInvariant, RootsOK, EavesOK, HostCalls
    <3>4. jobs'[x].pc = "done"
      BY <1>21, <3>3
    <3>5. ASSUME jobs'[o].pc = "gate"
          PROVE  (Heard(jobs[o].root))' = {}
      <4>1. o # j
        BY <1>17, <3>5 DEF Ended
      <4>2. x # q /\ jobs'[o] = jobs[o]
        BY <1>1, <1>8, <1>18, <3>1, <3>2, <4>1 DEF SocialInvariant, EavesOK
      <4>3. (Heard(jobs[o].root))' = Heard(x)'
        BY <3>2, <4>2
      <4>4. QED
        BY <2>1, <3>3, <3>5, <4>2, <4>3
    <3>6. QED
      BY <3>1, <3>2, <3>4, <3>5
  <2>5. \A o, x \in DOMAIN jobs' :
            jobs'[o].kind = "overhear" /\ jobs'[x].kind = "overhear" /\ jobs'[o].root = jobs'[x].root => o = x
    BY <2>4 DEF SocialInvariant, EavesOK
  <2>6. ASSUME NEW k \in DOMAIN jobs', jobs'[k].hushed
        PROVE  \E o \in DOMAIN jobs' : jobs'[o].kind = "overhear" /\ jobs'[o].root = jobs'[k].root
    <3>1. CASE k \in N
      <4>1. j \in DOMAIN jobs' /\ jobs'[j].kind = "overhear" /\ jobs'[j].root = q
        BY <1>1, <1>8, <1>21 DEF Same
      <4>2. QED
        BY <1>16, <3>1, <4>1
    <3>2. CASE k \in DOMAIN jobs
      <4>1. jobs[k].hushed /\ jobs'[k].root = jobs[k].root
        BY <1>21, <2>6, <3>2 DEF Same
      <4>2. PICK o \in DOMAIN jobs : jobs[o].kind = "overhear" /\ jobs[o].root = jobs[k].root
        BY <3>2, <4>1 DEF SocialInvariant, EavesOK
      <4>3. o \in DOMAIN jobs' /\ jobs'[o].kind = "overhear" /\ jobs'[o].root = jobs[o].root
        BY <1>21, <4>2 DEF Same
      <4>4. QED
        BY <4>1, <4>2, <4>3
    <3>3. QED
      BY <1>15, <3>1, <3>2
  <2>7. \A x \in HostCalls' : Cardinality(Heard(x))' <= InterjectMax
    BY <1>23, <2>1, <2>2, <2>3 DEF SocialInvariant, EavesOK
  <2>8. QED
    BY <2>4, <2>5, <2>6, <2>7 DEF EavesOK
<1>26. LanesOK' /\ CallsOnlyEnd
  <2>1. HostCalls' \cap Running' \subseteq HostCalls \cap Running
    BY <1>21, <1>23 DEF HostCalls, Running
  <2>2. QED
    BY <1>20, <1>21, <1>23, <2>1 DEF SocialInvariant, LanesOK, HostCalls, CallsOnlyEnd
<1>27. QED
  BY <1>19, <1>24, <1>25, <1>26, GrownKeeps DEF SocialInvariant

-----------------------------------------------------------------------------
LEMMA SocialStarts ==
    ASSUME SocialInit
    PROVE  SocialInvariant
<1>1. /\ shost \in Hosts /\ minted = shost.agents /\ jobs = <<>> /\ rel = felt
      /\ DOMAIN rel = Pairs /\ (\A p \in Pairs : rel[p] = 0) /\ DOMAIN losses = Pairs
      /\ (\A p \in Pairs : losses[p] = 0) /\ DOMAIN beliefs = Folk /\ (\A n \in Folk : beliefs[n] = {})
  BY DEF SocialInit
<1>2. DOMAIN jobs = {} /\ Sequence(jobs) /\ HostCalls = {}
  <2>1. PICK f : f = jobs
    OBVIOUS
  <2>2. DOMAIN f = {} /\ f \in Seq(ToSet(f))
    BY <1>1, <2>1
  <2>3. QED
    BY <2>1, <2>2 DEF Sequence, HostCalls
<1>3. SocialTypeOK /\ RootsOK /\ EavesOK /\ LanesOK /\ RelOK /\ IndexOK
  BY <1>1, <1>2 DEF SocialTypeOK, RootsOK, EavesOK, LanesOK, RelOK, IndexOK
<1>4. FearOK
  <2>1. BeliefsOK
    BY <1>1 DEF BeliefsOK
  <2>2. ASSUME NEW p \in Pairs
        PROVE  LossOK(p)
    <3>1. OneIf(Knows(p, "world")) \in {0, 1} /\ OneIf(Knows(p, "agent")) \in {0, 1}
      BY DEF OneIf
    <3>2. QED
      BY <1>1, <3>1 DEF LossOK
  <2>3. QED
    BY <1>2, <2>1, <2>2 DEF FearOK
<1>5. QED
  BY <1>3, <1>4 DEF SocialInvariant

LEMMA ProceedKeeps ==
    ASSUME SocialInvariant, NEW j \in DOMAIN jobs, Proceed(j)
    PROVE  SocialInvariant' /\ CallsOnlyEnd
<1>1. CASE ReadPurseOf(j) \/ ReadBefore(j) \/ Think(j) \/ RelGet(j) \/ RelSet(j)
  BY <1>1, ReadPurseKeeps, ReadBeforeKeeps, ThinkKeeps, RelGetKeeps, RelSetKeeps
<1>2. CASE ReadIndex(j) \/ WriteIndex(j) \/ Burn(j) \/ Spoken(j) \/ Overhear(j)
  BY <1>2, ReadIndexKeeps, WriteIndexKeeps, BurnKeeps, SpokenKeeps, OverhearKeeps
<1>3. CASE Discern(j) \/ Pay(j) \/ Learn(j) \/ LearnFails(j)
  BY <1>3, DiscernKeeps, PayKeeps, LearnKeeps, LearnFailsKeeps
<1>4. QED
  BY <1>1, <1>2, <1>3 DEF Proceed

LEMMA SocialStep ==
    ASSUME SocialInvariant, [SocialNext]_socialVars
    PROVE  SocialInvariant'
<1>1. CASE UNCHANGED socialVars
  BY <1>1, IdleKeeps DEF socialVars
<1>2. ASSUME NEW n \in Folk, TakeGoto(n) \/ Mint(n)
      PROVE  SocialInvariant'
  BY <1>2, IdleKeeps, MintKeeps DEF TakeGoto
<1>3. QED
  BY <1>1, <1>2, CallKeeps, ProceedKeeps DEF SocialNext

\* The invariant of the NPCs' talk, of every host.
LEMMA SocialInvariantHolds ==
    SocialSpec => []SocialInvariant
BY SocialStarts, SocialStep, PTL DEF SocialSpec

LEMMA FewInterject ==
    ASSUME SocialInvariant
    PROVE  OneInterjection
<1>1. SUFFICES ASSUME NEW r \in HostCalls
               PROVE  Cardinality({j \in DOMAIN jobs : jobs[j].root = r /\ jobs[j].thought})
                          <= 1 + InterjectMax
  BY DEF OneInterjection
<1>2. IsFiniteSet(DOMAIN jobs)
  <2>1. DOMAIN jobs = 1..Len(jobs) /\ Len(jobs) \in Nat
    BY SequenceHas DEF SocialInvariant, SocialTypeOK
  <2>2. QED
    BY <2>1, FS_Interval
<1> DEFINE T == {j \in DOMAIN jobs : jobs[j].root = r /\ jobs[j].thought}
           H == Heard(r)
<1>3. IsFiniteSet(H) /\ Cardinality(H) \in Nat /\ Cardinality(H) <= InterjectMax
  <2>1. H \subseteq DOMAIN jobs
    BY DEF Heard
  <2>2. QED
    BY <1>2, <2>1, FS_Subset, FS_CardinalityType DEF SocialInvariant, EavesOK
<1>4. T \subseteq H \cup {r}
  BY DEF SocialInvariant, SocialTypeOK, JobOK, RootsOK, Heard
<1> HIDE DEF H, T
<1>5. IsFiniteSet(H \cup {r}) /\ Cardinality(H \cup {r}) \in Nat
      /\ Cardinality(H \cup {r}) <= Cardinality(H) + 1
  <2>1. /\ IsFiniteSet(H \cup {r})
        /\ Cardinality(H \cup {r}) = IF r \in H THEN Cardinality(H) ELSE Cardinality(H) + 1
    BY <1>3, FS_AddElement
  <2>2. QED
    BY <1>3, <2>1
<1>6. Cardinality(T) \in Nat /\ Cardinality(T) <= Cardinality(H \cup {r})
  BY <1>4, <1>5, FS_Subset, FS_CardinalityType
<1>7. Cardinality(T) <= 1 + InterjectMax
  BY <1>3, <1>5, <1>6, SocialAssumption
<1>8. QED
  BY <1>7 DEF T

\* One spoken line sets off at most InterjectMax inferences beside its own,
\* whoever overhears whom: overhear() follows a line nobody interjected, once,
\* and its interjections are not overheard.
THEOREM InterjectionsAreBounded ==
    SocialSpec => []OneInterjection
<1>1. SocialInvariant => OneInterjection
  BY FewInterject
<1>2. QED
  BY <1>1, SocialInvariantHolds, PTL

LEMMA AllAreRemembered ==
    ASSUME SocialInvariant
    PROVE  RelationshipsKept
<1>1. SUFFICES ASSUME ~shost.overhear
               PROVE  /\ (shost.apart \/ shost.lanes = 1) => rel = felt
                      /\ shost.lanes = 1 /\ Running = {} =>
                             \A p \in Pairs : rel[p] # 0 => p \in relIndex
  BY DEF RelationshipsKept
<1>2. (shost.apart \/ shost.lanes = 1) => rel = felt
  BY <1>1 DEF SocialInvariant, RelOK
<1>3. ASSUME shost.lanes = 1, Running = {}, NEW p \in Pairs, rel[p] # 0
      PROVE  p \in relIndex
  <2>1. \A j \in DOMAIN jobs : ~At(j, "readIndex") /\ ~At(j, "writeIndex")
    BY <1>3 DEF Running, At
  <2>2. QED
    BY <1>1, <1>3, <2>1 DEF SocialInvariant, IndexOK
<1>4. QED
  BY <1>2, <1>3

\* Where nobody overhears, no delta of affinity is lost while no two calls run
\* on one pair, and the index misses no relationship between two calls.
THEOREM RelationshipsSurvive ==
    SocialSpec => []RelationshipsKept
<1>1. SocialInvariant => RelationshipsKept
  BY AllAreRemembered
<1>2. QED
  BY <1>1, SocialInvariantHolds, PTL

\* Only a swindle that is about to succeed moves the count of losses.
LEMMA LossesByPaying ==
    ASSUME NEW p, losses'[p] # losses[p], NEW j, Proceed(j)
    PROVE  Pay(j)
<1>1. losses' # losses
  OBVIOUS
<1>2. ~ReadPurseOf(j) /\ ~ReadBefore(j) /\ ~RelGet(j) /\ ~RelSet(j) /\ ~ReadIndex(j) /\ ~WriteIndex(j)
  BY <1>1 DEF ReadPurseOf, ReadBefore, RelGet, RelSet, ReadIndex, WriteIndex
<1>3. ~Think(j) /\ ~Burn(j) /\ ~Spoken(j) /\ ~Overhear(j)
  BY <1>1 DEF Think, Burn, Spoken, Overhear
<1>4. ~Discern(j) /\ ~Learn(j) /\ ~LearnFails(j)
  BY <1>1 DEF Discern, Learn, LearnFails
<1>5. QED
  BY <1>2, <1>3, <1>4 DEF Proceed

LEMMA LossesMove ==
    ASSUME [SocialNext]_socialVars, NEW p, losses'[p] # losses[p]
    PROVE  \E j \in DOMAIN jobs : Pay(j)
<1>1. losses' # losses
  OBVIOUS
<1>2. ~ UNCHANGED socialVars
  BY <1>1 DEF socialVars
<1>3. ASSUME NEW offer, Call(offer)
      PROVE  FALSE
  BY <1>1, <1>3 DEF Call, Launch
<1>4. ASSUME NEW n, TakeGoto(n) \/ Mint(n)
      PROVE  FALSE
  BY <1>1, <1>4 DEF TakeGoto, Mint
<1>5. QED
  BY <1>2, <1>3, <1>4, LossesByPaying DEF SocialNext

LEMMA OnlyTheUnwaryPay ==
    ASSUME SocialInvariant, NEW j \in DOMAIN jobs, Pay(j)
    PROVE  \A p \in Pairs : losses'[p] # losses[p] /\ shost.lanes = 1 /\ ~shost.flaky =>
              IF p[1] \in minted \ shost.agents THEN losses[p] <= 1
              ELSE losses[p] = 0 /\ ~Forewarned(p)
<1>1. SUFFICES ASSUME NEW p \in Pairs, losses'[p] # losses[p], shost.lanes = 1, ~shost.flaky
               PROVE  /\ losses[p] <= 1
                      /\ Steady(p[1]) => losses[p] = 0 /\ ~Forewarned(p)
  BY DEF Steady
<1>2. j \in Running /\ jobs[j].pc = "pay" /\ jobs[j].kind = "pitch"
  BY RunsAt, StopsOf DEF Pay, At
<1>3. p = Pair(j)
  BY <1>1 DEF Pay
<1>4. p \in Folk \X (Folk \cup Visitors) /\ p[1] = jobs[j].npc /\ p[2] = jobs[j].other
  BY <1>2, <1>3, CallsAlone DEF Pair
<1>5. BeliefsOK /\ PitchOK(j) /\ (\A i \in DOMAIN jobs : WarnedOK(i)) /\ LossOK(p)
  BY <1>1 DEF SocialInvariant, FearOK
<1>6. PICK c : c = jobs[j].corpus
  OBVIOUS
<1>7. c \in Corpora /\ (Steady(p[1]) => c = Corpus(p[1])) /\ ~Wary(p[1], p[2], c)
  BY <1>2, <1>4, <1>5, <1>6 DEF PitchOK, At
<1>8. ASSUME NEW d
      PROVE  ~Learning(p, d)
  <2>1. SUFFICES ASSUME NEW i \in DOMAIN jobs, jobs[i].kind = "pitch", At(i, "learn")
                 PROVE  FALSE
    BY DEF Learning
  <2>2. i \in Running /\ i # j
    BY <1>2, <2>1 DEF At, Running
  <2>3. QED
    BY <1>1, <1>2, <2>1, <2>2, CallsAlone
<1>9. ~Knows(p, c)
  BY <1>7, <1>8 DEF Knows, Scarred, Wary
<1>10. losses[p] <= 1 /\ losses[p] \in Nat
  <2>1. OneIf(Knows(p, c)) = 0 /\ \A d : OneIf(Knows(p, d)) \in {0, 1}
    BY <1>9 DEF OneIf
  <2>2. losses[p] \in Nat
        /\ losses[p] <= OneIf(Knows(p, "world")) + OneIf(Knows(p, "agent"))
    BY <1>4, <1>5 DEF LossOK
  <2>3. OneIf(Knows(p, "world")) \in {0, 1} /\ OneIf(Knows(p, "agent")) \in {0, 1}
        /\ (OneIf(Knows(p, "world")) = 0 \/ OneIf(Knows(p, "agent")) = 0)
    BY <1>7, <2>1 DEF Corpora
  <2>4. QED
    BY <2>2, <2>3
<1>11. ASSUME Steady(p[1])
       PROVE  losses[p] = 0 /\ ~Forewarned(p)
  <2>1. c = Corpus(p[1])
    BY <1>7, <1>11
  <2>2. ASSUME NEW d, d # c
        PROVE  ~Knows(p, d)
    <3>1. ~Scarred(p, d)
      BY <1>4, <1>5, <1>11, <2>1, <2>2 DEF Scarred, BeliefsOK
    <3>2. QED
      BY <1>8, <3>1 DEF Knows
  <2>3. ~Knows(p, "world") /\ ~Knows(p, "agent")
    BY <1>9, <2>2
  <2>4. losses[p] = 0
    BY <1>4, <1>5, <2>3 DEF LossOK, OneIf
  <2>5. ~Forewarned(p)
    <3>1. SUFFICES ASSUME NEW k \in HostCalls \ Running, Pair(k) = p,
                          jobs[k].kind = "theft" \/ (jobs[k].kind = "gossip" /\ shost.hearsay)
                   PROVE  FALSE
      BY DEF Forewarned
    <3>2. k \in DOMAIN jobs /\ jobs[k].pc \in {"done", "failed"}
      BY DEF HostCalls, Running
    <3>3. p[1] = jobs[k].npc /\ p[2] = jobs[k].other
      BY <3>1 DEF Pair
    <3>4. Wary(p[1], p[2], Corpus(p[1]))
      BY <1>5, <1>11, <3>1, <3>2, <3>3 DEF WarnedOK, At
    <3>5. QED
      BY <1>7, <2>1, <3>4
  <2>6. QED
    BY <2>4, <2>5
<1>12. QED
  BY <1>10, <1>11

\* Who has suffered of somebody, or has been told where hearsay counts, does
\* not fall for them again, unless it was minted in between: then once more.
THEOREM TheBurnedBeware ==
    SocialSpec => BurnedOnce
<1>1. ASSUME SocialInvariant, [SocialNext]_socialVars
      PROVE  \A p \in Pairs : losses'[p] # losses[p] /\ shost.lanes = 1 /\ ~shost.flaky =>
                IF p[1] \in minted \ shost.agents THEN losses[p] <= 1
                ELSE losses[p] = 0 /\ ~Forewarned(p)
  BY <1>1, LossesMove, OnlyTheUnwaryPay
<1>2. QED
  BY <1>1, SocialInvariantHolds, PTL DEF SocialSpec, BurnedOnce

-----------------------------------------------------------------------------
(***************************************************************************)
(* The fair.                                                               *)
(***************************************************************************)
FairParts == {"tick", "pc", "k", "skip", "job", "rooms", "hits", "work", "warned", "news", "last", "trades"}

\* The fair awaits each of its calls.
FairCalls ==
    /\ HostCalls \cap Running \subseteq {fair.job}
    /\ fair.job # 0 => fair.job \in HostCalls
    /\ \A i \in DOMAIN fair.hits : fair.hits[i].from \in Folk \cup Visitors

\* What gossips still have to tell are losses of this tick, in their rooms; who
\* is about to be warned was not warned before, and what was told is known.
FairOK ==
    /\ DOMAIN fair = FairParts /\ Sequence(fair.hits) /\ Sequence(fair.news)
    /\ fair.pc \in {"move", "pitch"} => fair.news = <<>>
    /\ fair.pc = "gossip" =>
        /\ fair.work \subseteq Errands
        /\ fair.job # 0 => \A t \in Due : Errand(t) \notin fair.warned
    /\ NewsTravels
    /\ \A i \in DOMAIN fair.news : fair.news[i] \in fair.warned

FairInvariant == SocialInvariant /\ FairCalls /\ FairOK

LEMMA WaitIs ==
    ASSUME DOMAIN fair = FairParts, NEW w, Wait(w)
    PROVE  /\ DOMAIN fair' = FairParts
           /\ \A f \in FairParts : fair'[f] = IF f \in DOMAIN w THEN w[f] ELSE fair[f]
BY DEF Wait

\* A tick that has told nothing yet.
LEMMA EarlyKeeps ==
    ASSUME DOMAIN fair' = FairParts, Sequence(fair'.hits), fair'.news = <<>>, fair'.pc # "gossip"
    PROVE  FairOK'
<1>1. PICK f : f = fair'.news
  OBVIOUS
<1>2. DOMAIN f = {} /\ f \in Seq(ToSet(f))
  BY <1>1
<1>3. DOMAIN fair'.news = {} /\ Sequence(fair'.news)
  BY <1>1, <1>2 DEF Sequence
<1>4. QED
  BY <1>3 DEF FairOK, NewsTravels

LEMMA SameErrands ==
    ASSUME fair'.hits = fair.hits, fair'.rooms = fair.rooms, fair'.skip = fair.skip
    PROVE  /\ Errands' = Errands /\ (\A t : Errand(t)' = Errand(t)) /\ (\A x : Here(x)' = Here(x))
           /\ fair'.work = fair.work => Due' = Due
<1>1. \A x : Here(x)' = Here(x)
  BY DEF Here
<1>2. \A g, h, l : Tells(g, h, l)' = Tells(g, h, l)
  BY <1>1 DEF Tells
<1>3. Errands' = Errands
  BY <1>2 DEF Errands
<1>4. \A t : Errand(t)' = Errand(t)
  BY DEF Errand
<1>5. fair'.work = fair.work => Due' = Due
  BY DEF Due
<1>6. QED
  BY <1>1, <1>3, <1>4, <1>5

\* A step that neither tells nor forgets.
LEMMA QuietKeeps ==
    ASSUME FairOK, DOMAIN fair' = FairParts, fair'.hits = fair.hits, fair'.rooms = fair.rooms,
           fair'.skip = fair.skip, fair'.news = fair.news, fair.warned \subseteq fair'.warned,
           fair'.pc \in {"move", "pitch"} => fair.pc \in {"move", "pitch"},
           fair'.pc = "gossip" =>
              /\ fair'.work \subseteq Errands
              /\ fair'.job # 0 =>
                    fair'.work = fair.work /\ \A t \in Due : Errand(t) \notin fair'.warned
    PROVE  FairOK'
<1>1. /\ Errands' = Errands /\ (\A t : Errand(t)' = Errand(t)) /\ (\A x : Here(x)' = Here(x))
      /\ fair'.work = fair.work => Due' = Due
  BY SameErrands
<1>2. NewsTravels'
  BY <1>1 DEF FairOK, NewsTravels
<1>3. fair'.pc = "gossip" =>
        /\ fair'.work \subseteq Errands'
        /\ fair'.job # 0 => \A t \in Due' : Errand(t)' \notin fair'.warned
  BY <1>1
<1>4. /\ Sequence(fair'.hits) /\ Sequence(fair'.news)
      /\ fair'.pc \in {"move", "pitch"} => fair'.news = <<>>
      /\ \A i \in DOMAIN fair'.news : fair'.news[i] \in fair'.warned
  BY DEF FairOK
<1>5. QED
  BY <1>2, <1>3, <1>4 DEF FairOK

LEMMA DueIsOne ==
    ASSUME FairOK, fair.pc = "gossip", NEW s \in Due, NEW t \in Due
    PROVE  s = t
<1>1. DOMAIN Cast \subseteq Int /\ DOMAIN fair.hits \subseteq Int
  <2>1. DOMAIN Cast = 1..Len(Cast) /\ Len(Cast) \in Nat
    BY FairAssumption
  <2>2. DOMAIN fair.hits = 1..Len(fair.hits) /\ Len(fair.hits) \in Nat
    BY SequenceHas DEF FairOK
  <2>3. QED
    BY <2>1, <2>2
<1>2. Errands \subseteq Int \X Int \X Int
  BY <1>1 DEF Errands, Named, Marks
<1>3. s \in Int \X Int \X Int /\ t \in Int \X Int \X Int
  BY <1>2 DEF FairOK, Due
<1>4. ~Earlier(s, t) /\ ~Earlier(t, s)
  BY DEF Due
<1>5. s[1] = t[1] /\ s[2] = t[2] /\ s[3] = t[3]
  BY <1>3, <1>4 DEF Earlier
<1>6. QED
  BY <1>3, <1>5

\* What a gossip tells it has witnessed, and tells for the first time.
LEMMA EndGossipKeeps ==
    ASSUME FairInvariant, EndGossip
    PROVE  FairOK'
<1>1. PICK t \in Due :
          Wait([work |-> fair.work \ {t}, job |-> 0,
                warned |-> IF jobs[fair.job].pc = "done" THEN fair.warned \cup {Errand(t)} ELSE fair.warned,
                news |-> IF jobs[fair.job].pc = "done" THEN Append(fair.news, Errand(t)) ELSE fair.news])
  BY DEF EndGossip
<1>2. PICK w : w = [work |-> fair.work \ {t}, job |-> 0,
                    warned |-> IF jobs[fair.job].pc = "done" THEN fair.warned \cup {Errand(t)} ELSE fair.warned,
                    news |-> IF jobs[fair.job].pc = "done" THEN Append(fair.news, Errand(t)) ELSE fair.news]
  OBVIOUS
<1>3. PICK e : e = Errand(t)
  OBVIOUS
<1>4. /\ DOMAIN w = {"work", "job", "warned", "news"} /\ w.work = fair.work \ {t} /\ w.job = 0
      /\ w.warned = IF jobs[fair.job].pc = "done" THEN fair.warned \cup {e} ELSE fair.warned
      /\ w.news = IF jobs[fair.job].pc = "done" THEN Append(fair.news, e) ELSE fair.news
  BY <1>2, <1>3
<1>5. FairOK /\ DOMAIN fair = FairParts /\ Wait(w)
  BY <1>1, <1>2 DEF FairInvariant, FairOK
<1>6. /\ DOMAIN fair' = FairParts
      /\ \A f \in FairParts : fair'[f] = IF f \in DOMAIN w THEN w[f] ELSE fair[f]
  BY <1>5, WaitIs
<1>7. /\ fair'.work = w.work /\ fair'.job = 0 /\ fair'.warned = w.warned /\ fair'.news = w.news
      /\ fair'.hits = fair.hits /\ fair'.rooms = fair.rooms /\ fair'.skip = fair.skip /\ fair'.pc = fair.pc
  BY <1>4, <1>6 DEF FairParts
<1>8. fair.pc = "gossip" /\ fair.job \in DOMAIN jobs
  BY DEF EndGossip
<1>9. CASE jobs[fair.job].pc # "done"
  <2>1. fair'.news = fair.news /\ fair'.warned = fair.warned /\ fair'.work \subseteq Errands
    BY <1>4, <1>5, <1>7, <1>8, <1>9 DEF FairOK
  <2>2. QED
    BY <1>5, <1>6, <1>7, <1>8, <2>1, QuietKeeps
<1>10. CASE jobs[fair.job].pc = "done"
  <2>1. /\ fair'.news = Append(fair.news, e) /\ fair'.warned = fair.warned \cup {e}
        /\ fair'.work \subseteq Errands
    BY <1>4, <1>5, <1>7, <1>8, <1>10 DEF FairOK
  <2>2. fair.job # 0
    <3>1. DOMAIN jobs = 1..Len(jobs) /\ Len(jobs) \in Nat
      BY SequenceHas DEF FairInvariant, SocialInvariant, SocialTypeOK
    <3>2. QED
      BY <1>8, <3>1
  <2>3. e \notin fair.warned /\ t \in Errands
    BY <1>3, <1>5, <1>8, <2>2 DEF FairOK, Due
  <2>4. PICK n : n = Len(fair.news)
    OBVIOUS
  <2>5. n \in Nat /\ DOMAIN fair.news = 1..n
    BY <1>5, <2>4, SequenceHas DEF FairOK
  <2>6. /\ Sequence(fair'.news) /\ DOMAIN fair'.news = 1..(n + 1) /\ fair'.news[n + 1] = e
        /\ \A i \in 1..n : fair'.news[i] = fair.news[i]
    BY <1>5, <2>1, <2>4, AppendedIs DEF FairOK
  <2>7. /\ Errands' = Errands /\ (\A x : Errand(x)' = Errand(x)) /\ (\A x : Here(x)' = Here(x))
    BY <1>7, SameErrands
  <2>8. \E h \in ToSet(fair.hits) :
            h.from = e.about /\ h.to # e.to /\ h.room = Here(e.by) /\ h.room = Here(e.to)
    <3>1. /\ t[2] \in DOMAIN fair.hits
          /\ Tells(Cast[t[1]].npc, fair.hits[t[2]], Cast[t[3]].npc)
      BY <2>3 DEF Errands
    <3>2. PICK h : h = fair.hits[t[2]]
      OBVIOUS
    <3>3. h \in ToSet(fair.hits)
      BY <3>1, <3>2 DEF ToSet
    <3>4. e.by = Cast[t[1]].npc /\ e.about = h.from /\ e.to = Cast[t[3]].npc
      BY <1>3, <3>2 DEF Errand
    <3>5. h.to # e.to /\ h.room = Here(e.by) /\ h.room = Here(e.to)
      BY <3>1, <3>2, <3>4 DEF Tells
    <3>6. QED
      BY <3>3, <3>4, <3>5
  <2>9. ASSUME NEW i \in DOMAIN fair'.news, NEW x, x = fair'.news[i]
        PROVE  \E h \in ToSet(fair.hits) :
                  h.from = x.about /\ h.to # x.to /\ h.room = Here(x.by) /\ h.room = Here(x.to)
    <3>1. CASE i \in 1..n
      BY <1>5, <2>5, <2>6, <2>9, <3>1 DEF FairOK, NewsTravels
    <3>2. CASE i = n + 1
      BY <2>6, <2>8, <2>9, <3>2
    <3>3. QED
      BY <2>5, <2>6, <3>1, <3>2
  <2>10. ASSUME NEW i \in 1..(n + 1), NEW k \in 1..(n + 1), fair'.news[k] = fair'.news[i]
         PROVE  k = i
    <3>1. \A x \in 1..n : fair'.news[x] = fair.news[x] /\ fair'.news[x] \in fair.warned
      BY <1>5, <2>5, <2>6 DEF FairOK
    <3>2. CASE i \in 1..n /\ k \in 1..n
      BY <1>5, <2>5, <2>10, <3>1, <3>2 DEF FairOK, NewsTravels
    <3>3. CASE i \notin 1..n \/ k \notin 1..n
      <4>1. \A x \in 1..(n + 1) : x \notin 1..n => x = n + 1
        BY <2>5
      <4>2. i \in 1..n => k = n + 1
        BY <3>3, <4>1
      <4>3. k \in 1..n => i = n + 1
        BY <3>3, <4>1
      <4>4. i \notin 1..n /\ k \notin 1..n
        BY <2>3, <2>6, <2>10, <3>1, <4>2, <4>3
      <4>5. QED
        BY <4>1, <4>4
    <3>4. QED
      BY <3>2, <3>3
  <2>11. NewsTravels'
    <3>1. ASSUME NEW i \in DOMAIN fair'.news
          PROVE  \E h \in ToSet(fair'.hits) :
                    h.from = fair'.news[i].about /\ h.to # fair'.news[i].to
                    /\ h.room = (Here(fair.news[i].by))' /\ h.room = (Here(fair.news[i].to))'
      <4>1. PICK x : x = fair'.news[i]
        OBVIOUS
      <4>2. (Here(fair.news[i].by))' = Here(x.by)' /\ (Here(fair.news[i].to))' = Here(x.to)'
        BY <4>1
      <4>3. \E h \in ToSet(fair.hits) :
                  h.from = x.about /\ h.to # x.to /\ h.room = Here(x.by) /\ h.room = Here(x.to)
        BY <2>9, <4>1
      <4>4. QED
        BY <1>7, <2>7, <4>1, <4>2, <4>3
    <3>2. QED
      BY <2>6, <2>10, <3>1 DEF NewsTravels
  <2>12. \A i \in DOMAIN fair'.news : fair'.news[i] \in fair'.warned
    <3>1. \A i \in 1..n : fair'.news[i] \in fair.warned
      BY <1>5, <2>5, <2>6 DEF FairOK
    <3>2. QED
      BY <2>1, <2>5, <2>6, <3>1
  <2>13. Sequence(fair'.hits)
    BY <1>5, <1>7 DEF FairOK
  <2>14. QED
    BY <1>6, <1>7, <1>8, <2>1, <2>6, <2>7, <2>11, <2>12, <2>13 DEF FairOK
<1>11. QED
  BY <1>9, <1>10

LEMMA JobsFromOne ==
    ASSUME FairInvariant
    PROVE  0 \notin DOMAIN jobs /\ HostCalls \subseteq DOMAIN jobs
           /\ (fair.job \notin Running => HostCalls \cap Running = {})
<1>1. DOMAIN jobs = 1..Len(jobs) /\ Len(jobs) \in Nat
  BY SequenceHas DEF FairInvariant, SocialInvariant, SocialTypeOK
<1>2. 0 \notin DOMAIN jobs
  BY <1>1
<1>3. HostCalls \subseteq DOMAIN jobs /\ HostCalls \cap Running \subseteq {fair.job}
  BY DEF HostCalls, FairInvariant, FairCalls
<1>4. QED
  BY <1>2, <1>3

\* A step of the fair between its calls.
LEMMA BetweenCalls ==
    ASSUME FairInvariant, UNCHANGED <<shost, minted, rel, relIndex, beliefs, jobs, felt, losses>>,
           FairOK', fair'.job \in {0, fair.job}, fair'.job # fair.job => fair.job \notin Running,
           \A i \in DOMAIN fair'.hits : fair'.hits[i].from \in Folk \cup Visitors
    PROVE  FairInvariant'
<1>1. SocialInvariant'
  BY IdleKeeps DEF FairInvariant
<1>2. HostCalls' = HostCalls /\ Running' = Running
  BY DEF HostCalls, Running
<1>3. FairCalls'
  BY <1>2, JobsFromOne DEF FairInvariant, FairCalls
<1>4. QED
  BY <1>1, <1>3 DEF FairInvariant

\* A call of the fair starts when no other is under way.
LEMMA FairLaunches ==
    ASSUME FairInvariant, fair.job = 0, NEW kind \in {"pitch", "gossip"}, NEW npc \in Folk,
           NEW other \in Folk \cup Visitors, NEW delta, Launch(kind, npc, other, delta),
           FairOK', fair'.job = Len(jobs) + 1, fair'.hits = fair.hits
    PROVE  FairInvariant'
<1>1. HostCalls \cap Running = {}
  BY JobsFromOne DEF Running
<1>2. /\ SocialInvariant' /\ HostCalls' = HostCalls \cup {Len(jobs) + 1}
      /\ HostCalls' \cap Running' \subseteq (HostCalls \cap Running) \cup {Len(jobs) + 1}
  BY <1>1, LaunchKeeps DEF FairInvariant
<1>3. FairCalls'
  BY <1>1, <1>2 DEF FairInvariant, FairCalls
<1>4. QED
  BY <1>2, <1>3 DEF FairInvariant

LEMMA FairWaits ==
    ASSUME FairInvariant
    PROVE  DOMAIN fair = FairParts /\ Sequence(fair.hits)
           /\ \A i \in DOMAIN fair.hits : fair.hits[i].from \in Folk \cup Visitors
BY DEF FairInvariant, FairOK, FairCalls

LEMMA BeginFairKeeps ==
    ASSUME FairInvariant, NEW skip, BeginFair(skip)
    PROVE  FairInvariant'
<1>1. PICK w : w = [pc |-> "move", k |-> 1, skip |-> skip, hits |-> <<>>, news |-> <<>>, trades |-> <<>>]
  OBVIOUS
<1>2. /\ DOMAIN w = {"pc", "k", "skip", "hits", "news", "trades"} /\ w.pc = "move" /\ w.hits = <<>>
      /\ w.news = <<>> /\ Wait(w)
  BY <1>1 DEF BeginFair
<1>3. DOMAIN fair' = FairParts /\ \A f \in FairParts : fair'[f] = IF f \in DOMAIN w THEN w[f] ELSE fair[f]
  BY <1>2, FairWaits, WaitIs
<1>4. fair'.pc = "move" /\ fair'.hits = <<>> /\ fair'.news = <<>> /\ fair'.job = fair.job
  BY <1>2, <1>3 DEF FairParts
<1>5. DOMAIN fair'.hits = {} /\ Sequence(fair'.hits)
  <2>1. PICK f : f = fair'.hits
    OBVIOUS
  <2>2. DOMAIN f = {} /\ f \in Seq(ToSet(f))
    BY <1>4, <2>1
  <2>3. QED
    BY <2>1, <2>2 DEF Sequence
<1>6. FairOK'
  BY <1>3, <1>4, <1>5, EarlyKeeps
<1>7. QED
  BY <1>4, <1>5, <1>6, BetweenCalls DEF BeginFair, socialVars

LEMMA MovesKeep ==
    ASSUME FairInvariant, MoveActor \/ TakeRooms
    PROVE  FairInvariant'
<1>1. PICK w : /\ Wait(w) /\ DOMAIN w \in {{"k"}, {"pc", "k", "rooms"}}
               /\ "pc" \in DOMAIN w => w.pc = "pitch"
  <2>1. CASE MoveActor
    <3>1. PICK v : v = [k |-> fair.k + 1]
      OBVIOUS
    <3>2. QED
      BY <2>1, <3>1 DEF MoveActor
  <2>2. CASE TakeRooms
    <3>1. PICK v : v = [pc |-> "pitch", k |-> 1, rooms |-> [i \in DOMAIN Cast |-> RoomOf(Cast[i])]]
      OBVIOUS
    <3>2. DOMAIN v = {"pc", "k", "rooms"} /\ v.pc = "pitch"
      BY <3>1
    <3>3. Wait(v)
      BY <2>2, <3>1 DEF TakeRooms
    <3>4. QED
      BY <3>2, <3>3
  <2>3. QED
    BY <2>1, <2>2
<1>2. fair.pc = "move"
  BY DEF MoveActor, TakeRooms
<1>3. UNCHANGED <<shost, minted, rel, relIndex, beliefs, jobs, felt, losses>>
  BY DEF MoveActor, TakeRooms, Place, socialVars
<1>4. DOMAIN fair' = FairParts /\ \A f \in FairParts : fair'[f] = IF f \in DOMAIN w THEN w[f] ELSE fair[f]
  BY <1>1, FairWaits, WaitIs
<1>5. /\ fair'.pc \in {"move", "pitch"} /\ fair'.hits = fair.hits /\ fair'.news = fair.news
      /\ fair'.job = fair.job
  BY <1>1, <1>2, <1>4 DEF FairParts
<1>6. fair.news = <<>>
  BY <1>2 DEF FairInvariant, FairOK
<1>7. FairOK'
  BY <1>4, <1>5, <1>6, FairWaits, EarlyKeeps
<1>8. QED
  BY <1>3, <1>5, <1>7, FairWaits, BetweenCalls

LEMMA PitchKeeps ==
    ASSUME FairInvariant, StartPitch
    PROVE  FairInvariant'
<1>1. fair.pc = "pitch" /\ fair.job = 0 /\ fair.news = <<>>
  BY DEF StartPitch, FairInvariant, FairOK
<1>2. PICK p \in Named("pitcher", fair.skip) :
        \/ Wait([k |-> fair.k + 1]) /\ UNCHANGED socialVars
        \/ \E victim \in Beside(Cast[p]) :
              /\ Launch("pitch", Cast[victim].npc, Cast[p].npc, Asked)
              /\ Wait([job |-> Len(jobs) + 1])
  BY DEF StartPitch
<1>3. CASE Wait([k |-> fair.k + 1]) /\ UNCHANGED socialVars
  <2>1. PICK w : w = [k |-> fair.k + 1]
    OBVIOUS
  <2>2. Wait(w) /\ DOMAIN w = {"k"}
    BY <1>3, <2>1
  <2>3. DOMAIN fair' = FairParts /\ \A f \in FairParts : fair'[f] = IF f \in DOMAIN w THEN w[f] ELSE fair[f]
    BY <2>2, FairWaits, WaitIs
  <2>4. /\ fair'.pc = "pitch" /\ fair'.hits = fair.hits /\ fair'.news = <<>> /\ fair'.job = fair.job
    BY <1>1, <2>2, <2>3 DEF FairParts
  <2>5. FairOK'
    BY <2>3, <2>4, FairWaits, EarlyKeeps
  <2>6. QED
    BY <1>3, <2>4, <2>5, FairWaits, BetweenCalls DEF socialVars
<1>4. ASSUME NEW victim \in Beside(Cast[p]), Launch("pitch", Cast[victim].npc, Cast[p].npc, Asked),
             Wait([job |-> Len(jobs) + 1])
      PROVE  FairInvariant'
  <2>1. PICK w : w = [job |-> Len(jobs) + 1]
    OBVIOUS
  <2>2. Wait(w) /\ DOMAIN w = {"job"} /\ w.job = Len(jobs) + 1
    BY <1>4, <2>1
  <2>3. DOMAIN fair' = FairParts /\ \A f \in FairParts : fair'[f] = IF f \in DOMAIN w THEN w[f] ELSE fair[f]
    BY <2>2, FairWaits, WaitIs
  <2>4. /\ fair'.pc = "pitch" /\ fair'.hits = fair.hits /\ fair'.news = <<>> /\ fair'.job = Len(jobs) + 1
    BY <1>1, <2>2, <2>3 DEF FairParts
  <2>5. FairOK'
    BY <2>3, <2>4, FairWaits, EarlyKeeps
  <2>6. PICK npc, other : npc = Cast[victim].npc /\ other = Cast[p].npc
    OBVIOUS
  <2>7. npc \in Folk /\ other \in Folk \cup Visitors
    <3>1. victim \in DOMAIN Cast /\ Cast[victim].role # "pitcher" /\ p \in DOMAIN Cast
      BY DEF Beside, Marks, Named
    <3>2. QED
      BY <2>6, <3>1, FairAssumption
  <2>8. Launch("pitch", npc, other, Asked)
    BY <1>4, <2>6
  <2>9. PICK kind \in {"pitch", "gossip"} : kind = "pitch"
    OBVIOUS
  <2>10. QED
    BY <1>1, <2>4, <2>5, <2>7, <2>8, <2>9, FairLaunches
<1>5. QED
  BY <1>2, <1>3, <1>4

LEMMA EndPitchKeeps ==
    ASSUME FairInvariant, EndPitch
    PROVE  FairInvariant'
<1>1. fair.pc = "pitch" /\ fair.job \in DOMAIN jobs \ Running /\ fair.news = <<>>
  BY DEF EndPitch, FairInvariant, FairOK
<1>2. PICK j : j = jobs[fair.job]
  OBVIOUS
<1>3. PICK x : x = [from |-> j.other, to |-> j.npc, room |-> Here(j.other)]
  OBVIOUS
<1>4. PICK w : w = [k |-> fair.k + 1, job |-> 0,
                    hits |-> IF j.paid <= 0 THEN fair.hits ELSE Append(fair.hits, x)]
  OBVIOUS
<1>5. /\ DOMAIN w = {"k", "job", "hits"} /\ w.job = 0 /\ w.hits \in {fair.hits, Append(fair.hits, x)}
      /\ Wait(w)
  BY <1>2, <1>3, <1>4 DEF EndPitch
<1>6. DOMAIN fair' = FairParts /\ \A f \in FairParts : fair'[f] = IF f \in DOMAIN w THEN w[f] ELSE fair[f]
  BY <1>5, FairWaits, WaitIs
<1>7. /\ fair'.pc = "pitch" /\ fair'.job = 0 /\ fair'.news = <<>>
      /\ fair'.hits \in {fair.hits, Append(fair.hits, x)}
  BY <1>1, <1>5, <1>6 DEF FairParts
<1>8. x.from \in Folk \cup Visitors
  <2>1. fair.job \in HostCalls /\ jobs[fair.job].root = fair.job
    BY <1>1, JobsFromOne DEF FairInvariant, FairCalls, HostCalls
  <2>2. Pair(fair.job) \in Folk \X (Folk \cup Visitors)
    BY <1>1, <2>1 DEF FairInvariant, SocialInvariant, RootsOK
  <2>3. QED
    BY <1>2, <1>3, <2>2 DEF Pair
<1>9. Sequence(fair'.hits) /\ \A i \in DOMAIN fair'.hits : fair'.hits[i].from \in Folk \cup Visitors
  <2>1. CASE fair'.hits = fair.hits
    BY <2>1, FairWaits
  <2>2. CASE fair'.hits = Append(fair.hits, x)
    <3>1. PICK n : n = Len(fair.hits)
      OBVIOUS
    <3>2. n \in Nat /\ DOMAIN fair.hits = 1..n
      BY <3>1, FairWaits, SequenceHas
    <3>3. /\ Sequence(fair'.hits) /\ DOMAIN fair'.hits = 1..(n + 1) /\ fair'.hits[n + 1] = x
          /\ \A i \in 1..n : fair'.hits[i] = fair.hits[i]
      BY <2>2, <3>1, FairWaits, AppendedIs
    <3>4. \A i \in 1..(n + 1) : i \in 1..n \/ i = n + 1
      BY <3>2
    <3>5. QED
      BY <1>8, <3>2, <3>3, <3>4, FairWaits
  <2>3. QED
    BY <1>7, <2>1, <2>2
<1>10. FairOK'
  BY <1>6, <1>7, <1>9, EarlyKeeps
<1>11. QED
  BY <1>1, <1>7, <1>9, <1>10, BetweenCalls DEF EndPitch, socialVars

LEMMA GossipBegins ==
    ASSUME FairInvariant, BeginGossip
    PROVE  FairInvariant'
<1>1. PICK w : w = [pc |-> "gossip", work |-> Errands]
  OBVIOUS
<1>2. DOMAIN w = {"pc", "work"} /\ w.pc = "gossip" /\ w.work = Errands /\ Wait(w)
  BY <1>1 DEF BeginGossip
<1>3. DOMAIN fair' = FairParts /\ \A f \in FairParts : fair'[f] = IF f \in DOMAIN w THEN w[f] ELSE fair[f]
  BY <1>2, FairWaits, WaitIs
<1>4. /\ fair'.pc = "gossip" /\ fair'.work = Errands /\ fair'.job = fair.job /\ fair'.hits = fair.hits
      /\ fair'.rooms = fair.rooms /\ fair'.skip = fair.skip /\ fair'.news = fair.news
      /\ fair'.warned = fair.warned
  BY <1>2, <1>3 DEF FairParts
<1>5. fair.job = 0
  BY DEF BeginGossip
<1>6. FairOK'
  BY <1>3, <1>4, <1>5, QuietKeeps DEF FairInvariant
<1>7. QED
  BY <1>4, <1>6, FairWaits, BetweenCalls DEF BeginGossip, socialVars

LEMMA GossipKeeps ==
    ASSUME FairInvariant, StartGossip
    PROVE  FairInvariant'
<1>1. fair.pc = "gossip" /\ fair.job = 0 /\ FairOK
  BY DEF StartGossip, FairInvariant
<1>2. PICK t \in Due :
        LET e == Errand(t)
        IN  IF e \in fair.warned \/ e.to \notin Folk
            THEN Wait([work |-> fair.work \ {t}]) /\ UNCHANGED socialVars
            ELSE Launch("gossip", e.to, e.about, 0) /\ Wait([job |-> Len(jobs) + 1])
  BY DEF StartGossip
<1>3. PICK e : e = Errand(t)
  OBVIOUS
<1>4. CASE Wait([work |-> fair.work \ {t}]) /\ UNCHANGED socialVars
  <2>1. PICK w : w = [work |-> fair.work \ {t}]
    OBVIOUS
  <2>2. Wait(w) /\ DOMAIN w = {"work"} /\ w.work = fair.work \ {t}
    BY <1>4, <2>1
  <2>3. DOMAIN fair' = FairParts /\ \A f \in FairParts : fair'[f] = IF f \in DOMAIN w THEN w[f] ELSE fair[f]
    BY <2>2, FairWaits, WaitIs
  <2>4. /\ fair'.pc = "gossip" /\ fair'.work \subseteq fair.work /\ fair'.job = 0 /\ fair'.hits = fair.hits
        /\ fair'.rooms = fair.rooms /\ fair'.skip = fair.skip /\ fair'.news = fair.news
        /\ fair'.warned = fair.warned
    BY <1>1, <2>2, <2>3 DEF FairParts
  <2>5. fair'.work \subseteq Errands
    BY <1>1, <2>4 DEF FairOK
  <2>6. FairOK'
    BY <1>1, <2>3, <2>4, <2>5, QuietKeeps
  <2>7. QED
    BY <1>1, <1>4, <2>4, <2>6, FairWaits, BetweenCalls DEF socialVars
<1>5. CASE /\ e \notin fair.warned /\ e.to \in Folk /\ Launch("gossip", e.to, e.about, 0)
           /\ Wait([job |-> Len(jobs) + 1])
  <2>1. PICK w : w = [job |-> Len(jobs) + 1]
    OBVIOUS
  <2>2. Wait(w) /\ DOMAIN w = {"job"} /\ w.job = Len(jobs) + 1
    BY <1>5, <2>1
  <2>3. DOMAIN fair' = FairParts /\ \A f \in FairParts : fair'[f] = IF f \in DOMAIN w THEN w[f] ELSE fair[f]
    BY <2>2, FairWaits, WaitIs
  <2>4. /\ fair'.pc = "gossip" /\ fair'.work = fair.work /\ fair'.job = Len(jobs) + 1
        /\ fair'.hits = fair.hits /\ fair'.rooms = fair.rooms /\ fair'.skip = fair.skip
        /\ fair'.news = fair.news /\ fair'.warned = fair.warned
    BY <1>1, <2>2, <2>3 DEF FairParts
  <2>5. fair'.work \subseteq Errands /\ \A s \in Due : Errand(s) \notin fair'.warned
    <3>1. \A s \in Due : s = t
      BY <1>1, DueIsOne
    <3>2. QED
      BY <1>1, <1>3, <1>5, <2>4, <3>1 DEF FairOK
  <2>6. FairOK'
    BY <1>1, <2>3, <2>4, <2>5, QuietKeeps
  <2>7. PICK npc, other : npc = e.to /\ other = e.about
    OBVIOUS
  <2>8. npc \in Folk /\ other \in Folk \cup Visitors
    <3>1. t[2] \in DOMAIN fair.hits /\ e.about = fair.hits[t[2]].from
      BY <1>1, <1>3 DEF FairOK, Due, Errands, Errand
    <3>2. QED
      BY <1>5, <2>7, <3>1, FairWaits
  <2>9. Launch("gossip", npc, other, 0)
    BY <1>5, <2>7
  <2>10. PICK kind \in {"pitch", "gossip"} : kind = "gossip"
    OBVIOUS
  <2>11. QED
    BY <1>1, <2>4, <2>6, <2>8, <2>9, <2>10, FairLaunches
<1>6. QED
  BY <1>2, <1>3, <1>4, <1>5

LEMMA GossipEnds ==
    ASSUME FairInvariant, EndGossip
    PROVE  FairInvariant'
<1>1. PICK w : /\ Wait(w) /\ DOMAIN w = {"work", "job", "warned", "news"} /\ w.job = 0
  <2>1. PICK t \in Due :
          Wait([work |-> fair.work \ {t}, job |-> 0,
                warned |-> IF jobs[fair.job].pc = "done" THEN fair.warned \cup {Errand(t)} ELSE fair.warned,
                news |-> IF jobs[fair.job].pc = "done" THEN Append(fair.news, Errand(t)) ELSE fair.news])
    BY DEF EndGossip
  <2>2. PICK v : v = [work |-> fair.work \ {t}, job |-> 0,
                warned |-> IF jobs[fair.job].pc = "done" THEN fair.warned \cup {Errand(t)} ELSE fair.warned,
                news |-> IF jobs[fair.job].pc = "done" THEN Append(fair.news, Errand(t)) ELSE fair.news]
    OBVIOUS
  <2>3. QED
    BY <2>1, <2>2
<1>2. DOMAIN fair' = FairParts /\ \A f \in FairParts : fair'[f] = IF f \in DOMAIN w THEN w[f] ELSE fair[f]
  BY <1>1, FairWaits, WaitIs
<1>3. fair'.job = 0 /\ fair'.hits = fair.hits
  BY <1>1, <1>2 DEF FairParts
<1>4. fair.job \notin Running /\ UNCHANGED socialVars
  BY DEF EndGossip
<1>5. QED
  BY <1>3, <1>4, EndGossipKeeps, FairWaits, BetweenCalls DEF socialVars

\* The market: nothing is told there.
LEMMA TradesKeep ==
    ASSUME FairInvariant, ShockTrades \/ TraderActs \/ EndFair
    PROVE  FairInvariant'
<1>1. PICK w : /\ Wait(w) /\ DOMAIN w \subseteq {"pc", "k", "last", "trades", "tick"}
               /\ IF "pc" \in DOMAIN w THEN w.pc \in {"idle", "trade"} ELSE fair.pc = "trade"
  <2>1. CASE ShockTrades
    <3>1. PICK done : Wait([pc |-> "trade", k |-> 1, trades |-> SetToSeq(done)])
      BY <2>1 DEF ShockTrades
    <3>2. PICK v : v = [pc |-> "trade", k |-> 1, trades |-> SetToSeq(done)]
      OBVIOUS
    <3>3. Wait(v) /\ DOMAIN v = {"pc", "k", "trades"} /\ v.pc = "trade"
      BY <3>1, <3>2
    <3>4. QED
      BY <3>3
  <2>2. CASE EndFair
    <3>1. PICK v : v = [pc |-> "idle", tick |-> fair.tick + 1]
      OBVIOUS
    <3>2. Wait(v) /\ DOMAIN v = {"pc", "tick"} /\ v.pc = "idle"
      BY <2>2, <3>1 DEF EndFair
    <3>3. QED
      BY <3>2
  <2>3. CASE TraderActs
    <3>1. fair.pc = "trade"
      BY <2>3 DEF TraderActs
    <3>2. PICK i, price :
            \/ Wait([k |-> fair.k + 1])
            \/ Wait([k |-> fair.k + 1, last |-> SetLast(Cast[i].npc, price)])
            \/ \E last, trades : Wait([k |-> fair.k + 1, last |-> last, trades |-> trades])
      BY <2>3 DEF TraderActs
    <3>3. CASE Wait([k |-> fair.k + 1])
      <4>1. PICK v : v = [k |-> fair.k + 1]
        OBVIOUS
      <4>2. Wait(v) /\ DOMAIN v = {"k"}
        BY <3>3, <4>1
      <4>3. QED
        BY <3>1, <4>2
    <3>4. CASE Wait([k |-> fair.k + 1, last |-> SetLast(Cast[i].npc, price)])
      <4>1. PICK v : v = [k |-> fair.k + 1, last |-> SetLast(Cast[i].npc, price)]
        OBVIOUS
      <4>2. Wait(v) /\ DOMAIN v = {"k", "last"}
        BY <3>4, <4>1
      <4>3. QED
        BY <3>1, <4>2
    <3>5. CASE \E last, trades : Wait([k |-> fair.k + 1, last |-> last, trades |-> trades])
      <4>1. PICK last, trades : Wait([k |-> fair.k + 1, last |-> last, trades |-> trades])
        BY <3>5
      <4>2. PICK v : v = [k |-> fair.k + 1, last |-> last, trades |-> trades]
        OBVIOUS
      <4>3. Wait(v) /\ DOMAIN v = {"k", "last", "trades"}
        BY <4>1, <4>2
      <4>4. QED
        BY <3>1, <4>3
    <3>6. QED
      BY <3>2, <3>3, <3>4, <3>5
  <2>4. QED
    BY <2>1, <2>2, <2>3
<1>2. DOMAIN fair' = FairParts /\ \A f \in FairParts : fair'[f] = IF f \in DOMAIN w THEN w[f] ELSE fair[f]
  BY <1>1, FairWaits, WaitIs
<1>3. /\ fair'.pc \in {"idle", "trade"} /\ fair'.job = fair.job /\ fair'.hits = fair.hits
      /\ fair'.rooms = fair.rooms /\ fair'.skip = fair.skip /\ fair'.news = fair.news
      /\ fair'.warned = fair.warned
  BY <1>1, <1>2 DEF FairParts
<1>4. UNCHANGED socialVars
  BY DEF ShockTrades, TraderActs, EndFair
<1>5. FairOK'
  BY <1>2, <1>3, QuietKeeps DEF FairInvariant
<1>6. QED
  BY <1>3, <1>4, <1>5, FairWaits, BetweenCalls DEF socialVars

LEMMA FairProceeds ==
    ASSUME FairInvariant, NEW j \in DOMAIN jobs, Proceed(j), UNCHANGED fair
    PROVE  FairInvariant'
<1>1. SocialInvariant' /\ CallsOnlyEnd
  BY ProceedKeeps DEF FairInvariant
<1>2. FairCalls'
  BY <1>1 DEF FairInvariant, FairCalls, CallsOnlyEnd
<1>3. FairOK'
  <2>1. (Errands' = Errands) /\ (\A t : Errand(t)' = Errand(t)) /\ (\A x : Here(x)' = Here(x)) /\ Due' = Due
    BY SameErrands
  <2>2. QED
    BY <2>1 DEF FairInvariant, FairOK, NewsTravels
<1>4. QED
  BY <1>1, <1>2, <1>3 DEF FairInvariant

LEMMA FairStep ==
    ASSUME FairInvariant,
           [FairNext \/ ((\E j \in DOMAIN jobs : Proceed(j)) /\ UNCHANGED fair)]_<<socialVars, fair>>
    PROVE  FairInvariant'
<1>1. CASE UNCHANGED <<socialVars, fair>>
  <2>1. (Errands' = Errands) /\ (\A t : Errand(t)' = Errand(t)) /\ (\A x : Here(x)' = Here(x)) /\ Due' = Due
    BY <1>1, SameErrands
  <2>2. FairOK'
    BY <1>1, <2>1 DEF FairInvariant, FairOK, NewsTravels
  <2>3. QED
    BY <1>1, <2>2, FairWaits, BetweenCalls DEF socialVars
<1>2. CASE \E skip \in Skips : BeginFair(skip)
  BY <1>2, BeginFairKeeps
<1>3. CASE MoveActor \/ TakeRooms \/ StartPitch \/ EndPitch \/ BeginGossip
  BY <1>3, MovesKeep, PitchKeeps, EndPitchKeeps, GossipBegins
<1>4. CASE StartGossip \/ EndGossip \/ ShockTrades \/ TraderActs \/ EndFair
  BY <1>4, GossipKeeps, GossipEnds, TradesKeep
<1>5. CASE (\E j \in DOMAIN jobs : Proceed(j)) /\ UNCHANGED fair
  BY <1>5, FairProceeds
<1>6. QED
  BY <1>1, <1>2, <1>3, <1>4, <1>5 DEF FairNext

LEMMA FairStarts ==
    ASSUME SocialInit, FairInit
    PROVE  FairInvariant
<1>1. /\ DOMAIN fair = FairParts /\ fair.hits = <<>> /\ fair.news = <<>> /\ fair.job = 0 /\ fair.pc = "idle"
  BY DEF FairInit, NoFair, FairParts
<1>2. DOMAIN fair.hits = {} /\ Sequence(fair.hits) /\ DOMAIN fair.news = {} /\ Sequence(fair.news)
  <2>1. PICK f : f = fair.hits /\ f = fair.news
    BY <1>1
  <2>2. DOMAIN f = {} /\ f \in Seq(ToSet(f))
    BY <1>1, <2>1
  <2>3. QED
    BY <2>1, <2>2 DEF Sequence
<1>3. FairOK
  BY <1>1, <1>2 DEF FairOK, NewsTravels
<1>4. HostCalls = {}
  BY DEF SocialInit, HostCalls
<1>5. FairCalls
  BY <1>1, <1>2, <1>4 DEF FairCalls
<1>6. QED
  BY <1>3, <1>5, SocialStarts DEF FairInvariant

LEMMA FairInvariantHolds ==
    FairSpec => []FairInvariant
BY FairStarts, FairStep, PTL DEF FairSpec

\* News travels with bodies, on every fair: what a gossip tells in a tick was
\* lost in that tick where it stands, to a listener that stands there too and
\* has not lost it, and nobody is told twice.
THEOREM NewsTravelsWithBodies ==
    FairSpec => []NewsTravels
<1>1. FairInvariant => NewsTravels
  BY DEF FairInvariant, FairOK
<1>2. QED
  BY <1>1, FairInvariantHolds, PTL

\* At a fair, whose calls are the fair's own, what holds of a host's calls does.
THEOREM FairKeepsFaith ==
    FairSpec => []OneInterjection /\ []RelationshipsKept /\ BurnedOnce
<1>1. FairInvariant => OneInterjection /\ RelationshipsKept
  BY FewInterject, AllAreRemembered DEF FairInvariant
<1>2. ASSUME FairInvariant,
             [FairNext \/ ((\E j \in DOMAIN jobs : Proceed(j)) /\ UNCHANGED fair)]_<<socialVars, fair>>
      PROVE  \A p \in Pairs : losses'[p] # losses[p] /\ shost.lanes = 1 /\ ~shost.flaky =>
                IF p[1] \in minted \ shost.agents THEN losses[p] <= 1
                ELSE losses[p] = 0 /\ ~Forewarned(p)
  <2>1. SUFFICES ASSUME NEW p, losses'[p] # losses[p]
                 PROVE  \E j \in DOMAIN jobs : Pay(j)
    BY <1>2, OnlyTheUnwaryPay DEF FairInvariant
  <2>2. losses' # losses
    BY <2>1
  <2>3. ~ UNCHANGED socialVars
    BY <2>2 DEF socialVars
  <2>4. ~(\E skip \in Skips : BeginFair(skip)) /\ ~MoveActor /\ ~TakeRooms
    BY <2>2, <2>3 DEF BeginFair, MoveActor, TakeRooms, Place
  <2>5. ~StartPitch /\ ~EndPitch /\ ~BeginGossip
    BY <2>2, <2>3 DEF StartPitch, EndPitch, BeginGossip, Launch
  <2>6. ~StartGossip /\ ~EndGossip
    BY <2>2, <2>3 DEF StartGossip, EndGossip, Launch
  <2>7. ~ShockTrades /\ ~TraderActs /\ ~EndFair
    BY <2>3 DEF ShockTrades, TraderActs, EndFair
  <2>8. PICK j \in DOMAIN jobs : Proceed(j)
    BY <1>2, <2>3, <2>4, <2>5, <2>6, <2>7 DEF FairNext
  <2>9. QED
    BY <2>1, <2>8, LossesByPaying
<1>3. QED
  BY <1>1, <1>2, FairInvariantHolds, PTL DEF FairSpec, BurnedOnce

-----------------------------------------------------------------------------
(***************************************************************************)
(* The transactions of a world, and the anchors of its ticks.              *)
(***************************************************************************)
IsList(s) == \E S : s \in Seq(S)

LEMMA AppendToSeq ==
    ASSUME NEW s, IsList(s), NEW x
    PROVE  /\ Len(s) \in Nat /\ DOMAIN s = 1..Len(s)
           /\ IsList(Append(s, x))
           /\ Len(Append(s, x)) = Len(s) + 1 /\ DOMAIN Append(s, x) = 1..(Len(s) + 1)
           /\ Append(s, x)[Len(s) + 1] = x
           /\ \A i \in 1..Len(s) : Append(s, x)[i] = s[i]
<1>1. PICK S : s \in Seq(S)
  BY DEF IsList
<1>2. s \in Seq(S \cup {x}) /\ x \in S \cup {x}
  BY <1>1
<1>3. Append(s, x) \in Seq(S \cup {x})
  BY <1>2
<1>4. QED
  BY <1>2, <1>3 DEF IsList

LEMMA EmptyIsASeq == IsList(<<>>) /\ Len(<<>>) = 0
<1>1. <<>> \in Seq({})
  OBVIOUS
<1>2. QED
  BY <1>1 DEF IsList

\* The worlds that a replay of the first k transactions goes through.
Replay(w, txs, k, run) ==
    run = [n \in 0..k |-> IF n = 0 THEN w ELSE ApplyTx(run[n - 1], txs[n])]

LEMMA ReplayExists ==
    ASSUME NEW w, NEW txs, NEW k \in Nat
    PROVE  \E run : Replay(w, txs, k, run)
<1> DEFINE F == {n \in 0..k : \E run : Replay(w, txs, n, run)}
<1>1. 0 \in F
  <2> DEFINE run == [n \in 0..0 |-> w]
  <2>1. Replay(w, txs, 0, run)
    BY DEF Replay
  <2>2. QED
    BY <2>1
<1>2. ASSUME NEW n \in 0..(k - 1), n \in F PROVE n + 1 \in F
  <2>1. PICK run : Replay(w, txs, n, run)
    BY <1>2
  <2> DEFINE more == [i \in 0..(n + 1) |->
                        IF i <= n THEN run[i] ELSE ApplyTx(run[n], txs[n + 1])]
  <2>2. \A i \in 0..n : run[i] = IF i = 0 THEN w ELSE ApplyTx(run[i - 1], txs[i])
    BY <2>1 DEF Replay
  <2>3. ASSUME NEW i \in 0..(n + 1)
        PROVE  more[i] = IF i = 0 THEN w ELSE ApplyTx(more[i - 1], txs[i])
    <3>1. CASE i = n + 1
      <4>1. more[n + 1] = ApplyTx(run[n], txs[n + 1]) /\ more[n] = run[n] /\ i - 1 = n /\ i # 0
        BY <3>1
      <4>2. QED
        BY <4>1, <3>1
    <3>2. CASE i <= n
      <4>1. i \in 0..n /\ more[i] = run[i] /\ (i # 0 => more[i - 1] = run[i - 1])
        BY <3>2
      <4>2. QED
        BY <4>1, <2>2
    <3>3. QED
      BY <3>1, <3>2
  <2>4. Replay(w, txs, n + 1, more)
    BY <2>3 DEF Replay
  <2>5. n + 1 \in 0..k
    OBVIOUS
  <2>6. QED
    BY <2>4, <2>5
<1>3. \A n \in 0..k : n \in F
  <2> HIDE DEF F
  <2>1. QED
    BY <1>1, <1>2, IntervalInduction
<1>4. QED
  BY <1>3

LEMMA ReplayUnique ==
    ASSUME NEW w, NEW txs, NEW k \in Nat, NEW run, Replay(w, txs, k, run),
           NEW other, Replay(w, txs, k, other)
    PROVE  run[k] = other[k]
<1> DEFINE F == {n \in 0..k : run[n] = other[n]}
<1>1. \A n \in 0..k : /\ run[n] = IF n = 0 THEN w ELSE ApplyTx(run[n - 1], txs[n])
                      /\ other[n] = IF n = 0 THEN w ELSE ApplyTx(other[n - 1], txs[n])
  BY DEF Replay
<1>2. 0 \in F
  BY <1>1
<1>3. ASSUME NEW n \in 0..(k - 1), n \in F PROVE n + 1 \in F
  <2>1. n + 1 \in 0..k /\ (n + 1) - 1 = n /\ n + 1 # 0 /\ run[n] = other[n]
    BY <1>3
  <2>2. QED
    BY <2>1, <1>1
<1>4. \A n \in 0..k : n \in F
  <2> HIDE DEF F
  <2>1. QED
    BY <1>2, <1>3, IntervalInduction
<1>5. QED
  BY <1>4

LEMMA ApplyAllIsReplay ==
    ASSUME NEW w, NEW txs, Len(txs) \in Nat, NEW run, Replay(w, txs, Len(txs), run)
    PROVE  ApplyAll(w, txs) = run[Len(txs)]
<1> DEFINE after == CHOOSE f : f = [n \in 0..Len(txs) |->
                                      IF n = 0 THEN w ELSE ApplyTx(f[n - 1], txs[n])]
<1>1. Replay(w, txs, Len(txs), after)
  BY ReplayExists DEF Replay
<1>2. ApplyAll(w, txs) = after[Len(txs)]
  BY DEF ApplyAll
<1>3. QED
  BY <1>1, <1>2, ReplayUnique

\* One more transaction is applied last.
LEMMA ReplayAppend ==
    ASSUME NEW w, NEW txs, IsList(txs), NEW tx
    PROVE  ApplyAll(w, Append(txs, tx)) = ApplyTx(ApplyAll(w, txs), tx)
<1> DEFINE k == Len(txs)
           more == Append(txs, tx)
<1>1. /\ k \in Nat /\ Len(more) = k + 1
      /\ more[k + 1] = tx /\ \A i \in 1..k : more[i] = txs[i]
  BY AppendToSeq
<1>2. PICK run : Replay(w, more, k + 1, run)
  <2>1. k + 1 \in Nat
    BY <1>1
  <2> HIDE DEF k, more
  <2>2. QED
    BY <2>1, ReplayExists
<1>3. \A n \in 0..(k + 1) : run[n] = IF n = 0 THEN w ELSE ApplyTx(run[n - 1], more[n])
  BY <1>2 DEF Replay
<1> DEFINE first == [n \in 0..k |-> run[n]]
<1>4. ASSUME NEW n \in 0..k
      PROVE  first[n] = IF n = 0 THEN w ELSE ApplyTx(first[n - 1], txs[n])
  <2>1. n \in 0..(k + 1) /\ first[n] = run[n]
        /\ (n # 0 => first[n - 1] = run[n - 1] /\ more[n] = txs[n])
    BY <1>1
  <2>2. QED
    BY <2>1, <1>3
<1>5. Replay(w, txs, k, first)
  BY <1>4 DEF Replay
<1>6. ApplyAll(w, txs) = run[k]
  BY <1>1, <1>5, ApplyAllIsReplay
<1>7. ApplyAll(w, more) = run[k + 1]
  <2>1. Len(more) = k + 1 /\ Len(more) \in Nat
    BY <1>1
  <2>2. Replay(w, more, Len(more), run)
    <3> HIDE DEF more, k
    <3>1. QED
      BY <1>2, <2>1
  <2>3. ApplyAll(w, more) = run[Len(more)]
    <3> HIDE DEF more, k
    <3>1. QED
      BY <2>1, <2>2, ApplyAllIsReplay
  <2>4. QED
    BY <2>1, <2>3
<1>8. run[k + 1] = ApplyTx(run[k], tx)
  <2>1. k + 1 \in 0..(k + 1) /\ k + 1 # 0 /\ (k + 1) - 1 = k
    BY <1>1
  <2>2. QED
    BY <2>1, <1>1, <1>3
<1>9. QED
  BY <1>6, <1>7, <1>8

LEMMA ReplayOfNothing ==
    ASSUME NEW w
    PROVE  ApplyAll(w, <<>>) = w
<1>1. Len(<<>>) = 0
  BY EmptyIsASeq
<1>2. PICK run : Replay(w, <<>>, 0, run)
  BY ReplayExists
<1>3. run[0] = w
  BY <1>2 DEF Replay
<1>4. PICK none : none = <<>>
  OBVIOUS
<1>5. Len(none) = 0 /\ Len(none) \in Nat /\ Replay(w, none, Len(none), run)
  BY <1>1, <1>2, <1>4
<1>6. ApplyAll(w, none) = run[Len(none)]
  BY <1>5, ApplyAllIsReplay
<1>7. QED
  BY <1>3, <1>4, <1>5, <1>6

(***************************************************************************)
(* The tick committer.                                                     *)
(***************************************************************************)
\* The state that the next anchor follows, and the one the log started from.
Anchored == IF anchors = <<>> THEN script.genesis ELSE anchors[Len(anchors)].root
Opening == IF commit.pc = "none" THEN Anchored ELSE commit.blob.root

\* A commit under way: its blob replays what follows the last anchor, unless
\* that anchor is already its own; before it anchors, it has uploaded.
CommitOK ==
    \/ commit.pc = "none"
    \/ /\ commit = [pc |-> commit.pc, blob |-> commit.blob]
       /\ commit.pc \in {"upload", "anchor"}
       /\ commit.pc = "anchor" => commit.blob \in drive
       /\ \/ ApplyAll(Anchored, commit.blob.events) = commit.blob.root
          \/ /\ anchors # <<>>
             /\ anchors[Len(anchors)] = [root |-> commit.blob.root, eventsHash |-> commit.blob]

StfInv ==
    /\ IsList(log) /\ IsList(anchors)
    /\ world = ApplyAll(Opening, log)
    /\ CommitOK
    /\ AnchorsReplay

LEMMA StfStart == StfInit => StfInv
<1> SUFFICES ASSUME StfInit PROVE StfInv
  OBVIOUS
<1>1. /\ log = <<>> /\ anchors = <<>> /\ world = script.genesis /\ commit.pc = "none"
  BY DEF StfInit, NoCommit
<1>2. Opening = script.genesis
  BY <1>1 DEF Opening, Anchored
<1>3. DOMAIN anchors = {}
  BY <1>1
<1>4. QED
  BY <1>1, <1>2, <1>3, EmptyIsASeq, ReplayOfNothing DEF StfInv, CommitOK, AnchorsReplay

\* A transaction is applied and logged.
LEMMA LoggedKeeps ==
    ASSUME StfInv, NEW tx, world' = ApplyTx(world, tx), log' = Append(log, tx),
           UNCHANGED <<script, commit, drive, anchors>>
    PROVE  StfInv'
<1>1. Opening' = Opening /\ Anchored' = Anchored
  BY DEF Opening, Anchored
<1>2. IsList(log') /\ world' = ApplyAll(Opening, log')
  BY AppendToSeq, ReplayAppend DEF StfInv
<1>3. CommitOK'
  BY <1>1 DEF StfInv, CommitOK
<1>4. AnchorsReplay'
  BY DEF StfInv, AnchorsReplay
<1>5. QED
  BY <1>1, <1>2, <1>3, <1>4 DEF StfInv

LEMMA BeginCommitKeeps ==
    ASSUME StfInv, BeginCommit
    PROVE  StfInv'
<1>1. /\ commit.pc = "none" /\ log' = <<>> /\ UNCHANGED <<script, world, drive, anchors>>
      /\ commit' = [pc |-> "upload", blob |-> [tick |-> tick, events |-> log, root |-> world]]
  BY DEF BeginCommit
<1>2. /\ commit'.pc = "upload" /\ commit'.blob.events = log /\ commit'.blob.root = world
      /\ commit' = [pc |-> commit'.pc, blob |-> commit'.blob]
  BY <1>1
<1>3. Anchored' = Anchored /\ Opening = Anchored /\ Opening' = world
  BY <1>1, <1>2 DEF Anchored, Opening
<1>4. ApplyAll(Anchored, log) = world
  BY <1>3 DEF StfInv
<1>5. IsList(log') /\ world' = ApplyAll(Opening', log')
  BY <1>1, <1>3, EmptyIsASeq, ReplayOfNothing
<1>6. CommitOK'
  BY <1>2, <1>3, <1>4 DEF CommitOK
<1>7. IsList(anchors') /\ AnchorsReplay'
  BY <1>1 DEF StfInv, AnchorsReplay
<1>8. QED
  BY <1>5, <1>6, <1>7 DEF StfInv

\* The blob of a commit under way is uploaded, and once more on a retry.
LEMMA UploadedKeeps ==
    ASSUME StfInv, commit.pc \in {"upload", "anchor"}, NEW pc,
           commit' = [commit EXCEPT !.pc = pc],
           drive \subseteq drive',
           \/ pc = "anchor" /\ commit.blob \in drive'
           \/ pc = "upload",
           UNCHANGED <<script, world, log, anchors>>
    PROVE  StfInv'
<1>1. commit = [pc |-> commit.pc, blob |-> commit.blob]
  BY DEF StfInv, CommitOK
<1>2. commit'.pc = pc /\ commit'.blob = commit.blob /\ commit' = [pc |-> pc, blob |-> commit.blob]
  BY <1>1
<1>3. Anchored' = Anchored /\ Opening' = Opening
  BY <1>2 DEF Anchored, Opening
<1>4. IsList(log') /\ world' = ApplyAll(Opening', log')
  BY <1>3 DEF StfInv
<1>5. CommitOK'
  BY <1>2, <1>3 DEF StfInv, CommitOK
<1>6. IsList(anchors') /\ AnchorsReplay'
  BY DEF StfInv, AnchorsReplay
<1>7. QED
  BY <1>4, <1>5, <1>6 DEF StfInv

\* The blob is anchored; the commit ends, or its host retries it.
LEMMA AnchoredKeeps ==
    ASSUME StfInv, commit.pc = "anchor",
           anchors' = Append(anchors, [root |-> commit.blob.root, eventsHash |-> commit.blob]),
           commit' = NoCommit \/ commit' = [commit EXCEPT !.pc = "upload"],
           UNCHANGED <<script, world, log, drive>>
    PROVE  StfInv'
<1> DEFINE a == [root |-> commit.blob.root, eventsHash |-> commit.blob]
           k == Len(anchors)
<1>1. /\ k \in Nat /\ IsList(anchors') /\ Len(anchors') = k + 1 /\ DOMAIN anchors' = 1..(k + 1)
      /\ DOMAIN anchors = 1..k
      /\ anchors'[k + 1] = a /\ \A i \in 1..k : anchors'[i] = anchors[i]
  BY AppendToSeq DEF StfInv
<1>2. anchors' # <<>>
  BY <1>1, EmptyIsASeq
<1>3. Anchored' = commit.blob.root
  BY <1>1, <1>2 DEF Anchored
<1>4. /\ commit = [pc |-> commit.pc, blob |-> commit.blob] /\ commit.blob \in drive
      /\ \/ ApplyAll(Anchored, commit.blob.events) = commit.blob.root
         \/ anchors # <<>> /\ anchors[k] = a
  BY DEF StfInv, CommitOK
<1>5. \/ commit'.pc = "none"
      \/ commit'.pc = "upload" /\ commit'.blob = commit.blob
         /\ commit' = [pc |-> "upload", blob |-> commit.blob]
  BY <1>4 DEF NoCommit
<1>6. Opening' = commit.blob.root /\ Opening = commit.blob.root
  BY <1>3, <1>5 DEF Opening
<1>7. IsList(log') /\ world' = ApplyAll(Opening', log')
  BY <1>6 DEF StfInv
<1>8. CommitOK'
  BY <1>1, <1>2, <1>5 DEF CommitOK
<1>9. ASSUME NEW i \in DOMAIN anchors'
      PROVE  LET b == anchors'[i]
                 before == IF i = 1 THEN script'.genesis ELSE anchors'[i - 1].root
             IN  /\ b.eventsHash \in drive'
                 /\ b.eventsHash.root = b.root
                 /\ \/ ApplyAll(before, b.eventsHash.events) = b.root
                    \/ i > 1 /\ b = anchors'[i - 1]
  <2>1. CASE i \in 1..k
    <3>1. /\ anchors'[i] = anchors[i] /\ i \in DOMAIN anchors
          /\ i # 1 => anchors'[i - 1] = anchors[i - 1]
      BY <2>1, <1>1
    <3>2. AnchorsReplay
      BY DEF StfInv
    <3>3. QED
      BY <3>1, <3>2, <2>1 DEF AnchorsReplay
  <2>2. CASE i = k + 1
    <3>1. anchors'[i] = a /\ a.eventsHash = commit.blob /\ a.root = commit.blob.root
      BY <2>2, <1>1
    <3>2. CASE k = 0
      <4>1. anchors = <<>>
        <5>1. PICK S : anchors \in Seq(S)
          BY DEF StfInv, IsList
        <5>2. QED
          BY <5>1, <3>2
      <4>2. Anchored = script.genesis /\ i = 1
        BY <4>1, <3>2, <2>2 DEF Anchored
      <4>3. ApplyAll(script.genesis, commit.blob.events) = commit.blob.root
        BY <1>4, <4>1, <4>2
      <4>4. QED
        BY <4>2, <4>3, <3>1, <1>4
    <3>3. CASE k # 0
      <4>0. anchors # <<>>
        BY <3>3, EmptyIsASeq
      <4>1. i > 1 /\ i # 1 /\ i - 1 = k /\ anchors'[i - 1] = anchors[k]
        <5>1. k \in 1..k
          <6> HIDE DEF k
          <6>1. QED
            BY <3>3, <1>1
        <5>2. i - 1 = k /\ i > 1 /\ i # 1
          <6> HIDE DEF k
          <6>1. QED
            BY <2>2, <3>3, <1>1
        <5>3. anchors'[k] = anchors[k]
          BY <5>1, <1>1
        <5>4. QED
          BY <5>2, <5>3
      <4>2. Anchored = anchors'[i - 1].root
        BY <4>0, <4>1 DEF Anchored
      <4>3. QED
        BY <4>0, <4>1, <4>2, <3>1, <1>4
    <3>4. QED
      BY <3>2, <3>3
  <2>3. QED
    BY <2>1, <2>2, <1>1
<1>10. AnchorsReplay'
  BY <1>9 DEF AnchorsReplay
<1>11. QED
  BY <1>1, <1>7, <1>8, <1>10 DEF StfInv

LEMMA StfStep ==
    ASSUME StfInv, StfNext
    PROVE  StfInv'
<1>1. ASSUME NEW tx \in script.offers, Apply(tx) PROVE StfInv'
  BY <1>1, LoggedKeeps DEF Apply
<1>2. ASSUME Upload PROVE StfInv'
  BY <1>2, UploadedKeeps DEF Upload
<1>3. ASSUME Anchor PROVE StfInv'
  BY <1>3, AnchoredKeeps DEF Anchor
<1>4. ASSUME CommitFails PROVE StfInv'
  <2>1. commit.pc \in {"upload", "anchor"}
    BY <1>4 DEF CommitFails, StfInv, CommitOK
  <2>2. \/ drive \subseteq drive' /\ UNCHANGED anchors
        \/ /\ commit.pc = "anchor" /\ UNCHANGED drive
           /\ anchors' = Append(anchors, [root |-> commit.blob.root, eventsHash |-> commit.blob])
    BY <1>4 DEF CommitFails
  <2>3. commit' = [commit EXCEPT !.pc = "upload"] /\ UNCHANGED <<script, world, log>>
    BY <1>4 DEF CommitFails
  <2>4. QED
    BY <2>1, <2>2, <2>3, UploadedKeeps, AnchoredKeeps
<1>5. QED
  BY <1>1, <1>2, <1>3, <1>4, BeginCommitKeeps DEF StfNext

LEMMA StfHolds == OracleSpec => []StfInv
<1>1. StfInit => StfInv
  BY StfStart
<1>2. ASSUME StfInv,
             [OracleNext]_<<stfVars, oracleVars>>
      PROVE  StfInv'
  <2>1. ASSUME UNCHANGED stfVars PROVE StfInv'
    <3>1. Anchored' = Anchored /\ Opening' = Opening
      BY <2>1 DEF stfVars, Anchored, Opening
    <3>2. QED
      BY <1>2, <2>1, <3>1 DEF stfVars, StfInv, CommitOK, AnchorsReplay
  <2>2. ASSUME NEW value \in Values, FinishTurn(value) PROVE StfInv'
    BY <1>2, <2>2, LoggedKeeps DEF FinishTurn
  <2>3. ASSUME ProofNext PROVE UNCHANGED stfVars
    BY <2>3 DEF ProofNext, Attest, VerifyTalkProvenance
  <2>4. ASSUME TurnNext PROVE UNCHANGED stfVars \/ \E value \in Values : FinishTurn(value)
    BY <2>4 DEF TurnNext, BeginTurn, Produce
  <2>5. QED
    BY <1>2, <2>1, <2>2, <2>3, <2>4, StfStep DEF OracleNext
<1>3. QED
  BY <1>1, <1>2, PTL DEF OracleSpec

\* The chain's anchors can be replayed by anybody, for any world, transactions,
\* turns of oracles, lost answers and retries of a commit (applyAll, commit).
THEOREM AnchorsCanBeReplayed == OracleSpec => []AnchorsReplay
<1>1. StfInv => AnchorsReplay
  BY DEF StfInv
<1>2. QED
  BY <1>1, StfHolds, PTL

\* A talk that passes the provenance check is the answer of an allowed signer's
\* model run, for any signers, responses and parser (verifyTalkProvenance).
THEOREM ProvenanceIsSound == OracleSpec => []ProvenIsAttested
<1>1. OracleInit => ProvenIsAttested
  BY DEF OracleInit, ProvenIsAttested
<1>2. ASSUME ProvenIsAttested,
             [OracleNext]_<<stfVars, oracleVars>>
      PROVE  ProvenIsAttested'
  <2>1. CASE UNCHANGED shown
    BY <1>2, <2>1 DEF ProvenIsAttested
  <2>2. CASE \E signer \in Signers, response \in Responses : Attest(signer, response)
    BY <1>2, <2>2 DEF Attest, ProvenIsAttested
  <2>3. CASE VerifyTalkProvenance
    BY <2>3 DEF VerifyTalkProvenance, ProvenanceOk, ProvenIsAttested
  <2>4. QED
    BY <1>2, <2>1, <2>2, <2>3
    DEF OracleNext, oracleVars, TurnNext, BeginTurn, Produce, FinishTurn, ProofNext
<1>3. QED
  BY <1>1, <1>2, PTL DEF OracleSpec

-----------------------------------------------------------------------------
(***************************************************************************)
(* What the transactions of the STF leave of the money, the fighters and   *)
(* the reserve of a planner.                                               *)
(***************************************************************************)
\* Worlds that hold the same money as w.
SameMoney(w) ==
    {v \in WorldStates : v.gcc = w.gcc /\ v.usdc = w.usdc /\ v.market = w.market /\ v.bets = w.bets}

LEMMA EffectKeeps ==
    ASSUME NEW w \in WorldStates, NEW v \in SameMoney(w), NEW tx, tx.npc \in Ids,
           tx.player \in Players, NEW e \in Effects
    PROVE  Enact(v, tx, e) \in SameMoney(w)
<1>1. v \in WorldStates
  BY DEF SameMoney
<1>2. CASE Validate(e) /\ e.kind = "adjustRelationship"
  <2>1. Enact(v, tx, e) = [v EXCEPT !.rel[tx.npc][tx.player] = @ + e.delta]
    BY <1>2 DEF Enact
  <2>2. v.rel \in [Ids -> [Souls -> Int]] /\ tx.player \in Souls /\ e.delta \in Int
    BY <1>1 DEF WorldStates, Souls, Effects
  <2>3. [v.rel EXCEPT ![tx.npc][tx.player] = @ + e.delta] \in [Ids -> [Souls -> Int]]
    BY <2>2
  <2>4. QED
    BY <2>1, <2>3, <1>1 DEF SameMoney, WorldStates
<1>3. CASE Validate(e) /\ e.kind = "setFlag"
  <2>1. Enact(v, tx, e) = [v EXCEPT !.flags[tx.player] = e.delta]
    BY <1>3 DEF Enact
  <2>2. v.flags \in [Players -> Int] /\ e.delta \in Int
    BY <1>1 DEF WorldStates, Effects
  <2>3. [v.flags EXCEPT ![tx.player] = e.delta] \in [Players -> Int]
    BY <2>2
  <2>4. QED
    BY <2>1, <2>3, <1>1 DEF SameMoney, WorldStates
<1>4. CASE Validate(e) /\ e.kind \notin {"adjustRelationship", "setFlag"}
  BY <1>4 DEF Enact
<1>5. CASE ~Validate(e)
  BY <1>5 DEF Enact
<1>6. QED
  BY <1>2, <1>3, <1>4, <1>5

\* The effects of a talk are enacted one after the other: the world they leave.
LEMMA TalkLeaves ==
    ASSUME NEW w \in WorldStates, NEW tx, tx.npc \in Ids, tx.player \in Players,
           tx.effects \in Seq(Effects)
    PROVE  \E v \in SameMoney(w) : ApplyTalk(w, tx) = [v EXCEPT !.gcc[tx.npc] = NotNegative(@ - tx.cost)]
<1> DEFINE k == Len(tx.effects)
           D == SameMoney(w)
           G == [n \in 1..k |-> [v \in D |-> Enact(v, tx, tx.effects[n])]]
           step == CHOOSE f : f = [n \in 0..k |-> IF n = 0 THEN w ELSE Enact(f[n - 1], tx, tx.effects[n])]
<1>1. k \in Nat /\ w \in D /\ \A n \in 1..k : tx.effects[n] \in Effects
  BY DEF SameMoney
<1>2. G \in [1..k -> [D -> D]]
  <2>1. ASSUME NEW n \in 1..k, NEW v \in D PROVE Enact(v, tx, tx.effects[n]) \in D
    BY <1>1, EffectKeeps
  <2> HIDE DEF k, D
  <2>2. QED
    BY <2>1
<1>3. \E f : Orbit(f, w, k, G, D)
  <2> HIDE DEF k, D, G
  <2>1. QED
    BY <1>1, <1>2, OrbitExists
<1>4. PICK f \in [0..k -> D] : \A n \in 0..k : f[n] = IF n = 0 THEN w ELSE G[n][f[n - 1]]
  <2> HIDE DEF k, D, G
  <2>1. QED
    BY <1>3 DEF Orbit
<1>5. f = [n \in 0..k |-> IF n = 0 THEN w ELSE Enact(f[n - 1], tx, tx.effects[n])]
  <2>1. ASSUME NEW n \in 0..k, n # 0
        PROVE  G[n][f[n - 1]] = Enact(f[n - 1], tx, tx.effects[n])
    <3>1. n \in 1..k /\ n - 1 \in 0..k
      BY <1>1, <2>1
    <3>2. f[n - 1] \in D
      BY <3>1, <1>4
    <3> HIDE DEF k, D
    <3>3. QED
      BY <3>1, <3>2
  <2> HIDE DEF k, D, G
  <2>2. QED
    BY <2>1, <1>4
<1>6. step = [n \in 0..k |-> IF n = 0 THEN w ELSE Enact(step[n - 1], tx, tx.effects[n])]
  <2> HIDE DEF k
  <2>1. QED
    BY <1>5
<1>7. \A n \in 0..k : step[n] = IF n = 0 THEN w ELSE Enact(step[n - 1], tx, tx.effects[n])
  <2> HIDE DEF k, step
  <2>1. QED
    BY <1>6
<1> DEFINE Good == {n \in 0..k : step[n] \in D}
<1>8. 0 \in Good
  <2> HIDE DEF k, step, D
  <2>1. QED
    BY <1>1, <1>7
<1>9. ASSUME NEW n \in 0..(k - 1), n \in Good PROVE n + 1 \in Good
  <2>1. n + 1 \in 1..k /\ n + 1 \in 0..k /\ n + 1 # 0 /\ (n + 1) - 1 = n /\ step[n] \in D
    <3> HIDE DEF k, step, D
    <3>1. QED
      BY <1>1, <1>9
  <2>2. step[n + 1] = Enact(step[n], tx, tx.effects[n + 1]) /\ tx.effects[n + 1] \in Effects
    <3> HIDE DEF k, step, D
    <3>1. QED
      BY <2>1, <1>1, <1>7
  <2>3. step[n + 1] \in D
    <3> HIDE DEF k, step
    <3>1. QED
      BY <2>1, <2>2, EffectKeeps
  <2>4. QED
    BY <2>1, <2>3
<1>10. step[k] \in D
  <2>1. \A n \in 0..k : n \in Good
    <3> HIDE DEF Good, k
    <3>1. QED
      BY <1>1, <1>8, <1>9, IntervalInduction
  <2> HIDE DEF step, k, D
  <2>2. QED
    BY <2>1, <1>1
<1>11. ApplyTalk(w, tx) = [step[k] EXCEPT !.gcc[tx.npc] = NotNegative(@ - tx.cost)]
  BY DEF ApplyTalk
<1>12. QED
  BY <1>10, <1>11

LEMMA DamageIsANumber ==
    ASSUME NEW from \in Stats, NEW to \in Stats, NEW seed, NEW n
    PROVE  Damage(from, to, seed, n) \in Int
<1> DEFINE blow == from.atk + Draw(seed, n) - to.def - (IF from.element = to.element THEN 1 ELSE 0)
<1>1. blow \in Int
  BY DEF Stats, Draw
<1>2. Damage(from, to, seed, n) = Max({1, blow})
  BY DEF Damage
<1> HIDE DEF blow
<1>3. \E x \in {1, blow} : \A y \in {1, blow} : x >= y
  <2>1. 1 >= blow \/ blow >= 1
    BY <1>1
  <2>2. 1 >= 1 /\ blow >= blow
    BY <1>1
  <2>3. QED
    BY <2>1, <2>2
<1>4. Max({1, blow}) \in {1, blow}
  BY <1>3 DEF Max
<1>5. QED
  BY <1>1, <1>2, <1>4

Fights(a, b) == [hp : [{a, b} -> Nat], n : Nat]

LEMMA BlowIsAFight ==
    ASSUME NEW a, NEW b, NEW f \in Fights(a, b), NEW s \in {a, b}, NEW t \in {a, b},
           NEW stats \in [{a, b} -> Stats], NEW seed
    PROVE  Blow(f, s, t, stats, seed) \in Fights(a, b)
<1>1. f.hp \in [{a, b} -> Nat] /\ f.n \in Nat /\ stats[s] \in Stats /\ stats[t] \in Stats
  BY DEF Fights
<1> DEFINE d == Damage(stats[s], stats[t], seed, f.n)
<1>2. d \in Int
  BY <1>1, DamageIsANumber
<1> HIDE DEF d
<1>3. NotNegative(f.hp[t] - d) \in Nat
  BY <1>1, <1>2 DEF NotNegative
<1>4. [f.hp EXCEPT ![t] = NotNegative(@ - d)] \in [{a, b} -> Nat]
  BY <1>1, <1>3
<1>5. QED
  BY <1>1, <1>4 DEF Blow, Fights, d

\* A fight leaves its fighters with health that is not negative.
LEMMA BoutLeaves ==
    ASSUME NEW a, NEW b, NEW stats \in [{a, b} -> Stats], NEW seed
    PROVE  Bout(a, b, stats, seed) \in [{a, b} -> Nat]
<1> DEFINE D == Fights(a, b)
           first == IF stats[a].atk >= stats[b].atk THEN a ELSE b
           Rival(s) == IF s = a THEN b ELSE a
           Round(f) == Blow(Blow(f, first, Rival(first), stats, seed),
                            Rival(first), Rival(Rival(first)), stats, seed)
           start == [hp |-> [s \in {a, b} |-> stats[s].hp], n |-> 0]
           G == [r \in 1..MaxRounds |-> [f \in D |-> Round(f)]]
           fight == CHOOSE f : f = [r \in 0..MaxRounds |-> IF r = 0 THEN start ELSE Round(f[r - 1])]
<1>1. first \in {a, b} /\ Rival(first) \in {a, b} /\ Rival(Rival(first)) \in {a, b}
  OBVIOUS
<1>2. start \in D /\ MaxRounds \in Nat
  BY RoundsAssumption DEF Fights, Stats
<1>3. ASSUME NEW f \in D PROVE Round(f) \in D
  <2> HIDE DEF first, Rival
  <2>1. QED
    BY <1>1, BlowIsAFight
<1> HIDE DEF start, Round, D
<1>4. \E f : Orbit(f, start, MaxRounds, G, D)
  <2>1. G \in [1..MaxRounds -> [D -> D]]
    BY <1>3
  <2> HIDE DEF G
  <2>2. QED
    BY <1>2, <2>1, OrbitExists
<1>5. PICK f \in [0..MaxRounds -> D] :
        \A r \in 0..MaxRounds : f[r] = IF r = 0 THEN start ELSE G[r][f[r - 1]]
  <2> HIDE DEF G
  <2>1. QED
    BY <1>4 DEF Orbit
<1>6. f = [r \in 0..MaxRounds |-> IF r = 0 THEN start ELSE Round(f[r - 1])]
  <2>1. ASSUME NEW r \in 0..MaxRounds, r # 0
        PROVE  G[r][f[r - 1]] = Round(f[r - 1])
    <3>1. r \in 1..MaxRounds /\ r - 1 \in 0..MaxRounds
      BY <1>2, <2>1
    <3>2. f[r - 1] \in D
      BY <3>1, <1>5
    <3>3. QED
      BY <3>1, <3>2
  <2> HIDE DEF G
  <2>2. QED
    BY <2>1, <1>5
<1>7. fight = [r \in 0..MaxRounds |-> IF r = 0 THEN start ELSE Round(fight[r - 1])]
  BY <1>6
<1> HIDE DEF fight
<1>8. \A r \in 0..MaxRounds : fight[r] = IF r = 0 THEN start ELSE Round(fight[r - 1])
  BY <1>7
<1> DEFINE Good == {r \in 0..MaxRounds : fight[r] \in D}
<1>9. 0 \in Good
  BY <1>2, <1>8
<1>10. ASSUME NEW r \in 0..(MaxRounds - 1), r \in Good PROVE r + 1 \in Good
  <2>1. r + 1 \in 0..MaxRounds /\ r + 1 # 0 /\ (r + 1) - 1 = r /\ fight[r] \in D
    BY <1>2, <1>10
  <2>2. fight[r + 1] = Round(fight[r])
    BY <2>1, <1>8
  <2>3. QED
    BY <2>1, <2>2, <1>3
<1>11. MaxRounds \in Good
  <2>1. \A r \in 0..MaxRounds : r \in Good
    <3> HIDE DEF Good
    <3>1. QED
      BY <1>2, <1>9, <1>10, IntervalInduction
  <2>2. QED
    BY <2>1, <1>2
<1>12. fight[MaxRounds].hp \in [{a, b} -> Nat]
  BY <1>11 DEF D, Fights
<1>13. Bout(a, b, stats, seed) = fight[MaxRounds].hp
  BY DEF Bout, fight, start, Round
<1>14. QED
  BY <1>12, <1>13

(***************************************************************************)
(* Transactions that move no money.                                        *)
(***************************************************************************)
LEMMA CreateLeaves ==
    ASSUME NEW w \in WorldStates, NEW tx \in Transactions, tx.type = "createNpc"
    PROVE  CreateNpc(w, tx) \in SameMoney(w)
<1>1. tx.npc \in Ids /\ tx.status \in {"draft", "active"} /\ tx.room \in Rooms
  BY DEF Transactions
<1>2. /\ w.npcs \in [Ids -> {"none", "draft", "active"}] /\ w.room \in [Ids -> Rooms \cup {None}]
      /\ w.registry \in SUBSET Ids
  BY DEF WorldStates
<1>3. /\ [w.npcs EXCEPT ![tx.npc] = tx.status] \in [Ids -> {"none", "draft", "active"}]
      /\ [w.room EXCEPT ![tx.npc] = tx.room] \in [Ids -> Rooms \cup {None}]
      /\ (IF tx.status = "active" THEN w.registry \cup {tx.npc} ELSE w.registry) \in SUBSET Ids
  BY <1>1, <1>2
<1>4. QED
  BY <1>3 DEF CreateNpc, SameMoney, WorldStates

LEMMA MoveLeaves ==
    ASSUME NEW w \in WorldStates, NEW tx \in Transactions, tx.type = "move"
    PROVE  Move(w, tx) \in SameMoney(w)
<1>1. tx.npc \in Ids /\ tx.room \in Rooms
  BY DEF Transactions
<1>2. w.room \in [Ids -> Rooms \cup {None}]
  BY DEF WorldStates
<1>3. [w.room EXCEPT ![tx.npc] = tx.room] \in [Ids -> Rooms \cup {None}]
  BY <1>1, <1>2
<1>4. QED
  BY <1>3 DEF Move, SameMoney, WorldStates

LEMMA ForgeLeaves ==
    ASSUME NEW w \in WorldStates, NEW tx \in Transactions, tx.type = "forgeArtifact"
    PROVE  ForgeArtifact(w, tx) \in SameMoney(w)
<1>1. tx.npc \in Ids /\ tx.artifact \in Artifacts
  BY DEF Transactions
<1>2. w.owner \in [Artifacts -> Ids \cup {None}] /\ w.inventory \in [Ids -> Seq(Artifacts)]
  BY DEF WorldStates
<1>3. Append(w.inventory[tx.npc], tx.artifact) \in Seq(Artifacts)
  BY <1>1, <1>2
<1>4. /\ [w.owner EXCEPT ![tx.artifact] = tx.npc] \in [Artifacts -> Ids \cup {None}]
      /\ [w.inventory EXCEPT ![tx.npc] = Append(@, tx.artifact)] \in [Ids -> Seq(Artifacts)]
  BY <1>1, <1>2, <1>3
<1>5. QED
  BY <1>4 DEF ForgeArtifact, SameMoney, WorldStates

\* What a battle that is fought leaves: the healths hp of its end, and grudges.
BattleEnds(w, tx, v, hp) ==
    LET a == tx.npc
        b == tx.foe
        winner == IF hp[a] >= hp[b] THEN a ELSE b
        Grudge(s) == IF winner = s THEN -2 ELSE -6
    IN  /\ v \in SameMoney(w) /\ hp \in [{a, b} -> Nat] /\ a \in Ids
        /\ \A i \in Ids \cap {a, b} : v.combat[i].hp = hp[i]
        /\ \A i, j \in Ids : i # j =>
             v.rel[i][j] = IF i \in {a, b} /\ j \in {a, b} THEN w.rel[i][j] + Grudge(i) ELSE w.rel[i][j]

LEMMA BattleLeaves ==
    ASSUME NEW w \in WorldStates, NEW tx \in Transactions, tx.type = "battle",
           CanFight(w, tx.npc), CanFight(w, tx.foe)
    PROVE  BattleEnds(w, tx, Battle(w, tx), Bout(tx.npc, tx.foe, Fighters(w, tx), tx.seed))
<1> DEFINE a == tx.npc
           b == tx.foe
           stats == Fighters(w, tx)
           hp == Bout(a, b, stats, tx.seed)
           winner == IF hp[a] >= hp[b] THEN a ELSE b
           loser == IF winner = a THEN b ELSE a
           Grudge(s) == IF winner = s THEN -2 ELSE -6
           combat == [i \in Ids |-> IF i \notin {a, b} THEN w.combat[i]
                                    ELSE [w.combat[i] EXCEPT !.hp = hp[i], !.wounded = @ \/ i = loser]]
           hurt == [w EXCEPT !.combat = combat]
<1>1. a \in Ids /\ a # Monster /\ (b \in Ids \/ (b = Monster /\ tx.stats \in Stats))
  <2>1. \/ tx \in [type : {"battle"}, npc : Ids, foe : Ids, seed : SUBSET Nat]
        \/ tx \in [type : {"battle"}, npc : Ids, foe : {Monster}, seed : SUBSET Nat, stats : Stats]
    BY DEF Transactions
  <2>2. QED
    BY <2>1, DistinctAssumption
<1>2. w.combat \in [Ids -> Stats \cup {None}] /\ w.rel \in [Ids -> [Souls -> Int]]
  BY DEF WorldStates
<1>3. \A i \in Ids \cap {a, b} : w.combat[i] \in Stats
  BY <1>1, <1>2, DistinctAssumption DEF CanFight
<1>4. stats \in [{a, b} -> Stats]
  BY <1>1, <1>3, DistinctAssumption DEF Fighters
<1>5. hp \in [{a, b} -> Nat]
  <2> HIDE DEF stats
  <2>1. QED
    BY <1>4, BoutLeaves
<1> HIDE DEF hp
<1>6. combat \in [Ids -> Stats \cup {None}]
  <2>1. ASSUME NEW i \in Ids \cap {a, b}
        PROVE  [w.combat[i] EXCEPT !.hp = hp[i], !.wounded = @ \/ i = loser] \in Stats
    <3>1. w.combat[i] \in Stats /\ hp[i] \in Nat
      BY <2>1, <1>3, <1>5
    <3>2. (w.combat[i].wounded \/ i = loser) \in BOOLEAN
      OBVIOUS
    <3> HIDE DEF a, b, loser
    <3>3. QED
      BY <3>1, <3>2 DEF Stats
  <2>2. QED
    BY <2>1, <1>2
<1>7. \A i \in Ids \cap {a, b} : combat[i].hp = hp[i]
  BY <1>3 DEF Stats
<1>8. hurt \in SameMoney(w) /\ hurt.combat = combat /\ hurt.rel = w.rel
  <2> HIDE DEF combat
  <2>1. QED
    BY <1>6 DEF SameMoney, WorldStates
<1> HIDE DEF combat, hurt
<1>9. Battle(w, tx) =
        CASE b = Monster -> hurt
          [] a = b -> [hurt EXCEPT !.rel[a][a] = @ + Grudge(a)]
          [] OTHER -> [hurt EXCEPT !.rel[a][b] = @ + Grudge(a), !.rel[b][a] = @ + Grudge(b)]
  <2>1. PICK end : end = ResolveBattle(a, b, stats, tx.seed)
    OBVIOUS
  <2>2. end.hp = hp /\ end.winner = winner /\ end.loser = loser
    BY <2>1 DEF ResolveBattle, Verdict, hp
  <2>3. hurt = [w EXCEPT !.combat = [i \in Ids |->
                  IF i \notin {a, b} THEN w.combat[i]
                  ELSE [w.combat[i] EXCEPT !.hp = end.hp[i], !.wounded = @ \/ i = end.loser]]]
    BY <2>2 DEF hurt, combat
  <2>4. \A s : Grudge(s) = IF end.winner = s THEN -2 ELSE -6
    BY <2>2
  <2> HIDE DEF stats, winner, loser, Grudge
  <2>5. QED
    BY <2>1, <2>3, <2>4 DEF Battle, stats
<1> HIDE DEF stats, winner, loser
<1>10. CASE b = Monster
  <2>1. Battle(w, tx) = hurt
    BY <1>1, <1>9, <1>10
  <2>2. b \notin Ids
    BY <1>10, DistinctAssumption
  <2>3. QED
    BY <2>1, <2>2, <1>1, <1>5, <1>7, <1>8 DEF hp, stats, winner, BattleEnds
<1>11. CASE a = b
  <2> DEFINE grudge == [w.rel EXCEPT ![a][a] = @ + Grudge(a)]
  <2>1. Battle(w, tx) = [hurt EXCEPT !.rel = grudge]
    BY <1>1, <1>8, <1>9, <1>11
  <2>2. grudge \in [Ids -> [Souls -> Int]] /\ \A i, j \in Ids : i # j => grudge[i][j] = w.rel[i][j]
    <3>0. a \in Souls
      BY <1>1 DEF Souls
    <3>1. w.rel[a] \in [Souls -> Int] /\ Grudge(a) \in Int
      BY <1>1, <1>2, <3>0
    <3> HIDE DEF a, Grudge
    <3>2. QED
      BY <3>0, <3>1, <1>1, <1>2
  <2> HIDE DEF grudge
  <2>3. Battle(w, tx) \in SameMoney(w)
    BY <2>1, <2>2, <1>8 DEF SameMoney, WorldStates
  <2>4. Battle(w, tx).combat = combat /\ Battle(w, tx).rel = grudge
    BY <2>1, <1>8 DEF SameMoney, WorldStates
  <2>5. QED
    BY <2>2, <2>3, <2>4, <1>1, <1>5, <1>7, <1>11 DEF hp, stats, winner, BattleEnds
<1>12. CASE a # b /\ b # Monster
  <2>0. b \in Ids
    BY <1>1, <1>12
  <2> DEFINE grudge == [w.rel EXCEPT ![a][b] = @ + Grudge(a), ![b][a] = @ + Grudge(b)]
  <2>1. Battle(w, tx) = [hurt EXCEPT !.rel = grudge]
    BY <1>8, <1>9, <1>12
  <2>2. grudge \in [Ids -> [Souls -> Int]]
    <3>0. a \in Souls /\ b \in Souls
      BY <2>0, <1>1 DEF Souls
    <3>1. /\ w.rel[a] \in [Souls -> Int] /\ w.rel[b] \in [Souls -> Int]
          /\ a \in Souls /\ b \in Souls /\ Grudge(a) \in Int /\ Grudge(b) \in Int
      BY <2>0, <1>1, <1>2, <3>0
    <3> HIDE DEF a, b, Grudge
    <3>2. QED
      BY <3>1, <2>0, <1>1, <1>2
  <2>3. \A i, j \in Ids : i # j =>
            grudge[i][j] = IF i \in {a, b} /\ j \in {a, b} THEN w.rel[i][j] + Grudge(i) ELSE w.rel[i][j]
    BY <2>0, <1>1, <1>2, <1>12 DEF Souls
  <2> HIDE DEF grudge
  <2>4. Battle(w, tx) \in SameMoney(w)
    BY <2>1, <2>2, <1>8 DEF SameMoney, WorldStates
  <2>5. Battle(w, tx).combat = combat /\ Battle(w, tx).rel = grudge
    BY <2>1, <1>8 DEF SameMoney, WorldStates
  <2>6. QED
    BY <2>3, <2>4, <2>5, <1>1, <1>5, <1>7 DEF hp, stats, winner, BattleEnds
<1>13. QED
  BY <1>10, <1>11, <1>12

(***************************************************************************)
(* Transactions that issue or burn money: the books stay as they are.      *)
(***************************************************************************)
\* Worlds with the same books as w.
SameBooks(w) == {v \in WorldStates : v.bets = w.bets}

LEMMA SameMoneyIsSameBooks ==
    ASSUME NEW w, NEW v \in SameMoney(w)
    PROVE  v \in SameBooks(w)
BY DEF SameMoney, SameBooks

LEMMA NotNegativeIsNatural ==
    ASSUME NEW n \in Int
    PROVE  NotNegative(n) \in Nat /\ NotNegative(n) >= n
BY DEF NotNegative

LEMMA ActivateLeaves ==
    ASSUME NEW w \in WorldStates, NEW tx \in Transactions, tx.type = "activate"
    PROVE  Activate(w, tx) \in SameBooks(w)
<1>1. tx.npc \in Ids /\ tx.amount \in Nat
  BY DEF Transactions
<1>2. /\ w.npcs \in [Ids -> {"none", "draft", "active"}] /\ w.gcc \in [Ids -> Nat]
      /\ w.registry \in SUBSET Ids
  BY DEF WorldStates
<1>3. /\ [w.npcs EXCEPT ![tx.npc] = "active"] \in [Ids -> {"none", "draft", "active"}]
      /\ [w.gcc EXCEPT ![tx.npc] = tx.amount] \in [Ids -> Nat]
      /\ w.registry \cup {tx.npc} \in SUBSET Ids
  BY <1>1, <1>2
<1>4. QED
  BY <1>3 DEF Activate, SameBooks, WorldStates

\* A donation never lowers anybody's GCC.
LEMMA DonateLeaves ==
    ASSUME NEW w \in WorldStates, NEW tx \in Transactions, tx.type = "donate"
    PROVE  /\ Donate(w, tx) \in SameBooks(w)
           /\ \A i \in Ids : Donate(w, tx).gcc[i] >= w.gcc[i]
<1>1. tx.npc \in Ids /\ NotNegative(tx.amount) \in Nat
  BY NotNegativeIsNatural DEF Transactions
<1>2. w.gcc \in [Ids -> Nat]
  BY DEF WorldStates
<1> DEFINE g == [w.gcc EXCEPT ![tx.npc] = @ + NotNegative(tx.amount)]
<1>3. g \in [Ids -> Nat] /\ \A i \in Ids : g[i] >= w.gcc[i]
  BY <1>1, <1>2
<1>4. Donate(w, tx) = IF Known(w, tx.npc) THEN [w EXCEPT !.gcc = g] ELSE w
  BY DEF Donate
<1> HIDE DEF g
<1>5. [w EXCEPT !.gcc = g] \in SameBooks(w) /\ [w EXCEPT !.gcc = g].gcc = g
  BY <1>3 DEF SameBooks, WorldStates
<1>6. \A i \in Ids : w.gcc[i] >= w.gcc[i]
  BY <1>2
<1>7. QED
  BY <1>3, <1>4, <1>5, <1>6 DEF SameBooks

\* The burn of a talk takes no more than its cost.
LEMMA TalkLeavesPurse ==
    ASSUME NEW w \in WorldStates, NEW tx \in Transactions, tx.type = "applyTalk"
    PROVE  /\ ApplyTalk(w, tx) \in SameBooks(w)
           /\ ApplyTalk(w, tx).gcc[tx.npc] >= w.gcc[tx.npc] - tx.cost
<1>1. /\ tx.npc \in Ids /\ tx.player \in Players /\ tx.effects \in Seq(Effects) /\ tx.cost \in Nat
  BY DEF Transactions
<1>2. PICK v \in SameMoney(w) : ApplyTalk(w, tx) = [v EXCEPT !.gcc[tx.npc] = NotNegative(@ - tx.cost)]
  BY <1>1, TalkLeaves
<1>3. v \in WorldStates /\ v.gcc = w.gcc /\ v.bets = w.bets /\ w.gcc \in [Ids -> Nat]
  BY DEF SameMoney, WorldStates
<1> DEFINE g == [w.gcc EXCEPT ![tx.npc] = NotNegative(@ - tx.cost)]
<1>4. g \in [Ids -> Nat] /\ g[tx.npc] >= w.gcc[tx.npc] - tx.cost
  <2>1. w.gcc[tx.npc] - tx.cost \in Int
    BY <1>1, <1>3
  <2>2. /\ NotNegative(w.gcc[tx.npc] - tx.cost) \in Nat
        /\ NotNegative(w.gcc[tx.npc] - tx.cost) >= w.gcc[tx.npc] - tx.cost
    BY <2>1, NotNegativeIsNatural
  <2>3. QED
    BY <2>2, <1>1, <1>3
<1>5. ApplyTalk(w, tx) = [v EXCEPT !.gcc = g]
  BY <1>2, <1>3
<1> HIDE DEF g
<1>6. QED
  BY <1>3, <1>4, <1>5 DEF SameBooks, WorldStates

LEMMA LuckLeaves ==
    ASSUME NEW w \in WorldStates, NEW tx \in Transactions, tx.type = "luckEvent"
    PROVE  LuckEvent(w, tx) \in SameBooks(w)
<1>1. /\ tx.npc \in Ids /\ tx.player \in Players /\ tx.factor \in Int /\ tx.delta \in Int
      /\ tx.affinity \in Int
  BY DEF Transactions
<1>2. w.gcc \in [Ids -> Nat] /\ w.rel \in [Ids -> [Souls -> Int]] /\ tx.player \in Souls
  BY <1>1 DEF WorldStates, Souls
<1> DEFINE g == [w.gcc EXCEPT ![tx.npc] = NotNegative(@ * tx.factor + tx.delta)]
           r == [w.rel EXCEPT ![tx.npc][tx.player] = @ + tx.affinity]
<1>3. g \in [Ids -> Nat]
  <2>1. w.gcc[tx.npc] * tx.factor + tx.delta \in Int
    BY <1>1, <1>2
  <2>2. NotNegative(w.gcc[tx.npc] * tx.factor + tx.delta) \in Nat
    BY <2>1, NotNegativeIsNatural
  <2>3. QED
    BY <2>2, <1>1, <1>2
<1>4. r \in [Ids -> [Souls -> Int]]
  BY <1>1, <1>2
<1>5. LuckEvent(w, tx) = IF Known(w, tx.npc) THEN [w EXCEPT !.gcc = g, !.rel = r] ELSE w
  BY DEF LuckEvent
<1> HIDE DEF g, r
<1>6. QED
  BY <1>3, <1>4, <1>5 DEF SameBooks, WorldStates

LEMMA InitLeaves ==
    ASSUME NEW w \in WorldStates, NEW tx \in Transactions, tx.type = "initMarket"
    PROVE  InitMarket(w, tx) \in SameBooks(w) /\ InitMarket(w, tx).gcc = w.gcc
<1>1. [rice |-> tx.rice, silver |-> tx.silver] \in Reserves
  BY DEF Transactions, Reserves
<1>2. QED
  BY <1>1 DEF InitMarket, SameBooks, WorldStates

LEMMA DividendLeaves ==
    ASSUME NEW w \in WorldStates, NEW tx \in Transactions, tx.type = "dividend"
    PROVE  Dividend(w, tx) \in SameBooks(w) /\ Dividend(w, tx).gcc = w.gcc
<1>1. tx.amount \in Nat
  BY DEF Transactions
<1>2. w.gcc \in [Ids -> Nat] /\ w.usdc \in [Ids -> Nat]
  BY DEF WorldStates
<1> DEFINE u == [i \in Ids |-> w.usdc[i] + NotNegative(w.gcc[i]) * tx.amount]
<1>3. u \in [Ids -> Nat]
  <2>1. ASSUME NEW i \in Ids PROVE w.usdc[i] + NotNegative(w.gcc[i]) * tx.amount \in Nat
    BY <1>1, <1>2, NotNegativeIsNatural
  <2>2. QED
    BY <2>1
<1>4. Dividend(w, tx) = [w EXCEPT !.usdc = u]
  BY DEF Dividend
<1> HIDE DEF u
<1>5. QED
  BY <1>3, <1>4 DEF SameBooks, WorldStates

(***************************************************************************)
(* The pool.                                                               *)
(***************************************************************************)
Credited(f, g, i, d) == g = [f EXCEPT ![i] = @ + d]

\* A purse that is paid d, or pays it: what all purses hold together.
LEMMA PursePaid ==
    ASSUME NEW f \in [Ids -> Nat], NEW i \in Ids, NEW d \in Int, f[i] + d >= 0,
           NEW g, Credited(f, g, i, d)
    PROVE  /\ g \in [Ids -> Nat] /\ g[i] = f[i] + d /\ (\A j \in Ids \ {i} : f[j] = g[j])
           /\ SumOf(f, Ids) \in Nat /\ SumOf(g, Ids) = SumOf(f, Ids) + d
<1>1. g \in [Ids -> Nat] /\ g[i] = f[i] + d /\ \A j \in Ids \ {i} : g[j] = f[j]
  BY DEF Credited
<1>2. \A j \in Ids : f[j] \in Nat /\ g[j] \in Nat
  BY <1>1
<1>3. SumOf(f, Ids) \in Nat /\ SumOf(g, Ids) \in Nat
  BY <1>2, SumType, FinitelyMany
<1>4. SumOf(g, Ids) + f[i] = SumOf(f, Ids) + g[i]
  <2>1. \A j \in Ids \ {i} : f[j] = g[j]
    BY <1>1
  <2>2. IsFiniteSet(Ids)
    BY FinitelyMany
  <2>3. SumOf(g, Ids) + f[i] = SumOf(f, Ids) + g[i]
    BY ONLY <1>2, <2>1, <2>2, SumUpdate, i \in Ids
  <2>4. QED
    BY <2>3
<1>5. QED
  BY <1>1, <1>2, <1>3, <1>4

\* The product of the reserves, divided by one that grew, is at most the other.
LEMMA SwapLowers ==
    ASSUME NEW x \in Nat, NEW y \in Nat, NEW d \in Nat \ {0}
    PROVE  /\ y + d \in Nat
           /\ (x * y) \div (y + d) \in Nat
           /\ (x * y) \div (y + d) <= x
<1>1. PICK p \in Nat, s \in Nat \ {0} : p = x * y /\ s = y + d
  <2>1. x * y \in Nat /\ y + d \in Nat \ {0}
    OBVIOUS
  <2>2. QED
    BY <2>1
<1>2. p \in Nat /\ x * s = p + x * d /\ x * d \in Nat /\ x * s \in Nat
  BY <1>1
<1>3. PICK q : q = p \div s
  OBVIOUS
<1>4. q \in Nat /\ q * s <= p
  BY <1>2, <1>3
<1>5. q <= x
  <2>1. SUFFICES ASSUME q > x PROVE FALSE
    BY <1>4
  <2>2. PICK e \in Nat \ {0} : q = x + e
    <3>1. q - x \in Nat \ {0} /\ q = x + (q - x)
      BY <1>4, <2>1
    <3>2. QED
      BY <3>1
  <2>3. q * s = x * s + e * s /\ e * s > 0
    BY <2>2
  <2>4. QED
    BY <1>2, <1>4, <2>3
<1>6. QED
  BY <1>1, <1>3, <1>4, <1>5

LEMMA TradeLeaves ==
    ASSUME NEW w \in WorldStates, NEW tx \in Transactions, tx.type = "trade"
    PROVE  /\ Trade(w, tx) \in SameBooks(w)
           /\ Gcc(Trade(w, tx)) = Gcc(w) /\ Usdc(Trade(w, tx)) = Usdc(w)
           /\ tx.side = "buy" => \A i \in Ids : Trade(w, tx).gcc[i] >= w.gcc[i]
<1>1. tx.npc \in Ids /\ tx.side \in {"buy", "sell"} /\ tx.amount \in Int
  BY DEF Transactions
<1>2. w.gcc \in [Ids -> Nat] /\ w.usdc \in [Ids -> Nat] /\ w.market \in Reserves \cup {None}
  BY DEF WorldStates
<1>3. CASE \/ w.market = None
           \/ tx.amount <= 0
           \/ (IF tx.side = "buy" THEN w.usdc ELSE w.gcc)[tx.npc] < tx.amount
  <2>1. Trade(w, tx) = w
    BY <1>3 DEF Trade
  <2>2. \A i \in Ids : w.gcc[i] >= w.gcc[i]
    BY <1>2
  <2>3. QED
    BY <2>1, <2>2 DEF SameBooks
<1>4. CASE /\ w.market # None /\ tx.amount > 0
           /\ (IF tx.side = "buy" THEN w.usdc ELSE w.gcc)[tx.npc] >= tx.amount
  <2> DEFINE after == AmmSwap(w.market, tx.side, tx.amount)
             g == [w.gcc EXCEPT ![tx.npc] = @ + w.market.rice - after.rice]
             u == [w.usdc EXCEPT ![tx.npc] = @ + w.market.silver - after.silver]
  <2>1. w.market \in Reserves /\ w.market.rice \in Nat /\ w.market.silver \in Nat /\ tx.amount \in Nat \ {0}
    BY <1>1, <1>2, <1>4 DEF Reserves
  <2>2. /\ after \in Reserves /\ after.rice \in Nat /\ after.silver \in Nat
        /\ w.gcc[tx.npc] + (w.market.rice - after.rice) >= 0
        /\ w.usdc[tx.npc] + (w.market.silver - after.silver) >= 0
        /\ tx.side = "buy" => after.rice <= w.market.rice
    <3>1. CASE tx.side = "buy"
      <4>1. /\ after.silver = w.market.silver + tx.amount
            /\ after.rice = (w.market.rice * w.market.silver) \div (w.market.silver + tx.amount)
            /\ after = [silver |-> after.silver, rice |-> after.rice]
        BY <3>1 DEF AmmSwap
      <4>2. after.silver \in Nat /\ after.rice \in Nat /\ after.rice <= w.market.rice
        BY <2>1, <4>1, SwapLowers
      <4>3. w.usdc[tx.npc] >= tx.amount /\ w.usdc[tx.npc] \in Nat /\ w.gcc[tx.npc] \in Nat
        BY <1>1, <1>2, <1>4, <3>1
      <4> HIDE DEF after
      <4>4. QED
        BY <2>1, <4>1, <4>2, <4>3 DEF Reserves
    <3>2. CASE tx.side = "sell"
      <4>1. /\ after.rice = w.market.rice + tx.amount
            /\ after.silver = (w.market.silver * w.market.rice) \div (w.market.rice + tx.amount)
            /\ after = [silver |-> after.silver, rice |-> after.rice]
        BY <2>1, <3>2 DEF AmmSwap
      <4>2. after.silver \in Nat /\ after.rice \in Nat /\ after.silver <= w.market.silver
        BY <2>1, <4>1, SwapLowers
      <4>3. w.gcc[tx.npc] >= tx.amount /\ w.usdc[tx.npc] \in Nat /\ w.gcc[tx.npc] \in Nat
        BY <1>1, <1>2, <1>4, <3>2
      <4> HIDE DEF after
      <4>4. QED
        BY <2>1, <4>1, <4>2, <4>3, <3>2 DEF Reserves
    <3>3. QED
      BY <1>1, <3>1, <3>2
  <2>3. Trade(w, tx) = [w EXCEPT !.market = after, !.gcc = g, !.usdc = u]
    BY <1>4, <1>1, <1>2, <2>1 DEF Trade
  <2> HIDE DEF after
  <2>4. Credited(w.gcc, g, tx.npc, w.market.rice - after.rice)
    BY <1>1, <1>2, <2>1, <2>2 DEF Credited
  <2>5. Credited(w.usdc, u, tx.npc, w.market.silver - after.silver)
    BY <1>1, <1>2, <2>1, <2>2 DEF Credited
  <2> HIDE DEF g, u
  <2>6. /\ g \in [Ids -> Nat] /\ g[tx.npc] = w.gcc[tx.npc] + (w.market.rice - after.rice)
        /\ \A j \in Ids \ {tx.npc} : g[j] = w.gcc[j]
        /\ SumOf(w.gcc, Ids) \in Nat
        /\ SumOf(g, Ids) = SumOf(w.gcc, Ids) + (w.market.rice - after.rice)
    <3>1. w.market.rice - after.rice \in Int
      BY <2>1, <2>2
    <3>2. QED
      BY <3>1, <1>1, <1>2, <2>2, <2>4, PursePaid
  <2>7. /\ u \in [Ids -> Nat] /\ SumOf(w.usdc, Ids) \in Nat
        /\ SumOf(u, Ids) = SumOf(w.usdc, Ids) + (w.market.silver - after.silver)
    <3>1. w.market.silver - after.silver \in Int
      BY <2>1, <2>2
    <3>2. QED
      BY <3>1, <1>1, <1>2, <2>2, <2>5, PursePaid
  <2>8. /\ Trade(w, tx) \in SameBooks(w)
        /\ Trade(w, tx).gcc = g /\ Trade(w, tx).usdc = u /\ Trade(w, tx).market = after
        /\ Trade(w, tx).bets = w.bets
    BY <2>2, <2>3, <2>6, <2>7 DEF SameBooks, WorldStates
  <2>9. tx.side = "buy" => \A i \in Ids : g[i] >= w.gcc[i]
    BY <1>1, <1>2, <2>1, <2>2, <2>6
  <2>10. after # None /\ w.market # None
    BY <2>2, <1>4, DistinctAssumption
  <2>11. Gcc(Trade(w, tx)) = Gcc(w)
    BY <2>1, <2>2, <2>6, <2>8, <2>10 DEF Gcc
  <2>12. Usdc(Trade(w, tx)) = Usdc(w)
    <3>1. Staked(Trade(w, tx)) = Staked(w)
      BY <2>8 DEF Staked
    <3>2. PICK s : s = SumOf(Staked(w), Markets)
      OBVIOUS
    <3>3. SumOf(u, Ids) + after.silver = SumOf(w.usdc, Ids) + w.market.silver
      BY <2>1, <2>2, <2>7
    <3>4. QED
      BY <2>8, <2>10, <3>1, <3>3 DEF Usdc
  <2>13. QED
    BY <2>8, <2>9, <2>11, <2>12
<1>5. QED
  <2>1. (IF tx.side = "buy" THEN w.usdc ELSE w.gcc)[tx.npc] \in Int
    BY <1>1, <1>2
  <2>2. QED
    BY <1>1, <1>3, <1>4, <2>1

(***************************************************************************)
(* The prediction markets.                                                 *)
(***************************************************************************)
BooksBalanced(w) == \A m \in Markets : Balanced(w.bets[m])
PoolOf(book) == book.pools["YES"] + book.pools["NO"]

LEMMA BookFacts ==
    ASSUME NEW b \in Books
    PROVE  /\ b.status \in {"none", "open", "resolved"} /\ b.threshold \in Int
           /\ b.stakes \in [Ids -> [Sides -> Nat]] /\ b.pools \in [Sides -> Nat]
           /\ b.pools["YES"] \in Nat /\ b.pools["NO"] \in Nat /\ PoolOf(b) \in Nat
<1>1. b.pools \in [Sides -> Nat]
  BY DEF Books
<1>2. QED
  BY <1>1 DEF Books, Sides, PoolOf

\* The world w with the purses u and the book b of market m.
Rebooked(w, u, m, b) == [w EXCEPT !.usdc = u, !.bets = [w.bets EXCEPT ![m] = b]]

\* What two worlds hold in money is the same.
Conserved(w, v) == Gcc(v) = Gcc(w) /\ Usdc(v) = Usdc(w)

\* A book and the purses change: what all hold changes by as much.
LEMMA BookChanges ==
    ASSUME NEW w \in WorldStates, BooksBalanced(w), NEW m \in Markets, NEW b \in Books, Balanced(b),
           NEW u \in [Ids -> Nat],
           SumOf(u, Ids) + PoolOf(b) = SumOf(w.usdc, Ids) + PoolOf(w.bets[m])
    PROVE  /\ Rebooked(w, u, m, b) \in WorldStates /\ BooksBalanced(Rebooked(w, u, m, b))
           /\ Rebooked(w, u, m, b).gcc = w.gcc /\ Conserved(w, Rebooked(w, u, m, b))
<1>0. PICK v : v = Rebooked(w, u, m, b)
  OBVIOUS
<1>1. w.bets \in [Markets -> Books] /\ w.usdc \in [Ids -> Nat]
  BY DEF WorldStates
<1> DEFINE bets == [w.bets EXCEPT ![m] = b]
<1>2. bets \in [Markets -> Books] /\ bets[m] = b /\ \A k \in Markets \ {m} : bets[k] = w.bets[k]
  BY <1>1
<1> HIDE DEF bets
<1>3. v = [w EXCEPT !.usdc = u, !.bets = bets]
  BY <1>0 DEF bets, Rebooked
<1>4. /\ v \in WorldStates /\ v.gcc = w.gcc /\ v.usdc = u /\ v.bets = bets /\ v.market = w.market
  BY <1>2, <1>3 DEF WorldStates
<1>5. BooksBalanced(v)
  BY <1>2, <1>4 DEF BooksBalanced
<1>6. SumOf(Staked(v), Markets) + PoolOf(w.bets[m]) = SumOf(Staked(w), Markets) + PoolOf(b)
  <2>1. PICK f, g : f = Staked(w) /\ g = Staked(v)
    OBVIOUS
  <2>2. \A k \in Markets : f[k] = PoolOf(w.bets[k]) /\ g[k] = PoolOf(bets[k])
    BY <1>4, <2>1 DEF Staked, PoolOf
  <2>3. \A k \in Markets : f[k] \in Nat /\ g[k] \in Nat
    BY <1>1, <1>2, <2>2, BookFacts
  <2>4. \A k \in Markets \ {m} : f[k] = g[k]
    BY <1>2, <2>2
  <2>5. SumOf(g, Markets) + f[m] = SumOf(f, Markets) + g[m]
    BY ONLY <2>3, <2>4, SumUpdate, FinitelyMany, m \in Markets
  <2>6. QED
    BY <1>2, <2>1, <2>2, <2>5
<1>7. SumOf(Staked(v), Markets) \in Nat /\ SumOf(Staked(w), Markets) \in Nat
  <2>1. ASSUME NEW x, x.bets \in [Markets -> Books] PROVE SumOf(Staked(x), Markets) \in Nat
    <3>1. \A k \in Markets : PoolOf(x.bets[k]) \in Nat
      BY <2>1, BookFacts
    <3>2. \A k \in Markets : Staked(x)[k] \in Nat
      BY <3>1 DEF Staked, PoolOf
    <3>3. QED
      BY <3>2, SumType, FinitelyMany
  <2>2. QED
    BY <1>1, <1>2, <1>4, <2>1
<1>8. SumOf(u, Ids) \in Nat /\ SumOf(w.usdc, Ids) \in Nat /\ PoolOf(b) \in Nat /\ PoolOf(w.bets[m]) \in Nat
  BY <1>1, SumType, FinitelyMany, BookFacts
<1>9. Gcc(v) = Gcc(w)
  BY <1>4 DEF Gcc
<1>10. Usdc(v) = Usdc(w)
  <2>1. (IF w.market = None THEN 0 ELSE w.market.silver) \in Nat
    BY DEF WorldStates, Reserves
  <2>2. SumOf(u, Ids) + SumOf(Staked(v), Markets) = SumOf(w.usdc, Ids) + SumOf(Staked(w), Markets)
    <3>1. PICK p, q, r, s, x, y \in Nat :
            /\ p = SumOf(u, Ids) /\ q = SumOf(w.usdc, Ids) /\ r = SumOf(Staked(v), Markets)
            /\ s = SumOf(Staked(w), Markets) /\ x = PoolOf(b) /\ y = PoolOf(w.bets[m])
      BY <1>7, <1>8
    <3>2. p + x = q + y /\ r + y = s + x
      BY <1>6, <3>1
    <3>3. p + r = q + s
      BY <3>2
    <3>4. QED
      BY <3>1, <3>3
  <2>3. QED
    BY <1>4, <1>7, <1>8, <2>1, <2>2 DEF Usdc
<1>11. QED
  BY <1>0, <1>4, <1>5, <1>9, <1>10 DEF Conserved

LEMMA OpenLeaves ==
    ASSUME NEW w \in WorldStates, BooksBalanced(w), NEW tx \in Transactions, tx.type = "openMarket"
    PROVE  /\ OpenMarket(w, tx) \in WorldStates /\ BooksBalanced(OpenMarket(w, tx))
           /\ OpenMarket(w, tx).gcc = w.gcc /\ Conserved(w, OpenMarket(w, tx))
<1>1. tx.market \in Markets /\ tx.amount \in Int
  BY DEF Transactions
<1>2. CASE w.bets[tx.market].status # "none"
  BY <1>2 DEF OpenMarket, Conserved
<1>3. CASE w.bets[tx.market].status = "none"
  <2> DEFINE b == [NoBets EXCEPT !.status = "open", !.threshold = tx.amount]
  <2>1. NoStakes \in [Ids -> [Sides -> Nat]] /\ NoPools \in [Sides -> Nat]
    BY DEF NoStakes, NoPools
  <2>2. NoBets \in Books /\ NoBets.stakes = NoStakes /\ NoBets.pools = NoPools
    BY <2>1 DEF NoBets, Books
  <2>3. b \in Books /\ b.status = "open" /\ b.stakes = NoStakes /\ b.pools = NoPools
    BY <1>1, <2>2 DEF Books
  <2> HIDE DEF b
  <2>4. Balanced(b)
    <3>1. ASSUME NEW s \in Sides
          PROVE  b.pools[s] = SumOf([i \in Ids |-> b.stakes[i][s]], Ids)
      <4>1. PICK f : f = [i \in Ids |-> b.stakes[i][s]]
        OBVIOUS
      <4>2. \A i \in Ids : f[i] = 0
        BY <2>3, <3>1, <4>1 DEF NoStakes
      <4>3. SumOf(f, Ids) = 0
        <5>1. SumOf(f, {}) = SumOf(f, Ids)
          BY <4>2, SumSupport
        <5>2. QED
          BY <5>1, SumEmpty
      <4>4. QED
        BY <2>3, <4>1, <4>3 DEF NoPools
    <3>2. QED
      BY <2>3, <3>1 DEF Balanced
  <2>5. PoolOf(b) = 0 /\ PoolOf(w.bets[tx.market]) = 0
    <3>1. \A s \in Sides : w.bets[tx.market].pools[s] = 0
      BY <1>1, <1>3 DEF BooksBalanced, Balanced
    <3>2. QED
      BY <2>3, <3>1 DEF PoolOf, NoPools, Sides
  <2>6. w.bets \in [Markets -> Books] /\ w.usdc \in [Ids -> Nat]
    BY DEF WorldStates
  <2>7. OpenMarket(w, tx) = Rebooked(w, w.usdc, tx.market, b)
    <3>1. OpenMarket(w, tx) = [w EXCEPT !.bets = [w.bets EXCEPT ![tx.market] = b]]
      BY <1>3 DEF OpenMarket, b
    <3>2. [w EXCEPT !.usdc = w.usdc] = w
      BY DEF WorldStates
    <3>3. QED
      BY <3>1, <3>2 DEF Rebooked
  <2>8. QED
    BY <1>1, <2>3, <2>4, <2>5, <2>6, <2>7, BookChanges
<1>4. QED
  BY <1>2, <1>3

LEMMA BetLeaves ==
    ASSUME NEW w \in WorldStates, BooksBalanced(w), NEW tx \in Transactions, tx.type = "bet"
    PROVE  /\ Bet(w, tx) \in WorldStates /\ BooksBalanced(Bet(w, tx))
           /\ Bet(w, tx).gcc = w.gcc /\ Conserved(w, Bet(w, tx))
<1>1. tx.npc \in Ids /\ tx.market \in Markets /\ tx.side \in Sides /\ tx.amount \in Int
  BY DEF Transactions
<1>2. w.bets \in [Markets -> Books] /\ w.usdc \in [Ids -> Nat]
  BY DEF WorldStates
<1> DEFINE m == w.bets[tx.market]
<1>3. CASE m.status # "open" \/ tx.amount <= 0 \/ w.usdc[tx.npc] < tx.amount
  BY <1>3 DEF Bet, Conserved
<1>4. CASE m.status = "open" /\ tx.amount > 0 /\ w.usdc[tx.npc] >= tx.amount
  <2>1. /\ m \in Books /\ m.stakes \in [Ids -> [Sides -> Nat]] /\ m.pools \in [Sides -> Nat]
        /\ tx.amount \in Nat /\ PoolOf(m) \in Nat
    BY <1>1, <1>2, <1>4, BookFacts
  <2> DEFINE mine == [m.stakes[tx.npc] EXCEPT ![tx.side] = @ + tx.amount]
             stakes == [m.stakes EXCEPT ![tx.npc] = mine]
             pools == [m.pools EXCEPT ![tx.side] = @ + tx.amount]
             b == [m EXCEPT !.stakes = stakes, !.pools = pools]
             u == [w.usdc EXCEPT ![tx.npc] = @ - tx.amount]
  <2>2. /\ stakes \in [Ids -> [Sides -> Nat]]
        /\ \A i \in Ids, s \in Sides :
             stakes[i][s] = IF i = tx.npc /\ s = tx.side THEN m.stakes[i][s] + tx.amount ELSE m.stakes[i][s]
    <3>1. m.stakes[tx.npc] \in [Sides -> Nat]
      BY <1>1, <2>1
    <3>2. /\ mine \in [Sides -> Nat]
          /\ \A s \in Sides : mine[s] = IF s = tx.side THEN m.stakes[tx.npc][s] + tx.amount
                                        ELSE m.stakes[tx.npc][s]
      BY <1>1, <2>1, <3>1
    <3>3. stakes = [m.stakes EXCEPT ![tx.npc] = mine]
      OBVIOUS
    <3> HIDE DEF mine, m
    <3>4. QED
      BY <1>1, <2>1, <3>2, <3>3
  <2>3. /\ pools \in [Sides -> Nat]
        /\ \A s \in Sides : pools[s] = IF s = tx.side THEN m.pools[s] + tx.amount ELSE m.pools[s]
    BY <1>1, <2>1
  <2>4. u \in [Ids -> Nat] /\ SumOf(w.usdc, Ids) \in Nat /\ SumOf(u, Ids) = SumOf(w.usdc, Ids) - tx.amount
    <3>1. w.usdc[tx.npc] + (-tx.amount) >= 0 /\ -tx.amount \in Int
      BY <1>1, <1>2, <1>4
    <3>2. Credited(w.usdc, u, tx.npc, -tx.amount)
      <4>1. w.usdc[tx.npc] - tx.amount = w.usdc[tx.npc] + (-tx.amount)
        BY <1>1, <1>2
      <4>2. QED
        BY <4>1 DEF Credited
    <3> HIDE DEF u
    <3>3. /\ u \in [Ids -> Nat] /\ SumOf(w.usdc, Ids) \in Nat
          /\ SumOf(u, Ids) = SumOf(w.usdc, Ids) + (-tx.amount)
      BY <1>1, <1>2, <3>1, <3>2, PursePaid
    <3>4. QED
      BY <2>1, <3>3
  <2>5. Bet(w, tx) = Rebooked(w, u, tx.market, b)
    <3>1. ~(m.status # "open" \/ tx.amount <= 0 \/ w.usdc[tx.npc] < tx.amount)
      BY <1>1, <1>2, <1>4
    <3>2. QED
      BY <3>1 DEF Bet, Rebooked
  <2> HIDE DEF mine, stakes, pools, u
  <2>6. b \in Books /\ b.stakes = stakes /\ b.pools = pools /\ b.status = "open"
    BY <1>4, <2>1, <2>2, <2>3 DEF Books
  <2> HIDE DEF b, m
  <2>7. Balanced(b)
    <3>1. ASSUME NEW s \in Sides
          PROVE  b.pools[s] = SumOf([i \in Ids |-> b.stakes[i][s]], Ids)
      <4>1. PICK f, g : f = [i \in Ids |-> m.stakes[i][s]] /\ g = [i \in Ids |-> b.stakes[i][s]]
        OBVIOUS
      <4>2. m.pools[s] = SumOf(f, Ids)
        BY <1>1, <1>4, <3>1, <4>1 DEF BooksBalanced, Balanced, m
      <4>3. f \in [Ids -> Nat]
        BY <2>1, <3>1, <4>1
      <4>4. CASE s = tx.side
        <5>1. Credited(f, g, tx.npc, tx.amount)
          BY <4>4, <1>1, <2>1, <2>2, <2>6, <3>1, <4>1 DEF Credited
        <5>2. f[tx.npc] + tx.amount >= 0 /\ tx.npc \in Ids /\ tx.amount \in Int
          BY <1>1, <2>1, <4>3
        <5>3. SumOf(g, Ids) = SumOf(f, Ids) + tx.amount
          BY <4>3, <5>1, <5>2, PursePaid
        <5>4. QED
          BY <2>3, <2>6, <3>1, <4>1, <4>2, <4>4, <5>3
      <4>5. CASE s # tx.side
        <5>1. g = f
          BY <4>5, <1>1, <2>1, <2>2, <2>6, <3>1, <4>1
        <5>2. QED
          BY <2>3, <2>6, <3>1, <4>1, <4>2, <4>5, <5>1
      <4>6. QED
        BY <4>4, <4>5
    <3>2. QED
      BY <2>6, <3>1 DEF Balanced
  <2>8. PoolOf(b) = PoolOf(m) + tx.amount
    BY <1>1, <2>1, <2>3, <2>6 DEF PoolOf, Sides
  <2>9. SumOf(u, Ids) + PoolOf(b) = SumOf(w.usdc, Ids) + PoolOf(m)
    BY <2>1, <2>4, <2>8
  <2>10. QED
    BY <1>1, <2>4, <2>5, <2>6, <2>7, <2>9, BookChanges DEF m
<1>5. QED
  BY <1>1, <1>2, <1>3, <1>4

\* The payouts of an open book are its pools, to the last coin: the winners'
\* shares of a whole division, or the stakes themselves.
LEMMA PayoutsAddUp ==
    ASSUME NEW m \in Books, Balanced(m), m.status = "open", Whole(m), NEW side \in Sides
    PROVE  /\ \A i \in Ids : Payout(m, side, m.stakes[i]) \in Nat
           /\ SumOf([i \in Ids |-> Payout(m, side, m.stakes[i])], Ids) = PoolOf(m)
<1>1. PICK y, z, p :
          /\ y = [i \in Ids |-> m.stakes[i]["YES"]]
          /\ z = [i \in Ids |-> m.stakes[i]["NO"]]
          /\ p = [i \in Ids |-> Payout(m, side, m.stakes[i])]
  OBVIOUS
<1>2. /\ m.stakes \in [Ids -> [Sides -> Nat]] /\ m.pools[side] \in Nat /\ PoolOf(m) \in Nat
      /\ m.pools["YES"] \in Nat /\ m.pools["NO"] \in Nat
  BY BookFacts
<1>3. \A i \in Ids : /\ y[i] \in Nat /\ z[i] \in Nat
                     /\ m.stakes[i]["YES"] = y[i] /\ m.stakes[i]["NO"] = z[i] /\ m.stakes[i][side] \in Nat
  BY <1>1, <1>2 DEF Sides
<1>4. m.pools["YES"] = SumOf(y, Ids) /\ m.pools["NO"] = SumOf(z, Ids)
  BY <1>1 DEF Balanced, Sides
<1>5. CASE m.pools[side] = 0
  <2>1. \A i \in Ids : p[i] = y[i] + z[i] /\ p[i] \in Nat
    BY <1>1, <1>3, <1>5 DEF Payout
  <2>2. SumOf(p, Ids) = SumOf(y, Ids) + SumOf(z, Ids)
    BY ONLY <1>3, <2>1, SumPlus, FinitelyMany
  <2>3. QED
    BY <1>1, <1>4, <2>1, <2>2 DEF PoolOf
<1>6. CASE m.pools[side] # 0
  <2>1. PICK q \in Nat \ {0}, v \in Nat : q = m.pools[side] /\ v = PoolOf(m)
    BY <1>2, <1>6
  <2>2. PICK s, d : /\ s = [i \in Ids |-> m.stakes[i][side]]
                    /\ d = [i \in Ids |-> m.stakes[i][side] * v]
    OBVIOUS
  <2>3. \A i \in Ids : s[i] \in Nat /\ d[i] = v * s[i] /\ d[i] \in Nat
    <3>1. \A i \in Ids : s[i] \in Nat /\ d[i] = s[i] * v
      BY <1>3, <2>2
    <3>2. QED
      BY <2>1, <3>1
  <2>4. ASSUME NEW i \in Ids PROVE p[i] \in Nat /\ d[i] = q * p[i]
    <3>1. d[i] % q = 0
      BY <1>6, <2>1, <2>2 DEF Whole, PoolOf
    <3>2. p[i] = d[i] \div q
      BY <1>1, <1>6, <2>1, <2>2 DEF Payout, PoolOf
    <3>3. p[i] \in Nat /\ p[i] * q = d[i]
      BY <2>1, <2>3, <3>1, <3>2, WholeQuotient
    <3>4. QED
      BY <2>1, <3>3
  <2>5. SumOf(s, Ids) = q
    BY <2>1, <2>2 DEF Balanced
  <2>6. SumOf(d, Ids) = v * q
    <3>1. SumOf(d, Ids) = v * SumOf(s, Ids)
      BY ONLY <2>1, <2>3, SumScale, FinitelyMany
    <3>2. QED
      BY <2>5, <3>1
  <2>7. SumOf(d, Ids) = q * SumOf(p, Ids) /\ SumOf(p, Ids) \in Nat
    <3>1. \A i \in Ids : p[i] \in Nat /\ d[i] = q * p[i]
      BY <2>4
    <3>2. q \in Nat
      BY <2>1
    <3>3. QED
      BY ONLY <3>1, <3>2, SumScale, SumType, FinitelyMany
  <2>8. SumOf(p, Ids) * q = v * q
    BY <2>1, <2>6, <2>7
  <2>9. SumOf(p, Ids) = v
    BY <2>1, <2>7, <2>8, Cancel
  <2>10. QED
    BY <1>1, <2>1, <2>4, <2>9
<1>7. QED
  BY <1>5, <1>6

LEMMA ResolveLeaves ==
    ASSUME NEW w \in WorldStates, BooksBalanced(w), NEW tx \in Transactions,
           tx.type = "resolveMarket", Whole(w.bets[tx.market])
    PROVE  /\ ResolveMarket(w, tx) \in WorldStates /\ BooksBalanced(ResolveMarket(w, tx))
           /\ ResolveMarket(w, tx).gcc = w.gcc /\ Conserved(w, ResolveMarket(w, tx))
<1>1. tx.market \in Markets /\ w.bets \in [Markets -> Books] /\ w.usdc \in [Ids -> Nat]
  BY DEF Transactions, WorldStates
<1> DEFINE m == w.bets[tx.market]
<1>2. CASE m.status # "open" \/ w.market = None
  BY <1>2 DEF ResolveMarket, Conserved
<1>3. CASE m.status = "open" /\ w.market # None
  <2>1. PICK side \in Sides : side = IF w.market.silver >= m.threshold * w.market.rice THEN "YES" ELSE "NO"
    BY DEF Sides
  <2> DEFINE p == [i \in Ids |-> Payout(m, side, m.stakes[i])]
             u == [i \in Ids |-> w.usdc[i] + Payout(m, side, m.stakes[i])]
             b == [m EXCEPT !.status = "resolved", !.pools = NoPools]
  <2>2. ResolveMarket(w, tx) = Rebooked(w, u, tx.market, b)
    BY <1>3, <2>1 DEF ResolveMarket, Rebooked
  <2>3. m \in Books /\ Balanced(m)
    BY <1>1 DEF BooksBalanced
  <2>4. (\A i \in Ids : p[i] \in Nat) /\ SumOf(p, Ids) = PoolOf(m)
    BY <1>3, <2>3, PayoutsAddUp
  <2>5. u \in [Ids -> Nat] /\ \A i \in Ids : u[i] = w.usdc[i] + p[i]
    BY <1>1, <2>4
  <2>6. NoPools \in [Sides -> Nat]
    BY DEF NoPools
  <2>7. b \in Books /\ b.status = "resolved" /\ b.pools = NoPools
    BY <2>3, <2>6 DEF Books
  <2> HIDE DEF p, u, b, m
  <2>8. Balanced(b) /\ PoolOf(b) = 0
    BY <2>7 DEF Balanced, PoolOf, NoPools, Sides
  <2>9. SumOf(u, Ids) = SumOf(w.usdc, Ids) + SumOf(p, Ids) /\ SumOf(w.usdc, Ids) \in Nat
        /\ SumOf(u, Ids) \in Nat /\ SumOf(p, Ids) \in Nat
    <3>1. \A i \in Ids : w.usdc[i] \in Nat /\ p[i] \in Nat /\ u[i] = w.usdc[i] + p[i] /\ u[i] \in Nat
      BY <1>1, <2>4, <2>5
    <3>2. PICK f : f = w.usdc
      OBVIOUS
    <3>3. \A i \in Ids : f[i] \in Nat /\ p[i] \in Nat /\ u[i] = f[i] + p[i] /\ u[i] \in Nat
      BY <3>1, <3>2
    <3>4. SumOf(u, Ids) = SumOf(f, Ids) + SumOf(p, Ids) /\ SumOf(f, Ids) \in Nat
          /\ SumOf(u, Ids) \in Nat /\ SumOf(p, Ids) \in Nat
      BY ONLY <3>3, SumPlus, SumType, FinitelyMany
    <3>5. QED
      BY <3>2, <3>4
  <2>10. SumOf(u, Ids) + PoolOf(b) = SumOf(w.usdc, Ids) + PoolOf(m)
    BY <2>4, <2>8, <2>9
  <2>11. QED
    BY <1>1, <2>2, <2>5, <2>7, <2>8, <2>10, BookChanges DEF m
<1>4. QED
  BY <1>2, <1>3

(***************************************************************************)
(* Every transaction.                                                      *)
(***************************************************************************)
LEMMA TransactionTypes ==
    ASSUME NEW tx \in Transactions
    PROVE  tx.type \in {"createNpc", "activate", "donate", "move", "applyTalk", "luckEvent", "battle",
                        "forgeArtifact", "initMarket", "trade", "dividend", "openMarket", "bet", "resolveMarket"}
BY DEF Transactions

\* Transactions that leave the money alone.
LEMMA QuietTransactions ==
    ASSUME NEW w \in WorldStates, NEW tx \in Transactions,
           tx.type \in {"createNpc", "move", "battle", "forgeArtifact"}
    PROVE  ApplyTx(w, tx) \in SameMoney(w)
<1>1. w \in SameMoney(w)
  BY DEF SameMoney
<1>2. CASE tx.type = "createNpc"
  BY <1>2, CreateLeaves DEF ApplyTx
<1>3. CASE tx.type = "move"
  BY <1>3, MoveLeaves DEF ApplyTx
<1>4. CASE tx.type = "forgeArtifact"
  BY <1>4, ForgeLeaves DEF ApplyTx
<1>5. CASE tx.type = "battle"
  <2>1. ApplyTx(w, tx) = Battle(w, tx)
    BY <1>5 DEF ApplyTx
  <2>2. CASE CanFight(w, tx.npc) /\ CanFight(w, tx.foe)
    <3>1. BattleEnds(w, tx, Battle(w, tx), Bout(tx.npc, tx.foe, Fighters(w, tx), tx.seed))
      BY <1>5, <2>2, BattleLeaves
    <3>2. QED
      BY <2>1, <3>1 DEF BattleEnds
  <2>3. CASE ~CanFight(w, tx.npc) \/ ~CanFight(w, tx.foe)
    BY <1>1, <2>1, <2>3 DEF Battle
  <2>4. QED
    BY <2>2, <2>3
<1>6. QED
  BY <1>2, <1>3, <1>4, <1>5

\* Transactions that issue or burn money.
LEMMA IssuingTransactions ==
    ASSUME NEW w \in WorldStates, NEW tx \in Transactions, tx.type \in Issuing
    PROVE  ApplyTx(w, tx) \in SameBooks(w)
<1>1. CASE tx.type = "activate"
  BY <1>1, ActivateLeaves DEF ApplyTx
<1>2. CASE tx.type = "donate"
  BY <1>2, DonateLeaves DEF ApplyTx
<1>3. CASE tx.type = "applyTalk"
  BY <1>3, TalkLeavesPurse DEF ApplyTx
<1>4. CASE tx.type = "luckEvent"
  BY <1>4, LuckLeaves DEF ApplyTx
<1>5. CASE tx.type = "dividend"
  BY <1>5, DividendLeaves DEF ApplyTx
<1>6. CASE tx.type = "initMarket"
  BY <1>6, InitLeaves DEF ApplyTx
<1>7. QED
  BY <1>1, <1>2, <1>3, <1>4, <1>5, <1>6 DEF Issuing

LEMMA SameBooksBalanced ==
    ASSUME NEW w, BooksBalanced(w), NEW v \in SameBooks(w)
    PROVE  v \in WorldStates /\ BooksBalanced(v)
BY DEF SameBooks, BooksBalanced

LEMMA SameMoneyConserved ==
    ASSUME NEW w, NEW v \in SameMoney(w)
    PROVE  Conserved(w, v) /\ v.gcc = w.gcc
BY DEF SameMoney, Conserved, Gcc, Usdc, Staked

\* What a transaction that the host may offer leaves.
LEMMA TransactionLeaves ==
    ASSUME NEW w \in WorldStates, BooksBalanced(w), NEW tx \in Transactions, Offered(w, tx)
    PROVE  /\ ApplyTx(w, tx) \in WorldStates /\ BooksBalanced(ApplyTx(w, tx))
           /\ tx.type \notin Issuing => Conserved(w, ApplyTx(w, tx))
           /\ (tx.type \notin {"activate", "applyTalk", "luckEvent", "trade"} \/ (tx.type = "trade" /\ tx.side = "buy")) =>
                \A i \in Ids : ApplyTx(w, tx).gcc[i] >= w.gcc[i]
<1>0. \A i \in Ids : w.gcc[i] \in Nat /\ w.gcc[i] >= w.gcc[i]
  BY DEF WorldStates
<1>1. CASE tx.type \in {"createNpc", "move", "battle", "forgeArtifact"}
  <2>1. ApplyTx(w, tx) \in SameMoney(w)
    BY <1>1, QuietTransactions
  <2>2. QED
    BY <1>0, <2>1, SameMoneyIsSameBooks, SameBooksBalanced, SameMoneyConserved
<1>2. CASE tx.type \in Issuing
  <2>1. ApplyTx(w, tx) \in SameBooks(w)
    BY <1>2, IssuingTransactions
  <2>2. ASSUME tx.type \notin {"activate", "applyTalk", "luckEvent", "trade"}
        PROVE  \A i \in Ids : ApplyTx(w, tx).gcc[i] >= w.gcc[i]
    <3>1. CASE tx.type = "donate"
      BY <3>1, DonateLeaves DEF ApplyTx
    <3>2. CASE tx.type = "dividend"
      <4>1. ApplyTx(w, tx).gcc = w.gcc
        BY <3>2, DividendLeaves DEF ApplyTx
      <4>2. QED
        BY <1>0, <4>1
    <3>3. CASE tx.type = "initMarket"
      <4>1. ApplyTx(w, tx).gcc = w.gcc
        BY <3>3, InitLeaves DEF ApplyTx
      <4>2. QED
        BY <1>0, <4>1
    <3>4. QED
      BY <1>2, <2>2, <3>1, <3>2, <3>3 DEF Issuing
  <2>3. tx.type # "trade"
    BY <1>2 DEF Issuing
  <2>4. QED
    BY <1>2, <2>1, <2>2, <2>3, SameBooksBalanced
<1>3. CASE tx.type = "trade"
  <2>1. ApplyTx(w, tx) = Trade(w, tx)
    BY <1>3 DEF ApplyTx
  <2>2. QED
    BY <1>3, <2>1, TradeLeaves, SameBooksBalanced DEF Conserved
<1>4. CASE tx.type = "openMarket"
  <2>1. ApplyTx(w, tx) = OpenMarket(w, tx)
    BY <1>4 DEF ApplyTx
  <2>2. QED
    BY <1>0, <1>4, <2>1, OpenLeaves
<1>5. CASE tx.type = "bet"
  <2>1. ApplyTx(w, tx) = Bet(w, tx)
    BY <1>5 DEF ApplyTx
  <2>2. QED
    BY <1>0, <1>5, <2>1, BetLeaves
<1>6. CASE tx.type = "resolveMarket"
  <2>1. ApplyTx(w, tx) = ResolveMarket(w, tx) /\ Whole(w.bets[tx.market])
    BY <1>6 DEF ApplyTx, Offered
  <2>2. QED
    BY <1>0, <1>6, <2>1, ResolveLeaves
<1>7. QED
  BY <1>1, <1>2, <1>3, <1>4, <1>5, <1>6, TransactionTypes DEF Issuing

\* Who bears the deeper grudge lost the battle, and has no more health.
LEMMA BattleVerdict ==
    ASSUME NEW w \in WorldStates, NEW tx \in Transactions, tx.type = "battle",
           NEW i \in Ids, NEW j \in Ids, i # j, NEW v, v = ApplyTx(w, tx),
           v.rel[i][j] = w.rel[i][j] - 6
    PROVE  v.combat[i].hp <= v.combat[j].hp
<1>1. v = Battle(w, tx) /\ w.rel[i][j] \in Int
  BY DEF ApplyTx, WorldStates, Souls
<1>2. CASE ~CanFight(w, tx.npc) \/ ~CanFight(w, tx.foe)
  <2>1. v = w
    BY <1>1, <1>2 DEF Battle
  <2>2. QED
    BY <1>1, <2>1
<1>3. CASE CanFight(w, tx.npc) /\ CanFight(w, tx.foe)
  <2>1. PICK a, b, hp : /\ a = tx.npc /\ b = tx.foe
                        /\ hp = Bout(a, b, Fighters(w, tx), tx.seed)
    OBVIOUS
  <2>2. PICK winner : winner = IF hp[a] >= hp[b] THEN a ELSE b
    OBVIOUS
  <2>3. /\ hp \in [{a, b} -> Nat]
        /\ \A k \in Ids \cap {a, b} : v.combat[k].hp = hp[k]
        /\ v.rel[i][j] = IF i \in {a, b} /\ j \in {a, b}
                         THEN w.rel[i][j] + (IF winner = i THEN -2 ELSE -6) ELSE w.rel[i][j]
    <3>1. BattleEnds(w, tx, v, hp)
      BY <1>1, <1>3, <2>1, BattleLeaves
    <3>2. QED
      BY <2>1, <2>2, <3>1 DEF BattleEnds
  <2>4. i \in {a, b} /\ j \in {a, b} /\ winner # i
    BY <1>1, <2>3
  <2>5. winner = j /\ hp[i] <= hp[j]
    BY <2>2, <2>3, <2>4
  <2>6. QED
    BY <2>3, <2>4, <2>5
<1>4. QED
  BY <1>2, <1>3

(***************************************************************************)
(* The money, the verdicts and the reserve of every behaviour.             *)
(***************************************************************************)
\* A world is one of the states that a transaction can leave, its books balanced.
Hosting == script \in Scripts /\ world \in WorldStates /\ BooksBalanced(world) /\ IsList(log)

\* A turn under way, and the planner's word: a talk that costs leaves the reserve.
Thrifty(out, seen) == out.cost > 0 => seen - out.cost >= Reserve
Planning == turn # None => turn \in Turns /\ (turn.out # None => Thrifty(turn.out, turn.seen))

\* A step leaves the world and the log alone, empties the log, or logs a transaction.
LEMMA StepsOfTheWorld ==
    ASSUME [OracleNext]_<<stfVars, oracleVars>>
    PROVE  /\ script' = script
           /\ \/ UNCHANGED <<world, log>>
              \/ world' = world /\ log' = <<>>
              \/ \E tx \in script.offers : Apply(tx) /\ UNCHANGED oracleVars
              \/ \E value \in Values : FinishTurn(value)
<1>1. CASE UNCHANGED <<stfVars, oracleVars>>
  BY <1>1 DEF stfVars
<1>2. CASE StfNext /\ UNCHANGED oracleVars
  BY <1>2 DEF StfNext, Apply, BeginCommit, Upload, Anchor, CommitFails
<1>3. CASE TurnNext
  BY <1>3 DEF TurnNext, BeginTurn, Produce, FinishTurn, stfVars
<1>4. CASE ProofNext
  BY <1>4 DEF ProofNext, Attest, VerifyTalkProvenance, stfVars
<1>5. QED
  BY <1>1, <1>2, <1>3, <1>4 DEF OracleNext

LEMMA TalkIsATransaction ==
    ASSUME NEW t \in Turns, t.out # None
    PROVE  /\ TalkOf(t) \in Transactions /\ TalkOf(t).type = "applyTalk" /\ TalkOf(t).npc = t.npc
           /\ TalkOf(t).cost = t.out.cost /\ t.out \in Outs
<1>1. /\ t.npc \in Ids /\ t.player \in Players /\ t.out \in Outs
      /\ t.out.effects \in Seq(Effects) /\ t.out.cost \in Nat
  BY DEF Turns, Outs
<1>2. TalkOf(t) \in [type : {"applyTalk"}, npc : Ids, player : Players, effects : Seq(Effects), cost : Nat]
  BY <1>1 DEF TalkOf
<1>3. TalkOf(t) \in Transactions
  BY <1>2 DEF Transactions
<1>4. QED
  BY <1>1, <1>3 DEF TalkOf

LEMMA HostingKept ==
    ASSUME Hosting, Planning, [OracleNext]_<<stfVars, oracleVars>>
    PROVE  Hosting'
<1>1. script' \in Scripts
  BY StepsOfTheWorld DEF Hosting
<1>2. CASE UNCHANGED <<world, log>>
  BY <1>1, <1>2 DEF Hosting
<1>3. CASE world' = world /\ log' = <<>>
  BY <1>1, <1>3, EmptyIsASeq DEF Hosting
<1>4. ASSUME NEW tx \in script.offers, Apply(tx)
      PROVE  Hosting'
  <2>1. tx \in Transactions
    BY ScriptAssumption DEF Hosting
  <2>2. Offered(world, tx) /\ world' = ApplyTx(world, tx) /\ log' = Append(log, tx)
    BY <1>4 DEF Apply
  <2>3. IsList(log')
    BY <2>2, AppendToSeq DEF Hosting
  <2>4. world' \in WorldStates /\ BooksBalanced(world')
    BY <2>1, <2>2, TransactionLeaves DEF Hosting
  <2>5. QED
    BY <1>1, <2>3, <2>4 DEF Hosting, BooksBalanced
<1>5. ASSUME NEW value \in Values, FinishTurn(value)
      PROVE  Hosting'
  <2>1. TalkOf(turn) \in Transactions /\ TalkOf(turn).type = "applyTalk"
    BY <1>5, TalkIsATransaction DEF FinishTurn, Planning
  <2>2. world' = ApplyTx(world, TalkOf(turn)) /\ log' = Append(log, TalkOf(turn))
    BY <1>5 DEF FinishTurn
  <2>3. IsList(log')
    BY <2>2, AppendToSeq DEF Hosting
  <2>4. world' \in SameBooks(world)
    BY <2>1, <2>2, IssuingTransactions DEF Hosting, Issuing
  <2>5. world' \in WorldStates /\ BooksBalanced(world')
    BY <2>4, SameBooksBalanced DEF Hosting
  <2>6. QED
    BY <1>1, <2>3, <2>5 DEF Hosting, BooksBalanced
<1>6. QED
  BY <1>2, <1>3, <1>4, <1>5, StepsOfTheWorld

\* The oracle's answer completes the turn, and keeps the planner's word.
LEMMA ProducedTurn ==
    ASSUME Planning, Produce
    PROVE  turn' \in Turns /\ (turn'.out # None => Thrifty(turn'.out, turn'.seen))
<1>1. turn # None /\ turn \in Turns /\ turn.seen \in Nat
  BY DEF Produce, Planning, Turns
<1>2. PICK answer \in LlmOutputs(turn.seen) :
          turn' = [turn EXCEPT !.out = Planned(Reflected(answer, turn.type, mind).out, turn.seen)]
  BY DEF Produce
<1>3. Rest \in Outs /\ Rest.cost = 0
  BY DEF Rest, Outs
<1>4. answer \in Outs
  BY <1>3, AnswersAssumption DEF LlmOutputs, Outs
<1>5. PICK out : out = Reflected(answer, turn.type, mind).out
  OBVIOUS
<1>6. out \in Outs
  <2>1. [answer EXCEPT !.cost = @ + ReflectCost] \in Outs
    BY <1>4, ReserveAssumption DEF Outs
  <2>2. QED
    BY <1>3, <1>4, <1>5, <2>1 DEF Reflected
<1>7. Planned(out, turn.seen) \in Outs /\ Thrifty(Planned(out, turn.seen), turn.seen)
  <2>1. out.cost \in Nat /\ turn.seen - out.cost \in Int
    BY <1>1, <1>6 DEF Outs
  <2>2. CASE out.cost > 0 /\ turn.seen - out.cost < Reserve
    BY <1>3, <2>2 DEF Planned, Thrifty
  <2>3. CASE ~(out.cost > 0 /\ turn.seen - out.cost < Reserve)
    BY <1>6, <2>1, <2>3, ReserveAssumption DEF Planned, Thrifty
  <2>4. QED
    BY <2>2, <2>3
<1>8. /\ turn' \in Turns /\ turn'.seen = turn.seen
      /\ turn'.out = Planned(out, turn.seen)
  BY <1>1, <1>2, <1>5, <1>7 DEF Turns
<1>9. QED
  BY <1>7, <1>8

LEMMA PlanningKept ==
    ASSUME Hosting, Planning, [OracleNext]_<<stfVars, oracleVars>>
    PROVE  Planning'
<1>1. CASE UNCHANGED turn
  BY <1>1 DEF Planning
<1>2. ASSUME NEW npc \in Talkers, NEW visitor \in Players, NEW type \in Types, BeginTurn(npc, visitor, type)
      PROVE  Planning'
  <2>1. turn' = [npc |-> npc, player |-> visitor, type |-> type, seen |-> world.gcc[npc], out |-> None]
    BY <1>2 DEF BeginTurn
  <2>2. npc \in Ids /\ world.gcc[npc] \in Nat
    BY TalkersAssumption DEF Hosting, WorldStates
  <2>3. turn' \in Turns /\ turn'.out = None
    BY <2>1, <2>2 DEF Turns
  <2>4. QED
    BY <2>3 DEF Planning
<1>3. ASSUME Produce PROVE Planning'
  BY <1>3, ProducedTurn DEF Planning
<1>4. ASSUME NEW value \in Values, FinishTurn(value) PROVE Planning'
  BY <1>4 DEF FinishTurn, Planning
<1>5. CASE UNCHANGED <<stfVars, oracleVars>>
  BY <1>1, <1>5 DEF oracleVars
<1>6. CASE StfNext /\ UNCHANGED oracleVars
  BY <1>1, <1>6 DEF oracleVars
<1>7. CASE ProofNext
  BY <1>1, <1>7 DEF ProofNext, Attest, VerifyTalkProvenance
<1>8. QED
  BY <1>2, <1>3, <1>4, <1>5, <1>6, <1>7 DEF OracleNext, TurnNext

LEMMA WorldsAreHosted == OracleSpec => [](Hosting /\ Planning)
<1>1. StfInit /\ OracleInit => Hosting /\ Planning
  BY ScriptAssumption, EmptyIsASeq DEF StfInit, OracleInit, Hosting, Planning, BooksBalanced
<1>2. Hosting /\ Planning /\ [OracleNext]_<<stfVars, oracleVars>> => (Hosting /\ Planning)'
  BY HostingKept, PlanningKept
<1>3. QED
  BY <1>1, <1>2, PTL DEF OracleSpec

\* What a step logs: its transaction is the last of the log.
LEMMA LoggedLast ==
    ASSUME NEW s, IsList(s), NEW x
    PROVE  Last(Append(s, x)) = x
<1>1. PICK z : z = Append(s, x)
  OBVIOUS
<1>2. Len(s) \in Nat /\ Len(z) = Len(s) + 1 /\ z[Len(s) + 1] = x
  BY <1>1, AppendToSeq
<1>3. QED
  BY <1>1, <1>2 DEF Last

\* A step that logs: the transaction it applied.
LEMMA StepThatLogs ==
    ASSUME Hosting, Planning, [OracleNext]_<<stfVars, oracleVars>>, Len(log') > Len(log)
    PROVE  /\ Last(log') \in Transactions
           /\ world' = ApplyTx(world, Last(log'))
           /\ Last(log').type # "applyTalk" => Offered(world, Last(log'))
<1>1. Len(log) \in Nat /\ IsList(log)
  BY AppendToSeq DEF Hosting
<1>2. ~UNCHANGED <<world, log>> /\ ~(world' = world /\ log' = <<>>)
  BY <1>1, EmptyIsASeq
<1>3. ASSUME NEW tx \in script.offers, Apply(tx)
      PROVE  /\ Last(log') \in Transactions /\ world' = ApplyTx(world, Last(log'))
             /\ Offered(world, Last(log'))
  <2>1. tx \in Transactions
    BY ScriptAssumption DEF Hosting
  <2>2. QED
    BY <1>1, <1>3, <2>1, LoggedLast DEF Apply
<1>4. ASSUME NEW value \in Values, FinishTurn(value)
      PROVE  /\ Last(log') \in Transactions /\ world' = ApplyTx(world, Last(log'))
             /\ Last(log').type = "applyTalk"
  BY <1>1, <1>4, TalkIsATransaction, LoggedLast DEF FinishTurn, Planning
<1>5. QED
  BY <1>2, <1>3, <1>4, StepsOfTheWorld

\* Transactions other than those that issue money move GCC and USDC between the
\* purses, the pool and the books, without making or losing any, for any accounts,
\* markets and amounts whose swaps and payouts come out even (trade, bet, resolveMarket).
THEOREM ValueIsConserved == OracleSpec => ValueConserved
<1>1. ASSUME Hosting, Planning, [OracleNext]_<<stfVars, oracleVars>>,
             Len(log') > Len(log), Last(log').type \notin Issuing
      PROVE  Gcc(world') = Gcc(world) /\ Usdc(world') = Usdc(world)
  <2>1. Last(log').type # "applyTalk"
    BY <1>1 DEF Issuing
  <2>2. /\ Last(log') \in Transactions /\ world' = ApplyTx(world, Last(log'))
        /\ Offered(world, Last(log'))
    BY <1>1, <2>1, StepThatLogs
  <2>3. Conserved(world, ApplyTx(world, Last(log')))
    BY <1>1, <2>2, TransactionLeaves DEF Hosting
  <2>4. QED
    BY <2>2, <2>3 DEF Conserved
<1>2. Hosting /\ Planning /\ [OracleNext]_<<stfVars, oracleVars>> =>
        [ Len(log') > Len(log) /\ Last(log').type \notin Issuing =>
            Gcc(world') = Gcc(world) /\ Usdc(world') = Usdc(world) ]_stfVars
  BY <1>1
<1>3. QED
  BY <1>2, WorldsAreHosted, PTL DEF OracleSpec, ValueConserved

\* Who leaves a battle with the deeper grudge has no more health than the other,
\* for any fighters, seeds and number of rounds (resolveBattle).
THEOREM TheVictorStands == OracleSpec => VictorStands
<1>1. ASSUME Hosting, Planning, [OracleNext]_<<stfVars, oracleVars>>,
             Len(log') > Len(log), Last(log').type = "battle", NEW i \in Ids, NEW j \in Ids,
             i # j, world'.rel[i][j] = world.rel[i][j] - 6
      PROVE  world'.combat[i].hp <= world'.combat[j].hp
  <2>1. Last(log') \in Transactions /\ world' = ApplyTx(world, Last(log'))
    BY <1>1, StepThatLogs
  <2>2. QED
    BY <1>1, <2>1, BattleVerdict DEF Hosting
<1>2. Hosting /\ Planning /\ [OracleNext]_<<stfVars, oracleVars>> =>
        [ Len(log') > Len(log) /\ Last(log').type = "battle" =>
            \A i, j \in Ids :
              i # j /\ world'.rel[i][j] = world.rel[i][j] - 6 =>
                  world'.combat[i].hp <= world'.combat[j].hp ]_stfVars
  BY <1>1
<1>3. QED
  BY <1>2, WorldsAreHosted, PTL DEF OracleSpec, VictorStands

\* The transactions that may take GCC take it from the NPC they name.
LEMMA OthersKeepTheirPurse ==
    ASSUME NEW w \in WorldStates, NEW tx \in Transactions,
           tx.type \in {"activate", "applyTalk", "luckEvent", "trade"},
           NEW i \in Ids \ {tx.npc}
    PROVE  ApplyTx(w, tx).gcc[i] = w.gcc[i]
<1>1. w.gcc \in [Ids -> Nat]
  BY DEF WorldStates
<1>2. CASE tx.type = "activate"
  BY <1>1, <1>2 DEF ApplyTx, Activate
<1>3. CASE tx.type = "applyTalk"
  <2>1. /\ tx.npc \in Ids /\ tx.player \in Players /\ tx.effects \in Seq(Effects)
    BY <1>3 DEF Transactions
  <2>2. PICK v \in SameMoney(w) : ApplyTalk(w, tx) = [v EXCEPT !.gcc[tx.npc] = NotNegative(@ - tx.cost)]
    BY <2>1, TalkLeaves
  <2>3. v.gcc = w.gcc /\ v \in WorldStates
    BY DEF SameMoney
  <2>4. [v EXCEPT !.gcc[tx.npc] = NotNegative(@ - tx.cost)].gcc[i] = w.gcc[i]
    BY <1>1, <2>3 DEF WorldStates
  <2>5. QED
    BY <1>3, <2>2, <2>4 DEF ApplyTx
<1>4. CASE tx.type = "luckEvent"
  BY <1>1, <1>4 DEF ApplyTx, LuckEvent, WorldStates
<1>5. CASE tx.type = "trade"
  BY <1>1, <1>5 DEF ApplyTx, Trade, WorldStates
<1>6. QED
  BY <1>2, <1>3, <1>4, <1>5

\* While a turn waits for its answer, nothing else that may take GCC names its
\* NPC; gifts and purchases of GCC may come in, and others may pay.
NothingElseTakes ==
    turn # None =>
        \A tx \in script.offers :
            \/ tx.type \notin {"activate", "applyTalk", "luckEvent", "trade"}
            \/ tx.type = "trade" /\ tx.side = "buy"
            \/ tx.npc # turn.npc

\* The purse has not shrunk since the planner looked at it.
PurseHeld == turn # None => world.gcc[turn.npc] >= turn.seen

LEMMA PurseHeldKept ==
    ASSUME Hosting, Planning, NothingElseTakes, PurseHeld, [OracleNext]_<<stfVars, oracleVars>>
    PROVE  PurseHeld'
<1>1. CASE turn' = turn /\ turn # None
  <2>1. turn.npc \in Ids /\ turn.seen \in Nat
    BY <1>1 DEF Planning, Turns
  <2>2. world.gcc \in [Ids -> Nat]
    BY DEF Hosting, WorldStates
  <2>3. ASSUME NEW tx \in script.offers, Apply(tx)
        PROVE  world'.gcc[turn.npc] >= world.gcc[turn.npc] /\ world'.gcc[turn.npc] \in Nat
    <3>1. tx \in Transactions
      BY ScriptAssumption DEF Hosting
    <3>2. /\ ApplyTx(world, tx) \in WorldStates
          /\ \/ tx.type \notin {"activate", "applyTalk", "luckEvent", "trade"}
             \/ tx.type = "trade" /\ tx.side = "buy"
             => \A i \in Ids : ApplyTx(world, tx).gcc[i] >= world.gcc[i]
      BY <2>3, <3>1, TransactionLeaves DEF Hosting, Apply
    <3>3. /\ ApplyTx(world, tx).gcc \in [Ids -> Nat]
          /\ ApplyTx(world, tx).gcc[turn.npc] >= world.gcc[turn.npc]
      <4>1. CASE /\ tx.type \in {"activate", "applyTalk", "luckEvent", "trade"}
                 /\ tx.npc # turn.npc
        <5>1. ApplyTx(world, tx).gcc[turn.npc] = world.gcc[turn.npc]
          BY <2>1, <3>1, <4>1, OthersKeepTheirPurse DEF Hosting
        <5>2. QED
          BY <2>1, <2>2, <3>2, <5>1 DEF WorldStates
      <4>2. QED
        BY <1>1, <2>1, <3>2, <4>1 DEF NothingElseTakes, WorldStates
    <3>4. QED
      BY <2>1, <2>3, <3>3 DEF Apply
  <2>4. ~\E value \in Values : FinishTurn(value)
    BY <1>1 DEF FinishTurn
  <2>5. world' = world \/ (world'.gcc[turn.npc] >= world.gcc[turn.npc] /\ world'.gcc[turn.npc] \in Nat)
    BY <2>3, <2>4, StepsOfTheWorld
  <2>6. QED
    BY <1>1, <2>1, <2>2, <2>5 DEF PurseHeld
<1>2. CASE turn' = None
  BY <1>2 DEF PurseHeld
<1>3. ASSUME NEW npc \in Talkers, NEW visitor \in Players, NEW type \in Types, BeginTurn(npc, visitor, type)
      PROVE  PurseHeld'
  <2>1. turn'.npc = npc /\ turn'.seen = world.gcc[npc] /\ world' = world
    BY <1>3 DEF BeginTurn, stfVars
  <2>2. world.gcc[npc] \in Nat
    BY TalkersAssumption DEF Hosting, WorldStates
  <2>3. QED
    BY <2>1, <2>2 DEF PurseHeld
<1>4. ASSUME Produce PROVE PurseHeld'
  <2>1. turn # None /\ turn \in Turns /\ world' = world
    BY <1>4 DEF Produce, Planning, stfVars
  <2>2. turn'.npc = turn.npc /\ turn'.seen = turn.seen
    BY <1>4, <2>1 DEF Produce, Turns
  <2>3. QED
    BY <2>1, <2>2 DEF PurseHeld
<1>5. CASE UNCHANGED turn
  BY <1>1, <1>2, <1>5
<1>6. CASE TurnNext
  BY <1>2, <1>3, <1>4, <1>6 DEF TurnNext, FinishTurn
<1>7. CASE ~TurnNext
  BY <1>5, <1>7 DEF OracleNext, ProofNext, Attest, VerifyTalkProvenance, oracleVars
<1>8. QED
  BY <1>6, <1>7

\* A planner keeps its reserve in every turn, for any answers, prices, policies
\* and gifts during the inference, as long as nothing else takes GCC from the NPC
\* between the look at its purse and the burn (PlanningOracle.produce).
THEOREM ReserveIsKept == OracleSpec /\ []NothingElseTakes => ReserveKept
<1>1. StfInit /\ OracleInit => PurseHeld
  BY DEF OracleInit, PurseHeld
<1>2. Hosting /\ Planning /\ NothingElseTakes /\ PurseHeld /\ [OracleNext]_<<stfVars, oracleVars>> => PurseHeld'
  BY PurseHeldKept
<1>3. OracleSpec /\ []NothingElseTakes => []PurseHeld
  BY <1>1, <1>2, WorldsAreHosted, PTL DEF OracleSpec
<1>4. ASSUME Hosting, Planning, PurseHeld, [OracleNext]_<<stfVars, oracleVars>>,
             turn # None, turn' = None, turn.out.cost > 0
      PROVE  world'.gcc[turn.npc] >= Reserve
  <2>1. PICK value \in Values : FinishTurn(value)
    <3>1. ~\E npc \in Talkers, visitor \in Players, type \in Types : BeginTurn(npc, visitor, type)
      BY <1>4 DEF BeginTurn
    <3>2. ~Produce
      BY <1>4, ProducedTurn, NoTurnAssumption
    <3>3. ~UNCHANGED turn
      BY <1>4
    <3>4. QED
      BY <3>1, <3>2, <3>3, <1>4 DEF OracleNext, TurnNext, ProofNext, Attest, VerifyTalkProvenance, oracleVars
  <2>2. /\ turn.out # None /\ world' = ApplyTx(world, TalkOf(turn))
    BY <2>1 DEF FinishTurn
  <2>3. /\ TalkOf(turn) \in Transactions /\ TalkOf(turn).type = "applyTalk"
        /\ TalkOf(turn).npc = turn.npc /\ TalkOf(turn).cost = turn.out.cost /\ turn.out \in Outs
        /\ turn.npc \in Ids /\ turn.seen \in Nat
    BY <1>4, <2>2, TalkIsATransaction DEF Planning, Turns
  <2>4. /\ world' = ApplyTalk(world, TalkOf(turn)) /\ world' \in WorldStates
        /\ world'.gcc[turn.npc] >= world.gcc[turn.npc] - turn.out.cost
    BY <1>4, <2>2, <2>3, TalkLeavesPurse DEF Hosting, ApplyTx, SameBooks
  <2>5. world.gcc[turn.npc] \in Nat /\ world'.gcc[turn.npc] \in Nat /\ turn.out.cost \in Nat
    BY <1>4, <2>3, <2>4 DEF Hosting, WorldStates, Outs
  <2>6. turn.seen - turn.out.cost >= Reserve /\ world.gcc[turn.npc] >= turn.seen
    BY <1>4, <2>2 DEF Planning, Thrifty, PurseHeld
  <2>7. QED
    BY <2>3, <2>4, <2>5, <2>6, ReserveAssumption
<1>5. Hosting /\ Planning /\ PurseHeld /\ [OracleNext]_<<stfVars, oracleVars>> =>
        [ turn # None /\ turn' = None /\ turn.out.cost > 0 =>
            world'.gcc[turn.npc] >= Reserve ]_<<stfVars, turn>>
  BY <1>4
<1>6. QED
  BY <1>3, <1>5, WorldsAreHosted, PTL DEF OracleSpec, ReserveKept

-----------------------------------------------------------------------------
(***************************************************************************)
(* The turns of the action loop.                                           *)
(***************************************************************************)
\* An operation that can move silver names who has a purse, and moves no less
\* than nothing; lists of such operations.
OpOK(op) ==
    /\ op.kind = "transfer" => op.a \in Everybody /\ op.b \in Everybody /\ op.n \in Nat
    /\ op.kind \in {"buy", "sell", "hunt"} => op.a \in Everybody /\ op.n \in Int
OpsOK(ops) == \E S : ops \in Seq(S) /\ \A op \in S : OpOK(op)

PursesOK(p) == \A s \in Everybody : p[s] \in Nat
ContextOK(ctx) == ctx.npc \in Folk /\ ctx.here \subseteq Folk /\ PursesOK(ctx.purse)

\* The turn under way, and the silver.
TurnOK ==
    /\ acting = [pc |-> acting.pc, npc |-> acting.npc, ctx |-> acting.ctx,
                 ops |-> acting.ops, job |-> acting.job]
    /\ acting.pc = "choose" => ContextOK(acting.ctx)
    /\ OpsOK(acting.ops)
    /\ acting.job # 0 => acting.pc = "act" /\ acting.ops # <<>>

SilverOK ==
    /\ purse = [s \in Everybody |-> purse[s]] /\ PursesOK(purse)
    /\ granary \in Nat /\ produced \in Nat
    /\ SilverAccounted

TurnInvariant == TurnOK /\ SilverOK

LEMMA MinOfNaturals ==
    ASSUME NEW a \in Nat, NEW b \in Nat
    PROVE  Min({a, b}) \in Nat /\ Min({a, b}) <= a /\ Min({a, b}) <= b
<1>1. a \in Int /\ b \in Int
  OBVIOUS
<1>2. Min({a, b}) \in {a, b} /\ Min({a, b}) <= a /\ Min({a, b}) <= b
  BY <1>1, MinOfTwo
<1>3. QED
  BY <1>2

LEMMA NotBelowZero ==
    ASSUME NEW n \in Int
    PROVE  Max({0, n}) \in Nat /\ (n >= 0 => Max({0, n}) = n)
<1>1. 0 \in Int
  OBVIOUS
<1>2. Max({0, n}) \in {0, n} /\ Max({0, n}) >= 0 /\ Max({0, n}) >= n
  BY <1>1, MaxOfTwo
<1>3. QED
  BY <1>2

LEMMA TownIsFinite == IsFiniteSet(Folk) /\ IsFiniteSet(Everybody)
<1>1. DOMAIN Npcs = 1..Len(Npcs) /\ Len(Npcs) \in Nat
  BY SocialAssumption
<1> DEFINE name == [i \in 1..Len(Npcs) |-> Npcs[i]]
<1>2. name \in Surjection(1..Len(Npcs), Folk)
  <2>1. \A i \in 1..Len(Npcs) : name[i] \in Folk
    BY <1>1 DEF Folk, ToSet
  <2>2. \A o \in Folk : \E i \in 1..Len(Npcs) : name[i] = o
    BY <1>1 DEF Folk, ToSet
  <2>3. name \in [1..Len(Npcs) -> Folk]
    BY <2>1
  <2> HIDE DEF name
  <2>4. QED
    BY <2>2, <2>3 DEF Surjection
<1>3. IsFiniteSet(Folk)
  <2> HIDE DEF name
  <2>1. QED
    BY <1>1, <1>2, FS_Interval, FS_Surjection
<1>4. QED
  BY <1>3, TurnAssumption, FS_Union DEF Everybody

LEMMA RankIs ==
    ASSUME NEW o \in Folk
    PROVE  Rank(o) \in Nat
<1>1. DOMAIN Npcs = 1..Len(Npcs) /\ Len(Npcs) \in Nat
  BY SocialAssumption
<1>2. \E i \in DOMAIN Npcs : Npcs[i] = o
  BY DEF Folk, ToSet
<1>3. Rank(o) \in DOMAIN Npcs
  BY <1>2 DEF Rank
<1>4. QED
  BY <1>1, <1>3

\* Of any NPCs, one comes first.
LEMMA ForemostIs ==
    ASSUME NEW S \in SUBSET Folk, S # {}
    PROVE  Foremost(S) \in S
<1> DEFINE First(T) == \E o \in T : \A p \in T : Rank(o) <= Rank(p)
           F == {T \in SUBSET S : T = {} \/ First(T)}
<1>1. {} \in F
  OBVIOUS
<1>2. ASSUME NEW T \in SUBSET S, NEW x \in S \ T, T \in F
      PROVE  T \cup {x} \in F
  <2>1. \A o \in T \cup {x} : Rank(o) \in Nat
    BY RankIs
  <2>2. CASE T = {}
    <3>1. \A p \in T \cup {x} : Rank(x) <= Rank(p)
      BY <2>1, <2>2
    <3>2. QED
      BY <3>1
  <2>3. CASE First(T)
    <3>1. PICK o \in T : \A p \in T : Rank(o) <= Rank(p)
      BY <2>3
    <3>2. CASE Rank(o) <= Rank(x)
      <4>1. \A p \in T \cup {x} : Rank(o) <= Rank(p)
        BY <3>1, <3>2
      <4>2. QED
        BY <4>1
    <3>3. CASE Rank(x) <= Rank(o)
      <4>1. \A p \in T \cup {x} : Rank(x) <= Rank(p)
        BY <2>1, <3>1, <3>3
      <4>2. QED
        BY <4>1
    <3>4. QED
      BY <2>1, <3>2, <3>3
  <2>4. QED
    BY <1>2, <2>2, <2>3
<1>3. IsFiniteSet(S)
  BY TownIsFinite, FS_Subset
<1>4. S \in F
  <2> HIDE DEF F
  <2>1. QED
    BY <1>1, <1>2, <1>3, SubsetInduction
<1>5. First(S)
  BY <1>4
<1>6. QED
  BY <1>5 DEF Foremost

(***************************************************************************)
(* Lists of operations.                                                    *)
(***************************************************************************)
LEMMA NoOps == OpsOK(<<>>)
<1>1. PICK S : S = {}
  OBVIOUS
<1>2. <<>> \in Seq(S) /\ \A op \in S : OpOK(op)
  BY <1>1
<1>3. QED
  BY <1>2 DEF OpsOK

LEMMA OneOp ==
    ASSUME NEW op, OpOK(op)
    PROVE  OpsOK(<<op>>)
<1>1. PICK S : S = {op}
  OBVIOUS
<1>2. <<op>> \in Seq(S) /\ \A o \in S : OpOK(o)
  BY <1>1
<1>3. QED
  BY <1>2 DEF OpsOK

LEMMA OpsThenOps ==
    ASSUME NEW s, OpsOK(s), NEW t, OpsOK(t)
    PROVE  OpsOK(s \o t)
<1>1. PICK S : s \in Seq(S) /\ \A op \in S : OpOK(op)
  BY DEF OpsOK
<1>2. PICK T : t \in Seq(T) /\ \A op \in T : OpOK(op)
  BY DEF OpsOK
<1>3. s \in Seq(S \cup T) /\ t \in Seq(S \cup T)
  BY <1>1, <1>2
<1>4. s \o t \in Seq(S \cup T)
  BY <1>3
<1>5. QED
  BY <1>1, <1>2, <1>4 DEF OpsOK

LEMMA HeadAndTail ==
    ASSUME NEW s, OpsOK(s), s # <<>>
    PROVE  OpOK(Head(s)) /\ OpsOK(Tail(s))
<1>1. PICK S : s \in Seq(S) /\ \A op \in S : OpOK(op)
  BY DEF OpsOK
<1>2. Head(s) \in S /\ Tail(s) \in Seq(S)
  BY <1>1
<1>3. QED
  BY <1>1, <1>2 DEF OpsOK

\* A set of operations in some order.
LEMMA ListedOps ==
    ASSUME NEW S, IsFiniteSet(S), \A op \in S : OpOK(op)
    PROVE  OpsOK(SetToSeq(S))
<1> DEFINE n == Cardinality(S)
<1>1. n \in Nat
  BY FS_CardinalityType
<1>2. PICK f : f \in Bijection(1..n, S)
  BY FS_CardinalityType DEF ExistsBijection
<1>3. f \in [1..n -> S] /\ IsInjective(f)
  BY <1>2 DEF Bijection, Injection, IsInjective
<1>4. SetToSeq(S) \in [1..n -> S]
  BY <1>3 DEF SetToSeq
<1>5. SetToSeq(S) \in Seq(S)
  BY <1>1, <1>4, SeqDef
<1>6. QED
  BY <1>5 DEF OpsOK


\* Other operations move no silver.
LEMMA QuietOp ==
    ASSUME NEW op, op.kind \notin {"transfer", "buy", "sell", "hunt"}
    PROVE  OpsOK(<<op>>)
<1>1. OpOK(op)
  BY DEF OpOK
<1>2. QED
  BY <1>1, OneOp

LEMMA RefillsOK ==
    ASSUME NEW ctx, NEW id \in DOMAIN Category
    PROVE  OpsOK(Refills(ctx, id))
<1> DEFINE C == Claimable(ctx, id)
           refill == [x \in C |-> Op("satisfy", ctx.npc, x, Refill)]
           S == {Op("satisfy", ctx.npc, x, Refill) : x \in C}
<1>1. \A op \in S : OpOK(op)
  BY DEF OpOK, Op
<1>2. IsFiniteSet(C)
  <2>1. C \subseteq Axes
    BY DEF Claimable, Axes
  <2> HIDE DEF C
  <2>2. QED
    BY <2>1, TurnAssumption, FS_Subset
<1>3. refill \in Surjection(C, S)
  <2> HIDE DEF C
  <2>1. refill \in [C -> S] /\ \A op \in S : \E x \in C : refill[x] = op
    OBVIOUS
  <2> HIDE DEF refill, S
  <2>2. QED
    BY <2>1 DEF Surjection
<1>4. IsFiniteSet(S)
  <2> HIDE DEF C, refill, S
  <2>1. QED
    BY <1>2, <1>3, FS_Surjection
<1>5. OpsOK(SetToSeq(S))
  <2> HIDE DEF S
  <2>1. QED
    BY <1>1, <1>4, ListedOps
<1>6. QED
  BY <1>5 DEF Refills

LEMMA PaidOK ==
    ASSUME NEW from \in Everybody, NEW to \in Everybody \cup {Nowhere}, NEW n \in Int
    PROVE  OpsOK(Paid(from, to, n))
<1>1. CASE n > 0 /\ to # Nowhere
  <2>1. OpOK(Op("transfer", from, to, n))
    BY <1>1 DEF OpOK, Op
  <2>2. Paid(from, to, n) = <<Op("transfer", from, to, n)>>
    BY <1>1 DEF Paid
  <2>3. QED
    BY <2>1, <2>2, OneOp
<1>2. CASE ~(n > 0 /\ to # Nowhere)
  BY <1>2, NoOps DEF Paid
<1>3. QED
  BY <1>1, <1>2

LEMMA TargetIs ==
    ASSUME NEW ctx, ContextOK(ctx), NEW wish \in Wishes
    PROVE  Target(ctx, wish) \in Everybody \cup {Nowhere}
<1>1. wish.target \in Everybody \cup {Nowhere}
  BY TurnAssumption
<1>2. ctx.here # {} => Foremost(ctx.here) \in Everybody
  BY ForemostIs DEF ContextOK, Everybody
<1>3. QED
  BY <1>1, <1>2 DEF Target


LEMMA VictimIs ==
    ASSUME NEW ctx, ContextOK(ctx), NEW wish, Wealthy(ctx) # {}
    PROVE  Victim(ctx, wish) \in Folk
<1>1. Wealthy(ctx) \subseteq Folk
  BY DEF Wealthy, ContextOK
<1>2. Foremost(Wealthy(ctx)) \in Wealthy(ctx)
  BY <1>1, ForemostIs
<1>3. QED
  BY <1>1, <1>2 DEF Victim

LEMMA UpkeepOK ==
    ASSUME NEW ctx, ContextOK(ctx), NEW id \in Available(ctx), NEW wish \in Wishes,
           id \notin {"move", "say", "pitch", "give", "trade"}, NEW ops \in Upkeep(ctx, id, wish)
    PROVE  OpsOK(ops)
<1> DEFINE me == ctx.npc
           other == Target(ctx, wish)
           keeper == IF ctx.here = {} THEN Nowhere ELSE Foremost(ctx.here)
           v == Victim(ctx, wish)
<1>1. id \in {"help", "recharge", "research", "socialize", "steal", "hunt"}
  BY DEF Available
<1>2. me \in Everybody /\ ctx.purse[me] \in Nat
  BY DEF ContextOK, PursesOK, Everybody
<1>3. other \in Everybody \cup {Nowhere}
  BY TargetIs
<1>4. {"recharge", "research", "socialize"} = DOMAIN Category
  BY TurnAssumption
<1> DEFINE Hi(a, b, n) == Op("adjust", a, b, n)
<1>5. \A a, b, n : OpsOK(<<Hi(a, b, n)>>)
  BY QuietOp DEF Op
<1>6. CASE id = "research"
  <2>1. ops = Refills(ctx, id)
    BY <1>6 DEF Upkeep
  <2>2. QED
    BY <1>4, <1>6, <2>1, RefillsOK
<1>7. CASE id = "recharge"
  <2>1. keeper \in Everybody \cup {Nowhere}
    BY ForemostIs DEF ContextOK, Everybody
  <2>2. Min({Costs.recharge, ctx.purse[me]}) \in Int
    <3>1. Costs.recharge \in Int /\ ctx.purse[me] \in Int
      BY <1>2, TurnAssumption
    <3> HIDE DEF me
    <3>2. QED
      BY <3>1, MinOfTwo
  <2>3. OpsOK(Paid(me, keeper, Min({Costs.recharge, ctx.purse[me]})))
    BY <1>2, <2>1, <2>2, PaidOK
  <2>4. ops = Refills(ctx, id) \o Paid(me, keeper, Min({Costs.recharge, ctx.purse[me]}))
    BY <1>7 DEF Upkeep
  <2> HIDE DEF keeper, me
  <2>5. QED
    BY <1>4, <1>7, <2>3, <2>4, RefillsOK, OpsThenOps
<1>8. CASE id = "socialize"
  <2>1. ops = Refills(ctx, id) \o <<Hi(me, other, Regards.socialize)>>
    BY <1>8 DEF Upkeep
  <2> HIDE DEF Hi
  <2>2. QED
    BY <1>4, <1>5, <1>8, <2>1, RefillsOK, OpsThenOps
<1>9. CASE id = "help"
  <2>1. wish.amount \in Int
    BY TurnAssumption
  <2>2. Min({wish.amount, ctx.purse[me]}) \in Int
    <3> HIDE DEF me
    <3>1. ctx.purse[me] \in Int
      BY <1>2
    <3>2. QED
      BY <2>1, <3>1, MinOfTwo
  <2>3. OpsOK(Paid(me, other, Min({wish.amount, ctx.purse[me]})))
    BY <1>2, <1>3, <2>2, PaidOK
  <2>4. OpsOK(<<Hi(me, other, Regards.help), Hi(other, me, Regards.help)>>)
    <3> DEFINE S == {Hi(me, other, Regards.help), Hi(other, me, Regards.help)}
    <3>1. \A op \in S : OpOK(op)
      BY DEF OpOK, Op
    <3>2. <<Hi(me, other, Regards.help), Hi(other, me, Regards.help)>> \in Seq(S)
      <4> HIDE DEF Hi
      <4>1. QED
        OBVIOUS
    <3> HIDE DEF S, Hi
    <3>3. QED
      BY <3>1, <3>2 DEF OpsOK
  <2>5. ops = Paid(me, other, Min({wish.amount, ctx.purse[me]}))
                \o <<Hi(me, other, Regards.help), Hi(other, me, Regards.help)>>
    BY <1>9 DEF Upkeep
  <2> HIDE DEF Hi, other, me
  <2>6. QED
    BY <2>3, <2>4, <2>5, OpsThenOps
<1>10. CASE id = "steal"
  <2>1. Wealthy(ctx) # {}
    BY <1>10 DEF Available
  <2>2. v \in Everybody /\ ctx.purse[v] \in Nat
    BY <2>1, VictimIs DEF ContextOK, PursesOK, Everybody
  <2>3. PICK n, d : /\ n = Min({Costs.steal, ctx.purse[v]})
                    /\ ops = <<Op("transfer", v, me, n), Op("theft", v, me, d)>>
    BY <1>10 DEF Upkeep
  <2>4. n \in Nat
    <3>1. Costs.steal \in Nat /\ ctx.purse[v] \in Nat
      BY <2>2, TurnAssumption
    <3> HIDE DEF v
    <3>2. QED
      BY <2>3, <3>1, MinOfNaturals
  <2> DEFINE S == {Op("transfer", v, me, n), Op("theft", v, me, d)}
  <2>5. \A op \in S : OpOK(op)
    BY <1>2, <2>2, <2>4 DEF OpOK, Op
  <2>6. <<Op("transfer", v, me, n), Op("theft", v, me, d)>> \in Seq(S)
    OBVIOUS
  <2> HIDE DEF S
  <2>7. QED
    BY <2>3, <2>5, <2>6 DEF OpsOK
<1>11. CASE id = "hunt"
  <2>1. ops = <<Op("hunt", me, me, 0)>>
    BY <1>11 DEF Upkeep
  <2>2. OpOK(Op("hunt", me, me, 0))
    BY <1>2 DEF OpOK, Op
  <2>3. QED
    BY <2>1, <2>2, OneOp
<1>12. QED
  BY <1>1, <1>6, <1>7, <1>8, <1>9, <1>10, <1>11

\* Whatever the model asks for, an action's operations move silver between
\* purses, and never less than nothing.
LEMMA ResolveOK ==
    ASSUME NEW ctx, ContextOK(ctx), NEW id \in Available(ctx), NEW wish \in Wishes,
           NEW ops \in Resolve(ctx, id, wish)
    PROVE  OpsOK(ops)
<1> DEFINE me == ctx.npc
           other == Target(ctx, wish)
<1>1. me \in Everybody
  BY DEF ContextOK, Everybody
<1>2. wish.amount \in Int /\ wish.side \in {"buy", "sell"}
  BY TurnAssumption
<1>3. CASE id = "move"
  <2>1. PICK r : ops = <<Op("goto", me, r, 0)>>
    BY <1>3 DEF Resolve
  <2>2. Op("goto", me, r, 0).kind = "goto"
    BY DEF Op
  <2>3. QED
    BY <2>1, <2>2, QuietOp
<1>4. CASE id = "say"
  <2>1. ops = <<>> \/ ops = <<Op("talk", me, other, 0)>>
    BY <1>4 DEF Resolve
  <2>2. Op("talk", me, other, 0).kind = "talk"
    BY DEF Op
  <2>3. QED
    BY <2>1, <2>2, QuietOp, NoOps
<1>5. CASE id = "pitch"
  <2>1. ops = <<Op("pitch", other, me, wish.amount)>>
    BY <1>5 DEF Resolve
  <2>2. Op("pitch", other, me, wish.amount).kind = "pitch"
    BY DEF Op
  <2>3. QED
    BY <2>1, <2>2, QuietOp
<1>6. CASE id = "give"
  <2>1. ops = Paid(me, other, wish.amount)
    BY <1>6 DEF Resolve
  <2>2. QED
    BY <1>1, <1>2, <2>1, TargetIs, PaidOK
<1>7. CASE id = "trade"
  <2>1. ops = <<Op(wish.side, me, me, wish.amount)>>
    BY <1>7 DEF Resolve
  <2>2. OpOK(Op(wish.side, me, me, wish.amount))
    BY <1>1, <1>2 DEF OpOK, Op
  <2>3. QED
    BY <2>1, <2>2, OneOp
<1>8. CASE id \notin {"move", "say", "pitch", "give", "trade"}
  <2>1. ops \in Upkeep(ctx, id, wish)
    BY <1>8 DEF Resolve
  <2>2. QED
    BY <1>8, <2>1, UpkeepOK
<1>9. QED
  BY <1>3, <1>4, <1>5, <1>6, <1>7, <1>8

(***************************************************************************)
(* Purses.                                                                 *)
(***************************************************************************)
LEMMA AddIs ==
    ASSUME NEW p, p = [s \in Everybody |-> p[s]], PursesOK(p),
           NEW n \in Everybody, NEW delta \in Int, p[n] + delta >= 0
    PROVE  LET q == AddSilver(p, n, delta)
           IN  /\ q = [s \in Everybody |-> q[s]] /\ PursesOK(q)
               /\ q[n] = p[n] + delta /\ \A s \in Everybody \ {n} : q[s] = p[s]
               /\ SumOf(q, Everybody) = SumOf(p, Everybody) + delta
<1> DEFINE q == AddSilver(p, n, delta)
<1>1. p[n] \in Nat /\ p[n] + delta \in Nat
  BY DEF PursesOK
<1>2. Max({0, p[n] + delta}) = p[n] + delta
  <2>1. PICK sum \in Nat : sum = p[n] + delta
    BY <1>1
  <2>2. Max({0, sum}) = sum
    BY <2>1, NotBelowZero
  <2>3. QED
    BY <2>1, <2>2
<1>3. q = [p EXCEPT ![n] = p[n] + delta]
  BY <1>2 DEF AddSilver
<1>4. /\ q = [s \in Everybody |-> q[s]]
      /\ q[n] = p[n] + delta /\ \A s \in Everybody \ {n} : q[s] = p[s]
  BY <1>3
<1> HIDE DEF q
<1>5. PursesOK(q)
  BY <1>1, <1>4 DEF PursesOK
<1>6. SumOf(q, Everybody) + p[n] = SumOf(p, Everybody) + q[n]
  BY <1>4, <1>5, TownIsFinite, SumUpdate DEF PursesOK
<1>7. SumOf(q, Everybody) \in Nat /\ SumOf(p, Everybody) \in Nat
  BY <1>5, TownIsFinite, SumType DEF PursesOK
<1>8. QED
  BY <1>1, <1>4, <1>5, <1>6, <1>7 DEF q

LEMMA SilverStays ==
    ASSUME SilverOK, UNCHANGED <<purse, granary, produced>>
    PROVE  SilverOK'
BY DEF SilverOK, SilverAccounted, PursesOK

LEMMA DoneOK ==
    ASSUME TurnOK, acting.pc = "act", acting.ops # <<>>, acting.job = 0, Done
    PROVE  TurnOK'
<1>1. OpsOK(Tail(acting.ops))
  BY HeadAndTail DEF TurnOK
<1>2. acting' = [acting EXCEPT !.ops = Tail(acting.ops)]
  BY DEF Done
<1>3. acting' = [pc |-> "act", npc |-> acting.npc, ctx |-> acting.ctx,
                 ops |-> Tail(acting.ops), job |-> acting.job]
  BY <1>2 DEF TurnOK
<1>4. QED
  BY <1>1, <1>3 DEF TurnOK

LEMMA DoingIs ==
    ASSUME TurnOK, NEW kind, Doing(kind)
    PROVE  /\ acting.pc = "act" /\ acting.ops # <<>> /\ acting.job = 0
           /\ Current.kind = kind /\ OpOK(Current)
BY HeadAndTail DEF TurnOK, Doing, Current

LEMMA TransferKeeps ==
    ASSUME TurnInvariant, DoTransfer
    PROVE  TurnInvariant'
<1>1. TurnOK /\ SilverOK
  BY DEF TurnInvariant
<1>2. Doing("transfer") /\ Done /\ UNCHANGED <<granary, produced>>
  BY DEF DoTransfer
<1>3. PICK a, b, n : /\ a = Current.a /\ b = Current.b /\ n = Current.n
                     /\ a \in Everybody /\ b \in Everybody /\ n \in Nat
  BY <1>1, <1>2, DoingIs DEF OpOK
<1>4. PICK moved : /\ moved = Min({n, purse[a]})
                   /\ purse' = IF a = b THEN purse
                               ELSE AddSilver(AddSilver(purse, a, -moved), b, moved)
  BY <1>3 DEF DoTransfer
<1>5. purse[a] \in Nat /\ moved \in Nat /\ moved <= purse[a]
  <2>1. purse[a] \in Nat
    BY <1>1, <1>3 DEF SilverOK, PursesOK
  <2>2. QED
    BY <2>1, <1>3, <1>4, MinOfNaturals
<1>6. CASE a = b
  <2>1. SilverOK'
    BY <1>1, <1>2, <1>4, <1>6, SilverStays
  <2>2. QED
    BY <1>1, <1>2, <2>1, DoingIs, DoneOK DEF TurnInvariant
<1>7. CASE a # b
  <2> DEFINE q == AddSilver(purse, a, -moved)
  <2>1. purse' = AddSilver(q, b, moved)
    BY <1>4, <1>7
  <2>2. /\ q = [s \in Everybody |-> q[s]] /\ PursesOK(q)
        /\ SumOf(q, Everybody) = SumOf(purse, Everybody) + (-moved)
    BY <1>1, <1>3, <1>5, AddIs DEF SilverOK
  <2> HIDE DEF q
  <2>3. q[b] \in Nat /\ q[b] + moved >= 0
    BY <1>3, <1>5, <2>2 DEF PursesOK
  <2>4. /\ purse' = [s \in Everybody |-> purse'[s]] /\ PursesOK(purse')
        /\ SumOf(purse', Everybody) = SumOf(q, Everybody) + moved
    BY <1>3, <1>5, <2>1, <2>2, <2>3, AddIs
  <2>5. SumOf(purse, Everybody) \in Nat
    BY <1>1, TownIsFinite, SumType DEF SilverOK, PursesOK
  <2>6. SumOf(purse', Everybody) = SumOf(purse, Everybody)
    BY <1>5, <2>2, <2>4, <2>5
  <2>7. SilverOK'
    BY <1>1, <1>2, <2>4, <2>6 DEF SilverOK, SilverAccounted, PursesOK
  <2>8. QED
    BY <1>1, <1>2, <2>7, DoingIs, DoneOK DEF TurnInvariant
<1>8. QED
  BY <1>6, <1>7

\* One purse and the rest of the books move together.
LEMMA OnePurseMoves ==
    ASSUME SilverOK, NEW n \in Everybody, NEW delta \in Int, purse[n] + delta >= 0,
           purse' = AddSilver(purse, n, delta),
           granary' \in Nat, produced' \in Nat, granary' + delta = granary + (produced' - produced)
    PROVE  SilverOK'
<1>1. /\ purse' = [s \in Everybody |-> purse'[s]] /\ PursesOK(purse')
      /\ SumOf(purse', Everybody) = SumOf(purse, Everybody) + delta
  BY AddIs DEF SilverOK
<1>2. SumOf(purse, Everybody) \in Nat /\ SumOf(StartSilver, Folk) \in Nat
  BY TownIsFinite, SumType, TurnAssumption DEF SilverOK, PursesOK
<1>3. Granary \in Nat /\ granary \in Nat /\ produced \in Nat
  BY TurnAssumption DEF SilverOK
<1>4. SumOf(purse, Everybody) + granary = SumOf(StartSilver, Folk) + Granary + produced
  BY DEF SilverOK, SilverAccounted
<1>5. SumOf(purse', Everybody) + granary' = SumOf(StartSilver, Folk) + Granary + produced'
  BY <1>1, <1>2, <1>3, <1>4
<1>6. QED
  BY <1>1, <1>5 DEF SilverOK, SilverAccounted, PursesOK

LEMMA TradeKeeps ==
    ASSUME TurnInvariant, DoTrade
    PROVE  TurnInvariant'
<1>1. TurnOK /\ SilverOK
  BY DEF TurnInvariant
<1>2. PICK kind \in {"buy", "sell"} : Doing(kind)
  BY DEF DoTrade
<1>3. /\ acting.pc = "act" /\ acting.ops # <<>> /\ acting.job = 0 /\ Current.kind = kind
      /\ Current.a \in Everybody /\ Current.n \in Int
  BY <1>1, <1>2, DoingIs DEF OpOK
<1>4. TurnOK'
  BY <1>1, <1>3, DoneOK DEF DoTrade
<1>5. purse[Current.a] \in Nat /\ granary \in Nat /\ produced \in Nat /\ produced' = produced
  BY <1>1, <1>3 DEF SilverOK, PursesOK, DoTrade
<1>6. SilverOK'
  <2>1. CASE UNCHANGED <<purse, granary>>
    BY <1>1, <1>5, <2>1, SilverStays
  <2>2. CASE /\ 0 < Current.n /\ Current.n <= purse[Current.a]
             /\ purse' = AddSilver(purse, Current.a, -Current.n)
             /\ granary' = granary + Current.n
    <3>1. PICK a, n : a = Current.a /\ n = Current.n
      OBVIOUS
    <3>2. /\ a \in Everybody /\ -n \in Int /\ purse[a] + (-n) >= 0
          /\ purse' = AddSilver(purse, a, -n)
          /\ granary' \in Nat /\ produced' \in Nat
          /\ granary' + (-n) = granary + (produced' - produced)
      BY <1>3, <1>5, <2>2, <3>1
    <3>3. QED
      BY <1>1, <3>2, OnePurseMoves
  <2>3. CASE \E out \in TurnAmounts :
                /\ 0 < out /\ out < granary
                /\ purse' = AddSilver(purse, Current.a, out)
                /\ granary' = granary - out
    <3>1. PICK out \in TurnAmounts : /\ 0 < out /\ out < granary
                                     /\ purse' = AddSilver(purse, Current.a, out)
                                     /\ granary' = granary - out
      BY <2>3
    <3>2. PICK a : a = Current.a
      OBVIOUS
    <3>3. out \in Int
      BY TurnAssumption
    <3>4. /\ a \in Everybody /\ purse[a] + out >= 0
          /\ purse' = AddSilver(purse, a, out)
          /\ granary' \in Nat /\ produced' \in Nat
          /\ granary' + out = granary + (produced' - produced)
      BY <1>3, <1>5, <3>1, <3>2, <3>3
    <3>5. QED
      BY <1>1, <3>3, <3>4, OnePurseMoves
  <2>4. QED
    BY <2>1, <2>2, <2>3 DEF DoTrade
<1>7. QED
  BY <1>4, <1>6 DEF TurnInvariant

LEMMA HuntKeeps ==
    ASSUME TurnInvariant, DoHunt
    PROVE  TurnInvariant'
<1>1. TurnOK /\ SilverOK
  BY DEF TurnInvariant
<1>2. Doing("hunt") /\ Done /\ granary' = granary
  BY DEF DoHunt
<1>3. /\ acting.pc = "act" /\ acting.ops # <<>> /\ acting.job = 0 /\ Current.a \in Everybody
  BY <1>1, <1>2, DoingIs DEF OpOK
<1>4. TurnOK'
  BY <1>1, <1>2, <1>3, DoneOK
<1>5. purse[Current.a] \in Nat /\ granary \in Nat /\ produced \in Nat
  BY <1>1, <1>3 DEF SilverOK, PursesOK
<1>6. SilverOK'
  <2>1. CASE UNCHANGED <<purse, produced>>
    BY <1>1, <1>2, <2>1, SilverStays
  <2>2. CASE \E silver \in TurnAmounts :
                /\ purse' = AddSilver(purse, Current.a, Max({0, silver}))
                /\ produced' = produced + Max({0, silver})
    <3>1. PICK silver \in TurnAmounts : /\ purse' = AddSilver(purse, Current.a, Max({0, silver}))
                                        /\ produced' = produced + Max({0, silver})
      BY <2>2
    <3>2. silver \in Int
      BY TurnAssumption
    <3>3. PICK won \in Nat : won = Max({0, silver})
      BY <3>2, NotBelowZero
    <3>4. PICK a : a = Current.a
      OBVIOUS
    <3>5. /\ a \in Everybody /\ won \in Int /\ purse[a] + won >= 0
          /\ purse' = AddSilver(purse, a, won)
          /\ granary' \in Nat /\ produced' \in Nat
          /\ granary' + won = granary + (produced' - produced)
      BY <1>2, <1>3, <1>5, <3>1, <3>3, <3>4
    <3>6. QED
      BY <1>1, <3>5, OnePurseMoves
  <2>3. QED
    BY <2>1, <2>2 DEF DoHunt
<1>7. QED
  BY <1>4, <1>6 DEF TurnInvariant

LEMMA TurnBegins ==
    ASSUME TurnInvariant, NEW n \in Folk, BuildContext(n)
    PROVE  TurnInvariant'
<1>1. acting' = [NoTurn EXCEPT !.pc = "choose", !.npc = n,
                  !.ctx = [npc |-> n, room |-> whereabouts[n], here |-> Present(n),
                           purse |-> purse, needs |-> needs[n]]]
  BY DEF BuildContext
<1>2. acting' = [pc |-> "choose", npc |-> n,
                 ctx |-> [npc |-> n, room |-> whereabouts[n], here |-> Present(n),
                          purse |-> purse, needs |-> needs[n]],
                 ops |-> <<>>, job |-> 0]
  BY <1>1 DEF NoTurn
<1>3. Present(n) \subseteq Folk
  BY DEF Present
<1>4. ContextOK(acting'.ctx)
  BY <1>2, <1>3 DEF TurnInvariant, SilverOK, ContextOK, PursesOK
<1>5. OpsOK(acting'.ops)
  BY <1>2, NoOps
<1>6. TurnOK'
  BY <1>2, <1>4, <1>5 DEF TurnOK, ContextOK, PursesOK
<1>7. SilverOK'
  BY SilverStays DEF TurnInvariant, BuildContext
<1>8. QED
  BY <1>6, <1>7 DEF TurnInvariant

LEMMA ChooseKeeps ==
    ASSUME TurnInvariant, Choose
    PROVE  TurnInvariant'
<1>1. TurnOK /\ ContextOK(acting.ctx)
  BY DEF TurnInvariant, TurnOK, Choose
<1>2. CASE acting' = [acting EXCEPT !.pc = "act"]
  <2>1. acting' = [pc |-> "act", npc |-> acting.npc, ctx |-> acting.ctx,
                   ops |-> acting.ops, job |-> acting.job]
    BY <1>1, <1>2 DEF TurnOK
  <2>2. QED
    BY <1>1, <2>1, SilverStays DEF TurnInvariant, TurnOK, Choose
<1>3. CASE \E id \in Available(acting.ctx), wish \in Wishes :
              \E ops \in Resolve(acting.ctx, id, wish) :
                  acting' = [acting EXCEPT !.pc = "act", !.ops = ops]
  <2>1. PICK id \in Available(acting.ctx), wish \in Wishes :
              \E ops \in Resolve(acting.ctx, id, wish) :
                  acting' = [acting EXCEPT !.pc = "act", !.ops = ops]
    BY <1>3
  <2>2. PICK ops \in Resolve(acting.ctx, id, wish) :
              acting' = [acting EXCEPT !.pc = "act", !.ops = ops]
    BY <2>1
  <2>3. OpsOK(ops) /\ acting.job = 0
    BY <1>1, ResolveOK DEF TurnOK, Choose
  <2>4. acting' = [pc |-> "act", npc |-> acting.npc, ctx |-> acting.ctx,
                   ops |-> ops, job |-> acting.job]
    BY <1>1, <2>2 DEF TurnOK
  <2>5. TurnOK'
    BY <2>3, <2>4 DEF TurnOK
  <2>6. QED
    BY <2>5, SilverStays DEF TurnInvariant, Choose
<1>4. QED
  BY <1>2, <1>3 DEF Choose

\* Steps that end an operation and move no silver.
LEMMA QuietDone ==
    ASSUME TurnInvariant, NEW kind, Doing(kind), Done, UNCHANGED <<purse, granary, produced>>
    PROVE  TurnInvariant'
<1>1. TurnOK'
  BY DoingIs, DoneOK DEF TurnInvariant
<1>2. QED
  BY <1>1, SilverStays DEF TurnInvariant

LEMMA CallsKeep ==
    ASSUME TurnInvariant, DoCall \/ NoCall \/ EndCall \/ EndTurn
    PROVE  TurnInvariant'
<1>1. TurnOK /\ SilverOK
  BY DEF TurnInvariant
<1>2. SilverOK'
  BY <1>1, SilverStays DEF DoCall, NoCall, EndCall, EndTurn
<1>3. CASE DoCall
  <2>1. acting' = [acting EXCEPT !.job = Len(jobs) + 1]
    BY <1>3 DEF DoCall
  <2>2. acting' = [pc |-> acting.pc, npc |-> acting.npc, ctx |-> acting.ctx,
                   ops |-> acting.ops, job |-> Len(jobs) + 1]
    BY <1>1, <2>1 DEF TurnOK
  <2>3. acting.pc = "act" /\ acting.ops # <<>>
    BY <1>3 DEF DoCall, Doing
  <2>4. QED
    BY <1>1, <1>2, <2>2, <2>3 DEF TurnInvariant, TurnOK
<1>4. CASE NoCall
  <2>1. CASE Doing("adjust") /\ Done
    BY <1>1, <1>2, <2>1, DoingIs, DoneOK DEF TurnInvariant
  <2>2. CASE acting' = [acting EXCEPT !.ops = <<>>]
    <3>1. acting' = [pc |-> acting.pc, npc |-> acting.npc, ctx |-> acting.ctx,
                     ops |-> <<>>, job |-> acting.job]
      BY <1>1, <2>2 DEF TurnOK
    <3>2. \E kind \in {"adjust", "talk", "pitch"} : Doing(kind)
      BY <1>4 DEF NoCall
    <3>3. acting.job = 0
      BY <3>2 DEF Doing
    <3>4. QED
      BY <1>1, <1>2, <3>1, <3>3, NoOps DEF TurnInvariant, TurnOK
  <2>3. QED
    BY <1>4, <2>1, <2>2 DEF NoCall
<1>5. CASE EndTurn
  <2>1. acting' = [pc |-> "idle", npc |-> Nowhere, ctx |-> <<>>, ops |-> <<>>, job |-> 0]
    BY <1>5 DEF EndTurn, NoTurn
  <2>2. QED
    BY <1>2, <2>1, NoOps DEF TurnInvariant, TurnOK
<1>6. CASE EndCall
  <2>1. acting' = [acting EXCEPT !.ops = Tail(acting.ops), !.job = 0]
    BY <1>6 DEF EndCall
  <2>2. acting' = [pc |-> acting.pc, npc |-> acting.npc, ctx |-> acting.ctx,
                   ops |-> Tail(acting.ops), job |-> 0]
    BY <1>1, <2>1 DEF TurnOK
  <2>3. OpsOK(Tail(acting.ops))
    BY <1>1, <1>6, HeadAndTail DEF TurnOK, EndCall
  <2>4. QED
    BY <1>1, <1>2, <2>2, <2>3 DEF TurnInvariant, TurnOK
<1>7. QED
  BY <1>3, <1>4, <1>5, <1>6

LEMMA TurnsKeep ==
    ASSUME TurnInvariant, ActionNext
    PROVE  TurnInvariant'
<1>1. CASE \E n \in Folk : BuildContext(n)
  BY <1>1, TurnBegins
<1>2. CASE \E n \in Folk : TickNeeds(n)
  <2>1. UNCHANGED <<purse, granary, produced, acting>>
    BY <1>2 DEF TickNeeds
  <2>2. QED
    BY <2>1, SilverStays DEF TurnInvariant, TurnOK
<1>3. CASE DoGoto
  <2>1. Doing("goto") /\ Done /\ UNCHANGED <<purse, granary, produced>>
    BY <1>3 DEF DoGoto
  <2>2. QED
    BY <2>1, QuietDone
<1>4. CASE DoSatisfy
  <2>1. Doing("satisfy") /\ Done /\ UNCHANGED <<purse, granary, produced>>
    BY <1>4 DEF DoSatisfy
  <2>2. QED
    BY <2>1, QuietDone
<1>5. QED
  BY <1>1, <1>2, <1>3, <1>4, ChooseKeeps, TransferKeeps, TradeKeeps, HuntKeeps, CallsKeep
     DEF ActionNext

LEMMA TurnsStart == ASSUME ActionInit PROVE TurnInvariant
<1>1. \A s \in Folk : StartSilver[s] \in Nat
  BY TurnAssumption
<1>2. purse = [s \in Everybody |-> purse[s]] /\ PursesOK(purse)
  BY <1>1 DEF ActionInit, PursesOK
<1>3. SumOf(purse, Everybody) = SumOf(StartSilver, Folk)
  <2>1. \A s \in Everybody \ Folk : purse[s] = 0
    BY DEF ActionInit
  <2>2. SumOf(purse, Folk) = SumOf(purse, Everybody)
    BY <2>1, SumSupport DEF Everybody
  <2>3. \A s \in Folk : purse[s] = StartSilver[s]
    BY DEF ActionInit, Everybody
  <2>4. SumOf(purse, Folk) = SumOf(StartSilver, Folk)
    BY <2>3, SumSame
  <2>5. QED
    BY <2>2, <2>4
<1>4. SumOf(StartSilver, Folk) \in Nat /\ Granary \in Nat
  BY <1>1, TownIsFinite, SumType, TurnAssumption
<1>5. SilverOK
  BY <1>2, <1>3, <1>4 DEF SilverOK, SilverAccounted, ActionInit
<1>6. TurnOK
  BY NoOps DEF ActionInit, NoTurn, TurnOK
<1>7. QED
  BY <1>5, <1>6 DEF TurnInvariant

\* Turns make no silver, whatever the model writes and whatever became of what
\* an action was resolved from (actions/builtins.ts, transferSilver()): what is
\* in the purses and the granary is what there was and what hunts brought in.
THEOREM SilverIsAccounted == ActionSpec => []SilverAccounted
<1>1. SocialInit /\ ActionInit => TurnInvariant
  BY TurnsStart
<1>2. TurnInvariant /\ [ActionNext \/ (SocialNext /\ UNCHANGED actionVars)]_<<socialVars, actionVars>>
        => TurnInvariant'
  <2> SUFFICES ASSUME TurnInvariant,
                      [ActionNext \/ (SocialNext /\ UNCHANGED actionVars)]_<<socialVars, actionVars>>
               PROVE  TurnInvariant'
    OBVIOUS
  <2>1. CASE UNCHANGED actionVars
    BY <2>1, SilverStays DEF actionVars, TurnInvariant, TurnOK
  <2>2. QED
    BY <2>1, TurnsKeep
<1>3. TurnInvariant => SilverAccounted
  BY DEF TurnInvariant, SilverOK
<1>4. QED
  BY <1>1, <1>2, <1>3, PTL DEF ActionSpec
=============================================================================
