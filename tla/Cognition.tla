------------------------------ MODULE Cognition ------------------------------
(***************************************************************************)
(* The cognition package: what townsfolk remember of the peers they deal   *)
(* with, whom they warn, and how a guild bans a peer (packages/cognition:  *)
(* Cognition, TrustLedger, diffuseWarning, Polity, voting, misconduct,     *)
(* RapSheet, LoanBook).  The memory kernel is modelled by FakeKernel; any  *)
(* call of it and of the trust store may fail.  A call of the package is a *)
(* task, split at its awaits, and tasks overlap.  Trust is counted in      *)
(* twentieths.                                                             *)
(***************************************************************************)
EXTENDS Integers, FiniteSets, Sequences, FiniteSetsExt, SequencesExt

CONSTANTS
    Guild,        \* sequence: the voters
    Peers,        \* whom the guild deals with
    Claims,       \* topics: what a pitch claims
    Tasks,        \* slots for calls that overlap
    Towns,        \* hosts to explore, the values of town
    Terms,        \* lengths of bans
    Balances,     \* what a borrower may have when a loan is settled
    Owed,         \* principal and interest of a loan
    MaxDay        \* bound: the host's clock

ASSUME CognitionAssumption ==
    /\ Guild \in Seq(ToSet(Guild)) \ {<<>>} /\ Terms \cup Balances \cup {Owed, MaxDay} \subseteq Nat

VARIABLES
    town,      \* how a host drives the package, fixed: whether minds reflect
               \* on what they learn, how many calls overlap, who deals;
               \* bound: how many calls of each kind it makes
    facts,     \* beliefs in the kernel: [of, topic, by]
    episodes,  \* episodic memories in the kernel: [of, topic]
    trust,     \* TrustLedger: member -> peer -> twentieths
    task,      \* slot -> the call that runs in it
    raps,      \* RapSheet: offenders with an entry
    blacklist, \* Polity.blacklist: peer -> until, or 0
    loans,     \* LoanBook: loans not settled: [id, lender, borrower, due]
    defaults,  \* settlements that defaulted and the host has yet to record
    day,       \* the host's clock
    used,     \* how many calls of each kind there were
    lived,     \* history: deals that were felt: [of, peer, topic, outcome]
    decrees,   \* history: sanctions that passed
    settled    \* history: settlements, [id, paid]

cognitionVars == <<town, facts, episodes, trust, task, raps, blacklist, loans, defaults, day,
                   used, lived, decrees, settled>>
memory == <<facts, episodes, trust, lived>>
polity == <<raps, blacklist, decrees>>
credit == <<loans, defaults, day, settled>>

Members == ToSet(Guild)
Free == [kind |-> "none"]
Misconduct(offender) == offender  \* misconductTopic(): a topic per offender
Topics == Claims \cup Peers
CallKinds == {"deal", "crime", "round", "rap", "warning", "loan"}
TrustFloor == -10
Threshold == 60
Deltas == [loss |-> -6, gain |-> 1, neutral |-> 0]
Clamp(x) == Max({-20, Min({20, x})})

CognitionInit ==
    /\ town \in Towns
    /\ facts = {} /\ episodes = {} /\ lived = {}
    /\ trust = [n \in Members |-> [p \in Members \cup Peers |-> 0]]
    /\ task = [s \in Tasks |-> Free]
    /\ raps = {} /\ blacklist = [p \in Peers |-> 0] /\ decrees = {}
    /\ loans = {} /\ defaults = {} /\ day = 0 /\ settled = {}
    /\ used = [kind \in CallKinds |-> 0]

Runs(s, kind, pc) == task[s].kind = kind /\ task[s].pc = pc
Goes(s, pc) == task' = [task EXCEPT ![s].pc = pc]
Ends(s) == task' = [task EXCEPT ![s] = Free]
Learned(s) == IF town.reflects THEN Goes(s, "reflect") ELSE Ends(s)
Counted(kind) == used[kind] < town.calls[kind] /\ used' = [used EXCEPT ![kind] = @ + 1]
Idle(s) ==
    LET free == {t \in Tasks : task[t] = Free}
    IN  free # {} /\ s = Min(free) /\ Cardinality(Tasks \ free) < town.lanes

-----------------------------------------------------------------------------
\* recall(): beliefs and trust, each neutral when its service fails.

Faculty(n, topic) == [of |-> n, topic |-> topic, by |-> n] \in facts
Discernment(n, topic) == \E f \in facts : f.of = n /\ f.topic = topic
Recall(n, peer, topic, heard) ==
    [q |-> "kernel" \in heard /\ Discernment(n, topic),
     trust |-> IF "trust" \in heard THEN trust[n][peer] ELSE 0]
Services == {"kernel", "trust"}

\* A ban that is not over.
Sanctioned(target) == blacklist[target] > day

ShouldRefuse(signal) == signal.q \/ signal.trust < TrustFloor

\* learn(): the episode, a belief on a loss, then the trust, read and set.
StartsLearning(s, n, peer, topic, outcome) ==
    /\ Idle(s)
    /\ task' = [task EXCEPT ![s] = [kind |-> "learn", pc |-> "remember", of |-> n, peer |-> peer,
                                    topic |-> topic, outcome |-> outcome, seen |-> 0]]
    /\ lived' = lived \cup {[of |-> n, peer |-> peer, topic |-> topic, outcome |-> outcome]}

\* The host asks before a deal, and turns away who is banned; what a peer sells
\* turns out well or badly.
Pitched(s, n, peer, topic, outcome, heard) ==
    /\ Counted("deal") /\ n \in town.dealers
    /\ ~Sanctioned(peer) /\ ~ShouldRefuse(Recall(n, peer, topic, heard))
    /\ StartsLearning(s, n, peer, topic, outcome)
    /\ UNCHANGED <<town, facts, episodes, trust, polity, credit>>

Remembers(s, kept) ==
    LET t == task[s]
    IN  /\ Runs(s, "learn", "remember")
        /\ episodes' = IF "episode" \in kept THEN episodes \cup {[of |-> t.of, topic |-> t.topic]}
                       ELSE episodes
        /\ facts' = IF "belief" \in kept /\ t.outcome = "loss"
                    THEN facts \cup {[of |-> t.of, topic |-> t.topic, by |-> t.of]} ELSE facts
        /\ Goes(s, "get")
        /\ UNCHANGED <<town, trust, lived, polity, credit, used>>

\* update() of the ledger; without a delta, or when the store fails, nothing.
TrustGet(s, ok) ==
    /\ Runs(s, "learn", "get")
    /\ IF ok /\ Deltas[task[s].outcome] # 0
       THEN task' = [task EXCEPT ![s].pc = "set", ![s].seen = trust[task[s].of][task[s].peer]]
       ELSE Learned(s)
    /\ UNCHANGED <<town, memory, polity, credit, used>>

TrustSet(s, ok) ==
    LET t == task[s]
    IN  /\ Runs(s, "learn", "set")
        /\ trust' = IF ok THEN [trust EXCEPT ![t.of][t.peer] = Clamp(t.seen + Deltas[t.outcome])]
                    ELSE trust
        /\ Learned(s)
        /\ UNCHANGED <<town, facts, episodes, lived, polity, credit, used>>

\* reflect(), which learn() does not await: every episode becomes a belief of one's own, whatever its outcome.
Reflects(s, ok) ==
    LET n == task[s].of
    IN  /\ Runs(s, "learn", "reflect")
        /\ facts' = IF ok
                    THEN facts \cup {[of |-> n, topic |-> e.topic, by |-> n] :
                                     e \in {x \in episodes : x.of = n}}
                    ELSE facts
        /\ Ends(s)
        /\ UNCHANGED <<town, episodes, trust, lived, polity, credit, used>>

-----------------------------------------------------------------------------
\* diffuseWarning(): the source's own belief, the target's trust, the belief.

\* Faulty variant: what the source was told is enough.
WarnableOnHearsay(from, topic) == Discernment(from, topic)

Warnable(from, topic) == Faculty(from, topic)

Warn(s, from, to, topic) ==
    /\ Idle(s) /\ from # to
    /\ Warnable(from, topic)
    /\ Counted("warning")
    /\ task' = [task EXCEPT ![s] = [kind |-> "warn", pc |-> "trust", from |-> from, of |-> to,
                                    topic |-> topic]]
    /\ UNCHANGED <<town, memory, polity, credit>>

WarnHeard(s, ok) ==
    /\ Runs(s, "warn", "trust")
    /\ IF ok /\ trust[task[s].of][task[s].from] >= 0 THEN Goes(s, "implant") ELSE Ends(s)
    /\ UNCHANGED <<town, memory, polity, credit, used>>

WarnImplants(s, ok) ==
    LET t == task[s]
    IN  /\ Runs(s, "warn", "implant")
        /\ facts' = IF ok THEN facts \cup {[of |-> t.of, topic |-> t.topic, by |-> t.from]}
                    ELSE facts
        /\ Ends(s)
        /\ UNCHANGED <<town, episodes, trust, lived, polity, credit, used>>

-----------------------------------------------------------------------------
\* Polity: a proposal is the votes for it; enacting never shortens a ban.

Submit(proposer) == {proposer}
CastVote(ayes, voter, for) == IF for THEN ayes \cup {voter} ELSE ayes
Passes(ayes) == 100 * Cardinality(ayes \cap Members) >= Threshold * Len(Guild)
EnactSanction(target, until, ayes, topic, grounds) ==
    IF Passes(ayes)
    THEN /\ blacklist' = [blacklist EXCEPT ![target] = Max({@, until})]
         /\ decrees' = decrees \cup {[target |-> target, until |-> until, ayes |-> ayes,
                                      topic |-> topic, grounds |-> grounds]}
    ELSE UNCHANGED <<blacklist, decrees>>

VoteBeliefGated(n, target, topic, heard) ==
    LET signal == Recall(n, target, topic, heard)
    IN  signal.q \/ signal.trust < TrustFloor

\* runSanctionVote(): the proposer's own vote, the others' in the guild's
\* order, and with the last one the tally.
RoundOpens(s, proposer, target, topic, term, heard) ==
    /\ Idle(s)
    /\ Counted("round")
    /\ VoteBeliefGated(proposer, target, topic, heard)
    /\ task' = [task EXCEPT ![s] = [kind |-> "round", pc |-> "vote", proposer |-> proposer,
                                    target |-> target, topic |-> topic, until |-> day + term,
                                    ayes |-> Submit(proposer),
                                    left |-> SelectSeq(Guild, LAMBDA n : n # proposer)]]
    /\ UNCHANGED <<town, memory, polity, credit>>

MemberVotes(s, heard) ==
    LET r == task[s]
        n == Head(r.left)
        ayes == CastVote(r.ayes, n, VoteBeliefGated(n, r.target, r.topic, heard))
    IN  /\ Runs(s, "round", "vote") /\ r.left # <<>>
        /\ IF Len(r.left) > 1
           THEN /\ task' = [task EXCEPT ![s].ayes = ayes, ![s].left = Tail(@)]
                /\ UNCHANGED <<blacklist, decrees>>
           ELSE Ends(s) /\ EnactSanction(r.target, r.until, ayes, r.topic, "belief")
        /\ UNCHANGED <<town, memory, raps, credit, used>>

\* runRapSanction(): on the public record the whole guild votes for.
RapSanction(offender, term) ==
    /\ offender \in raps /\ Counted("rap")
    /\ EnactSanction(offender, day + term, Members, Misconduct(offender), "rap")
    /\ UNCHANGED <<town, memory, task, raps, credit>>

-----------------------------------------------------------------------------
\* recordMisconduct(): the public record, then what the victim learns.
RecordMisconduct(s, victim, offender) ==
    /\ raps' = raps \cup {offender}
    /\ StartsLearning(s, victim, offender, Misconduct(offender), "loss")
    /\ UNCHANGED <<town, facts, episodes, trust, blacklist, decrees>>

\* A crime that is detected; one that is not leaves no trail.
AttemptCrime(s, victim, offender) ==
    /\ Counted("crime") /\ victim \in town.dealers
    /\ RecordMisconduct(s, victim, offender)
    /\ UNCHANGED credit

Lend(lender, borrower) ==
    /\ Counted("loan") /\ lender \in town.dealers
    /\ loans' = loans \cup {[id |-> used.loan, lender |-> lender, borrower |-> borrower,
                             due |-> day + 1]}
    /\ UNCHANGED <<town, memory, task, polity, defaults, day, settled>>

\* settle() takes out every loan that is due, each against the same balance.
SettleLoans(balance) ==
    LET matured == {l \in loans : l.due <= day}
        paid == Min({Owed, balance})
    IN  /\ matured # {}
        /\ loans' = loans \ matured
        /\ settled' = settled \cup {[id |-> l.id, paid |-> paid] : l \in matured}
        /\ defaults' = defaults \cup (IF paid < Owed THEN matured ELSE {})
        /\ UNCHANGED <<town, memory, task, polity, day, used>>

\* external: the host records a default, and its clock.
DefaultRecorded(s, l) ==
    /\ defaults' = defaults \ {l}
    /\ RecordMisconduct(s, l.lender, l.borrower)
    /\ UNCHANGED <<loans, day, settled, used>>

DayPasses ==
    /\ day < MaxDay /\ day' = day + 1
    /\ UNCHANGED <<town, memory, task, polity, used, loans, defaults, settled>>

TaskNext(s) ==
    \/ \E n \in Members, p \in Peers, c \in Claims, out \in DOMAIN Deltas, heard \in SUBSET Services :
        Pitched(s, n, p, c, out, heard)
    \/ \E kept \in SUBSET {"episode", "belief"} : Remembers(s, kept)
    \/ \E ok \in BOOLEAN : TrustGet(s, ok) \/ TrustSet(s, ok) \/ Reflects(s, ok)
    \/ \E from, to \in Members, topic \in Topics : Warn(s, from, to, topic)
    \/ \E ok \in BOOLEAN : WarnHeard(s, ok) \/ WarnImplants(s, ok)
    \/ \E n \in Members, p \in Peers, c \in Topics, term \in Terms, heard \in SUBSET Services :
        RoundOpens(s, n, p, c, term, heard)
    \/ \E heard \in SUBSET Services : MemberVotes(s, heard)
    \/ \E n \in Members, p \in Peers : AttemptCrime(s, n, p)
    \/ \E l \in defaults : DefaultRecorded(s, l)

CognitionNext ==
    \/ \E s \in Tasks : TaskNext(s)
    \/ \E p \in Peers, term \in Terms : RapSanction(p, term)
    \/ \E n \in Members, p \in Peers : Lend(n, p)
    \/ \E balance \in Balances : SettleLoans(balance)
    \/ DayPasses

CognitionSpec == CognitionInit /\ [][CognitionNext]_cognitionVars

-----------------------------------------------------------------------------
\* What a member went through; a mind that reflects makes beliefs of good
\* deals too.
Felt(n, topic) ==
    \E e \in lived : e.of = n /\ e.topic = topic /\ (e.outcome = "loss" \/ town.reflects)
Wronged(n, peer) == \E e \in lived : e.of = n /\ e.peer = peer /\ e.outcome = "loss"
Informed(n, topic) ==
    \/ Felt(n, topic)
    \/ \E f \in facts : f.of = n /\ f.topic = topic /\ f.by # n /\ Felt(f.by, topic)

\* Nobody is banned on rumour: what is passed on was lived by who passes it on,
\* distrust comes from a loss, and behind a ban stands a public record, or the
\* share of the guild that it takes, each wronged by the peer or informed at
\* first hand, however votes, warnings and failing services interleave.  A ban
\* is never cut short, and a loan is settled once.
PolityKept ==
    /\ \A f \in facts : Felt(f.by, f.topic)
    /\ \A n \in Members, p \in Peers : trust[n][p] < 0 => Wronged(n, p)
    /\ \A d \in decrees :
        /\ blacklist[d.target] >= d.until
        /\ IF d.grounds = "rap" THEN \E n \in Members : Wronged(n, d.target)
           ELSE 100 * Cardinality({n \in Members : Informed(n, d.topic) \/ Wronged(n, d.target)})
                    >= Threshold * Len(Guild)
    /\ \A x, y \in settled : x.id = y.id => x = y
    /\ \A x \in settled, l \in loans : x.id # l.id
=============================================================================
