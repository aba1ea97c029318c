---------------------------- MODULE PlanExecutor ----------------------------
(***************************************************************************)
(* An NPC walks through its plan (packages/gamekit/src/plan-executor.ts),  *)
(* pre-empted by the goto directives of SharedWorld's inbox.  runTick() is *)
(* one step per await: load the plan, read the NPC, read the roster, then  *)
(* place it or talk.  The host awaits a tick before it starts the next, as *)
(* plan-executor.smoke.ts does; meanwhile directives arrive, others walk   *)
(* about, the plan changes and the host reloads it.                        *)
(*                                                                         *)
(* The text of a step is abstracted to what the three tables make of it:   *)
(* the persons it names, longest name first, and the room of its alias.    *)
(* A step is identified with its text.                                     *)
(***************************************************************************)
EXTENDS Naturals, FiniteSets, Sequences, SequencesExt, Functions

CONSTANTS
    Me,           \* npcId of the executor
    Others,       \* the NPCs it may meet
    Rooms, Graphs,  \* roomGraph: one of Graphs, each in [Rooms -> Seq(Rooms)]
    Directives,   \* texts of goto directives
    PlanTexts,    \* texts of plan steps
    Named,        \* text -> sequence of Others it names
    Alias,        \* text -> room whose alias it contains, or Nowhere
    Plans,        \* what planSteps() may return, sequences of PlanTexts
    Nowhere,      \* no room: an NPC without record, no alias, no hop
    None,         \* no step
    Starts,       \* where the NPCs are at first, in [Npcs -> Rooms or Nowhere]
    MaxEvents     \* bound: directives, wanderings, reloads and rejections

\* Directives and plan steps are told apart; nobody and nowhere are not values.
ASSUME TextsAssumption ==
    /\ Directives \cap PlanTexts = {} /\ None \notin Directives \cup PlanTexts
    /\ Named \in [Directives \cup PlanTexts -> Seq(Others)]
    /\ Alias \in [Directives \cup PlanTexts -> Rooms \cup {Nowhere}]
    /\ \A steps \in Plans : steps \in Seq(PlanTexts)
ASSUME TownAssumption ==
    /\ Me \notin Others /\ Nowhere \notin Rooms /\ IsFiniteSet(Rooms)
    /\ Graphs \subseteq [Rooms -> Seq(Rooms)]
    /\ Starts \subseteq [Others \cup {Me} -> Rooms \cup {Nowhere}]

Texts == Directives \cup PlanTexts
Unloaded == <<None>>      \* the queue is null

VARIABLES
    graph,      \* the room graph this executor was given
    queue,      \* PlanExecutor.queue
    current,    \* PlanExecutor.current
    inbox,      \* SharedWorld.gotoInbox of Me
    where,      \* npc -> room of its record
    plan,       \* the plan units in memory
    tick,       \* the runTick() in progress, or Resting
    answer,     \* kind of the last answer of runTick()
    owed,       \* history: text -> steps handed over and not ended
    consulted,  \* history: the plan was asked for, or steps were injected
    events      \* directives, wanderings, reloads and rejections so far

planVars == <<graph, queue, current, inbox, where, plan, tick, answer, owed,
              consulted, events>>

Npcs == Others \cup {Me}
Resting == [pc |-> "resting"]
Kinds == {"none", "idle", "move", "talk", "arrive", "skip", "throw"}

Occurs(t, s) == Cardinality({i \in DOMAIN s : s[i] = t})
Queued == IF queue = Unloaded THEN <<>> ELSE queue
Line == (IF current = None THEN <<>> ELSE <<current>>) \o Queued

TypeOK ==
    /\ graph \in Graphs
    /\ queue = Unloaded \/ queue \in Seq(Texts)
    /\ current \in Texts \cup {None}
    /\ inbox \in Seq(Directives)
    /\ where \in [Npcs -> Rooms \cup {Nowhere}]
    /\ plan \in Plans
    /\ \/ tick = Resting
       \/ tick \in [pc : {"load", "me"}]
       \/ tick \in [pc : {"roster"}, room : Rooms]
       \/ tick \in [pc : {"place"}, room : Rooms, hop : Rooms, goal : Rooms]
       \/ tick \in [pc : {"talk"}, target : Others]
    /\ answer \in Kinds
    /\ owed \in [Texts -> Nat]
    /\ consulted \in BOOLEAN

PlanInit ==
    /\ graph \in Graphs
    /\ plan \in Plans
    /\ queue \in Plans \cup {Unloaded}
    /\ current = None
    /\ inbox = <<>>
    /\ where \in Starts
    /\ tick = Resting
    /\ answer = "none"
    /\ owed = [t \in Texts |-> Occurs(t, Queued)]
    /\ consulted = (queue # Unloaded)
    /\ events = 0

Event ==
    /\ events < MaxEvents
    /\ events' = events + 1

(***************************************************************************)
(* nextHop(): breadth-first search over the adjacency lists.  prev holds   *)
(* the predecessor of every room seen, as in the code; each room is left   *)
(* at most once.                                                           *)
(***************************************************************************)
\* Faulty variant: the rooms still to visit are kept on a stack.
MeetStacked(s, cur, r) ==
    IF r \in DOMAIN s.prev THEN s
    ELSE [q |-> <<r>> \o s.q,
          prev |-> [x \in DOMAIN s.prev \cup {r} |-> IF x = r THEN cur ELSE s.prev[x]]]

Meet(s, cur, r) ==
    IF r \in DOMAIN s.prev THEN s
    ELSE [q |-> Append(s.q, r),
          prev |-> [x \in DOMAIN s.prev \cup {r} |-> IF x = r THEN cur ELSE s.prev[x]]]

\* The room in front is left, and meets its neighbours in turn.
Visit(g, s) ==
    LET cur == Head(s.q)
        met[i \in 0..Len(g[cur])] ==
            IF i = 0 THEN [q |-> Tail(s.q), prev |-> s.prev]
            ELSE Meet(met[i - 1], cur, g[cur][i])
    IN  met[Len(g[cur])]

Outset(from) == [q |-> <<from>>, prev |-> [r \in {from} |-> Nowhere]]

\* The search ends when nobody is left to visit, or the target has been met.
SearchOn(g, s, to) ==
    IF s.q = <<>> \/ to \in DOMAIN s.prev THEN s ELSE Visit(g, s)

Search(g, from, to) ==
    LET search[n \in 0..Cardinality(Rooms)] ==
            IF n = 0 THEN Outset(from) ELSE SearchOn(g, search[n - 1], to)
    IN  search[Cardinality(Rooms)]

StepBack(prev, from, hop) == IF prev[hop] = from THEN hop ELSE prev[hop]

WalkBack(prev, from, to) ==
    LET back[n \in 0..Cardinality(Rooms)] ==
            IF n = 0 THEN to ELSE StepBack(prev, from, back[n - 1])
    IN  back[Cardinality(Rooms)]

NextHop(g, from, to) ==
    LET prev == Search(g, from, to).prev
    IN  IF from = to \/ to \notin DOMAIN prev THEN Nowhere
        ELSE WalkBack(prev, from, to)

\* Its table for the graphs, which TLC works out once.
Hops == [g \in Graphs |-> [from \in Rooms |-> [to \in Rooms |-> NextHop(g, from, to)]]]

(***************************************************************************)
(* runTick()                                                               *)
(***************************************************************************)
\* Faulty variant: the half-done step is not put back.
PreemptedDropping ==
    IF inbox = <<>> THEN [queue |-> queue, current |-> current]
    ELSE [queue |-> inbox \o Queued, current |-> None]

\* Faulty variant: directives wait behind the standing plan.
PreemptedBehind ==
    IF inbox = <<>> THEN [queue |-> queue, current |-> current]
    ELSE [queue |-> Line \o inbox, current |-> None]

\* The queue after the inbox was drained into it, the half-done step behind
\* the directives.
Preempted ==
    IF inbox = <<>> THEN [queue |-> queue, current |-> current]
    ELSE [queue |-> inbox \o Line, current |-> None]

Handed(old, s) == [t \in Texts |-> old[t] + Occurs(t, s)]

\* Take up the next step unless there is a current one; without any, idle.
ShiftOrIdle(q, c) ==
    LET shifts == c = None /\ q # <<>>
    IN  /\ queue' = IF shifts THEN Tail(q) ELSE q
        /\ current' = IF shifts THEN Head(q) ELSE c
        /\ tick' = IF current' = None THEN Resting ELSE [pc |-> "me"]
        /\ answer' = IF current' = None THEN "idle" ELSE answer

\* The code before the first await.
BeginTick ==
    /\ tick = Resting
    /\ inbox' = <<>>
    /\ owed' = Handed(owed, inbox)
    /\ IF Preempted = [queue |-> Unloaded, current |-> None]
       THEN tick' = [pc |-> "load"] /\ UNCHANGED <<queue, current, answer>>
       ELSE ShiftOrIdle(Preempted.queue, Preempted.current)
    /\ UNCHANGED <<graph, where, plan, consulted, events>>

\* planSteps() answers the plan, or nothing when the memory fails.
PlanSteps == {plan, <<>>}

\* owed when the queue is replaced.
Replaced(steps) ==
    [t \in Texts |-> (owed[t] + Occurs(t, steps)) - Occurs(t, Queued)]

LoadThenShift ==
    /\ tick.pc = "load"
    /\ \E steps \in PlanSteps :
        owed' = Replaced(steps) /\ ShiftOrIdle(steps, None)
    /\ consulted' = TRUE
    /\ UNCHANGED <<graph, inbox, where, plan, events>>

\* The tick is over and its step is done with.
EndStep(kind) ==
    /\ current' = None
    /\ owed' = [owed EXCEPT ![current] = @ - 1]
    /\ tick' = Resting
    /\ answer' = kind

\* Faulty variant: an NPC without record keeps its step.
ReadMeWaiting ==
    /\ tick.pc = "me"
    /\ tick' = IF where[Me] = Nowhere THEN Resting
               ELSE [pc |-> "roster", room |-> where[Me]]
    /\ UNCHANGED <<graph, queue, current, inbox, where, plan, answer, owed,
                   consulted, events>>

ReadMe ==
    /\ tick.pc = "me"
    /\ IF where[Me] = Nowhere THEN EndStep("skip")
       ELSE /\ tick' = [pc |-> "roster", room |-> where[Me]]
            /\ UNCHANGED <<current, owed, answer>>
    /\ UNCHANGED <<graph, queue, inbox, where, plan, consulted, events>>

Listed == {o \in Others : where[o] # Nowhere}

\* The first that a text names and the roster has, if any.
Person(t) ==
    {o \in Listed : \E i \in DOMAIN Named[t] :
        Named[t][i] = o /\ \A j \in 1..(i - 1) : Named[t][j] \notin Listed}

TargetRoom(t) ==
    IF Person(t) = {} THEN Alias[t] ELSE where[CHOOSE o \in Person(t) : TRUE]

\* The person the step names, else anyone who is here.
Partners(t, room) ==
    IF Person(t) # {} THEN Person(t)
    ELSE {o \in Listed : where[o] = room}

ReadRoster ==
    /\ tick.pc = "roster"
    /\ LET goal == TargetRoom(current)
           hop == Hops[graph][tick.room][goal]
       IN  \/ /\ goal = Nowhere
              /\ EndStep("skip")
           \/ /\ goal \notin {Nowhere, tick.room} /\ hop = Nowhere
              /\ EndStep("skip")
           \/ /\ goal \notin {Nowhere, tick.room} /\ hop # Nowhere
              /\ tick' = [pc |-> "place", room |-> tick.room, hop |-> hop,
                          goal |-> goal]
              /\ UNCHANGED <<current, owed, answer>>
           \/ /\ goal = tick.room /\ Partners(current, goal) = {}
              /\ EndStep("arrive")
           \/ /\ goal = tick.room
              /\ \E o \in Partners(current, goal) :
                    tick' = [pc |-> "talk", target |-> o]
              /\ UNCHANGED <<current, owed, answer>>
    /\ UNCHANGED <<graph, queue, inbox, where, plan, consulted, events>>

\* place() and the answer "move"; the step stays current.
Place ==
    /\ tick.pc = "place"
    /\ where' = [where EXCEPT ![Me] = tick.hop]
    /\ tick' = Resting
    /\ answer' = "move"
    /\ UNCHANGED <<graph, queue, current, inbox, plan, owed, consulted, events>>

Talk ==
    /\ tick.pc = "talk"
    /\ EndStep("talk")
    /\ UNCHANGED <<graph, queue, inbox, where, plan, consulted, events>>

\* A store or model call rejects: so does runTick(), and the step stays.
\* planSteps() does not reject.
Throw ==
    /\ tick.pc \in {"me", "roster", "place", "talk"}
    /\ Event
    /\ tick' = Resting
    /\ answer' = "throw"
    /\ UNCHANGED <<graph, queue, current, inbox, where, plan, owed, consulted>>

(***************************************************************************)
(* Everyone else                                                           *)
(***************************************************************************)
\* pushGoto(): a directive equal to the last one waiting is dropped.
PushGoto(d) ==
    /\ Event
    /\ inbox' = IF inbox # <<>> /\ Last(inbox) = d THEN inbox
                ELSE Append(inbox, d)
    /\ UNCHANGED <<graph, queue, current, where, plan, tick, answer, owed,
                   consulted>>

\* The host calls loadFromMemory(), after a dream for example: the queue is
\* replaced, the current step is not.
Reload ==
    /\ Event
    /\ \E p \in Plans : plan' = p
    /\ \E steps \in {plan', <<>>} : queue' = steps /\ owed' = Replaced(steps)
    /\ consulted' = TRUE
    /\ UNCHANGED <<graph, current, inbox, where, tick, answer>>

\* An NPC is placed by the host or by its own executor.
Wander(o) ==
    /\ Event
    /\ \E r \in Rooms \ {where[o]} : where' = [where EXCEPT ![o] = r]
    /\ UNCHANGED <<graph, queue, current, inbox, plan, tick, answer, owed,
                   consulted>>

TickStep == LoadThenShift \/ ReadMe \/ ReadRoster \/ Place \/ Talk

PlanNext ==
    \/ BeginTick
    \/ TickStep
    \/ Throw
    \/ \E d \in Directives : PushGoto(d)
    \/ Reload
    \/ \E o \in Others : Wander(o)

PlanSpec == PlanInit /\ [][PlanNext]_planVars

\* The host keeps ticking and awaited calls come back.
FairPlanSpec ==
    /\ PlanSpec
    /\ WF_planVars(BeginTick)
    /\ WF_planVars(TickStep)

(***************************************************************************)
(* Properties                                                              *)
(***************************************************************************)
\* No step is lost or done twice: what was handed to the executor and has
\* not been ended by a tick, nor withdrawn by a reload, is in its line, under
\* pre-emption, reloads in mid-tick and rejected ticks (runTick); the state is
\* well typed throughout.
StepsKept == TypeOK /\ \A t \in Texts : owed[t] = Occurs(t, Line)

\* A directive leads: no plan step stands before one, nor is the half-done
\* step of the plan resumed first (the pre-emption in runTick).
DirectivesLead ==
    \A i, j \in DOMAIN Line :
        i < j /\ Line[i] \in PlanTexts => Line[j] \notin Directives

\* Reference definition: rooms from which "to" is n hops away or nearer.
Wider(rooms) == rooms \cup {r \in Rooms : Range(graph[r]) \cap rooms # {}}
Around(to, n) ==
    LET near[k \in 0..(Cardinality(Rooms) + 1)] ==
            IF k = 0 THEN {to} ELSE Wider(near[k - 1])
    IN  near[n]

\* The executor walks: each tick moves the NPC along one edge of the graph,
\* by a shortest path to the room where the roster showed its target
\* (nextHop, place), even if the target has left since.
WalksShortestPath ==
    [][where'[Me] # where[Me] =>
        /\ where'[Me] \in Range(graph[where[Me]])
        /\ \A n \in 0..Cardinality(Rooms) :
            where[Me] \in Around(tick.goal, n+1) => where'[Me] \in Around(tick.goal, n)
      ]_planVars

\* "The model can never wedge it": whatever a step says, once others stay
\* put and calls come back, ticks end it - by talking, arriving or skipping
\* (runTick).
EveryStepEnds == \A t \in Texts : owed[t] > 0 ~> owed[t] = 0

\* An executor without injected steps answers "idle" only once it has asked
\* planSteps() (PlanExecutorOptions.steps; runTick).
PlanConsulted == answer = "idle" => consulted
=============================================================================
