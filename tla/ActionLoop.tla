----------------------------- MODULE ActionLoop -----------------------------
(***************************************************************************)
(* The agent action loop of packages/gamekit: in its turn an NPC is shown  *)
(* the actions that are available (actions/registry.ts, builtins.ts), the  *)
(* model picks one (stf/action-oracle.ts), and the action's operations on  *)
(* the world run one after the other, on a context that was read before    *)
(* the model was asked.  Talks, pitches and changes of affinity are the    *)
(* jobs of SharedWorldSocial; the needs, the silver and the hunt are here. *)
(*                                                                         *)
(* The host awaits each turn, so that a method on silver or needs is one   *)
(* step (SharedWorldSilver splits them at their awaits); what a granary    *)
(* pays is any of TurnAmounts.                                             *)
(***************************************************************************)
EXTENDS SharedWorldSocial, Sums

CONSTANTS
    StartSilver,  \* [NPC -> silver at the start]
    Granary,      \* silver in the rice pool at the start
    MarketAt,     \* opts.marketRoom
    Satisfies,    \* needs.satisfy: [room -> the axes it refills]
    Wilds,        \* rooms with spawns
    Category,     \* [recharge, research, socialize -> the axes each claims]
    Low,          \* below it an axis is urgent
    Full,         \* 100
    Refill,       \* satisfyAmount
    Decay,        \* decayPerTick
    Costs,        \* [recharge, help, steal -> silver]
    Regards,      \* [socialize, help, steal, caught -> affinity]
    TurnAmounts,  \* numbers a model writes, and yields of a hunt
    Wishes,       \* arguments a model may give: [target, amount, side]
    Driven        \* NPCs the loop drives

Axes == UNION {Category[c] : c \in DOMAIN Category}
Everybody == Folk \cup Visitors

ASSUME TurnAssumption ==
    /\ Low <= Full /\ IsFiniteSet(Axes) /\ DOMAIN Category = {"recharge", "research", "socialize"}
    /\ IsFiniteSet(Visitors) /\ Nowhere \notin Everybody
    /\ StartSilver \in [Folk -> Nat] /\ Granary \in Nat
    /\ Costs \in [{"recharge", "help", "steal"} -> Nat] /\ TurnAmounts \subseteq Int
    /\ Wishes \subseteq [target : Everybody \cup {Nowhere}, amount : Int, side : {"buy", "sell"}]

VARIABLES
    purse,      \* silver of everybody
    granary,    \* silver reserve of the rice pool
    needs,      \* needs per NPC
    health,     \* hp per NPC: combat record
    acting,     \* the running turn, or NoTurn
    spent,      \* turns and ticks so far, at most shost.calls
    produced    \* history: silver that hunts brought in

actionVars == <<purse, granary, needs, health, acting, spent, produced>>

NoTurn == [pc |-> "idle", npc |-> Nowhere, ctx |-> <<>>, ops |-> <<>>, job |-> 0]

ActionInit ==
    /\ purse = [s \in Everybody |-> IF s \in Folk THEN StartSilver[s] ELSE 0]
    /\ granary = Granary
    /\ needs = [n \in Folk |-> [x \in Axes |-> Low]]
    /\ health = [n \in Folk |-> 1]
    /\ acting = NoTurn
    /\ spent = 0
    /\ produced = 0

(***************************************************************************)
(* The context and the menu.                                               *)
(***************************************************************************)
Present(n) == {o \in Folk \ {n} : whereabouts[o] = whereabouts[n]}

\* The first of some NPCs, in the order of their ids.
Foremost(S) == CHOOSE o \in S : \A p \in S : Rank(o) <= Rank(p)

\* buildActionContext(); an NPC with a queued directive is not asked.
BuildContext(n) ==
    /\ acting.pc = "idle" /\ spent < shost.calls
    /\ n \in Driven /\ inbox[n] = <<>>
    /\ acting' = [NoTurn EXCEPT !.pc = "choose", !.npc = n,
                  !.ctx = [npc |-> n, room |-> whereabouts[n], here |-> Present(n),
                           purse |-> purse, needs |-> needs[n]]]
    /\ spent' = spent + 1
    /\ UNCHANGED <<socialVars, purse, granary, needs, health, produced>>

\* claimable(): urgent, refilled here and of the action's category.
Claimable(ctx, id) == {x \in Category[id] \cap Satisfies[ctx.room] : ctx.needs[x] < Low}
Wealthy(ctx) == {o \in ctx.here : ctx.purse[o] > 0}

Available(ctx) ==
    LET company == ctx.here # {}
        means == ctx.purse[ctx.npc] > 0
    IN  {"move"}
        \cup {id \in {"say", "pitch"} : company}
        \cup {id \in {"give", "help"} : company /\ means}
        \cup {id \in {"trade"} : means /\ ctx.room = MarketAt}
        \cup {id \in {"recharge", "research"} : Claimable(ctx, id) # {}}
        \cup {id \in {"socialize"} : company /\ Claimable(ctx, id) # {}}
        \cup {id \in {"steal"} : Wealthy(ctx) # {}}
        \cup {id \in {"hunt"} : ctx.room \in Wilds /\ \E x \in Axes : ctx.needs[x] < Low}

(***************************************************************************)
(* resolve(): the operations an action asks for, from the context alone.   *)
(***************************************************************************)
Op(kind, a, b, n) == [kind |-> kind, a |-> a, b |-> b, n |-> n]

Target(ctx, wish) ==
    IF wish.target # Nowhere THEN wish.target
    ELSE IF ctx.here # {} THEN Foremost(ctx.here) ELSE Nowhere

Refills(ctx, id) == SetToSeq({Op("satisfy", ctx.npc, x, Refill) : x \in Claimable(ctx, id)})

\* The named victim if it is here and has silver, else the first who has.
Victim(ctx, wish) ==
    IF wish.target \in Wealthy(ctx) THEN wish.target ELSE Foremost(Wealthy(ctx))

Paid(from, to, n) == IF n > 0 /\ to # Nowhere THEN <<Op("transfer", from, to, n)>> ELSE <<>>

\* To keep oneself: recharge, research, socialize, help, steal, hunt.
Upkeep(ctx, id, wish) ==
    LET me == ctx.npc
        other == Target(ctx, wish)
        keeper == IF ctx.here = {} THEN Nowhere ELSE Foremost(ctx.here)
    IN  CASE id = "research" -> {Refills(ctx, id)}
          [] id = "recharge" ->
                 {Refills(ctx, id) \o Paid(me, keeper, Min({Costs.recharge, ctx.purse[me]}))}
          [] id = "socialize" -> {Refills(ctx, id) \o <<Op("adjust", me, other, Regards.socialize)>>}
          [] id = "help" ->
                 {Paid(me, other, Min({wish.amount, ctx.purse[me]}))
                  \o <<Op("adjust", me, other, Regards.help), Op("adjust", other, me, Regards.help)>>}
          [] id = "steal" ->
                 LET v == Victim(ctx, wish)
                 IN  {<<Op("transfer", v, me, Min({Costs.steal, ctx.purse[v]})),
                        Op("theft", v, me, -(Regards.steal + caught))>> : caught \in {0, Regards.caught}}
          [] OTHER -> {<<Op("hunt", me, me, 0)>>}

Resolve(ctx, id, wish) ==
    LET me == ctx.npc
        other == Target(ctx, wish)
    IN  CASE id = "move" -> {<<Op("goto", me, r, 0)>> : r \in DOMAIN Satisfies}
          [] id = "say" -> {<<>>, <<Op("talk", me, other, 0)>>}
          [] id = "pitch" -> {<<Op("pitch", other, me, wish.amount)>>}
          [] id = "give" -> {Paid(me, other, wish.amount)}
          [] id = "trade" -> {<<Op(wish.side, me, me, wish.amount)>>}
          [] OTHER -> Upkeep(ctx, id, wish)

\* The choice; parseActionChoice() turns anything unknown into a mute say, or
\* into a move to nowhere when nobody is here: no operation.
Choose ==
    /\ acting.pc = "choose"
    /\ \/ acting' = [acting EXCEPT !.pc = "act"]
       \/ \E id \in Available(acting.ctx), wish \in Wishes :
              \E ops \in Resolve(acting.ctx, id, wish) :
                  acting' = [acting EXCEPT !.pc = "act", !.ops = ops]
    /\ UNCHANGED <<socialVars, purse, granary, needs, health, spent, produced>>

(***************************************************************************)
(* The operations.                                                         *)
(***************************************************************************)
Current == Head(acting.ops)
Doing(kind) == acting.pc = "act" /\ acting.job = 0 /\ acting.ops # <<>> /\ Current.kind = kind
Done == acting' = [acting EXCEPT !.ops = Tail(@)]

DoGoto ==
    /\ Doing("goto")
    /\ inbox' = [inbox EXCEPT ![Current.a] = PushGoto(@, Current.b)]
    /\ Done
    /\ UNCHANGED <<shost, minted, whereabouts, rel, relIndex, sgcc, beliefs, jobs, felt, losses>>
    /\ UNCHANGED <<purse, granary, needs, health, spent, produced>>

DoSatisfy ==
    /\ Doing("satisfy")
    /\ needs' = [needs EXCEPT ![Current.a][Current.b] = Min({Full, @ + Current.n})]
    /\ Done
    /\ UNCHANGED <<socialVars, purse, granary, health, spent, produced>>

\* addSilver() never goes below zero.
AddSilver(s, n, delta) == [s EXCEPT ![n] = Max({0, @ + delta})]

\* Faulty variant: the receiver is given what was asked for.
DoTransferAsked ==
    /\ Doing("transfer")
    /\ purse' = IF Current.a = Current.b THEN purse
                ELSE AddSilver(AddSilver(purse, Current.a, -Current.n), Current.b, Current.n)
    /\ Done
    /\ UNCHANGED <<socialVars, granary, needs, health, spent, produced>>

\* transferSilver(): clamped to what the sender has by now; not to oneself.
DoTransfer ==
    /\ Doing("transfer")
    /\ LET moved == Min({Current.n, purse[Current.a]})
       IN  purse' = IF Current.a = Current.b THEN purse
                    ELSE AddSilver(AddSilver(purse, Current.a, -moved), Current.b, moved)
    /\ Done
    /\ UNCHANGED <<socialVars, granary, needs, health, spent, produced>>

\* tradeRice(): rejected when the NPC cannot pay or has nothing to sell.
DoTrade ==
    /\ Doing("buy") \/ Doing("sell")
    /\ \/ UNCHANGED <<purse, granary>>
       \/ /\ Current.kind = "buy" /\ 0 < Current.n /\ Current.n <= purse[Current.a]
          /\ purse' = AddSilver(purse, Current.a, -Current.n)
          /\ granary' = granary + Current.n
       \/ /\ Current.kind = "sell" /\ 0 < Current.n
          /\ \E out \in TurnAmounts :
                 /\ 0 < out /\ out < granary
                 /\ purse' = AddSilver(purse, Current.a, out)
                 /\ granary' = granary - out
    /\ Done
    /\ UNCHANGED <<socialVars, needs, health, spent, produced>>

\* hunt(): the duel may cost health; a win brings silver and food.
DoHunt ==
    /\ Doing("hunt")
    /\ \/ whereabouts[Current.a] \notin Wilds /\ UNCHANGED <<purse, needs, health, produced>>
       \/ /\ whereabouts[Current.a] \in Wilds
          /\ \E hp \in 0..health[Current.a] : health' = [health EXCEPT ![Current.a] = hp]
          /\ UNCHANGED <<purse, needs, produced>>
       \/ /\ whereabouts[Current.a] \in Wilds /\ health[Current.a] > 0
          /\ \E silver \in TurnAmounts :
                 /\ purse' = AddSilver(purse, Current.a, Max({0, silver}))
                 /\ produced' = produced + Max({0, silver})
          /\ \E x \in Axes : needs' = [needs EXCEPT ![Current.a][x] = Min({Full, @ + Refill})]
          /\ UNCHANGED health
    /\ Done
    /\ UNCHANGED <<socialVars, granary, spent>>

\* talk(), pitch(), adjustAffinity() and rememberTheft() are awaited.
DoCall ==
    /\ \E kind \in {"talk", "pitch", "adjust", "theft"} : Doing(kind)
    /\ Current.kind \in {"talk", "pitch"} => Current.a \in Folk
    /\ Current.kind = "adjust" => Current.a # Current.b
    /\ Launch(Current.kind, Current.a, Current.b, Current.n)
    /\ acting' = [acting EXCEPT !.job = Len(jobs) + 1]
    /\ UNCHANGED <<purse, granary, needs, health, spent, produced>>

\* Nobody's regard for himself changes; a call on somebody without a record
\* throws, and the turn is over.
NoCall ==
    /\ \/ Doing("adjust") /\ Current.a = Current.b /\ Done
       \/ /\ Doing("talk") \/ Doing("pitch")
          /\ Current.a \notin Folk
          /\ acting' = [acting EXCEPT !.ops = <<>>]
    /\ UNCHANGED <<socialVars, purse, granary, needs, health, spent, produced>>

EndCall ==
    /\ acting.job # 0 /\ acting.job \notin Running
    /\ acting' = [acting EXCEPT !.ops = Tail(@), !.job = 0]
    /\ UNCHANGED <<socialVars, purse, granary, needs, health, spent, produced>>

EndTurn ==
    /\ acting.pc = "act" /\ acting.ops = <<>>
    /\ acting' = NoTurn
    /\ UNCHANGED <<socialVars, purse, granary, needs, health, spent, produced>>

\* decayNeeds(), and then satisfy() for what the room offers.
Decayed(level) == Max({0, level - Decay})
Eased(level) == Min({Full, level + Decay})

\* tickNeeds() between turns: every axis decays, the room refills some.
TickNeeds(n) ==
    /\ acting.pc = "idle" /\ spent < shost.calls
    /\ needs' = [needs EXCEPT ![n] =
                   [x \in Axes |-> IF x \in Satisfies[whereabouts[n]] THEN Eased(Decayed(@[x]))
                                                                    ELSE Decayed(@[x])]]
    /\ spent' = spent + 1
    /\ UNCHANGED <<socialVars, purse, granary, health, acting, produced>>

ActionNext ==
    \/ \E n \in Folk : BuildContext(n) \/ TickNeeds(n)
    \/ Choose \/ DoGoto \/ DoSatisfy \/ DoTransfer \/ DoTrade \/ DoHunt \/ DoCall
    \/ NoCall \/ EndCall \/ EndTurn

\* Turns, among whatever else goes on between the NPCs.
ActionSpec ==
    /\ SocialInit /\ ActionInit
    /\ [][ActionNext \/ (SocialNext /\ UNCHANGED actionVars)]_<<socialVars, actionVars>>

(***************************************************************************)
(* Properties.                                                             *)
(***************************************************************************)
\* Whatever numbers and names the model writes, and however stale the context
\* an action was resolved from, turns make no silver: what is in the purses and
\* the granary is what there was at the start and what hunts brought in.
SilverAccounted ==
    SumOf(purse, Everybody) + granary = SumOf(StartSilver, Folk) + Granary + produced
=============================================================================
