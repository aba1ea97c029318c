------------------------ MODULE SharedWorldGccProofs ------------------------
(***************************************************************************)
(* Theorems about SharedWorldGcc, for any NPCs, calls, amounts and         *)
(* thresholds: the layer conserves GCC whatever the host does, and a host  *)
(* that runs one call per NPC at a time gets sound accounts whose entries  *)
(* are atomic.                                                             *)
(***************************************************************************)
EXTENDS SharedWorldGcc, SumTheorems

\* What the host is relied upon for.
HostKeeps == UniqueIds /\ KnownNpcs /\ OneCallPerNpc

(***************************************************************************)
(* Types.  A call that runs has an NPC; that custody never goes below zero *)
(* is the conservation of the layer.                                       *)
(***************************************************************************)
Busy(c) == call[c].pc # "idle"

Typed ==
    /\ TypeOK
    /\ \A c \in Calls : Busy(c) => Mine(c) \in Npcs
    /\ LayerConserves

\* A call's state, with or without an NPC.
CallState == [pc: Pcs, npc: Npcs \cup {None}, amount: Nat, seen: Nat,
              reg: SUBSET Npcs, activating: BOOLEAN]

LEMMA BalanceType ==
    ASSUME Typed, NEW n \in Npcs
    PROVE  Balance(n) \in Nat
BY DEF Typed, TypeOK, Balance

LEMMA NotNegativeType ==
    ASSUME NEW x \in Int
    PROVE  NotNegative(x) \in Nat
BY DEF NotNegative

\* c moves to the state s, the other calls stay.
Moves(c, s) ==
    /\ call' \in [Calls -> CallState]
    /\ call'[c] = s
    /\ \A d \in Calls \ {c} : call'[d] = call[d]

LEMMA EnterMoves ==
    ASSUME Typed, NEW c \in Calls, NEW n \in Npcs, NEW amount \in Nat,
           NEW pc \in Pcs, Enter(c, n, amount, pc)
    PROVE  Moves(c, [pc |-> pc, npc |-> n, amount |-> amount, seen |-> Balance(n),
                     reg |-> {}, activating |-> pc = "activator"])
<1> DEFINE s == [pc |-> pc, npc |-> n, amount |-> amount, seen |-> Balance(n),
                 reg |-> {}, activating |-> pc = "activator"]
<1>1. call \in [Calls -> CallState]
  BY DEF Typed, TypeOK, CallState
<1>2. s \in CallState
  <2>1. Balance(n) \in Nat /\ {} \in SUBSET Npcs
    BY BalanceType
  <2>2. QED
    BY <2>1 DEF CallState
<1>3. call' = [call EXCEPT ![c] = s]
  BY DEF Enter
<1> HIDE DEF s
<1>4. Moves(c, s)
  BY <1>1, <1>2, <1>3 DEF Moves
<1>5. QED
  BY <1>4 DEF s

LEMMA ReturnMoves ==
    ASSUME Typed, NEW c \in Calls, Return(c)
    PROVE  Moves(c, IdleCall)
<1>1. call \in [Calls -> CallState]
  BY DEF Typed, TypeOK, CallState
<1>2. IdleCall \in CallState
  BY DEF IdleCall, CallState, Pcs
<1>3. QED
  BY <1>1, <1>2 DEF Return, Moves

LEMMA GotoMoves ==
    ASSUME Typed, NEW c \in Calls, NEW pc \in Pcs, Goto(c, pc)
    PROVE  Moves(c, [pc |-> pc, npc |-> Mine(c), amount |-> call[c].amount,
                     seen |-> call[c].seen, reg |-> call[c].reg,
                     activating |-> call[c].activating])
<1>1. call \in [Calls -> CallState] /\ call[c] \in CallState
  BY DEF Typed, TypeOK, CallState
<1>2. call' = [call EXCEPT ![c] = [call[c] EXCEPT !.pc = pc]]
  BY <1>1 DEF Goto
<1>3. /\ [call[c] EXCEPT !.pc = pc] \in CallState
      /\ [call[c] EXCEPT !.pc = pc] =
             [pc |-> pc, npc |-> Mine(c), amount |-> call[c].amount,
              seen |-> call[c].seen, reg |-> call[c].reg,
              activating |-> call[c].activating]
  BY <1>1 DEF CallState, Mine
<1>4. QED
  BY <1>1, <1>2, <1>3 DEF Moves

LEMMA ReadMoves ==
    ASSUME Typed, NEW c \in Calls, ReadRegistry(c)
    PROVE  Moves(c, [pc |-> "writeRegistry", npc |-> Mine(c), amount |-> call[c].amount,
                     seen |-> call[c].seen, reg |-> registry,
                     activating |-> call[c].activating])
<1>1. call \in [Calls -> CallState] /\ call[c] \in CallState /\ registry \in SUBSET Npcs
  BY DEF Typed, TypeOK, CallState
<1>2. PICK m : m = [call[c] EXCEPT !.pc = "writeRegistry"]
  OBVIOUS
<1>3. /\ m \in CallState
      /\ m = [pc |-> "writeRegistry", npc |-> Mine(c), amount |-> call[c].amount,
              seen |-> call[c].seen, reg |-> call[c].reg,
              activating |-> call[c].activating]
  BY <1>1, <1>2 DEF CallState, Mine, Pcs
<1>4. PICK s : s = [m EXCEPT !.reg = registry]
  OBVIOUS
<1>5. /\ s \in CallState
      /\ s = [pc |-> "writeRegistry", npc |-> Mine(c), amount |-> call[c].amount,
              seen |-> call[c].seen, reg |-> registry,
              activating |-> call[c].activating]
  BY <1>1, <1>3, <1>4 DEF CallState
<1>6. call' = [call EXCEPT ![c] = s]
  BY <1>1, <1>2, <1>4 DEF ReadRegistry
<1>7. QED
  BY <1>1, <1>5, <1>6 DEF Moves

LEMMA LayerKeeps ==
    ASSUME Typed, NEW n \in Npcs, NEW amount \in Nat,
           LayerDeposit(n, amount) \/ LayerWithdraw(n, amount) \/ UNCHANGED layerVars
    PROVE  domain' \in [Npcs -> Nat] /\ custody' \in Nat /\ LayerConserves'
<1>1. /\ domain \in [Npcs -> Nat] /\ custody \in Nat /\ custody = SumOf(domain, Npcs)
      /\ IsFiniteSet(Npcs)
  BY GccAssumption DEF Typed, TypeOK, LayerConserves
<1>2. CASE UNCHANGED layerVars
  BY <1>1, <1>2 DEF layerVars, LayerConserves
<1>3. ASSUME NEW x \in Int, domain[n] + x \in Nat,
             domain' = [domain EXCEPT ![n] = domain[n] + x], custody' = custody + x
      PROVE  domain' \in [Npcs -> Nat] /\ custody' \in Nat /\ LayerConserves'
  <2>1. domain' \in [Npcs -> Nat] /\ domain'[n] = domain[n] + x
    BY <1>1, <1>3
  <2>2. \A m \in Npcs \ {n} : domain[m] = domain'[m]
    BY <1>1, <1>3
  <2>3. SumOf(domain', Npcs) + domain[n] = SumOf(domain, Npcs) + domain'[n]
    BY <1>1, <2>1, <2>2, SumUpdate
  <2>4. SumOf(domain', Npcs) \in Nat
    BY <1>1, <2>1, SumType
  <2>5. custody' = SumOf(domain', Npcs)
    BY <1>1, <1>3, <2>1, <2>3, <2>4
  <2>6. QED
    BY <2>1, <2>4, <2>5 DEF LayerConserves
<1>4. CASE LayerDeposit(n, amount)
  <2>1. /\ domain' = [domain EXCEPT ![n] = domain[n] + amount]
        /\ custody' = custody + amount
    BY <1>1, <1>4 DEF LayerDeposit
  <2>2. domain[n] + amount \in Nat /\ amount \in Int
    BY <1>1
  <2>3. QED
    BY <1>3, <2>1, <2>2
<1>5. CASE LayerWithdraw(n, amount) /\ amount <= domain[n]
  <2>1. domain' = [domain EXCEPT ![n] = domain[n] - amount] /\ custody' = custody - amount
    BY <1>1, <1>5 DEF LayerWithdraw
  <2>2. /\ domain[n] - amount = domain[n] + (- amount)
        /\ custody - amount = custody + (- amount)
        /\ domain[n] + (- amount) \in Nat /\ - amount \in Int
    BY <1>1, <1>5
  <2>3. QED
    BY <1>3, <2>1, <2>2
<1>6. QED
  BY <1>2, <1>4, <1>5 DEF LayerWithdraw

LEMMA TypedInit == Init => Typed
<1> SUFFICES ASSUME Init PROVE Typed
  OBVIOUS
<1>1. IdleCall \in CallState
  BY DEF IdleCall, CallState, Pcs
<1>2. call \in [Calls -> CallState]
  BY <1>1 DEF Init
<1>3. Units(domain, Npcs) = {}
  BY DEF Init, Units
<1>4. LayerConserves
  BY <1>3, FS_EmptySet DEF Init, LayerConserves, SumOf
<1>5. QED
  BY <1>2, <1>4 DEF Init, Typed, TypeOK, CallState, Busy, IdleCall

\* A step that begins a call.
LEMMA BeginTyped ==
    ASSUME Typed, NEW c \in Calls, Begin(c)
    PROVE  Typed'
<1>1. PICK n \in Npcs, amount \in Amounts :
        \/ CreateNpc(c, n, amount)
        \/ TopUpDraft(c, n, amount)
        \/ TopUp(c, n, amount)
        \/ Debit(c, n, amount)
        \/ Talk(c, n, amount)
        \/ \E pc \in {"pitch", "deal"} : Pitch(c, n, amount, pc)
  BY DEF Begin
<1>2. amount \in Nat
  BY GccAssumption
<1>3. /\ drafts' = drafts /\ registry' = registry /\ gcc' = gcc
      /\ activated' = activated /\ layered' = layered
      /\ npcs' \subseteq npcs \cup {n}
  BY <1>1 DEF CreateNpc, TopUpDraft, TopUp, Debit, Talk, Pitch
<1>4. domain' \in [Npcs -> Nat] /\ custody' \in Nat /\ LayerConserves'
  <2>1. LayerDeposit(n, amount) \/ LayerWithdraw(n, amount) \/ UNCHANGED layerVars
    BY <1>1 DEF CreateNpc, TopUpDraft, TopUp, Debit, Talk, Pitch
  <2>2. QED
    BY <1>2, <2>1, LayerKeeps
<1>5. /\ call' \in [Calls -> CallState]
      /\ \A d \in Calls : call'[d].pc # "idle" => call'[d].npc \in Npcs
  <2>1. CASE UNCHANGED call
    BY <2>1 DEF Typed, TypeOK, CallState, Busy, Mine
  <2>2. CASE \E pc \in Pcs : Enter(c, n, amount, pc)
    <3>1. PICK pc \in Pcs : Enter(c, n, amount, pc)
      BY <2>2
    <3>2. PICK s : s.npc = n /\ Moves(c, s)
      BY <1>2, <3>1, EnterMoves
    <3>3. QED
      BY <3>2 DEF Moves, Typed, Busy, Mine
  <2>3. QED
    BY <1>1, <2>1, <2>2 DEF CreateNpc, TopUpDraft, TopUp, Debit, Talk, Pitch, Pcs
<1>6. QED
  BY <1>3, <1>4, <1>5 DEF Typed, TypeOK, CallState, Busy, Mine

\* A step of a call that runs: it keeps its NPC or ends.
LEMMA ContinueTyped ==
    ASSUME Typed, NEW c \in Calls, Continue(c)
    PROVE  Typed'
<1>1. /\ layered' = layered /\ UNCHANGED layerVars
      /\ Busy(c) /\ Mine(c) \in Npcs /\ call[c] \in CallState
  BY DEF Continue, ActivatorRejects, ActivatorApproves, SetGcc, ReadRegistry, WriteRegistry,
     DropDraft, TopUpEnds, DebitEnds, DebitReturns, TalkEnds, PitchRefused, PitchAccepted,
     StoreGcc, At, Busy, Typed, TypeOK, CallState
<1>2. npcs' \subseteq Npcs /\ drafts' \subseteq Npcs /\ registry' \subseteq Npcs
  BY <1>1 DEF Continue, ActivatorRejects, ActivatorApproves, SetGcc, ReadRegistry, WriteRegistry,
     DropDraft, TopUpEnds, DebitEnds, DebitReturns, TalkEnds, PitchRefused, PitchAccepted,
     StoreGcc, Typed, TypeOK, CallState
<1>3. activated' \in [Npcs -> Nat]
  BY <1>1 DEF Continue, ActivatorRejects, ActivatorApproves, SetGcc, ReadRegistry, WriteRegistry,
     DropDraft, TopUpEnds, DebitEnds, DebitReturns, TalkEnds, PitchRefused, PitchAccepted,
     StoreGcc, Typed, TypeOK
<1>4. gcc' \in [Npcs -> Nat]
  <2>1. call[c].amount \in Nat /\ call[c].seen \in Nat
    BY <1>1 DEF CallState
  <2>2. NotNegative(call[c].seen - call[c].amount) \in Nat
    BY <2>1, NotNegativeType
  <2>3. gcc' = gcc \/ \E x \in Nat : gcc' = [gcc EXCEPT ![Mine(c)] = x]
    BY <2>1, <2>2 DEF Continue, ActivatorRejects, ActivatorApproves, SetGcc, ReadRegistry,
       WriteRegistry, DropDraft, TopUpEnds, DebitEnds, DebitReturns, TalkEnds, PitchRefused,
       PitchAccepted, StoreGcc
  <2>4. QED
    BY <2>3 DEF Typed, TypeOK
<1>5. PICK s : Moves(c, s) /\ (s.pc # "idle" => s.npc = Mine(c))
  <2> DEFINE to(pc, reg) == [pc |-> pc, npc |-> Mine(c), amount |-> call[c].amount,
                             seen |-> call[c].seen, reg |-> reg,
                             activating |-> call[c].activating]
  <2>1. CASE ReadRegistry(c)
    <3>1. Moves(c, to("writeRegistry", registry))
      BY <2>1, ReadMoves
    <3>2. QED
      BY <3>1
  <2>2. CASE \E pc \in Pcs : Goto(c, pc)
    <3>1. PICK pc \in Pcs : Goto(c, pc)
      BY <2>2
    <3>2. Moves(c, to(pc, call[c].reg))
      BY <3>1, GotoMoves
    <3>3. QED
      BY <3>2
  <2>3. CASE Return(c)
    BY <2>3, ReturnMoves DEF IdleCall
  <2>4. QED
    BY <2>1, <2>2, <2>3 DEF Continue, ActivatorRejects, ActivatorApproves, SetGcc,
       WriteRegistry, DropDraft, TopUpEnds, DebitEnds, DebitReturns, TalkEnds, PitchRefused,
       PitchAccepted, StoreGcc, Pcs
<1>6. /\ call' \in [Calls -> CallState]
      /\ \A d \in Calls : call'[d].pc # "idle" => call'[d].npc \in Npcs
  BY <1>1, <1>5 DEF Moves, Typed, Busy, Mine
<1>7. domain' \in [Npcs -> Nat] /\ custody' \in Nat /\ LayerConserves'
  BY <1>1 DEF Typed, TypeOK, LayerConserves, layerVars
<1>8. QED
  BY <1>1, <1>2, <1>3, <1>4, <1>6, <1>7 DEF Typed, TypeOK, CallState, Busy, Mine

LEMMA TypedStep == Typed /\ [Next]_vars => Typed'
<1> SUFFICES ASSUME Typed, [Next]_vars PROVE Typed'
  OBVIOUS
<1>1. ASSUME NEW n \in Npcs, CreateDraft(n)
      PROVE  Typed'
  BY <1>1 DEF CreateDraft, Typed, TypeOK, Busy, Mine, LayerConserves, layerVars
<1>2. CASE UNCHANGED vars
  BY <1>2 DEF vars, Typed, TypeOK, Busy, Mine, LayerConserves
<1>3. QED
  BY <1>1, <1>2, BeginTyped, ContinueTyped DEF Next

\* The execution layer never mints: whatever the host calls, and however the
\* calls overlap, its balances add up to the GCC in custody
\* (BaseSettlementLayer deposit, withdraw).
THEOREM LayerSolvent == Spec => []LayerConserves
<1>1. Spec => []Typed
  BY TypedInit, TypedStep, PTL DEF Spec
<1>2. Typed => LayerConserves
  BY DEF Typed
<1>3. QED
  BY <1>1, <1>2, PTL

(***************************************************************************)
(* The accounts under a host that keeps its part.  A balance that a call   *)
(* read is still the balance, since no other call runs on its NPC; and a   *)
(* draft whose record is stored is one whose activation is about to end.   *)
(***************************************************************************)
Ending == {"setGcc", "readRegistry", "writeRegistry", "dropDraft"}

Apart ==
    \A c, d \in Calls : Busy(c) /\ Busy(d) /\ Mine(c) = Mine(d) => c = d

Activations ==
    \A n \in Npcs : activated[n] <= 1 /\ (activated[n] # 0 => n \in npcs)

Drafted ==
    \A c \in Calls : At(c, "activator") =>
        Mine(c) \in drafts \ npcs /\ call[c].activating

LastSteps ==
    \A n \in drafts \cap npcs : \E c \in Calls :
        Mine(c) = n /\ call[c].activating /\ call[c].pc \in Ending

Stored ==
    \A c \in Calls :
        call[c].pc \in Ending \cup {"topUp", "debit", "withdrawn", "pitch", "deal"} =>
            Mine(c) \in npcs

Unfunded == \A n \in Npcs \ npcs : gcc[n] = 0 /\ domain[n] = 0

Reads ==
    \A c \in Calls :
        /\ ~ layered /\ call[c].pc \in {"topUp", "debit", "talk", "pitch", "deal"} =>
               call[c].seen = gcc[Mine(c)]
        /\ At(c, "setGcc") => gcc[Mine(c)] = 0
        /\ At(c, "talk") => Mine(c) \in npcs \/ call[c].seen = 0

HostInv == /\ Apart /\ Activations /\ Drafted /\ LastSteps
           /\ Stored /\ Unfunded /\ Reads

LEMMA HostInit == Init => HostInv
BY DEF Init, HostInv, Apart, Activations, Drafted, LastSteps, Stored, Unfunded, Reads, Busy,
   At, Mine, IdleCall, Ending

Begun == {"activator", "setGcc", "topUp", "debit", "withdrawn", "talk", "pitch", "deal"}

\* A call on n begins, no other call running on n.
LEMMA EnterKeeps ==
    ASSUME HostKeeps, Typed, HostInv, NEW c \in Calls, NEW n \in Npcs, NEW s,
           MayCall(c, n), Moves(c, s), s.npc = n, s.seen = Balance(n), s.pc \in Begun,
           s.pc = "activator" => s.activating /\ n \in drafts,
           s.pc = "setGcc" => n \notin npcs \cup drafts,
           s.pc \in {"topUp", "debit", "withdrawn", "pitch", "deal"} => n \in npcs,
           UNCHANGED <<drafts, gcc, activated, layered>>,
           npcs' = IF s.pc = "setGcc" THEN npcs \cup {n} ELSE npcs,
           \A m \in Npcs : domain'[m] = domain[m] \/ m \in npcs
    PROVE  HostInv'
<1>1. /\ call'[c] = s /\ \A d \in Calls \ {c} : call'[d] = call[d] /\ call[d].npc # n
      /\ call[c].pc = "idle" /\ call[c].npc # n
  BY DEF Moves, MayCall, At, HostKeeps
<1>2. Apart'
  BY <1>1 DEF HostInv, Apart, Busy, Mine
<1>3. Activations' /\ Unfunded'
  BY DEF HostInv, Activations, Unfunded
<1>4. n \notin drafts \cap npcs
  BY <1>1 DEF HostInv, LastSteps, Mine
<1>5. Drafted'
  BY <1>1, <1>4 DEF HostInv, Drafted, At, Mine, Begun
<1>6. LastSteps'
  <2> SUFFICES ASSUME NEW m \in drafts \cap npcs'
               PROVE  \E d \in Calls : /\ Mine(d)' = m /\ call'[d].activating
                                       /\ call'[d].pc \in Ending
    BY DEF LastSteps
  <2>1. m \in drafts \cap npcs
    OBVIOUS
  <2>2. PICK d \in Calls : Mine(d) = m /\ call[d].activating /\ call[d].pc \in Ending
    BY <2>1 DEF HostInv, LastSteps
  <2>3. d # c
    BY <1>1, <2>2 DEF Ending
  <2>4. QED
    BY <1>1, <2>2, <2>3 DEF Mine
<1>7. Stored'
  BY <1>1 DEF HostInv, Stored, Mine, Begun, Ending
<1>8. Reads'
  BY <1>1 DEF HostInv, Reads, Unfunded, At, Mine, Begun, Balance
<1>9. QED
  BY <1>2, <1>3, <1>5, <1>6, <1>7, <1>8 DEF HostInv

\* A call ends; it may store a balance.
LEMMA ReturnKeeps ==
    ASSUME Typed, HostInv, NEW c \in Calls, Busy(c), Moves(c, IdleCall),
           call[c].pc \in Ending => ~ call[c].activating \/ Mine(c) \notin drafts',
           drafts' = drafts \/ drafts' = drafts \ {Mine(c)},
           UNCHANGED <<npcs, domain, activated, layered>>,
           gcc' = gcc \/ \E x \in Nat : /\ gcc' = [gcc EXCEPT ![Mine(c)] = x]
                                        /\ Mine(c) \in npcs \/ x = 0
    PROVE  HostInv'
<1>1. /\ call'[c].pc = "idle"
      /\ \A d \in Calls \ {c} : call'[d] = call[d]
  BY DEF Moves, IdleCall
<1>2. \A d \in Calls \ {c} : Busy(d) => Mine(d) # Mine(c)
  BY DEF HostInv, Apart
<1>3. /\ \A m \in Npcs \ {Mine(c)} : gcc'[m] = gcc[m]
      /\ \A m \in Npcs \ npcs : gcc'[m] = 0
  BY DEF HostInv, Unfunded, Typed, TypeOK
<1>4. Apart'
  BY <1>1 DEF HostInv, Apart, Busy, Mine
<1>5. Activations' /\ Unfunded'
  BY <1>3 DEF HostInv, Activations, Unfunded
<1>6. Drafted'
  BY <1>1, <1>2 DEF HostInv, Drafted, At, Mine, Busy
<1>7. LastSteps'
  <2> SUFFICES ASSUME NEW m \in drafts' \cap npcs
               PROVE  \E d \in Calls : /\ Mine(d)' = m /\ call'[d].activating
                                       /\ call'[d].pc \in Ending
    BY DEF LastSteps
  <2>1. PICK d \in Calls : Mine(d) = m /\ call[d].activating /\ call[d].pc \in Ending
    BY DEF HostInv, LastSteps
  <2>2. d # c
    BY <2>1
  <2>3. QED
    BY <1>1, <2>1, <2>2 DEF Mine
<1>8. Stored'
  BY <1>1 DEF HostInv, Stored, Mine, Ending
<1>9. Reads'
  <2>1. \A d \in Calls \ {c} : Busy(d) => gcc'[Mine(d)] = gcc[Mine(d)]
    BY <1>2, <1>3 DEF Typed
  <2>2. QED
    BY <1>1, <2>1 DEF HostInv, Reads, At, Mine, Busy
<1>10. QED
  BY <1>4, <1>5, <1>6, <1>7, <1>8, <1>9 DEF HostInv

\* A creation or an activation goes on.
LEMMA EndingKeeps ==
    ASSUME Typed, HostInv, NEW c \in Calls, NEW s, Moves(c, s),
           call[c].pc \in Ending \cup {"activator"}, s.pc \in Ending,
           s.npc = Mine(c), s.activating = call[c].activating,
           UNCHANGED <<drafts, domain, layered>>,
           s.pc = "setGcc" => At(c, "activator"),
           npcs' = npcs \cup {Mine(c)},
           activated' = IF At(c, "activator")
                        THEN [activated EXCEPT ![Mine(c)] = @ + 1] ELSE activated,
           gcc' = gcc \/ \E x \in Nat : /\ gcc' = [gcc EXCEPT ![Mine(c)] = x]
                                        /\ At(c, "setGcc")
    PROVE  HostInv'
<1>1. /\ call'[c] = s /\ \A d \in Calls \ {c} : call'[d] = call[d]
      /\ Busy(c) /\ Mine(c) \in Npcs
  BY DEF Moves, Typed, Busy, Ending
<1>2. \A d \in Calls \ {c} : Busy(d) => Mine(d) # Mine(c)
  BY <1>1 DEF HostInv, Apart
<1>3. \A m \in Npcs \ {Mine(c)} : gcc'[m] = gcc[m]
  BY <1>1 DEF Typed, TypeOK
<1>4. Apart'
  BY <1>1 DEF HostInv, Apart, Busy, Mine
<1>5. Activations'
  <2>1. At(c, "activator") => activated[Mine(c)] = 0
    BY <1>1 DEF HostInv, Activations, Drafted, Typed, TypeOK
  <2>2. QED
    BY <1>1, <2>1 DEF HostInv, Activations, Typed, TypeOK
<1>6. Drafted'
  BY <1>1, <1>2 DEF HostInv, Drafted, At, Mine, Busy, Ending
<1>7. LastSteps'
  <2> SUFFICES ASSUME NEW m \in drafts \cap npcs'
               PROVE  \E d \in Calls : /\ Mine(d)' = m /\ call'[d].activating
                                       /\ call'[d].pc \in Ending
    BY DEF LastSteps
  <2>1. CASE m \in npcs
    <3>1. PICK d \in Calls : Mine(d) = m /\ call[d].activating /\ call[d].pc \in Ending
      BY <2>1 DEF HostInv, LastSteps
    <3>2. QED
      BY <1>1, <3>1 DEF Mine
  <2>2. CASE m \notin npcs
    <3>1. m = Mine(c) /\ At(c, "activator")
      BY <2>2 DEF HostInv, Stored, At
    <3>2. call'[c].activating /\ Mine(c)' = m /\ call'[c].pc \in Ending
      BY <1>1, <3>1 DEF HostInv, Drafted, Mine
    <3>3. QED
      BY <3>2
  <2>3. QED
    BY <2>1, <2>2
<1>8. Stored'
  BY <1>1 DEF HostInv, Stored, Mine
<1>9. Unfunded'
  BY <1>1, <1>3 DEF HostInv, Unfunded
<1>10. Reads'
  <2>1. \A d \in Calls \ {c} : Busy(d) => gcc'[Mine(d)] = gcc[Mine(d)]
    BY <1>2, <1>3 DEF Typed
  <2>2. s.pc = "setGcc" => gcc'[Mine(c)] = 0
    BY <1>1 DEF HostInv, Drafted, Unfunded, At
  <2>3. QED
    BY <1>1, <2>1, <2>2 DEF HostInv, Reads, At, Mine, Busy, Ending
<1>11. QED
  BY <1>4, <1>5, <1>6, <1>7, <1>8, <1>9, <1>10 DEF HostInv

LEMMA BeginKeeps ==
    ASSUME HostKeeps, Typed, HostInv, NEW c \in Calls, Begin(c)
    PROVE  HostInv'
<1>1. PICK n \in Npcs, amount \in Amounts :
        \/ CreateNpc(c, n, amount)
        \/ TopUpDraft(c, n, amount)
        \/ TopUp(c, n, amount)
        \/ Debit(c, n, amount)
        \/ Talk(c, n, amount)
        \/ \E pc \in {"pitch", "deal"} : Pitch(c, n, amount, pc)
  BY DEF Begin
<1>2. amount \in Nat
  BY GccAssumption
<1>3. ASSUME NEW pc \in Begun, MayCall(c, n), Enter(c, n, amount, pc),
             pc = "activator" => n \in drafts,
             pc = "setGcc" => n \notin npcs \cup drafts,
             pc \in {"topUp", "debit", "withdrawn", "pitch", "deal"} => n \in npcs,
             UNCHANGED <<drafts, gcc, activated, layered>>,
             npcs' = IF pc = "setGcc" THEN npcs \cup {n} ELSE npcs,
             \A m \in Npcs : domain'[m] = domain[m] \/ m \in npcs
      PROVE  HostInv'
  <2>1. pc \in Pcs
    BY DEF Begun, Pcs
  <2>2. PICK s : /\ Moves(c, s) /\ s.pc = pc /\ s.npc = n /\ s.seen = Balance(n)
                 /\ s.activating = (pc = "activator")
    <3> DEFINE to == [pc |-> pc, npc |-> n, amount |-> amount, seen |-> Balance(n),
                      reg |-> {}, activating |-> pc = "activator"]
    <3>1. Moves(c, to)
      BY <1>2, <1>3, <2>1, EnterMoves
    <3>2. QED
      BY <3>1
  <2>3. QED
    BY <1>3, <2>2, EnterKeeps
<1>4. CASE CreateNpc(c, n, amount)
  BY <1>3, <1>4 DEF CreateNpc, HostKeeps, Begun, layerVars
<1>5. CASE TopUpDraft(c, n, amount)
  BY <1>3, <1>5 DEF TopUpDraft, Begun, layerVars
<1>6. CASE Debit(c, n, amount)
  <2>1. n \in npcs
    BY <1>6 DEF Debit, Known, HostKeeps
  <2>2. \A m \in Npcs : domain'[m] = domain[m] \/ m \in npcs
    BY <1>6, <2>1 DEF Debit, LayerWithdraw, layerVars, Typed, TypeOK
  <2>3. QED
    BY <1>3, <1>6, <2>1, <2>2 DEF Debit, Begun
<1>7. CASE Talk(c, n, amount)
  BY <1>3, <1>7 DEF Talk, Begun, layerVars
<1>8. ASSUME NEW pc \in {"pitch", "deal"}, Pitch(c, n, amount, pc)
      PROVE  HostInv'
  BY <1>3, <1>8 DEF Pitch, Known, HostKeeps, Begun, layerVars
<1>9. CASE TopUp(c, n, amount) /\ ~ layered
  BY <1>3, <1>9 DEF TopUp, Known, HostKeeps, Begun, layerVars
<1>10. CASE TopUp(c, n, amount) /\ layered
  <2>1. n \in npcs /\ UNCHANGED <<drafts, npcs, gcc, activated, layered, call>>
    BY <1>10 DEF TopUp, Known, HostKeeps
  <2>2. \A m \in Npcs \ {n} : domain'[m] = domain[m]
    BY <1>10 DEF TopUp, LayerDeposit, Typed, TypeOK
  <2>3. QED
    BY <2>1, <2>2 DEF HostInv, Apart, Activations, Drafted, LastSteps, Stored, Unfunded, Reads,
       Busy, At, Mine
<1>11. QED
  BY <1>1, <1>4, <1>5, <1>6, <1>7, <1>8, <1>9, <1>10

LEMMA ContinueKeeps ==
    ASSUME Typed, HostInv, NEW c \in Calls, Continue(c)
    PROVE  HostInv'
<1> DEFINE amount == call[c].amount
           seen == call[c].seen
<1>1. amount \in Nat /\ seen \in Nat /\ NotNegative(seen - amount) \in Nat
  <2>1. amount \in Nat /\ seen \in Nat
    BY DEF Typed, TypeOK
  <2>2. QED
    BY <2>1, NotNegativeType
<1> HIDE DEF amount, seen
<1>2. ASSUME NEW pc \in Ending, Goto(c, pc),
             call[c].pc \in Ending \cup {"activator"},
             UNCHANGED <<drafts, domain, layered>>,
             pc = "setGcc" => At(c, "activator"),
             npcs' = npcs \cup {Mine(c)},
             activated' = IF At(c, "activator")
                          THEN [activated EXCEPT ![Mine(c)] = @ + 1] ELSE activated,
             gcc' = gcc \/ \E x \in Nat : /\ gcc' = [gcc EXCEPT ![Mine(c)] = x]
                                          /\ At(c, "setGcc")
      PROVE  HostInv'
  <2>1. pc \in Pcs
    BY DEF Ending, Pcs
  <2>2. PICK s : /\ Moves(c, s) /\ s.pc = pc /\ s.npc = Mine(c)
                 /\ s.activating = call[c].activating
    <3> DEFINE to == [pc |-> pc, npc |-> Mine(c), amount |-> call[c].amount,
                      seen |-> call[c].seen, reg |-> call[c].reg,
                      activating |-> call[c].activating]
    <3>1. Moves(c, to)
      BY <1>2, <2>1, GotoMoves
    <3>2. QED
      BY <3>1
  <2>3. QED
    BY <1>2, <2>2, EndingKeeps
<1>3. call[c].pc \in Ending => npcs \cup {Mine(c)} = npcs
  BY DEF HostInv, Stored
<1>4. CASE ActivatorApproves(c)
  BY <1>2, <1>4 DEF ActivatorApproves, Ending, layerVars, At
<1>5. CASE SetGcc(c)
  <2>1. At(c, "setGcc") /\ Goto(c, "readRegistry") /\ gcc' = [gcc EXCEPT ![Mine(c)] = amount]
        /\ UNCHANGED <<drafts, npcs, domain, activated, layered>>
    BY <1>5 DEF SetGcc, layerVars, amount
  <2>2. QED
    BY <1>1, <1>2, <1>3, <2>1 DEF Ending, At
<1>6. CASE ReadRegistry(c)
  <2>1. PICK s : /\ Moves(c, s) /\ s.pc = "writeRegistry" /\ s.npc = Mine(c)
                 /\ s.activating = call[c].activating
    <3> DEFINE to == [pc |-> "writeRegistry", npc |-> Mine(c), amount |-> call[c].amount,
                      seen |-> call[c].seen, reg |-> registry,
                      activating |-> call[c].activating]
    <3>1. Moves(c, to)
      BY <1>6, ReadMoves
    <3>2. QED
      BY <3>1
  <2>2. /\ At(c, "readRegistry")
        /\ UNCHANGED <<drafts, npcs, gcc, domain, activated, layered>>
    BY <1>6 DEF ReadRegistry, layerVars
  <2>3. QED
    BY <1>3, <2>1, <2>2, EndingKeeps DEF Ending, At
<1>7. CASE WriteRegistry(c) /\ call[c].activating
  <2>1. /\ At(c, "writeRegistry") /\ Goto(c, "dropDraft")
        /\ UNCHANGED <<drafts, npcs, gcc, domain, activated, layered>>
    BY <1>7 DEF WriteRegistry, layerVars
  <2>2. QED
    BY <1>2, <1>3, <2>1 DEF Ending, At
<1>8. ASSUME Return(c), Busy(c),
             call[c].pc \in Ending => ~ call[c].activating \/ Mine(c) \notin drafts',
             drafts' = drafts \/ drafts' = drafts \ {Mine(c)},
             UNCHANGED <<npcs, domain, activated, layered>>,
             gcc' = gcc \/ \E x \in Nat : /\ gcc' = [gcc EXCEPT ![Mine(c)] = x]
                                          /\ Mine(c) \in npcs \/ x = 0
      PROVE  HostInv'
  BY <1>8, ReturnMoves, ReturnKeeps
<1>9. CASE WriteRegistry(c) /\ ~ call[c].activating
  BY <1>8, <1>9 DEF WriteRegistry, layerVars, At, Busy
<1>10. CASE ActivatorRejects(c) \/ DebitReturns(c) \/ PitchRefused(c)
  BY <1>8, <1>10 DEF ActivatorRejects, DebitReturns, PitchRefused, layerVars, At, Busy, Ending
<1>11. CASE DropDraft(c)
  BY <1>8, <1>11 DEF DropDraft, layerVars, At, Busy
<1>12. ASSUME NEW x \in Nat, StoreGcc(c, x), call[c].pc \in {"topUp", "debit", "talk", "pitch", "deal"},
              Mine(c) \in npcs \/ x = 0
       PROVE  HostInv'
  BY <1>8, <1>12 DEF StoreGcc, layerVars, Busy, Ending
<1>13. CASE TopUpEnds(c) \/ DebitEnds(c) \/ PitchAccepted(c)
  <2>1. /\ call[c].pc \in {"topUp", "debit", "pitch", "deal"}
        /\ StoreGcc(c, seen + amount) \/ StoreGcc(c, NotNegative(seen - amount))
    BY <1>13 DEF TopUpEnds, DebitEnds, PitchAccepted, At, amount, seen
  <2>2. Mine(c) \in npcs
    BY <2>1 DEF HostInv, Stored
  <2>3. seen + amount \in Nat
    BY <1>1
  <2>4. QED
    BY <1>1, <1>12, <2>1, <2>2, <2>3
<1>14. CASE TalkEnds(c) /\ call[c].amount > 0
  <2>1. At(c, "talk") /\ StoreGcc(c, NotNegative(seen - amount))
    BY <1>14 DEF TalkEnds, amount, seen
  <2>2. Mine(c) \in npcs \/ seen = 0
    BY <2>1 DEF HostInv, Reads, seen
  <2>3. seen = 0 => NotNegative(seen - amount) = 0
    BY <1>1 DEF NotNegative
  <2>4. QED
    BY <1>1, <1>12, <2>1, <2>2, <2>3 DEF At
<1>15. CASE TalkEnds(c) /\ ~ (call[c].amount > 0)
  BY <1>8, <1>15 DEF TalkEnds, layerVars, At, Busy, Ending
<1>16. QED
  BY <1>4, <1>5, <1>6, <1>7, <1>9, <1>10, <1>11, <1>13, <1>14, <1>15 DEF Continue

LEMMA HostStep == HostKeeps /\ Typed /\ HostInv /\ [Next]_vars => HostInv'
<1> SUFFICES ASSUME HostKeeps, Typed, HostInv, [Next]_vars PROVE HostInv'
  OBVIOUS
<1>1. ASSUME NEW n \in Npcs, CreateDraft(n)
      PROVE  HostInv'
  <2>1. /\ n \notin npcs /\ drafts' = drafts \cup {n}
        /\ UNCHANGED <<npcs, gcc, domain, activated, layered, call>>
    BY <1>1 DEF CreateDraft, HostKeeps, layerVars
  <2>2. QED
    BY <2>1 DEF HostInv, Apart, Activations, Drafted, LastSteps, Stored, Unfunded, Reads,
       Busy, At, Mine
<1>2. CASE UNCHANGED vars
  BY <1>2 DEF vars, HostInv, Apart, Activations, Drafted, LastSteps, Stored, Unfunded, Reads,
     Busy, At, Mine
<1>3. QED
  BY <1>1, <1>2, BeginKeeps, ContinueKeeps DEF Next

THEOREM HostInvariant == HostKeeps => (Spec => [](Typed /\ HostInv))
<1> SUFFICES ASSUME HostKeeps PROVE Spec => [](Typed /\ HostInv)
  OBVIOUS
<1>1. Init => Typed /\ HostInv
  BY TypedInit, HostInit
<1>2. Typed /\ HostInv /\ [Next]_vars => (Typed /\ HostInv)'
  BY TypedStep, HostStep
<1>3. QED
  BY <1>1, <1>2, PTL DEF Spec

\* With one call per NPC at a time, ids created once and calls made on NPCs
\* that have a record, the accounts are sound: an NPC's activation is approved
\* once, a draft owns nothing, and the layer's balances add up to its custody
\* (addGccOrActivate, activate, createNpc).
THEOREM AccountsAreSound == HostKeeps => (Spec => []AccountsSound)
<1>1. Typed /\ HostInv => AccountsSound
  BY DEF Typed, HostInv, AccountsSound, Activations, ActivatedOnce, Unfunded,
     DraftsAreUnfunded, TypeOK
<1>2. QED
  BY <1>1, HostInvariant, PTL

(***************************************************************************)
(* The refinement: what a call has still to enter, and the three things    *)
(* that may happen to it in the accounts.  Under a layer nothing happens.  *)
(***************************************************************************)
Owes(c) == IF layered THEN None ELSE Asked(c)

OthersOwe(c) == \A d \in Calls \ {c} : Owes(d)' = Owes(d)

LEMMA MovesOwe ==
    ASSUME NEW c \in Calls, NEW s, Moves(c, s), layered' = layered
    PROVE  OthersOwe(c)
BY DEF Moves, OthersOwe, Owes, Asked, Mine

LEMMA AccountsStutter ==
    ASSUME layered' = layered, gcc' = gcc \/ layered,
           \A d \in Calls : Owes(d)' = Owes(d)
    PROVE  UNCHANGED Accounts!vars
BY DEF Accounts!vars, Owes

LEMMA AccountsAsk ==
    ASSUME layered' = layered, gcc' = gcc, NEW c \in Calls, OthersOwe(c),
           Owes(c) = None, Owes(c)' \in Accounts!Entry
    PROVE  Accounts!Ask(c)
BY DEF Accounts!Ask, OthersOwe, Owes

LEMMA AccountsRefuse ==
    ASSUME layered' = layered, gcc' = gcc, NEW c \in Calls, OthersOwe(c),
           Owes(c) # None, Owes(c)' = None
    PROVE  Accounts!Refuse(c)
BY DEF Accounts!Refuse, OthersOwe, Owes

LEMMA AccountsEnter ==
    ASSUME Typed, ~ layered, ~ layered', NEW c \in Calls, OthersOwe(c),
           NEW n \in Npcs, NEW x \in Int, Owes(c) = [npc |-> n, amount |-> x],
           Owes(c) # None, Owes(c)' = None,
           gcc' = [gcc EXCEPT ![n] = NotNegative(@ + x)]
    PROVE  Accounts!Enter(c)
<1> DEFINE bal == [m \in Npcs |-> IF layered THEN 0 ELSE gcc[m]]
           asked == [d \in Calls |-> IF layered THEN None ELSE Asked(d)]
<1>1. asked[c] # None /\ asked[c].npc = n /\ asked[c].amount = x
  BY DEF Owes
<1>2. asked' = [asked EXCEPT ![c] = None]
  BY DEF Owes, OthersOwe
<1>3. bal = gcc /\ bal' = gcc'
  BY DEF Typed, TypeOK
<1>4. bal' = [bal EXCEPT ![n] = Accounts!NotNegative(@ + x)]
  BY <1>3 DEF NotNegative, Accounts!NotNegative
<1>5. bal' = [bal EXCEPT ![asked[c].npc] = Accounts!NotNegative(@ + asked[c].amount)]
  BY <1>1, <1>4
<1>6. QED
  BY <1>1, <1>2, <1>5 DEF Accounts!Enter

LEMMA AccountsInit == Init => Accounts!Init
BY DEF Init, Accounts!Init, Asked, IdleCall

LEMMA EntryIsSomething ==
    ASSUME NEW n \in Npcs, NEW x \in Int
    PROVE  /\ [npc |-> n, amount |-> x] \in Accounts!Entry
           /\ [npc |-> n, amount |-> x] # None
BY GccAssumption DEF Accounts!Entry

LEMMA BeginRefines ==
    ASSUME HostKeeps, Typed, HostInv, NEW c \in Calls, Begin(c)
    PROVE  Accounts!Ask(c) \/ UNCHANGED Accounts!vars
<1>1. PICK n \in Npcs, amount \in Amounts :
        \/ CreateNpc(c, n, amount)
        \/ TopUpDraft(c, n, amount)
        \/ TopUp(c, n, amount)
        \/ Debit(c, n, amount)
        \/ Talk(c, n, amount)
        \/ \E pc \in {"pitch", "deal"} : Pitch(c, n, amount, pc)
  BY DEF Begin
<1>2. amount \in Nat /\ gcc' = gcc /\ layered' = layered /\ At(c, "idle")
  BY <1>1, GccAssumption
     DEF CreateNpc, TopUpDraft, TopUp, Debit, Talk, Pitch, MayCall
<1>3. Owes(c) = None
  BY <1>2 DEF Owes, Asked, At
<1>4. CASE call' = call
  BY <1>2, <1>4, AccountsStutter DEF Owes, Asked, Mine
<1>5. ASSUME NEW pc \in Begun, Enter(c, n, amount, pc), layered \/ pc # "withdrawn"
      PROVE  Accounts!Ask(c) \/ UNCHANGED Accounts!vars
  <2>1. PICK s : /\ Moves(c, s) /\ s.pc = pc /\ s.npc = n /\ s.amount = amount
    <3> DEFINE to == [pc |-> pc, npc |-> n, amount |-> amount, seen |-> Balance(n),
                      reg |-> {}, activating |-> pc = "activator"]
    <3>1. Moves(c, to)
      BY <1>2, <1>5, EnterMoves DEF Begun, Pcs
    <3>2. QED
      BY <3>1
  <2>2. OthersOwe(c)
    BY <1>2, <2>1, MovesOwe
  <2>3. CASE layered
    <3>1. \A d \in Calls : Owes(d)' = Owes(d)
      BY <1>2, <2>3 DEF Owes
    <3>2. QED
      BY <1>2, <3>1, AccountsStutter
  <2>4. CASE ~ layered
    <3>1. /\ call'[c].pc = pc /\ call'[c].npc = n /\ call'[c].amount = amount
      BY <2>1 DEF Moves
    <3>2. \/ Owes(c)' = [npc |-> n, amount |-> amount]
          \/ Owes(c)' = [npc |-> n, amount |-> - amount]
      BY <1>2, <1>5, <2>4, <3>1 DEF Owes, Asked, Mine, Begun
    <3>3. amount \in Int /\ - amount \in Int
      BY <1>2
    <3>4. Owes(c)' \in Accounts!Entry
      BY <3>2, <3>3, EntryIsSomething
    <3>5. QED
      BY <1>2, <1>3, <2>2, <3>4, AccountsAsk
  <2>5. QED
    BY <2>3, <2>4
<1>6. QED
  BY <1>1, <1>4, <1>5 DEF CreateNpc, TopUpDraft, TopUp, Debit, Talk, Pitch, Begun

LEMMA ContinueRefines ==
    ASSUME Typed, HostInv, NEW c \in Calls, Continue(c)
    PROVE  Accounts!Enter(c) \/ Accounts!Refuse(c) \/ UNCHANGED Accounts!vars
<1>1. layered' = layered
  BY DEF Continue, ActivatorRejects, ActivatorApproves, SetGcc, ReadRegistry, WriteRegistry,
     DropDraft, TopUpEnds, DebitEnds, DebitReturns, TalkEnds, PitchRefused, PitchAccepted,
     StoreGcc
<1>2. CASE layered
  <2>1. \A d \in Calls : Owes(d)' = Owes(d)
    BY <1>1, <1>2 DEF Owes
  <2>2. QED
    BY <1>1, <1>2, <2>1, AccountsStutter
<1>3. CASE ~ layered
  <2> DEFINE n == Mine(c)
             amount == call[c].amount
             e(x) == [npc |-> n, amount |-> x]
  <2>1. /\ amount \in Nat /\ call[c].seen \in Nat
        /\ Busy(c) => n \in Npcs /\ gcc[n] \in Nat
    BY DEF Typed, TypeOK
  <2>2. ASSUME Return(c)
        PROVE  OthersOwe(c) /\ Owes(c)' = None
    <3>1. Moves(c, IdleCall)
      BY <2>2, ReturnMoves
    <3>2. call'[c].pc = "idle"
      BY <3>1 DEF Moves, IdleCall
    <3>3. QED
      BY <1>1, <1>3, <3>1, <3>2, MovesOwe DEF Owes, Asked
  <2>3. ASSUME NEW pc \in Pcs, Goto(c, pc)
        PROVE  OthersOwe(c) /\ call'[c].pc = pc /\ Mine(c)' = n /\ call'[c].amount = amount
    <3> DEFINE to == [pc |-> pc, npc |-> Mine(c), amount |-> call[c].amount,
                      seen |-> call[c].seen, reg |-> call[c].reg,
                      activating |-> call[c].activating]
    <3>1. Moves(c, to)
      BY <2>3, GotoMoves
    <3>2. QED
      BY <1>1, <3>1, MovesOwe DEF Moves, Mine
  <2>4. CASE ActivatorApproves(c)
    <3>1. /\ At(c, "activator") /\ Goto(c, "setGcc") /\ gcc' = gcc
      BY <2>4 DEF ActivatorApproves
    <3>2. Owes(c)' = Owes(c)
      BY <1>1, <2>3, <3>1 DEF Owes, Asked, Pcs, At
    <3>3. QED
      BY <1>1, <2>3, <3>1, <3>2, AccountsStutter DEF OthersOwe, Pcs
  <2>5. CASE SetGcc(c)
    <3>1. /\ At(c, "setGcc") /\ Goto(c, "readRegistry")
          /\ gcc' = [gcc EXCEPT ![n] = amount]
      BY <2>5 DEF SetGcc
    <3>2. gcc[n] = 0 /\ n \in Npcs /\ NotNegative(gcc[n] + amount) = amount
      BY <2>1, <3>1 DEF HostInv, Reads, At, Busy, NotNegative
    <3>3. Owes(c) = e(amount) /\ Owes(c)' = None
      BY <1>1, <1>3, <2>3, <3>1 DEF Owes, Asked, At, Pcs
    <3>4. e(amount) # None /\ amount \in Int
      BY <2>1, <3>2, EntryIsSomething
    <3>5. gcc' = [gcc EXCEPT ![n] = NotNegative(@ + amount)]
      BY <3>1, <3>2
    <3>6. OthersOwe(c)
      BY <2>3, <3>1 DEF Pcs
    <3> HIDE DEF n, amount
    <3>7. Accounts!Enter(c)
      BY <1>1, <1>3, <3>2, <3>3, <3>4, <3>5, <3>6, AccountsEnter
    <3>8. QED
      BY <3>7
  <2>6. CASE ReadRegistry(c)
    <3> DEFINE to == [pc |-> "writeRegistry", npc |-> Mine(c), amount |-> call[c].amount,
                      seen |-> call[c].seen, reg |-> registry,
                      activating |-> call[c].activating]
    <3>1. Moves(c, to)
      BY <2>6, ReadMoves
    <3>2. At(c, "readRegistry") /\ gcc' = gcc /\ call'[c].pc = "writeRegistry"
      BY <2>6, <3>1 DEF ReadRegistry, Moves
    <3>3. Owes(c)' = Owes(c)
      BY <1>1, <3>2 DEF Owes, Asked, At
    <3>4. QED
      BY <1>1, <3>1, <3>2, <3>3, MovesOwe, AccountsStutter DEF OthersOwe
  <2>7. CASE WriteRegistry(c) \/ DropDraft(c) \/ DebitReturns(c)
    <3>1. /\ call[c].pc \in {"writeRegistry", "dropDraft", "withdrawn"} /\ gcc' = gcc
          /\ Goto(c, "dropDraft") \/ Return(c)
      BY <2>7 DEF WriteRegistry, DropDraft, DebitReturns, At
    <3>2. OthersOwe(c) /\ Owes(c)' = None
      BY <1>1, <1>3, <2>2, <2>3, <3>1 DEF Owes, Asked, Pcs
    <3>3. Owes(c) = None
      BY <3>1 DEF Owes, Asked
    <3>4. QED
      BY <1>1, <3>1, <3>2, <3>3, AccountsStutter DEF OthersOwe
  <2>8. CASE ActivatorRejects(c) \/ PitchRefused(c) \/ (TalkEnds(c) /\ ~ (amount > 0))
    <3>1. /\ call[c].pc \in {"activator", "pitch", "deal", "talk"} /\ gcc' = gcc
          /\ Return(c)
      BY <2>8 DEF ActivatorRejects, PitchRefused, TalkEnds, At
    <3>2. Owes(c) = e(amount) \/ Owes(c) = e(- amount)
      BY <1>3, <3>1 DEF Owes, Asked
    <3>3. n \in Npcs /\ amount \in Int /\ - amount \in Int
      BY <2>1, <3>1 DEF Busy
    <3>4. Owes(c) # None
      BY <3>2, <3>3, EntryIsSomething
    <3>5. QED
      BY <1>1, <2>2, <3>1, <3>4, AccountsRefuse
  <2>9. CASE TopUpEnds(c) \/ DebitEnds(c) \/ PitchAccepted(c) \/ (TalkEnds(c) /\ amount > 0)
    <3>1. PICK x \in {amount, - amount} :
            /\ StoreGcc(c, NotNegative(call[c].seen + x))
            /\ Owes(c) = e(x)
            /\ call[c].pc \in {"topUp", "debit", "talk", "pitch", "deal"}
      <4>1. /\ NotNegative(call[c].seen + amount) = call[c].seen + amount
            /\ call[c].seen + (- amount) = call[c].seen - amount
        BY <2>1 DEF NotNegative
      <4>2. CASE TopUpEnds(c) \/ (PitchAccepted(c) /\ At(c, "deal"))
        BY <1>3, <4>1, <4>2 DEF TopUpEnds, PitchAccepted, Owes, Asked, At
      <4>3. CASE DebitEnds(c) \/ (PitchAccepted(c) /\ At(c, "pitch")) \/ (TalkEnds(c) /\ amount > 0)
        BY <1>3, <4>1, <4>3 DEF DebitEnds, TalkEnds, PitchAccepted, Owes, Asked, At
      <4>4. QED
        BY <2>9, <4>2, <4>3 DEF PitchAccepted
    <3>2. call[c].seen = gcc[n] /\ n \in Npcs /\ x \in Int
      BY <1>3, <2>1, <3>1 DEF HostInv, Reads, Busy
    <3>3. gcc' = [gcc EXCEPT ![n] = NotNegative(@ + x)] /\ Return(c)
      BY <3>1, <3>2 DEF StoreGcc
    <3>4. e(x) # None
      BY <3>2, EntryIsSomething
    <3>5. OthersOwe(c) /\ Owes(c)' = None
      BY <2>2, <3>3
    <3> HIDE DEF n, amount
    <3>6. Accounts!Enter(c)
      BY <1>1, <1>3, <3>1, <3>2, <3>3, <3>4, <3>5, AccountsEnter
    <3>7. QED
      BY <3>6
  <2>10. QED
    BY <2>4, <2>5, <2>6, <2>7, <2>8, <2>9 DEF Continue, TalkEnds
<1>4. QED
  BY <1>2, <1>3

\* Every top-up, activation, burn, debit and pitch is one entry of the
\* accounts, whole and at one moment, across the awaits of its method, for a
\* host that runs one call per NPC at a time: each step of SharedWorldGcc asks
\* for an entry, makes it, refuses it, or is none (addGcc, debit, talk, pitch,
\* activate).
THEOREM EntriesAtomic == HostKeeps => (Spec => EntriesAreAtomic)
<1> SUFFICES ASSUME HostKeeps PROVE Spec => EntriesAreAtomic
  OBVIOUS
<1>1. Typed /\ HostInv /\ [Next]_vars => [Accounts!Next]_(Accounts!vars)
  <2> SUFFICES ASSUME Typed, HostInv, [Next]_vars
               PROVE  Accounts!Next \/ UNCHANGED Accounts!vars
    OBVIOUS
  <2>1. ASSUME NEW n \in Npcs, CreateDraft(n)
        PROVE  UNCHANGED Accounts!vars
    BY <2>1, AccountsStutter DEF CreateDraft, Owes, Asked, Mine
  <2>2. CASE UNCHANGED vars
    BY <2>2, AccountsStutter DEF vars, Owes, Asked, Mine
  <2>3. QED
    BY <2>1, <2>2, BeginRefines, ContinueRefines DEF Next, Accounts!Next
<1>2. Spec => [](Typed /\ HostInv)
  BY HostInvariant
<1>3. QED
  BY <1>1, <1>2, AccountsInit, PTL DEF Spec, EntriesAreAtomic, Accounts!Spec
=============================================================================
