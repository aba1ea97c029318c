------------------------------ MODULE Oracles -------------------------------
(***************************************************************************)
(* The AI boundary of the STF, packages/gamekit/src/stf: an oracle turns   *)
(* a visit into effects and a cost (LlmInferenceOracle), a planner and a   *)
(* reflector may decorate it (PlanningOracle, ReflectionOracle), and what  *)
(* it answered is applied by the transaction applyTalk.  The balance is    *)
(* read when the turn begins; the inference is awaited in between.         *)
(*                                                                         *)
(* The model, its prompt and its words are the environment: an answer is   *)
(* a member of Answers.  attestation-verifier.ts is at the end.            *)
(***************************************************************************)
EXTENDS WorldStf

CONSTANTS
    Talkers,        \* NPCs that receive visits
    Types,          \* observable kinds of visitors, typeOf()
    Answers,        \* what the model may answer: [effects, cost]
    Values,         \* what a visit may turn out to be worth, observe()
    StarvingBelow,  \* starvingBelowGcc of the metabolism
    Reserve,        \* PlanningOracle: reserve
    ReflectEvery,   \* ReflectionOracle: every
    ReflectCost,    \* ReflectionOracle: cost
    MaxObserved,    \* bound on observations
    Signers,        \* attestation keys
    AllowedSigners, \* allow-list of OperatorAttestationVerifier
    Responses,      \* raw model outputs
    ParsedEffects   \* Responses -> what parseAgentIntent() reads in them

ASSUME TalkersAssumption == Talkers \subseteq Ids
ASSUME AnswersAssumption == Answers \subseteq [effects : Seq(Effects), cost : Nat]
ASSUME ReserveAssumption == Reserve \in Nat /\ ReflectCost \in Nat
ASSUME SignersAssumption == AllowedSigners \subseteq Signers

VARIABLES
    turn,   \* the turn under way, a member of Turns, or None
    mind,   \* ReflectionOracle: [obs, policy, since]
    shown   \* attestations that exist, and the provenance last verified

oracleVars == <<turn, mind, shown>>

\* What an oracle answers, and a turn: the visit, the balance its planner saw,
\* and the answer once there is one.
Outs == [effects : Seq(Effects), cost : Nat]
Turns == [npc : Ids, player : Players, type : Types, seen : Nat, out : Outs \cup {None}]

ASSUME NoTurnAssumption == None \notin Turns

Rest == [effects |-> <<>>, cost |-> 0]
Unseen == [sum |-> 0, n |-> 0]

(***************************************************************************)
(* The oracles, inside out.                                                *)
(***************************************************************************)
\* LlmAgent.perceive(): a starving NPC speaks a fixed line and pays nothing.
LlmOutputs(seen) == IF seen < StarvingBelow THEN {Rest} ELSE Answers

\* ReflectionOracle.produce(): rest on a type known not to pay, else count the
\* turn; every ReflectEvery-th turn the policy is learnt anew and costs more.
Reflected(out, t, m) ==
    IF out.cost = 0 THEN [out |-> out, mind |-> m]
    ELSE IF m.policy[t] # None /\ m.policy[t].sum < out.cost * m.policy[t].n
    THEN [out |-> Rest, mind |-> m]
    ELSE IF m.since + 1 < ReflectEvery THEN [out |-> out, mind |-> [m EXCEPT !.since = @ + 1]]
    ELSE [out |-> [out EXCEPT !.cost = @ + ReflectCost],
          mind |-> [m EXCEPT !.since = 0,
                             !.policy = [u \in Types |-> IF m.obs[u].n = 0 THEN None ELSE m.obs[u]]]]

\* Faulty variant: the reserve is compared with the balance before the cost.
PlannedBefore(out, seen) == IF out.cost > 0 /\ seen < Reserve THEN Rest ELSE out

\* PlanningOracle.produce() with a reserve, around the reflecting oracle.
Planned(out, seen) == IF out.cost > 0 /\ seen - out.cost < Reserve THEN Rest ELSE out

(***************************************************************************)
(* A turn: read the balance, ask the oracle, apply the talk.               *)
(***************************************************************************)
OracleInit ==
    /\ turn = None
    /\ mind = [obs |-> [t \in Types |-> Unseen], policy |-> [t \in Types |-> None], since |-> 0]
    /\ shown = [run |-> {}, proof |-> None]

BeginTurn(npc, visitor, type) ==
    /\ turn = None
    /\ Len(log) < script.txs
    /\ turn' = [npc |-> npc, player |-> visitor, type |-> type, seen |-> world.gcc[npc], out |-> None]
    /\ UNCHANGED <<stfVars, mind, shown>>

Produce ==
    /\ turn # None /\ turn.out = None
    /\ \E answer \in LlmOutputs(turn.seen) :
           LET r == Reflected(answer, turn.type, mind)
           IN  /\ mind' = r.mind
               /\ turn' = [turn EXCEPT !.out = Planned(r.out, turn.seen)]
    /\ UNCHANGED <<stfVars, shown>>

TalkOf(t) ==
    [type |-> "applyTalk", npc |-> t.npc, player |-> t.player, effects |-> t.out.effects,
     cost |-> t.out.cost]

\* The host commits the talk and feeds back what the visit was worth.
FinishTurn(value) ==
    /\ turn # None /\ turn.out # None
    /\ Len(log) < script.txs
    /\ world' = ApplyTx(world, TalkOf(turn))
    /\ log' = Append(log, TalkOf(turn))
    /\ turn' = None
    /\ mind' = IF turn.out.cost = 0 \/ mind.obs[turn.type].n >= MaxObserved THEN mind
               ELSE [mind EXCEPT !.obs[turn.type] = [sum |-> @.sum + value, n |-> @.n + 1]]
    /\ UNCHANGED <<script, tick, commit, drive, anchors, shown>>

(***************************************************************************)
(* Provenance.  signAttestation() signs the hash of a response;            *)
(* verifyTalkProvenance() is shown an attestation, a response and the      *)
(* effects that were committed, in any combination.                        *)
(***************************************************************************)
Attest(signer, response) ==
    /\ shown' = [shown EXCEPT !.run = @ \cup {[signer |-> signer, responseHash |-> response]}]
    /\ UNCHANGED <<stfVars, turn, mind>>

\* Faulty variant: the response is not compared with the attested hash.
ProvenanceOkUnhashed(att, response, effects) ==
    /\ att.signer \in AllowedSigners
    /\ ParsedEffects[response] = effects

ProvenanceOk(att, response, effects) ==
    /\ att.signer \in AllowedSigners
    /\ att.responseHash = response
    /\ ParsedEffects[response] = effects

VerifyTalkProvenance ==
    /\ \E att \in shown.run, response \in Responses :
           \E effects \in {ParsedEffects[r] : r \in Responses} :
               /\ ProvenanceOk(att, response, effects)
               /\ shown' = [shown EXCEPT !.proof = [response |-> response, effects |-> effects]]
    /\ UNCHANGED <<stfVars, turn, mind>>

TurnNext ==
    \/ \E npc \in Talkers, visitor \in Players, type \in Types : BeginTurn(npc, visitor, type)
    \/ Produce
    \/ \E value \in Values : FinishTurn(value)

ProofNext ==
    \/ \E signer \in Signers, response \in Responses : Attest(signer, response)
    \/ VerifyTalkProvenance

OracleNext ==
    \/ StfNext /\ UNCHANGED oracleVars
    \/ TurnNext
    \/ ProofNext

OracleSpec == StfInit /\ OracleInit /\ [][OracleNext]_<<stfVars, oracleVars>>

(***************************************************************************)
(* Properties.                                                             *)
(***************************************************************************)
\* A planner keeps its runway: a talk that costs GCC leaves the NPC with its
\* reserve, the price of reflecting included, whatever was paid to the NPC
\* during the inference (PlanningOracle outside ReflectionOracle).
ReserveKept ==
    [][ turn # None /\ turn' = None /\ turn.out.cost > 0 =>
            world'.gcc[turn.npc] >= Reserve ]_<<stfVars, turn>>

\* Effects that pass the provenance check are what an allowed signer's model
\* run says: its attested response parses to them (verifyTalkProvenance).
ProvenIsAttested ==
    shown.proof # None =>
        \E att \in shown.run :
            /\ att.signer \in AllowedSigners
            /\ ParsedEffects[att.responseHash] = shown.proof.effects
=============================================================================
