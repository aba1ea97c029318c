----------------------------- MODULE GccAccounts -----------------------------
(***************************************************************************)
(* What the GCC accounts of NPCs promise to their callers: every call that *)
(* tops up or charges an account takes effect once, completely and at one  *)
(* moment between its start and its end, or has no effect.  A top-up adds  *)
(* its amount; a charge takes its amount and never more than there is      *)
(* (packages/gamekit/src/shared-world.ts: fund, donate, debit, talk, pitch *)
(* and createNpc's startGcc).                                              *)
(***************************************************************************)
EXTENDS Integers

CONSTANTS
    Npcs,
    Calls,
    Nothing     \* a call that has nothing to enter

VARIABLES
    balance,  \* NPC -> GCC
    asked     \* call -> the entry it has still to make, or Nothing

vars == <<balance, asked>>

\* A charge has a negative amount.
Entry == [npc: Npcs, amount: Int]

Init ==
    /\ balance = [n \in Npcs |-> 0]
    /\ asked = [c \in Calls |-> Nothing]

Ask(c) ==
    /\ asked[c] = Nothing
    /\ asked'[c] \in Entry
    /\ asked' = [asked EXCEPT ![c] = asked'[c]]
    /\ UNCHANGED balance

NotNegative(x) == IF x < 0 THEN 0 ELSE x

Enter(c) ==
    /\ asked[c] # Nothing
    /\ balance' = [balance EXCEPT ![asked[c].npc] =
                        NotNegative(@ + asked[c].amount)]
    /\ asked' = [asked EXCEPT ![c] = Nothing]

Refuse(c) ==
    /\ asked[c] # Nothing
    /\ asked' = [asked EXCEPT ![c] = Nothing]
    /\ UNCHANGED balance

Next == \E c \in Calls : Ask(c) \/ Enter(c) \/ Refuse(c)

Spec == Init /\ [][Next]_vars
=============================================================================
