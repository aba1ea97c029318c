-------------------------- MODULE MCInferenceLedger --------------------------
(***************************************************************************)
(* TLC instances of InferenceLedger.                                       *)
(***************************************************************************)
EXTENDS InferenceLedger, TLC

\* Users and nonces are interchangeable: no guard, action or property names
\* one of them.
LedgerSymmetry == Permutations(Users) \cup Permutations(Nonces)
=============================================================================
