---------------------------- MODULE MCTieredStore ----------------------------
(***************************************************************************)
(* TLC instances of TieredStore.                                           *)
(***************************************************************************)
EXTENDS TieredStore, TLC

\* Callers are interchangeable; keys are not: some of them are archived.
CallerSymmetry == Permutations(Callers)
=============================================================================
