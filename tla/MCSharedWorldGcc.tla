-------------------------- MODULE MCSharedWorldGcc --------------------------
(***************************************************************************)
(* TLC instances of SharedWorldGcc.                                        *)
(***************************************************************************)
EXTENDS SharedWorldGcc, TLC

\* No definition tells NPCs or calls apart.
WorldSymmetry == Permutations(Npcs) \cup Permutations(Calls)
=============================================================================
