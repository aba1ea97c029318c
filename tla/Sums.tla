-------------------------------- MODULE Sums --------------------------------
(***************************************************************************)
(* Sums of natural-valued functions, counted unit by unit: Units(f, S)     *)
(* holds one pair <<x, i>> for every x in S and every unit i of f[x], and  *)
(* the sum of f over S is their number.  TLC evaluates it directly, and    *)
(* the proofs reason about it with the library facts about cardinalities,  *)
(* where a recursive definition would need an induction.                   *)
(***************************************************************************)
EXTENDS Integers, FiniteSets

Units(f, S) == UNION {{x} \X (1..f[x]) : x \in S}

\* The sum of f[x] for x in S, every f[x] a natural number.
SumOf(f, S) == Cardinality(Units(f, S))
=============================================================================
