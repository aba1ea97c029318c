------------------------ MODULE MCSharedWorldSilver ------------------------
(***************************************************************************)
(* TLC instances of SharedWorldSilver.                                     *)
(***************************************************************************)
EXTENDS SharedWorldSilver, TLC

\* No definition tells NPCs, markets or calls apart.
EconomySymmetry ==
    Permutations(Npcs) \cup Permutations(Markets) \cup Permutations(Calls)

Host(ops, overlap, fails, amounts, purse, grain, total) ==
    [ops |-> ops, overlap |-> overlap, fails |-> fails, amounts |-> amounts,
     purse |-> purse, rice |-> grain, total |-> total]

\* The hosts of the run Silver: one call at a time, methods that may be cut
\* short, and overlapping calls that may be cut short.
ManyHosts ==
    {Host({"transfer", "trade"}, FALSE, FALSE, {6, 12}, 12, 6, 100),
     Host({"transfer", "open", "bet", "resolve"}, FALSE, FALSE, {6, 12}, 12, 0, 100),
     Host({"transfer", "trade", "open", "bet", "resolve"}, FALSE, FALSE, {6}, 6, 6, 100),
     Host({"grant", "transfer", "exchange"}, FALSE, FALSE, {6, 12}, 18, 0, 100),
     Host({"grant", "transfer", "exchange"}, FALSE, TRUE, {6}, 12, 0, 42),
     Host({"transfer", "open", "bet"}, FALSE, TRUE, {6}, 12, 0, 42),
     Host({"open", "bet", "resolve"}, TRUE, TRUE, {6}, 6, 0, 24),
     Host({"trade"}, TRUE, FALSE, {6}, 6, 0, 24),
     Host({"trade"}, TRUE, TRUE, {12}, 0, 12, 36)}

\* The host of the run SilverPaidTwice.
PayoutsCutShort ==
    {Host({"transfer", "open", "bet", "resolve"}, FALSE, TRUE, {6, 12}, 12, 0, 100)}
=============================================================================
