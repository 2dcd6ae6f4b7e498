----------------------------- MODULE MCMiningQueue ------------------------------
(* MiningQueue, and CardAdd under it, on small instances.                  *)
EXTENDS MiningQueue, TLC

Alike == Permutations(Lines) \cup Permutations(Adds) \cup Permutations(Words)
=============================================================================
