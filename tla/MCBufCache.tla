----------------------------- MODULE MCBufCache -----------------------------
(* Instances of BufCache for TLC. *)
EXTENDS BufCache, TLC

Symm == Permutations(Proc) \cup Permutations(Block) \cup Permutations(Value)
============================================================================
