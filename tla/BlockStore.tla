----------------------------- MODULE BlockStore -----------------------------
(***************************************************************************)
(* What kernel/bio.c promises to its callers: one copy of every disk block, *)
(* which one process at a time may read and change.  There are no buffers, *)
(* no reference counts and no disk here.                                   *)
(***************************************************************************)
CONSTANTS Proc, Block, Value, None

VARIABLES
  contents,   \* what a block holds
  owner       \* who is between bread and brelse of the block, or None

storevars == <<contents, owner>>

Init ==
  /\ contents \in [Block -> Value]
  /\ owner = [k \in Block |-> None]

Bread(p, k) ==
  /\ owner[k] = None
  /\ owner' = [owner EXCEPT ![k] = p]
  /\ UNCHANGED contents

Modify(p, k, v) ==
  /\ owner[k] = p
  /\ contents' = [contents EXCEPT ![k] = v]
  /\ UNCHANGED owner

Brelse(p, k) ==
  /\ owner[k] = p
  /\ owner' = [owner EXCEPT ![k] = None]
  /\ UNCHANGED contents

Next ==
  \E p \in Proc, k \in Block :
    Bread(p, k) \/ Brelse(p, k) \/ \E v \in Value : Modify(p, k, v)

Spec == Init /\ [][Next]_storevars

============================================================================
