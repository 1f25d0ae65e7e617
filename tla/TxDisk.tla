------------------------------ MODULE TxDisk ------------------------------
(***************************************************************************)
(* What kernel/log.c promises to the file system: a disk on which a group  *)
(* of operations becomes durable in one step, after all of them ended.     *)
(* `current` is what the system reads, `durable` what is left after a      *)
(* crash.  There is no log, no cache and no header here.                   *)
(***************************************************************************)
CONSTANTS Proc, Block, Value

VARIABLES
  durable,   \* contents that survive a crash
  current,   \* contents as read and written by running operations
  open       \* the processes inside begin_op .. end_op

txvars == <<durable, current, open>>

Init ==
  /\ durable \in [Block -> Value]
  /\ current = durable
  /\ open = {}

Begin(p) ==
  /\ p \notin open
  /\ open' = open \cup {p}
  /\ UNCHANGED <<durable, current>>

Write(p, b, v) ==
  /\ p \in open
  /\ current' = [current EXCEPT ![b] = v]
  /\ UNCHANGED <<durable, open>>

End(p) ==
  /\ p \in open
  /\ open' = open \ {p}
  /\ UNCHANGED <<durable, current>>

(* Never in the middle of an operation: all of its writes, or none. *)
Commit ==
  /\ open = {}
  /\ durable' = current
  /\ UNCHANGED <<current, open>>

Crash ==
  /\ current' = durable
  /\ open' = {}
  /\ UNCHANGED durable

Next ==
  \/ \E p \in Proc : Begin(p) \/ End(p) \/ \E b \in Block, v \in Value : Write(p, b, v)
  \/ Commit
  \/ Crash

Spec == Init /\ [][Next]_txvars

============================================================================
