-------------------------------- MODULE Fifo --------------------------------
(***************************************************************************)
(* What kernel/pipe.c promises: a bounded queue of bytes with two ends.    *)
(* There is no ring, no index, no lock and no process here.                *)
(***************************************************************************)
EXTENDS Naturals, Sequences

CONSTANTS Byte, PIPESIZE

VARIABLES
  queue,             \* bytes written and not yet read
  delivered,         \* the byte a reader got last
  ropen, wopen       \* the two ends

fifovars == <<queue, delivered, ropen, wopen>>

Init ==
  /\ queue = <<>> /\ delivered \in Byte
  /\ ropen = TRUE /\ wopen = TRUE

Send(c) ==
  /\ ropen /\ wopen /\ Len(queue) < PIPESIZE
  /\ queue' = Append(queue, c)
  /\ UNCHANGED <<delivered, ropen, wopen>>

Receive ==
  /\ ropen /\ queue # <<>>
  /\ delivered' = Head(queue)
  /\ queue' = Tail(queue)
  /\ UNCHANGED <<ropen, wopen>>

Close ==
  /\ \/ ropen /\ ropen' = FALSE /\ UNCHANGED wopen
     \/ wopen /\ wopen' = FALSE /\ UNCHANGED ropen
  /\ UNCHANGED <<queue, delivered>>

Next == Receive \/ Close \/ \E c \in Byte : Send(c)

Spec == Init /\ [][Next]_fifovars

============================================================================
