---------------------------- MODULE DiskService ----------------------------
(***************************************************************************)
(* What virtio_disk_rw promises bread and bwrite: a call returns after its *)
(* block was transferred, once, between the buffer and the disk.  Calls    *)
(* are served in any order.                                                *)
(***************************************************************************)
CONSTANTS Proc, Buf, Value

VARIABLES
  disk, data,  \* contents of each block on the disk and in its buffer
  calls        \* for each process the call it is in

dsvars == <<disk, data, calls>>

Idle == [st |-> "idle"]
Call(s, b, w) == [st |-> s, b |-> b, write |-> w]

Init ==
  /\ disk \in [Buf -> Value] /\ data \in [Buf -> Value]
  /\ calls = [p \in Proc |-> Idle]

Request(p, b, w) ==
  /\ calls[p] = Idle
  /\ \A q \in Proc : calls[q] # Idle => calls[q].b # b
  /\ calls' = [calls EXCEPT ![p] = Call("pending", b, w)]
  /\ \E v \in Value : data' = [data EXCEPT ![b] = v]
  /\ UNCHANGED disk

Serve(p) ==
  /\ calls[p].st = "pending"
  /\ calls' = [calls EXCEPT ![p].st = "served"]
  /\ LET b == calls[p].b
     IN  IF calls[p].write
         THEN disk' = [disk EXCEPT ![b] = data[b]] /\ UNCHANGED data
         ELSE data' = [data EXCEPT ![b] = disk[b]] /\ UNCHANGED disk

Return(p) ==
  /\ calls[p].st = "served"
  /\ calls' = [calls EXCEPT ![p] = Idle]
  /\ UNCHANGED <<disk, data>>

Next == \E p \in Proc :
          (\E b \in Buf, w \in BOOLEAN : Request(p, b, w)) \/ Serve(p) \/ Return(p)

Spec == Init /\ [][Next]_dsvars

============================================================================
