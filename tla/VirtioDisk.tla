----------------------------- MODULE VirtioDisk -----------------------------
(***************************************************************************)
(* kernel/virtio_disk.c: processes that queue requests, the interrupt      *)
(* handler, and the device (external, as the driver uses it).  The driver  *)
(* works under vdisk_lock; the device runs beside it, so everything it     *)
(* reads is written in steps of their own.                                 *)
(***************************************************************************)
EXTENDS Integers, FiniteSets, Sequences

CONSTANTS
  Proc,
  Buf,     \* buffers, each with its block; its sleep-lock is with the caller
  Value,
  NUM,     \* descriptors, and slots of each ring
  UINT16,  \* the number of values of a ring index
  Served,  \* requests served before the run, so that indices wrap in it
  MaxReq,  \* bound: the number of calls
  None     \* no process, no buffer, channel 0

ASSUME VirtioAssumption ==
  /\ NUM \in Nat /\ NUM >= 3 /\ UINT16 \in Nat \ {0} /\ UINT16 % NUM = 0
  /\ MaxReq \in Nat /\ Served \in Nat /\ None \notin Proc \cup Buf \cup {"free", "intr"}
  /\ "intr" \notin Proc /\ "free" \notin Buf

Desc == 0..(NUM - 1)

VARIABLES
  desc, ops, info,    \* the descriptor table, disk.ops, disk.info
  free,               \* the descriptors with disk.free[i] = 1
  avail, used,        \* rings and indices shared with the device
  used_idx,           \* disk.used_idx
  busy,               \* the buffers with b->disk = 1
  lock,               \* holder of vdisk_lock: a process, "intr" or None
  pc, req, chan,      \* of each process: where it is, its call, p->chan
  panic,
  taken, last, isr, kicked,  \* device: requests taken, next slot, interrupt, notified
  disk, data,         \* contents of the blocks and of the buffers
  nreq

queue == <<desc, ops, info, free>>
device == <<taken, last, kicked>>
blocks == <<disk, data>>
vars == <<desc, ops, info, free, avail, used, used_idx, busy, lock, pc, req, chan,
          panic, taken, last, isr, kicked, disk, data, nreq>>

Goto(p, l) == pc' = [pc EXCEPT ![p] = l]

Woken(c) == [q \in Proc |-> IF chan[q] = c THEN None ELSE chan[q]]

Cleared == [addr |-> 0, flags |-> {}, next |-> 0]
NoReq == [b |-> None, write |-> FALSE, idx |-> <<>>]

----------------------------------------------------------------------------
(* bread or bwrite, which hold b's sleep-lock, call virtio_disk_rw; before  *)
(* a write the caller changed the buffer, before a read it holds anything.  *)
virtio_disk_rw(p, b, w) ==
  /\ pc[p] = "idle" /\ nreq < MaxReq
  /\ \A q \in Proc : req[q].b # b
  /\ \E v \in Value : data' = [data EXCEPT ![b] = v]
  /\ req' = [req EXCEPT ![p] = [b |-> b, write |-> w, idx |-> <<>>]]
  /\ Goto(p, "alloc")
  /\ nreq' = nreq + 1
  /\ UNCHANGED <<queue, avail, used, used_idx, busy, lock, chan, panic, device, isr, disk>>

(* alloc_desc takes the first free descriptor, alloc3_desc the first three. *)
Lowest(S) == CHOOSE i \in S : \A j \in S : i <= j
FirstThree ==
  LET i == Lowest(free)
      j == Lowest(free \ {i})
      k == Lowest(free \ {i, j})
  IN  <<i, j, k>>

alloc3_desc(p) ==
  /\ pc[p] = "alloc" /\ lock = None /\ Cardinality(free) >= 3
  /\ lock' = p
  /\ req' = [req EXCEPT ![p].idx = FirstThree]
  /\ free' = free \ {FirstThree[k] : k \in 1..3}
  /\ Goto(p, "fill")
  /\ UNCHANGED <<desc, ops, info, avail, used, used_idx, busy, chan, panic, device, isr,
                 blocks, nreq>>

(* Fewer than three are free: alloc3_desc takes them and frees them again,  *)
(* which wakes the other waiters; then sleep_prepare and release.           *)
alloc3_fails(p) ==
  /\ pc[p] = "alloc" /\ lock = None /\ Cardinality(free) < 3
  /\ desc' = [i \in Desc |-> IF i \in free THEN Cleared ELSE desc[i]]
  /\ chan' = [(IF free = {} THEN chan ELSE Woken("free")) EXCEPT ![p] = "free"]
  /\ Goto(p, "sleep_free")
  /\ UNCHANGED <<ops, info, free, avail, used, used_idx, busy, lock, req, panic, device,
                 isr, blocks, nreq>>

(* The three descriptors, disk.ops, disk.info and b->disk. *)
fill(p) ==
  LET b == req[p].b
      i == req[p].idx
  IN  /\ pc[p] = "fill"
      /\ ops' = [ops EXCEPT ![i[1]] =
                   [type |-> IF req[p].write THEN "OUT" ELSE "IN", sector |-> b]]
      /\ desc' = [desc EXCEPT
           ![i[1]] = [addr |-> i[1], flags |-> {"NEXT"}, next |-> i[2]],
           ![i[2]] = [addr |-> b, next |-> i[3],
                      flags |-> IF req[p].write THEN {"NEXT"} ELSE {"NEXT", "WRITE"}],
           ![i[3]] = [addr |-> i[1], flags |-> {"WRITE"}, next |-> 0]]
      /\ info' = [info EXCEPT ![i[1]] = [b |-> b, status |-> 255]]
      /\ busy' = busy \cup {b}
      /\ Goto(p, "enqueue")
      /\ UNCHANGED <<free, avail, used, used_idx, lock, req, chan, panic, device, isr,
                     blocks, nreq>>

(* The slot of a ring index. *)
Slot(i) == i % NUM

(* avail->ring, fence, avail->idx, fence, QUEUE_NOTIFY. *)
enqueue(p) ==
  /\ pc[p] = "enqueue"
  /\ avail' = [avail EXCEPT !.ring[Slot(avail.idx)] = req[p].idx[1]]
  /\ Goto(p, "publish")
  /\ UNCHANGED <<queue, used, used_idx, busy, lock, req, chan, panic, device, isr, blocks, nreq>>

publish(p) ==
  /\ pc[p] = "publish"
  /\ avail' = [avail EXCEPT !.idx = (@ + 1) % UINT16]
  /\ Goto(p, "notify")
  /\ UNCHANGED <<queue, used, used_idx, busy, lock, req, chan, panic, device, isr, blocks, nreq>>

notify(p) ==
  /\ pc[p] = "notify"
  /\ kicked' = TRUE
  /\ Goto(p, "wait")
  /\ UNCHANGED <<queue, avail, used, used_idx, busy, lock, req, chan, panic, taken, last,
                 isr, blocks, nreq>>

(* while (b->disk == 1), tested with vdisk_lock held. *)
MutDoneIfKilled(p) == req[p].b \notin busy \/ chan[p] # None
Done(p) == req[p].b \notin busy

wait(p) ==
  /\ pc[p] = "wait" /\ ~Done(p)
  /\ chan' = [chan EXCEPT ![p] = req[p].b]
  /\ lock' = None
  /\ Goto(p, "sleep_buf")
  /\ UNCHANGED <<queue, avail, used, used_idx, busy, req, panic, device, isr, disk, data,
                 nreq>>

(* sleep() returns: the channel was cleared. *)
sleep(p) ==
  /\ pc[p] \in {"sleep_free", "sleep_buf"} /\ chan[p] = None
  /\ Goto(p, IF pc[p] = "sleep_free" THEN "alloc" ELSE "acquire")
  /\ UNCHANGED <<queue, avail, used, used_idx, busy, lock, req, chan, panic, device, isr,
                 blocks, nreq>>

(* kkill makes a sleeper run again, its channel still set. *)
kkill(p) ==
  /\ pc[p] \in {"sleep_free", "sleep_buf"} /\ chan[p] # None
  /\ Goto(p, IF pc[p] = "sleep_free" THEN "alloc" ELSE "acquire")
  /\ UNCHANGED <<queue, avail, used, used_idx, busy, lock, req, chan, panic, device, isr,
                 blocks, nreq>>

acquire(p) ==
  /\ pc[p] = "acquire" /\ lock = None
  /\ lock' = p
  /\ Goto(p, "wait")
  /\ UNCHANGED <<queue, avail, used, used_idx, busy, req, chan, panic, device, isr, blocks, nreq>>

(* free_chain follows next from the head while F_NEXT is set. *)
MutHeadOnly(h) == {h}
Chain(h) ==
  LET n == desc[h].next
      m == desc[n].next
  IN  IF "NEXT" \notin desc[h].flags THEN {h}
      ELSE IF "NEXT" \notin desc[n].flags THEN {h, n} ELSE {h, n, m}

(* The request is done: free_chain, whose free_desc panics on a free        *)
(* descriptor and wakes those who wait for descriptors.                     *)
free_chain(p) ==
  LET h == req[p].idx[1]
  IN  /\ pc[p] = "wait" /\ Done(p)
      /\ panic' = (panic \/ Chain(h) \cap free # {})
      /\ info' = [info EXCEPT ![h].b = None]
      /\ desc' = [i \in Desc |-> IF i \in Chain(h) THEN Cleared ELSE desc[i]]
      /\ free' = free \cup Chain(h)
      /\ chan' = Woken("free")
      /\ req' = [req EXCEPT ![p] = NoReq]
      /\ lock' = None
      /\ Goto(p, "idle")
      /\ UNCHANGED <<ops, avail, used, used_idx, busy, device, isr, blocks, nreq>>

----------------------------------------------------------------------------
(* virtio_disk_intr: acquire and acknowledge, then one entry of the used    *)
(* ring at a time, until the device's index is reached.                     *)
virtio_disk_intr ==
  /\ isr /\ lock = None
  /\ lock' = "intr"
  /\ isr' = FALSE
  /\ UNCHANGED <<queue, avail, used, used_idx, busy, pc, req, chan, panic, device, blocks, nreq>>

UsedEntry == used.ring[Slot(used_idx)]

intr_entry ==
  LET id == UsedEntry
      b == info[id].b
  IN  /\ lock = "intr" /\ used_idx # used.idx
      /\ panic' = (panic \/ info[id].status # 0 \/ b = None)
      /\ busy' = busy \ {b}
      /\ chan' = Woken(b)
      /\ used_idx' = (used_idx + 1) % UINT16
      /\ UNCHANGED <<queue, avail, used, lock, pc, req, device, isr, blocks, nreq>>

MutOneEntry ==
  /\ lock = "intr"
  /\ lock' = None
  /\ UNCHANGED <<queue, avail, used, used_idx, busy, pc, req, chan, panic, device, isr,
                 blocks, nreq>>

intr_done ==
  /\ lock = "intr" /\ used_idx = used.idx
  /\ lock' = None
  /\ UNCHANGED <<queue, avail, used, used_idx, busy, pc, req, chan, panic, device, isr,
                 blocks, nreq>>

----------------------------------------------------------------------------
(* The device reads the next slot and the chain it names. *)
dev_take ==
  LET h == avail.ring[last % NUM]
      d1 == desc[h]
      d2 == desc[d1.next]
      d3 == desc[d2.next]
      op == ops[d1.addr]
  IN  /\ last # avail.idx
      /\ taken' = taken \cup
           {[id |-> h, type |-> op.type, sector |-> op.sector, buf |-> d2.addr,
             status |-> d3.addr,
             ok |-> /\ "NEXT" \in d1.flags /\ "NEXT" \in d2.flags
                    /\ d3.flags = {"WRITE"}
                    /\ ("WRITE" \in d2.flags) = (op.type = "IN")]}
      /\ last' = (last + 1) % UINT16
      /\ kicked' = (kicked /\ last' # avail.idx)
      /\ UNCHANGED <<queue, avail, used, used_idx, busy, lock, pc, req, chan, panic, isr,
                     blocks, nreq>>

(* It transfers a block, writes the status, then the used ring, then its    *)
(* index, and raises the interrupt.                                         *)
dev_complete(r) ==
  /\ r \in taken
  /\ taken' = taken \ {r}
  /\ disk' = IF r.ok /\ r.type = "OUT" THEN [disk EXCEPT ![r.sector] = data[r.buf]] ELSE disk
  /\ data' = IF r.ok /\ r.type = "IN" THEN [data EXCEPT ![r.buf] = disk[r.sector]] ELSE data
  /\ info' = [info EXCEPT ![r.status].status = IF r.ok THEN 0 ELSE 1]
  /\ used' = [ring |-> [used.ring EXCEPT ![used.idx % NUM] = r.id],
              idx |-> (used.idx + 1) % UINT16]
  /\ isr' = TRUE
  /\ UNCHANGED <<desc, ops, free, avail, used_idx, busy, lock, pc, req, chan, panic, last,
                 kicked, nreq>>

----------------------------------------------------------------------------
(* virtio_disk_init, which zeroes the pages of the queue; then Served       *)
(* requests one after the other, which all used descriptor 0.               *)
Init ==
  /\ desc = [i \in Desc |-> Cleared]
  /\ ops = [i \in Desc |-> [type |-> "IN", sector |-> None]]
  /\ info = [i \in Desc |-> [b |-> None, status |-> 0]]
  /\ free = Desc
  /\ avail = [ring |-> [i \in Desc |-> 0], idx |-> Served % UINT16]
  /\ used = [ring |-> [i \in Desc |-> 0], idx |-> Served % UINT16]
  /\ used_idx = Served % UINT16 /\ busy = {} /\ lock = None
  /\ pc = [p \in Proc |-> "idle"] /\ req = [p \in Proc |-> NoReq]
  /\ chan = [p \in Proc |-> None]
  /\ panic = FALSE
  /\ taken = {} /\ last = Served % UINT16 /\ isr = FALSE /\ kicked = FALSE
  /\ \E v \in Value : disk = [b \in Buf |-> v] /\ data = [b \in Buf |-> v]
  /\ nreq = 0

Rw(p) ==
  \/ alloc3_desc(p) \/ alloc3_fails(p) \/ fill(p) \/ enqueue(p) \/ publish(p)
  \/ notify(p) \/ wait(p) \/ sleep(p) \/ acquire(p) \/ free_chain(p)

Intr == virtio_disk_intr \/ intr_entry \/ intr_done

Next ==
  \/ \E p \in Proc :
       Rw(p) \/ kkill(p) \/ \E b \in Buf, w \in BOOLEAN : virtio_disk_rw(p, b, w)
  \/ Intr
  \/ dev_take \/ \E r \in taken : dev_complete(r)

Spec == Init /\ [][Next]_vars

----------------------------------------------------------------------------
Queued == {"enqueue", "publish", "notify", "wait", "sleep_buf", "acquire"}

(* The descriptors of a call belong to no other call and are not free, until *)
(* free_chain gives back all three; none is ever lost.  So neither          *)
(* free_desc nor virtio_disk_intr panics.                                   *)
Holds(p) == {req[p].idx[k] : k \in DOMAIN req[p].idx}
ChainsExact ==
  /\ ~panic
  /\ \A p, q \in Proc : p # q => Holds(p) \cap Holds(q) = {}
  /\ free = Desc \ UNION {Holds(p) : p \in Proc}

(* A process stays asleep only while what it waits for is missing: three    *)
(* descriptors, or the device's answer, although the lock is released       *)
(* between sleep_prepare and sleep.  An entry of the used ring the handler  *)
(* has not seen has an interrupt to come or a handler still at work:        *)
(* acknowledging before reading the ring loses no completion.               *)
NoLostWakeup ==
  /\ used_idx # used.idx => isr \/ lock = "intr"
  /\ \A p \in Proc :
       /\ pc[p] = "sleep_free" /\ chan[p] # None => Cardinality(free) < 3
       /\ pc[p] = "sleep_buf" /\ chan[p] # None => req[p].b \in busy

(* The driver with its device implements DiskService: every call transfers  *)
(* its own block exactly once before it returns, whatever order the device  *)
(* chooses and however often the caller is woken.                           *)
Service == INSTANCE DiskService WITH calls <- [p \in Proc |->
  IF req[p].b = None THEN [st |-> "idle"]
  ELSE [st |-> IF pc[p] \in Queued /\ info[req[p].idx[1]].status # 255
               THEN "served" ELSE "pending",
        b |-> req[p].b, write |-> req[p].write]]
IsDisk == Service!Spec

=============================================================================
