------------------------------ MODULE BufCache ------------------------------
(***************************************************************************)
(* The buffer cache of kernel/bio.c and the sleep-locks of sleeplock.c that *)
(* its buffers carry.  Every section of code under bcache.lock, or under a *)
(* sleep-lock's lk, is one step; so is a transfer by virtio_disk_rw, which *)
(* runs under the buffer's sleep-lock.                                     *)
(*                                                                         *)
(* The callers are those of the log (log_write, install_trans) and of      *)
(* readers such as readi: between bread and brelse they may change the     *)
(* data, and they leave a changed buffer pinned or written.                *)
(***************************************************************************)
EXTENDS Naturals, FiniteSets, Functions

CONSTANTS
  Proc,    \* processes that use the cache, one buffer at a time
  Buf,     \* bcache.buf[NBUF]
  Block,   \* disk blocks
  Value,   \* contents of a block
  None,    \* no process, no block, no buffer, channel 0
  MaxPins  \* bound of the log: buffers pinned at a time (LOGBLOCKS)

ASSUME BufCacheAssumption ==
  /\ None \notin Proc \cup Buf \cup Block \cup Value
  /\ IsFiniteSet(Proc) /\ IsFiniteSet(Buf)
  /\ MaxPins \in Nat

VARIABLES
  disk,                            \* the blocks of the disk
  blockno, valid, refcnt, data,    \* fields of struct buf
  lru,                             \* the list of binit, head.next first
  lock,                            \* holder of a buffer's sleep-lock, or None
  pc, want, buf,                   \* of a process: where it is, its block, its b
  chan,                            \* p->chan: a buffer's sleep-lock, or None
  pinned,                          \* buffers the log pinned
  panic                            \* the message of panic(), or "none"

vars == <<disk, blockno, valid, refcnt, data, lru, lock, pc, want, buf, chan,
          pinned, panic>>

Goto(p, l) == pc' = [pc EXCEPT ![p] = l]

----------------------------------------------------------------------------
(***************************************************************************)
(* bget: the scan for the block, then the scan for an unused buffer from   *)
(* the least recently used end.                                            *)
(***************************************************************************)
Hit(k) == {b \in Buf : blockno[b] = k}

Unused == {b \in Buf : refcnt[b] = 0}

Victim(b) ==
  /\ b \in Unused
  /\ \A i, j \in DOMAIN lru : lru[i] = b /\ lru[j] \in Unused => j <= i

MutKeepValid(b, k) ==
  /\ blockno' = [blockno EXCEPT ![b] = k]
  /\ refcnt' = [refcnt EXCEPT ![b] = 1]
  /\ UNCHANGED valid

MutNoRefOnMiss(b, k) ==
  /\ blockno' = [blockno EXCEPT ![b] = k]
  /\ valid' = [valid EXCEPT ![b] = FALSE]
  /\ UNCHANGED refcnt

Recycle(b, k) ==
  /\ blockno' = [blockno EXCEPT ![b] = k]
  /\ valid' = [valid EXCEPT ![b] = FALSE]
  /\ refcnt' = [refcnt EXCEPT ![b] = 1]

bget(p, k) ==
  /\ pc[p] = "idle"
  /\ want' = [want EXCEPT ![p] = k]
  /\ IF Hit(k) = {} /\ Unused = {}
       THEN /\ panic' = "bget: no buffers"
            /\ UNCHANGED <<blockno, valid, refcnt, buf, pc>>
       ELSE \E b \in Buf :
            /\ \/ b \in Hit(k) /\ refcnt' = [refcnt EXCEPT ![b] = @ + 1]
                  /\ UNCHANGED <<blockno, valid>>
               \/ Hit(k) = {} /\ Victim(b) /\ Recycle(b, k)
            /\ buf' = [buf EXCEPT ![p] = b]
            /\ Goto(p, "acquiresleep")
            /\ UNCHANGED panic
  /\ UNCHANGED <<disk, data, lru, lock, chan, pinned>>

(* One turn of acquiresleep's loop; the rest of bread follows the lock. *)
acquiresleep(p) ==
  /\ pc[p] = "acquiresleep"
  /\ IF lock[buf[p]] # None
       THEN /\ chan' = [chan EXCEPT ![p] = buf[p]]
            /\ Goto(p, "sleep")
            /\ UNCHANGED lock
       ELSE /\ lock' = [lock EXCEPT ![buf[p]] = p]
            /\ Goto(p, "bread")
            /\ UNCHANGED chan
  /\ UNCHANGED <<disk, blockno, valid, refcnt, data, lru, want, buf, pinned, panic>>

(* sleep() returns after a wakeup or a kill; a kill leaves p->chan set. *)
sleep(p) ==
  /\ pc[p] = "sleep" /\ chan[p] = None
  /\ Goto(p, "acquiresleep")
  /\ UNCHANGED <<disk, blockno, valid, refcnt, data, lru, lock, want, buf, chan,
                 pinned, panic>>

kkill(p) ==
  /\ pc[p] = "sleep" /\ chan[p] # None
  /\ Goto(p, "acquiresleep")
  /\ UNCHANGED <<disk, blockno, valid, refcnt, data, lru, lock, want, buf, chan,
                 pinned, panic>>

bread(p) ==
  /\ pc[p] = "bread"
  /\ IF valid[buf[p]] THEN UNCHANGED <<data, valid>>
     ELSE /\ data' = [data EXCEPT ![buf[p]] = disk[blockno[buf[p]]]]
          /\ valid' = [valid EXCEPT ![buf[p]] = TRUE]
  /\ Goto(p, "use")
  /\ UNCHANGED <<disk, blockno, refcnt, lru, lock, want, buf, chan, pinned, panic>>

----------------------------------------------------------------------------
(***************************************************************************)
(* What callers do with the buffer they hold.  The log pins a changed      *)
(* buffer once, writes it when it installs it, and unpins it then.         *)
(***************************************************************************)
Dirty(b) == data[b] # disk[blockno[b]]

log_write(p, v) ==
  /\ pc[p] = "use" /\ (buf[p] \in pinned \/ Cardinality(pinned) < MaxPins)
  /\ data' = [data EXCEPT ![buf[p]] = v]
  /\ IF buf[p] \in pinned THEN UNCHANGED <<refcnt, pinned>>
     ELSE /\ refcnt' = [refcnt EXCEPT ![buf[p]] = @ + 1]   \* bpin
          /\ pinned' = pinned \cup {buf[p]}
  /\ UNCHANGED <<disk, blockno, valid, lru, lock, pc, want, buf, chan, panic>>

bwrite(p) ==
  /\ pc[p] = "use"
  /\ IF lock[buf[p]] # p THEN panic' = "bwrite" /\ UNCHANGED disk
     ELSE disk' = [disk EXCEPT ![blockno[buf[p]]] = data[buf[p]]] /\ UNCHANGED panic
  /\ UNCHANGED <<blockno, valid, refcnt, data, lru, lock, pc, want, buf, chan, pinned>>

bunpin(p) ==
  /\ pc[p] = "use" /\ buf[p] \in pinned /\ ~Dirty(buf[p])
  /\ refcnt' = [refcnt EXCEPT ![buf[p]] = @ - 1]
  /\ pinned' = pinned \ {buf[p]}
  /\ UNCHANGED <<disk, blockno, valid, data, lru, lock, pc, want, buf, chan, panic>>

(***************************************************************************)
(* brelse: releasesleep with its wakeup, then the reference count and the  *)
(* move to the most recently used end under bcache.lock.                   *)
(***************************************************************************)
MutNoWakeup(b) == UNCHANGED chan
wakeup(b) == chan' = [q \in Proc |-> IF chan[q] = b THEN None ELSE chan[q]]

releasesleep(p) ==
  /\ pc[p] = "use"
  /\ IF lock[buf[p]] # p
       THEN panic' = "brelse" /\ UNCHANGED <<lock, pc, chan>>
       ELSE /\ lock' = [lock EXCEPT ![buf[p]] = None]
            /\ wakeup(buf[p])
            /\ Goto(p, "brelse")
            /\ UNCHANGED panic
  /\ UNCHANGED <<disk, blockno, valid, refcnt, data, lru, want, buf, pinned>>

MoveToFront(b) ==
  LET at == CHOOSE i \in DOMAIN lru : lru[i] = b
  IN  [i \in DOMAIN lru |-> IF i = 1 THEN b ELSE IF i <= at THEN lru[i - 1] ELSE lru[i]]

brelse(p) ==
  /\ pc[p] = "brelse"
  /\ refcnt' = [refcnt EXCEPT ![buf[p]] = @ - 1]
  /\ lru' = IF refcnt[buf[p]] = 1 THEN MoveToFront(buf[p]) ELSE lru
  /\ buf' = [buf EXCEPT ![p] = None]
  /\ want' = [want EXCEPT ![p] = None]
  /\ Goto(p, "idle")
  /\ UNCHANGED <<disk, blockno, valid, data, lock, chan, pinned, panic>>

----------------------------------------------------------------------------
(* binit; the data of a buffer starts as zeroed memory. *)
Init ==
  /\ disk \in [Block -> Value]
  /\ blockno = [b \in Buf |-> None]
  /\ valid = [b \in Buf |-> FALSE]
  /\ refcnt = [b \in Buf |-> 0]
  /\ \E zero \in Value : data = [b \in Buf |-> zero]
  /\ lru = CHOOSE list \in Bijection(1..Cardinality(Buf), Buf) : TRUE
  /\ lock = [b \in Buf |-> None]
  /\ pc = [p \in Proc |-> "idle"]
  /\ want = [p \in Proc |-> None]
  /\ buf = [p \in Proc |-> None]
  /\ chan = [p \in Proc |-> None]
  /\ pinned = {}
  /\ panic = "none"

(* A caller leaves a changed buffer pinned, or written (write_log, write_head). *)
Release(p) ==
  /\ pc[p] = "use" /\ (buf[p] \in pinned \/ ~Dirty(buf[p]))
  /\ releasesleep(p)

(* panic() ends in a loop, with bcache.lock still held after bget's. *)
halted == panic # "none" /\ UNCHANGED vars

Next ==
  \/ /\ panic = "none"
     /\ \E p \in Proc :
          \/ \E k \in Block : bget(p, k)
          \/ acquiresleep(p) \/ sleep(p) \/ kkill(p) \/ bread(p)
          \/ \E v \in Value : log_write(p, v)
          \/ bwrite(p) \/ bunpin(p) \/ Release(p) \/ brelse(p)
  \/ halted

Spec == Init /\ [][Next]_vars

----------------------------------------------------------------------------
(* refcnt is exactly the processes inside bget .. brelse plus the log's     *)
(* pin, over any interleaving of brelse's two sections with a new bget.  So *)
(* "bwrite" and "brelse" are never reached, and "bget: no buffers" only     *)
(* when the processes inside and the pins really take up all of NBUF: no    *)
(* reference is left behind.                                                *)
RefcntExact ==
  /\ \A b \in Buf : refcnt[b] = Cardinality({p \in Proc : buf[p] = b})
                                + Cardinality(pinned \cap {b})
  /\ panic # "none" =>
       /\ panic = "bget: no buffers"
       /\ Cardinality(Buf) <= Cardinality({p \in Proc : buf[p] # None}) + Cardinality(pinned)

(* acquiresleep and releasesleep lose no wakeup: a process with its channel *)
(* set, in or before sleep(), waits for a lock that is held.                *)
NoLostWakeup ==
  \A p \in Proc : pc[p] = "sleep" /\ chan[p] # None => lock[chan[p]] # None

(* The cache implements BlockStore: a block has one value however it is     *)
(* cached, evicted and read again, and only the holder changes it.          *)
Store ==
  INSTANCE BlockStore WITH
    contents <- [k \in Block |->
                   IF \E b \in Hit(k) : valid[b]
                     THEN data[CHOOSE b \in Hit(k) : valid[b]] ELSE disk[k]],
    owner <- [k \in Block |->
                IF \E p \in Proc : pc[p] = "use" /\ want[p] = k
                  THEN CHOOSE p \in Proc : pc[p] = "use" /\ want[p] = k ELSE None]
Coherent == Store!Spec

============================================================================
