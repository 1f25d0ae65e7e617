----------------------------- MODULE PipeProofs -----------------------------
(***************************************************************************)
(* Pipe loses no wakeup, read() returns 0 only at the end of the stream,   *)
(* and the bytes read off the ring are those of Fifo, for any number of    *)
(* readers and writers, any PIPESIZE and any width of the indices that it  *)
(* divides.                                                                *)
(*                                                                         *)
(* NoLostWakeup speaks of the states in which pi->lock is free.  While it  *)
(* is held the buffer may already have changed, so IInv names who owes the *)
(* wakeup: a reader that is copying, or a writer that has put bytes.  For  *)
(* Fifo, FifoInv adds that the two indices are at most PIPESIZE apart and  *)
(* which ends the table of open files still holds.                         *)
(***************************************************************************)
EXTENDS Pipe, TLAPS

PcValues == Locked \cup {"idle", "acquire", "sleep", "pipeclose"}

Types ==
  /\ lock \in Proc \cup {None}
  /\ pc \in [Proc -> PcValues]
  /\ i \in [Proc -> Int] /\ n \in [Proc -> Nat]
  /\ chan \in [Proc -> {"nread", "nwrite", None}]

(* pi->lock is held exactly inside the loops, by a process of that end. *)
Holder ==
  \A p \in Proc :
    /\ pc[p] \in Locked <=> lock = p
    /\ pc[p] \in {"pipewrite", "pipewrite_end"} => p \in Writer
    /\ pc[p] \in {"piperead", "piperead_copy", "piperead_end"} => p \in Reader

(* The local i: a reader that waits has copied nothing. *)
Index ==
  \A p \in Proc :
    /\ pc[p] \in {"acquire", "sleep", "pipewrite", "piperead_copy"} => i[p] >= 0
    /\ pc[p] \in {"acquire", "sleep", "piperead"} /\ p \in Reader => i[p] = 0
    /\ pc[p] = "piperead_end" => i[p] # 0

(* Who owes the waiting writers, and the waiting readers, a wakeup. *)
ReaderOwes == \E q \in Proc : pc[q] \in {"piperead_copy", "piperead_end"}
WriterOwes == \E q \in Proc : \/ pc[q] = "pipewrite" /\ i[q] > 0
                              \/ pc[q] = "pipewrite_end"

Waiting ==
  \A p \in Proc : pc[p] = "sleep" =>
    /\ chan[p] = "nwrite" => readopen /\ (Full \/ ReaderOwes)
    /\ chan[p] = "nread" => writeopen /\ (Empty \/ silent \/ WriterOwes)

(* A read goes on to copy because there is a byte, or no writer. *)
Copying ==
  \A p \in Proc : pc[p] = "piperead_copy" /\ i[p] = 0 => ~Empty \/ ~writeopen

IInv == Types /\ Holder /\ Index /\ Waiting /\ Copying

----------------------------------------------------------------------------
LEMMA Constants ==
  /\ None \notin Proc /\ "nread" # None /\ "nwrite" # None
  /\ Counts \subseteq Nat
  /\ \A p \in Proc : p \in Reader <=> p \notin Writer
BY Zenon, PipeAssumption DEF Proc

LEMMA InitInv == Init => IInv
<1> SUFFICES ASSUME Init PROVE IInv
  BY Zenon
<1> QED
  BY Constants DEF Init, IInv, Types, Holder, Index, Waiting, Copying, PcValues, Locked

(* The holder of pi->lock is the only process in the loops. *)
LEMMA OneHolder ==
  ASSUME IInv, NEW p \in Proc, NEW q \in Proc, pc[p] \in Locked, pc[q] \in Locked
  PROVE  p = q
BY Zenon DEF IInv, Holder

(* Steps outside the loops: calls, sleep() returning, a kill, close(). *)
LEMMA Outside ==
  ASSUME IInv, NEW p \in Proc,
         \/ \E k \in Counts : call(p, k)
         \/ sleep(p) \/ fileclose(p) \/ kkill(p)
  PROVE  IInv'
<1>1. CASE \E k \in Counts : call(p, k)
  <2> PICK k \in Counts : call(p, k)
    BY Zenon, <1>1
  <2>1. /\ pc[p] = "idle" /\ pc' = [pc EXCEPT ![p] = "acquire"]
        /\ i' = [i EXCEPT ![p] = 0] /\ n' = [n EXCEPT ![p] = k] /\ k \in Nat
        /\ UNCHANGED <<nread, nwrite, readopen, writeopen, lock, chan, silent>>
    BY Zenon, Constants DEF call, Goto, ring
  <2> QED
    BY <2>1, Constants DEF IInv, Types, Holder, Index, Waiting, Copying, PcValues, Locked,
                ReaderOwes, WriterOwes, Full, Empty
<1>2. CASE sleep(p)
  <2>1. /\ pc[p] = "sleep" /\ pc' = [pc EXCEPT ![p] = "acquire"]
        /\ UNCHANGED <<nread, nwrite, readopen, writeopen, lock, chan, silent, i, n>>
    BY Zenon, <1>2 DEF sleep, Goto, ring
  <2> QED
    BY <2>1, Constants DEF IInv, Types, Holder, Index, Waiting, Copying, PcValues, Locked,
                ReaderOwes, WriterOwes, Full, Empty
<1>3. CASE fileclose(p)
  <2>1. /\ pc[p] = "idle" /\ \E l \in {"idle", "pipeclose"} : pc' = [pc EXCEPT ![p] = l]
        /\ UNCHANGED <<nread, nwrite, readopen, writeopen, lock, chan, silent, i, n>>
    BY Zenon, <1>3 DEF fileclose, Goto, ring
  <2> QED
    BY <2>1, Constants DEF IInv, Types, Holder, Index, Waiting, Copying, PcValues, Locked,
                ReaderOwes, WriterOwes, Full, Empty
<1>4. CASE kkill(p)
  <2>1. /\ pc' = pc \/ (pc[p] = "sleep" /\ pc' = [pc EXCEPT ![p] = "acquire"])
        /\ UNCHANGED <<nread, nwrite, readopen, writeopen, lock, chan, silent, i, n>>
    BY Zenon, <1>4 DEF kkill, Goto, ring
  <2> QED
    BY <2>1, Constants DEF IInv, Types, Holder, Index, Waiting, Copying, PcValues, Locked,
                ReaderOwes, WriterOwes, Full, Empty
<1> QED
  BY Zenon, <1>1, <1>2, <1>3, <1>4

(* Taking the lock, and pipeclose, which needs it free. *)
LEMMA TakesLock ==
  ASSUME IInv, NEW p \in Proc, acquire(p) \/ pipeclose(p)
  PROVE  IInv'
<1>1. CASE acquire(p)
  <2>1. /\ pc[p] = "acquire" /\ lock = None /\ lock' = p
        /\ pc' = [pc EXCEPT ![p] = IF p \in Writer THEN "pipewrite" ELSE "piperead"]
        /\ UNCHANGED <<nread, nwrite, readopen, writeopen, chan, silent, i, n>>
    BY Zenon, <1>1 DEF acquire, Goto, ring
  <2> QED
    BY <2>1, Constants DEF IInv, Types, Holder, Index, Waiting, Copying, PcValues, Locked,
                ReaderOwes, WriterOwes, Full, Empty
<1>2. CASE pipeclose(p)
  <2>1. /\ pc[p] = "pipeclose" /\ lock = None /\ pc' = [pc EXCEPT ![p] = "idle"]
        /\ \/ /\ chan' = [q \in Proc |-> IF chan[q] = "nread" THEN None ELSE chan[q]]
              /\ UNCHANGED readopen
           \/ /\ chan' = [q \in Proc |-> IF chan[q] = "nwrite" THEN None ELSE chan[q]]
              /\ UNCHANGED <<writeopen, silent>>
        /\ UNCHANGED <<nread, nwrite, lock, i, n>>
    BY Zenon, <1>2 DEF pipeclose, wakeup, Goto, ring
  <2>2. \A q \in Proc : pc[q] \notin Locked
    BY Zenon, <2>1, Constants DEF IInv, Holder
  <2> QED
    BY <2>1, <2>2, Constants DEF IInv, Types, Holder, Index, Waiting, Copying, PcValues, Locked,
                ReaderOwes, WriterOwes, Full, Empty
<1> QED
  BY Zenon, <1>1, <1>2

(* A turn of pipewrite's loop, and its end. *)
LEMMA Writes ==
  ASSUME IInv, NEW p \in Proc, pipewrite(p)
  PROVE  IInv'
<1>0. /\ pc[p] \in {"pipewrite", "pipewrite_end"} /\ p \in Writer /\ lock = p
      /\ \A q \in Proc : pc[q] \in Locked => q = p
  <2>1. pc[p] \in {"pipewrite", "pipewrite_end"}
    BY Zenon DEF pipewrite, pipewrite_fails, pipewrite_full, pipewrite_byte, pipewrite_copyin,
           pipewrite_end
  <2>2. pc[p] \in Locked
    BY Zenon, <2>1 DEF Locked
  <2> QED
    BY Zenon, <2>1, <2>2, OneHolder DEF IInv, Holder
<1>1. CASE pipewrite_fails(p)
  <2>1. /\ pc[p] = "pipewrite" /\ lock' = None /\ pc' = [pc EXCEPT ![p] = "idle"]
        /\ i' = [i EXCEPT ![p] = 0] /\ n' = [n EXCEPT ![p] = 0]
        /\ silent' = (silent \/ i[p] > 0)
        /\ UNCHANGED <<nread, nwrite, readopen, writeopen, chan>>
    BY Zenon, <1>1 DEF pipewrite_fails, Return, Goto, ring
  <2>2. ~ReaderOwes /\ (silent \/ WriterOwes => silent')
    BY Zenon, <1>0, <2>1 DEF ReaderOwes, WriterOwes, Locked
  <2>3. Types' /\ Holder' /\ Index' /\ Copying'
    BY <1>0, <2>1, Constants DEF IInv, Types, Holder, Index, Copying, PcValues, Locked, Empty
  <2>4. Waiting'
    BY Zenon, <2>1, <2>2 DEF IInv, Types, Waiting, Full, Empty
  <2> QED
    BY Zenon, <2>3, <2>4 DEF IInv
<1>2. CASE pipewrite_full(p)
  <2>1. /\ pc[p] = "pipewrite" /\ lock' = None /\ pc' = [pc EXCEPT ![p] = "sleep"]
        /\ readopen /\ Full
        /\ chan' = [q \in Proc |-> IF q = p THEN "nwrite"
                                   ELSE IF chan[q] = "nread" THEN None ELSE chan[q]]
        /\ UNCHANGED <<nread, nwrite, readopen, writeopen, i, n>>
    BY Zenon, <1>2 DEF pipewrite_full, Goto, ring
  <2> QED
    BY Zenon, <1>0, <2>1, Constants DEF IInv, Types, Holder, Index, Waiting, Copying, PcValues, Locked,
                ReaderOwes, WriterOwes, Full, Empty
<1>3. CASE pipewrite_byte(p)
  <2>1. /\ pc[p] = "pipewrite" /\ ~Full /\ i' = [i EXCEPT ![p] = i[p] + 1]
        /\ UNCHANGED <<readopen, writeopen, lock, pc, n, chan, silent>>
    BY Zenon, <1>3 DEF pipewrite_byte
  <2>2. \A q \in Proc : pc[q] = "sleep" => chan[q] # "nwrite"
    BY Zenon, <1>0, <2>1 DEF IInv, Waiting, ReaderOwes, Locked
  <2>3. i[p] \in Int /\ i[p] >= 0 /\ i'[p] = i[p] + 1
    BY Zenon, <2>1 DEF IInv, Types, Index
  <2>4. WriterOwes'
    BY <2>1, <2>3 DEF WriterOwes
  <2>5. Types' /\ Holder' /\ Index'
    BY <1>0, <2>1, <2>3 DEF IInv, Types, Holder, Index, PcValues, Locked
  <2>6. Waiting'
    BY Zenon, <2>1, <2>2, <2>4 DEF IInv, Waiting
  <2>7. Copying'
    BY Zenon, <1>0, <2>1 DEF Copying, Locked
  <2> QED
    BY Zenon, <2>5, <2>6, <2>7 DEF IInv
<1>4. CASE pipewrite_copyin(p)
  <2>1. /\ pc[p] = "pipewrite" /\ pc' = [pc EXCEPT ![p] = "pipewrite_end"]
        /\ i' = [i EXCEPT ![p] = IF i[p] = 0 THEN -1 ELSE i[p]]
        /\ UNCHANGED <<nread, nwrite, readopen, writeopen, lock, n, chan, silent>>
    BY Zenon, <1>4 DEF pipewrite_copyin, Goto, ring
  <2> QED
    BY <1>0, <2>1, Constants DEF IInv, Types, Holder, Index, Waiting, Copying, PcValues, Locked,
                ReaderOwes, WriterOwes, Full, Empty
<1>5. CASE pipewrite_end(p)
  <2>1. /\ lock' = None /\ pc' = [pc EXCEPT ![p] = "idle"]
        /\ i' = [i EXCEPT ![p] = 0] /\ n' = [n EXCEPT ![p] = 0]
        /\ chan' = [q \in Proc |-> IF chan[q] = "nread" THEN None ELSE chan[q]]
        /\ UNCHANGED <<nread, nwrite, readopen, writeopen>>
    BY Zenon, <1>5 DEF pipewrite_end, Return, wakeup, Goto, ring
  <2> QED
    BY <1>0, <2>1, Constants DEF IInv, Types, Holder, Index, Waiting, Copying, PcValues, Locked,
                ReaderOwes, WriterOwes, Full, Empty
<1> QED
  BY Zenon, <1>1, <1>2, <1>3, <1>4, <1>5 DEF pipewrite

(* The two loops of piperead, and its end. *)
LEMMA Reads ==
  ASSUME IInv, NEW p \in Proc, piperead(p)
  PROVE  IInv'
<1>0. /\ pc[p] \in {"piperead", "piperead_copy", "piperead_end"} /\ p \in Reader /\ lock = p
      /\ \A q \in Proc : pc[q] \in Locked => q = p
  <2>1. pc[p] \in {"piperead", "piperead_copy", "piperead_end"}
    BY Zenon DEF piperead, piperead_killed, piperead_wait, piperead_ready, piperead_byte,
           piperead_copyout, piperead_end
  <2>2. pc[p] \in Locked
    BY Zenon, <2>1 DEF Locked
  <2> QED
    BY Zenon, <2>1, <2>2, OneHolder DEF IInv, Holder
<1>1. CASE piperead_killed(p)
  <2>1. /\ pc[p] = "piperead" /\ lock' = None /\ pc' = [pc EXCEPT ![p] = "idle"]
        /\ i' = [i EXCEPT ![p] = 0] /\ n' = [n EXCEPT ![p] = 0]
        /\ UNCHANGED <<nread, nwrite, readopen, writeopen, chan, silent>>
    BY Zenon, <1>1 DEF piperead_killed, Return, Goto, ring
  <2> QED
    BY Zenon, <1>0, <2>1, Constants DEF IInv, Types, Holder, Index, Waiting, Copying, PcValues, Locked,
                ReaderOwes, WriterOwes, Full, Empty
<1>2. CASE piperead_wait(p)
  <2>1. /\ pc[p] = "piperead" /\ lock' = None /\ pc' = [pc EXCEPT ![p] = "sleep"]
        /\ Empty /\ writeopen /\ chan' = [chan EXCEPT ![p] = "nread"]
        /\ UNCHANGED <<nread, nwrite, readopen, writeopen, i, n, silent>>
    BY Zenon, <1>2 DEF piperead_wait, ReadWaits, Goto, ring
  <2> QED
    BY <1>0, <2>1, Constants DEF IInv, Types, Holder, Index, Waiting, Copying, PcValues, Locked,
                ReaderOwes, WriterOwes, Full, Empty
<1>3. CASE piperead_ready(p)
  <2>1. /\ pc[p] = "piperead" /\ pc' = [pc EXCEPT ![p] = "piperead_copy"]
        /\ ~(Empty /\ writeopen)
        /\ UNCHANGED <<nread, nwrite, readopen, writeopen, lock, i, n, chan, silent>>
    BY Zenon, <1>3 DEF piperead_ready, ReadWaits, Goto, ring
  <2> QED
    BY <1>0, <2>1, Constants DEF IInv, Types, Holder, Index, Waiting, Copying, PcValues, Locked,
                ReaderOwes, WriterOwes, Full, Empty
<1>4. CASE piperead_byte(p)
  <2>1. /\ pc[p] = "piperead_copy" /\ ~Empty /\ i' = [i EXCEPT ![p] = i[p] + 1]
        /\ UNCHANGED <<readopen, writeopen, lock, pc, n, chan, silent>>
    BY Zenon, <1>4 DEF piperead_byte
  <2>2. \A q \in Proc : pc[q] = "sleep" /\ chan[q] = "nread" => writeopen /\ silent
    BY Zenon, <1>0, <2>1 DEF IInv, Waiting, WriterOwes, Locked
  <2>3. i[p] \in Int /\ i[p] >= 0 /\ i'[p] = i[p] + 1
    BY Zenon, <2>1 DEF IInv, Types, Index
  <2>4. ReaderOwes'
    BY Zenon, <2>1 DEF ReaderOwes
  <2>5. Types' /\ Holder' /\ Index'
    BY <1>0, <2>1, <2>3 DEF IInv, Types, Holder, Index, PcValues, Locked
  <2>6. Waiting'
    BY Zenon, <2>1, <2>2, <2>4 DEF IInv, Waiting
  <2>7. Copying'
    BY <1>0, <2>1, <2>3 DEF Copying, Locked
  <2> QED
    BY Zenon, <2>5, <2>6, <2>7 DEF IInv
<1>5. CASE piperead_copyout(p)
  <2>1. /\ pc[p] = "piperead_copy" /\ pc' = [pc EXCEPT ![p] = "piperead_end"]
        /\ i' = [i EXCEPT ![p] = IF i[p] = 0 THEN -1 ELSE i[p]]
        /\ UNCHANGED <<nread, nwrite, readopen, writeopen, lock, n, chan, silent>>
    BY Zenon, <1>5 DEF piperead_copyout, Goto, ring
  <2> QED
    BY <1>0, <2>1, Constants DEF IInv, Types, Holder, Index, Waiting, Copying, PcValues, Locked,
                ReaderOwes, WriterOwes, Full, Empty
<1>6. CASE piperead_end(p)
  <2>1. /\ lock' = None /\ pc' = [pc EXCEPT ![p] = "idle"]
        /\ i' = [i EXCEPT ![p] = 0] /\ n' = [n EXCEPT ![p] = 0]
        /\ chan' = [q \in Proc |-> IF chan[q] = "nwrite" THEN None ELSE chan[q]]
        /\ UNCHANGED <<nread, nwrite, readopen, writeopen, silent>>
    BY Zenon, <1>6 DEF piperead_end, Return, wakeup, Goto, ring
  <2> QED
    BY <1>0, <2>1, Constants DEF IInv, Types, Holder, Index, Waiting, Copying, PcValues, Locked,
                ReaderOwes, WriterOwes, Full, Empty
<1> QED
  BY Zenon, <1>1, <1>2, <1>3, <1>4, <1>5, <1>6 DEF piperead

LEMMA NextInv == IInv /\ [Next]_vars => IInv'
<1> SUFFICES ASSUME IInv, [Next]_vars PROVE IInv'
  BY Zenon
<1>1. CASE Next
  BY Zenon, <1>1, Outside, TakesLock, Writes, Reads DEF Next, Progress
<1>2. CASE UNCHANGED vars
  BY Zenon, <1>2 DEF vars, IInv, Types, Holder, Index, Waiting, Copying, ReaderOwes, WriterOwes,
              Full, Empty
<1> QED
  BY Zenon, <1>1, <1>2

(***************************************************************************)
(* pipewrite and piperead lose no wakeup: whoever sleeps while the lock is *)
(* free has a reason to, but for the bytes of a write that failed late.    *)
(***************************************************************************)
THEOREM WakeupsReach == Spec => []NoLostWakeup
<1>1. IInv => NoLostWakeup
  <2> SUFFICES ASSUME IInv, lock = None PROVE NoLostWakeup
    BY Zenon DEF NoLostWakeup
  <2>1. \A q \in Proc : pc[q] \notin Locked
    BY Zenon, Constants DEF IInv, Holder
  <2>2. ~ReaderOwes /\ ~WriterOwes
    BY Zenon, <2>1 DEF ReaderOwes, WriterOwes, Locked
  <2> QED
    BY Zenon, <2>2 DEF IInv, Waiting, NoLostWakeup
<1> QED
  BY <1>1, InitInv, NextInv, PTL DEF Spec

(***************************************************************************)
(* piperead returns 0 for a positive count only when no writer is left and *)
(* the buffer is empty, however writers, closes and kills fall between its *)
(* two loops.                                                              *)
(***************************************************************************)
THEOREM EndOfFile == Spec => ZeroIsEndOfFile
<1>1. IInv => [\A p \in Reader : piperead_end(p) /\ n[p] > 0 /\ i[p] = 0
                 => ~writeopen /\ Empty]_vars
  <2> SUFFICES ASSUME IInv, NEW p \in Reader, piperead_end(p), n[p] > 0, i[p] = 0
               PROVE  ~writeopen /\ Empty
    BY Zenon
  <2>1. p \in Proc /\ n[p] \in Nat
    BY Zenon DEF Proc, IInv, Types
  <2>2. pc[p] = "piperead_copy" /\ Empty
    BY <2>1 DEF piperead_end, IInv, Index
  <2> QED
    BY Zenon, <2>1, <2>2 DEF IInv, Copying
<1> QED
  BY <1>1, InitInv, NextInv, PTL DEF Spec, ZeroIsEndOfFile

----------------------------------------------------------------------------
(***************************************************************************)
(* The ring as a queue.  After and Span are the wrapping sum and           *)
(* difference, Held what m slots from index a on hold.                     *)
(***************************************************************************)
Uint == 0..(UINT - 1)
After(a, k) == IF a + k < UINT THEN a + k ELSE a + k - UINT
Span(a, b) == IF b >= a THEN b - a ELSE b - a + UINT
Held(d, a, m) == [k \in 1..m |-> d[After(a, k - 1) % PIPESIZE]]
Buffer == [0..(PIPESIZE - 1) -> Byte]

(* What IsFifo needs besides: the ring never holds more than PIPESIZE.      *)
RingInv ==
  /\ data \in Buffer /\ user \in Byte
  /\ nread \in Uint /\ nwrite \in Uint /\ Span(nread, nwrite) <= PIPESIZE

(* A process in a call holds its descriptor, the last one to give up an end *)
(* is the only one in pipeclose, and until then that end is open.           *)
Side(p) == IF p \in Writer THEN Writer ELSE Reader
IsOpen(p) == IF p \in Writer THEN writeopen ELSE readopen
EndsInv ==
  /\ readopen \in BOOLEAN /\ writeopen \in BOOLEAN /\ open \subseteq Proc
  /\ \A p \in Proc :
       /\ pc[p] \notin {"idle", "pipeclose"} => p \in open
       /\ p \in open \/ pc[p] = "pipeclose" => IsOpen(p)
       /\ pc[p] = "pipeclose" =>
            /\ open \cap Side(p) = {}
            /\ \A q \in Side(p) : pc[q] = "pipeclose" => q = p

FifoInv == IInv /\ RingInv /\ EndsInv

LEMMA Sizes ==
  /\ PIPESIZE \in Nat /\ PIPESIZE > 0 /\ UINT \in Nat /\ PIPESIZE < UINT
  /\ UINT % PIPESIZE = 0
BY PipeAssumption

(* What the code computes with % UINT. *)
LEMMA Wraps ==
  ASSUME NEW a \in Uint, NEW b \in Uint
  PROVE  /\ (b - a) % UINT = Span(a, b)
         /\ \A k \in Uint : (a + k) % UINT = After(a, k)
<1>1. UINT \in Nat /\ UINT > 0
  BY Sizes
<1>2. (b - a) % UINT = Span(a, b)
  <2>1. CASE b >= a
    BY <1>1, <2>1 DEF Uint, Span
  <2>2. CASE b < a
    BY <1>1, <2>2 DEF Uint, Span
  <2> QED
    BY <2>1, <2>2 DEF Uint
<1>3. ASSUME NEW k \in Uint PROVE (a + k) % UINT = After(a, k)
  <2>1. CASE a + k < UINT
    BY <1>1, <2>1 DEF Uint, After
  <2>2. CASE a + k >= UINT
    BY <1>1, <2>2 DEF Uint, After
  <2> QED
    BY <1>1, <2>1, <2>2 DEF Uint
<1> QED
  BY Zenon, <1>2, <1>3

LEMMA RingFacts ==
  ASSUME NEW a \in Uint, NEW b \in Uint
  PROVE  /\ After(a, 1) \in Uint /\ Span(a, b) \in 0..(UINT - 1)
         /\ Span(a, b) = 0 <=> a = b
         /\ After(a, Span(a, b)) = b
         /\ Span(a, b) + 1 < UINT => Span(a, After(b, 1)) = Span(a, b) + 1
         /\ a # b => Span(After(a, 1), b) = Span(a, b) - 1
         /\ \A k \in 0..(UINT - 2) : After(After(a, 1), k) = After(a, k + 1)
         /\ \A k \in Uint : After(a, k) \in Uint
         /\ After(a, 0) = a
BY Sizes DEF Uint, After, Span

LEMMA HeldType ==
  ASSUME NEW d \in Buffer, NEW a \in Uint, NEW m \in Nat, m < UINT
  PROVE  /\ Held(d, a, m) \in Seq(Byte) /\ Len(Held(d, a, m)) = m
         /\ \A k \in 1..m : Held(d, a, m)[k] = d[After(a, k - 1) % PIPESIZE]
<1>1. \A k \in 1..m : After(a, k - 1) % PIPESIZE \in 0..(PIPESIZE - 1)
  <2> TAKE k \in 1..m
  <2>1. After(a, k - 1) \in Nat
    BY Sizes DEF Uint, After
  <2> QED
    BY <2>1, Sizes
<1>2. Held(d, a, m) \in [1..m -> Byte]
  BY Zenon, <1>1 DEF Held, Buffer
<1> QED
  BY <1>2 DEF Held

(* A read takes the first byte of what the ring holds. *)
LEMMA HeldTake ==
  ASSUME NEW d \in Buffer, NEW a \in Uint, NEW m \in Nat, m < UINT, m > 0
  PROVE  /\ Head(Held(d, a, m)) = d[a % PIPESIZE]
         /\ Tail(Held(d, a, m)) = Held(d, After(a, 1), m - 1)
<1>1. After(a, 1) \in Uint /\ After(a, 0) = a /\ m - 1 \in Nat /\ m - 1 < UINT
  BY Sizes DEF Uint, After
<1>2. \A k \in 1..(m - 1) : After(After(a, 1), k - 1) = After(a, k)
  BY Sizes DEF Uint, After
<1> DEFINE s == Held(d, a, m)
           t == Held(d, After(a, 1), m - 1)
<1>4. s \in Seq(Byte) /\ Len(s) = m /\ t \in Seq(Byte) /\ Len(t) = m - 1
  BY Zenon, <1>1, HeldType
<1>3. s[1] = d[a % PIPESIZE]
  <2>1. 1 \in 1..m /\ 1 - 1 = 0
    OBVIOUS
  <2> QED
    BY <1>1, <2>1, HeldType
<1>5. \A k \in 1..(m - 1) : t[k] = s[k + 1]
  <2> TAKE k \in 1..(m - 1)
  <2>1. k + 1 \in 1..m /\ (k + 1) - 1 = k
    OBVIOUS
  <2>2. s[k + 1] = d[After(a, k) % PIPESIZE]
    BY Zenon, <2>1, HeldType
  <2>3. t[k] = d[After(After(a, 1), k - 1) % PIPESIZE]
    BY Zenon, <1>1, HeldType
  <2> QED
    BY Zenon, <1>2, <2>2, <2>3
<1>6. Tail(s) = t /\ Head(s) = s[1]
  <2> HIDE DEF s, t
  <2> QED
    BY <1>4, <1>5
<1> QED
  BY Zenon, <1>3, <1>6

(* A multiple of PIPESIZE that is smaller than PIPESIZE is 0. *)
LEMMA SmallMultiple ==
  ASSUME NEW q \in Int, NEW d \in Int, d = PIPESIZE * q, d < PIPESIZE, -PIPESIZE < d
  PROVE  d = 0
<1>1. PIPESIZE \in Nat /\ PIPESIZE > 0
  BY Zenon, Sizes
<1>2. CASE q >= 1
  BY <1>1, <1>2
<1>3. CASE q <= -1
  BY <1>1, <1>3
<1> QED
  BY <1>1, <1>2, <1>3

LEMMA Division ==
  \A x \in Nat : /\ x = PIPESIZE * (x \div PIPESIZE) + (x % PIPESIZE)
                 /\ x \div PIPESIZE \in Int /\ x % PIPESIZE \in 0..(PIPESIZE - 1)
BY Sizes

(* PIPESIZE divides UINT, so that PIPESIZE indices in a row have slots of   *)
(* their own, also where they wrap.                                         *)
LEMMA SlotInjective ==
  ASSUME NEW a \in Uint, NEW j \in 0..(PIPESIZE - 1), NEW k \in 0..(PIPESIZE - 1),
         After(a, j) % PIPESIZE = After(a, k) % PIPESIZE
  PROVE  j = k
<1> DEFINE x == After(a, j)
           y == After(a, k)
           m == UINT \div PIPESIZE
           q == (x \div PIPESIZE) - (y \div PIPESIZE)
<1>1. x \in Nat /\ y \in Nat /\ j \in Nat /\ k \in Nat
  BY Sizes DEF Uint, After
<1>2. m \in Int /\ UINT = PIPESIZE * m
  BY Sizes, Division
<1>3. /\ x = PIPESIZE * (x \div PIPESIZE) + (x % PIPESIZE) /\ x \div PIPESIZE \in Int
      /\ y = PIPESIZE * (y \div PIPESIZE) + (y % PIPESIZE) /\ y \div PIPESIZE \in Int
      /\ x % PIPESIZE = y % PIPESIZE
  BY Zenon, <1>1, Division
<1>4. q \in Int /\ x - y = PIPESIZE * q
  <2> HIDE DEF x, y
  <2> QED
    BY <1>1, <1>3, Sizes
<1>5. x - y \in {j - k, j - k + UINT, j - k - UINT}
  BY Sizes DEF After, Uint
<1>6. \E z \in Int : j - k = PIPESIZE * z
  <2> HIDE DEF x, y, m, q
  <2>1. CASE x - y = j - k
    BY Zenon, <1>4, <2>1
  <2>2. CASE x - y = j - k + UINT
    <3>1. j - k = PIPESIZE * (q - m)
      BY <1>1, <1>2, <1>4, <2>2, Sizes
    <3> QED
      BY <1>2, <1>4, <3>1
  <2>3. CASE x - y = j - k - UINT
    <3>1. j - k = PIPESIZE * (q + m)
      BY <1>1, <1>2, <1>4, <2>3, Sizes
    <3> QED
      BY <1>2, <1>4, <3>1
  <2> QED
    BY Zenon, <1>5, <2>1, <2>2, <2>3
<1>7. PICK z \in Int : j - k = PIPESIZE * z
  BY Zenon, <1>6
<1>8. j - k \in Int /\ j - k < PIPESIZE /\ -PIPESIZE < j - k
  BY Sizes
<1>9. j - k = 0
  BY Zenon, <1>7, <1>8, SmallMultiple
<1> QED
  BY <1>1, <1>9

(* The byte put at the end of what the ring holds overwrites none of it. *)
LEMMA HeldPut ==
  ASSUME NEW d \in Buffer, NEW a \in Uint, NEW m \in Nat, m < PIPESIZE, NEW c \in Byte
  PROVE  /\ [d EXCEPT ![After(a, m) % PIPESIZE] = c] \in Buffer
         /\ Held([d EXCEPT ![After(a, m) % PIPESIZE] = c], a, m + 1)
              = Append(Held(d, a, m), c)
<1> DEFINE f == [d EXCEPT ![After(a, m) % PIPESIZE] = c]
           s == Held(d, a, m)
           t == Held(f, a, m + 1)
<1>1. /\ m + 1 \in Nat /\ m + 1 < UINT /\ m < UINT
      /\ \A k \in 0..m : After(a, k) \in Nat /\ k \in 0..(PIPESIZE - 1)
  BY Sizes DEF Uint, After
<1>2. \A k \in 0..m : After(a, k) % PIPESIZE \in 0..(PIPESIZE - 1)
  BY Zenon, <1>1, Division
<1>3. f \in Buffer /\ f[After(a, m) % PIPESIZE] = c
  BY <1>1, <1>2 DEF Buffer
<1>4. \A k \in 1..m : f[After(a, k - 1) % PIPESIZE] = d[After(a, k - 1) % PIPESIZE]
  <2> TAKE k \in 1..m
  <2>1. k - 1 \in 0..m /\ k - 1 # m /\ m \in 0..m
    OBVIOUS
  <2>2. After(a, k - 1) % PIPESIZE # After(a, m) % PIPESIZE
    BY Zenon, <1>1, <2>1, SlotInjective
  <2> QED
    BY Zenon, <1>2, <2>1, <2>2 DEF Buffer
<1>5. /\ s \in Seq(Byte) /\ Len(s) = m
      /\ \A k \in 1..m : s[k] = d[After(a, k - 1) % PIPESIZE]
  BY Zenon, <1>1, HeldType
<1>6. /\ t \in Seq(Byte) /\ Len(t) = m + 1
      /\ \A k \in 1..(m + 1) : t[k] = f[After(a, k - 1) % PIPESIZE]
  BY Zenon, <1>1, <1>3, HeldType
<1>7. \A k \in 1..m : t[k] = s[k]
  <2> TAKE k \in 1..m
  <2>1. k \in 1..(m + 1)
    OBVIOUS
  <2> HIDE DEF s, t, f
  <2> QED
    BY Zenon, <1>4, <1>5, <1>6, <2>1
<1>8. t[m + 1] = c
  <2>1. m + 1 \in 1..(m + 1) /\ (m + 1) - 1 = m
    OBVIOUS
  <2> HIDE DEF s, t, f
  <2> QED
    BY Zenon, <1>3, <1>6, <2>1
<1>9. t = Append(s, c)
  <2> HIDE DEF s, t, f
  <2> QED
    BY <1>5, <1>6, <1>7, <1>8
<1> QED
  BY Zenon, <1>3, <1>9

LEMMA QueueIsHeld ==
  ASSUME NEW d, NEW a \in Uint, NEW b \in Uint
  PROVE  [k \in 1..((b - a) % UINT) |-> d[((a + k - 1) % UINT) % PIPESIZE]]
           = Held(d, a, Span(a, b))
<1>1. (b - a) % UINT = Span(a, b) /\ Span(a, b) \in Nat /\ Span(a, b) < UINT
  BY Wraps, Sizes DEF Span, Uint
<1>2. ASSUME NEW k \in 1..Span(a, b) PROVE (a + k - 1) % UINT = After(a, k - 1)
  <2>1. k - 1 \in Uint /\ a + (k - 1) = a + k - 1
    BY <1>1, Sizes DEF Uint
  <2> QED
    BY Zenon, <2>1, Wraps
<1> QED
  BY Zenon, <1>1, <1>2 DEF Held

----------------------------------------------------------------------------
LEMMA QueueFacts ==
  ASSUME RingInv
  PROVE  /\ Queue = Held(data, nread, Span(nread, nwrite)) /\ Len(Queue) = Span(nread, nwrite)
         /\ Span(nread, nwrite) \in Nat /\ Span(nread, nwrite) < UINT
         /\ Queue \in Seq(Byte)
<1>1. Span(nread, nwrite) \in Nat /\ Span(nread, nwrite) < UINT
  BY Sizes DEF RingInv, Uint, Span
<1>2. Queue = Held(data, nread, Span(nread, nwrite))
  BY Zenon, QueueIsHeld DEF RingInv, Queue
<1> QED
  BY Zenon, <1>1, <1>2, HeldType DEF RingInv

LEMMA FifoInit == Init => FifoInv /\ Ring!Init
<1> SUFFICES ASSUME Init PROVE FifoInv /\ Ring!Init
  BY Zenon
<1>1. RingInv
  BY Sizes DEF Init, RingInv, Buffer, Uint, Span
<1>2. EndsInv
  BY Zenon DEF Init, EndsInv, IsOpen
<1>3. Queue = <<>>
  <2>0. Span(nread, nwrite) = 0
    BY DEF Init, Span
  <2>1. Queue = Held(data, nread, 0)
    BY Zenon, <1>1, <2>0, QueueFacts
  <2>2. Held(data, nread, 0) \in Seq(Byte) /\ Len(Held(data, nread, 0)) = 0
    BY <1>1, Sizes, HeldType DEF RingInv
  <2> HIDE DEF Queue
  <2> QED
    BY <2>1, <2>2
<1> QED
  BY Zenon, <1>1, <1>2, <1>3, InitInv DEF FifoInv, RingInv, Init, Ring!Init

(* The steps that leave both ends as they are. *)
Stays(p) ==
  \/ \E k \in Counts : call(p, k)
  \/ sleep(p) \/ acquire(p) \/ pipewrite(p) \/ piperead(p) \/ kkill(p)

LEMMA EndsStay ==
  ASSUME FifoInv, NEW p \in Proc, Stays(p)
  PROVE  /\ UNCHANGED <<open, readopen, writeopen>> /\ p \in open /\ EndsInv'
<1>1. UNCHANGED <<open, readopen, writeopen>>
  BY Zenon DEF Stays, call, sleep, acquire, kkill, pipewrite, pipewrite_fails, pipewrite_full,
         pipewrite_byte, pipewrite_copyin, pipewrite_end, piperead, piperead_killed,
         piperead_wait, piperead_ready, piperead_byte, piperead_copyout, piperead_end
<1>2. /\ pc[p] \notin {"idle", "pipeclose"} \/ p \in open
      /\ pc' = pc \/ \E l \in PcValues \ {"pipeclose"} : pc' = [pc EXCEPT ![p] = l]
  <2>1. CASE (\E k \in Counts : call(p, k)) \/ sleep(p) \/ acquire(p) \/ kkill(p)
    BY Zenon, <2>1 DEF call, sleep, acquire, kkill, Goto, PcValues, Locked
  <2>2. CASE pipewrite(p)
    BY Zenon, <2>2 DEF pipewrite, pipewrite_fails, pipewrite_full, pipewrite_byte, pipewrite_copyin,
           pipewrite_end, Return, Goto, PcValues, Locked
  <2>3. CASE piperead(p)
    BY Zenon, <2>3 DEF piperead, piperead_killed, piperead_wait, piperead_ready, piperead_byte,
           piperead_copyout, piperead_end, Return, Goto, PcValues, Locked
  <2> QED
    BY Zenon, <2>1, <2>2, <2>3 DEF Stays
<1>3. p \in open
  BY Zenon, <1>2 DEF FifoInv, EndsInv
<1>4. pc \in [Proc -> PcValues] /\ pc[p] # "pipeclose"
  BY Zenon, <1>3 DEF FifoInv, EndsInv, IInv, Types, Side, Proc
<1>5. \A q \in Proc : /\ pc'[q] = "pipeclose" => pc[q] = "pipeclose"
                      /\ q # p => pc'[q] = pc[q]
  BY Zenon, <1>2, <1>4
<1>6. EndsInv'
  <2>1. \A q \in Proc : Side(q) \subseteq Proc /\ IsOpen(q)' = IsOpen(q)
    BY Zenon, <1>1 DEF Side, IsOpen, Proc
  <2> QED
    BY Zenon, <1>1, <1>3, <1>5, <2>1 DEF FifoInv, EndsInv
<1> QED
  BY Zenon, <1>1, <1>3, <1>6

(* The last descriptor of an end goes. *)
LEMMA EndsFileclose ==
  ASSUME FifoInv, NEW p \in Proc, fileclose(p)
  PROVE  EndsInv'
<1>1. /\ pc[p] = "idle" /\ p \in open /\ open' = open \ {p}
      /\ UNCHANGED <<readopen, writeopen>>
      /\ pc' = [pc EXCEPT ![p] = IF open' \cap Side(p) = {} THEN "pipeclose" ELSE "idle"]
  BY Zenon DEF fileclose, Goto, Side
<1>2. \A q \in Proc : p \in Side(q) <=> Side(q) = Side(p)
  BY Zenon, Constants DEF Side, Proc
<1>3. \A q \in Side(p) : pc[q] # "pipeclose" /\ q \in Proc /\ Side(q) = Side(p)
  <2> TAKE q \in Side(p)
  <2>1. q \in Proc /\ p \in Side(p)
    BY Zenon DEF Side, Proc
  <2>2. Side(q) = Side(p)
    BY Zenon, <2>1, Constants DEF Side, Proc
  <2> QED
    BY Zenon, <1>1, <2>1, <2>2 DEF FifoInv, EndsInv
<1>4. p \in Side(p)
  BY Zenon DEF Side, Proc
<1> QED
  BY <1>1, <1>2, <1>3, <1>4 DEF FifoInv, EndsInv, IInv, Types, Side, IsOpen

LEMMA EndsPipeclose ==
  ASSUME FifoInv, NEW p \in Proc, pipeclose(p)
  PROVE  EndsInv' /\ Ring!Close
<1>1. /\ pc[p] = "pipeclose" /\ pc' = [pc EXCEPT ![p] = "idle"]
      /\ UNCHANGED <<open, data, nread, nwrite, user>>
      /\ IF p \in Writer THEN writeopen' = FALSE /\ UNCHANGED readopen
         ELSE readopen' = FALSE /\ UNCHANGED writeopen
  BY Zenon DEF pipeclose, Goto, ring
<1>2. IsOpen(p) /\ open \cap Side(p) = {} /\ \A q \in Side(p) : pc[q] = "pipeclose" => q = p
  BY Zenon, <1>1 DEF FifoInv, EndsInv
<1>3. \A q \in Proc : q \notin Side(p) => IsOpen(q)' = IsOpen(q)
  BY Zenon, <1>1, Constants DEF Side, IsOpen, Proc
<1>4. EndsInv'
  BY Zenon, <1>1, <1>2, <1>3 DEF FifoInv, EndsInv, IInv, Types, Side, Proc
<1>5. Ring!Close
  BY Zenon, <1>1, <1>2 DEF Ring!Close, Queue, IsOpen
<1> QED
  BY Zenon, <1>4, <1>5

----------------------------------------------------------------------------
(* pipewrite appends a byte where there is room. *)
LEMMA SendsByte ==
  ASSUME FifoInv, NEW p \in Proc, pipewrite_byte(p)
  PROVE  RingInv' /\ \E c \in Byte : Ring!Send(c)
<1> DEFINE m == Span(nread, nwrite)
<1>1. PICK c \in Byte : data' = [data EXCEPT ![nwrite % PIPESIZE] = c]
  BY Zenon DEF pipewrite_byte
<1>2. /\ nwrite' = (nwrite + 1) % UINT /\ readopen /\ nwrite # (nread + PIPESIZE) % UINT
      /\ UNCHANGED <<nread, readopen, writeopen, user>> /\ pc[p] = "pipewrite"
  BY Zenon DEF pipewrite_byte, Full
<1>3. readopen /\ writeopen
  <2>1. p \in Writer /\ p \in open
    BY Zenon, <1>2 DEF FifoInv, IInv, Holder, EndsInv
  <2> QED
    BY Zenon, <1>2, <2>1 DEF FifoInv, EndsInv, IsOpen
<1>4. data \in Buffer /\ user \in Byte /\ nread \in Uint /\ nwrite \in Uint /\ m <= PIPESIZE
  BY Zenon DEF FifoInv, RingInv
<1>5. 1 \in Uint /\ PIPESIZE \in Uint
  BY Sizes DEF Uint
<1>6. nwrite' = After(nwrite, 1) /\ nwrite # After(nread, PIPESIZE)
  BY Zenon, <1>2, <1>4, <1>5, Wraps
<1>7. /\ m \in Nat /\ m < PIPESIZE /\ After(nread, m) = nwrite
      /\ nwrite' \in Uint /\ Span(nread, nwrite') = m + 1
  BY <1>4, <1>6, Sizes DEF Uint, After, Span
<1>8. /\ data' \in Buffer
      /\ Held(data', nread, m + 1) = Append(Held(data, nread, m), c)
  <2> HIDE DEF m
  <2>1. data' = [data EXCEPT ![After(nread, m) % PIPESIZE] = c]
    BY Zenon, <1>1, <1>7
  <2> QED
    BY Zenon, <1>4, <1>7, <2>1, HeldPut
<1>9. RingInv'
  <2>1. Span(nread', nwrite') = m + 1 /\ m + 1 <= PIPESIZE
    BY <1>2, <1>7, Sizes
  <2> QED
    BY Zenon, <1>2, <1>4, <1>7, <1>8, <2>1 DEF RingInv
<1>10. Queue' = Append(Queue, c)
  <2>1. Queue' = Held(data', nread, m + 1)
    <3>1. nread' \in Uint /\ nwrite' \in Uint /\ Span(nread', nwrite') = m + 1
      BY Zenon, <1>2, <1>4, <1>7
    <3>2. Queue' = Held(data', nread', Span(nread', nwrite'))
      BY Zenon, <3>1, QueueIsHeld DEF Queue
    <3> QED
      BY Zenon, <1>2, <3>1, <3>2
  <2>2. Queue = Held(data, nread, m)
    BY Zenon, QueueFacts DEF FifoInv
  <2> QED
    BY Zenon, <1>8, <2>1, <2>2
<1>11. Len(Queue) < PIPESIZE
  BY Zenon, <1>7, QueueFacts DEF FifoInv
<1>12. Ring!Send(c)
  BY Zenon, <1>2, <1>3, <1>10, <1>11 DEF Ring!Send
<1> QED
  BY Zenon, <1>9, <1>12

(* piperead takes the first byte. *)
LEMMA ReceivesByte ==
  ASSUME FifoInv, NEW p \in Proc, piperead_byte(p)
  PROVE  RingInv' /\ Ring!Receive
<1> DEFINE m == Span(nread, nwrite)
<1>1. /\ user' = data[nread % PIPESIZE] /\ nread' = (nread + 1) % UINT /\ nread # nwrite
      /\ UNCHANGED <<data, nwrite, readopen, writeopen>> /\ pc[p] = "piperead_copy"
  BY Zenon DEF piperead_byte, Empty
<1>2. readopen
  <2>1. p \in Reader /\ p \in open
    BY Zenon, <1>1 DEF FifoInv, IInv, Holder, EndsInv
  <2> QED
    BY Zenon, <2>1, Constants DEF FifoInv, EndsInv, IsOpen
<1>3. data \in Buffer /\ nread \in Uint /\ nwrite \in Uint /\ m <= PIPESIZE
  BY Zenon DEF FifoInv, RingInv
<1>4. 1 \in Uint
  BY Sizes DEF Uint
<1>5. nread' = After(nread, 1)
  BY Zenon, <1>1, <1>3, <1>4, Wraps
<1>6. /\ m \in Nat /\ m > 0 /\ m < UINT /\ nread' \in Uint /\ Span(nread', nwrite) = m - 1
  BY <1>1, <1>3, <1>5, Sizes DEF Uint, After, Span
<1>7. /\ Head(Held(data, nread, m)) = data[nread % PIPESIZE]
      /\ Tail(Held(data, nread, m)) = Held(data, nread', m - 1)
  <2> HIDE DEF m
  <2> QED
    BY Zenon, <1>3, <1>5, <1>6, HeldTake
<1>8. user' \in Byte
  <2>1. nread \in Nat
    BY <1>3 DEF Uint
  <2>2. nread % PIPESIZE \in 0..(PIPESIZE - 1)
    BY Zenon, <2>1, Division
  <2> QED
    BY Zenon, <1>1, <1>3, <2>2 DEF Buffer
<1>9. RingInv'
  <2>1. Span(nread', nwrite') = m - 1 /\ m - 1 <= PIPESIZE
    BY <1>1, <1>3, <1>6, Sizes
  <2> QED
    BY Zenon, <1>1, <1>3, <1>6, <1>8, <2>1 DEF RingInv
<1>10. Queue = Held(data, nread, m) /\ Queue' = Held(data, nread', m - 1)
  <2>1. Queue' = Held(data, nread', m - 1)
    <3>1. nread' \in Uint /\ nwrite' \in Uint /\ Span(nread', nwrite') = m - 1
      BY Zenon, <1>1, <1>3, <1>6
    <3>2. Queue' = Held(data', nread', Span(nread', nwrite'))
      BY Zenon, <3>1, QueueIsHeld DEF Queue
    <3> QED
      BY Zenon, <1>1, <3>1, <3>2
  <2> QED
    BY Zenon, <2>1, QueueFacts DEF FifoInv
<1>11. Queue # <<>>
  <2>1. Len(Queue) > 0
    BY Zenon, <1>6, QueueFacts DEF FifoInv
  <2> HIDE DEF Queue
  <2> QED
    BY <2>1
<1>12. Ring!Receive
  BY Zenon, <1>1, <1>2, <1>7, <1>10, <1>11 DEF Ring!Receive
<1> QED
  BY Zenon, <1>9, <1>12

(* Every other step leaves the ring alone. *)
LEMMA RingStays ==
  ASSUME RingInv, UNCHANGED <<data, nread, nwrite, user>>
  PROVE  RingInv' /\ Queue' = Queue
BY Zenon DEF RingInv, Queue

LEMMA FifoNext == FifoInv /\ [Next]_vars => FifoInv' /\ [Ring!Next]_(Ring!fifovars)
<1> SUFFICES ASSUME FifoInv, [Next]_vars
             PROVE  RingInv' /\ EndsInv' /\ [Ring!Next]_(Ring!fifovars)
  BY Zenon, NextInv DEF FifoInv
<1>1. CASE UNCHANGED vars
  BY Zenon, <1>1, RingStays DEF vars, FifoInv, EndsInv, IsOpen, Side, Ring!fifovars
<1>2. ASSUME NEW p \in Proc, pipewrite_byte(p)
      PROVE  RingInv' /\ EndsInv' /\ Ring!Next
  BY Zenon, <1>2, SendsByte, EndsStay DEF Stays, pipewrite, Ring!Next
<1>3. ASSUME NEW p \in Proc, piperead_byte(p)
      PROVE  RingInv' /\ EndsInv' /\ Ring!Next
  BY Zenon, <1>3, ReceivesByte, EndsStay DEF Stays, piperead, Ring!Next
<1>4. ASSUME NEW p \in Proc, pipeclose(p)
      PROVE  RingInv' /\ EndsInv' /\ Ring!Next
  <2>1. UNCHANGED <<data, nread, nwrite, user>>
    BY Zenon, <1>4 DEF pipeclose, ring
  <2> QED
    BY Zenon, <1>4, <2>1, RingStays, EndsPipeclose DEF FifoInv, Ring!Next
<1>5. ASSUME NEW p \in Proc, fileclose(p)
      PROVE  RingInv' /\ EndsInv' /\ UNCHANGED Ring!fifovars
  <2>1. UNCHANGED <<data, nread, nwrite, user, readopen, writeopen>>
    BY Zenon, <1>5 DEF fileclose, ring
  <2> QED
    BY Zenon, <1>5, <2>1, RingStays, EndsFileclose DEF FifoInv, Ring!fifovars
<1>6. ASSUME NEW p \in Proc, Stays(p), ~pipewrite_byte(p), ~piperead_byte(p)
      PROVE  RingInv' /\ EndsInv' /\ UNCHANGED Ring!fifovars
  <2>1. UNCHANGED <<data, nread, nwrite, user>>
    BY Zenon, <1>6 DEF Stays, call, sleep, acquire, kkill, pipewrite, pipewrite_fails, pipewrite_full,
         pipewrite_copyin, pipewrite_end, piperead, piperead_killed,
         piperead_wait, piperead_ready, piperead_copyout, piperead_end, ring
  <2> QED
    BY Zenon, <1>6, <2>1, RingStays, EndsStay DEF FifoInv, Ring!fifovars
<1> QED
  BY Zenon, <1>1, <1>2, <1>3, <1>4, <1>5, <1>6 DEF Next, Progress, Stays

(***************************************************************************)
(* struct pipe, its wrapping indices and its locking implement Fifo: for   *)
(* any PIPESIZE that divides the range of a uint, no byte is lost,         *)
(* duplicated, reordered or overwritten, bytes enter only while both ends  *)
(* are open, and each end is closed once.                                  *)
(***************************************************************************)
THEOREM PipeIsFifo == Spec => IsFifo
BY FifoInit, FifoNext, PTL DEF Spec, IsFifo, Ring!Spec

=============================================================================
