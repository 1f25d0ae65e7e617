------------------------- MODULE VirtioDiskProofs -------------------------
(***************************************************************************)
(* The induction for the disk driver with its device, IInv, one lemma per  *)
(* action, and the theorems: descriptors are never lost or shared, neither *)
(* free_desc nor the handler panics, no completion and no sleeper is       *)
(* forgotten, and the driver with its device is DiskService.  What the     *)
(* lemmas need of counting, HeadsFit, is proved at the end from            *)
(* FiniteSetTheorems.                                                      *)
(***************************************************************************)
EXTENDS VirtioDisk, TLAPS

(* The position k after a in a ring whose indices wrap, and how far b is. *)
After(a, k) == IF a + k < UINT16 THEN a + k ELSE a + k - UINT16
Span(a, b) == IF b >= a THEN b - a ELSE b - a + UINT16

First(p) == req[p].idx[1]

Locked == {"fill", "enqueue", "publish", "notify", "wait"}
Published == {"notify", "wait", "sleep_buf", "acquire"}
Pcs == {"idle", "alloc", "sleep_free", "fill"} \cup Queued

Index == 0..(UINT16 - 1)
Types ==
  /\ desc \in [Desc -> [addr : Desc \cup Buf, flags : SUBSET {"NEXT", "WRITE"}, next : Desc]]
  /\ ops \in [Desc -> [type : {"IN", "OUT"}, sector : Buf \cup {None}]]
  /\ info \in [Desc -> [b : Buf \cup {None}, status : {0, 1, 255}]]
  /\ free \in SUBSET Desc /\ busy \in SUBSET Buf
  /\ avail \in [ring : [Desc -> Desc], idx : Index]
  /\ used \in [ring : [Desc -> Desc], idx : Index]
  /\ used_idx \in Index /\ last \in Index
  /\ lock \in Proc \cup {"intr", None}
  /\ pc \in [Proc -> Pcs]
  /\ req \in [Proc -> [b : Buf \cup {None}, write : BOOLEAN,
                       idx : {<<>>} \cup (Desc \X Desc \X Desc)]]
  /\ chan \in [Proc -> Buf \cup {"free", None}]
  /\ isr \in BOOLEAN
  /\ disk \in [Buf -> Value] /\ data \in [Buf -> Value]

(* A call's buffer is its own, and it holds three descriptors from          *)
(* alloc3_desc on.                                                          *)
Triple(p) ==
  /\ req[p].idx \in Desc \X Desc \X Desc
  /\ req[p].idx[1] # req[p].idx[2] /\ req[p].idx[1] # req[p].idx[3]
  /\ req[p].idx[2] # req[p].idx[3]
Calls ==
  /\ \A p \in Proc :
       /\ pc[p] = "idle" <=> req[p].b = None
       /\ pc[p] \in {"idle", "alloc", "sleep_free"} => req[p].idx = <<>>
       /\ pc[p] \in {"fill"} \cup Queued => Triple(p)
       /\ pc[p] \in Locked <=> lock = p
  /\ \A p, q \in Proc : p # q /\ req[p].b = req[q].b => req[p].b = None

Owned ==
  /\ \A p, q \in Proc : p # q => Holds(p) \cap Holds(q) = {}
  /\ free = Desc \ UNION {Holds(p) : p \in Proc}

(* What fill wrote for a call stays until its free_chain; the answer is 0,  *)
(* and the buffer stays busy until the handler has seen it.                 *)
Filled(p) ==
  LET i == req[p].idx
      b == req[p].b
  IN  /\ ops[i[1]] = [type |-> IF req[p].write THEN "OUT" ELSE "IN", sector |-> b]
      /\ desc[i[1]] = [addr |-> i[1], flags |-> {"NEXT"}, next |-> i[2]]
      /\ desc[i[2]] = [addr |-> b, next |-> i[3],
                       flags |-> IF req[p].write THEN {"NEXT"} ELSE {"NEXT", "WRITE"}]
      /\ desc[i[3]] = [addr |-> i[1], flags |-> {"WRITE"}, next |-> 0]
      /\ info[i[1]].b = b /\ info[i[1]].status \in {0, 255}
      /\ info[i[1]].status = 255 => b \in busy
      /\ pc[p] \in {"enqueue", "publish"} => info[i[1]].status = 255
Chains == \A p \in Proc : pc[p] \in Queued => Filled(p)

(* The heads of the requests that are with the device or on the way to it,  *)
(* and of those that the handler has not seen answered.                     *)
Waiting ==
  {h \in Desc : \E p \in Proc : pc[p] \in Published /\ First(p) = h /\ info[h].status = 255}
Answered ==
  {h \in Desc : \E p \in Proc :
     pc[p] \in Published /\ First(p) = h /\ info[h].status = 0 /\ req[p].b \in busy}

(* The entries of a ring between two indices. *)
Entry(ring, a, k) == ring[Slot(After(a, k))]
Injective(ring, a, n) ==
  \A j, k \in 0..(n - 1) : Entry(ring, a, j) = Entry(ring, a, k) => j = k

Avail ==
  LET n == Span(last, avail.idx)
  IN  /\ \A k \in 0..(n - 1) : Entry(avail.ring, last, k) \in Waiting
      /\ Injective(avail.ring, last, n)
      /\ \A p \in Proc : pc[p] = "publish" => avail.ring[Slot(avail.idx)] = First(p)

(* The request that the device reads from a call's chain. *)
Request(p) ==
  [id |-> First(p), type |-> IF req[p].write THEN "OUT" ELSE "IN", sector |-> req[p].b,
   buf |-> req[p].b, status |-> First(p), ok |-> TRUE]
Taken ==
  \A r \in taken :
    /\ \E p \in Proc : pc[p] \in Published /\ r = Request(p) /\ info[First(p)].status = 255
    /\ \A k \in 0..(Span(last, avail.idx) - 1) : Entry(avail.ring, last, k) # r.id

Used ==
  LET n == Span(used_idx, used.idx)
  IN  /\ \A k \in 0..(n - 1) : Entry(used.ring, used_idx, k) \in Answered
      /\ Injective(used.ring, used_idx, n)
      /\ used_idx # used.idx => isr \/ lock = "intr"

Sleepers ==
  \A p \in Proc :
    /\ pc[p] = "sleep_free" /\ chan[p] # None => chan[p] = "free" /\ Cardinality(free) < 3
    /\ pc[p] = "sleep_buf" /\ chan[p] # None => chan[p] = req[p].b /\ req[p].b \in busy

IInv ==
  /\ Types /\ Calls /\ Owned /\ Chains /\ Avail /\ Taken /\ Used /\ Sleepers /\ ~panic

(* Distinct heads that leave out one descriptor do not fill a ring: a fact  *)
(* of counting (LEMMA Room, at the end).                                    *)
HeadsFit ==
  \A n \in Nat : \A f \in [0..n -> Desc] : \A x \in Desc :
    (\A j, k \in 0..n : f[j] = f[k] => j = k) /\ (\A k \in 0..n : f[k] # x)
    => n + 1 < NUM /\ n + 1 < UINT16

LEMMA NoFullRing ==
  ASSUME HeadsFit, NEW n \in Nat, NEW f \in [0..n -> Desc], NEW x \in Desc,
         \A j, k \in 0..n : f[j] = f[k] => j = k, \A k \in 0..n : f[k] # x
  PROVE  n + 1 < NUM /\ n + 1 < UINT16
BY Zenon DEF HeadsFit

(* alloc_desc finds three descriptors when three are free (FirstThreeFree). *)
ThreeFound ==
  \E i, j, k \in free : FirstThree = <<i, j, k>> /\ i # j /\ i # k /\ j # k

----------------------------------------------------------------------------
(* Indices wrap at UINT16 and rings at NUM, which divides it. *)
LEMMA Wraps ==
  ASSUME NEW a \in Index
  PROVE  (a + 1) % UINT16 = After(a, 1)
<1>1. UINT16 \in Nat \ {0} /\ a \in Nat /\ a < UINT16
  BY VirtioAssumption DEF Index
<1>2. CASE a + 1 < UINT16
  BY <1>1, <1>2 DEF After
<1>3. CASE a + 1 = UINT16
  BY <1>1, <1>3 DEF After
<1> QED
  BY <1>1, <1>2, <1>3

LEMMA RingFacts ==
  ASSUME NEW a \in Index, NEW b \in Index
  PROVE  /\ After(a, 1) \in Index /\ Span(a, b) \in 0..(UINT16 - 1)
         /\ Span(a, b) = 0 <=> a = b
         /\ After(a, Span(a, b)) = b
         /\ Span(a, b) + 1 < UINT16 => Span(a, After(b, 1)) = Span(a, b) + 1
         /\ a # b => Span(After(a, 1), b) = Span(a, b) - 1
         /\ \A k \in 0..(UINT16 - 2) : After(After(a, 1), k) = After(a, k + 1)
         /\ \A k \in Index : After(a, k) \in Index
         /\ After(a, 0) = a
BY VirtioAssumption DEF Index, After, Span

LEMMA SpanGrows ==
  ASSUME NEW a \in Index, NEW b \in Index, Span(a, b) + 1 < UINT16
  PROVE  After(b, 1) \in Index /\ Span(a, After(b, 1)) = Span(a, b) + 1
BY Zenon, RingFacts

LEMMA SlotType ==
  ASSUME NEW a \in Index
  PROVE  Slot(a) \in Desc
BY VirtioAssumption DEF Slot, Desc, Index

(* A multiple of NUM that is smaller than NUM is 0. *)
LEMMA SmallMultiple ==
  ASSUME NEW q \in Int, NEW d \in Int, d = NUM * q, d < NUM, -NUM < d
  PROVE  d = 0
<1>1. NUM \in Nat /\ NUM >= 3
  BY Zenon, VirtioAssumption
<1>2. CASE q >= 1
  BY <1>1, <1>2
<1>3. CASE q <= -1
  BY <1>1, <1>3
<1> QED
  BY <1>1, <1>2, <1>3

LEMMA Division ==
  \A x \in Nat : x = NUM * (x \div NUM) + (x % NUM) /\ x \div NUM \in Int
BY VirtioAssumption

LEMMA SlotInjective ==
  ASSUME NEW a \in Index, NEW j \in 0..(NUM - 1), NEW k \in 0..(NUM - 1),
         j < UINT16, k < UINT16, Slot(After(a, j)) = Slot(After(a, k))
  PROVE  j = k
<1> DEFINE x == After(a, j)
           y == After(a, k)
           m == UINT16 \div NUM
<1>1. /\ NUM \in Nat /\ NUM >= 3 /\ UINT16 \in Nat /\ UINT16 % NUM = 0
      /\ a \in Nat /\ j \in Nat /\ k \in Nat /\ x \in Nat /\ y \in Nat
  BY VirtioAssumption DEF Index, After
<1>2. m \in Int /\ UINT16 = NUM * m
  BY <1>1
<1>3. x = NUM * (x \div NUM) + (x % NUM) /\ x \div NUM \in Int
  BY Zenon, <1>1, Division
<1>4. y = NUM * (y \div NUM) + (y % NUM) /\ y \div NUM \in Int
  BY Zenon, <1>1, Division
<1>5. x % NUM = y % NUM
  BY Zenon DEF Slot
<1> DEFINE q == (x \div NUM) - (y \div NUM)
<1>6. q \in Int /\ x - y = NUM * q
  <2> HIDE DEF x, y
  <2> QED
    BY <1>1, <1>3, <1>4, <1>5
<1>7. x - y \in {j - k, j - k + UINT16, j - k - UINT16}
  BY <1>1 DEF After, Index
<1>8. \E z \in Int : j - k = NUM * z
  <2> HIDE DEF x, y, m, q
  <2>1. CASE x - y = j - k
    BY Zenon, <1>6, <2>1
  <2>2. CASE x - y = j - k + UINT16
    <3>1. j - k = NUM * (q - m)
      BY <1>1, <1>2, <1>6, <2>2
    <3> QED
      BY <1>2, <1>6, <3>1
  <2>3. CASE x - y = j - k - UINT16
    <3>1. j - k = NUM * (q + m)
      BY <1>1, <1>2, <1>6, <2>3
    <3> QED
      BY <1>2, <1>6, <3>1
  <2> QED
    BY Zenon, <1>7, <2>1, <2>2, <2>3
<1>9. j - k = 0
  BY <1>1, <1>8, SmallMultiple
<1> QED
  BY <1>1, <1>9

----------------------------------------------------------------------------
LEMMA TripleRange ==
  ASSUME NEW t \in Desc \X Desc \X Desc
  PROVE  /\ {t[k] : k \in DOMAIN t} = {t[1], t[2], t[3]}
         /\ t[1] \in Desc /\ t[2] \in Desc /\ t[3] \in Desc
<1>1. PICK x \in Desc, y \in Desc, z \in Desc : t = <<x, y, z>>
  OBVIOUS
<1>2. DOMAIN t = {1, 2, 3} /\ t[1] = x /\ t[2] = y /\ t[3] = z
  BY <1>1
<1> QED
  BY Zenon, <1>2

LEMMA EmptyRange == {<<>>[k] : k \in DOMAIN <<>>} = {}
OBVIOUS

(* The descriptors of a call that has them. *)
LEMMA CallFacts ==
  ASSUME IInv, NEW p \in Proc, pc[p] \in {"fill"} \cup Queued
  PROVE  /\ First(p) \in Desc /\ req[p].idx[2] \in Desc /\ req[p].idx[3] \in Desc
         /\ First(p) # req[p].idx[2] /\ First(p) # req[p].idx[3]
         /\ req[p].idx[2] # req[p].idx[3]
         /\ Holds(p) = {First(p), req[p].idx[2], req[p].idx[3]}
         /\ Holds(p) \cap free = {}
         /\ \A q \in Proc \ {p} : Holds(p) \cap Holds(q) = {}
         /\ req[p].b \in Buf
<1>1. Triple(p)
  BY Zenon DEF IInv, Calls
<1>2. Holds(p) = {First(p), req[p].idx[2], req[p].idx[3]}
  BY Zenon, <1>1, TripleRange DEF Triple, Holds, First
<1>3. req[p].b \in Buf
  BY DEF IInv, Calls, Types, Queued
<1> QED
  BY <1>1, <1>2, <1>3, TripleRange DEF Triple, First, IInv, Owned

(* Two calls have different heads, and none is another's descriptor. *)
LEMMA HeadsDiffer ==
  ASSUME IInv, NEW p \in Proc, NEW q \in Proc, p # q,
         pc[p] \in {"fill"} \cup Queued, pc[q] \in {"fill"} \cup Queued
  PROVE  First(p) # First(q) /\ First(p) # req[q].idx[2]
BY Zenon, CallFacts

LEMMA FilledKept ==
  ASSUME NEW q \in Proc, Filled(q), req'[q] = req[q],
         desc'[req[q].idx[1]] = desc[req[q].idx[1]],
         desc'[req[q].idx[2]] = desc[req[q].idx[2]],
         desc'[req[q].idx[3]] = desc[req[q].idx[3]],
         ops'[First(q)] = ops[First(q)], info'[First(q)] = info[First(q)],
         req[q].b \in busy => req[q].b \in busy',
         pc'[q] \in {"enqueue", "publish"} => pc[q] \in {"enqueue", "publish"}
  PROVE  Filled(q)'
BY SMTT(30) DEF Filled, First

(* A call's request stays where it is in a step that changes neither rings  *)
(* nor device and leaves the call, its descriptor and its buffer alone.     *)
LEMMA RingsKept ==
  ASSUME IInv, UNCHANGED <<avail, last, taken, used, used_idx>>,
         \A q \in Proc : pc[q] \in Published /\ req[q].b \in busy =>
           /\ pc'[q] \in Published /\ req'[q] = req[q] /\ req[q].b \in busy'
           /\ info'[First(q)] = info[First(q)],
         used_idx # used.idx => isr' \/ lock' = "intr",
         \A q \in Proc : pc'[q] = "publish" => avail.ring[Slot(avail.idx)] = First(q)'
  PROVE  Avail' /\ Taken' /\ Used'
<1>1. \A q \in Proc : pc[q] \in Published /\ info[First(q)].status = 255 => req[q].b \in busy
  BY ZenonT(40) DEF IInv, Chains, Filled, First, Published, Queued
<1>2. Waiting \subseteq Waiting'
  <2> SUFFICES ASSUME NEW h \in Waiting PROVE h \in Waiting'
    BY Zenon
  <2>1. PICK p \in Proc : pc[p] \in Published /\ First(p) = h /\ info[h].status = 255
    BY Zenon DEF Waiting
  <2>2. pc'[p] \in Published /\ First(p)' = h /\ info'[h].status = 255
    BY <1>1, <2>1 DEF First
  <2> QED
    BY Zenon, <2>2 DEF Waiting
<1>3. Answered \subseteq Answered'
  <2> SUFFICES ASSUME NEW h \in Answered PROVE h \in Answered'
    BY Zenon
  <2>1. PICK p \in Proc : /\ pc[p] \in Published /\ First(p) = h /\ info[h].status = 0
                          /\ req[p].b \in busy
    BY Zenon DEF Answered
  <2>2. /\ pc'[p] \in Published /\ First(p)' = h /\ info'[h].status = 0
        /\ req'[p].b \in busy'
    BY Zenon, <2>1 DEF First
  <2> QED
    BY Zenon, <2>2 DEF Answered
<1>4. Avail'
  BY Zenon, <1>2 DEF IInv, Avail, Injective, Entry
<1>5. Used'
  BY Zenon, <1>3 DEF IInv, Used, Injective, Entry
<1>6. Taken'
  <2> SUFFICES ASSUME NEW r \in taken
               PROVE  /\ \E p \in Proc : /\ pc'[p] \in Published /\ r = Request(p)'
                                         /\ info'[First(p)'].status = 255
                      /\ \A k \in 0..(Span(last, avail.idx) - 1) : Entry(avail.ring, last, k) # r.id
    BY DEF Taken
  <2>1. PICK p \in Proc : pc[p] \in Published /\ r = Request(p) /\ info[First(p)].status = 255
    BY SMTT(30) DEF IInv, Taken
  <2>2. Request(p)' = Request(p) /\ First(p)' = First(p)
    BY ZenonT(40), <1>1, <2>1 DEF Request, First
  <2> QED
    BY <1>1, <2>1, <2>2 DEF IInv, Taken
<1> QED
  BY Zenon, <1>4, <1>5, <1>6

(* Steps that only move control. *)
LEMMA QuietInv ==
  ASSUME IInv, UNCHANGED <<queue, avail, used, used_idx, busy, req, panic, taken, last, blocks>>,
         Types', Calls', Sleepers',
         \A q \in Proc : /\ pc[q] \in Published <=> pc'[q] \in Published
                         /\ pc'[q] \notin Published => pc'[q] \notin Queued \/ pc'[q] = pc[q],
         used_idx # used.idx => isr' \/ lock' = "intr"
  PROVE  IInv'
<1>1. Owned'
  <2>1. \A q \in Proc : Holds(q)' = Holds(q)
    BY Zenon DEF Holds
  <2> QED
    BY Zenon, <2>1 DEF IInv, Owned, queue
<1>2. Chains'
  <2> SUFFICES ASSUME NEW q \in Proc, pc'[q] \in Queued PROVE Filled(q)'
    BY Zenon DEF Chains
  <2>1. Filled(q) /\ (pc'[q] \in {"enqueue", "publish"} => pc'[q] = pc[q])
    BY Zenon DEF IInv, Chains, Published, Queued
  <2> QED
    BY Zenon, <2>1, FilledKept DEF queue
<1>3. Avail' /\ Taken' /\ Used'
  <2>1. \A q \in Proc : pc'[q] = "publish" => avail.ring[Slot(avail.idx)] = First(q)'
    BY Zenon DEF IInv, Avail, First, Published, Queued
  <2>2. \A q \in Proc : First(q)' = First(q) /\ info'[First(q)] = info[First(q)]
    BY Zenon DEF First, queue
  <2> QED
    BY Zenon, <2>1, <2>2, RingsKept
<1> QED
  BY Zenon, <1>1, <1>2, <1>3 DEF IInv

LEMMA ControlInv ==
  ASSUME IInv, NEW p \in Proc, notify(p) \/ wait(p) \/ sleep(p) \/ kkill(p) \/ acquire(p)
  PROVE  IInv'
<1>1. UNCHANGED <<queue, avail, used, used_idx, busy, req, panic, taken, last, isr, blocks>>
  BY Zenon DEF notify, wait, sleep, kkill, acquire, device, blocks
<1>2. \/ /\ pc[p] = "notify" /\ pc' = [pc EXCEPT ![p] = "wait"] /\ UNCHANGED <<lock, chan>>
      \/ /\ pc[p] = "wait" /\ req[p].b \in busy /\ pc' = [pc EXCEPT ![p] = "sleep_buf"]
         /\ lock' = None /\ chan' = [chan EXCEPT ![p] = req[p].b]
      \/ /\ pc[p] = "sleep_free" /\ pc' = [pc EXCEPT ![p] = "alloc"] /\ UNCHANGED <<lock, chan>>
      \/ /\ pc[p] = "sleep_buf" /\ pc' = [pc EXCEPT ![p] = "acquire"] /\ UNCHANGED <<lock, chan>>
      \/ /\ pc[p] = "acquire" /\ lock = None /\ pc' = [pc EXCEPT ![p] = "wait"]
         /\ lock' = p /\ UNCHANGED chan
  BY Zenon DEF notify, wait, sleep, kkill, acquire, Goto, Done
<1>3. Types'
  <2>1. pc' \in [Proc -> Pcs]
    <3>1. \E l \in Pcs : pc' = [pc EXCEPT ![p] = l]
      BY Zenon, <1>2 DEF Pcs, Queued
    <3> QED
      BY <3>1 DEF IInv, Types
  <2>2. lock' \in Proc \cup {"intr", None} /\ chan' \in [Proc -> Buf \cup {"free", None}]
    BY SMTT(30), <1>2 DEF IInv, Types
  <2> QED
    BY Zenon, <1>1, <2>1, <2>2 DEF IInv, Types, queue, blocks
<1>4. Calls'
  <2>1. \A q \in Proc : (pc'[q] \in Locked <=> lock' = q)
    BY SMTT(30), <1>2, VirtioAssumption DEF IInv, Calls, Types, Locked
  <2> QED
    BY SMTT(30), <1>1, <1>2, <2>1 DEF IInv, Types, Calls, Triple, Queued
<1>5. Sleepers'
  BY SMTT(30), <1>1, <1>2 DEF IInv, Types, Sleepers, queue
<1>6. \A q \in Proc : /\ pc[q] \in Published <=> pc'[q] \in Published
                      /\ pc'[q] \notin Published => pc'[q] \notin Queued \/ pc'[q] = pc[q]
  BY SMTT(30), <1>2 DEF IInv, Types, Published, Queued
<1>7. lock = "intr" => lock' = "intr"
  BY Zenon, <1>2, VirtioAssumption DEF IInv, Calls, Locked
<1> QED
  BY Zenon, <1>1, <1>3, <1>4, <1>5, <1>6, <1>7, QuietInv DEF IInv, Used

LEMMA InterruptInv ==
  ASSUME IInv, virtio_disk_intr \/ intr_done
  PROVE  IInv'
<1>1. UNCHANGED <<queue, avail, used, used_idx, busy, pc, req, chan, panic, taken, last, blocks>>
  BY Zenon DEF virtio_disk_intr, intr_done, device, blocks
<1>2. \/ lock = None /\ lock' = "intr" /\ isr' = FALSE
      \/ lock = "intr" /\ used_idx = used.idx /\ lock' = None /\ UNCHANGED isr
  BY Zenon DEF virtio_disk_intr, intr_done
<1>3. Types' /\ Sleepers'
  BY Zenon, <1>1, <1>2 DEF IInv, Types, Sleepers, queue, blocks
<1>4. Calls'
  BY <1>1, <1>2, VirtioAssumption DEF IInv, Types, Calls, Triple
<1> QED
  BY Zenon, <1>1, <1>2, <1>3, <1>4, QuietInv

(* A call starts. *)
LEMMA RwInv ==
  ASSUME IInv, NEW p \in Proc, NEW b \in Buf, NEW w \in BOOLEAN, virtio_disk_rw(p, b, w)
  PROVE  IInv'
<1>1. /\ pc[p] = "idle" /\ \A q \in Proc : req[q].b # b
      /\ pc' = [pc EXCEPT ![p] = "alloc"]
      /\ req' = [req EXCEPT ![p] = [b |-> b, write |-> w, idx |-> <<>>]]
      /\ UNCHANGED <<desc, ops, info, free, avail, used, used_idx, busy, lock, chan, panic,
                     taken, last, isr, disk>>
  BY Zenon DEF virtio_disk_rw, Goto, queue, device
<1>2. data' \in [Buf -> Value]
  BY SMTT(30) DEF virtio_disk_rw, IInv, Types
<1>3. /\ req'[p] = [b |-> b, write |-> w, idx |-> <<>>] /\ pc'[p] = "alloc"
      /\ \A q \in Proc \ {p} : req'[q] = req[q] /\ pc'[q] = pc[q]
  BY ZenonT(40), <1>1 DEF IInv, Types
<1>4. Types'
  BY Zenon, <1>1, <1>2 DEF IInv, Types, Pcs
<1>5. Calls'
  BY <1>1, <1>3, VirtioAssumption DEF IInv, Calls, Triple, Locked, Queued
<1>6. Owned'
  <2>1. req[p].idx = <<>>
    BY Zenon, <1>1 DEF IInv, Calls
  <2>2. \A q \in Proc : Holds(q)' = Holds(q)
    BY SMTT(30), <1>3, <2>1 DEF Holds
  <2> QED
    BY Zenon, <1>1, <2>2 DEF IInv, Owned
<1>7. Chains'
  <2> SUFFICES ASSUME NEW q \in Proc, pc'[q] \in Queued PROVE Filled(q)'
    BY Zenon DEF Chains
  <2>1. q # p /\ Filled(q)
    BY Zenon, <1>3 DEF IInv, Chains, Queued
  <2> QED
    BY Zenon, <1>1, <1>3, <2>1, FilledKept
<1>8. Avail' /\ Taken' /\ Used'
  <2>1. \A q \in Proc : pc[q] \in Published => q # p
    BY Zenon, <1>1 DEF Published
  <2>2. \A q \in Proc : pc'[q] = "publish" => avail.ring[Slot(avail.idx)] = First(q)'
    BY Zenon, <1>3 DEF IInv, Avail, First
  <2> QED
    BY Zenon, <1>1, <1>3, <2>1, <2>2, RingsKept DEF IInv, Used
<1>9. Sleepers'
  BY <1>1, <1>3 DEF IInv, Sleepers
<1> QED
  BY Zenon, <1>1, <1>4, <1>5, <1>6, <1>7, <1>8, <1>9 DEF IInv

----------------------------------------------------------------------------
LEMMA AllocInv ==
  ASSUME IInv, NEW p \in Proc, alloc3_desc(p), ThreeFound, Cardinality(free) \in Nat
  PROVE  IInv'
<1>1. PICK i, j, k \in free : FirstThree = <<i, j, k>> /\ i # j /\ i # k /\ j # k
  BY Zenon DEF ThreeFound
<1>2. /\ pc[p] = "alloc" /\ lock = None /\ Cardinality(free) >= 3 /\ lock' = p
      /\ req' = [req EXCEPT ![p].idx = <<i, j, k>>]
      /\ free' = free \ {i, j, k}
      /\ pc' = [pc EXCEPT ![p] = "fill"]
      /\ UNCHANGED <<desc, ops, info, avail, used, used_idx, busy, chan, panic, taken, last, isr,
                     disk, data>>
  <2>1. {FirstThree[m] : m \in 1..3} = {i, j, k}
    BY <1>1
  <2> QED
    BY Zenon, <1>1, <2>1 DEF alloc3_desc, Goto, device, blocks
<1>3. i \in Desc /\ j \in Desc /\ k \in Desc
  BY Zenon DEF IInv, Types
<1>4. /\ req'[p] = [req[p] EXCEPT !.idx = <<i, j, k>>] /\ pc'[p] = "fill"
      /\ req'[p].b = req[p].b /\ req'[p].write = req[p].write /\ req'[p].idx = <<i, j, k>>
      /\ \A q \in Proc \ {p} : req'[q] = req[q] /\ pc'[q] = pc[q]
  BY <1>2 DEF IInv, Types
<1>5. Types'
  <2>1. req' \in [Proc -> [b : Buf \cup {None}, write : BOOLEAN,
                           idx : {<<>>} \cup (Desc \X Desc \X Desc)]]
    <3>1. [req[p] EXCEPT !.idx = <<i, j, k>>] \in
             [b : Buf \cup {None}, write : BOOLEAN, idx : {<<>>} \cup (Desc \X Desc \X Desc)]
      <4>1. req[p] \in [b : Buf \cup {None}, write : BOOLEAN,
                        idx : {<<>>} \cup (Desc \X Desc \X Desc)]
        BY Zenon DEF IInv, Types
      <4>2. <<i, j, k>> \in {<<>>} \cup (Desc \X Desc \X Desc)
        BY Zenon, <1>3
      <4> QED
        BY Zenon, <4>1, <4>2
    <3>2. req' = [req EXCEPT ![p] = [req[p] EXCEPT !.idx = <<i, j, k>>]]
      BY Zenon, <1>2
    <3> QED
      BY Zenon, <3>1, <3>2 DEF IInv, Types
  <2> QED
    BY Zenon, <1>2, <2>1 DEF IInv, Types, Pcs
<1>6. Calls'
  <2>1. Triple(p)'
    BY <1>1, <1>3, <1>4 DEF Triple
  <2>2. \A q \in Proc : (pc'[q] \in Locked <=> lock' = q)
    BY Zenon, <1>2, <1>4, VirtioAssumption DEF IInv, Calls, Locked
  <2>3. \A q \in Proc \ {p} : Triple(q)' = Triple(q)
    BY Zenon, <1>4 DEF Triple
  <2> QED
    BY <1>2, <1>4, <2>1, <2>2, <2>3 DEF IInv, Calls, Queued
<1>7. Owned'
  <2>1. Holds(p) = {} /\ Holds(p)' = {i, j, k}
    <3>1. req[p].idx = <<>>
      BY Zenon, <1>2 DEF IInv, Calls
    <3>2. <<i, j, k>> \in Desc \X Desc \X Desc
      BY Zenon, <1>3
    <3> QED
      BY <1>4, <3>1, <3>2, TripleRange, EmptyRange DEF Holds
  <2>2. \A q \in Proc \ {p} : Holds(q)' = Holds(q)
    BY <1>4 DEF Holds
  <2>3. \A q \in Proc : Holds(q) \cap free = {}
    BY Zenon DEF IInv, Owned
  <2> QED
    BY <1>2, <2>1, <2>2, <2>3 DEF IInv, Owned
<1>8. Chains'
  <2> SUFFICES ASSUME NEW q \in Proc, pc'[q] \in Queued PROVE Filled(q)'
    BY Zenon DEF Chains
  <2>1. q # p /\ Filled(q)
    BY Zenon, <1>4 DEF IInv, Chains, Queued
  <2> QED
    BY Zenon, <1>2, <1>4, <2>1, FilledKept
<1>9. Avail' /\ Taken' /\ Used'
  <2>1. \A q \in Proc : pc[q] \in Published => q # p
    BY Zenon, <1>2 DEF Published
  <2>2. \A q \in Proc : pc'[q] = "publish" => avail.ring[Slot(avail.idx)] = First(q)'
    BY Zenon, <1>4 DEF IInv, Avail, First
  <2>3. lock = "intr" => lock' = "intr"
    BY Zenon, <1>2, VirtioAssumption
  <2> QED
    BY Zenon, <1>2, <1>4, <2>1, <2>2, <2>3, RingsKept DEF IInv, Used
<1>10. Sleepers'
  BY <1>2, <1>4 DEF IInv, Sleepers
<1> QED
  BY Zenon, <1>2, <1>5, <1>6, <1>7, <1>8, <1>9, <1>10 DEF IInv

LEMMA AllocFailsInv ==
  ASSUME IInv, NEW p \in Proc, alloc3_fails(p)
  PROVE  IInv'
<1>1. /\ pc[p] = "alloc" /\ Cardinality(free) < 3
      /\ desc' = [i \in Desc |-> IF i \in free THEN Cleared ELSE desc[i]]
      /\ pc' = [pc EXCEPT ![p] = "sleep_free"]
      /\ UNCHANGED <<ops, info, free, avail, used, used_idx, busy, lock, req, panic, taken, last,
                     isr, disk, data>>
  BY Zenon DEF alloc3_fails, Goto, device, blocks
<1>2. /\ chan' \in [Proc -> Buf \cup {"free", None}] /\ chan'[p] = "free"
      /\ \A q \in Proc \ {p} : chan'[q] = chan[q] \/ chan'[q] = None
  BY SMTT(30) DEF alloc3_fails, Woken, IInv, Types
<1>3. pc'[p] = "sleep_free" /\ \A q \in Proc \ {p} : pc'[q] = pc[q]
  BY SMTT(30), <1>1 DEF IInv, Types
<1>4. Types'
  <2>1. Cleared \in [addr : Desc \cup Buf, flags : SUBSET {"NEXT", "WRITE"}, next : Desc]
    BY VirtioAssumption DEF Cleared, Desc
  <2>2. desc' \in [Desc -> [addr : Desc \cup Buf, flags : SUBSET {"NEXT", "WRITE"}, next : Desc]]
    BY Zenon, <1>1, <2>1 DEF IInv, Types
  <2> QED
    BY Zenon, <1>1, <1>2, <2>2 DEF IInv, Types, Pcs
<1>5. Calls'
  BY <1>1, <1>3 DEF IInv, Calls, Triple, Locked, Queued
<1>6. Owned'
  <2>1. \A q \in Proc : Holds(q)' = Holds(q)
    BY ZenonT(40), <1>1 DEF Holds
  <2> QED
    BY Zenon, <1>1, <2>1 DEF IInv, Owned
<1>7. Chains'
  <2> SUFFICES ASSUME NEW q \in Proc, pc'[q] \in Queued PROVE Filled(q)'
    BY Zenon DEF Chains
  <2>1. q # p /\ Filled(q) /\ pc[q] \in Queued
    BY Zenon, <1>3 DEF IInv, Chains, Queued
  <2>2. \A d \in Holds(q) : desc'[d] = desc[d]
    BY SMTT(30), <1>1, <2>1, CallFacts
  <2>3. desc'[req[q].idx[1]] = desc[req[q].idx[1]] /\ desc'[req[q].idx[2]] = desc[req[q].idx[2]]
        /\ desc'[req[q].idx[3]] = desc[req[q].idx[3]]
    BY SMTT(30), <2>1, <2>2, CallFacts DEF First
  <2> QED
    BY Zenon, <1>1, <1>3, <2>1, <2>3, FilledKept
<1>8. Avail' /\ Taken' /\ Used'
  <2>1. \A q \in Proc : pc[q] \in Published => q # p
    BY Zenon, <1>1 DEF Published
  <2>2. \A q \in Proc : pc'[q] = "publish" => avail.ring[Slot(avail.idx)] = First(q)'
    BY Zenon, <1>1, <1>3 DEF IInv, Avail, First
  <2> QED
    BY Zenon, <1>1, <1>3, <2>1, <2>2, RingsKept DEF IInv, Used
<1>9. Sleepers'
  BY Zenon, <1>1, <1>2, <1>3 DEF IInv, Sleepers
<1> QED
  BY Zenon, <1>1, <1>4, <1>5, <1>6, <1>7, <1>8, <1>9 DEF IInv

----------------------------------------------------------------------------
LEMMA FillInv ==
  ASSUME IInv, NEW p \in Proc, fill(p)
  PROVE  IInv'
<1>1. pc[p] = "fill" /\ lock = p
  BY Zenon DEF fill, IInv, Calls, Locked
<1>2. PICK i \in Desc, j \in Desc, k \in Desc, b \in Buf :
        /\ i = req[p].idx[1] /\ j = req[p].idx[2] /\ k = req[p].idx[3] /\ b = req[p].b
        /\ i # j /\ i # k /\ j # k
  BY SMTT(30), <1>1, CallFacts DEF First
<1>3. /\ First(p) = i /\ Holds(p) = {i, j, k}
      /\ \A q \in Proc \ {p} : Holds(q) \cap {i, j, k} = {}
  BY Zenon, <1>1, <1>2, CallFacts DEF First
<1> DEFINE op == [type |-> IF req[p].write THEN "OUT" ELSE "IN", sector |-> b]
           d1 == [addr |-> i, flags |-> {"NEXT"}, next |-> j]
           d2 == [addr |-> b, next |-> k,
                  flags |-> IF req[p].write THEN {"NEXT"} ELSE {"NEXT", "WRITE"}]
           d3 == [addr |-> i, flags |-> {"WRITE"}, next |-> 0]
<1>4. /\ ops' = [ops EXCEPT ![i] = op]
      /\ desc' = [desc EXCEPT ![i] = d1, ![j] = d2, ![k] = d3]
      /\ info' = [info EXCEPT ![i] = [b |-> b, status |-> 255]]
      /\ busy' = busy \cup {b}
      /\ pc' = [pc EXCEPT ![p] = "enqueue"]
      /\ UNCHANGED <<free, avail, used, used_idx, lock, req, chan, panic, taken, last, isr,
                     disk, data>>
  BY ZenonT(40), <1>2 DEF fill, Goto, device, blocks
<1>5. /\ ops'[i] = op /\ desc'[i] = d1 /\ desc'[j] = d2 /\ desc'[k] = d3
      /\ info'[i] = [b |-> b, status |-> 255] /\ pc'[p] = "enqueue"
      /\ \A d \in Desc \ {i, j, k} : desc'[d] = desc[d]
      /\ \A d \in Desc \ {i} : ops'[d] = ops[d] /\ info'[d] = info[d]
      /\ \A q \in Proc \ {p} : pc'[q] = pc[q]
  <2> HIDE DEF op, d1, d2, d3
  <2> QED
    BY SMTT(30), <1>2, <1>4 DEF IInv, Types
<1>f. /\ busy' = busy \cup {b} /\ pc' = [pc EXCEPT ![p] = "enqueue"]
      /\ UNCHANGED <<free, avail, used, used_idx, lock, req, chan, panic, taken, last, isr,
                     disk, data>>
  BY Zenon, <1>4
<1>6. Types'
  <2>1. /\ op \in [type : {"IN", "OUT"}, sector : Buf \cup {None}]
        /\ d1 \in [addr : Desc \cup Buf, flags : SUBSET {"NEXT", "WRITE"}, next : Desc]
        /\ d2 \in [addr : Desc \cup Buf, flags : SUBSET {"NEXT", "WRITE"}, next : Desc]
        /\ d3 \in [addr : Desc \cup Buf, flags : SUBSET {"NEXT", "WRITE"}, next : Desc]
        /\ [b |-> b, status |-> 255] \in [b : Buf \cup {None}, status : {0, 1, 255}]
    BY SMTT(30), VirtioAssumption DEF Desc
  <2> HIDE DEF op, d1, d2, d3
  <2>2. /\ ops' \in [Desc -> [type : {"IN", "OUT"}, sector : Buf \cup {None}]]
        /\ desc' \in [Desc -> [addr : Desc \cup Buf, flags : SUBSET {"NEXT", "WRITE"}, next : Desc]]
        /\ info' \in [Desc -> [b : Buf \cup {None}, status : {0, 1, 255}]]
    BY Zenon, <1>4, <2>1 DEF IInv, Types
  <2> QED
    <3>1. pc' \in [Proc -> Pcs]
      BY Zenon, <1>f DEF IInv, Types, Pcs, Queued
    <3>2. busy' \in SUBSET Buf
      BY Zenon, <1>f DEF IInv, Types
    <3> QED
      BY Zenon, <1>f, <2>2, <3>1, <3>2 DEF IInv, Types
<1> HIDE DEF op, d1, d2, d3
<1>7. Calls'
  <2>1. \A q \in Proc : Triple(q)' = Triple(q)
    BY Zenon, <1>f DEF Triple
  <2> QED
    BY SMTT(30), <1>1, <1>f, <1>5, <2>1 DEF IInv, Calls, Locked, Queued
<1>8. Owned'
  <2>1. \A q \in Proc : Holds(q)' = Holds(q)
    BY Zenon, <1>f DEF Holds
  <2> QED
    BY Zenon, <1>f, <2>1 DEF IInv, Owned
<1>9. ASSUME NEW q \in Proc, q # p, pc[q] \in Queued
      PROVE  /\ \A d \in Holds(q) : desc'[d] = desc[d] /\ ops'[d] = ops[d] /\ info'[d] = info[d]
             /\ First(q) \in Holds(q) /\ req[q].idx[2] \in Holds(q) /\ req[q].idx[3] \in Holds(q)
  <2>1. Holds(q) \subseteq Desc \ {i, j, k}
    BY SMTT(30), <1>3, <1>9, CallFacts
  <2> QED
    BY SMTT(30), <1>5, <1>9, <2>1, CallFacts
<1>10. Chains'
  <2> SUFFICES ASSUME NEW q \in Proc, pc'[q] \in Queued PROVE Filled(q)'
    BY Zenon DEF Chains
  <2>1. CASE q = p
    <3>1. req'[q].idx[1] = i /\ req'[q].idx[2] = j /\ req'[q].idx[3] = k /\ req'[q].b = b
          /\ req'[q].write = req[p].write
      BY Zenon, <1>2, <1>f, <2>1
    <3>2. info'[i].b = b /\ info'[i].status = 255 /\ b \in busy'
      BY <1>f, <1>5
    <3> QED
      BY SMTT(30), <1>5, <3>1, <3>2 DEF Filled, op, d1, d2, d3
  <2>2. CASE q # p
    <3>1. pc[q] \in Queued /\ Filled(q)
      BY ZenonT(40), <1>5, <2>2 DEF IInv, Chains
    <3>2. /\ desc'[req[q].idx[1]] = desc[req[q].idx[1]]
          /\ desc'[req[q].idx[2]] = desc[req[q].idx[2]]
          /\ desc'[req[q].idx[3]] = desc[req[q].idx[3]]
          /\ ops'[First(q)] = ops[First(q)] /\ info'[First(q)] = info[First(q)]
      BY Zenon, <1>9, <2>2, <3>1 DEF First
    <3>3. /\ req'[q] = req[q] /\ pc'[q] = pc[q]
          /\ req[q].b \in busy => req[q].b \in busy'
      BY ZenonT(40), <1>f, <1>5, <2>2
    <3> QED
      BY ZenonT(40), <3>1, <3>2, <3>3, FilledKept
  <2> QED
    BY Zenon, <2>1, <2>2
<1>11. Avail' /\ Taken' /\ Used'
  <2>1. \A q \in Proc : pc[q] \in Published => q # p /\ pc[q] \in Queued
    BY Zenon, <1>1 DEF Published, Queued
  <2>2. \A q \in Proc : pc'[q] = "publish" => avail.ring[Slot(avail.idx)] = First(q)'
    <3>1. \A q \in Proc : (pc'[q] = "publish" => pc[q] = "publish") /\ First(q)' = First(q)
      BY Zenon, <1>5, <1>f DEF First
    <3> QED
      BY Zenon, <3>1 DEF IInv, Avail
  <2> QED
    BY SMTT(30), <1>5, <1>9, <1>f, <2>1, <2>2, RingsKept DEF IInv, Used
<1>12. Sleepers'
  <2>1. \A q \in Proc : pc'[q] \in {"sleep_free", "sleep_buf"} => pc'[q] = pc[q]
    <3>1. \A q \in Proc \ {p} : pc'[q] = pc[q]
      BY Zenon, <1>5
    <3>2. pc'[p] = "enqueue"
      BY Zenon, <1>5
    <3> QED
      BY Zenon, <3>1, <3>2
  <2>2. chan' = chan /\ free' = free /\ req' = req /\ busy \subseteq busy'
    BY Zenon, <1>f
  <2> QED
    BY Zenon, <2>1, <2>2 DEF IInv, Sleepers
<1> QED
  BY Zenon, <1>6, <1>7, <1>8, <1>10, <1>11, <1>12, <1>f DEF IInv

(* free_chain follows the chain that fill made. *)
LEMMA ChainIsHeld ==
  ASSUME IInv, NEW p \in Proc, pc[p] \in Queued
  PROVE  Chain(First(p)) = Holds(p)
<1>1. Filled(p)
  BY ZenonT(40) DEF IInv, Chains
<1>2. /\ desc[First(p)].next = req[p].idx[2] /\ "NEXT" \in desc[First(p)].flags
      /\ desc[req[p].idx[2]].next = req[p].idx[3] /\ "NEXT" \in desc[req[p].idx[2]].flags
  BY SMTT(30), <1>1 DEF Filled, First
<1> QED
  BY Zenon, <1>2, CallFacts DEF Chain

LEMMA FreeChainInv ==
  ASSUME IInv, NEW p \in Proc, free_chain(p)
  PROVE  IInv'
<1>1. pc[p] = "wait" /\ lock = p /\ req[p].b \notin busy /\ pc[p] \in Queued
  BY Zenon DEF free_chain, Done, IInv, Calls, Locked, Queued
<1>2. PICK i \in Desc : i = First(p)
  BY Zenon, <1>1, CallFacts
<1>3. /\ Chain(i) = Holds(p) /\ Holds(p) \cap free = {} /\ i \in Holds(p)
      /\ \A q \in Proc \ {p} : Holds(q) \cap Holds(p) = {}
  BY ZenonT(40), <1>1, <1>2, ChainIsHeld, CallFacts
<1>4. /\ info' = [info EXCEPT ![i].b = None]
      /\ desc' = [d \in Desc |-> IF d \in Holds(p) THEN Cleared ELSE desc[d]]
      /\ free' = free \cup Holds(p)
      /\ chan' = Woken("free")
      /\ req' = [req EXCEPT ![p] = NoReq]
      /\ lock' = None /\ ~panic'
      /\ pc' = [pc EXCEPT ![p] = "idle"]
      /\ UNCHANGED <<ops, avail, used, used_idx, busy, taken, last, isr, disk, data>>
  BY Zenon, <1>2, <1>3 DEF free_chain, Goto, device, blocks, First, IInv
<1>5. /\ req'[p] = NoReq /\ pc'[p] = "idle"
      /\ \A q \in Proc \ {p} : req'[q] = req[q] /\ pc'[q] = pc[q]
      /\ \A d \in Desc \ {i} : info'[d] = info[d]
      /\ \A d \in Desc : d \notin Holds(p) => desc'[d] = desc[d]
      /\ \A q \in Proc : chan'[q] = IF chan[q] = "free" THEN None ELSE chan[q]
  BY <1>4 DEF IInv, Types, Woken
<1>6. Types'
  <2>1. Cleared \in [addr : Desc \cup Buf, flags : SUBSET {"NEXT", "WRITE"}, next : Desc]
    BY VirtioAssumption DEF Cleared, Desc
  <2>2. desc' \in [Desc -> [addr : Desc \cup Buf, flags : SUBSET {"NEXT", "WRITE"}, next : Desc]]
    BY <1>4, <2>1 DEF IInv, Types
  <2>3. info' \in [Desc -> [b : Buf \cup {None}, status : {0, 1, 255}]]
    <3>1. info[i] \in [b : Buf \cup {None}, status : {0, 1, 255}]
      BY DEF IInv, Types
    <3>2. [info[i] EXCEPT !.b = None] \in [b : Buf \cup {None}, status : {0, 1, 255}]
      BY Zenon, <3>1
    <3>3. info' = [info EXCEPT ![i] = [info[i] EXCEPT !.b = None]]
      BY Zenon, <1>4
    <3> QED
      BY Zenon, <3>2, <3>3 DEF IInv, Types
  <2>4. NoReq \in [b : Buf \cup {None}, write : BOOLEAN, idx : {<<>>} \cup (Desc \X Desc \X Desc)]
    BY Zenon DEF NoReq
  <2>5. req' \in [Proc -> [b : Buf \cup {None}, write : BOOLEAN,
                           idx : {<<>>} \cup (Desc \X Desc \X Desc)]]
    BY Zenon, <1>4, <2>4 DEF IInv, Types
  <2>6. free' \in SUBSET Desc
    <3>1. Holds(p) \subseteq Desc
      BY <1>1, CallFacts
    <3> QED
      BY Zenon, <1>4, <3>1 DEF IInv, Types
  <2>7. chan' \in [Proc -> Buf \cup {"free", None}]
    BY Zenon, <1>4 DEF IInv, Types, Woken
  <2>8. pc' \in [Proc -> Pcs]
    BY Zenon, <1>4 DEF IInv, Types, Pcs
  <2> QED
    BY Zenon, <1>4, <2>2, <2>3, <2>5, <2>6, <2>7, <2>8 DEF IInv, Types
<1>7. Calls'
  <2>1. \A q \in Proc \ {p} : Triple(q)' = Triple(q)
    BY Zenon, <1>5 DEF Triple
  <2>2. NoReq.b = None /\ NoReq.idx = <<>>
    BY Zenon DEF NoReq
  <2>3. \A q \in Proc : (pc'[q] \in Locked <=> lock' = q)
    BY Zenon, <1>1, <1>4, <1>5, VirtioAssumption DEF IInv, Calls, Locked
  <2> QED
    BY SMTT(30), <1>5, <2>1, <2>2, <2>3 DEF IInv, Calls, Queued
<1>8. Owned'
  <2>1. Holds(p)' = {}
    BY SMTT(30), <1>5, EmptyRange DEF Holds, NoReq
  <2>2. \A q \in Proc \ {p} : Holds(q)' = Holds(q)
    BY SMTT(30), <1>5 DEF Holds
  <2>3. Holds(p) \subseteq Desc
    BY SMTT(30), <1>1, CallFacts
  <2> QED
    BY SMTT(30), <1>3, <1>4, <2>1, <2>2, <2>3 DEF IInv, Owned
<1>9. ASSUME NEW q \in Proc, q # p, pc[q] \in Queued
      PROVE  /\ \A d \in Holds(q) : desc'[d] = desc[d] /\ info'[d] = info[d]
             /\ First(q) \in Holds(q) /\ req[q].idx[2] \in Holds(q) /\ req[q].idx[3] \in Holds(q)
  <2>1. Holds(q) \subseteq Desc /\ i \notin Holds(q) /\ Holds(q) \cap Holds(p) = {}
    BY SMTT(30), <1>3, <1>9, CallFacts
  <2> QED
    BY SMTT(30), <1>5, <1>9, <2>1, CallFacts
<1>10. Chains'
  <2> SUFFICES ASSUME NEW q \in Proc, pc'[q] \in Queued PROVE Filled(q)'
    BY Zenon DEF Chains
  <2>1. q # p /\ pc[q] \in Queued /\ Filled(q)
    BY Zenon, <1>5 DEF IInv, Chains, Queued
  <2> QED
    BY Zenon, <1>4, <1>5, <1>9, <2>1, FilledKept DEF First
<1>11. Avail' /\ Taken' /\ Used'
  <2>1. \A q \in Proc : pc[q] \in Published /\ req[q].b \in busy => q # p /\ pc[q] \in Queued
    BY Zenon, <1>1 DEF Published, Queued
  <2>2. \A q \in Proc : pc'[q] = "publish" => avail.ring[Slot(avail.idx)] = First(q)'
    BY <1>5 DEF IInv, Avail, First
  <2>3. lock # "intr"
    BY Zenon, <1>1, VirtioAssumption
  <2> QED
    BY Zenon, <1>4, <1>5, <1>9, <2>1, <2>2, <2>3, RingsKept DEF IInv, Used
<1>12. Sleepers'
  BY <1>4, <1>5, VirtioAssumption DEF IInv, Sleepers, Types
<1> QED
  BY Zenon, <1>4, <1>6, <1>7, <1>8, <1>10, <1>11, <1>12 DEF IInv

----------------------------------------------------------------------------
(* The avail ring has room for the call that is being published. *)
LEMMA AvailRoom ==
  ASSUME IInv, HeadsFit, NEW p \in Proc, pc[p] \in {"enqueue", "publish"}
  PROVE  /\ Span(last, avail.idx) \in Nat
         /\ Span(last, avail.idx) + 1 < NUM /\ Span(last, avail.idx) + 1 < UINT16
         /\ \A k \in 0..(Span(last, avail.idx) - 1) : Entry(avail.ring, last, k) # First(p)
<1> DEFINE n == Span(last, avail.idx)
           f == [k \in 0..n |-> IF k = n THEN First(p) ELSE Entry(avail.ring, last, k)]
<1>1. n \in Nat /\ avail.idx \in Index /\ last \in Index
  <2>1. avail.idx \in Index /\ last \in Index
    BY Zenon DEF IInv, Types
  <2>2. n \in 0..(UINT16 - 1)
    BY Zenon, <2>1, RingFacts
  <2> QED
    BY <2>1, <2>2
<1>2. pc[p] \in Queued /\ pc[p] \notin Published
  BY Zenon DEF Queued, Published
<1>3. /\ First(p) \in Desc /\ req[p].idx[2] \in Desc /\ First(p) # req[p].idx[2]
  BY Zenon, <1>2, CallFacts
<1> HIDE DEF n
<1>4. ASSUME NEW k \in 0..(n - 1)
      PROVE  /\ Entry(avail.ring, last, k) \in Desc /\ Entry(avail.ring, last, k) # First(p)
             /\ Entry(avail.ring, last, k) # req[p].idx[2]
  <2>1. PICK q \in Proc : pc[q] \in Published /\ First(q) = Entry(avail.ring, last, k)
    BY Zenon DEF IInv, Avail, Waiting, n
  <2>2. q # p /\ pc[q] \in Queued
    BY Zenon, <1>2, <2>1 DEF Published, Queued
  <2> QED
    BY <1>2, <2>1, <2>2, CallFacts, HeadsDiffer
<1>5. f \in [0..n -> Desc]
  BY <1>1, <1>3, <1>4
<1>6. \A j, k \in 0..n : f[j] = f[k] => j = k
  <2>1. \A j, k \in 0..(n - 1) : Entry(avail.ring, last, j) = Entry(avail.ring, last, k) => j = k
    BY Zenon DEF IInv, Avail, Injective, n
  <2> QED
    BY <1>1, <1>4, <2>1
<1>7. \A k \in 0..n : f[k] # req[p].idx[2]
  BY <1>1, <1>3, <1>4
<1>8. n + 1 < NUM /\ n + 1 < UINT16
  <2> HIDE DEF f
  <2> QED
    BY SMTT(30), <1>1, <1>3, <1>5, <1>6, <1>7, NoFullRing
<1> QED
  BY Zenon, <1>1, <1>4, <1>8 DEF n

LEMMA EnqueueInv ==
  ASSUME IInv, HeadsFit, NEW p \in Proc, enqueue(p)
  PROVE  IInv'
<1> DEFINE n == Span(last, avail.idx)
<1>1. /\ pc[p] = "enqueue" /\ lock = p
      /\ avail' = [avail EXCEPT !.ring[Slot(avail.idx)] = First(p)]
      /\ pc' = [pc EXCEPT ![p] = "publish"]
      /\ UNCHANGED <<desc, ops, info, free, used, used_idx, busy, lock, req, chan, panic, taken,
                     last, isr, disk, data>>
  BY Zenon DEF enqueue, Goto, queue, device, blocks, First, IInv, Calls, Locked
<1>2. pc'[p] = "publish" /\ \A q \in Proc \ {p} : pc'[q] = pc[q]
  BY <1>1 DEF IInv, Types
<1>3. /\ n \in Nat /\ n + 1 < NUM /\ n + 1 < UINT16 /\ First(p) \in Desc
      /\ last \in Index /\ avail.idx \in Index /\ Slot(avail.idx) \in Desc
  BY Zenon, <1>1, AvailRoom, CallFacts, SlotType DEF IInv, Types, Queued
<1>4. avail'.idx = avail.idx /\ avail'.ring = [avail.ring EXCEPT ![Slot(avail.idx)] = First(p)]
  BY Zenon, <1>1 DEF IInv, Types
<1> HIDE DEF n
<1>5. \A k \in 0..(n - 1) : Entry(avail'.ring, last, k) = Entry(avail.ring, last, k)
  <2> SUFFICES ASSUME NEW k \in 0..(n - 1)
               PROVE  Entry(avail'.ring, last, k) = Entry(avail.ring, last, k)
    BY Zenon
  <2>1. After(last, n) = avail.idx /\ After(last, k) \in Index
    <3>1. After(last, n) = avail.idx
      BY ZenonT(40), <1>3, RingFacts DEF n
    <3>2. k \in Index
      BY <1>3, VirtioAssumption DEF Index
    <3> QED
      BY Zenon, <1>3, <3>1, <3>2, RingFacts
  <2>2. Slot(After(last, k)) # Slot(avail.idx)
    <3>1. /\ k \in 0..(NUM - 1) /\ n \in 0..(NUM - 1) /\ k < UINT16 /\ n < UINT16 /\ k # n
      BY <1>3, VirtioAssumption
    <3> QED
      BY Zenon, <1>3, <2>1, <3>1, SlotInjective
  <2>3. Slot(After(last, k)) \in Desc
    BY Zenon, <2>1, SlotType
  <2> QED
    BY Zenon, <1>4, <2>2, <2>3 DEF Entry, IInv, Types
<1>6. Types'
  <2>1. avail' \in [ring : [Desc -> Desc], idx : Index]
    BY Zenon, <1>1, <1>3 DEF IInv, Types
  <2>2. pc' \in [Proc -> Pcs]
    BY Zenon, <1>1 DEF IInv, Types, Pcs, Queued
  <2> QED
    BY Zenon, <1>1, <2>1, <2>2 DEF IInv, Types
<1>7. Calls'
  <2>1. \A q \in Proc : Triple(q)' = Triple(q)
    BY Zenon, <1>1 DEF Triple
  <2> QED
    BY <1>1, <1>2, <2>1 DEF IInv, Calls, Locked, Queued
<1>8. Owned'
  <2>1. \A q \in Proc : Holds(q)' = Holds(q)
    BY Zenon, <1>1 DEF Holds
  <2> QED
    BY Zenon, <1>1, <2>1 DEF IInv, Owned
<1>9. Chains'
  <2> SUFFICES ASSUME NEW q \in Proc, pc'[q] \in Queued PROVE Filled(q)'
    BY Zenon DEF Chains
  <2>1. pc[q] \in Queued /\ Filled(q)
    BY Zenon, <1>1, <1>2 DEF IInv, Chains, Queued
  <2>2. pc'[q] \in {"enqueue", "publish"} => pc[q] \in {"enqueue", "publish"}
    BY Zenon, <1>1, <1>2
  <2> QED
    BY Zenon, <1>1, <2>1, <2>2, FilledKept
<1>10. Waiting' = Waiting /\ Answered' = Answered
  <2>1. \A q \in Proc : (pc'[q] \in Published) = (pc[q] \in Published)
    BY <1>1, <1>2 DEF Published
  <2> QED
    BY <1>1, <2>1 DEF Waiting, Answered, First
<1>11. Avail'
  <2>1. \A q \in Proc : pc'[q] = "publish" => avail'.ring[Slot(avail.idx)] = First(q)'
    <3>1. \A q \in Proc \ {p} : pc'[q] # "publish"
      BY Zenon, <1>1, <1>2 DEF IInv, Calls, Locked
    <3>2. avail'.ring[Slot(avail.idx)] = First(p)'
      BY Zenon, <1>1, <1>3, <1>4 DEF First, IInv, Types
    <3> QED
      BY Zenon, <3>1, <3>2
  <2>2. Span(last', avail'.idx) = n /\ last' = last
    BY Zenon, <1>1, <1>4 DEF n
  <2>3. \A k \in 0..(n - 1) : Entry(avail'.ring, last, k) \in Waiting'
    BY Zenon, <1>5, <1>10 DEF IInv, Avail, n
  <2>4. Injective(avail'.ring, last, n)
    BY Zenon, <1>5 DEF IInv, Avail, n, Injective
  <2> QED
    BY Zenon, <1>4, <2>1, <2>2, <2>3, <2>4 DEF Avail
<1>12. Taken'
  <2> SUFFICES ASSUME NEW r \in taken
               PROVE  /\ \E q \in Proc : /\ pc'[q] \in Published /\ r = Request(q)'
                                         /\ info'[First(q)'].status = 255
                      /\ \A k \in 0..(Span(last, avail'.idx) - 1) : Entry(avail'.ring, last, k) # r.id
    BY <1>1 DEF Taken
  <2>1. PICK q \in Proc : pc[q] \in Published /\ r = Request(q) /\ info[First(q)].status = 255
    BY DEF IInv, Taken
  <2>2. Request(q)' = Request(q) /\ First(q)' = First(q) /\ pc'[q] \in Published
    BY <1>1, <1>2, <2>1 DEF Request, First, Published
  <2>3. \A k \in 0..(n - 1) : Entry(avail'.ring, last, k) # r.id
    BY <1>5 DEF IInv, Taken, n
  <2> QED
    BY <1>1, <1>4, <2>1, <2>2, <2>3 DEF n
<1>13. Used'
  BY ZenonT(40), <1>1, <1>10 DEF IInv, Used, Injective, Entry
<1>14. Sleepers'
  BY Zenon, <1>1, <1>2 DEF IInv, Sleepers
<1> QED
  BY Zenon, <1>1, <1>6, <1>7, <1>8, <1>9, <1>11, <1>12, <1>13, <1>14 DEF IInv


----------------------------------------------------------------------------
LEMMA PublishInv ==
  ASSUME IInv, HeadsFit, NEW p \in Proc, publish(p)
  PROVE  IInv'
<1> DEFINE n == Span(last, avail.idx)
<1>1. /\ pc[p] = "publish" /\ lock = p
      /\ avail' = [avail EXCEPT !.idx = (avail.idx + 1) % UINT16]
      /\ pc' = [pc EXCEPT ![p] = "notify"]
      /\ UNCHANGED <<desc, ops, info, free, used, used_idx, busy, lock, req, chan, panic, taken,
                     last, isr, disk, data>>
  BY Zenon DEF publish, Goto, queue, device, blocks, IInv, Calls, Locked
<1>2. pc'[p] = "notify" /\ \A q \in Proc \ {p} : pc'[q] = pc[q]
  BY <1>1 DEF IInv, Types
<1>3. /\ n \in Nat /\ n + 1 < UINT16 /\ last \in Index /\ avail.idx \in Index
      /\ \A k \in 0..(n - 1) : Entry(avail.ring, last, k) # First(p)
  BY Zenon, <1>1, AvailRoom DEF IInv, Types
<1>4. /\ avail'.idx = After(avail.idx, 1) /\ avail'.idx \in Index /\ avail'.ring = avail.ring
      /\ Span(last, avail'.idx) = n + 1
  <2>1. avail'.idx = (avail.idx + 1) % UINT16 /\ avail'.ring = avail.ring
    BY Zenon, <1>1 DEF IInv, Types
  <2>2. avail'.idx = After(avail.idx, 1)
    BY Zenon, <1>3, <2>1, Wraps
  <2> QED
    BY Zenon, <1>3, <2>1, <2>2, SpanGrows
<1>5. Entry(avail.ring, last, n) = First(p)
  <2>1. After(last, n) = avail.idx
    BY <1>3, RingFacts
  <2> QED
    BY Zenon, <1>1, <2>1 DEF IInv, Avail, Entry
<1> HIDE DEF n
<1>6. Types'
  <2>1. avail' \in [ring : [Desc -> Desc], idx : Index]
    <3>1. avail \in [ring : [Desc -> Desc], idx : Index]
      BY Zenon DEF IInv, Types
    <3>2. (avail.idx + 1) % UINT16 \in Index
      BY <1>3, VirtioAssumption DEF Index
    <3> QED
      BY Zenon, <1>1, <3>1, <3>2
  <2>2. pc' \in [Proc -> Pcs]
    BY Zenon, <1>1 DEF IInv, Types, Pcs, Queued
  <2> QED
    BY Zenon, <1>1, <2>1, <2>2 DEF IInv, Types
<1>7. Calls'
  <2>1. \A q \in Proc : Triple(q)' = Triple(q)
    BY Zenon, <1>1 DEF Triple
  <2> QED
    BY Zenon, <1>1, <1>2, <2>1 DEF IInv, Calls, Locked, Queued
<1>8. Owned'
  <2>1. \A q \in Proc : Holds(q)' = Holds(q)
    BY Zenon, <1>1 DEF Holds
  <2> QED
    BY Zenon, <1>1, <2>1 DEF IInv, Owned
<1>9. Chains'
  <2> SUFFICES ASSUME NEW q \in Proc, pc'[q] \in Queued PROVE Filled(q)'
    BY Zenon DEF Chains
  <2>1. Filled(q)
    BY Zenon, <1>1, <1>2 DEF IInv, Chains, Queued
  <2>2. pc'[q] \in {"enqueue", "publish"} => pc[q] \in {"enqueue", "publish"}
    BY Zenon, <1>1, <1>2
  <2> QED
    BY Zenon, <1>1, <2>1, <2>2, FilledKept
<1>10. \A q \in Proc : pc[q] \in Published => pc'[q] \in Published
  BY Zenon, <1>1, <1>2 DEF Published
<1>11. Waiting \subseteq Waiting' /\ Answered \subseteq Answered'
  BY Zenon, <1>1, <1>10 DEF Waiting, Answered, First
<1>12. Avail'
  <2>1. First(p) \in Waiting'
    <3>1. info[First(p)].status = 255 /\ First(p) \in Desc
      BY Zenon, <1>1, CallFacts DEF IInv, Chains, Filled, First, Queued
    <3>2. pc'[p] \in Published /\ First(p)' = First(p) /\ info' = info
      BY Zenon, <1>1, <1>2 DEF First, Published
    <3> QED
      BY Zenon, <3>1, <3>2 DEF Waiting
  <2>2. \A k \in 0..n : Entry(avail.ring, last, k) \in Waiting'
    <3>1. \A k \in 0..(n - 1) : Entry(avail.ring, last, k) \in Waiting'
      BY Zenon, <1>11 DEF IInv, Avail, n
    <3> QED
      BY <1>3, <1>5, <2>1, <3>1
  <2>3. \A j, k \in 0..n : Entry(avail.ring, last, j) = Entry(avail.ring, last, k) => j = k
    <3>1. \A j, k \in 0..(n - 1) : Entry(avail.ring, last, j) = Entry(avail.ring, last, k) => j = k
      BY Zenon DEF IInv, Avail, Injective, n
    <3> QED
      BY <1>3, <1>5, <3>1
  <2>4. \A q \in Proc : pc'[q] # "publish"
    BY Zenon, <1>1, <1>2 DEF IInv, Calls, Locked
  <2>5. Span(last, avail'.idx) - 1 = n /\ last' = last /\ avail'.ring = avail.ring
    BY <1>1, <1>3, <1>4
  <2> QED
    BY <2>2, <2>3, <2>4, <2>5 DEF Avail, Injective
<1>13. Taken'
  <2> SUFFICES ASSUME NEW r \in taken
               PROVE  /\ \E q \in Proc : /\ pc'[q] \in Published /\ r = Request(q)'
                                         /\ info'[First(q)'].status = 255
                      /\ \A k \in 0..(Span(last, avail'.idx) - 1) : Entry(avail'.ring, last, k) # r.id
    BY <1>1 DEF Taken
  <2>1. PICK q \in Proc : pc[q] \in Published /\ r = Request(q) /\ info[First(q)].status = 255
    BY DEF IInv, Taken
  <2>2. Request(q)' = Request(q) /\ First(q)' = First(q) /\ pc'[q] \in Published
    BY SMTT(30), <1>1, <1>10, <2>1 DEF Request, First
  <2>3. r.id = First(q) /\ First(q) # First(p)
    <3>1. q # p /\ pc[q] \in Queued /\ pc[p] \in Queued
      BY Zenon, <1>1, <2>1 DEF Published, Queued
    <3> QED
      BY <2>1, <3>1, HeadsDiffer DEF Request
  <2>4. \A k \in 0..(n - 1) : Entry(avail.ring, last, k) # r.id
    BY Zenon DEF IInv, Taken, n
  <2>5. \A k \in 0..n : Entry(avail.ring, last, k) # r.id
    BY <1>3, <1>5, <2>3, <2>4
  <2>6. Span(last, avail'.idx) - 1 = n /\ last' = last /\ avail'.ring = avail.ring
    BY <1>1, <1>3, <1>4
  <2> QED
    BY <1>1, <2>1, <2>2, <2>5, <2>6
<1>14. Used'
  BY Zenon, <1>1, <1>11 DEF IInv, Used, Injective, Entry
<1>15. Sleepers'
  BY Zenon, <1>1, <1>2 DEF IInv, Sleepers
<1> QED
  BY Zenon, <1>1, <1>6, <1>7, <1>8, <1>9, <1>12, <1>13, <1>14, <1>15 DEF IInv

(* Steps of the handler and of the device. *)
LEMMA CallsKept ==
  ASSUME IInv, UNCHANGED <<pc, req, lock, free>>
  PROVE  Calls' /\ Owned'
<1>1. \A q \in Proc : Holds(q)' = Holds(q) /\ Triple(q)' = Triple(q)
  BY Zenon DEF Holds, Triple
<1> QED
  BY Zenon, <1>1 DEF IInv, Calls, Owned

LEMMA IntrEntryInv ==
  ASSUME IInv, intr_entry
  PROVE  IInv'
<1> DEFINE n == Span(used_idx, used.idx)
<1>1. /\ used_idx # used.idx /\ used_idx \in Index /\ used.idx \in Index /\ lock = "intr"
      /\ UNCHANGED <<desc, ops, info, free, avail, used, lock, pc, req, taken, last, isr, disk,
                     data>>
  BY Zenon DEF intr_entry, queue, device, blocks, IInv, Types
<1>2. /\ n \in Nat \ {0} /\ n < UINT16 /\ UsedEntry = Entry(used.ring, used_idx, 0)
  <2>1. n \in 0..(UINT16 - 1) /\ n # 0 /\ After(used_idx, 0) = used_idx
    BY Zenon, <1>1, RingFacts
  <2> QED
    BY <2>1, VirtioAssumption DEF UsedEntry, Entry
<1> HIDE DEF n
<1>3. PICK q \in Proc : /\ pc[q] \in Published /\ First(q) = UsedEntry
                        /\ info[UsedEntry].status = 0 /\ req[q].b \in busy
  <2>1. Entry(used.ring, used_idx, 0) \in Answered
    BY <1>2 DEF IInv, Used, n
  <2> QED
    BY Zenon, <1>2, <2>1 DEF Answered
<1>4. PICK b \in Buf : b = req[q].b /\ info[UsedEntry].b = b
  <2>1. Filled(q)
    BY Zenon, <1>3 DEF IInv, Chains, Published, Queued
  <2> QED
    BY Zenon, <1>3, <2>1 DEF Filled, First, IInv, Types
<1>5. /\ ~panic' /\ busy' = busy \ {b} /\ chan' = Woken(b) /\ used_idx' = After(used_idx, 1)
  BY Zenon, <1>1, <1>3, <1>4, Wraps, VirtioAssumption DEF intr_entry, IInv
<1>6. \A x \in Proc : pc[x] \in Queued /\ x # q => req[x].b # b
  BY Zenon, <1>4, VirtioAssumption DEF IInv, Calls
<1>7. Types'
  <2>1. used_idx' \in Index /\ busy' \in SUBSET Buf
    BY Zenon, <1>1, <1>5, RingFacts DEF IInv, Types
  <2>2. chan' \in [Proc -> Buf \cup {"free", None}]
    BY Zenon, <1>5 DEF Woken, IInv, Types
  <2> QED
    BY Zenon, <1>1, <2>1, <2>2 DEF IInv, Types
<1>8. Calls' /\ Owned'
  BY Zenon, <1>1, CallsKept
<1>9. Chains'
  <2> SUFFICES ASSUME NEW x \in Proc, pc[x] \in Queued PROVE Filled(x)'
    BY Zenon, <1>1 DEF Chains
  <2>1. Filled(x)
    BY Zenon DEF IInv, Chains
  <2>2. info[req[x].idx[1]].status = 255 => req[x].b \in busy'
    <3>1. info[req[x].idx[1]].status = 255 => req[x].b \in busy
      BY Zenon, <2>1 DEF Filled
    <3>2. CASE x = q
      BY <1>3, <3>2 DEF First
    <3>3. CASE x # q
      BY Zenon, <1>5, <1>6, <3>1, <3>3
    <3> QED
      BY Zenon, <3>2, <3>3
  <2> QED
    BY Zenon, <1>1, <2>1, <2>2 DEF Filled
<1>10. Avail' /\ Taken'
  <2>1. Waiting' = Waiting
    BY <1>1 DEF Waiting, First
  <2>2. \A x \in Proc : Request(x)' = Request(x) /\ First(x)' = First(x)
    BY Zenon, <1>1 DEF Request, First
  <2>3. Avail'
    BY ZenonT(40), <1>1, <2>1, <2>2 DEF IInv, Avail, Injective, Entry
  <2>4. Taken'
    BY SMTT(30), <1>1, <2>2 DEF IInv, Taken, Entry
  <2> QED
    BY Zenon, <2>3, <2>4
<1>11. Used'
  <2>1. Span(used_idx', used.idx) = n - 1
    BY <1>1, <1>5, RingFacts DEF n
  <2>2. \A k \in 0..(n - 2) : Entry(used.ring, used_idx', k) = Entry(used.ring, used_idx, k + 1)
    <3>1. \A k \in 0..(n - 2) : After(used_idx', k) = After(used_idx, k + 1)
      <4>1. \A k \in 0..(n - 2) : k \in 0..(UINT16 - 2)
        BY <1>2, VirtioAssumption
      <4> QED
        BY <1>1, <1>5, <4>1, RingFacts
    <3> QED
      BY Zenon, <3>1 DEF Entry
  <2>3. \A j, k \in 0..(n - 1) : Entry(used.ring, used_idx, j) = Entry(used.ring, used_idx, k) => j = k
    BY Zenon DEF IInv, Used, Injective, n
  <2>4. ASSUME NEW k \in 0..(n - 2) PROVE Entry(used.ring, used_idx, k + 1) \in Answered'
    <3>1. PICK h : h = Entry(used.ring, used_idx, k + 1)
      BY Zenon
    <3>2. k + 1 \in 0..(n - 1) /\ 0 \in 0..(n - 1) /\ k + 1 # 0
      BY <1>2
    <3>3. h # UsedEntry
      BY Zenon, <1>2, <2>3, <3>1, <3>2
    <3>4. h \in Answered
      BY Zenon, <3>1, <3>2 DEF IInv, Used, n
    <3>5. PICK x \in Proc : pc[x] \in Published /\ First(x) = h /\ info[h].status = 0
                            /\ req[x].b \in busy
      BY Zenon, <3>4 DEF Answered
    <3>6. req[x].b \in busy'
      BY Zenon, <1>3, <1>5, <1>6, <3>3, <3>5 DEF Published, Queued
    <3> QED
      BY Zenon, <1>1, <3>1, <3>4, <3>5, <3>6 DEF Answered, First
  <2>5. \A k \in 0..(n - 2) : Entry(used.ring, used_idx', k) \in Answered'
    BY Zenon, <2>2, <2>4
  <2>6. \A j, k \in 0..(n - 2) :
          Entry(used.ring, used_idx', j) = Entry(used.ring, used_idx', k) => j = k
    <3> SUFFICES ASSUME NEW j \in 0..(n - 2), NEW k \in 0..(n - 2),
                        Entry(used.ring, used_idx, j + 1) = Entry(used.ring, used_idx, k + 1)
                 PROVE  j = k
      BY Zenon, <2>2
    <3>1. j + 1 \in 0..(n - 1) /\ k + 1 \in 0..(n - 1)
      BY <1>2
    <3>2. j + 1 = k + 1
      BY Zenon, <2>3, <3>1
    <3> QED
      BY <3>2
  <2>7. (n - 1) - 1 = n - 2
    BY <1>2
  <2> QED
    BY Zenon, <1>1, <2>1, <2>5, <2>6, <2>7 DEF Used, Injective
<1>12. Sleepers'
  <2>1. \A x \in Proc : chan'[x] = IF chan[x] = b THEN None ELSE chan[x]
    BY Zenon, <1>5 DEF Woken
  <2> QED
    BY Zenon, <1>1, <1>5, <2>1 DEF IInv, Sleepers
<1> QED
  BY Zenon, <1>5, <1>7, <1>8, <1>9, <1>10, <1>11, <1>12 DEF IInv

LEMMA DevTakeInv ==
  ASSUME IInv, dev_take
  PROVE  IInv' /\ UNCHANGED <<pc, req, info, disk, data>>
<1> DEFINE n == Span(last, avail.idx)
           h == Entry(avail.ring, last, 0)
<1>1. /\ last # avail.idx /\ last \in Index /\ avail.idx \in Index
      /\ last' = After(last, 1)
      /\ UNCHANGED <<desc, ops, info, free, avail, used, used_idx, busy, lock, pc, req, chan,
                     panic, isr, disk, data>>
  BY Zenon, Wraps DEF dev_take, queue, blocks, IInv, Types
<1>2. /\ n \in Nat \ {0} /\ n < UINT16 /\ h = avail.ring[last % NUM]
  <2>1. n \in 0..(UINT16 - 1) /\ n # 0 /\ After(last, 0) = last
    BY Zenon, <1>1, RingFacts
  <2> QED
    BY <2>1, VirtioAssumption DEF Entry, Slot
<1> HIDE DEF n
<1>3. h \in Waiting
  BY <1>2 DEF IInv, Avail, n
<1>4. PICK q \in Proc : pc[q] \in Published /\ First(q) = h /\ info[h].status = 255
  BY Zenon, <1>3 DEF Waiting
<1>5. taken' = taken \cup {Request(q)}
  <2>1. Filled(q)
    BY ZenonT(40), <1>4 DEF IInv, Chains, Published, Queued
  <2> DEFINE d1 == desc[h]
             d2 == desc[d1.next]
             d3 == desc[d2.next]
             op == ops[d1.addr]
  <2>2. /\ d1.addr = h /\ d1.next = req[q].idx[2] /\ d1.flags = {"NEXT"}
        /\ op.type = (IF req[q].write THEN "OUT" ELSE "IN") /\ op.sector = req[q].b
    BY <1>4, <2>1 DEF Filled, First
  <2>3. /\ d2.addr = req[q].b /\ d2.next = req[q].idx[3]
        /\ d2.flags = IF req[q].write THEN {"NEXT"} ELSE {"NEXT", "WRITE"}
    <3>1. d2 = [addr |-> req[q].b, next |-> req[q].idx[3],
                flags |-> IF req[q].write THEN {"NEXT"} ELSE {"NEXT", "WRITE"}]
      BY ZenonT(40), <2>1, <2>2 DEF Filled
    <3> HIDE DEF d2
    <3> QED
      BY Zenon, <3>1
  <2>4. d3.addr = h /\ d3.flags = {"WRITE"}
    <3>1. d3 = [addr |-> req[q].idx[1], flags |-> {"WRITE"}, next |-> 0]
      BY Zenon, <2>1, <2>3 DEF Filled
    <3> HIDE DEF d3, h
    <3> QED
      BY Zenon, <1>4, <3>1 DEF First
  <2> DEFINE ok == /\ "NEXT" \in d1.flags /\ "NEXT" \in d2.flags
                   /\ d3.flags = {"WRITE"}
                   /\ ("WRITE" \in d2.flags) = (op.type = "IN")
  <2>5. taken' = taken \cup {[id |-> h, type |-> op.type, sector |-> op.sector,
                              buf |-> d2.addr, status |-> d3.addr, ok |-> ok]}
    BY ZenonT(40), <1>2 DEF dev_take
  <2>6. ok = TRUE
    <3> HIDE DEF d1, d2, d3, op
    <3> QED
      BY <2>2, <2>3, <2>4
  <2> HIDE DEF d1, d2, d3, op, ok, h
  <2> QED
    BY Zenon, <1>4, <2>2, <2>3, <2>4, <2>5, <2>6 DEF Request
<1>6. /\ Span(last', avail.idx) = n - 1 /\ (n - 1) - 1 = n - 2 /\ last' \in Index
      /\ \A k \in 0..(n - 2) : Entry(avail.ring, last', k) = Entry(avail.ring, last, k + 1)
  <2>1. Span(last', avail.idx) = n - 1 /\ last' \in Index
    BY <1>1, RingFacts DEF n
  <2>2. \A k \in 0..(n - 2) : k \in 0..(UINT16 - 2)
    BY <1>2, VirtioAssumption
  <2>3. \A k \in 0..(n - 2) : After(last', k) = After(last, k + 1)
    BY <1>1, <2>2, RingFacts
  <2> QED
    BY <1>2, <2>1, <2>3 DEF Entry
<1>7. \A j, k \in 0..(n - 1) : Entry(avail.ring, last, j) = Entry(avail.ring, last, k) => j = k
  BY Zenon DEF IInv, Avail, Injective, n
<1>8. \A k \in 0..(n - 2) : k + 1 \in 0..(n - 1) /\ k + 1 # 0 /\ 0 \in 0..(n - 1)
  BY SMTT(30), <1>2
<1>9. Types' /\ Chains' /\ Sleepers'
  <2>1. Types'
    BY ZenonT(40), <1>1, <1>6 DEF IInv, Types
  <2>2. \A x \in Proc : Filled(x)' = Filled(x)
    BY SMTT(30), <1>1 DEF Filled
  <2> QED
    BY Zenon, <1>1, <2>1, <2>2 DEF IInv, Chains, Sleepers
<1>10. Calls' /\ Owned'
  BY Zenon, <1>1, CallsKept
<1>11. Waiting' = Waiting /\ Answered' = Answered
  BY <1>1 DEF Waiting, Answered, First
<1>12. Avail'
  <2>1. \A k \in 0..(n - 2) : Entry(avail.ring, last', k) \in Waiting'
    BY Zenon, <1>6, <1>8, <1>11 DEF IInv, Avail, n
  <2>2. \A j, k \in 0..(n - 2) :
          Entry(avail.ring, last', j) = Entry(avail.ring, last', k) => j = k
    <3> SUFFICES ASSUME NEW j \in 0..(n - 2), NEW k \in 0..(n - 2),
                        Entry(avail.ring, last, j + 1) = Entry(avail.ring, last, k + 1)
                 PROVE  j = k
      BY Zenon, <1>6
    <3>1. j + 1 = k + 1
      BY Zenon, <1>7, <1>8
    <3> QED
      BY <3>1
  <2>3. \A x \in Proc : pc'[x] = "publish" => avail.ring[Slot(avail.idx)] = First(x)'
    BY Zenon, <1>1 DEF IInv, Avail, First
  <2> QED
    BY <1>1, <1>6, <2>1, <2>2, <2>3 DEF Avail, Injective
<1>13. Taken'
  <2>1. \A x \in Proc : Request(x)' = Request(x) /\ First(x)' = First(x)
    BY ZenonT(40), <1>1 DEF Request, First
  <2> SUFFICES ASSUME NEW r \in taken'
               PROVE  /\ \E p \in Proc : /\ pc[p] \in Published /\ r = Request(p)
                                         /\ info[First(p)].status = 255
                      /\ \A k \in 0..(n - 2) : Entry(avail.ring, last, k + 1) # r.id
    BY SMTT(30), <1>1, <1>6, <2>1 DEF Taken
  <2>2. CASE r \in taken
    BY SMTT(30), <1>8, <2>2 DEF IInv, Taken, n
  <2>3. CASE r = Request(q)
    <3>1. r.id = h
      BY Zenon, <1>4, <2>3 DEF Request
    <3>2. \A k \in 0..(n - 2) : Entry(avail.ring, last, k + 1) # h
      BY Zenon, <1>7, <1>8
    <3> QED
      BY <1>4, <2>3, <3>1, <3>2
  <2> QED
    BY Zenon, <1>5, <2>2, <2>3
<1>14. Used'
  BY Zenon, <1>1, <1>11 DEF IInv, Used, Injective, Entry
<1> QED
  BY Zenon, <1>1, <1>9, <1>10, <1>12, <1>13, <1>14 DEF IInv

(* The used ring has room for the device's answer. *)
LEMMA UsedRoom ==
  ASSUME IInv, HeadsFit, NEW q \in Proc, pc[q] \in Published,
         info[First(q)].status = 255
  PROVE  /\ Span(used_idx, used.idx) \in Nat
         /\ Span(used_idx, used.idx) + 1 < NUM /\ Span(used_idx, used.idx) + 1 < UINT16
         /\ \A k \in 0..(Span(used_idx, used.idx) - 1) : Entry(used.ring, used_idx, k) # First(q)
<1> DEFINE n == Span(used_idx, used.idx)
           f == [k \in 0..n |-> IF k = n THEN First(q) ELSE Entry(used.ring, used_idx, k)]
<1>1. n \in Nat
  <2>1. used.idx \in Index /\ used_idx \in Index
    BY Zenon DEF IInv, Types
  <2>2. n \in 0..(UINT16 - 1)
    BY ZenonT(40), <2>1, RingFacts
  <2> QED
    BY <2>2
<1>2. pc[q] \in Queued
  BY Zenon DEF Queued, Published
<1>3. /\ First(q) \in Desc /\ req[q].idx[2] \in Desc /\ First(q) # req[q].idx[2]
  BY SMTT(30), <1>2, CallFacts
<1> HIDE DEF n
<1>4. ASSUME NEW k \in 0..(n - 1)
      PROVE  /\ Entry(used.ring, used_idx, k) \in Desc /\ Entry(used.ring, used_idx, k) # First(q)
             /\ Entry(used.ring, used_idx, k) # req[q].idx[2]
  <2>1. PICK x \in Proc : /\ pc[x] \in Published /\ First(x) = Entry(used.ring, used_idx, k)
                          /\ info[First(x)].status = 0
    BY DEF IInv, Used, Answered, n
  <2>2. x # q /\ pc[x] \in Queued
    BY SMTT(30), <2>1 DEF Published, Queued
  <2> QED
    BY SMTT(30), <1>2, <2>1, <2>2, CallFacts, HeadsDiffer
<1>5. f \in [0..n -> Desc]
  BY SMTT(30), <1>1, <1>3, <1>4
<1>6. \A j, k \in 0..n : f[j] = f[k] => j = k
  <2>1. \A j, k \in 0..(n - 1) : Entry(used.ring, used_idx, j) = Entry(used.ring, used_idx, k) => j = k
    BY Zenon DEF IInv, Used, Injective, n
  <2> QED
    BY <1>1, <1>4, <2>1
<1>7. \A k \in 0..n : f[k] # req[q].idx[2]
  BY <1>1, <1>3, <1>4
<1>8. n + 1 < NUM /\ n + 1 < UINT16
  <2> HIDE DEF f
  <2> QED
    BY SMTT(30), <1>1, <1>3, <1>5, <1>6, <1>7, NoFullRing
<1> QED
  BY Zenon, <1>1, <1>4, <1>8 DEF n

(* The device answers one of the requests it took. *)
LEMMA DevCompleteInv ==
  ASSUME IInv, HeadsFit, NEW r \in taken, dev_complete(r)
  PROVE  /\ IInv' /\ UNCHANGED <<pc, req>>
         /\ \E q \in Proc :
              /\ pc[q] \in Published /\ info[First(q)].status = 255
              /\ info' = [info EXCEPT ![First(q)].status = 0]
              /\ disk' = IF req[q].write THEN [disk EXCEPT ![req[q].b] = data[req[q].b]] ELSE disk
              /\ data' = IF req[q].write THEN data ELSE [data EXCEPT ![req[q].b] = disk[req[q].b]]
<1> DEFINE n == Span(used_idx, used.idx)
<1>1. PICK q \in Proc : pc[q] \in Published /\ r = Request(q) /\ info[First(q)].status = 255
  BY DEF IInv, Taken
<1>2. PICK h \in Desc, b \in Buf : h = First(q) /\ b = req[q].b /\ pc[q] \in Queued
  BY <1>1, CallFacts DEF Published, Queued
<1>3. /\ r.id = h /\ r.status = h /\ r.ok = TRUE /\ r.sector = b /\ r.buf = b
      /\ r.type = IF req[q].write THEN "OUT" ELSE "IN"
  BY Zenon, <1>1, <1>2 DEF Request
<1>4. /\ taken' = taken \ {r}
      /\ disk' = (IF req[q].write THEN [disk EXCEPT ![b] = data[b]] ELSE disk)
      /\ data' = (IF req[q].write THEN data ELSE [data EXCEPT ![b] = disk[b]])
      /\ info' = [info EXCEPT ![h].status = 0]
      /\ used' = [ring |-> [used.ring EXCEPT ![used.idx % NUM] = h],
                  idx |-> (used.idx + 1) % UINT16]
      /\ isr' = TRUE
      /\ UNCHANGED <<desc, ops, free, avail, used_idx, busy, lock, pc, req, chan, panic, last>>
  BY Zenon, <1>3 DEF dev_complete
<1>5. /\ info'[h].status = 0 /\ info'[h].b = info[h].b
      /\ \A d \in Desc \ {h} : info'[d] = info[d]
  BY SMTT(30), <1>2, <1>4 DEF IInv, Types
<1>6. /\ n \in Nat /\ n + 1 < NUM /\ n + 1 < UINT16
      /\ \A k \in 0..(n - 1) : Entry(used.ring, used_idx, k) # h
      /\ used_idx \in Index /\ used.idx \in Index /\ Slot(used.idx) \in Desc
  BY SMTT(30), <1>1, <1>2, UsedRoom, SlotType DEF IInv, Types
<1>7. /\ used'.ring = [used.ring EXCEPT ![Slot(used.idx)] = h]
      /\ used'.idx = After(used.idx, 1) /\ used'.idx \in Index
      /\ Span(used_idx, used'.idx) = n + 1 /\ After(used_idx, n) = used.idx
  <2>1. used'.ring = [used.ring EXCEPT ![Slot(used.idx)] = h] /\ used'.idx = (used.idx + 1) % UINT16
    BY Zenon, <1>4 DEF Slot
  <2>2. used'.idx = After(used.idx, 1)
    BY Zenon, <1>6, <2>1, Wraps
  <2> QED
    BY <1>6, <2>1, <2>2, RingFacts
<1> HIDE DEF n
<1>8. /\ \A k \in 0..(n - 1) : Entry(used'.ring, used_idx, k) = Entry(used.ring, used_idx, k)
      /\ Entry(used'.ring, used_idx, n) = h
  <2>1. Entry(used'.ring, used_idx, n) = h
    BY Zenon, <1>6, <1>7 DEF Entry, IInv, Types
  <2>2. ASSUME NEW k \in 0..(n - 1)
        PROVE  Entry(used'.ring, used_idx, k) = Entry(used.ring, used_idx, k)
    <3>1. /\ k \in 0..(NUM - 1) /\ n \in 0..(NUM - 1) /\ k < UINT16 /\ n < UINT16 /\ k # n
          /\ k \in Index
      BY SMTT(30), <1>6, VirtioAssumption DEF Index
    <3>2. Slot(After(used_idx, k)) # Slot(used.idx)
      BY Zenon, <1>6, <1>7, <3>1, SlotInjective
    <3>3. Slot(After(used_idx, k)) \in Desc
      BY Zenon, <1>6, <3>1, RingFacts, SlotType
    <3> QED
      BY ZenonT(40), <1>7, <3>2, <3>3 DEF Entry, IInv, Types
  <2> QED
    BY Zenon, <2>1, <2>2
<1>9. Types'
  <2>1. used' \in [ring : [Desc -> Desc], idx : Index]
    <3>1. used.ring \in [Desc -> Desc]
      BY Zenon DEF IInv, Types
    <3>2. [used.ring EXCEPT ![used.idx % NUM] = h] \in [Desc -> Desc]
      BY Zenon, <3>1
    <3>3. (used.idx + 1) % UINT16 \in Index
      BY Zenon, <1>4, <1>7
    <3> QED
      BY Zenon, <1>4, <3>2, <3>3
  <2>2. info' \in [Desc -> [b : Buf \cup {None}, status : {0, 1, 255}]]
    <3>1. info[h] \in [b : Buf \cup {None}, status : {0, 1, 255}]
      BY ZenonT(40) DEF IInv, Types
    <3>2. [info[h] EXCEPT !.status = 0] \in [b : Buf \cup {None}, status : {0, 1, 255}]
      BY Zenon, <3>1
    <3>3. info' = [info EXCEPT ![h] = [info[h] EXCEPT !.status = 0]]
      BY Zenon, <1>4
    <3> QED
      BY ZenonT(40), <3>2, <3>3 DEF IInv, Types
  <2>3. disk' \in [Buf -> Value] /\ data' \in [Buf -> Value] /\ isr' \in BOOLEAN
    BY Zenon, <1>4 DEF IInv, Types
  <2> QED
    BY Zenon, <1>4, <2>1, <2>2, <2>3 DEF IInv, Types
<1>10. Calls' /\ Owned'
  BY ZenonT(40), <1>4, CallsKept
<1>11. ASSUME NEW x \in Proc, x # q, pc[x] \in Queued
       PROVE  First(x) \in Desc /\ First(x) # h /\ info'[First(x)] = info[First(x)]
  BY ZenonT(40), <1>2, <1>5, <1>11, CallFacts, HeadsDiffer
<1>12. Chains'
  <2> SUFFICES ASSUME NEW x \in Proc, pc[x] \in Queued PROVE Filled(x)'
    BY Zenon, <1>4 DEF Chains
  <2>1. Filled(x)
    BY Zenon DEF IInv, Chains
  <2>2. CASE x # q
    BY Zenon, <1>4, <1>11, <2>1, <2>2, FilledKept
  <2>3. CASE x = q
    <3>1. info'[req[x].idx[1]].status = 0 /\ info'[req[x].idx[1]].b = info[req[x].idx[1]].b
      BY Zenon, <1>2, <1>5, <2>3 DEF First
    <3>2. pc[x] \notin {"enqueue", "publish"}
      BY Zenon, <1>1, <2>3 DEF Published
    <3>3. /\ info'[req[x].idx[1]].b = req[x].b /\ info'[req[x].idx[1]].status \in {0, 255}
          /\ info'[req[x].idx[1]].status # 255
      <4>1. info[req[x].idx[1]].b = req[x].b
        BY Zenon, <2>1 DEF Filled
      <4>2. 0 # 255
        OBVIOUS
      <4> QED
        BY ZenonT(40), <3>1, <4>1, <4>2
    <3> QED
      BY ZenonT(40), <1>4, <2>1, <3>2, <3>3 DEF Filled
  <2> QED
    BY Zenon, <2>2, <2>3
<1>13. /\ \A g \in Waiting : g # h => g \in Waiting'
       /\ Answered \subseteq Answered' /\ h \in Answered'
  <2>1. \A g \in Waiting : g # h => g \in Waiting'
    BY SMTT(30), <1>4, <1>5 DEF Waiting, First
  <2>2. Answered \subseteq Answered'
    BY SMTT(30), <1>1, <1>2, <1>4, <1>5 DEF Answered, First
  <2>3. b \in busy
    BY Zenon, <1>1, <1>2 DEF IInv, Chains, Filled, First
  <2> QED
    BY Zenon, <1>1, <1>2, <1>4, <1>5, <2>1, <2>2, <2>3 DEF Answered, First
<1>14. Avail'
  <2>1. \A k \in 0..(Span(last, avail.idx) - 1) : Entry(avail.ring, last, k) # h
    BY <1>3 DEF IInv, Taken
  <2>2. \A k \in 0..(Span(last, avail.idx) - 1) : Entry(avail.ring, last, k) \in Waiting'
    BY Zenon, <1>13, <2>1 DEF IInv, Avail
  <2>3. \A x \in Proc : First(x)' = First(x)
    BY Zenon, <1>4 DEF First
  <2> QED
    BY ZenonT(40), <1>4, <2>2, <2>3 DEF IInv, Avail, Injective, Entry
<1>15. Taken'
  <2>1. \A x \in Proc : Request(x)' = Request(x) /\ First(x)' = First(x)
    BY Zenon, <1>4 DEF Request, First
  <2>2. ASSUME NEW s \in taken, s # r
        PROVE  \E p \in Proc : pc[p] \in Published /\ s = Request(p) /\ info'[First(p)].status = 255
    <3>1. PICK p \in Proc : pc[p] \in Published /\ s = Request(p) /\ info[First(p)].status = 255
      BY DEF IInv, Taken
    <3>2. p # q /\ pc[p] \in Queued
      BY Zenon, <1>1, <2>2, <3>1 DEF Published, Queued
    <3> QED
      BY SMTT(30), <1>11, <3>1, <3>2
  <2> QED
    BY <1>4, <2>1, <2>2 DEF IInv, Taken, Entry
<1>16. Used'
  <2>1. \A k \in 0..n : Entry(used'.ring, used_idx, k) \in Answered'
    <3>1. \A k \in 0..(n - 1) : Entry(used.ring, used_idx, k) \in Answered'
      BY Zenon, <1>13 DEF IInv, Used, n
    <3> QED
      BY <1>6, <1>8, <1>13, <3>1
  <2>2. \A j, k \in 0..n : Entry(used'.ring, used_idx, j) = Entry(used'.ring, used_idx, k) => j = k
    <3>1. \A j, k \in 0..(n - 1) :
            Entry(used.ring, used_idx, j) = Entry(used.ring, used_idx, k) => j = k
      BY Zenon DEF IInv, Used, Injective, n
    <3> QED
      BY <1>6, <1>8, <3>1
  <2>3. Span(used_idx, used'.idx) - 1 = n /\ used_idx' = used_idx
    BY <1>4, <1>6, <1>7
  <2> QED
    BY SMTT(30), <1>4, <2>1, <2>2, <2>3 DEF Used, Injective
<1>17. Sleepers'
  BY Zenon, <1>4 DEF IInv, Sleepers
<1>18. IInv'
  BY Zenon, <1>4, <1>9, <1>10, <1>12, <1>14, <1>15, <1>16, <1>17 DEF IInv
<1>19. /\ info' = [info EXCEPT ![First(q)].status = 0]
       /\ disk' = IF req[q].write THEN [disk EXCEPT ![req[q].b] = data[req[q].b]] ELSE disk
       /\ data' = IF req[q].write THEN data ELSE [data EXCEPT ![req[q].b] = disk[req[q].b]]
  BY Zenon, <1>2, <1>4
<1> QED
  BY Zenon, <1>1, <1>4, <1>18, <1>19

----------------------------------------------------------------------------
LEMMA InitInv == ASSUME Init PROVE IInv
<1>1. Served % UINT16 \in Index /\ 0 \in Desc
  BY VirtioAssumption DEF Index, Desc
<1>2. Types
  <2>1. /\ avail \in [ring : [Desc -> Desc], idx : Index]
        /\ used \in [ring : [Desc -> Desc], idx : Index]
        /\ used_idx \in Index /\ last \in Index
    BY Zenon, <1>1 DEF Init
  <2>2. /\ desc \in [Desc -> [addr : Desc \cup Buf, flags : SUBSET {"NEXT", "WRITE"}, next : Desc]]
        /\ ops \in [Desc -> [type : {"IN", "OUT"}, sector : Buf \cup {None}]]
        /\ info \in [Desc -> [b : Buf \cup {None}, status : {0, 1, 255}]]
    BY Zenon, <1>1 DEF Init, Cleared
  <2>3. /\ req \in [Proc -> [b : Buf \cup {None}, write : BOOLEAN,
                             idx : {<<>>} \cup (Desc \X Desc \X Desc)]]
        /\ pc \in [Proc -> Pcs] /\ chan \in [Proc -> Buf \cup {"free", None}]
    BY Zenon DEF Init, NoReq, Pcs
  <2>4. /\ free \in SUBSET Desc /\ busy \in SUBSET Buf /\ lock \in Proc \cup {"intr", None}
        /\ isr \in BOOLEAN /\ disk \in [Buf -> Value] /\ data \in [Buf -> Value]
    BY Zenon DEF Init
  <2> QED
    BY Zenon, <2>1, <2>2, <2>3, <2>4 DEF Types
<1>3. /\ \A p \in Proc : pc[p] = "idle" /\ req[p].b = None /\ req[p].idx = <<>>
      /\ lock = None
  BY Zenon DEF Init, NoReq
<1>4. Calls
  BY Zenon, <1>3, VirtioAssumption DEF Calls, Locked, Queued
<1>5. Owned
  <2>1. \A p \in Proc : Holds(p) = {}
    BY Zenon, <1>3, EmptyRange DEF Holds
  <2> QED
    BY Zenon, <2>1 DEF Owned, Init
<1>6. Chains /\ Sleepers
  BY Zenon, <1>3 DEF Chains, Sleepers, Queued
<1>7. /\ Span(last, avail.idx) = 0 /\ Span(used_idx, used.idx) = 0
      /\ used_idx = used.idx /\ taken = {} /\ ~panic
  BY SMTT(30), <1>1 DEF Init, Span, Index
<1>8. Avail /\ Used /\ Taken
  BY SMTT(30), <1>3, <1>7 DEF Avail, Used, Taken, Injective
<1> QED
  BY Zenon, <1>2, <1>4, <1>5, <1>6, <1>7, <1>8 DEF IInv

----------------------------------------------------------------------------
(* The calls of DiskService that the state of the driver stands for. *)
CallOf == [p \in Proc |->
  IF req[p].b = None THEN [st |-> "idle"]
  ELSE [st |-> IF pc[p] \in Queued /\ info[req[p].idx[1]].status # 255
               THEN "served" ELSE "pending",
        b |-> req[p].b, write |-> req[p].write]]

ServedCalls == {p \in Proc : pc[p] \in Queued /\ info[First(p)].status # 255}

(* A step that answers no call and begins or ends none is no step of the    *)
(* service.                                                                 *)
LEMMA SameCalls ==
  ASSUME \A p \in Proc : req'[p].b = req[p].b /\ req'[p].write = req[p].write,
         ServedCalls' = ServedCalls
  PROVE  CallOf' = CallOf
<1>1. \A p \in Proc : (pc'[p] \in Queued /\ info'[req'[p].idx[1]].status # 255)
                        <=> (pc[p] \in Queued /\ info[req[p].idx[1]].status # 255)
  BY SMTT(30) DEF ServedCalls, First
<1> QED
  BY SMTT(30), <1>1 DEF CallOf

LEMMA RwRequests ==
  ASSUME IInv, NEW p \in Proc, NEW b \in Buf, NEW w \in BOOLEAN, virtio_disk_rw(p, b, w)
  PROVE  Service!Request(p, b, w)
<1>1. /\ pc[p] = "idle" /\ \A q \in Proc : req[q].b # b
      /\ pc' = [pc EXCEPT ![p] = "alloc"]
      /\ req' = [req EXCEPT ![p] = [b |-> b, write |-> w, idx |-> <<>>]]
      /\ \E v \in Value : data' = [data EXCEPT ![b] = v]
      /\ UNCHANGED <<info, disk>>
  BY ZenonT(40) DEF virtio_disk_rw, Goto, queue
<1>2. CallOf[p] = [st |-> "idle"]
  BY Zenon, <1>1 DEF IInv, Calls, CallOf
<1>3. \A q \in Proc : CallOf[q] # [st |-> "idle"] => CallOf[q].b # b
  BY Zenon, <1>1 DEF CallOf
<1>4. CallOf' = [CallOf EXCEPT ![p] = [st |-> "pending", b |-> b, write |-> w]]
  <2>1. \A q \in Proc \ {p} : pc'[q] = pc[q] /\ req'[q] = req[q]
    BY ZenonT(40), <1>1 DEF IInv, Types
  <2>2. \A q \in Proc \ {p} : CallOf'[q] = CallOf[q]
    BY ZenonT(40), <1>1, <2>1 DEF CallOf
  <2>3. req'[p].b = b /\ req'[p].write = w /\ pc'[p] \notin Queued /\ b # None
    BY SMTT(30), <1>1, VirtioAssumption DEF IInv, Types, Queued
  <2>4. CallOf'[p] = [st |-> "pending", b |-> b, write |-> w]
    BY Zenon, <2>3 DEF CallOf
  <2>5. DOMAIN CallOf' = Proc /\ DOMAIN CallOf = Proc
    BY Zenon DEF CallOf
  <2> HIDE DEF CallOf
  <2>6. CallOf = [q \in Proc |-> CallOf[q]] /\ CallOf' = [q \in Proc |-> CallOf'[q]]
    BY Zenon DEF CallOf
  <2> QED
    BY Zenon, <2>2, <2>4, <2>6
<1> QED
  BY Zenon, <1>1, <1>2, <1>3, <1>4 DEF Service!Request, Service!Idle, Service!Call, CallOf

LEMMA CompleteServes ==
  ASSUME IInv, HeadsFit, NEW r \in taken, dev_complete(r)
  PROVE  \E q \in Proc : Service!Serve(q)
<1>1. UNCHANGED <<pc, req>>
  BY Zenon, DevCompleteInv
<1>2. PICK q \in Proc :
         /\ pc[q] \in Published /\ info[First(q)].status = 255
         /\ info' = [info EXCEPT ![First(q)].status = 0]
         /\ disk' = IF req[q].write THEN [disk EXCEPT ![req[q].b] = data[req[q].b]] ELSE disk
         /\ data' = IF req[q].write THEN data ELSE [data EXCEPT ![req[q].b] = disk[req[q].b]]
  BY Zenon, DevCompleteInv
<1>3. pc[q] \in Queued /\ req[q].b # None /\ First(q) \in Desc
  BY <1>2, CallFacts, VirtioAssumption DEF Published, Queued
<1>4. info'[First(q)].status = 0 /\ \A d \in Desc \ {First(q)} : info'[d] = info[d]
  BY <1>2, <1>3 DEF IInv, Types
<1>5. CallOf[q] = [st |-> "pending", b |-> req[q].b, write |-> req[q].write]
  BY ZenonT(40), <1>2, <1>3 DEF CallOf, First
<1>6. CallOf'[q] = [st |-> "served", b |-> req[q].b, write |-> req[q].write]
  BY SMTT(30), <1>1, <1>3, <1>4 DEF CallOf, First
<1>7. ASSUME NEW x \in Proc, x # q PROVE CallOf'[x] = CallOf[x]
  <2>1. pc[x] \in Queued => info'[First(x)] = info[First(x)]
    BY <1>3, <1>4, <1>7, CallFacts, HeadsDiffer
  <2> QED
    BY SMTT(30), <1>1, <2>1 DEF CallOf, First
<1>8. CallOf' = [CallOf EXCEPT ![q].st = "served"]
  <2>1. CallOf = [x \in Proc |-> CallOf[x]] /\ CallOf' = [x \in Proc |-> CallOf'[x]]
    BY ZenonT(40) DEF CallOf
  <2>2. [CallOf[q] EXCEPT !.st = "served"] = CallOf'[q]
    BY <1>5, <1>6
  <2> HIDE DEF CallOf
  <2> QED
    BY Zenon, <1>7, <2>1, <2>2
<1>9. CallOf[q].st = "pending" /\ CallOf[q].b = req[q].b /\ CallOf[q].write = req[q].write
  BY <1>5
<1>10. IF CallOf[q].write
       THEN disk' = [disk EXCEPT ![CallOf[q].b] = data[CallOf[q].b]] /\ UNCHANGED data
       ELSE data' = [data EXCEPT ![CallOf[q].b] = disk[CallOf[q].b]] /\ UNCHANGED disk
  BY Zenon, <1>2, <1>9
<1> QED
  BY Zenon, <1>8, <1>9, <1>10 DEF Service!Serve, CallOf

LEMMA FreeChainReturns ==
  ASSUME IInv, NEW p \in Proc, free_chain(p)
  PROVE  Service!Return(p)
<1>1. /\ pc[p] = "wait" /\ req[p].b \notin busy
      /\ pc' = [pc EXCEPT ![p] = "idle"] /\ req' = [req EXCEPT ![p] = NoReq]
      /\ info' = [info EXCEPT ![First(p)].b = None]
      /\ UNCHANGED <<disk, data>>
  BY Zenon DEF free_chain, Done, Goto, First, blocks
<1>2. pc[p] \in Queued /\ First(p) \in Desc /\ req[p].b # None
  BY <1>1, CallFacts, VirtioAssumption DEF Queued
<1>3. info[First(p)].status # 255
  BY Zenon, <1>1, <1>2 DEF IInv, Chains, Filled, First
<1>4. CallOf[p] = [st |-> "served", b |-> req[p].b, write |-> req[p].write]
  BY Zenon, <1>2, <1>3 DEF CallOf, First
<1>5. CallOf'[p] = [st |-> "idle"]
  BY SMTT(30), <1>1 DEF CallOf, NoReq, IInv, Types
<1>6. ASSUME NEW x \in Proc, x # p PROVE CallOf'[x] = CallOf[x]
  <2>1. pc'[x] = pc[x] /\ req'[x] = req[x]
    BY ZenonT(40), <1>1, <1>6 DEF IInv, Types
  <2>2. \A d \in Desc : info'[d].status = info[d].status
    BY <1>1, <1>2 DEF IInv, Types
  <2>3. pc[x] \in Queued => First(x) \in Desc
    BY Zenon, CallFacts
  <2> QED
    BY SMTT(30), <2>1, <2>2, <2>3 DEF CallOf, First
<1>7. CallOf' = [CallOf EXCEPT ![p] = [st |-> "idle"]]
  <2>1. CallOf = [x \in Proc |-> CallOf[x]] /\ CallOf' = [x \in Proc |-> CallOf'[x]]
    BY ZenonT(40) DEF CallOf
  <2> HIDE DEF CallOf
  <2> QED
    BY Zenon, <1>5, <1>6, <2>1
<1>8. CallOf[p].st = "served"
  BY <1>4
<1> QED
  BY Zenon, <1>1, <1>7, <1>8 DEF Service!Return, Service!Idle, CallOf

(* fill marks its request unanswered before it can count as queued. *)
LEMMA FillPends ==
  ASSUME IInv, NEW p \in Proc, fill(p)
  PROVE  UNCHANGED <<CallOf, disk, data>>
<1>1. /\ pc[p] = "fill" /\ pc' = [pc EXCEPT ![p] = "enqueue"]
      /\ info' = [info EXCEPT ![First(p)] = [b |-> req[p].b, status |-> 255]]
      /\ UNCHANGED <<req, disk, data>>
  BY ZenonT(40) DEF fill, Goto, First, blocks
<1>2. First(p) \in Desc
  BY ZenonT(40), <1>1, CallFacts
<1>3. \A q \in Proc : First(q)' = First(q)
  BY ZenonT(40), <1>1 DEF First
<1>4. p \notin ServedCalls /\ p \notin ServedCalls'
  BY SMTT(30), <1>1, <1>2, <1>3 DEF ServedCalls, Queued, IInv, Types
<1>5. ASSUME NEW q \in Proc, q # p PROVE q \in ServedCalls' <=> q \in ServedCalls
  <2>1. pc'[q] = pc[q]
    BY Zenon, <1>1, <1>5 DEF IInv, Types
  <2>2. pc[q] \in Queued => info'[First(q)] = info[First(q)]
    BY ZenonT(40), <1>1, <1>2, <1>5, CallFacts, HeadsDiffer DEF IInv, Types
  <2> QED
    BY SMTT(30), <1>3, <2>1, <2>2 DEF ServedCalls
<1>6. ServedCalls' = ServedCalls
  BY SMTT(30), <1>4, <1>5 DEF ServedCalls
<1> QED
  BY Zenon, <1>1, <1>6, SameCalls

(* Every other step only moves a call on. *)
LEMMA MovesStutter ==
  ASSUME IInv, NEW p \in Proc,
         \/ alloc3_desc(p) \/ alloc3_fails(p) \/ enqueue(p) \/ publish(p) \/ notify(p)
         \/ wait(p) \/ sleep(p) \/ kkill(p) \/ acquire(p)
  PROVE  UNCHANGED <<CallOf, disk, data>>
<1>1. UNCHANGED <<info, disk, data>>
  BY Zenon DEF alloc3_desc, alloc3_fails, enqueue, publish, notify, wait, sleep, kkill, acquire,
     queue, blocks
<1>2. PICK l \in Pcs : pc' = [pc EXCEPT ![p] = l] /\ (l \in Queued <=> pc[p] \in Queued)
  BY DEF alloc3_desc, alloc3_fails, enqueue, publish, notify, wait, sleep, kkill, acquire,
     Goto, Queued, Pcs
<1>3. \A q \in Proc : pc'[q] \in Queued <=> pc[q] \in Queued
  BY Zenon, <1>2 DEF IInv, Types
<1>4. CASE alloc3_desc(p)
  <2>1. pc[p] \notin Queued /\ req' = [req EXCEPT ![p].idx = FirstThree]
    BY Zenon, <1>4 DEF alloc3_desc, Queued
  <2>2. \A q \in Proc : /\ req'[q].b = req[q].b /\ req'[q].write = req[q].write
                        /\ q # p => First(q)' = First(q)
    BY <2>1 DEF IInv, Types, First
  <2>3. ServedCalls' = ServedCalls
    BY <1>1, <1>3, <2>1, <2>2 DEF ServedCalls
  <2> QED
    BY Zenon, <1>1, <2>2, <2>3, SameCalls
<1>5. CASE req' = req
  <2>1. ServedCalls' = ServedCalls
    BY Zenon, <1>1, <1>3, <1>5 DEF ServedCalls, First
  <2> QED
    BY Zenon, <1>1, <1>5, <2>1, SameCalls
<1> QED
  BY Zenon, <1>4, <1>5 DEF alloc3_fails, enqueue, publish, notify, wait, sleep, kkill, acquire

LEMMA HandlerStutters ==
  ASSUME Intr \/ dev_take \/ UNCHANGED vars
  PROVE  UNCHANGED <<CallOf, disk, data>>
<1>1. UNCHANGED <<info, pc, req, disk, data>>
  BY Zenon DEF Intr, virtio_disk_intr, intr_entry, intr_done, dev_take, queue, blocks, vars
<1> QED
  BY ZenonT(40), <1>1 DEF CallOf

----------------------------------------------------------------------------
(* Counting descriptors. *)
INSTANCE FiniteSetTheorems

(* Distinct heads that leave out one descriptor do not fill a ring. *)
LEMMA Room == HeadsFit
<1> SUFFICES ASSUME NEW n \in Nat, NEW f \in [0..n -> Desc], NEW x \in Desc,
                    \A j, k \in 0..n : f[j] = f[k] => j = k, \A k \in 0..n : f[k] # x
             PROVE  n + 1 < NUM /\ n + 1 < UINT16
  BY Zenon DEF HeadsFit
<1>1. f \in Injection(0..n, Desc \ {x})
  BY Zenon DEF Injection, IsInjective
<1>2. NUM \in Nat /\ NUM >= 3 /\ UINT16 \in Nat \ {0} /\ UINT16 % NUM = 0
  BY Zenon, VirtioAssumption
<1>3. IsFiniteSet(Desc) /\ Cardinality(Desc) = NUM
  BY <1>2, FS_Interval DEF Desc
<1>4. IsFiniteSet(Desc \ {x}) /\ Cardinality(Desc \ {x}) = NUM - 1
  BY Zenon, <1>3, FS_RemoveElement
<1>5. Cardinality(0..n) <= Cardinality(Desc \ {x})
  BY Zenon, <1>1, <1>4, FS_Injection
<1>6. Cardinality(0..n) = n + 1
  BY FS_Interval
<1>7. NUM <= UINT16
  BY <1>2
<1> QED
  BY <1>2, <1>4, <1>5, <1>6, <1>7

(* alloc_desc finds the lowest free descriptor. *)
LEMMA LowestIsIn ==
  ASSUME NEW S \in SUBSET Desc, S # {}
  PROVE  Lowest(S) \in S
<1> DEFINE R == {ss \in Nat \X Nat : ss[1] < ss[2]}
<1>1. S \subseteq Nat
  BY VirtioAssumption DEF Desc
<1>2. IsWellFoundedOn(R, Nat)
  BY NatLessThanWellFounded, Zenon DEF OpToRel
<1>3. PICK x \in S : \A y \in S : ~(<<y, x>> \in R)
  <2> HIDE DEF R
  <2> QED
    BY Zenon, <1>1, <1>2, WFMin
<1>4. \A y \in S : x <= y
  <2> SUFFICES ASSUME NEW y \in S PROVE x <= y
    BY Zenon
  <2>1. x \in Nat /\ y \in Nat /\ <<y, x>> \notin R
    BY Zenon, <1>1, <1>3
  <2> QED
    BY <2>1
<1> QED
  BY Zenon, <1>4 DEF Lowest

LEMMA FreeFinite ==
  ASSUME Types
  PROVE  IsFiniteSet(free) /\ Cardinality(free) \in Nat
<1>1. IsFiniteSet(Desc)
  BY VirtioAssumption, FS_Interval DEF Desc
<1>2. free \in SUBSET Desc
  BY Zenon DEF Types
<1> QED
  BY Zenon, <1>1, <1>2, FS_Subset, FS_CardinalityType

LEMMA FirstThreeFree ==
  ASSUME Types, Cardinality(free) >= 3
  PROVE  ThreeFound
<1> DEFINE i == Lowest(free)
           j == Lowest(free \ {i})
           k == Lowest(free \ {i, j})
<1>1. free \in SUBSET Desc /\ IsFiniteSet(free) /\ Cardinality(free) \in Nat
  BY Zenon, FreeFinite DEF Types
<1>2. i \in free
  <2>1. free # {}
    BY <1>1, FS_EmptySet
  <2> QED
    BY Zenon, <1>1, <2>1, LowestIsIn
<1>3. /\ IsFiniteSet(free \ {i}) /\ Cardinality(free \ {i}) = Cardinality(free) - 1
  BY Zenon, <1>1, <1>2, FS_RemoveElement
<1>4. j \in free \ {i}
  <2> HIDE DEF i
  <2>1. free \ {i} # {}
    BY <1>1, <1>3, FS_EmptySet
  <2> QED
    BY Zenon, <1>1, <2>1, LowestIsIn
<1>5. k \in free \ {i, j}
  <2> HIDE DEF i, j
  <2>1. Cardinality((free \ {i}) \ {j}) = Cardinality(free) - 2
    <3>1. Cardinality((free \ {i}) \ {j}) = Cardinality(free \ {i}) - 1
      BY Zenon, <1>3, <1>4, FS_RemoveElement
    <3> QED
      BY SMTT(30), <1>1, <1>3, <3>1
  <2>2. (free \ {i}) \ {j} # {}
    BY <1>1, <2>1, FS_EmptySet
  <2>3. free \ {i, j} # {} /\ free \ {i, j} \in SUBSET Desc
    BY Zenon, <1>1, <2>2
  <2> QED
    BY Zenon, <2>3, LowestIsIn
<1> QED
  <2>1. FirstThree = <<i, j, k>>
    BY Zenon DEF FirstThree
  <2> HIDE DEF i, j, k
  <2> QED
    BY Zenon, <1>2, <1>4, <1>5, <2>1 DEF ThreeFound

----------------------------------------------------------------------------
LEMMA NextInv == ASSUME IInv, [Next]_vars PROVE IInv'
<1>1. ASSUME NEW p \in Proc, Rw(p) PROVE IInv'
  <2>1. ASSUME alloc3_desc(p) PROVE IInv'
    <3>1. Types /\ Cardinality(free) >= 3
      BY Zenon, <2>1 DEF alloc3_desc, IInv
    <3> QED
      BY Zenon, <2>1, <3>1, AllocInv, FirstThreeFree, FreeFinite
  <2> QED
    BY ZenonT(40), <1>1, <2>1, AllocFailsInv, FillInv, EnqueueInv, PublishInv, ControlInv, FreeChainInv, Room
       DEF Rw
<1>2. ASSUME NEW p \in Proc, kkill(p) PROVE IInv'
  BY Zenon, <1>2, ControlInv
<1>3. ASSUME NEW p \in Proc, NEW b \in Buf, NEW w \in BOOLEAN, virtio_disk_rw(p, b, w) PROVE IInv'
  BY Zenon, <1>3, RwInv
<1>4. CASE Intr
  BY Zenon, <1>4, InterruptInv, IntrEntryInv DEF Intr
<1>5. CASE dev_take
  BY Zenon, <1>5, DevTakeInv
<1>6. ASSUME NEW r \in taken, dev_complete(r) PROVE IInv'
  BY Zenon, <1>6, DevCompleteInv, Room
<1>7. CASE UNCHANGED vars
  <2>1. UNCHANGED <<desc, ops, info, free, avail, used, used_idx, busy, lock, pc, req, chan, panic,
                    taken, last, isr, disk, data>>
    BY Zenon, <1>7 DEF vars
  <2>2. Types'
    BY ZenonT(40), <2>1 DEF IInv, Types
  <2>3. Calls'
    BY Zenon, <2>1 DEF IInv, Calls, Triple
  <2>4. Sleepers'
    BY Zenon, <2>1 DEF IInv, Sleepers
  <2>5. used_idx # used.idx => isr' \/ lock' = "intr"
    BY Zenon, <2>1 DEF IInv, Used
  <2> QED
    BY ZenonT(40), <2>1, <2>2, <2>3, <2>4, <2>5, QuietInv DEF queue, blocks
<1> QED
  BY ZenonT(40), <1>1, <1>2, <1>3, <1>4, <1>5, <1>6, <1>7 DEF Next

(***************************************************************************)
(* Descriptors are neither shared nor lost, and neither free_desc nor      *)
(* virtio_disk_intr panics, for every number of processes and descriptors, *)
(* and wherever the indices of the rings wrap.                             *)
(***************************************************************************)
THEOREM DescriptorsExact == Spec => []ChainsExact
<1>1. IInv => ChainsExact
  BY Zenon DEF IInv, Owned, ChainsExact
<1> QED
  BY <1>1, InitInv, NextInv, PTL DEF Spec

(***************************************************************************)
(* A completion in the used ring has an interrupt to come or a handler at  *)
(* work, and nobody sleeps for what is already there.                      *)
(***************************************************************************)
THEOREM CompletionsNoticed == Spec => []NoLostWakeup
<1>1. IInv => NoLostWakeup
  BY Zenon DEF IInv, Used, Sleepers, NoLostWakeup
<1> QED
  BY <1>1, InitInv, NextInv, PTL DEF Spec

LEMMA RefNext ==
  ASSUME IInv, [Next]_vars
  PROVE  Service!Next \/ UNCHANGED <<disk, data, CallOf>>
<1>1. ASSUME NEW p \in Proc, NEW b \in Buf, NEW w \in BOOLEAN, virtio_disk_rw(p, b, w)
      PROVE  Service!Next
  BY Zenon, <1>1, RwRequests DEF Service!Next
<1>2. ASSUME NEW r \in taken, dev_complete(r) PROVE Service!Next
  BY Zenon, <1>2, CompleteServes, Room DEF Service!Next
<1>3. ASSUME NEW p \in Proc, free_chain(p) PROVE Service!Next
  BY Zenon, <1>3, FreeChainReturns DEF Service!Next
<1>4. ASSUME NEW p \in Proc, Rw(p) \/ kkill(p), ~free_chain(p)
      PROVE  UNCHANGED <<disk, data, CallOf>>
  BY Zenon, <1>4, FillPends, MovesStutter DEF Rw
<1>5. ASSUME Intr \/ dev_take \/ UNCHANGED vars PROVE UNCHANGED <<disk, data, CallOf>>
  BY Zenon, <1>5, HandlerStutters
<1> QED
  BY ZenonT(40), <1>1, <1>2, <1>3, <1>4, <1>5 DEF Next, Rw

(***************************************************************************)
(* The driver with its device implements DiskService for every number of   *)
(* processes, buffers and descriptors: each virtio_disk_rw returns after   *)
(* its own block was transferred, and it was transferred once.             *)
(***************************************************************************)
THEOREM DriverIsDisk == Spec => IsDisk
<1>1. Init => Service!Init
  <2> SUFFICES ASSUME Init PROVE Service!Init
    BY Zenon
  <2>1. disk \in [Buf -> Value] /\ data \in [Buf -> Value]
    BY Zenon DEF Init
  <2>2. CallOf = [p \in Proc |-> [st |-> "idle"]]
    BY ZenonT(40) DEF Init, NoReq, CallOf
  <2> QED
    BY Zenon, <2>1, <2>2 DEF Service!Init, Service!Idle, CallOf
<1>2. IInv /\ [Next]_vars => [Service!Next]_(Service!dsvars)
  BY Zenon, RefNext DEF Service!dsvars, CallOf
<1> QED
  BY <1>1, <1>2, InitInv, NextInv, PTL DEF Spec, IsDisk, Service!Spec

============================================================================
