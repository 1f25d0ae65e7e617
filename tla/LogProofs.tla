----------------------------- MODULE LogProofs -----------------------------
(***************************************************************************)
(* The safety theorems of Log, from one inductive invariant IInv, and what *)
(* the log promises.  It implements TxDisk: what recovery would restore is *)
(* always the last committed state, and a crash loses exactly the open     *)
(* group.  When sys_sync returns, the operations that had ended when it    *)
(* was called are on the disk.                                             *)
(*                                                                         *)
(* The lemmas take the facts about Cardinality that they need, Counting,   *)
(* as a hypothesis; CountingHolds proves it from FiniteSetTheorems, which  *)
(* only the end of the module needs.                                       *)
(***************************************************************************)
EXTENDS Log, TLAPS

CountEmpty ==
  /\ IsFiniteSet({}) /\ Cardinality({}) = 0
  /\ \A S : IsFiniteSet(S) => (Cardinality(S) = 0 <=> S = {})

CountType == \A S : IsFiniteSet(S) => Cardinality(S) \in Nat

CountSubset ==
  \A S : IsFiniteSet(S) => \A T \in SUBSET S :
    /\ IsFiniteSet(T) /\ Cardinality(T) <= Cardinality(S)
    /\ Cardinality(S) = Cardinality(T) => S = T

CountAdd ==
  \A S, x : IsFiniteSet(S) =>
    /\ IsFiniteSet(S \cup {x})
    /\ Cardinality(S \cup {x}) = IF x \in S THEN Cardinality(S) ELSE Cardinality(S) + 1

CountRemove ==
  \A S, x : IsFiniteSet(S) =>
    /\ IsFiniteSet(S \ {x})
    /\ Cardinality(S \ {x}) = IF x \in S THEN Cardinality(S) - 1 ELSE Cardinality(S)

CountInterval ==
  \A m, n \in Int :
    /\ IsFiniteSet(m..n)
    /\ Cardinality(m..n) = IF m > n THEN 0 ELSE n - m + 1

CountProduct ==
  \A S, T : IsFiniteSet(S) /\ IsFiniteSet(T) =>
    /\ IsFiniteSet(S \X T)
    /\ Cardinality(S \X T) = Cardinality(S) * Cardinality(T)

Counting ==
  /\ CountEmpty /\ CountType /\ CountSubset /\ CountAdd /\ CountRemove
  /\ CountInterval /\ CountProduct

----------------------------------------------------------------------------
(* Who is in commit(): one process at most, and then no operation is open. *)
Committer == {"write_log", "install_trans", "end_commit"}

Control ==
  /\ outstanding = Cardinality(OpenOps)
  /\ \A p \in Proc : pc[p] \in Committer => committing
  /\ \A p, q \in Proc : pc[p] \in Committer /\ pc[q] \in Committer => p = q
  /\ committing => OpenOps = {}
  /\ boot # "up" => \A p \in Proc : pc[p] = "idle"

(* The log space still promised to open operations: one token for each      *)
(* block an operation may log on top of those it logged.                    *)
Tokens ==
  {t \in Proc \X (1..MAXOPBLOCKS) : pc[t[1]] = "op" /\ t[2] > Cardinality(wset[t[1]])}

Space ==
  /\ \A p \in Proc : IsFiniteSet(wset[p])
  /\ \A p \in Proc : pc[p] = "op" => wset[p] \subseteq Range(lh)
  /\ Len(lh) + Cardinality(Tokens) <= LOGBLOCKS
  /\ Len(head) <= LOGBLOCKS
  /\ ~panic

(* A block is pending from its log_write until install_trans dealt with it. *)
Injective(s) == \A i, j \in DOMAIN s : s[i] = s[j] => i = j
Writing == \E p \in Proc : pc[p] = "write_log"
Installing == \E p \in Proc : pc[p] = "install_trans"
Pending(b) == \E i \in DOMAIN lh : lh[i] = b /\ ~(Installing /\ i <= tail)

Headers ==
  /\ Injective(lh) /\ Injective(head)
  /\ boot = "read_head" => lh = <<>>
  /\ boot = "up" /\ ~Installing => head = <<>>

AtBoot ==
  boot # "up" => /\ \A b \in Block : pins[b] = 0
                 /\ \A b \in Block : Contents(b) = home[b]

Installed ==
  boot = "install_trans" \/ Installing =>
    /\ head = lh /\ tail <= Len(lh)
    /\ \A i \in DOMAIN lh : i <= tail => home[lh[i]] = logarea[i]

Logged ==
  /\ Installing => \A i \in DOMAIN lh : logarea[i] = Contents(lh[i])
  /\ Writing => /\ tail <= Len(lh)
                /\ \A i \in DOMAIN lh : i <= tail => logarea[i] = Contents(lh[i])

PinsFit ==
  boot = "up" => \A b \in Block :
    /\ pins[b] = IF Pending(b) THEN 1 ELSE 0
    /\ Contents(b) # home[b] => Pending(b)

Data == Headers /\ AtBoot /\ Installed /\ Logged /\ PinsFit

IInv == TypeOK /\ Control /\ Space /\ Data

----------------------------------------------------------------------------
LEMMA TokenSpace ==
  ASSUME Counting
  PROVE  /\ IsFiniteSet(1..MAXOPBLOCKS) /\ Cardinality(1..MAXOPBLOCKS) = MAXOPBLOCKS
         /\ IsFiniteSet(Proc \X (1..MAXOPBLOCKS))
<1>1. MAXOPBLOCKS \in Nat /\ 1 \in Int /\ MAXOPBLOCKS \in Int /\ IsFiniteSet(Proc)
  BY LogAssumption
<1>2. IsFiniteSet(1..MAXOPBLOCKS)
      /\ Cardinality(1..MAXOPBLOCKS) = IF 1 > MAXOPBLOCKS THEN 0 ELSE MAXOPBLOCKS - 1 + 1
  BY Zenon, <1>1 DEF Counting, CountInterval
<1>3. Cardinality(1..MAXOPBLOCKS) = MAXOPBLOCKS
  BY <1>1, <1>2
<1> QED
  BY Zenon, <1>1, <1>2, <1>3 DEF Counting, CountProduct

(* The sets the invariant counts are finite. *)
LEMMA FiniteCounts ==
  ASSUME Counting
  PROVE  /\ IsFiniteSet(OpenOps) /\ Cardinality(OpenOps) \in Nat
         /\ IsFiniteSet(Tokens) /\ Cardinality(Tokens) \in Nat
<1>1. IsFiniteSet(Proc)
  BY Zenon, LogAssumption
<1>3. IsFiniteSet(Proc \X (1..MAXOPBLOCKS))
  BY Zenon, TokenSpace
<1>4. OpenOps \in SUBSET Proc /\ Tokens \in SUBSET (Proc \X (1..MAXOPBLOCKS))
  BY Zenon DEF OpenOps, Tokens
<1>5. IsFiniteSet(OpenOps) /\ IsFiniteSet(Tokens)
  BY Zenon, <1>1, <1>3, <1>4 DEF Counting, CountSubset
<1> QED
  BY Zenon, <1>5 DEF Counting, CountType

(* An open operation holds a token, so the log has room for its block. *)
LEMMA Room ==
  ASSUME Counting,
         IInv, NEW p \in Proc, pc[p] = "op",
         NEW b \in Block, Cardinality(wset[p] \cup {b}) <= OpBlocks
  PROVE  /\ outstanding >= 1 /\ Len(lh) < LOGBLOCKS
         /\ Cardinality(wset[p]) \in Nat /\ Cardinality(wset[p]) <= OpBlocks
         /\ <<p, Cardinality(wset[p]) + 1>> \in Tokens \/ b \in wset[p]
<1> USE LogAssumption
<1>1. IsFiniteSet(wset[p]) /\ Cardinality(wset[p]) \in Nat
  BY Zenon DEF Counting, CountType, IInv, Space
<1>2. Cardinality(wset[p] \cup {b}) =
        IF b \in wset[p] THEN Cardinality(wset[p]) ELSE Cardinality(wset[p]) + 1
  BY Zenon, <1>1 DEF Counting, CountAdd
<1>3. p \in OpenOps
  BY Zenon DEF OpenOps
<1>4. outstanding >= 1
  <2>1. Cardinality(OpenOps) # 0
    BY Zenon, <1>3, FiniteCounts DEF Counting, CountEmpty
  <2> QED
    BY <2>1, FiniteCounts DEF IInv, Control
<1>5. <<p, MAXOPBLOCKS>> \in Tokens
  BY <1>1, <1>2 DEF Tokens
<1>6. Cardinality(Tokens) # 0
  BY Zenon, <1>5, FiniteCounts DEF Counting, CountEmpty
<1>7. Len(lh) < LOGBLOCKS
  BY <1>6, FiniteCounts DEF IInv, Space, TypeOK
<1>8. b \notin wset[p] => <<p, Cardinality(wset[p]) + 1>> \in Tokens
  BY <1>1, <1>2 DEF Tokens
<1> QED
  BY <1>1, <1>2, <1>4, <1>7, <1>8

----------------------------------------------------------------------------
(* The initial states: nothing is logged, cached or open. *)
LEMMA InitInv ==
  ASSUME Counting
  PROVE  Init => IInv
<1> SUFFICES ASSUME Init PROVE IInv
  BY Zenon
<1> USE LogAssumption
<1>1. TypeOK
  <2>1. home \in [Block -> Value] /\ logarea \in [1..LOGBLOCKS -> Value]
    BY Zenon DEF Init
  <2>2. cache \in [Block -> Value \cup {NotCached}] /\ pins \in [Block -> Nat]
    BY Zenon DEF Init
  <2>3. pc \in [Proc -> PcValues] /\ target \in [Proc -> Nat]
        /\ wset \in [Proc -> SUBSET Block]
    BY Zenon DEF Init, PcValues
  <2>4. head \in Seq(Block) /\ lh \in Seq(Block)
    BY DEF Init
  <2> QED
    BY Zenon, <2>1, <2>2, <2>3, <2>4 DEF Init, TypeOK
<1>2. OpenOps = {} /\ Tokens = {} /\ ~Installing /\ ~Writing
  BY Zenon DEF Init, OpenOps, Tokens, Installing, Writing
<1>3. Control
  BY Zenon, <1>2 DEF Counting, CountEmpty, Init, Control, Committer
<1>4. Space
  BY <1>2 DEF Counting, CountEmpty, Init, Space
<1>5. Data
  <2>1. Headers
    BY <1>2 DEF Headers, Init, Injective, Contents
  <2>2. AtBoot
    BY Zenon, <1>2 DEF AtBoot, Init, Injective, Contents
  <2>3. Installed
    BY Zenon, <1>2 DEF Installed, Init, Injective, Contents
  <2>4. Logged
    BY Zenon, <1>2 DEF Logged, Init, Injective, Contents
  <2>5. PinsFit
    BY Zenon, <1>2 DEF PinsFit, Init, Injective, Contents
  <2> QED
    BY Zenon, <2>1, <2>2, <2>3, <2>4, <2>5 DEF Data
<1> QED
  BY Zenon, <1>1, <1>3, <1>4, <1>5 DEF IInv

(* The log fits its area. *)
LEMMA LogFits ==
  ASSUME Counting,
         IInv
  PROVE  Len(lh) \in Nat /\ Len(lh) <= LOGBLOCKS /\ LOGBLOCKS \in Nat
         /\ DOMAIN lh = 1..Len(lh) /\ (\A i \in DOMAIN lh : lh[i] \in Block)
  BY FiniteCounts, LogAssumption DEF IInv, Space, TypeOK

(* A step that leaves disk, log and contents alone keeps Data. *)
LEMMA DataFrame ==
  ASSUME Counting,
         IInv, UNCHANGED <<home, logarea, head, pins, lh, tail, boot>>,
         \A b \in Block : Contents(b)' = Contents(b),
         Installing' <=> Installing, Writing' <=> Writing
  PROVE  Data'
<1>1. \A b \in Block : Pending(b)' <=> Pending(b)
  BY Zenon DEF Pending
<1>2. \A i \in DOMAIN lh : lh[i] \in Block
  BY Zenon, LogFits
<1>3. Headers' /\ Installed'
  BY Zenon DEF IInv, Data, Headers, Installed, Injective
<1>4. AtBoot'
  BY Zenon DEF IInv, Data, AtBoot
<1>5. Logged'
  BY Zenon, <1>2 DEF IInv, Data, Logged
<1>6. PinsFit'
  BY Zenon, <1>1 DEF IInv, Data, PinsFit
<1> QED
  BY Zenon, <1>3, <1>4, <1>5, <1>6 DEF Data

(***************************************************************************)
(* A step between two places outside of operations and commits, that       *)
(* touches neither the disk nor the log: most of begin_op and sys_sync.    *)
(***************************************************************************)
Quiet == PcValues \ (Committer \cup {"op"})

LEMMA QuietStep ==
  ASSUME Counting,
         IInv, boot = "up", NEW p \in Proc, NEW l \in Quiet, pc[p] \in Quiet,
         pc' = [pc EXCEPT ![p] = l],
         UNCHANGED <<disk, cache, pins, lh, outstanding, committing, tail, boot, wset, panic>>
  PROVE  Control' /\ Space' /\ Data'
<1> USE DEF IInv, TypeOK
<1>1. \A q \in Proc : \A m \in Committer \cup {"op"} : pc'[q] = m <=> pc[q] = m
  BY Zenon DEF Quiet, PcValues, Committer
<1>2. OpenOps' = OpenOps /\ Tokens' = Tokens
  BY Zenon, <1>1 DEF OpenOps, Tokens
<1>3. Installing' = Installing /\ Writing' = Writing
  BY Zenon, <1>1 DEF Installing, Writing, Committer
<1>4. Control'
  BY <1>1, <1>2 DEF Control, Committer
<1>5. Space'
  BY Zenon, <1>1, <1>2 DEF Space, disk
<1>6. Data'
  <2>1. \A b \in Block : Contents(b)' = Contents(b)
    BY Zenon DEF Contents, disk
  <2> QED
    BY Zenon, <1>3, <2>1, DataFrame DEF disk
<1> QED
  BY Zenon, <1>4, <1>5, <1>6

(* The calls that are quiet steps throughout. *)
LEMMA QuietCalls ==
  ASSUME Counting,
         IInv, boot = "up", NEW p \in Proc,
         \/ StartOp(p) \/ sleep(p) \/ kkill(p)
         \/ sync_call(p) \/ sys_sync(p) \/ sync_return(p)
  PROVE  IInv'
<1> USE DEF Quiet, PcValues, Committer
<1>1. TypeOK
  BY Zenon DEF IInv
<1>2. /\ \E l \in Quiet : pc' = [pc EXCEPT ![p] = l]
      /\ pc[p] \in Quiet
      /\ UNCHANGED <<disk, cache, pins, lh, outstanding, committing, tail, boot, wset, panic>>
  BY Zenon DEF StartOp, sleep, kkill, sync_call, sys_sync, sync_return, Goto, Resume,
         Asleep
<1>3. /\ ncommit' \in Nat /\ ops' \in Nat /\ target' \in [Proc -> Nat]
      /\ chan' \subseteq Proc /\ late' \in BOOLEAN /\ owed' \subseteq Proc
  <2>1. CASE StartOp(p)
    BY <1>1, <2>1 DEF TypeOK, StartOp, history
  <2>2. CASE sleep(p) \/ kkill(p)
    BY Zenon, <1>1, <2>2 DEF TypeOK, sleep, kkill, history
  <2>3. CASE sync_call(p)
    BY <1>1, <2>3 DEF TypeOK, sync_call
  <2>4. CASE sys_sync(p)
    BY Zenon, <1>1, <2>4 DEF TypeOK, sys_sync, history
  <2>5. CASE sync_return(p)
    BY Zenon, <1>1, <2>5 DEF TypeOK, sync_return, history
  <2> QED
    BY Zenon, <2>1, <2>2, <2>3, <2>4, <2>5
<1>4. TypeOK'
  <2>1. pc' \in [Proc -> PcValues] /\ wset' \in [Proc -> SUBSET Block]
    BY Zenon, <1>1, <1>2 DEF TypeOK
  <2>2. /\ UNCHANGED <<home, logarea, head, cache, pins, lh, outstanding, committing>>
        /\ UNCHANGED <<tail, boot, panic>>
    BY Zenon, <1>2 DEF disk
  <2> QED
    BY Zenon, <1>1, <1>3, <2>1, <2>2 DEF TypeOK
<1>5. Control' /\ Space' /\ Data'
  BY Zenon, <1>2, QuietStep
<1> QED
  BY Zenon, <1>4, <1>5 DEF IInv

(* begin_op: LogFull leaves room for a full reservation. *)
LEMMA BeginOp ==
  ASSUME Counting,
         IInv, boot = "up", NEW p \in Proc, begin_op(p)
  PROVE  IInv'
<1> USE LogAssumption
<1>1. TypeOK
  BY Zenon DEF IInv
<1>2. TypeOK'
  <2>1. /\ pc' \in [Proc -> PcValues] /\ chan' \subseteq Proc
        /\ wset' \in [Proc -> SUBSET Block] /\ outstanding' \in Nat
    <3>1. CASE committing \/ LogFull
      BY Zenon, <1>1, <3>1 DEF TypeOK, begin_op, Goto, PcValues
    <3>2. CASE ~(committing \/ LogFull)
      <4>1. pc' = [pc EXCEPT ![p] = "op"] /\ "op" \in PcValues /\ chan' = chan
        BY Zenon, <3>2 DEF begin_op, Goto, PcValues
      <4>2. outstanding' = outstanding + 1 /\ wset' = [wset EXCEPT ![p] = {}]
        BY Zenon, <3>2 DEF begin_op
      <4> QED
        BY <1>1, <4>1, <4>2 DEF TypeOK
    <3> QED
      BY Zenon, <3>1, <3>2
  <2> QED
    BY Zenon, <1>1, <2>1 DEF TypeOK, begin_op, disk, history
<1>3. CASE committing \/ LogFull
  <2>1. pc[p] \in Quiet /\ "begin_op_sleep" \in Quiet
    BY Zenon DEF begin_op, Quiet, PcValues, Committer
  <2>2. Control' /\ Space' /\ Data'
    BY Zenon, <1>3, <2>1, QuietStep DEF begin_op, Goto
  <2> QED
    BY Zenon, <1>2, <2>2 DEF IInv
<1>4. CASE ~(committing \/ LogFull)
  <2> USE DEF TypeOK, IInv
  <2>1. /\ pc[p] = "begin_op" /\ pc' = [pc EXCEPT ![p] = "op"]
        /\ outstanding' = outstanding + 1 /\ wset' = [wset EXCEPT ![p] = {}]
        /\ UNCHANGED <<disk, cache, pins, lh, committing, tail, boot, panic>>
    BY Zenon, <1>4 DEF begin_op, Goto
  <2>2. OpenOps' = OpenOps \cup {p} /\ p \notin OpenOps
    BY Zenon, <2>1 DEF OpenOps
  <2>3. Cardinality(OpenOps') = outstanding + 1
    BY Zenon, <2>2, FiniteCounts DEF Counting, CountAdd, Control
  <2>4. Control'
    BY Zenon, <1>4, <2>1, <2>2, <2>3 DEF Control, Committer
  <2>5. Len(lh) + Cardinality(OpenOps') * MAXOPBLOCKS <= LOGBLOCKS
    BY <1>4, <2>3 DEF LogFull
  <2>6. Cardinality(Tokens') <= Cardinality(OpenOps') * MAXOPBLOCKS
    <3>1. IsFiniteSet(1..MAXOPBLOCKS) /\ Cardinality(1..MAXOPBLOCKS) = MAXOPBLOCKS
      BY Zenon, TokenSpace
    <3>2. IsFiniteSet(OpenOps')
      BY Zenon, <2>2, FiniteCounts DEF Counting, CountAdd
    <3>3. /\ IsFiniteSet(OpenOps' \X (1..MAXOPBLOCKS))
          /\ Cardinality(OpenOps' \X (1..MAXOPBLOCKS)) = Cardinality(OpenOps') * MAXOPBLOCKS
      BY Zenon, <3>1, <3>2 DEF Counting, CountProduct
    <3>4. Tokens' \in SUBSET (OpenOps' \X (1..MAXOPBLOCKS))
      BY Zenon DEF Tokens, OpenOps
    <3> QED
      BY <3>3, <3>4 DEF Counting, CountSubset
  <2>7. Tokens' \in SUBSET (Proc \X (1..MAXOPBLOCKS)) /\ Cardinality(Tokens') \in Nat
    <3>1. IsFiniteSet(Proc \X (1..MAXOPBLOCKS))
      BY Zenon, TokenSpace
    <3>2. Tokens' \in SUBSET (Proc \X (1..MAXOPBLOCKS))
      BY Zenon DEF Tokens
    <3> QED
      BY Zenon, SMTT(20), <3>1, <3>2 DEF Counting, CountSubset, CountType
  <2>8. Len(lh) + Cardinality(Tokens') <= LOGBLOCKS
    <3>1. Cardinality(OpenOps') * MAXOPBLOCKS \in Nat
      BY <2>3
    <3> QED
      BY <2>5, <2>6, <2>7, <3>1
  <2>9. Space'
    <3>1. \A q \in Proc : IsFiniteSet(wset'[q])
      BY Zenon, <2>1 DEF Counting, CountEmpty, Space
    <3>2. \A q \in Proc : pc'[q] = "op" => wset'[q] \subseteq Range(lh)
      BY Zenon, <2>1 DEF Space
    <3> QED
      BY Zenon, <2>1, <2>8, <3>1, <3>2 DEF Space, disk
  <2>10. Data'
    <3>1. Installing' = Installing /\ Writing' = Writing
      BY Zenon, <2>1 DEF Installing, Writing
    <3>2. \A b \in Block : Contents(b)' = Contents(b)
      BY Zenon, <2>1 DEF Contents, disk
    <3> QED
      BY Zenon, <2>1, <3>1, <3>2, DataFrame DEF disk
  <2> QED
    BY Zenon, <1>2, <2>4, <2>9, <2>10
<1> QED
  BY Zenon, <1>3, <1>4

(* While an operation is open nobody commits, so the header is empty and a  *)
(* block is pending exactly when it is logged.                              *)
LEMMA OpenMeansNoCommit ==
  ASSUME IInv, boot = "up", NEW p \in Proc, pc[p] = "op"
  PROVE  /\ ~committing /\ ~Installing /\ ~Writing /\ head = <<>>
         /\ \A b \in Block : Pending(b) <=> b \in Range(lh)
<1>1. p \in OpenOps /\ ~committing
  BY Zenon DEF IInv, Control, OpenOps
<1>2. ~Installing /\ ~Writing
  BY Zenon, <1>1 DEF IInv, Control, Committer, Installing, Writing
<1>3. head = <<>>
  BY Zenon, <1>2 DEF IInv, Data, Headers
<1> QED
  BY Zenon, <1>1, <1>2, <1>3 DEF Pending, Range

LEMMA AppendFacts ==
  ASSUME NEW s \in Seq(Block), NEW b \in Block
  PROVE  /\ Append(s, b) \in Seq(Block) /\ Len(Append(s, b)) = Len(s) + 1
         /\ Range(Append(s, b)) = Range(s) \cup {b}
         /\ Injective(s) /\ b \notin Range(s) => Injective(Append(s, b))
<1>1. /\ Append(s, b) \in Seq(Block) /\ Len(Append(s, b)) = Len(s) + 1 /\ Len(s) \in Nat
      /\ DOMAIN s = 1..Len(s) /\ DOMAIN Append(s, b) = 1..(Len(s) + 1)
      /\ \A i \in 1..Len(s) : Append(s, b)[i] = s[i]
      /\ Append(s, b)[Len(s) + 1] = b
  OBVIOUS
<1>2. Range(Append(s, b)) = Range(s) \cup {b}
  <2>1. ASSUME NEW x \in Range(Append(s, b)) PROVE x \in Range(s) \cup {b}
    <3>1. PICK i \in 1..(Len(s) + 1) : x = Append(s, b)[i]
      BY Zenon, <1>1 DEF Range
    <3> QED
      BY <1>1, <3>1 DEF Range
  <2>2. ASSUME NEW x \in Range(s) PROVE x \in Range(Append(s, b))
    <3>1. PICK i \in 1..Len(s) : x = s[i]
      BY Zenon, <1>1 DEF Range
    <3> QED
      BY <1>1, <3>1 DEF Range
  <2>3. b \in Range(Append(s, b))
    BY <1>1 DEF Range
  <2> QED
    BY Zenon, <2>1, <2>2, <2>3
<1>3. Injective(s) /\ b \notin Range(s) => Injective(Append(s, b))
  <2> SUFFICES ASSUME Injective(s), b \notin Range(s),
                      NEW i \in 1..(Len(s) + 1), NEW j \in 1..(Len(s) + 1),
                      Append(s, b)[i] = Append(s, b)[j]
               PROVE  i = j
    BY Zenon, <1>1 DEF Injective
  <2>1. \A k \in 1..Len(s) : s[k] # b
    BY Zenon, <1>1 DEF Range
  <2> QED
    BY <1>1, <2>1 DEF Injective
<1> QED
  BY Zenon, <1>1, <1>2, <1>3

(* log_write: it does not panic, and takes a token for a block it appends. *)
LEMMA LogWrite ==
  ASSUME Counting,
         IInv, boot = "up", NEW p \in Proc, NEW b \in Block, NEW v \in Value,
         log_write(p, b, v)
  PROVE  IInv'
<1> USE LogAssumption
<1>1. pc[p] = "op" /\ Cardinality(wset[p] \cup {b}) <= OpBlocks
  BY Zenon DEF log_write
<1>2. TypeOK
  BY Zenon DEF IInv
<1>3. outstanding >= 1 /\ Len(lh) < LOGBLOCKS
      /\ (<<p, Cardinality(wset[p]) + 1>> \in Tokens \/ b \in wset[p])
  BY Zenon, <1>1, Room
<1>4. ~(Len(lh) >= LOGBLOCKS \/ outstanding < 1)
  BY <1>2, <1>3 DEF TypeOK
<1>5. /\ cache' = [cache EXCEPT ![b] = v] /\ wset' = [wset EXCEPT ![p] = wset[p] \cup {b}]
      /\ UNCHANGED <<home, logarea, head, outstanding, committing, ncommit, tail, boot, pc,
                     chan, target, ops, panic, late, owed>>
  BY Zenon, <1>4 DEF log_write, disk, history
<1>6. \/ b \in Range(lh) /\ lh' = lh /\ pins' = pins
      \/ b \notin Range(lh) /\ lh' = Append(lh, b) /\ pins' = [pins EXCEPT ![b] = pins[b] + 1]
  BY Zenon, <1>4 DEF log_write, bpin
<1>7. /\ lh' \in Seq(Block) /\ Range(lh') = Range(lh) \cup {b}
      /\ \A q \in Block : pins'[q] = IF q = b /\ b \notin Range(lh) THEN pins[q] + 1 ELSE pins[q]
      /\ pins' \in [Block -> Nat]
      /\ Len(lh') = IF b \in Range(lh) THEN Len(lh) ELSE Len(lh) + 1
  <2>1. CASE b \in Range(lh)
    BY Zenon, <1>2, <1>6, <2>1 DEF TypeOK
  <2>2. CASE b \notin Range(lh)
    <3>1. lh \in Seq(Block) /\ pins \in [Block -> Nat]
      BY Zenon, <1>2 DEF TypeOK
    <3>2. lh' = Append(lh, b) /\ pins' = [pins EXCEPT ![b] = pins[b] + 1]
      BY Zenon, <1>6, <2>2
    <3> QED
      BY <2>2, <3>1, <3>2, AppendFacts
  <2> QED
    BY Zenon, <2>1, <2>2
<1>8. TypeOK'
  <2>1. cache' \in [Block -> Value \cup {NotCached}] /\ wset' \in [Proc -> SUBSET Block]
    BY Zenon, <1>2, <1>5 DEF TypeOK
  <2> QED
    BY Zenon, <1>2, <1>5, <1>7, <2>1 DEF TypeOK
<1>9. Control'
  <2>1. OpenOps' = OpenOps
    BY Zenon, <1>5 DEF OpenOps
  <2> QED
    BY Zenon, <1>5, <2>1 DEF IInv, Control
<1>10. Space'
  <2>1. \A q \in Proc : IsFiniteSet(wset'[q])
    BY Zenon, <1>2, <1>5 DEF Counting, CountAdd, IInv, Space, TypeOK
  <2>2. \A q \in Proc : pc'[q] = "op" => wset'[q] \subseteq Range(lh')
    BY Zenon, SMTT(20), <1>2, <1>5, <1>7 DEF IInv, Space, TypeOK
  <2>3. \A q \in Proc : Cardinality(wset[q]) \in Nat /\ Cardinality(wset'[q]) \in Nat
    BY Zenon, <2>1 DEF Counting, CountType, IInv, Space
  <2>4. \A q \in Proc \ {p} : wset'[q] = wset[q]
    BY Zenon, <1>2, <1>5 DEF TypeOK
  <2>5. Cardinality(wset'[p]) = IF b \in wset[p] THEN Cardinality(wset[p])
                                ELSE Cardinality(wset[p]) + 1
    BY Zenon, <1>2, <1>5 DEF Counting, CountAdd, IInv, Space, TypeOK
  <2>6. Tokens' \subseteq Tokens
    <3>1. \A q \in Proc : Cardinality(wset[q]) <= Cardinality(wset'[q])
      BY <2>3, <2>4, <2>5
    <3> QED
      BY SMTT(30), <1>5, <2>3, <3>1 DEF Tokens
  <2>7. b \notin wset[p] => <<p, Cardinality(wset[p]) + 1>> \notin Tokens'
    BY <1>5, <2>3, <2>5 DEF Tokens
  <2>8. b \notin Range(lh) => b \notin wset[p]
    BY Zenon, <1>1 DEF IInv, Space
  <2>9. Len(lh') + Cardinality(Tokens') <= LOGBLOCKS
    <3>1. CASE b \in Range(lh)
      <4>1. Cardinality(Tokens') <= Cardinality(Tokens) /\ Cardinality(Tokens') \in Nat
        BY Zenon, <2>6, FiniteCounts DEF Counting, CountSubset, CountType
      <4> QED
        BY <1>2, <1>7, <3>1, <4>1, FiniteCounts DEF IInv, Space, TypeOK
    <3>2. CASE b \notin Range(lh)
      <4> DEFINE t == <<p, Cardinality(wset[p]) + 1>>
      <4>1. t \in Tokens /\ t \notin Tokens'
        BY Zenon, <1>3, <2>7, <2>8, <3>2
      <4> HIDE DEF t
      <4>2. Tokens' \in SUBSET (Tokens \ {t})
        BY Zenon, <2>6, <4>1
      <4>3. IsFiniteSet(Tokens \ {t}) /\ Cardinality(Tokens \ {t}) = Cardinality(Tokens) - 1
        BY Zenon, <4>1, FiniteCounts DEF Counting, CountRemove
      <4>4. Cardinality(Tokens') <= Cardinality(Tokens) - 1 /\ Cardinality(Tokens') \in Nat
        BY <4>2, <4>3 DEF Counting, CountSubset, CountType
      <4> QED
        BY SMTT(20), <1>2, <1>7, <3>2, <4>4, FiniteCounts DEF IInv, Space, TypeOK
    <3> QED
      BY Zenon, SMTT(20), <3>1, <3>2
  <2> QED
    BY Zenon, <1>5, <2>1, <2>2, <2>9 DEF IInv, Space
<1>11. Data'
  <2>1. /\ ~Installing /\ ~Writing /\ head = <<>>
        /\ \A q \in Block : Pending(q) <=> q \in Range(lh)
    BY Zenon, <1>1, OpenMeansNoCommit
  <2>2. ~Installing' /\ ~Writing'
    BY Zenon, <1>5, <2>1 DEF Installing, Writing
  <2>3. \A q \in Block : Pending(q)' <=> q \in Range(lh')
    BY Zenon, <2>2 DEF Pending, Range
  <2>4. Injective(lh')
    <3>1. lh \in Seq(Block) /\ Injective(lh)
      BY Zenon, <1>2 DEF TypeOK, IInv, Data, Headers
    <3> QED
      BY Zenon, <1>6, <3>1, AppendFacts
  <2>5. \A q \in Block : q # b => Contents(q)' = Contents(q)
    BY Zenon, <1>2, <1>5 DEF Contents, TypeOK
  <2>6. ASSUME NEW q \in Block
        PROVE  /\ pins'[q] = IF Pending(q)' THEN 1 ELSE 0
               /\ Contents(q)' # home'[q] => Pending(q)'
    <3>1. pins[q] = IF q \in Range(lh) THEN 1 ELSE 0
      BY Zenon, <2>1 DEF IInv, Data, PinsFit
    <3>2. pins'[q] = IF q \in Range(lh') THEN 1 ELSE 0
      BY <1>7, <3>1
    <3>3. Contents(q) # home[q] => q \in Range(lh)
      BY Zenon, <2>1 DEF IInv, Data, PinsFit
    <3>4. Contents(q)' # home[q] => q \in Range(lh')
      BY Zenon, <1>7, <2>5, <3>3
    <3> QED
      BY Zenon, <1>5, <2>3, <3>2, <3>4
  <2>11. Headers'
    BY Zenon, SMTT(20), <1>5, <2>1, <2>2, <2>4, <2>6 DEF IInv, Data, Headers
  <2>12. AtBoot'
    BY Zenon, SMTT(20), <1>5, <2>1, <2>2, <2>4, <2>6 DEF IInv, Data, AtBoot
  <2>13. Installed'
    BY Zenon, SMTT(20), <1>5, <2>1, <2>2, <2>4, <2>6 DEF IInv, Data, Installed
  <2>14. Logged'
    BY Zenon, <1>5, <2>1, <2>2, <2>4, <2>6 DEF IInv, Data, Logged
  <2>15. PinsFit'
    BY Zenon, <1>5, <2>1, <2>2, <2>4, <2>6 DEF IInv, Data, PinsFit
  <2> QED
    BY Zenon, <2>11, <2>12, <2>13, <2>14, <2>15 DEF Data
<1> QED
  BY Zenon, <1>8, <1>9, <1>10, <1>11 DEF IInv

(* end_op: the tokens of the operation are given back. *)
LEMMA EndOp ==
  ASSUME Counting,
         IInv, boot = "up", NEW p \in Proc, end_op(p)
  PROVE  IInv'
<1>1. pc[p] = "op" /\ TypeOK
  BY Zenon, SMTT(20) DEF end_op, IInv
<1>2. p \in OpenOps /\ outstanding = Cardinality(OpenOps) /\ outstanding \in Nat
  BY Zenon, <1>1 DEF OpenOps, IInv, Control, TypeOK
<1>3. outstanding >= 1
  BY <1>2, FiniteCounts DEF Counting, CountEmpty
<1>4. /\ ~committing /\ ~Installing /\ ~Writing /\ head = <<>>
      /\ \A b \in Block : Pending(b) <=> b \in Range(lh)
  BY Zenon, <1>1, OpenMeansNoCommit
<1>5. /\ outstanding' = outstanding - 1 /\ outstanding' \in Nat /\ panic' = panic
      /\ UNCHANGED <<home, logarea, head, cache, pins, lh, ncommit, boot, target, wset, ops, owed>>
  BY <1>1, <1>2, <1>3, <1>4 DEF end_op, disk, TypeOK
<1>6. PICK l \in {"write_log", "end_commit", "idle"} :
        /\ pc' = [pc EXCEPT ![p] = l]
        /\ IF outstanding' = 0
             THEN l # "idle" /\ committing' = TRUE /\ tail' = 0 /\ chan' = chan
             ELSE l = "idle" /\ committing' = committing /\ tail' = tail /\ chan' = {}
  BY Zenon DEF end_op, Goto, wakeup
<1>7. \A q \in Proc : pc'[q] = IF q = p THEN l ELSE pc[q]
  BY Zenon, <1>1, <1>6 DEF TypeOK
<1>8. TypeOK'
  <2>1. pc' \in [Proc -> PcValues]
    BY Zenon, <1>1, <1>6 DEF TypeOK, PcValues
  <2>2. late' \in BOOLEAN
    BY Zenon, <1>1 DEF TypeOK, end_op
  <2>3. committing' \in BOOLEAN /\ tail' \in Nat /\ chan' \subseteq Proc
    <3>1. CASE outstanding' = 0
      BY <1>1, <1>6, <3>1 DEF TypeOK
    <3>2. CASE outstanding' # 0
      BY Zenon, <1>1, <1>6, <3>2 DEF TypeOK
    <3> QED
      BY Zenon, <3>1, <3>2
  <2> QED
    BY Zenon, <1>1, <1>5, <2>1, <2>2, <2>3 DEF TypeOK
<1>9. OpenOps' = OpenOps \ {p} /\ Cardinality(OpenOps') = outstanding'
  <2>1. OpenOps' = OpenOps \ {p}
    BY Zenon, <1>7 DEF OpenOps
  <2> QED
    BY Zenon, <1>2, <1>5, <2>1, FiniteCounts DEF Counting, CountRemove
<1>10. Control'
  <2>1. outstanding' = 0 => OpenOps' = {}
    BY Zenon, <1>9, FiniteCounts DEF Counting, CountRemove, CountEmpty
  <2>2. \A q \in Proc : pc[q] \notin Committer
    BY Zenon, <1>4 DEF IInv, Control
  <2>3. "idle" \notin Committer
    BY Zenon DEF Committer
  <2> QED
    BY Zenon, <1>4, <1>5, <1>6, <1>7, <1>9, <2>1, <2>2, <2>3 DEF Control
<1>11. Space'
  <2>1. Tokens' \in SUBSET Tokens
    BY Zenon, <1>5, <1>7 DEF Tokens
  <2>2. Cardinality(Tokens') <= Cardinality(Tokens) /\ Cardinality(Tokens') \in Nat
    BY Zenon, <2>1, FiniteCounts DEF Counting, CountSubset, CountType
  <2>3. Len(lh) + Cardinality(Tokens') <= LOGBLOCKS
    BY <1>1, <2>2, FiniteCounts, LogAssumption DEF IInv, Space, TypeOK
  <2> QED
    BY Zenon, <1>5, <1>7, <2>3 DEF IInv, Space
<1>12. Data'
  <2>1. ~Installing'
    BY Zenon, <1>4, <1>7 DEF Installing
  <2>2. \A b \in Block : Pending(b)' <=> Pending(b)
    BY Zenon, <1>4, <1>5, <2>1 DEF Pending
  <2>3. Writing' => tail' = 0
    BY Zenon, <1>4, <1>6, <1>7 DEF Writing
  <2>4. \A b \in Block : Contents(b)' = Contents(b)
    BY Zenon, <1>5 DEF Contents
  <2>5. DOMAIN lh \subseteq Nat \ {0} /\ Len(lh) \in Nat
    BY <1>1 DEF TypeOK
  <2>11. Headers'
    BY Zenon, SMTT(20), <1>4, <1>5, <2>1, <2>2, <2>3, <2>4, <2>5 DEF IInv, Data, Headers
  <2>12. AtBoot'
    BY Zenon, <1>4, <1>5, <2>1, <2>2, <2>3, <2>4, <2>5 DEF IInv, Data, AtBoot
  <2>13. Installed'
    BY Zenon, <1>4, <1>5, <2>1, <2>2, <2>3, <2>4, <2>5 DEF IInv, Data, Installed
  <2>14. Logged'
    BY <1>4, <1>5, <2>1, <2>2, <2>3, <2>4, <2>5 DEF IInv, Data, Logged
  <2>15. PinsFit'
    BY Zenon, <1>4, <1>5, <2>1, <2>2, <2>3, <2>4, <2>5 DEF IInv, Data, PinsFit
  <2> QED
    BY Zenon, <2>11, <2>12, <2>13, <2>14, <2>15 DEF Data
<1> QED
  BY Zenon, <1>8, <1>10, <1>11, <1>12 DEF IInv

----------------------------------------------------------------------------
(* commit() runs alone: the other processes neither commit nor are in an    *)
(* operation, so nothing but pc[p] says whether blocks are being installed. *)
LEMMA CommitAlone ==
  ASSUME IInv, NEW p \in Proc, pc[p] \in Committer
  PROVE  /\ committing /\ boot = "up"
         /\ \A q \in Proc : pc[q] # "op" /\ (q # p => pc[q] \notin Committer)
         /\ Tokens = {}
         /\ Installing <=> pc[p] = "install_trans"
         /\ Writing <=> pc[p] = "write_log"
<1>1. committing /\ OpenOps = {} /\ (boot # "up" => pc[p] = "idle")
  BY Zenon DEF IInv, Control
<1>2. boot = "up"
  BY Zenon, <1>1 DEF Committer
<1>3. \A q \in Proc : pc[q] # "op" /\ (q # p => pc[q] \notin Committer)
  BY Zenon, <1>1 DEF IInv, Control, OpenOps
<1>4. Tokens = {}
  BY Zenon, <1>3 DEF Tokens
<1>5. (Installing <=> pc[p] = "install_trans") /\ (Writing <=> pc[p] = "write_log")
  BY Zenon, <1>3 DEF Installing, Writing, Committer
<1> QED
  BY Zenon, <1>1, <1>2, <1>3, <1>4, <1>5

(* What a step of commit() that leaves the counters alone keeps. *)
LEMMA CommitControl ==
  ASSUME IInv, NEW p \in Proc, pc[p] \in Committer, NEW l \in PcValues \ {"op"},
         pc' = [pc EXCEPT ![p] = l], outstanding' = outstanding, boot' = boot,
         committing' <=> l \in Committer
  PROVE  /\ Control' /\ Tokens' = {} /\ pc' \in [Proc -> PcValues]
         /\ Installing' <=> l = "install_trans"
         /\ Writing' <=> l = "write_log"
<1>1. /\ committing /\ boot = "up" /\ pc \in [Proc -> PcValues]
      /\ \A q \in Proc : pc[q] # "op" /\ (q # p => pc[q] \notin Committer)
  BY Zenon, CommitAlone DEF IInv, TypeOK
<1>2. \A q \in Proc : pc'[q] = IF q = p THEN l ELSE pc[q]
  BY Zenon, <1>1
<1>3. OpenOps = {} /\ OpenOps' = {} /\ Tokens' = {}
  BY Zenon, <1>1, <1>2 DEF OpenOps, Tokens
<1>4. Control'
  BY Zenon, <1>1, <1>2, <1>3 DEF IInv, Control
<1>5. (Installing' <=> l = "install_trans") /\ (Writing' <=> l = "write_log")
  BY Zenon, <1>1, <1>2 DEF Installing, Writing, Committer
<1> QED
  BY Zenon, <1>1, <1>3, <1>4, <1>5

LEMMA CommitSpace ==
  ASSUME Counting,
         IInv, NEW p \in Proc, pc[p] \in Committer, Tokens' = {},
         \A q \in Proc : pc'[q] # "op",
         wset' = wset, panic' = panic, Len(lh') \in Nat, Len(lh') <= LOGBLOCKS,
         Len(head') <= LOGBLOCKS
  PROVE  Space'
<1>1. Cardinality(Tokens') = 0
  BY Zenon DEF Counting, CountEmpty
<1> QED
  BY <1>1 DEF IInv, Space

LEMMA WriteLog ==
  ASSUME Counting,
         IInv, NEW p \in Proc, write_log(p)
  PROVE  IInv'
<1> DEFINE k == tail + 1
<1>1. pc[p] = "write_log" /\ pc[p] \in Committer /\ tail < Len(lh) /\ TypeOK
  BY Zenon DEF write_log, Committer, IInv
<1>2. /\ committing /\ boot = "up" /\ Writing /\ ~Installing
      /\ \A q \in Proc : pc[q] # "op" /\ (q # p => pc[q] \notin Committer)
      /\ Tokens = {}
  BY Zenon, <1>1, CommitAlone
<1>3. k \in DOMAIN lh /\ k \in 1..LOGBLOCKS /\ lh[k] \in Block /\ tail \in Nat
  BY <1>1, LogFits DEF TypeOK
<1>4. /\ logarea' = [logarea EXCEPT ![k] = Contents(lh[k])]
      /\ cache' = [cache EXCEPT ![lh[k]] = Contents(lh[k])]
      /\ tail' = k
      /\ UNCHANGED <<home, head, pins, lh, outstanding, committing, ncommit, boot,
                     pc, chan, target, wset, ops, panic, late, owed>>
  BY Zenon DEF write_log, history
<1>5. Contents(lh[k]) \in Value
  BY Zenon, <1>1, <1>3 DEF TypeOK, Contents
<1>6. TypeOK'
  <2>1. logarea' \in [1..LOGBLOCKS -> Value] /\ cache' \in [Block -> Value \cup {NotCached}]
    BY Zenon, <1>1, <1>4, <1>5 DEF TypeOK
  <2> QED
    BY <1>1, <1>3, <1>4, <2>1 DEF TypeOK
<1>7. Control' /\ Tokens' = Tokens /\ Installing' = Installing /\ Writing' = Writing
  BY Zenon, <1>4 DEF IInv, Control, OpenOps, Tokens, Installing, Writing
<1>8. Space'
  BY Zenon, <1>4, <1>7 DEF IInv, Space
<1>9. \A b \in Block : Contents(b)' = Contents(b)
  BY Zenon, <1>1, <1>3, <1>4, <1>5, LogAssumption DEF Contents, TypeOK
<1>10. \A i \in DOMAIN lh : i <= k => logarea'[i] = Contents(lh[i])
  <2> SUFFICES ASSUME NEW i \in DOMAIN lh, i <= k PROVE logarea'[i] = Contents(lh[i])
    BY Zenon
  <2>1. i \in 1..LOGBLOCKS
    BY LogFits
  <2>2. CASE i = k
    BY Zenon, <1>1, <1>3, <1>4, <2>2 DEF TypeOK
  <2>3. CASE i # k
    <3>1. i <= tail
      BY <1>3, <2>1, <2>3
    <3>2. logarea[i] = Contents(lh[i])
      BY Zenon, <1>2, <3>1 DEF IInv, Data, Logged
    <3> QED
      BY Zenon, <1>1, <1>4, <2>1, <2>3, <3>2 DEF TypeOK
  <2> QED
    BY Zenon, <2>2, <2>3
<1>11. Data'
  <2>1. \A b \in Block : Pending(b)' <=> Pending(b)
    BY Zenon, <1>2, <1>4, <1>7 DEF Pending
  <2>2. \A i \in DOMAIN lh : lh[i] \in Block
    BY Zenon, LogFits
  <2>3. k <= Len(lh)
    BY <1>1, <1>3, LogFits
  <2>11. Headers'
    BY Zenon, <1>2, <1>4, <1>7, <1>9, <1>10, <2>1, <2>2, <2>3 DEF IInv, Data, Headers
  <2>12. AtBoot'
    BY Zenon, <1>2, <1>4, <1>7, <1>9, <1>10, <2>1, <2>2, <2>3 DEF IInv, Data, AtBoot
  <2>13. Installed'
    BY Zenon, <1>2, <1>4, <1>7, <1>9, <1>10, <2>1, <2>2, <2>3 DEF IInv, Data, Installed
  <2>14. Logged'
    BY Zenon, <1>2, <1>4, <1>7, <1>9, <1>10, <2>1, <2>2, <2>3 DEF IInv, Data, Logged
  <2>15. PinsFit'
    BY Zenon, <1>2, <1>4, <1>7, <1>9, <1>10, <2>1, <2>2, <2>3 DEF IInv, Data, PinsFit
  <2> QED
    BY Zenon, <2>11, <2>12, <2>13, <2>14, <2>15 DEF Data
<1> QED
  BY Zenon, <1>6, <1>7, <1>8, <1>11 DEF IInv

(* write_head: all of the log area is written, so the header may name it. *)
LEMMA WriteHead ==
  ASSUME Counting,
         IInv, NEW p \in Proc, write_head(p)
  PROVE  IInv'
<1>1. pc[p] = "write_log" /\ pc[p] \in Committer /\ tail = Len(lh) /\ TypeOK
  BY Zenon DEF write_head, LoopDone, Committer, IInv
<1>2. /\ committing /\ boot = "up" /\ Writing /\ ~Installing
      /\ \A q \in Proc : pc[q] # "op"
  BY Zenon, <1>1, CommitAlone
<1>3. /\ head' = lh /\ tail' = 0 /\ late' = FALSE /\ owed' = {}
      /\ pc' = [pc EXCEPT ![p] = "install_trans"]
      /\ UNCHANGED <<home, logarea, cache, pins, lh, outstanding, committing,
                     ncommit, boot, chan, target, wset, ops, panic>>
  BY Zenon DEF write_head, Goto
<1>4. "install_trans" \in PcValues \ {"op"} /\ "install_trans" \in Committer
  BY Zenon DEF PcValues, Committer
<1>5. Control' /\ Tokens' = {} /\ pc' \in [Proc -> PcValues] /\ Installing' /\ ~Writing'
  BY Zenon, <1>1, <1>2, <1>3, <1>4, CommitControl
<1>6. TypeOK'
  BY Zenon, <1>1, <1>3, <1>5 DEF TypeOK
<1>7. Space'
  <2>1. \A q \in Proc : pc'[q] # "op"
    BY Zenon, <1>1, <1>2, <1>3 DEF TypeOK
  <2> QED
    BY Zenon, <1>1, <1>3, <1>5, <2>1, LogFits, CommitSpace
<1>8. \A b \in Block : Contents(b)' = Contents(b)
  BY Zenon, <1>3 DEF Contents
<1>9. Data'
  <2>1. DOMAIN lh = 1..Len(lh) /\ Len(lh) \in Nat /\ \A i \in DOMAIN lh : lh[i] \in Block
    BY Zenon, LogFits
  <2>2. \A i \in DOMAIN lh : logarea[i] = Contents(lh[i])
    BY <1>1, <1>2, <2>1 DEF IInv, Data, Logged
  <2>3. \A b \in Block : Pending(b)' <=> Pending(b)
    BY <1>2, <1>3, <1>5, <2>1 DEF Pending
  <2>4. \A i \in DOMAIN lh : ~(i <= 0)
    BY <2>1
  <2>11. Headers'
    BY Zenon, <1>2, <1>3, <1>5, <1>8, <2>1, <2>2, <2>3, <2>4 DEF IInv, Data, Headers
  <2>12. AtBoot'
    BY Zenon, <1>2, <1>3, <1>5, <1>8, <2>1, <2>2, <2>3, <2>4 DEF IInv, Data, AtBoot
  <2>13. Installed'
    BY <1>2, <1>3, <1>5, <1>8, <2>1, <2>2, <2>3, <2>4 DEF IInv, Data, Installed
  <2>14. Logged'
    BY Zenon, <1>2, <1>3, <1>5, <1>8, <2>1, <2>2, <2>3, <2>4 DEF IInv, Data, Logged
  <2>15. PinsFit'
    BY Zenon, <1>2, <1>3, <1>5, <1>8, <2>1, <2>2, <2>3, <2>4 DEF IInv, Data, PinsFit
  <2> QED
    BY Zenon, <2>11, <2>12, <2>13, <2>14, <2>15 DEF Data
<1> QED
  BY Zenon, <1>5, <1>6, <1>7, <1>9 DEF IInv

(* install_trans: one pending block goes home and loses its pin. *)
LEMMA InstallTrans ==
  ASSUME Counting,
         IInv, NEW p \in Proc, install_trans(p)
  PROVE  IInv'
<1> DEFINE k == tail + 1
<1>1. pc[p] = "install_trans" /\ pc[p] \in Committer /\ tail < Len(lh) /\ TypeOK
  BY Zenon DEF install_trans, Install, Committer, IInv
<1>2. committing /\ boot = "up" /\ ~Writing /\ Installing
  BY Zenon, <1>1, CommitAlone
<1>3. k \in DOMAIN lh /\ k \in 1..LOGBLOCKS /\ lh[k] \in Block /\ tail \in Nat /\ k <= Len(lh)
  BY <1>1, LogFits DEF TypeOK
<1>4. /\ home' = [home EXCEPT ![lh[k]] = logarea[k]]
      /\ cache' = [cache EXCEPT ![lh[k]] = logarea[k]]
      /\ tail' = k
      /\ pins' = [pins EXCEPT ![lh[k]] = pins[lh[k]] - 1]
      /\ UNCHANGED <<logarea, head, lh, outstanding, committing, ncommit, boot,
                     pc, chan, target, wset, ops, panic, late, owed>>
  BY Zenon DEF install_trans, Install, bunpin, history
<1>5. logarea[k] \in Value /\ logarea[k] = Contents(lh[k])
  BY Zenon, <1>1, <1>2, <1>3 DEF TypeOK, IInv, Data, Logged
<1>6. Pending(lh[k]) /\ pins[lh[k]] = 1
  <2>1. Pending(lh[k])
    BY <1>3 DEF Pending
  <2> QED
    BY Zenon, <1>2, <1>3, <2>1 DEF IInv, Data, PinsFit
<1>7. TypeOK'
  <2>1. /\ home' \in [Block -> Value] /\ cache' \in [Block -> Value \cup {NotCached}]
        /\ pins' \in [Block -> Nat]
    BY <1>1, <1>4, <1>5, <1>6 DEF TypeOK
  <2> QED
    BY <1>1, <1>3, <1>4, <2>1 DEF TypeOK
<1>8. Control' /\ Tokens' = Tokens /\ Installing' = Installing /\ Writing' = Writing
  BY Zenon, <1>4 DEF IInv, Control, OpenOps, Tokens, Installing, Writing
<1>9. Space'
  BY Zenon, <1>4, <1>8 DEF IInv, Space
<1>10. \A b \in Block : Contents(b)' = Contents(b)
  <2> SUFFICES ASSUME NEW b \in Block PROVE Contents(b)' = Contents(b)
    BY Zenon
  <2>1. CASE b = lh[k]
    BY Zenon, <1>1, <1>3, <1>4, <1>5, <2>1, LogAssumption DEF Contents, TypeOK
  <2>2. CASE b # lh[k]
    BY Zenon, <1>1, <1>3, <1>4, <2>2 DEF Contents, TypeOK
  <2> QED
    BY Zenon, <2>1, <2>2
<1>11. Data'
  <2>1. /\ DOMAIN lh = 1..Len(lh) /\ \A i \in DOMAIN lh : lh[i] \in Block
        /\ Injective(lh) /\ Len(lh) \in Nat
    BY Zenon, LogFits DEF IInv, Data, Headers
  <2>2. \A b \in Block : Pending(b)' <=> Pending(b) /\ b # lh[k]
    BY <1>2, <1>3, <1>4, <1>8, <2>1 DEF Pending, Injective
  <2>3. \A i \in DOMAIN lh : i <= k => home'[lh[i]] = logarea[i]
    <3> SUFFICES ASSUME NEW i \in DOMAIN lh, i <= k PROVE home'[lh[i]] = logarea[i]
      BY Zenon
    <3>1. CASE i = k
      BY Zenon, <1>1, <1>3, <1>4, <3>1 DEF TypeOK
    <3>2. CASE i # k
      <4>1. i <= tail /\ lh[i] # lh[k]
        BY <1>3, <2>1, <3>2 DEF Injective
      <4>2. home[lh[i]] = logarea[i]
        BY Zenon, <1>2, <4>1 DEF IInv, Data, Installed
      <4> QED
        BY Zenon, <1>1, <1>4, <2>1, <4>1, <4>2 DEF TypeOK
    <3> QED
      BY Zenon, <3>1, <3>2
  <2>4. ASSUME NEW b \in Block
        PROVE  /\ pins'[b] = IF Pending(b)' THEN 1 ELSE 0
               /\ Contents(b)' # home'[b] => Pending(b)'
    <3>1. /\ pins[b] = IF Pending(b) THEN 1 ELSE 0
          /\ Contents(b) # home[b] => Pending(b)
      BY Zenon, <1>2 DEF IInv, Data, PinsFit
    <3>2. CASE b = lh[k]
      BY <1>1, <1>4, <1>5, <1>6, <1>10, <2>2, <3>2 DEF TypeOK
    <3>3. CASE b # lh[k]
      BY Zenon, <1>1, <1>4, <1>10, <2>2, <3>1, <3>3 DEF TypeOK
    <3> QED
      BY Zenon, <3>2, <3>3
  <2>11. Headers'
    BY Zenon, <1>2, <1>3, <1>4, <1>8, <1>10, <2>1, <2>3, <2>4 DEF IInv, Data, Headers
  <2>12. AtBoot'
    BY Zenon, <1>2, <1>3, <1>4, <1>8, <1>10, <2>1, <2>3, <2>4 DEF IInv, Data, AtBoot
  <2>13. Installed'
    BY Zenon, <1>2, <1>3, <1>4, <1>8, <1>10, <2>1, <2>3, <2>4 DEF IInv, Data, Installed
  <2>14. Logged'
    BY Zenon, <1>2, <1>3, <1>4, <1>8, <1>10, <2>1, <2>3, <2>4 DEF IInv, Data, Logged
  <2>15. PinsFit'
    BY Zenon, <1>2, <1>3, <1>4, <1>8, <1>10, <2>1, <2>3, <2>4 DEF IInv, Data, PinsFit
  <2> QED
    BY Zenon, <2>11, <2>12, <2>13, <2>14, <2>15 DEF Data
<1> QED
  BY Zenon, <1>7, <1>8, <1>9, <1>11 DEF IInv

(* The end of commit(): every block is home, so header and log are cleared. *)
LEMMA ClearHead ==
  ASSUME Counting,
         IInv, NEW p \in Proc, clear_head(p)
  PROVE  IInv'
<1>1. pc[p] = "install_trans" /\ pc[p] \in Committer /\ tail = Len(lh) /\ TypeOK
  BY Zenon DEF clear_head, LoopDone, Committer, IInv
<1>2. committing /\ boot = "up" /\ Installing /\ \A q \in Proc : pc[q] # "op"
  BY Zenon, <1>1, CommitAlone
<1>3. /\ lh' = <<>> /\ head' = <<>> /\ pc' = [pc EXCEPT ![p] = "end_commit"]
      /\ UNCHANGED <<home, logarea, cache, pins, outstanding, committing, ncommit,
                     tail, boot, chan, target, wset, ops, panic, late, owed>>
  BY Zenon DEF clear_head, Goto, history
<1>4. "end_commit" \in PcValues \ {"op"} /\ "end_commit" \in Committer
  BY Zenon DEF PcValues, Committer
<1>5. Control' /\ Tokens' = {} /\ pc' \in [Proc -> PcValues] /\ ~Installing' /\ ~Writing'
  BY Zenon, <1>1, <1>2, <1>3, <1>4, CommitControl
<1>6. TypeOK'
  BY <1>1, <1>3, <1>5 DEF TypeOK
<1>7. Space'
  <2>1. \A q \in Proc : pc'[q] # "op"
    BY Zenon, <1>1, <1>2, <1>3 DEF TypeOK
  <2> QED
    BY <1>1, <1>3, <1>5, <2>1, LogAssumption, CommitSpace
<1>8. Data'
  <2>1. \A b \in Block : ~Pending(b) /\ ~Pending(b)'
    BY <1>1, <1>2, <1>3, LogFits DEF Pending
  <2>2. \A b \in Block : Contents(b)' = Contents(b)
    BY Zenon, <1>3 DEF Contents
  <2>11. Headers'
    BY <1>2, <1>3, <1>5, <2>1, <2>2 DEF IInv, Data, Headers, Injective
  <2>12. AtBoot'
    BY Zenon, <1>2, <1>3, <1>5, <2>1, <2>2 DEF IInv, Data, AtBoot, Injective
  <2>13. Installed'
    BY Zenon, <1>2, <1>3, <1>5, <2>1, <2>2 DEF IInv, Data, Installed, Injective
  <2>14. Logged'
    BY Zenon, <1>2, <1>3, <1>5, <2>1, <2>2 DEF IInv, Data, Logged, Injective
  <2>15. PinsFit'
    BY Zenon, <1>2, <1>3, <1>5, <2>1, <2>2 DEF IInv, Data, PinsFit, Injective
  <2> QED
    BY Zenon, <2>11, <2>12, <2>13, <2>14, <2>15 DEF Data
<1> QED
  BY Zenon, <1>5, <1>6, <1>7, <1>8 DEF IInv

LEMMA EndCommit ==
  ASSUME Counting,
         IInv, NEW p \in Proc, end_commit(p)
  PROVE  IInv'
<1>1. pc[p] = "end_commit" /\ pc[p] \in Committer /\ TypeOK
  BY Zenon DEF end_commit, Committer, IInv
<1>2. boot = "up" /\ ~Installing /\ ~Writing /\ \A q \in Proc : pc[q] # "op"
  BY Zenon, <1>1, CommitAlone
<1>3. /\ committing' = FALSE /\ ncommit' = ncommit + 1 /\ chan' = {}
      /\ pc' = [pc EXCEPT ![p] = "idle"]
      /\ UNCHANGED <<home, logarea, head, cache, pins, lh, outstanding, tail, boot,
                     target, wset, ops, panic, late, owed>>
  BY Zenon DEF end_commit, Goto, wakeup, disk, history
<1>4. "idle" \in PcValues \ {"op"} /\ "idle" \notin Committer
  BY Zenon DEF PcValues, Committer
<1>5. Control' /\ Tokens' = {} /\ pc' \in [Proc -> PcValues] /\ ~Installing' /\ ~Writing'
  <2>1. committing' <=> "idle" \in Committer
    BY Zenon, <1>3, <1>4
  <2> QED
    BY Zenon, <1>1, <1>3, <1>4, <2>1, CommitControl DEF PcValues, Committer
<1>6. TypeOK'
  <2>1. ncommit' \in Nat /\ chan' \subseteq Proc
    BY <1>1, <1>3 DEF TypeOK
  <2>2. committing' \in BOOLEAN
    BY <1>3, Zenon
  <2> QED
    BY Zenon, <1>1, <1>3, <1>5, <2>1, <2>2 DEF TypeOK
<1>7. Space'
  <2>1. \A q \in Proc : pc'[q] # "op"
    BY Zenon, <1>1, <1>2, <1>3 DEF TypeOK
  <2>2. Len(head) <= LOGBLOCKS
    BY Zenon DEF IInv, Space
  <2> QED
    BY Zenon, <1>1, <1>3, <1>5, <2>1, <2>2, LogFits, CommitSpace
<1>8. Data'
  <2>1. \A b \in Block : Contents(b)' = Contents(b)
    BY Zenon, <1>3 DEF Contents
  <2> QED
    BY Zenon, <1>2, <1>3, <1>5, <2>1, DataFrame
<1> QED
  BY Zenon, <1>5, <1>6, <1>7, <1>8 DEF IInv

(* A step that changes only the cache, and no contents. *)
LEMMA CacheStep ==
  ASSUME Counting,
         IInv, cache' \in [Block -> Value \cup {NotCached}],
         \A b \in Block : Contents(b)' = Contents(b),
         UNCHANGED <<home, logarea, head, pins, lh, outstanding, committing, ncommit, tail,
                     boot, pc, chan, target, wset, ops, panic, late, owed>>
  PROVE  IInv'
<1>1. TypeOK'
  BY Zenon DEF IInv, TypeOK
<1>2. /\ OpenOps' = OpenOps /\ Tokens' = Tokens /\ Installing' = Installing
      /\ Writing' = Writing
  BY Zenon DEF OpenOps, Tokens, Installing, Writing
<1>3. Control' /\ Space'
  BY Zenon, <1>2 DEF IInv, Control, Space
<1>4. Data'
  BY Zenon, <1>2, DataFrame
<1> QED
  BY Zenon, <1>1, <1>3, <1>4 DEF IInv

LEMMA DirtyPin ==
  ASSUME IInv, boot = "up", NEW b \in Block, Contents(b) # home[b]
  PROVE  pins[b] = 1
<1>1. pins[b] = (IF Pending(b) THEN 1 ELSE 0) /\ Pending(b)
  BY Zenon DEF IInv, Data, PinsFit
<1> QED
  BY Zenon, <1>1

(* Eviction loses nothing: an unpinned buffer is clean. *)
LEMMA EvictOrBread ==
  ASSUME Counting,
         IInv, boot = "up", NEW b \in Block, Evict(b) \/ Bread(b)
  PROVE  IInv' /\ \A q \in Block : Contents(q)' = Contents(q)
<1>1. /\ UNCHANGED <<home, logarea, head, pins, lh, outstanding, committing, ncommit, tail,
                     boot, pc, chan, target, wset, ops, panic, late, owed>>
      /\ cache \in [Block -> Value \cup {NotCached}] /\ home \in [Block -> Value]
  BY Zenon DEF Evict, Bread, disk, history, IInv, TypeOK
<1>2. CASE Evict(b)
  <2>1. pins[b] = 0 /\ cache' = [cache EXCEPT ![b] = NotCached]
    BY Zenon, <1>2 DEF Evict
  <2>2. Contents(b) = home[b]
    BY <2>1, DirtyPin
  <2>3. \A q \in Block : Contents(q)' = Contents(q)
    BY Zenon, <1>1, <2>1, <2>2 DEF Contents
  <2> QED
    BY Zenon, <1>1, <2>1, <2>3, CacheStep
<1>3. CASE Bread(b)
  <2>1. cache[b] = NotCached /\ cache' = [cache EXCEPT ![b] = home[b]]
    BY Zenon, <1>3 DEF Bread
  <2>2. \A q \in Block : Contents(q)' = Contents(q)
    BY Zenon, <1>1, <2>1, LogAssumption DEF Contents
  <2> QED
    BY Zenon, <1>1, <2>1, <2>2, CacheStep
<1> QED
  BY Zenon, <1>2, <1>3

(* After a crash only the disk counts; its header still fits the log area. *)
LEMMA CrashInv ==
  ASSUME Counting,
         IInv, Crash
  PROVE  IInv'
<1> USE LogAssumption
<1>1. TypeOK /\ UNCHANGED <<home, logarea, head>>
  BY Zenon DEF Crash, disk, IInv
<1>2. TypeOK'
  <2>1. cache' \in [Block -> Value \cup {NotCached}] /\ pins' \in [Block -> Nat]
    BY Zenon DEF Crash
  <2>2. pc' \in [Proc -> PcValues] /\ target' \in [Proc -> Nat]
        /\ wset' \in [Proc -> SUBSET Block]
    BY Zenon DEF Crash, PcValues
  <2>3. lh' \in Seq(Block) /\ chan' \subseteq Proc /\ owed' \subseteq Proc
    BY DEF Crash
  <2>4. committing' \in BOOLEAN /\ panic' \in BOOLEAN /\ late' \in BOOLEAN
    BY Zenon DEF Crash
  <2> QED
    BY Zenon, <1>1, <2>1, <2>2, <2>3, <2>4 DEF Crash, TypeOK
<1>3. OpenOps' = {} /\ Tokens' = {} /\ ~Installing' /\ ~Writing'
  BY Zenon DEF Crash, OpenOps, Tokens, Installing, Writing
<1>4. Control'
  BY Zenon, <1>3 DEF Counting, CountEmpty, Crash, Control, Committer
<1>5. Space'
  BY <1>1, <1>3 DEF Counting, CountEmpty, Crash, Space, IInv
<1>6. Data'
  <2>1. Headers'
    BY <1>1, <1>3 DEF IInv, Data, Headers, Crash, Injective, Contents
  <2>2. AtBoot'
    BY Zenon, <1>1, <1>3 DEF IInv, Data, AtBoot, Crash, Injective, Contents
  <2>3. Installed'
    BY Zenon, <1>1, <1>3 DEF IInv, Data, Installed, Crash, Injective, Contents
  <2>4. Logged'
    BY Zenon, SMTT(20), <1>1, <1>3 DEF IInv, Data, Logged, Crash, Injective, Contents
  <2>5. PinsFit'
    BY Zenon, <1>1, <1>3 DEF IInv, Data, PinsFit, Crash, Injective, Contents
  <2> QED
    BY Zenon, <2>1, <2>2, <2>3, <2>4, <2>5 DEF Data
<1> QED
  BY Zenon, <1>2, <1>4, <1>5, <1>6 DEF IInv

(* During recovery no process runs. *)
LEMMA Booting ==
  ASSUME IInv, boot # "up"
  PROVE  /\ OpenOps = {} /\ Tokens = {} /\ ~Installing /\ ~Writing
         /\ \A p \in Proc : pc[p] = "idle"
<1>1. \A p \in Proc : pc[p] = "idle"
  BY Zenon DEF IInv, Control
<1> QED
  BY Zenon, <1>1 DEF OpenOps, Tokens, Installing, Writing

LEMMA ReadHead ==
  ASSUME Counting,
         IInv, read_head
  PROVE  IInv'
<1>1. /\ boot = "read_head" /\ lh' = head /\ tail' = 0 /\ boot' = "install_trans" /\ TypeOK
      /\ UNCHANGED <<home, logarea, head, cache, pins, outstanding, committing, ncommit, pc,
                     chan, target, wset, ops, panic, late, owed>>
  BY Zenon DEF read_head, disk, history, IInv
<1>2. OpenOps = {} /\ Tokens = {} /\ ~Installing /\ ~Writing /\ \A p \in Proc : pc[p] = "idle"
  BY Zenon, <1>1, Booting
<1>3. TypeOK'
  BY Zenon, <1>1 DEF TypeOK
<1>4. OpenOps' = {} /\ Tokens' = {} /\ ~Installing' /\ ~Writing'
  BY Zenon, <1>1, <1>2 DEF OpenOps, Tokens, Installing, Writing
<1>5. Control'
  BY Zenon, <1>1, <1>2, <1>4 DEF IInv, Control
<1>6. Space'
  <2>1. Len(head) <= LOGBLOCKS /\ Len(head) \in Nat
    BY <1>1 DEF IInv, Space, TypeOK
  <2>2. Len(lh') + Cardinality(Tokens') <= LOGBLOCKS
    BY <1>1, <1>4, <2>1, LogAssumption DEF Counting, CountEmpty
  <2> QED
    BY Zenon, <1>1, <1>2, <2>2 DEF IInv, Space
<1>7. Data'
  <2>1. Len(head) \in Nat /\ DOMAIN head = 1..Len(head)
    BY <1>1 DEF TypeOK
  <2>2. \A b \in Block : Contents(b)' = Contents(b)
    BY Zenon, <1>1 DEF Contents
  <2>11. Headers'
    BY Zenon, <1>1, <1>4, <2>1, <2>2 DEF IInv, Data, Headers
  <2>12. AtBoot'
    BY Zenon, <1>1, <1>4, <2>1, <2>2 DEF IInv, Data, AtBoot
  <2>13. Installed'
    BY <1>1, <1>4, <2>1, <2>2 DEF IInv, Data, Installed
  <2>14. Logged'
    BY Zenon, SMTT(20), <1>1, <1>4, <2>1, <2>2 DEF IInv, Data, Logged
  <2>15. PinsFit'
    BY Zenon, <1>1, <1>4, <2>1, <2>2 DEF IInv, Data, PinsFit
  <2> QED
    BY Zenon, <2>11, <2>12, <2>13, <2>14, <2>15 DEF Data
<1> QED
  BY Zenon, <1>3, <1>5, <1>6, <1>7 DEF IInv

LEMMA RecoverInstall ==
  ASSUME Counting,
         IInv, recover_install
  PROVE  IInv'
<1> DEFINE k == tail + 1
<1>1. /\ boot = "install_trans" /\ tail < Len(lh) /\ TypeOK
      /\ home' = [home EXCEPT ![lh[k]] = logarea[k]]
      /\ cache' = [cache EXCEPT ![lh[k]] = logarea[k]]
      /\ tail' = k
      /\ UNCHANGED <<logarea, head, pins, lh, outstanding, committing, ncommit, boot, pc,
                     chan, target, wset, ops, panic, late, owed>>
  BY Zenon DEF recover_install, Install, history, IInv
<1>2. ~Installing /\ ~Writing
  BY Zenon, <1>1, Booting
<1>3. k \in DOMAIN lh /\ k \in 1..LOGBLOCKS /\ lh[k] \in Block /\ tail \in Nat /\ k <= Len(lh)
  BY <1>1, LogFits DEF TypeOK
<1>4. TypeOK'
  <2>1. logarea[k] \in Value
    BY Zenon, <1>1, <1>3 DEF TypeOK
  <2>2. home' \in [Block -> Value] /\ cache' \in [Block -> Value \cup {NotCached}]
    BY Zenon, <1>1, <2>1 DEF TypeOK
  <2> QED
    BY <1>1, <1>3, <2>2 DEF TypeOK
<1>5. OpenOps' = OpenOps /\ Tokens' = Tokens /\ ~Installing' /\ ~Writing'
  BY Zenon, <1>1, <1>2 DEF OpenOps, Tokens, Installing, Writing
<1>6. Control' /\ Space'
  BY Zenon, <1>1, <1>5 DEF IInv, Control, Space
<1>7. Data'
  <2>1. /\ DOMAIN lh = 1..Len(lh) /\ \A i \in DOMAIN lh : lh[i] \in Block
        /\ Injective(lh) /\ Len(lh) \in Nat
    BY Zenon, LogFits DEF IInv, Data, Headers
  <2>2. \A i \in DOMAIN lh : i <= k => home'[lh[i]] = logarea[i]
    <3> SUFFICES ASSUME NEW i \in DOMAIN lh, i <= k PROVE home'[lh[i]] = logarea[i]
      BY Zenon
    <3>1. CASE i = k
      BY Zenon, <1>1, <1>3, <3>1 DEF TypeOK
    <3>2. CASE i # k
      <4>1. i <= tail /\ lh[i] # lh[k]
        BY <1>3, <2>1, <3>2 DEF Injective
      <4>2. home[lh[i]] = logarea[i]
        BY Zenon, <1>1, <4>1 DEF IInv, Data, Installed
      <4> QED
        BY Zenon, <1>1, <2>1, <4>1, <4>2 DEF TypeOK
    <3> QED
      BY Zenon, <3>1, <3>2
  <2>3. \A b \in Block : Contents(b)' = home'[b]
    <3>1. \A b \in Block : Contents(b) = home[b]
      BY Zenon, <1>1 DEF IInv, Data, AtBoot
    <3> QED
      BY Zenon, SMTT(20), <1>1, <1>3, <3>1 DEF Contents, TypeOK
  <2>11. Headers'
    BY Zenon, SMTT(20), <1>1, <1>3, <1>5, <2>1, <2>2, <2>3 DEF IInv, Data, Headers
  <2>12. AtBoot'
    BY Zenon, <1>1, <1>3, <1>5, <2>1, <2>2, <2>3 DEF IInv, Data, AtBoot
  <2>13. Installed'
    BY Zenon, SMTT(20), <1>1, <1>3, <1>5, <2>1, <2>2, <2>3 DEF IInv, Data, Installed
  <2>14. Logged'
    BY Zenon, SMTT(20), <1>1, <1>3, <1>5, <2>1, <2>2, <2>3 DEF IInv, Data, Logged
  <2>15. PinsFit'
    BY Zenon, <1>1, <1>3, <1>5, <2>1, <2>2, <2>3 DEF IInv, Data, PinsFit
  <2> QED
    BY Zenon, <2>11, <2>12, <2>13, <2>14, <2>15 DEF Data
<1> QED
  BY Zenon, <1>4, <1>6, <1>7 DEF IInv

LEMMA RecoverClear ==
  ASSUME Counting,
         IInv, recover_clear
  PROVE  IInv'
<1>1. /\ boot = "install_trans" /\ tail = Len(lh) /\ TypeOK
      /\ lh' = <<>> /\ head' = <<>> /\ boot' = "up"
      /\ UNCHANGED <<home, logarea, cache, pins, outstanding, committing, ncommit,
                     tail, pc, chan, target, wset, ops, panic, late, owed>>
  BY Zenon DEF recover_clear, LoopDone, history, IInv
<1>2. OpenOps = {} /\ Tokens = {} /\ ~Installing /\ ~Writing /\ \A p \in Proc : pc[p] = "idle"
  BY Zenon, <1>1, Booting
<1>3. TypeOK'
  BY <1>1 DEF TypeOK
<1>4. OpenOps' = {} /\ Tokens' = {} /\ ~Installing' /\ ~Writing'
  BY Zenon, <1>1, <1>2 DEF OpenOps, Tokens, Installing, Writing
<1>5. Control'
  BY Zenon, <1>1, <1>2, <1>4 DEF IInv, Control
<1>6. Space'
  <2>1. Len(lh') + Cardinality(Tokens') <= LOGBLOCKS /\ Len(head') <= LOGBLOCKS
    BY <1>1, <1>4, LogAssumption DEF Counting, CountEmpty
  <2> QED
    BY Zenon, <1>1, <1>2, <2>1 DEF IInv, Space
<1>7. Data'
  <2>1. \A b \in Block : ~Pending(b)'
    BY SMTT(20), <1>1 DEF Pending
  <2>2. \A b \in Block : Contents(b)' = home'[b] /\ pins'[b] = 0
    BY Zenon, <1>1 DEF Contents, IInv, Data, AtBoot
  <2>11. Headers'
    BY <1>1, <1>4, <2>1, <2>2 DEF Headers, Injective
  <2>12. AtBoot'
    BY Zenon, <1>1, <1>4, <2>1, <2>2 DEF AtBoot, Injective
  <2>13. Installed'
    BY Zenon, <1>1, <1>4, <2>1, <2>2 DEF Installed, Injective
  <2>14. Logged'
    BY Zenon, <1>1, <1>4, <2>1, <2>2 DEF Logged, Injective
  <2>15. PinsFit'
    BY Zenon, <1>1, <1>4, <2>1, <2>2 DEF PinsFit, Injective
  <2> QED
    BY Zenon, <2>11, <2>12, <2>13, <2>14, <2>15 DEF Data
<1> QED
  BY Zenon, <1>3, <1>5, <1>6, <1>7 DEF IInv

(* IInv is preserved by every step. *)
LEMMA NextInv ==
  ASSUME Counting
  PROVE  IInv /\ [Next]_vars => IInv'
<1> SUFFICES ASSUME IInv, [Next]_vars PROVE IInv'
  BY Zenon
<1>1. CASE Crash
  BY Zenon, <1>1, CrashInv
<1>2. CASE Recover
  BY Zenon, <1>2, ReadHead, RecoverInstall, RecoverClear DEF Recover
<1>3. ASSUME NEW p \in Proc, Running(p), boot = "up" PROVE IInv'
  <2>1. CASE \E b \in Block, v \in Value : log_write(p, b, v)
    BY Zenon, <1>3, <2>1, LogWrite
  <2>2. CASE StartOp(p) \/ kkill(p) \/ sync_call(p) \/ Progress(p)
    BY Zenon, <1>3, <2>2, QuietCalls, BeginOp, EndOp, WriteLog, WriteHead, InstallTrans,
       ClearHead, EndCommit DEF Progress, Commit
  <2> QED
    BY Zenon, <1>3, <2>1, <2>2 DEF Running
<1>4. CASE boot = "up" /\ \E b \in Block : Evict(b) \/ Bread(b)
  BY Zenon, <1>4, EvictOrBread
<1>5. CASE UNCHANGED vars
  <2>1. /\ OpenOps' = OpenOps /\ Tokens' = Tokens /\ Installing' = Installing
        /\ Writing' = Writing
    BY Zenon, <1>5 DEF vars, OpenOps, Tokens, Installing, Writing
  <2>2. \A b \in Block : Contents(b)' = Contents(b)
    BY Zenon, <1>5 DEF vars, Contents
  <2>4. TypeOK' /\ Control' /\ Space'
    BY Zenon, <1>5, <2>1 DEF vars, IInv, TypeOK, Control, Space
  <2>5. Data'
    BY Zenon, <1>5, <2>1, <2>2, DataFrame DEF vars, disk
  <2> QED
    BY Zenon, <2>4, <2>5 DEF IInv
<1> QED
  BY Zenon, <1>1, <1>2, <1>3, <1>4, <1>5 DEF Next

----------------------------------------------------------------------------
(* What recovery would restore, block by block. *)
LEMMA RecoveredFacts ==
  ASSUME IInv
  PROVE  /\ Recovered \in [Block -> Value] /\ Current \in [Block -> Value]
         /\ \A b \in Block : b \notin Range(head) => Recovered[b] = home[b]
         /\ \A i \in DOMAIN head : head[i] \in Block /\ Recovered[head[i]] = logarea[i]
         /\ \A b \in Block : b \in Range(head) => \E i \in DOMAIN head : head[i] = b
<1>1. TypeOK /\ Injective(head) /\ Len(head) <= LOGBLOCKS
  BY Zenon DEF IInv, Data, Headers, Space
<1>2. DOMAIN head = 1..Len(head) /\ Len(head) \in Nat /\ \A i \in DOMAIN head : head[i] \in Block
  BY <1>1 DEF TypeOK
<1>3. ASSUME NEW i \in DOMAIN head
      PROVE  head[i] \in Block /\ Recovered[head[i]] = logarea[i] /\ logarea[i] \in Value
  <2>1. (CHOOSE j \in DOMAIN head : head[j] = head[i]) = i
    BY Zenon, <1>1 DEF Injective
  <2>2. head[i] \in Range(head) /\ i \in 1..LOGBLOCKS
    BY <1>1, <1>2, LogAssumption DEF Range
  <2> QED
    BY Zenon, <1>1, <1>2, <2>1, <2>2 DEF Recovered, TypeOK
<1>4. \A b \in Block : b \notin Range(head) => Recovered[b] = home[b]
  BY Zenon DEF Recovered
<1>5. \A b \in Block : b \in Range(head) => \E i \in DOMAIN head : head[i] = b
  BY Zenon DEF Range
<1>6. \A b \in Block : Recovered[b] \in Value
  BY Zenon, <1>1, <1>3, <1>4, <1>5 DEF TypeOK
<1>7. Recovered \in [Block -> Value]
  BY Zenon, <1>6 DEF Recovered
<1>8. Current \in [Block -> Value]
  <2>1. \A b \in Block : Contents(b) \in Value
    BY Zenon, <1>1 DEF TypeOK, Contents
  <2> QED
    BY Zenon, <1>7, <2>1 DEF Current
<1> QED
  BY Zenon, <1>3, <1>4, <1>5, <1>7, <1>8

(* An empty header leaves the home blocks as they are. *)
LEMMA RecoveredIsHome ==
  ASSUME IInv, head = <<>>
  PROVE  Recovered = home
<1>1. Range(head) = {}
  BY DEF Range
<1>2. home \in [Block -> Value]
  BY Zenon DEF IInv, TypeOK
<1> QED
  BY Zenon, <1>1, <1>2 DEF Recovered

(* The same two facts for the state after a step. *)
LEMMA RecoveredLater ==
  IInv' => /\ Recovered' \in [Block -> Value]
           /\ \A b \in Block : (\A i \in DOMAIN head' : head'[i] # b) => Recovered'[b] = home'[b]
           /\ \A i \in DOMAIN head' : Recovered'[head'[i]] = logarea'[i]
           /\ head' = <<>> => Recovered' = home'
<1> DEFINE Facts == /\ Recovered \in [Block -> Value]
                    /\ \A b \in Block : (\A i \in DOMAIN head : head[i] # b) => Recovered[b] = home[b]
                    /\ \A i \in DOMAIN head : Recovered[head[i]] = logarea[i]
                    /\ head = <<>> => Recovered = home
<1>1. IInv => Facts
  BY Zenon, RecoveredFacts, RecoveredIsHome DEF Range
<1>2. IInv' => Facts'
  <2> HIDE DEF Facts
  <2> QED
    BY <1>1, PTL
<1> QED
  BY Zenon, <1>2

(* When every block of the header is installed, recovery changes nothing. *)
LEMMA AllInstalled ==
  ASSUME IInv, \A i \in DOMAIN head : home[head[i]] = logarea[i]
  PROVE  Recovered = home
<1>1. home \in [Block -> Value]
  BY Zenon DEF IInv, TypeOK
<1>2. ASSUME NEW b \in Block PROVE Recovered[b] = home[b]
  <2>1. CASE b \in Range(head)
    <3>1. PICK i \in DOMAIN head : head[i] = b
      BY Zenon, <2>1 DEF Range
    <3>2. Recovered[head[i]] = logarea[i]
      BY Zenon, RecoveredFacts
    <3> QED
      BY Zenon, <3>1, <3>2
  <2>2. CASE b \notin Range(head)
    BY Zenon, <2>2, RecoveredFacts
  <2> QED
    BY Zenon, <2>1, <2>2
<1> QED
  BY Zenon, <1>1, <1>2 DEF Recovered

(* Installing a block of the header is what recovery would do anyway. *)
LEMMA InstallKeeps ==
  ASSUME IInv, UNCHANGED <<logarea, head>>, NEW i \in DOMAIN head,
         home' = [home EXCEPT ![head[i]] = logarea[i]]
  PROVE  Recovered' = Recovered
<1>1. home \in [Block -> Value]
  BY Zenon DEF IInv, TypeOK
<1>2. \A b \in Block : b \notin Range(head) => home'[b] = home[b]
  BY Zenon, <1>1 DEF Range
<1>3. Range(head)' = Range(head)
  BY Zenon DEF Range
<1> QED
  BY <1>2, <1>3 DEF Recovered

(* Steps that change neither header, nor log area under it, nor homes. *)
LEMMA SameRecovered ==
  ASSUME UNCHANGED <<home, logarea, head>>
  PROVE  Recovered' = Recovered
  BY DEF Recovered, Range

LEMMA SameCurrent ==
  ASSUME boot = "up", boot' = "up", \A b \in Block : Contents(b)' = Contents(b)
  PROVE  Current' = Current
  BY Zenon DEF Current

(* The initial states are initial states of TxDisk. *)
LEMMA RefInit ==
  ASSUME Counting
  PROVE  Init => Tx!Init
<1> SUFFICES ASSUME Init PROVE Tx!Init
  BY Zenon
<1>1. IInv
  BY Zenon, InitInv
<1>2. Recovered \in [Block -> Value]
  BY Zenon, <1>1, RecoveredFacts
<1>3. Current = Recovered
  BY Zenon DEF Init, Current
<1>4. OpenOps = {}
  BY Zenon DEF Init, OpenOps
<1> QED
  BY Zenon, <1>2, <1>3, <1>4 DEF Tx!Init

(* Steps of a process inside a call that leave the contents alone. *)
LEMMA RefQuiet ==
  ASSUME IInv, boot = "up", NEW p \in Proc,
         \/ StartOp(p) \/ sleep(p) \/ kkill(p)
         \/ sync_call(p) \/ sys_sync(p) \/ sync_return(p)
         \/ begin_op(p) /\ (committing \/ LogFull)
  PROVE  UNCHANGED <<Recovered, Current, OpenOps>>
<1>1. /\ UNCHANGED <<home, logarea, head, cache, boot>>
      /\ pc[p] # "op" /\ \E l \in PcValues \ {"op"} : pc' = [pc EXCEPT ![p] = l]
  BY Zenon DEF StartOp, sleep, kkill, sync_call, sys_sync, sync_return, begin_op, Goto, Resume,
         Asleep, disk, PcValues
<1>2. Recovered' = Recovered
  BY Zenon, <1>1, SameRecovered
<1>3. Current' = Current
  BY Zenon, <1>1, SameCurrent DEF Contents
<1>4. OpenOps' = OpenOps
  BY Zenon, <1>1 DEF OpenOps, IInv, TypeOK
<1> QED
  BY Zenon, <1>2, <1>3, <1>4

LEMMA RefOperation ==
  ASSUME IInv, boot = "up", NEW p \in Proc
  PROVE  /\ begin_op(p) /\ ~(committing \/ LogFull) => Tx!Begin(p)
         /\ \A b \in Block, v \in Value : log_write(p, b, v) => Tx!Write(p, b, v)
         /\ end_op(p) => Tx!End(p)
<1>1. TypeOK
  BY Zenon DEF IInv
<1>2. ASSUME begin_op(p), ~(committing \/ LogFull) PROVE Tx!Begin(p)
  <2>1. /\ UNCHANGED <<home, logarea, head, cache, boot>>
        /\ pc[p] = "begin_op" /\ pc' = [pc EXCEPT ![p] = "op"]
    BY Zenon, <1>2 DEF begin_op, Goto, disk
  <2>2. p \notin OpenOps /\ OpenOps' = OpenOps \cup {p}
    BY Zenon, <1>1, <2>1 DEF OpenOps, TypeOK
  <2>3. UNCHANGED <<Recovered, Current>>
    BY Zenon, <2>1, SameRecovered, SameCurrent DEF Contents
  <2> QED
    BY Zenon, <2>2, <2>3 DEF Tx!Begin
<1>3. ASSUME NEW b \in Block, NEW v \in Value, log_write(p, b, v) PROVE Tx!Write(p, b, v)
  <2>1. /\ UNCHANGED <<home, logarea, head, boot, pc>>
        /\ pc[p] = "op" /\ cache' = [cache EXCEPT ![b] = v]
    BY Zenon, <1>3 DEF log_write, disk
  <2>2. p \in OpenOps /\ OpenOps' = OpenOps
    BY Zenon, <2>1 DEF OpenOps
  <2>3. Recovered' = Recovered
    BY Zenon, <2>1, SameRecovered
  <2>4. \A q \in Block : Contents(q)' = IF q = b THEN v ELSE Contents(q)
    BY Zenon, <1>1, <2>1, LogAssumption DEF Contents, TypeOK
  <2>5. Current' = [Current EXCEPT ![b] = v]
    BY Zenon, <2>1, <2>4 DEF Current
  <2> QED
    BY Zenon, <2>2, <2>3, <2>5 DEF Tx!Write
<1>4. ASSUME end_op(p) PROVE Tx!End(p)
  <2>1. /\ UNCHANGED <<home, logarea, head, cache, boot>> /\ pc[p] = "op"
        /\ \E l \in {"write_log", "end_commit", "idle"} : pc' = [pc EXCEPT ![p] = l]
    BY Zenon, <1>4 DEF end_op, Goto, disk
  <2>2. p \in OpenOps /\ OpenOps' = OpenOps \ {p}
    BY Zenon, <1>1, <2>1 DEF OpenOps, TypeOK
  <2>3. UNCHANGED <<Recovered, Current>>
    BY Zenon, <2>1, SameRecovered, SameCurrent DEF Contents
  <2> QED
    BY Zenon, <2>2, <2>3 DEF Tx!End
<1> QED
  BY Zenon, <1>2, <1>3, <1>4

(***************************************************************************)
(* The steps of commit(): write_head is TxDisk's Commit, all others change *)
(* nothing TxDisk can see.                                                 *)
(***************************************************************************)
LEMMA RefCommitPoint ==
  ASSUME Counting,
         IInv, IInv', NEW p \in Proc, write_head(p)
  PROVE  Tx!Commit
<1>1. /\ pc[p] = "write_log" /\ pc[p] \in Committer /\ tail = Len(lh) /\ head' = lh
      /\ pc' = [pc EXCEPT ![p] = "install_trans"] /\ UNCHANGED <<home, logarea, cache, boot>>
  BY Zenon DEF write_head, LoopDone, Committer, Goto
<1>2. boot = "up" /\ Writing /\ ~Installing /\ \A q \in Proc : pc[q] # "op"
  BY Zenon, <1>1, CommitAlone
<1>3. OpenOps = {} /\ OpenOps' = {}
  BY Zenon, <1>1, <1>2 DEF OpenOps, IInv, TypeOK
<1>4. Current' = Current
  BY Zenon, <1>1, <1>2, SameCurrent DEF Contents
<1>5. \A b \in Block : Recovered'[b] = Contents(b)
  <2> SUFFICES ASSUME NEW b \in Block PROVE Recovered'[b] = Contents(b)
    BY Zenon
  <2>1. DOMAIN lh = 1..Len(lh) /\ Len(lh) \in Nat
    BY Zenon, LogFits
  <2>2. CASE b \in Range(lh)
    <3>1. PICK i \in DOMAIN lh : lh[i] = b
      BY Zenon, <2>2 DEF Range
    <3>2. Recovered'[b] = logarea[i]
      BY Zenon, <1>1, <3>1, RecoveredLater
    <3>3. logarea[i] = Contents(lh[i])
      BY <1>1, <1>2, <2>1 DEF IInv, Data, Logged
    <3> QED
      BY Zenon, <3>1, <3>2, <3>3
  <2>3. CASE b \notin Range(lh)
    <3>1. Recovered'[b] = home[b]
      BY Zenon, <1>1, <2>3, RecoveredLater DEF Range
    <3>2. ~Pending(b)
      BY Zenon, <2>3 DEF Pending, Range
    <3> QED
      BY Zenon, <1>2, <3>1, <3>2 DEF IInv, Data, PinsFit
  <2> QED
    BY Zenon, <2>2, <2>3
<1>6. Recovered' = Current
  <2>1. Current = [b \in Block |-> Contents(b)] /\ Recovered' \in [Block -> Value]
    BY Zenon, <1>2, RecoveredLater DEF Current
  <2> QED
    BY Zenon, <1>5, <2>1
<1> QED
  BY Zenon, <1>3, <1>4, <1>6 DEF Tx!Commit

LEMMA RefCommitSteps ==
  ASSUME Counting,
         IInv, IInv', NEW p \in Proc,
         write_log(p) \/ install_trans(p) \/ clear_head(p) \/ end_commit(p)
  PROVE  UNCHANGED <<Recovered, Current, OpenOps>>
<1>1. /\ TypeOK /\ pc[p] \in Committer /\ boot' = boot
      /\ \/ pc' = pc
         \/ pc' = [pc EXCEPT ![p] = "end_commit"]
         \/ pc' = [pc EXCEPT ![p] = "idle"]
  BY Zenon DEF write_log, install_trans, clear_head, end_commit, Committer, Goto, IInv
<1>2. boot = "up" /\ \A q \in Proc : pc[q] # "op"
  BY Zenon, <1>1, CommitAlone
<1>3. OpenOps' = OpenOps
  BY Zenon, <1>1, <1>2 DEF OpenOps, TypeOK
<1>4. CASE write_log(p)
  <2>1. /\ pc[p] = "write_log" /\ tail < Len(lh) /\ UNCHANGED <<home, head>>
        /\ cache' = [cache EXCEPT ![lh[tail + 1]] = Contents(lh[tail + 1])]
    BY Zenon, <1>4 DEF write_log
  <2>2. head = <<>> /\ head' = <<>>
    BY Zenon, <1>1, <1>2, <2>1, CommitAlone DEF IInv, Data, Headers
  <2>3. Recovered = home /\ Recovered' = home'
    BY Zenon, <2>2, RecoveredIsHome, RecoveredLater
  <2>4. lh[tail + 1] \in Block /\ Contents(lh[tail + 1]) \in Value
    <3>1. tail + 1 \in DOMAIN lh
      BY <1>1, <2>1, LogFits DEF TypeOK
    <3> QED
      BY Zenon, <1>1, <3>1, LogFits DEF TypeOK, Contents
  <2>5. \A b \in Block : Contents(b)' = Contents(b)
    BY Zenon, <1>1, <2>1, <2>4, LogAssumption DEF Contents, TypeOK
  <2> QED
    BY Zenon, <1>1, <1>2, <1>3, <2>1, <2>3, <2>5, SameCurrent
<1>5. CASE install_trans(p)
  <2> DEFINE k == tail + 1
  <2>1. /\ pc[p] = "install_trans" /\ tail < Len(lh) /\ UNCHANGED <<logarea, head>>
        /\ home' = [home EXCEPT ![lh[k]] = logarea[k]]
        /\ cache' = [cache EXCEPT ![lh[k]] = logarea[k]]
    BY Zenon, <1>5 DEF install_trans, Install
  <2>2. Installing /\ head = lh
    BY Zenon, <1>1, <2>1, CommitAlone DEF IInv, Data, Installed
  <2>3. k \in DOMAIN lh /\ lh[k] \in Block /\ k \in 1..LOGBLOCKS
    BY <1>1, <2>1, LogFits DEF TypeOK
  <2>4. logarea[k] = Contents(lh[k]) /\ logarea[k] \in Value
    BY Zenon, <1>1, <2>2, <2>3 DEF IInv, Data, Logged, TypeOK
  <2>5. \A b \in Block : Contents(b)' = Contents(b)
    BY Zenon, <1>1, <2>1, <2>3, <2>4, LogAssumption DEF Contents, TypeOK
  <2>6. Recovered' = Recovered
    BY Zenon, <2>1, <2>2, <2>3, InstallKeeps
  <2> QED
    BY Zenon, <1>1, <1>2, <1>3, <2>5, <2>6, SameCurrent
<1>6. CASE clear_head(p)
  <2>1. /\ pc[p] = "install_trans" /\ tail = Len(lh) /\ head' = <<>>
        /\ UNCHANGED <<home, cache>>
    BY Zenon, <1>6 DEF clear_head, LoopDone
  <2>2. Installing /\ head = lh
    BY Zenon, <1>1, <2>1, CommitAlone DEF IInv, Data, Installed
  <2>3. /\ DOMAIN lh = 1..Len(lh) /\ Len(lh) \in Nat
        /\ \A i \in DOMAIN lh : i <= tail => home[lh[i]] = logarea[i]
    BY Zenon, <2>1, <2>2, LogFits DEF IInv, Data, Installed
  <2>4. \A i \in DOMAIN lh : home[lh[i]] = logarea[i]
    BY <2>1, <2>3
  <2>5. Recovered = home
    BY Zenon, <2>2, <2>4, AllInstalled
  <2>6. Recovered' = home'
    BY Zenon, <2>1, RecoveredLater
  <2> QED
    BY Zenon, <1>1, <1>2, <1>3, <2>1, <2>5, <2>6, SameCurrent DEF Contents
<1>7. CASE end_commit(p)
  <2>1. UNCHANGED <<home, logarea, head, cache>>
    BY Zenon, <1>7 DEF end_commit, disk
  <2> QED
    BY Zenon, <1>1, <1>2, <1>3, <2>1, SameRecovered, SameCurrent DEF Contents
<1> QED
  BY Zenon, <1>4, <1>5, <1>6, <1>7

(* A crash is TxDisk's Crash; recovery changes nothing TxDisk can see. *)
LEMMA RefCrash ==
  ASSUME IInv, Crash
  PROVE  Tx!Crash
<1>1. UNCHANGED <<home, logarea, head>> /\ boot' = "read_head" /\ OpenOps' = {}
  BY Zenon DEF Crash, disk, OpenOps
<1>2. Recovered' = Recovered
  BY Zenon, <1>1, SameRecovered
<1>3. Current' = Recovered
  BY Zenon, <1>1, <1>2 DEF Current
<1> QED
  BY Zenon, <1>1, <1>2, <1>3 DEF Tx!Crash

LEMMA RefRecover ==
  ASSUME Counting,
         IInv, IInv', Recover
  PROVE  UNCHANGED <<Recovered, Current, OpenOps>>
<1>1. boot # "up" /\ pc' = pc /\ TypeOK
  BY Zenon DEF Recover, read_head, recover_install, recover_clear, IInv
<1>2. OpenOps' = OpenOps /\ Current = Recovered
  BY Zenon, <1>1 DEF OpenOps, Current
<1>3. CASE read_head
  <2>1. UNCHANGED <<home, logarea, head>> /\ boot' # "up"
    BY Zenon, <1>3 DEF read_head, disk
  <2>2. Recovered' = Recovered
    BY Zenon, <2>1, SameRecovered
  <2> QED
    BY Zenon, <1>2, <2>1, <2>2 DEF Current
<1>4. CASE recover_install
  <2> DEFINE k == tail + 1
  <2>1. /\ boot = "install_trans" /\ tail < Len(lh) /\ UNCHANGED <<logarea, head, boot>>
        /\ home' = [home EXCEPT ![lh[k]] = logarea[k]]
    BY Zenon, <1>4 DEF recover_install, Install
  <2>2. head = lh
    BY Zenon, <2>1 DEF IInv, Data, Installed
  <2>3. k \in DOMAIN lh
    BY <1>1, <2>1, LogFits DEF TypeOK
  <2>4. Recovered' = Recovered
    BY Zenon, <2>1, <2>2, <2>3, InstallKeeps
  <2> QED
    BY Zenon, <1>1, <1>2, <2>1, <2>4 DEF Current
<1>5. CASE recover_clear
  <2>1. /\ boot = "install_trans" /\ tail = Len(lh) /\ head' = <<>> /\ boot' = "up"
        /\ UNCHANGED <<home, cache>>
    BY Zenon, <1>5 DEF recover_clear, LoopDone
  <2>2. head = lh
    BY Zenon, <2>1 DEF IInv, Data, Installed
  <2>3. /\ DOMAIN lh = 1..Len(lh) /\ Len(lh) \in Nat
        /\ \A i \in DOMAIN lh : i <= tail => home[lh[i]] = logarea[i]
    BY Zenon, <2>1, <2>2, LogFits DEF IInv, Data, Installed
  <2>4. \A i \in DOMAIN lh : home[lh[i]] = logarea[i]
    BY <2>1, <2>3
  <2>5. Recovered = home
    BY Zenon, <2>2, <2>4, AllInstalled
  <2>6. Recovered' = home'
    BY Zenon, <2>1, RecoveredLater
  <2>7. Current' = home
    <3>1. \A b \in Block : Contents(b)' = home[b]
      BY Zenon, <2>1 DEF Contents, IInv, Data, AtBoot
    <3> QED
      BY Zenon, <1>1, <2>1, <3>1 DEF Current, TypeOK
  <2> QED
    BY Zenon, <1>2, <2>1, <2>5, <2>6, <2>7
<1> QED
  BY Zenon, <1>3, <1>4, <1>5 DEF Recover

(* Every step of the log is a step of TxDisk or leaves it unchanged. *)
LEMMA RefNext ==
  ASSUME Counting,
         IInv, IInv', [Next]_vars
  PROVE  [Tx!Next]_<<Recovered, Current, OpenOps>>
<1>1. CASE Crash
  BY Zenon, <1>1, RefCrash DEF Tx!Next
<1>2. CASE Recover
  BY Zenon, <1>2, RefRecover
<1>3. ASSUME NEW p \in Proc, Running(p), boot = "up"
      PROVE  [Tx!Next]_<<Recovered, Current, OpenOps>>
  <2>1. CASE \E b \in Block, v \in Value : log_write(p, b, v)
    BY Zenon, <1>3, <2>1, RefOperation DEF Tx!Next
  <2>2. CASE StartOp(p) \/ sleep(p) \/ kkill(p) \/ sync_call(p) \/ sys_sync(p) \/ sync_return(p)
    BY Zenon, <1>3, <2>2, RefQuiet
  <2>3. CASE begin_op(p)
    <3>1. CASE committing \/ LogFull
      BY Zenon, <1>3, <2>3, <3>1, RefQuiet
    <3>2. CASE ~(committing \/ LogFull)
      BY Zenon, <1>3, <2>3, <3>2, RefOperation DEF Tx!Next
    <3> QED
      BY Zenon, <3>1, <3>2
  <2>4. CASE end_op(p)
    BY Zenon, <1>3, <2>4, RefOperation DEF Tx!Next
  <2>5. CASE write_head(p)
    BY Zenon, <1>3, <2>5, RefCommitPoint DEF Tx!Next
  <2>6. CASE write_log(p) \/ install_trans(p) \/ clear_head(p) \/ end_commit(p)
    BY Zenon, <1>3, <2>6, RefCommitSteps
  <2> QED
    BY Zenon, <1>3, <2>1, <2>2, <2>3, <2>4, <2>5, <2>6 DEF Running, Progress, Commit
<1>4. ASSUME NEW b \in Block, Evict(b) \/ Bread(b), boot = "up"
      PROVE  UNCHANGED <<Recovered, Current, OpenOps>>
  <2>1. UNCHANGED <<home, logarea, head, boot, pc>>
    BY Zenon, <1>4 DEF Evict, Bread, disk
  <2>2. \A q \in Block : Contents(q)' = Contents(q)
    BY Zenon, <1>4, EvictOrBread
  <2> QED
    BY Zenon, <1>4, <2>1, <2>2, SameRecovered, SameCurrent DEF OpenOps
<1>5. CASE UNCHANGED vars
  <2>1. UNCHANGED <<home, logarea, head, cache, boot, pc>>
    BY Zenon, <1>5 DEF vars
  <2>2. Recovered' = Recovered
    BY Zenon, <2>1, SameRecovered
  <2> QED
    BY Zenon, <2>1, <2>2 DEF Current, Contents, OpenOps
<1> QED
  BY Zenon, <1>1, <1>2, <1>3, <1>4, <1>5 DEF Next

----------------------------------------------------------------------------
(* sys_sync: the target ncommit + 1 that it waits for is right because a    *)
(* commit that already wrote its header excludes any operation that could   *)
(* still be owed, which is what SInv adds to IInv.                          *)
InSync == {"sys_sync", "sys_sync_sleep"}

(* An ended operation that is not committed is in the open group, whose     *)
(* commit has not written the header; who is owed it waits for that commit. *)
SInv ==
  /\ late => lh # <<>> /\ (outstanding > 0 \/ Writing)
  /\ owed # {} => late
  /\ \A p \in owed : pc[p] \in InSync => ncommit < target[p]
  /\ SyncDurable

(* While the group commits and is past its header, nothing is owed. *)
LEMMA NothingOwed ==
  ASSUME Counting,
         IInv, SInv, NEW p \in Proc, pc[p] \in {"install_trans", "end_commit"}
  PROVE  ~late /\ owed = {}
<1>1. pc[p] \in Committer
  BY Zenon DEF Committer
<1>2. OpenOps = {} /\ \A q \in Proc : q # p => pc[q] \notin Committer
  BY Zenon, <1>1 DEF IInv, Control
<1>3. ~Writing
  BY Zenon, <1>2 DEF Writing, Committer
<1>4. outstanding = 0
  BY Zenon, <1>2 DEF Counting, CountEmpty, IInv, Control
<1> QED
  BY <1>3, <1>4 DEF SInv

(* An operation in progress is counted. *)
LEMMA OpenCounted ==
  ASSUME Counting,
         IInv, NEW p \in Proc, pc[p] = "op"
  PROVE  outstanding >= 1
<1>1. p \in OpenOps
  BY Zenon DEF OpenOps
<1>2. Cardinality(OpenOps) # 0
  BY Zenon, <1>1, FiniteCounts DEF Counting, CountEmpty
<1> QED
  BY <1>2, FiniteCounts DEF IInv, Control

(* The steps of a process. *)
LEMMA RunningSync ==
  ASSUME Counting,
         IInv, SInv, IInv', NEW p \in Proc, Running(p)
  PROVE  SInv'
<1> USE DEF InSync
<1>0. TypeOK /\ TypeOK'
  BY Zenon DEF IInv
<1>1. CASE StartOp(p)
  BY Zenon, <1>0, <1>1 DEF SInv, SyncDurable, Writing, StartOp, Goto, TypeOK, PcValues, disk, history
<1>2. CASE begin_op(p)
  BY SMTT(30), <1>0, <1>2 DEF SInv, SyncDurable, Writing, begin_op, Goto, TypeOK, PcValues, disk, history
<1>3. CASE sleep(p) \/ kkill(p)
  BY SMTT(30), <1>0, <1>3 DEF SInv, SyncDurable, Writing, sleep, kkill, Resume, Asleep, Goto, TypeOK,
                    PcValues, disk, history
<1>4. ASSUME NEW b \in Block, NEW v \in Value, log_write(p, b, v) PROVE SInv'
  <2>1. lh' = lh \/ (lh' = Append(lh, b) /\ lh' # <<>>)
    BY SMTT(30), <1>0, <1>4 DEF log_write, TypeOK
  <2>2. UNCHANGED <<outstanding, ncommit, pc, target, late, owed>>
    BY Zenon, <1>4 DEF log_write, history
  <2> QED
    BY Zenon, <2>1, <2>2 DEF SInv, SyncDurable, Writing
<1>5. CASE end_op(p)
  <2>1. /\ pc[p] = "op" /\ outstanding' = outstanding - 1 /\ late' = (late \/ wset[p] # {})
        /\ UNCHANGED <<lh, ncommit, target, owed>>
        /\ \/ outstanding' = 0 /\ pc' = [pc EXCEPT ![p] = IF lh # <<>> THEN "write_log" ELSE "end_commit"]
           \/ outstanding' # 0 /\ pc' = [pc EXCEPT ![p] = "idle"]
    BY Zenon, <1>5 DEF end_op, Goto
  <2>2. late' => lh # <<>>
    <3>0. wset[p] \subseteq Range(lh)
      BY Zenon, <2>1 DEF IInv, Space
    <3>1. wset[p] # {} => lh # <<>>
      BY SMTT(30), <3>0 DEF Range
    <3> QED
      BY Zenon, <2>1, <3>1 DEF SInv
  <2>3. outstanding >= 1 /\ outstanding \in Nat
    BY Zenon, <1>0, <2>1, OpenCounted DEF TypeOK
  <2>4. late' => outstanding' > 0 \/ Writing'
    BY <1>0, <2>1, <2>2, <2>3 DEF TypeOK, Writing
  <2>5. owed' # {} => late'
    BY Zenon, <2>1 DEF SInv
  <2> QED
    BY ZenonT(40), <1>0, <2>1, <2>2, <2>4, <2>5 DEF SInv, SyncDurable, TypeOK
<1>6. CASE write_log(p)
  BY Zenon, <1>0, <1>6 DEF SInv, SyncDurable, Writing, write_log, history
<1>7. CASE write_head(p)
  BY Zenon, <1>0, <1>7 DEF SInv, SyncDurable, write_head, TypeOK
<1>8. CASE install_trans(p)
  BY Zenon, <1>0, <1>8 DEF SInv, SyncDurable, Writing, install_trans, Install, history
<1>9. CASE clear_head(p)
  <2>1. ~late /\ owed = {}
    BY Zenon, <1>9, NothingOwed DEF clear_head
  <2> QED
    BY Zenon, <1>9, <2>1 DEF SInv, SyncDurable, clear_head, history
<1>10. CASE end_commit(p)
  <2>1. ~late /\ owed = {}
    BY Zenon, <1>10, NothingOwed DEF end_commit
  <2> QED
    BY Zenon, <1>10, <2>1 DEF SInv, SyncDurable, end_commit, history
<1>11. CASE sync_call(p)
  <2>1. ~SyncMustWait => ~late
    <3>1. ~committing => ~Writing
      BY Zenon DEF IInv, Control, Writing, Committer
    <3> QED
      BY Zenon, <1>0, <3>1 DEF SyncMustWait, SInv, TypeOK
  <2>2. /\ pc[p] = "idle" /\ owed' = (IF late THEN owed \cup {p} ELSE owed \ {p})
        /\ UNCHANGED <<lh, outstanding, ncommit, late>>
        /\ \/ SyncMustWait /\ target' = [target EXCEPT ![p] = ncommit + 1]
              /\ pc' = [pc EXCEPT ![p] = "sys_sync_sleep"]
           \/ ~SyncMustWait /\ target' = target /\ pc' = [pc EXCEPT ![p] = "sync_return"]
    BY Zenon, <1>11 DEF sync_call, Goto
  <2>3. Writing' <=> Writing
    BY Zenon, <1>0, <2>2 DEF Writing, TypeOK
  <2>4. \A q \in owed' : pc'[q] \in InSync => ncommit' < target'[q]
    BY SMTT(30), <1>0, <2>2 DEF SInv, TypeOK
  <2>5. SyncDurable'
    BY Zenon, <1>0, <2>1, <2>2 DEF SInv, SyncDurable, TypeOK
  <2> QED
    BY Zenon, <2>2, <2>3, <2>4, <2>5 DEF SInv
<1>12. CASE sys_sync(p)
  <2>1. /\ pc[p] = "sys_sync" /\ UNCHANGED <<lh, outstanding, ncommit, target, late, owed>>
        /\ \/ ncommit < target[p] /\ pc' = [pc EXCEPT ![p] = "sys_sync_sleep"]
           \/ ~(ncommit < target[p]) /\ pc' = [pc EXCEPT ![p] = "sync_return"]
    BY Zenon, <1>12 DEF sys_sync, Goto, history
  <2>2. Writing' <=> Writing
    BY Zenon, <1>0, <2>1 DEF Writing, TypeOK
  <2> QED
    BY ZenonT(40), <1>0, <2>1, <2>2 DEF SInv, SyncDurable, TypeOK
<1>13. CASE sync_return(p)
  BY Zenon, <1>0, <1>13 DEF SInv, SyncDurable, Writing, sync_return, Goto, TypeOK, history
<1> QED
  BY Zenon, <1>1, <1>2, <1>3, <1>4, <1>5, <1>6, <1>7, <1>8, <1>9, <1>10, <1>11, <1>12, <1>13
     DEF Running, Progress, Commit

(* Recovery runs before any call: nothing is late and nobody is owed. *)
LEMMA RecoverSync ==
  ASSUME Counting,
         IInv, SInv, boot # "up", Recover
  PROVE  SInv'
<1>1. OpenOps = {} /\ ~Writing
  BY Zenon DEF IInv, Control, OpenOps, Writing
<1>2. outstanding = 0
  BY Zenon, <1>1 DEF Counting, CountEmpty, IInv, Control
<1>3. ~late /\ owed = {}
  BY <1>1, <1>2 DEF SInv
<1>4. UNCHANGED <<outstanding, ncommit, pc, target, late, owed>>
  BY Zenon DEF Recover, read_head, recover_install, recover_clear, history
<1> QED
  BY Zenon, <1>3, <1>4 DEF SInv, SyncDurable

LEMMA NextSync ==
  ASSUME Counting,
         IInv, SInv, [Next]_vars
  PROVE  SInv'
<1>0. IInv'
  BY Zenon, NextInv
<1>1. CASE Crash
  BY Zenon, <1>1 DEF Crash, SInv, SyncDurable
<1>2. CASE Recover
  <2>1. boot # "up"
    BY Zenon, <1>2 DEF Recover, read_head, recover_install, recover_clear
  <2> QED
    BY Zenon, <1>2, <2>1, RecoverSync
<1>3. CASE \E p \in Proc : Running(p)
  BY Zenon, <1>0, <1>3, RunningSync
<1>4. CASE \E b \in Block : Evict(b) \/ Bread(b)
  BY SMTT(30), <1>4 DEF Evict, Bread, SInv, SyncDurable, Writing, history
<1>5. CASE UNCHANGED vars
  BY Zenon, <1>5 DEF vars, SInv, SyncDurable, Writing
<1> QED
  BY Zenon, <1>1, <1>2, <1>3, <1>4, <1>5 DEF Next

----------------------------------------------------------------------------
INSTANCE FiniteSetTheorems

(* What the lemmas assume of Cardinality. *)
LEMMA CountingHolds == Counting
<1>1. CountEmpty
  BY Zenon, FS_EmptySet DEF CountEmpty
<1>2. CountType
  BY Zenon, FS_CardinalityType DEF CountType
<1>3. CountSubset
  BY Zenon, FS_Subset DEF CountSubset
<1>4. CountAdd
  BY Zenon, FS_AddElement DEF CountAdd
<1>5. CountRemove
  BY Zenon, FS_RemoveElement DEF CountRemove
<1>6. CountInterval
  BY Zenon, FS_Interval DEF CountInterval
<1>7. CountProduct
  BY Zenon, FS_Product DEF CountProduct
<1> QED
  BY ZenonT(40), <1>1, <1>2, <1>3, <1>4, <1>5, <1>6, <1>7 DEF Counting

LEMMA Invariance == Spec => []IInv
<1>1. Init => IInv
  BY Zenon, CountingHolds, InitInv
<1>2. IInv /\ [Next]_vars => IInv'
  BY Zenon, CountingHolds, NextInv
<1> QED
  BY <1>1, <1>2, PTL DEF Spec

(***************************************************************************)
(* The types of log.c's state and of the disk areas hold throughout; among *)
(* others the pin counts stay natural and the log never leaves its area.   *)
(***************************************************************************)
THEOREM TypeCorrect == Spec => []TypeOK
<1>1. IInv => TypeOK
  BY Zenon DEF IInv
<1> QED
  BY <1>1, Invariance, PTL DEF Spec

(***************************************************************************)
(* begin_op's reservation suffices for any number of processes: log_write  *)
(* and end_op never panic.                                                 *)
(***************************************************************************)
THEOREM NeverPanics == Spec => []NoPanic
<1>1. IInv => NoPanic
  BY Zenon, SMTT(20) DEF IInv, Space, NoPanic
<1> QED
  BY <1>1, Invariance, PTL DEF Spec

(* commit() writes the header only over data that is in the log area. *)
THEOREM HeaderAfterData == Spec => []HeaderNamesLoggedData
<1>1. IInv => HeaderNamesLoggedData
  BY DEF IInv, Data, Headers, Installed, Logged, HeaderNamesLoggedData
<1> QED
  BY <1>1, Invariance, PTL DEF Spec

(* No buffer that bget may recycle holds data that is not at home. *)
THEOREM DirtyStaysPinned == Spec => []DirtyIsPinned
<1>1. IInv => DirtyIsPinned
  <2> SUFFICES ASSUME IInv, NEW b \in Block, Contents(b) # home[b], boot = "up"
               PROVE  pins[b] > 0
    BY Zenon DEF DirtyIsPinned
  <2>1. pins[b] = 1
    BY Zenon, DirtyPin
  <2>2. 1 > 0
    OBVIOUS
  <2> QED
    BY ZenonT(30), <2>1, <2>2
<1> QED
  BY <1>1, Invariance, PTL DEF Spec

(***************************************************************************)
(* The log implements TxDisk: whatever the number of processes and blocks, *)
(* and wherever crashes fall, a group of operations becomes durable in one *)
(* step and only after all of them ended (log.c commit, recover_from_log). *)
(***************************************************************************)
THEOREM LogIsAtomic == Spec => AtomicCommit
<1>1. Init => Tx!Init
  BY Zenon, CountingHolds, RefInit
<1>2. IInv /\ IInv' /\ [Next]_vars => [Tx!Next]_(Tx!txvars)
  BY Zenon, CountingHolds, RefNext DEF Tx!txvars
<1> QED
  BY <1>1, <1>2, Invariance, PTL DEF Spec, AtomicCommit, Tx!Spec

(***************************************************************************)
(* sys_sync returns to no process whose operations, ended before its call, *)
(* a crash could still lose, whatever the other processes do meanwhile.    *)
(***************************************************************************)
THEOREM SyncIsDurable == Spec => []SyncDurable
<1>1. Init => SInv
  BY Zenon DEF Init, SInv, SyncDurable
<1>2. SInv => SyncDurable
  BY Zenon DEF SInv
<1>3. IInv /\ SInv /\ [Next]_vars => SInv'
  BY Zenon, CountingHolds, NextSync
<1> QED
  BY <1>1, <1>2, <1>3, Invariance, PTL DEF Spec

============================================================================
