--------------------------- MODULE BufCacheProofs ---------------------------
(***************************************************************************)
(* The buffer cache counts its references exactly, runs out of buffers     *)
(* only when all of them are in use, loses no wakeup and implements        *)
(* BlockStore, for any number of processes, buffers, blocks and pins.      *)
(***************************************************************************)
EXTENDS BufCache, FiniteSetTheorems, TLAPS

Users(b) == {p \in Proc : buf[p] = b}

Types ==
  /\ disk \in [Block -> Value] /\ data \in [Buf -> Value]
  /\ blockno \in [Buf -> Block \cup {None}] /\ valid \in [Buf -> BOOLEAN]
  /\ refcnt \in [Buf -> Nat] /\ lock \in [Buf -> Proc \cup {None}]
  /\ pc \in [Proc -> {"idle", "acquiresleep", "sleep", "bread", "use", "brelse"}]
  /\ want \in [Proc -> Block \cup {None}] /\ buf \in [Proc -> Buf \cup {None}]
  /\ chan \in [Proc -> Buf \cup {None}]

Pins == pinned \in SUBSET Buf

Refs == \A b \in Buf :
  refcnt[b] = Cardinality(Users(b)) + (IF b \in pinned THEN 1 ELSE 0)

(* A process has a buffer exactly inside bread .. brelse, and it is its     *)
(* block's: no buffer is recycled under it.                                 *)
Callers ==
  \A p \in Proc :
    /\ pc[p] = "idle" <=> buf[p] = None
    /\ pc[p] # "idle" => want[p] \in Block /\ want[p] = blockno[buf[p]]
    /\ pc[p] = "use" => valid[buf[p]]

Locks ==
  \A p \in Proc, b \in Buf : lock[b] = p <=> buf[p] = b /\ pc[p] \in {"bread", "use"}

(* A block has one buffer. *)
OneBuffer == \A a, b \in Buf : blockno[a] = blockno[b] /\ blockno[a] # None => a = b

(* What differs from the disk is pinned, so it cannot be recycled. *)
Clean == \A b \in Buf : valid[b] => blockno[b] # None /\ (~Dirty(b) \/ b \in pinned)

IInv ==
  /\ Types /\ Pins /\ Refs /\ Callers /\ Locks /\ OneBuffer /\ Clean
  /\ NoLostWakeup

(* The only panic is that of bget, with every buffer really taken. *)
Inside == {p \in Proc : buf[p] # None}

Crowded == Cardinality(Buf) <= Cardinality(Inside) + Cardinality(pinned)

Panics == panic # "none" => panic = "bget: no buffers" /\ Crowded

----------------------------------------------------------------------------
LEMMA UsersFinite ==
  ASSUME NEW b
  PROVE  /\ IsFiniteSet(Users(b)) /\ Cardinality(Users(b)) \in Nat
         /\ Cardinality(Users(b)) = 0 <=> Users(b) = {}
BY Zenon, BufCacheAssumption, FS_Subset, FS_CardinalityType, FS_EmptySet DEF Users

(* With no unused buffer each one has a process inside or a pin, and every  *)
(* process and every pin takes at most one.                                 *)
LEMMA NoneUnused ==
  ASSUME IInv, Unused = {}
  PROVE  Crowded
<1> DEFINE T == {b \in Buf : \E q \in Inside : buf[q] = b}
           f == [q \in Inside |-> buf[q]]
<1>1. Buf \subseteq T \cup pinned
  <2> SUFFICES ASSUME NEW b \in Buf PROVE b \in T \cup pinned
    BY Zenon
  <2>1. refcnt[b] # 0
    BY Zenon DEF Unused
  <2>2. Users(b) # {} \/ b \in pinned
    BY <2>1, UsersFinite DEF IInv, Refs
  <2> QED
    BY Zenon, <2>2, BufCacheAssumption DEF Users, Inside
<1>2. IsFiniteSet(Inside) /\ Cardinality(Inside) \in Nat
  BY Zenon, BufCacheAssumption, FS_Subset, FS_CardinalityType DEF Inside
<1>3. f \in Surjection(Inside, T)
  <2>1. \A q \in Inside : buf[q] \in T
    BY Zenon DEF Inside, IInv, Types
  <2> QED
    BY Zenon, <2>1 DEF Surjection
<1>4. IsFiniteSet(T) /\ Cardinality(T) <= Cardinality(Inside) /\ Cardinality(T) \in Nat
  <2> HIDE DEF T, f
  <2> QED
    BY Zenon, <1>2, <1>3, FS_Surjection, FS_CardinalityType
<1>5. IsFiniteSet(pinned) /\ Cardinality(pinned) \in Nat
  BY Zenon, BufCacheAssumption, FS_Subset, FS_CardinalityType DEF IInv, Pins
<1>6. /\ IsFiniteSet(T \cup pinned)
      /\ Cardinality(T \cup pinned) = Cardinality(T) + Cardinality(pinned)
                                      - Cardinality(T \cap pinned)
      /\ Cardinality(T \cap pinned) \in Nat
  <2> HIDE DEF T
  <2> QED
    BY Zenon, <1>4, <1>5, FS_Union, FS_Intersection, FS_CardinalityType
<1>7. Cardinality(Buf) <= Cardinality(T \cup pinned) /\ Cardinality(Buf) \in Nat
  <2> HIDE DEF T
  <2> QED
    BY Zenon, <1>1, <1>6, FS_Subset, FS_CardinalityType, BufCacheAssumption
<1> QED
  <2> HIDE DEF T
  <2> QED
    BY <1>2, <1>4, <1>5, <1>6, <1>7 DEF Crowded

LEMMA InitInv == Init => IInv
<1> SUFFICES ASSUME Init PROVE IInv
  BY Zenon
<1> USE DEF Init
<1>1. Pins /\ Refs
  <2>1. pinned = {} /\ refcnt = [b \in Buf |-> 0] /\ buf = [p \in Proc |-> None]
    BY Zenon
  <2> HIDE DEF Init
  <2>2. \A b \in Buf : Users(b) = {}
    BY Zenon, <2>1, BufCacheAssumption DEF Users
  <2> QED
    BY <2>1, <2>2, FS_EmptySet, BufCacheAssumption DEF Pins, Refs
<1>2. Types /\ Callers /\ Locks /\ OneBuffer /\ Clean /\ NoLostWakeup
  BY Zenon, BufCacheAssumption DEF Types, Callers, Locks, OneBuffer, Clean, NoLostWakeup
<1> QED
  BY Zenon, <1>1, <1>2 DEF IInv

----------------------------------------------------------------------------
(* A process enters the cache, or leaves it. *)
LEMMA UsersGrow ==
  ASSUME NEW p \in Proc, NEW b \in Buf, Types, buf[p] = None,
         buf' = [buf EXCEPT ![p] = b]
  PROVE  /\ Cardinality(Users(b)') = Cardinality(Users(b)) + 1
         /\ \A c \in Buf \ {b} : Users(c)' = Users(c)
<1>1. Users(b)' = Users(b) \cup {p} /\ p \notin Users(b)
  BY BufCacheAssumption DEF Users, Types
<1>2. \A c \in Buf \ {b} : Users(c)' = Users(c)
  BY BufCacheAssumption DEF Users, Types
<1> QED
  BY Zenon, <1>1, <1>2, UsersFinite, FS_AddElement

LEMMA UsersShrink ==
  ASSUME NEW p \in Proc, NEW b \in Buf, Types, buf[p] = b,
         buf' = [buf EXCEPT ![p] = None]
  PROVE  /\ Cardinality(Users(b)') = Cardinality(Users(b)) - 1
         /\ Cardinality(Users(b)) > 0
         /\ \A c \in Buf \ {b} : Users(c)' = Users(c)
<1>1. Users(b)' = Users(b) \ {p} /\ p \in Users(b)
  BY Zenon, BufCacheAssumption DEF Users, Types
<1>2. \A c \in Buf \ {b} : Users(c)' = Users(c)
  BY Zenon, BufCacheAssumption DEF Users, Types
<1>3. Cardinality(Users(b)) \in Nat \ {0}
  BY Zenon, <1>1, UsersFinite
<1>4. Cardinality(Users(b) \ {p}) = Cardinality(Users(b)) - 1
  BY Zenon, <1>1, UsersFinite, FS_RemoveElement
<1> QED
  BY <1>1, <1>2, <1>3, <1>4

(* What bget does: a hit, or the recycling of a buffer nobody refers to. *)
Takes(p, k, b) ==
  /\ pc[p] = "idle" /\ buf[p] = None
  /\ \/ /\ blockno[b] = k /\ refcnt' = [refcnt EXCEPT ![b] = @ + 1]
        /\ UNCHANGED <<blockno, valid>>
     \/ /\ \A c \in Buf : blockno[c] # k
        /\ refcnt[b] = 0 /\ Users(b) = {} /\ b \notin pinned /\ lock[b] = None
        /\ blockno' = [blockno EXCEPT ![b] = k]
        /\ valid' = [valid EXCEPT ![b] = FALSE]
        /\ refcnt' = [refcnt EXCEPT ![b] = 1]
  /\ buf' = [buf EXCEPT ![p] = b]
  /\ want' = [want EXCEPT ![p] = k]
  /\ pc' = [pc EXCEPT ![p] = "acquiresleep"]
  /\ UNCHANGED <<disk, data, lock, chan, pinned, panic>>

(* Its panic, which leaves the cache as it is. *)
Refuses(p) ==
  /\ Unused = {} /\ pc[p] = "idle" /\ panic' = "bget: no buffers"
  /\ \E k \in Block : want' = [want EXCEPT ![p] = k]
  /\ UNCHANGED <<disk, blockno, valid, refcnt, data, lock, pc, buf, chan, pinned>>

LEMMA BgetTakes ==
  ASSUME IInv, NEW p \in Proc, NEW k \in Block, bget(p, k)
  PROVE  Refuses(p) \/ \E b \in Buf : Takes(p, k, b)
<1> SUFFICES ASSUME ~Refuses(p) PROVE \E b \in Buf : Takes(p, k, b)
  BY Zenon
<1>1. pc[p] = "idle" /\ buf[p] = None
  BY Zenon DEF bget, IInv, Callers
<1>2. PICK b \in Buf :
        /\ \/ b \in Hit(k) /\ refcnt' = [refcnt EXCEPT ![b] = @ + 1]
              /\ UNCHANGED <<blockno, valid>>
           \/ Hit(k) = {} /\ Victim(b) /\ Recycle(b, k)
        /\ buf' = [buf EXCEPT ![p] = b]
        /\ Goto(p, "acquiresleep")
        /\ UNCHANGED panic
  BY Zenon DEF bget, Refuses
<1>3. ASSUME Victim(b)
      PROVE  refcnt[b] = 0 /\ Users(b) = {} /\ b \notin pinned /\ lock[b] = None
  <2>1. refcnt[b] = 0
    BY Zenon, <1>3 DEF Victim, Unused
  <2>2. Users(b) = {} /\ b \notin pinned
    BY <2>1, UsersFinite DEF IInv, Refs
  <2>3. lock[b] \notin Proc
    BY <2>2 DEF IInv, Locks, Users
  <2> QED
    BY Zenon, <2>1, <2>2, <2>3 DEF IInv, Types
<1> QED
  BY Zenon, <1>1, <1>2, <1>3 DEF Takes, bget, Recycle, Hit, Goto, IInv

LEMMA BgetInv ==
  ASSUME IInv, NEW p \in Proc, NEW k \in Block, bget(p, k)
  PROVE  IInv'
<1>r. CASE Refuses(p)
  <2>1. /\ pc[p] = "idle"
        /\ UNCHANGED <<disk, blockno, valid, refcnt, data, lock, pc, buf, chan, pinned>>
    BY Zenon, <1>r DEF Refuses
  <2>2. PICK j \in Block : want' = [want EXCEPT ![p] = j]
    BY Zenon, <1>r DEF Refuses
  <2>3. Types' /\ Callers'
    <3>1. Types'
      BY Zenon, <2>1, <2>2 DEF IInv, Types
    <3>2. \A q \in Proc : pc[q] # "idle" => want'[q] = want[q]
      BY Zenon, <2>1, <2>2 DEF IInv, Types
    <3> QED
      BY Zenon, <2>1, <3>1, <3>2 DEF IInv, Callers
  <2>4. Pins' /\ Refs' /\ Locks' /\ OneBuffer' /\ Clean' /\ NoLostWakeup'
    <3>1. Pins' /\ Refs' /\ Locks' /\ NoLostWakeup'
      BY <2>1 DEF IInv, Pins, Refs, Users, Locks, NoLostWakeup
    <3>2. OneBuffer' /\ Clean'
      BY <2>1 DEF IInv, OneBuffer, Clean, Dirty
    <3> QED
      BY Zenon, <3>1, <3>2
  <2> QED
    BY Zenon, <2>3, <2>4 DEF IInv
<1> SUFFICES ASSUME ~Refuses(p) PROVE IInv'
  BY Zenon, <1>r
<1> PICK b \in Buf : Takes(p, k, b)
  BY Zenon, BgetTakes
<1> USE DEF Takes
<1>1. Types' /\ Pins'
  <2>1. refcnt[b] \in Nat /\ refcnt' \in [Buf -> Nat]
    <3>1. refcnt[b] \in Nat /\ refcnt[b] + 1 \in Nat
      BY DEF IInv, Types
    <3> QED
      BY <3>1 DEF IInv, Types
  <2>2. blockno' \in [Buf -> Block \cup {None}] /\ valid' \in [Buf -> BOOLEAN]
    <3>1. blockno \in [Buf -> Block \cup {None}] /\ valid \in [Buf -> BOOLEAN]
      BY Zenon DEF IInv, Types
    <3>2. \/ UNCHANGED <<blockno, valid>>
          \/ /\ blockno' = [blockno EXCEPT ![b] = k]
             /\ valid' = [valid EXCEPT ![b] = FALSE]
      BY Zenon
    <3> QED
      BY Zenon, <3>1, <3>2
  <2>3. Types'
    BY Zenon, <2>1, <2>2 DEF IInv, Types
  <2>4. Pins'
    BY Zenon DEF IInv, Pins
  <2> QED
    BY Zenon, <2>3, <2>4
<1>2. Refs'
  <2>1. /\ Cardinality(Users(b)') = Cardinality(Users(b)) + 1
        /\ \A c \in Buf \ {b} : Users(c)' = Users(c)
    BY Zenon, UsersGrow DEF IInv
  <2>2. Cardinality(Users(b)) \in Nat /\ (Users(b) = {} => Cardinality(Users(b)) = 0)
    BY Zenon, UsersFinite
  <2>3. refcnt'[b] = refcnt[b] + 1 /\ \A c \in Buf \ {b} : refcnt'[c] = refcnt[c]
    BY DEF IInv, Types
  <2> QED
    BY <2>1, <2>2, <2>3 DEF IInv, Refs, Types
<1>3. Callers'
  <2>1. \A q \in Proc \ {p} : buf[q] = b => blockno'[b] = blockno[b] /\ valid'[b] = valid[b]
    BY Zenon DEF Users
  <2>2. \A c \in Buf \ {b} : blockno'[c] = blockno[c] /\ valid'[c] = valid[c]
    BY Zenon DEF IInv, Types
  <2>3. blockno'[b] = k /\ k # None /\ b # None
    BY Zenon, BufCacheAssumption DEF IInv, Types
  <2> QED
    BY <2>1, <2>2, <2>3 DEF IInv, Callers, Types
<1>4. Locks' /\ NoLostWakeup'
  BY BufCacheAssumption DEF IInv, Locks, Types, NoLostWakeup
<1>5. OneBuffer' /\ Clean'
  BY DEF IInv, OneBuffer, Clean, Dirty, Types
<1> QED
  BY Zenon, <1>1, <1>2, <1>3, <1>4, <1>5 DEF IInv

LEMMA AcquireInv ==
  ASSUME IInv, NEW p \in Proc, acquiresleep(p) \/ sleep(p) \/ kkill(p)
  PROVE  IInv'
<1>1. UNCHANGED <<disk, blockno, valid, refcnt, data, want, buf, pinned>>
  BY Zenon DEF acquiresleep, sleep, kkill
<1>2. Pins' /\ OneBuffer' /\ Clean' /\ Refs'
  BY <1>1 DEF IInv, Pins, OneBuffer, Clean, Dirty, Refs, Users
<1>3. \/ /\ pc[p] = "acquiresleep" /\ lock[buf[p]] # None
         /\ chan' = [chan EXCEPT ![p] = buf[p]] /\ pc' = [pc EXCEPT ![p] = "sleep"]
         /\ UNCHANGED lock
      \/ /\ pc[p] = "acquiresleep" /\ lock[buf[p]] = None
         /\ lock' = [lock EXCEPT ![buf[p]] = p] /\ pc' = [pc EXCEPT ![p] = "bread"]
         /\ UNCHANGED chan
      \/ /\ pc[p] = "sleep" /\ pc' = [pc EXCEPT ![p] = "acquiresleep"]
         /\ UNCHANGED <<lock, chan>>
  BY Zenon DEF acquiresleep, sleep, kkill, Goto
<1>4. buf[p] \in Buf
  BY Zenon, <1>3 DEF IInv, Callers, Types
<1>5. Types' /\ Callers'
  BY <1>1, <1>3, <1>4 DEF IInv, Types, Callers
<1>6. Locks'
  BY <1>1, <1>3, <1>4, BufCacheAssumption DEF IInv, Types, Locks
<1>7. NoLostWakeup'
  BY <1>1, <1>3, <1>4, BufCacheAssumption DEF IInv, Types, NoLostWakeup
<1> QED
  BY Zenon, <1>2, <1>5, <1>6, <1>7 DEF IInv

LEMMA BreadInv ==
  ASSUME IInv, NEW p \in Proc, bread(p)
  PROVE  IInv'
<1>1. /\ pc[p] = "bread" /\ pc' = [pc EXCEPT ![p] = "use"]
      /\ UNCHANGED <<disk, blockno, refcnt, lock, want, buf, chan, pinned>>
  BY Zenon DEF bread, Goto
<1>2. PICK b \in Buf : b = buf[p] /\ blockno[b] \in Block
  BY Zenon, <1>1 DEF IInv, Types, Callers
<1>3. \/ valid[b] /\ UNCHANGED <<data, valid>>
      \/ /\ ~valid[b] /\ data' = [data EXCEPT ![b] = disk[blockno[b]]]
         /\ valid' = [valid EXCEPT ![b] = TRUE]
  BY Zenon, <1>2 DEF bread
<1>4. Types' /\ Pins' /\ Refs' /\ OneBuffer'
  <2>1. Types'
    BY ZenonT(40), <1>1, <1>2, <1>3 DEF IInv, Types
  <2>2. Pins' /\ Refs' /\ OneBuffer'
    BY Zenon, <1>1 DEF IInv, Pins, Refs, Users, OneBuffer
  <2> QED
    BY Zenon, <2>1, <2>2
<1>5. Callers' /\ Locks' /\ NoLostWakeup'
  BY <1>1, <1>2, <1>3 DEF IInv, Types, Callers, Locks, NoLostWakeup
<1>6. Clean'
  BY <1>1, <1>2, <1>3, BufCacheAssumption DEF IInv, Types, Clean, Dirty
<1> QED
  BY Zenon, <1>1, <1>4, <1>5, <1>6 DEF IInv

(* The callers of log.c, with the buffer they hold. *)
LEMMA LogWriteInv ==
  ASSUME IInv, NEW p \in Proc, NEW v \in Value, log_write(p, v)
  PROVE  IInv'
<1>1. /\ pc[p] = "use"
      /\ UNCHANGED <<disk, blockno, valid, lock, pc, want, buf, chan>>
  BY Zenon DEF log_write
<1>2. PICK b \in Buf : b = buf[p]
  BY Zenon, <1>1 DEF IInv, Types, Callers
<1>3. data' = [data EXCEPT ![b] = v] /\ pinned' = pinned \cup {b}
  BY Zenon, <1>2 DEF log_write
<1>4. refcnt' = [refcnt EXCEPT ![b] = IF b \in pinned THEN refcnt[b] ELSE refcnt[b] + 1]
  BY Zenon, <1>2 DEF log_write, IInv, Types
<1>5. refcnt[b] \in Nat /\ refcnt[b] + 1 \in Nat
  BY DEF IInv, Types
<1>6. Types'
  BY Zenon, <1>1, <1>3, <1>4, <1>5 DEF IInv, Types
<1>7. Pins'
  BY Zenon, <1>3 DEF IInv, Pins
<1>8. Refs'
  <2>1. \A c \in Buf : Users(c)' = Users(c) /\ Cardinality(Users(c)) \in Nat
    BY Zenon, <1>1, UsersFinite DEF Users
  <2> QED
    BY <1>3, <1>4, <1>5, <2>1 DEF IInv, Refs, Types
<1>9. Clean'
  BY Zenon, <1>1, <1>3 DEF IInv, Clean, Dirty, Types
<1>10. Callers' /\ Locks' /\ OneBuffer' /\ NoLostWakeup'
  BY <1>1 DEF IInv, Callers, Locks, OneBuffer, NoLostWakeup
<1> QED
  BY Zenon, <1>6, <1>7, <1>8, <1>9, <1>10 DEF IInv

LEMMA BwriteInv ==
  ASSUME IInv, NEW p \in Proc, bwrite(p)
  PROVE  IInv'
<1>1. /\ pc[p] = "use"
      /\ UNCHANGED <<blockno, valid, refcnt, data, lock, pc, want, buf, chan, pinned>>
  BY Zenon DEF bwrite
<1>2. PICK b \in Buf : b = buf[p] /\ blockno[b] \in Block /\ lock[b] = p
  BY <1>1 DEF IInv, Types, Callers, Locks
<1>3. disk' = [disk EXCEPT ![blockno[b]] = data[b]]
  BY Zenon, <1>2 DEF bwrite, IInv
<1>4. Types'
  BY Zenon, <1>1, <1>2, <1>3 DEF IInv, Types
<1>5. Clean'
  <2> SUFFICES ASSUME NEW c \in Buf, valid[c]
               PROVE  blockno[c] # None /\ (~Dirty(c)' \/ c \in pinned)
    BY Zenon, <1>1 DEF Clean
  <2>1. blockno[c] # None /\ (~Dirty(c) \/ c \in pinned) /\ blockno[c] \in Block
    BY Zenon DEF IInv, Clean, Types
  <2>2. CASE c = b
    BY Zenon, <1>1, <1>2, <1>3, <2>1, <2>2 DEF Dirty, IInv, Types
  <2>3. CASE c # b
    <3>1. blockno[c] # blockno[b]
      BY Zenon, <2>1, <2>3 DEF IInv, OneBuffer
    <3>2. disk'[blockno[c]] = disk[blockno[c]]
      BY Zenon, <1>3, <2>1, <3>1 DEF IInv, Types
    <3> QED
      BY Zenon, <1>1, <2>1, <3>2 DEF Dirty
  <2> QED
    BY Zenon, <2>2, <2>3
<1>6. Pins' /\ Refs' /\ Callers' /\ Locks' /\ OneBuffer' /\ NoLostWakeup'
  BY <1>1 DEF IInv, Pins, Refs, Users, Callers, Locks, OneBuffer, NoLostWakeup
<1> QED
  BY Zenon, <1>3, <1>4, <1>5, <1>6 DEF IInv

LEMMA BunpinInv ==
  ASSUME IInv, NEW p \in Proc, bunpin(p)
  PROVE  IInv'
<1>1. /\ pc[p] = "use"
      /\ UNCHANGED <<disk, blockno, valid, data, lock, pc, want, buf, chan>>
  BY Zenon DEF bunpin
<1>2. PICK b \in Buf : b = buf[p]
  BY Zenon, <1>1 DEF IInv, Types, Callers
<1>3. /\ b \in pinned /\ ~Dirty(b) /\ pinned' = pinned \ {b}
      /\ refcnt' = [refcnt EXCEPT ![b] = refcnt[b] - 1]
  BY Zenon, <1>2 DEF bunpin
<1>4. \A c \in Buf : Users(c)' = Users(c) /\ Cardinality(Users(c)) \in Nat
  BY Zenon, <1>1, UsersFinite DEF Users
<1>5. refcnt[b] = Cardinality(Users(b)) + 1 /\ refcnt[b] - 1 \in Nat
  BY <1>3, <1>4 DEF IInv, Refs
<1>6. Types'
  BY Zenon, <1>1, <1>3, <1>5 DEF IInv, Types
<1>7. Refs'
  BY <1>3, <1>4, <1>5 DEF IInv, Refs, Types
<1>8. Pins'
  BY Zenon, <1>3 DEF IInv, Pins
<1>9. Clean'
  BY Zenon, <1>1, <1>3 DEF IInv, Clean, Dirty
<1>10. Callers' /\ Locks' /\ OneBuffer' /\ NoLostWakeup'
  BY <1>1 DEF IInv, Callers, Locks, OneBuffer, NoLostWakeup
<1> QED
  BY Zenon, <1>6, <1>7, <1>8, <1>9, <1>10 DEF IInv

(* brelse's two sections. *)
LEMMA ReleaseInv ==
  ASSUME IInv, NEW p \in Proc, Release(p)
  PROVE  IInv'
<1>1. /\ pc[p] = "use"
      /\ UNCHANGED <<disk, blockno, valid, refcnt, data, want, buf, pinned>>
  BY Zenon DEF Release, releasesleep
<1>2. PICK b \in Buf : b = buf[p] /\ lock[b] = p
  BY <1>1 DEF IInv, Types, Callers, Locks
<1>3. /\ lock' = [lock EXCEPT ![b] = None] /\ pc' = [pc EXCEPT ![p] = "brelse"]
      /\ chan' = [q \in Proc |-> IF chan[q] = b THEN None ELSE chan[q]]
  BY Zenon, <1>2 DEF Release, releasesleep, wakeup, Goto, IInv
<1>4. Types'
  BY Zenon, <1>1, <1>3 DEF IInv, Types
<1>5. Pins' /\ Refs' /\ OneBuffer' /\ Clean'
  BY <1>1 DEF IInv, Pins, Refs, Users, OneBuffer, Clean, Dirty
<1>6. Callers'
  BY Zenon, <1>1, <1>3 DEF IInv, Types, Callers
<1>7. Locks'
  BY <1>1, <1>2, <1>3, BufCacheAssumption DEF IInv, Types, Locks
<1>8. NoLostWakeup'
  BY Zenon, <1>1, <1>3 DEF IInv, Types, NoLostWakeup
<1> QED
  BY Zenon, <1>3, <1>4, <1>5, <1>6, <1>7, <1>8 DEF IInv

LEMMA BrelseInv ==
  ASSUME IInv, NEW p \in Proc, brelse(p)
  PROVE  IInv'
<1>1. /\ pc[p] = "brelse" /\ pc' = [pc EXCEPT ![p] = "idle"]
      /\ buf' = [buf EXCEPT ![p] = None] /\ want' = [want EXCEPT ![p] = None]
      /\ UNCHANGED <<disk, blockno, valid, data, lock, chan, pinned>>
  BY Zenon DEF brelse, Goto
<1>2. PICK b \in Buf : b = buf[p]
  BY Zenon, <1>1 DEF IInv, Types, Callers
<1>3. refcnt' = [refcnt EXCEPT ![b] = refcnt[b] - 1]
  BY Zenon, <1>2 DEF brelse
<1>4. /\ Cardinality(Users(b)') = Cardinality(Users(b)) - 1
      /\ Cardinality(Users(b)) > 0 /\ Cardinality(Users(b)) \in Nat
      /\ \A c \in Buf \ {b} : Users(c)' = Users(c)
  BY Zenon, <1>1, <1>2, UsersShrink, UsersFinite DEF IInv
<1>5. refcnt[b] - 1 \in Nat
  BY <1>4 DEF IInv, Refs
<1>6. Types'
  BY Zenon, <1>1, <1>3, <1>5 DEF IInv, Types
<1>7. Refs'
  BY <1>1, <1>3, <1>4 DEF IInv, Refs, Types
<1>8. Callers' /\ Locks' /\ NoLostWakeup'
  BY SMTT(30), <1>1, <1>2, BufCacheAssumption DEF IInv, Types, Callers, Locks, NoLostWakeup
<1>9. Pins' /\ OneBuffer' /\ Clean'
  BY Zenon, <1>1 DEF IInv, Pins, OneBuffer, Clean, Dirty
<1> QED
  BY Zenon, <1>6, <1>7, <1>8, <1>9 DEF IInv

LEMMA NextInv == IInv /\ [Next]_vars => IInv'
<1> SUFFICES ASSUME IInv, [Next]_vars PROVE IInv'
  BY Zenon
<1>2. CASE UNCHANGED vars
  BY <1>2 DEF vars, IInv, Types, Pins, Refs, Users, Callers, Locks, OneBuffer, Clean,
              Dirty, NoLostWakeup
<1>1. CASE Next
  BY Zenon, <1>1, BgetInv, AcquireInv, BreadInv, LogWriteInv, BwriteInv, BunpinInv, ReleaseInv,
     BrelseInv, <1>2 DEF Next, halted
<1> QED
  BY Zenon, <1>1, <1>2

(* bwrite and releasesleep meet their own lock; bget gives up only on a    *)
(* cache that is full.                                                     *)
LEMMA PanicStep == IInv /\ Panics /\ [Next]_vars => Panics'
<1> SUFFICES ASSUME IInv, Panics, [Next]_vars, panic' # panic PROVE Panics'
  <2>1. CASE UNCHANGED vars
    BY Zenon, <2>1 DEF vars, Panics, Crowded, Inside
  <2>2. CASE panic' = panic /\ panic = "none"
    BY Zenon, <2>2 DEF Panics
  <2> QED
    BY Zenon, <2>1, <2>2 DEF Next, halted
<1>1. PICK p \in Proc : (\E k \in Block : bget(p, k)) \/ bwrite(p) \/ Release(p)
  BY Zenon DEF Next, vars, halted, acquiresleep, sleep, kkill, bread, log_write, bunpin, brelse
<1>2. ASSUME pc[p] = "use" PROVE lock[buf[p]] = p
  BY <1>2 DEF IInv, Types, Callers, Locks
<1>3. PICK k \in Block : bget(p, k)
  BY Zenon, <1>1, <1>2 DEF bwrite, Release, releasesleep
<1>4. Refuses(p)
  BY Zenon, <1>3, BgetTakes DEF Takes
<1> QED
  BY Zenon, <1>4, NoneUnused DEF Refuses, Panics, Crowded, Inside

(***************************************************************************)
(* A buffer's reference count is exact, whatever the interleaving of       *)
(* brelse's two sections with bget, bpin and bunpin; bwrite and brelse     *)
(* never meet a lock that is not theirs, and bget finds no buffer only     *)
(* when the processes inside and the pins take up all of them.             *)
(***************************************************************************)
THEOREM ReferencesExact == Spec => []RefcntExact
<1>1. IInv /\ Panics => RefcntExact
  <2> SUFFICES ASSUME IInv, NEW b \in Buf
               PROVE  refcnt[b] = Cardinality({p \in Proc : buf[p] = b})
                                  + Cardinality(pinned \cap {b})
    BY Zenon DEF RefcntExact, Panics, Crowded, Inside
  <2>1. CASE b \in pinned
    <3>1. pinned \cap {b} = {b}
      BY Zenon, <2>1
    <3>2. Cardinality(pinned \cap {b}) = 1
      BY Zenon, <3>1, FS_Singleton
    <3> QED
      BY Zenon, <2>1, <3>2 DEF IInv, Refs, Users
  <2>2. CASE b \notin pinned
    <3>1. pinned \cap {b} = {}
      BY Zenon, <2>2
    <3>2. Cardinality(pinned \cap {b}) = 0
      BY Zenon, <3>1, FS_EmptySet
    <3> QED
      BY Zenon, <2>2, <3>2 DEF IInv, Refs, Users
  <2> QED
    BY Zenon, <2>1, <2>2
<1>2. Init => Panics
  BY Zenon DEF Init, Panics
<1> QED
  BY <1>1, <1>2, InitInv, NextInv, PanicStep, PTL DEF Spec

(***************************************************************************)
(* acquiresleep and releasesleep lose no wakeup, killed sleepers included. *)
(***************************************************************************)
THEOREM SleepersAreWoken == Spec => []NoLostWakeup
<1>1. IInv => NoLostWakeup
  BY Zenon DEF IInv
<1> QED
  BY <1>1, InitInv, NextInv, PTL DEF Spec

----------------------------------------------------------------------------
(***************************************************************************)
(* The refinement: what a block holds, and who owns it.                    *)
(***************************************************************************)
Contents == [k \in Block |->
               IF \E b \in Hit(k) : valid[b]
                 THEN data[CHOOSE b \in Hit(k) : valid[b]] ELSE disk[k]]

Owner == [k \in Block |->
            IF \E p \in Proc : pc[p] = "use" /\ want[p] = k
              THEN CHOOSE p \in Proc : pc[p] = "use" /\ want[p] = k ELSE None]

(* A block holds what its valid buffer does, or else the disk. *)
ContentsKnown ==
  /\ Contents \in [Block -> Value]
  /\ \A b \in Buf : valid[b] => blockno[b] \in Block /\ Contents[blockno[b]] = data[b]
  /\ \A k \in Block : (\A b \in Buf : blockno[b] = k => ~valid[b]) => Contents[k] = disk[k]

(* Its owner is the one process that uses it. *)
OwnerKnown ==
  /\ Owner \in [Block -> Proc \cup {None}]
  /\ \A p \in Proc : pc[p] = "use" => want[p] \in Block /\ Owner[want[p]] = p
  /\ \A k \in Block : (\A p \in Proc : pc[p] = "use" => want[p] # k) => Owner[k] = None

LEMMA ContentsNow == IInv => ContentsKnown
<1> SUFFICES ASSUME IInv PROVE ContentsKnown
  BY Zenon
<1>1. ASSUME NEW b \in Buf, valid[b]
      PROVE  blockno[b] \in Block /\ Contents[blockno[b]] = data[b]
  <2>1. blockno[b] \in Block
    BY Zenon, <1>1 DEF IInv, Clean, Types
  <2>2. \A c \in Hit(blockno[b]) : c = b
    BY Zenon, <2>1, BufCacheAssumption DEF IInv, OneBuffer, Hit
  <2>3. b \in Hit(blockno[b])
    BY Zenon DEF Hit
  <2>4. (CHOOSE c \in Hit(blockno[b]) : valid[c]) = b
    BY Zenon, <1>1, <2>2, <2>3
  <2> QED
    BY Zenon, <1>1, <2>1, <2>3, <2>4 DEF Contents
<1>2. ASSUME NEW k \in Block, \A b \in Buf : blockno[b] = k => ~valid[b]
      PROVE  Contents[k] = disk[k]
  BY Zenon, <1>2 DEF Contents, Hit
<1>3. \A k \in Block : Contents[k] \in Value
  <2> SUFFICES ASSUME NEW k \in Block PROVE Contents[k] \in Value
    BY Zenon
  <2>1. CASE \E b \in Buf : blockno[b] = k /\ valid[b]
    BY <1>1, <2>1 DEF IInv, Types
  <2>2. CASE \A b \in Buf : blockno[b] = k => ~valid[b]
    BY Zenon, <1>2, <2>2 DEF IInv, Types
  <2> QED
    BY Zenon, <2>1, <2>2
<1>4. Contents \in [Block -> Value]
  BY Zenon, <1>3 DEF Contents
<1> QED
  BY Zenon, <1>1, <1>2, <1>4 DEF ContentsKnown

LEMMA OwnerNow == IInv => OwnerKnown
<1> SUFFICES ASSUME IInv PROVE OwnerKnown
  BY Zenon
<1>1. ASSUME NEW p \in Proc, pc[p] = "use"
      PROVE  want[p] \in Block /\ Owner[want[p]] = p
  <2>1. want[p] \in Block /\ want[p] = blockno[buf[p]] /\ buf[p] \in Buf
    BY Zenon, <1>1 DEF IInv, Callers, Types
  <2>2. ASSUME NEW q \in Proc, pc[q] = "use", want[q] = want[p] PROVE q = p
    <3>1. want[q] = blockno[buf[q]] /\ buf[q] \in Buf
      BY Zenon, <2>2 DEF IInv, Callers, Types
    <3>2. buf[q] = buf[p]
      BY Zenon, <2>1, <2>2, <3>1, BufCacheAssumption DEF IInv, OneBuffer
    <3> QED
      BY Zenon, <1>1, <2>1, <2>2, <3>2 DEF IInv, Locks
  <2>3. (CHOOSE q \in Proc : pc[q] = "use" /\ want[q] = want[p]) = p
    BY Zenon, <1>1, <2>2
  <2> QED
    BY Zenon, <1>1, <2>1, <2>3 DEF Owner
<1>2. ASSUME NEW k \in Block, \A p \in Proc : pc[p] = "use" => want[p] # k
      PROVE  Owner[k] = None
  BY Zenon, <1>2 DEF Owner
<1>3. \A k \in Block : Owner[k] \in Proc \cup {None}
  BY Zenon DEF Owner
<1>4. Owner \in [Block -> Proc \cup {None}]
  BY Zenon, <1>3 DEF Owner
<1> QED
  BY Zenon, <1>1, <1>2, <1>4 DEF OwnerKnown

(* Before and after a step. *)
LEMMA ContentsFacts == (IInv => ContentsKnown) /\ (IInv' => ContentsKnown')
BY ContentsNow, PTL

LEMMA OwnerFacts == (IInv => OwnerKnown) /\ (IInv' => OwnerKnown')
BY OwnerNow, PTL

(* When a step changes neither, block by block, it is a stutter. *)
LEMMA SameContents ==
  ASSUME IInv, IInv',
         \A k \in Block : Contents'[k] = Contents[k]
  PROVE  Contents' = Contents
BY Zenon, ContentsFacts DEF Contents, ContentsKnown

LEMMA SameOwner ==
  ASSUME \A p \in Proc : (pc'[p] = "use" <=> pc[p] = "use") /\ (pc[p] = "use" => want'[p] = want[p])
  PROVE  Owner' = Owner
<1>1. ASSUME NEW k \in Block
      PROVE  \A p \in Proc : (pc'[p] = "use" /\ want'[p] = k) <=> (pc[p] = "use" /\ want[p] = k)
  BY Zenon
<1> QED
  BY ZenonT(40), <1>1 DEF Owner

(* A miss evicts a clean block and gives its buffer to one that is not      *)
(* cached: no block changes what it holds.                                  *)
LEMMA BgetStutters ==
  ASSUME IInv, IInv', NEW p \in Proc, NEW k \in Block, bget(p, k)
  PROVE  UNCHANGED <<Contents, Owner>>
<1>r. CASE Refuses(p)
  <2>1. UNCHANGED <<disk, blockno, valid, data, pc>> /\ pc[p] = "idle"
    BY Zenon, <1>r DEF Refuses
  <2>2. PICK j \in Block : want' = [want EXCEPT ![p] = j]
    BY Zenon, <1>r DEF Refuses
  <2>3. \A q \in Proc : pc[q] = "use" => want'[q] = want[q]
    BY Zenon, <2>1, <2>2 DEF IInv, Types
  <2>4. Owner' = Owner
    BY Zenon, <2>1, <2>3, SameOwner
  <2> QED
    BY Zenon, <2>1, <2>4 DEF Contents, Hit
<1> SUFFICES ASSUME ~Refuses(p) PROVE UNCHANGED <<Contents, Owner>>
  BY Zenon, <1>r
<1>1. PICK b \in Buf : Takes(p, k, b)
  BY Zenon, BgetTakes
<1>2. pc[p] = "idle" /\ UNCHANGED <<disk, data>>
  BY Zenon, <1>1 DEF Takes
<1>3. Owner' = Owner
  BY SMTT(30), <1>1, <1>2, SameOwner DEF Takes, IInv, Types
<1>4. CASE UNCHANGED <<blockno, valid>>
  BY Zenon, <1>2, <1>3, <1>4 DEF Contents, Hit
<1>5. CASE /\ \A c \in Buf : blockno[c] # k
           /\ b \notin pinned
           /\ blockno' = [blockno EXCEPT ![b] = k]
           /\ valid' = [valid EXCEPT ![b] = FALSE]
  <2>1. \A c \in Buf \ {b} : blockno'[c] = blockno[c] /\ valid'[c] = valid[c]
    BY Zenon, <1>5 DEF IInv, Types
  <2>2. ~valid'[b]
    BY Zenon, <1>5 DEF IInv, Types
  <2>3. ASSUME NEW j \in Block PROVE Contents'[j] = Contents[j]
    <3>1. CASE \E c \in Buf \ {b} : blockno[c] = j /\ valid[c]
      <4>1. PICK c \in Buf \ {b} : blockno[c] = j /\ valid[c]
        BY Zenon, <3>1
      <4>2. Contents[j] = data[c]
        BY Zenon, <4>1, ContentsFacts DEF ContentsKnown
      <4>3. blockno'[c] = j /\ valid'[c]
        BY Zenon, <2>1, <4>1
      <4>4. Contents'[j] = data'[c]
        BY Zenon, <4>3, ContentsFacts DEF ContentsKnown
      <4> QED
        BY Zenon, <1>2, <4>2, <4>4
    <3>2. CASE blockno[b] = j /\ valid[b]
      <4>1. Contents[j] = data[b] /\ data[b] = disk[j]
        BY Zenon, <1>5, <3>2, ContentsFacts DEF IInv, Clean, Dirty, ContentsKnown
      <4>2. \A c \in Buf : blockno'[c] = j => ~valid'[c]
        BY Zenon, <2>1, <2>2, <3>2, BufCacheAssumption DEF IInv, OneBuffer
      <4>3. Contents'[j] = disk'[j]
        BY Zenon, <4>2, ContentsFacts DEF ContentsKnown
      <4> QED
        BY Zenon, <1>2, <4>1, <4>3
    <3>3. CASE \A c \in Buf : blockno[c] = j => ~valid[c]
      <4>1. \A c \in Buf : blockno'[c] = j => ~valid'[c]
        BY Zenon, <2>1, <2>2, <3>3
      <4>2. Contents[j] = disk[j] /\ Contents'[j] = disk'[j]
        BY Zenon, <3>3, <4>1, ContentsFacts DEF ContentsKnown
      <4> QED
        BY Zenon, <1>2, <4>2
    <3> QED
      BY Zenon, <3>1, <3>2, <3>3
  <2> QED
    BY Zenon, <1>3, <2>3, SameContents
<1> QED
  BY Zenon, <1>1, <1>4, <1>5 DEF Takes

(* bread's read of the disk changes no contents; its caller owns the block. *)
LEMMA BreadOwns ==
  ASSUME IInv, IInv', NEW p \in Proc, bread(p)
  PROVE  /\ want[p] \in Block /\ Owner[want[p]] = None
         /\ Owner' = [Owner EXCEPT ![want[p]] = p] /\ Contents' = Contents
<1>1. /\ pc[p] = "bread" /\ pc' = [pc EXCEPT ![p] = "use"]
      /\ UNCHANGED <<disk, blockno, want, buf>>
  BY Zenon DEF bread, Goto
<1>2. PICK b \in Buf : b = buf[p] /\ blockno[b] = want[p] /\ want[p] \in Block
  BY <1>1 DEF IInv, Types, Callers
<1>3. /\ valid'[b] /\ \A c \in Buf \ {b} : valid'[c] = valid[c] /\ data'[c] = data[c]
      /\ IF valid[b] THEN data'[b] = data[b] ELSE data'[b] = disk[blockno[b]]
  BY Zenon, <1>2 DEF bread, IInv, Types
<1>4. \A q \in Proc : pc[q] = "use" => want[q] # want[p]
  <2> SUFFICES ASSUME NEW q \in Proc, pc[q] = "use", want[q] = want[p] PROVE FALSE
    BY Zenon
  <2>1. buf[q] \in Buf /\ blockno[buf[q]] = want[p]
    BY Zenon DEF IInv, Types, Callers
  <2>2. buf[q] = b
    BY Zenon, <1>2, <2>1, BufCacheAssumption DEF IInv, OneBuffer
  <2> QED
    BY <1>1, <1>2, <2>2 DEF IInv, Locks
<1>5. Owner[want[p]] = None
  BY Zenon, <1>2, <1>4, OwnerFacts DEF OwnerKnown
<1>6. Owner' = [Owner EXCEPT ![want[p]] = p]
  <2>1. ASSUME NEW k \in Block
        PROVE  Owner'[k] = IF k = want[p] THEN p ELSE Owner[k]
    <3>1. CASE k = want[p]
      <4>1. pc'[p] = "use" /\ want'[p] = k
        BY Zenon, <1>1, <3>1 DEF IInv, Types
      <4> QED
        BY Zenon, <3>1, <4>1, OwnerFacts DEF OwnerKnown
    <3>2. CASE k # want[p]
      <4>1. \A q \in Proc : (pc'[q] = "use" /\ want'[q] = k) <=> (pc[q] = "use" /\ want[q] = k)
        BY Zenon, <1>1, <3>2 DEF IInv, Types
      <4> QED
        BY Zenon, <3>2, <4>1 DEF Owner
    <3> QED
      BY Zenon, <3>1, <3>2
  <2>2. DOMAIN Owner' = Block /\ DOMAIN Owner = Block
    BY Zenon DEF Owner
  <2> QED
    BY <2>1, <2>2, OwnerFacts DEF OwnerKnown
<1>7. ASSUME NEW k \in Block PROVE Contents'[k] = Contents[k]
  <2>1. CASE k = want[p]
    <3>1. Contents'[k] = data'[b]
      BY SMTT(30), <1>1, <1>2, <1>3, <2>1, ContentsFacts DEF ContentsKnown
    <3>2. CASE valid[b]
      BY SMTT(30), <1>2, <1>3, <2>1, <3>1, <3>2, ContentsFacts DEF ContentsKnown
    <3>3. CASE ~valid[b]
      <4>1. \A c \in Buf : blockno[c] = k => ~valid[c]
        BY Zenon, <1>2, <2>1, <3>3, BufCacheAssumption DEF IInv, OneBuffer
      <4> QED
        BY SMTT(30), <1>2, <1>3, <2>1, <3>1, <3>3, <4>1, ContentsFacts DEF ContentsKnown
    <3> QED
      BY Zenon, <3>2, <3>3
  <2>2. CASE \E c \in Buf \ {b} : blockno[c] = k /\ valid[c]
    BY <1>1, <1>3, <2>2, ContentsFacts DEF ContentsKnown
  <2>3. CASE k # want[p] /\ \A c \in Buf : blockno[c] = k => ~valid[c]
    <3>1. \A c \in Buf : blockno'[c] = k => ~valid'[c]
      BY ZenonT(40), <1>1, <1>2, <1>3, <2>3
    <3> QED
      BY Zenon, <1>1, <2>3, <3>1, ContentsFacts DEF ContentsKnown
  <2> QED
    BY Zenon, <1>2, <2>1, <2>2, <2>3
<1> QED
  BY Zenon, <1>2, <1>5, <1>6, <1>7, SameContents

(* log_write changes the block its caller owns, and no other. *)
LEMMA LogWriteModifies ==
  ASSUME IInv, IInv', NEW p \in Proc, NEW v \in Value, log_write(p, v)
  PROVE  /\ want[p] \in Block /\ Owner[want[p]] = p
         /\ Contents' = [Contents EXCEPT ![want[p]] = v] /\ Owner' = Owner
<1>1. pc[p] = "use" /\ UNCHANGED <<disk, blockno, valid, pc, want, buf>>
  BY Zenon DEF log_write
<1>2. PICK b \in Buf : b = buf[p] /\ blockno[b] = want[p] /\ want[p] \in Block /\ valid[b]
  BY <1>1 DEF IInv, Types, Callers
<1>3. data'[b] = v /\ \A c \in Buf \ {b} : data'[c] = data[c]
  BY Zenon, <1>2 DEF log_write, IInv, Types
<1>4. ASSUME NEW k \in Block
      PROVE  Contents'[k] = IF k = want[p] THEN v ELSE Contents[k]
  <2>1. CASE k = want[p]
    BY SMTT(30), <1>1, <1>2, <1>3, <2>1, ContentsFacts DEF ContentsKnown
  <2>2. CASE k # want[p] /\ \E c \in Buf : blockno[c] = k /\ valid[c]
    BY SMTT(30), <1>1, <1>2, <1>3, <2>2, ContentsFacts DEF ContentsKnown
  <2>3. CASE k # want[p] /\ \A c \in Buf : blockno[c] = k => ~valid[c]
    BY Zenon, <1>1, <2>3, ContentsFacts DEF ContentsKnown
  <2> QED
    BY Zenon, <2>1, <2>2, <2>3
<1>5. DOMAIN Contents' = Block /\ DOMAIN Contents = Block
  BY Zenon DEF Contents
<1>6. Contents' = [Contents EXCEPT ![want[p]] = v]
  BY SMTT(30), <1>4, <1>5, ContentsFacts DEF ContentsKnown
<1> QED
  BY SMTT(30), <1>1, <1>2, <1>6, OwnerFacts DEF Owner, OwnerKnown

(* A write of a cached block leaves what it holds. *)
LEMMA BwriteStutters ==
  ASSUME IInv, IInv', NEW p \in Proc, bwrite(p)
  PROVE  UNCHANGED <<Contents, Owner>>
<1>1. pc[p] = "use" /\ UNCHANGED <<blockno, valid, data, pc, want, buf>>
  BY Zenon DEF bwrite
<1>2. PICK b \in Buf : b = buf[p] /\ blockno[b] \in Block /\ valid[b] /\ lock[b] = p
  BY <1>1 DEF IInv, Types, Callers, Locks
<1>3. \A k \in Block : k # blockno[b] => disk'[k] = disk[k]
  BY <1>2 DEF bwrite, IInv, Types
<1>4. ASSUME NEW k \in Block PROVE Contents'[k] = Contents[k]
  <2>1. CASE \E c \in Buf : blockno[c] = k /\ valid[c]
    BY SMTT(30), <1>1, <2>1, ContentsFacts DEF ContentsKnown
  <2>2. CASE \A c \in Buf : blockno[c] = k => ~valid[c]
    BY ZenonT(40), <1>1, <1>2, <1>3, <2>2, ContentsFacts DEF ContentsKnown
  <2> QED
    BY Zenon, <2>1, <2>2
<1> QED
  BY Zenon, <1>1, <1>4, SameContents DEF Owner

(* releasesleep ends the ownership. *)
LEMMA ReleaseGivesUp ==
  ASSUME IInv, IInv', NEW p \in Proc, Release(p)
  PROVE  /\ want[p] \in Block /\ Owner[want[p]] = p
         /\ Owner' = [Owner EXCEPT ![want[p]] = None] /\ Contents' = Contents
<1>1. /\ pc[p] = "use" /\ UNCHANGED <<disk, blockno, valid, data, want, buf>>
  BY Zenon DEF Release, releasesleep
<1>2. lock[buf[p]] = p
  BY <1>1 DEF IInv, Types, Callers, Locks
<1>3. pc' = [pc EXCEPT ![p] = "brelse"]
  BY Zenon, <1>2 DEF Release, releasesleep, Goto
<1>4. want[p] \in Block /\ Owner[want[p]] = p
  BY Zenon, <1>1, OwnerFacts DEF OwnerKnown
<1>5. ASSUME NEW k \in Block
      PROVE  Owner'[k] = IF k = want[p] THEN None ELSE Owner[k]
  <2>1. CASE k = want[p]
    <3>1. \A q \in Proc : pc[q] = "use" /\ want[q] = k => q = p
      BY Zenon, <1>4, <2>1, OwnerFacts DEF OwnerKnown
    <3>2. \A q \in Proc : pc'[q] = "use" => want'[q] # k
      BY Zenon, <1>1, <1>3, <3>1 DEF IInv, Types
    <3> QED
      BY Zenon, <2>1, <3>2, OwnerFacts DEF OwnerKnown
  <2>2. CASE k # want[p]
    <3>1. \A q \in Proc : (pc'[q] = "use" /\ want'[q] = k) <=> (pc[q] = "use" /\ want[q] = k)
      BY Zenon, <1>1, <1>3, <2>2 DEF IInv, Types
    <3> QED
      BY Zenon, <2>2, <3>1 DEF Owner
  <2> QED
    BY Zenon, <2>1, <2>2
<1>6. DOMAIN Owner' = Block /\ DOMAIN Owner = Block
  BY Zenon DEF Owner
<1>7. Owner' = [Owner EXCEPT ![want[p]] = None]
  BY <1>5, <1>6, OwnerFacts DEF OwnerKnown
<1> QED
  BY Zenon, <1>1, <1>4, <1>7 DEF Contents, Hit

(* The other steps move no block and no owner. *)
LEMMA QuietSteps ==
  ASSUME IInv, NEW p \in Proc,
         acquiresleep(p) \/ sleep(p) \/ kkill(p) \/ bunpin(p) \/ brelse(p)
  PROVE  UNCHANGED <<Contents, Owner>>
<1>1. UNCHANGED <<disk, blockno, valid, data>>
  BY Zenon DEF acquiresleep, sleep, kkill, bunpin, brelse
<1>2. \A q \in Proc : (pc'[q] = "use" <=> pc[q] = "use") /\ (pc[q] = "use" => want'[q] = want[q])
  BY DEF acquiresleep, sleep, kkill, bunpin, brelse, Goto, IInv, Types
<1> QED
  BY Zenon, <1>1, <1>2, SameOwner DEF Contents, Hit

LEMMA RefNext ==
  ASSUME IInv, IInv', [Next]_vars
  PROVE  [Store!Next]_<<Contents, Owner>>
<1>1. ASSUME NEW p \in Proc, NEW k \in Block, bget(p, k)
      PROVE  UNCHANGED <<Contents, Owner>>
  BY Zenon, <1>1, BgetStutters
<1>2. ASSUME NEW p \in Proc, bread(p) PROVE Store!Next
  <2> PICK k \in Block : k = want[p]
    BY Zenon, <1>2, BreadOwns
  <2>1. Store!Bread(p, k)
    BY Zenon, <1>2, BreadOwns DEF Store!Bread, Contents, Owner
  <2> QED
    BY Zenon, <2>1 DEF Store!Next
<1>3. ASSUME NEW p \in Proc, NEW v \in Value, log_write(p, v) PROVE Store!Next
  <2> PICK k \in Block : k = want[p]
    BY Zenon, <1>3, LogWriteModifies
  <2>1. Store!Modify(p, k, v)
    BY Zenon, <1>3, LogWriteModifies DEF Store!Modify, Contents, Owner
  <2> QED
    BY Zenon, <2>1 DEF Store!Next
<1>4. ASSUME NEW p \in Proc, Release(p) PROVE Store!Next
  <2> PICK k \in Block : k = want[p]
    BY Zenon, <1>4, ReleaseGivesUp
  <2>1. Store!Brelse(p, k)
    BY Zenon, <1>4, ReleaseGivesUp DEF Store!Brelse, Contents, Owner
  <2> QED
    BY Zenon, <2>1 DEF Store!Next
<1>5. ASSUME NEW p \in Proc,
             \/ acquiresleep(p) \/ sleep(p) \/ kkill(p) \/ bunpin(p) \/ brelse(p) \/ bwrite(p)
      PROVE  UNCHANGED <<Contents, Owner>>
  BY Zenon, <1>5, QuietSteps, BwriteStutters
<1>6. CASE UNCHANGED vars
  BY Zenon, <1>6 DEF vars, Contents, Owner, Hit
<1> QED
  BY Zenon, <1>1, <1>2, <1>3, <1>4, <1>5, <1>6 DEF Next, halted

(***************************************************************************)
(* The cache implements BlockStore for every number of processes, buffers  *)
(* and blocks: through hits, evictions and reads back, a block has one     *)
(* value, which only the process between its bread and brelse changes.     *)
(***************************************************************************)
THEOREM CacheIsCoherent == Spec => Coherent
<1>1. Init => Store!Init
  <2> SUFFICES ASSUME Init PROVE Store!Init
    BY Zenon
  <2>1. IInv
    BY Zenon, InitInv
  <2>2. Contents \in [Block -> Value]
    BY Zenon, <2>1, ContentsFacts DEF ContentsKnown
  <2>3. Owner = [k \in Block |-> None]
    BY Zenon DEF Init, Owner
  <2> QED
    BY Zenon, <2>2, <2>3 DEF Store!Init, Contents, Owner
<1>2. IInv /\ IInv' /\ [Next]_vars => [Store!Next]_(Store!storevars)
  BY Zenon, RefNext DEF Store!storevars, Contents, Owner
<1> QED
  BY <1>1, <1>2, InitInv, NextInv, PTL DEF Spec, Coherent, Store!Spec

=============================================================================
