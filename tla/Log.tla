-------------------------------- MODULE Log --------------------------------
(***************************************************************************)
(* The write-ahead log of kernel/log.c: begin_op, log_write, end_op with   *)
(* group commit, sys_sync, a crash at any point, and recovery at boot.     *)
(*                                                                         *)
(* Every section of code that runs under log.lock is one step.  A bwrite   *)
(* of one block is one step, and the only atomic change of the disk: a     *)
(* crash may come between any two of them.  What a block holds is a        *)
(* member of Value.                                                        *)
(***************************************************************************)
EXTENDS Naturals, Sequences, FiniteSets, Functions

CONSTANTS
  Proc,         \* processes that make file-system calls
  Block,        \* home blocks: disk blocks outside the log area
  Value,        \* contents of a block
  NotCached,    \* no buffer holds the block
  MAXOPBLOCKS,  \* log space begin_op reserves for one operation
  LOGBLOCKS,    \* data blocks of the log area
  OpBlocks,     \* distinct blocks one operation of fs.c/sysfile.c logs
  MaxOps        \* bound: operations started between two crashes

ASSUME LogAssumption ==
  /\ IsFiniteSet(Proc)
  /\ NotCached \notin Value
  /\ MAXOPBLOCKS \in Nat /\ LOGBLOCKS \in Nat /\ MaxOps \in Nat
  /\ OpBlocks \in Nat /\ OpBlocks < MAXOPBLOCKS
  /\ MAXOPBLOCKS <= LOGBLOCKS

VARIABLES
  home,         \* disk: home blocks
  logarea,      \* disk: blocks log.start+1 .. log.start+LOGBLOCKS
  head,         \* disk: the header block at log.start (its block[0..n-1])
  cache,        \* contents of the buffer of a home block, or NotCached
  pins,         \* bpin count of the buffer of a home block
  lh,           \* log.lh
  outstanding, committing, ncommit,   \* the other fields of struct log
  tail,         \* loop counter of write_log and install_trans
  boot,         \* where initlog is; "up" once it returned
  pc,           \* where each process is
  chan,         \* the processes whose p->chan is &log
  target,       \* n in sys_sync
  wset,         \* blocks the current operation of a process logged
  ops,          \* operations started since boot
  panic,        \* the kernel panicked
  late,         \* history: an operation that wrote ended after the last commit
  owed          \* history: the processes in sys_sync that late held for

disk == <<home, logarea, head>>
history == <<late, owed>>
vars == <<home, logarea, head, cache, pins, lh, outstanding, committing,
          ncommit, tail, boot, pc, chan, target, wset, ops, panic, late, owed>>

Goto(p, l) == pc' = [pc EXCEPT ![p] = l]

(* What bread(b) returns. *)
Contents(b) == IF cache[b] = NotCached THEN home[b] ELSE cache[b]

(* bpin and bunpin of the buffer of b. *)
bpin(b) == pins' = [pins EXCEPT ![b] = @ + 1]
bunpin(b) == pins' = [pins EXCEPT ![b] = @ - 1]

(* wakeup(&log). *)
MutNoWakeup == UNCHANGED chan
wakeup == chan' = {}

(* The exit of the loops of write_log and install_trans. *)
MutOneShort == tail + 1 >= Len(lh)
LoopDone == tail = Len(lh)

(* The condition of the second branch of begin_op: no room for one more. *)
LogFull == Len(lh) + (outstanding + 1) * MAXOPBLOCKS > LOGBLOCKS

(***************************************************************************)
(* begin_op: StartOp is the call; begin_op is one turn of its loop; the    *)
(* process leaves sleep() when its channel was cleared (wakeup), or, its   *)
(* channel left as it is, when it is killed.                               *)
(***************************************************************************)
StartOp(p) ==
  /\ pc[p] = "idle" /\ ops < MaxOps
  /\ ops' = ops + 1
  /\ Goto(p, "begin_op")
  /\ UNCHANGED <<disk, cache, pins, lh, outstanding, committing, ncommit,
                 tail, boot, chan, target, wset, panic, history>>

MutJoinCommit(p) ==
  /\ pc[p] = "begin_op" /\ ~LogFull
  /\ outstanding' = outstanding + 1
  /\ wset' = [wset EXCEPT ![p] = {}]
  /\ Goto(p, "op")
  /\ UNCHANGED <<disk, cache, pins, lh, committing, ncommit, tail, boot, chan,
                 target, ops, panic, history>>

begin_op(p) ==
  /\ pc[p] = "begin_op"
  /\ IF committing \/ LogFull
       THEN /\ chan' = chan \cup {p}
            /\ Goto(p, "begin_op_sleep")
            /\ UNCHANGED <<outstanding, wset>>
       ELSE /\ outstanding' = outstanding + 1
            /\ wset' = [wset EXCEPT ![p] = {}]
            /\ Goto(p, "op")
            /\ UNCHANGED chan
  /\ UNCHANGED <<disk, cache, pins, lh, committing, ncommit, tail, boot,
                 target, ops, panic, history>>

Resume(p) == Goto(p, IF pc[p] = "begin_op_sleep" THEN "begin_op" ELSE "sys_sync")

Asleep(p) == pc[p] \in {"begin_op_sleep", "sys_sync_sleep"}

sleep(p) ==
  /\ Asleep(p) /\ p \notin chan
  /\ Resume(p)
  /\ UNCHANGED <<disk, cache, pins, lh, outstanding, committing, ncommit,
                 tail, boot, chan, target, wset, ops, panic, history>>

kkill(p) ==
  /\ Asleep(p) /\ p \in chan
  /\ Resume(p)
  /\ UNCHANGED <<disk, cache, pins, lh, outstanding, committing, ncommit,
                 tail, boot, chan, target, wset, ops, panic, history>>

(***************************************************************************)
(* log_write(b) of an operation, with the bread of b, the change of its    *)
(* data and the brelse around it: they run under the buffer's sleep-lock.  *)
(***************************************************************************)
log_write(p, b, v) ==
  /\ pc[p] = "op"
  /\ Cardinality(wset[p] \cup {b}) <= OpBlocks
  /\ cache' = [cache EXCEPT ![b] = v]
  /\ wset' = [wset EXCEPT ![p] = @ \cup {b}]
  /\ IF Len(lh) >= LOGBLOCKS \/ outstanding < 1
       THEN /\ panic' = TRUE
            /\ UNCHANGED <<lh, pins>>
       ELSE /\ UNCHANGED panic
            /\ IF b \in Range(lh) THEN UNCHANGED <<lh, pins>>
               ELSE lh' = Append(lh, b) /\ bpin(b)
  /\ UNCHANGED <<disk, outstanding, committing, ncommit, tail, boot, pc,
                 chan, target, ops, history>>

(***************************************************************************)
(* end_op up to its first release(&log.lock); commit() follows when this   *)
(* was the last open operation.                                            *)
(***************************************************************************)
end_op(p) ==
  /\ pc[p] = "op"
  /\ outstanding' = outstanding - 1
  /\ late' = (late \/ wset[p] # {})
  /\ panic' = (panic \/ committing)
  /\ IF outstanding' = 0
       THEN /\ committing' = TRUE
            /\ tail' = 0
            /\ Goto(p, IF lh # <<>> THEN "write_log" ELSE "end_commit")
            /\ UNCHANGED chan
       ELSE /\ wakeup
            /\ Goto(p, "idle")
            /\ UNCHANGED <<committing, tail>>
  /\ UNCHANGED <<disk, cache, pins, lh, ncommit, boot, target, wset, ops, owed>>

write_log(p) ==
  /\ pc[p] = "write_log" /\ tail < Len(lh)
  /\ logarea' = [logarea EXCEPT ![tail + 1] = Contents(lh[tail + 1])]
  /\ cache' = [cache EXCEPT ![lh[tail + 1]] = Contents(lh[tail + 1])]
  /\ tail' = tail + 1
  /\ UNCHANGED <<home, head, pins, lh, outstanding, committing, ncommit, boot,
                 pc, chan, target, wset, ops, panic, history>>

(* The first write_head of commit(): the commit point. *)
write_head(p) ==
  /\ pc[p] = "write_log" /\ LoopDone
  /\ head' = lh
  /\ tail' = 0
  /\ late' = FALSE /\ owed' = {}
  /\ Goto(p, "install_trans")
  /\ UNCHANGED <<home, logarea, cache, pins, lh, outstanding, committing,
                 ncommit, boot, chan, target, wset, ops, panic>>

(* One turn of install_trans's loop: bread, memmove, bwrite. *)
Install ==
  /\ tail < Len(lh)
  /\ home' = [home EXCEPT ![lh[tail + 1]] = logarea[tail + 1]]
  /\ cache' = [cache EXCEPT ![lh[tail + 1]] = logarea[tail + 1]]
  /\ tail' = tail + 1

install_trans(p) ==
  /\ pc[p] = "install_trans"
  /\ Install
  /\ bunpin(lh[tail + 1])
  /\ UNCHANGED <<logarea, head, lh, outstanding, committing, ncommit, boot,
                 pc, chan, target, wset, ops, panic, history>>

(* The end of commit(): log.lh.n = 0 and the second write_head. *)
clear_head(p) ==
  /\ pc[p] = "install_trans" /\ LoopDone
  /\ lh' = <<>> /\ head' = <<>>
  /\ Goto(p, "end_commit")
  /\ UNCHANGED <<home, logarea, cache, pins, outstanding, committing, ncommit,
                 tail, boot, chan, target, wset, ops, panic, history>>

(* The second half of end_op. *)
end_commit(p) ==
  /\ pc[p] = "end_commit"
  /\ committing' = FALSE
  /\ ncommit' = ncommit + 1
  /\ wakeup
  /\ Goto(p, "idle")
  /\ UNCHANGED <<disk, cache, pins, lh, outstanding, tail, boot, target, wset,
                 ops, panic, history>>

(***************************************************************************)
(* sys_sync: sync_call is its entry, sys_sync one later turn of its loop.  *)
(***************************************************************************)
MutIgnoreCommitting == outstanding > 0
SyncMustWait == committing \/ outstanding > 0

sync_call(p) ==
  /\ pc[p] = "idle"
  /\ owed' = IF late THEN owed \cup {p} ELSE owed \ {p}
  /\ IF SyncMustWait
       THEN /\ target' = [target EXCEPT ![p] = ncommit + 1]
            /\ chan' = chan \cup {p}
            /\ Goto(p, "sys_sync_sleep")
       ELSE /\ Goto(p, "sync_return")
            /\ UNCHANGED <<target, chan>>
  /\ UNCHANGED <<disk, cache, pins, lh, outstanding, committing, ncommit,
                 tail, boot, wset, ops, panic, late>>

sys_sync(p) ==
  /\ pc[p] = "sys_sync"
  /\ IF ncommit < target[p]
       THEN /\ chan' = chan \cup {p}
            /\ Goto(p, "sys_sync_sleep")
       ELSE /\ Goto(p, "sync_return")
            /\ UNCHANGED chan
  /\ UNCHANGED <<disk, cache, pins, lh, outstanding, committing, ncommit,
                 tail, boot, target, wset, ops, panic, history>>

sync_return(p) ==
  /\ pc[p] = "sync_return"
  /\ target' = [target EXCEPT ![p] = 0]
  /\ Goto(p, "idle")
  /\ UNCHANGED <<disk, cache, pins, lh, outstanding, committing, ncommit,
                 tail, boot, chan, wset, ops, panic, history>>

(* bget recycles an unreferenced buffer: an unpinned block leaves the cache. *)
Evict(b) ==
  /\ cache[b] # NotCached /\ pins[b] = 0
  /\ cache' = [cache EXCEPT ![b] = NotCached]
  /\ UNCHANGED <<disk, pins, lh, outstanding, committing, ncommit, tail, boot,
                 pc, chan, target, wset, ops, panic, history>>

(* A process reads a block, in a transaction or not (readi). *)
Bread(b) ==
  /\ cache[b] = NotCached
  /\ cache' = [cache EXCEPT ![b] = home[b]]
  /\ UNCHANGED <<disk, pins, lh, outstanding, committing, ncommit, tail, boot,
                 pc, chan, target, wset, ops, panic, history>>

(***************************************************************************)
(* A crash keeps the disk and nothing else; recovery is recover_from_log.  *)
(***************************************************************************)
Crash ==
  /\ cache' = [b \in Block |-> NotCached]
  /\ pins' = [b \in Block |-> 0]
  /\ lh' = <<>> /\ outstanding' = 0 /\ committing' = FALSE /\ ncommit' = 0
  /\ tail' = 0 /\ boot' = "read_head"
  /\ pc' = [p \in Proc |-> "idle"] /\ chan' = {}
  /\ target' = [p \in Proc |-> 0] /\ wset' = [p \in Proc |-> {}]
  /\ ops' = 0 /\ panic' = FALSE /\ late' = FALSE /\ owed' = {}
  /\ UNCHANGED disk

read_head ==
  /\ boot = "read_head"
  /\ lh' = head /\ tail' = 0
  /\ boot' = "install_trans"
  /\ UNCHANGED <<disk, cache, pins, outstanding, committing, ncommit, pc, chan,
                 target, wset, ops, panic, history>>

recover_install ==
  /\ boot = "install_trans"
  /\ Install
  /\ UNCHANGED <<logarea, head, pins, lh, outstanding, committing, ncommit,
                 boot, pc, chan, target, wset, ops, panic, history>>

recover_clear ==
  /\ boot = "install_trans" /\ LoopDone
  /\ lh' = <<>> /\ head' = <<>>
  /\ boot' = "up"
  /\ UNCHANGED <<home, logarea, cache, pins, outstanding, committing, ncommit,
                 tail, pc, chan, target, wset, ops, panic, history>>

(* mkfs zeroes every block and so leaves an empty log header; volatile      *)
(* state starts as a crash leaves it.                                       *)
Init ==
  /\ home \in [Block -> Value]
  /\ \E zero \in Value : logarea = [i \in 1..LOGBLOCKS |-> zero]
  /\ head = <<>>
  /\ cache = [b \in Block |-> NotCached]
  /\ pins = [b \in Block |-> 0]
  /\ lh = <<>> /\ outstanding = 0 /\ committing = FALSE /\ ncommit = 0
  /\ tail = 0 /\ boot = "read_head"
  /\ pc = [p \in Proc |-> "idle"] /\ chan = {}
  /\ target = [p \in Proc |-> 0] /\ wset = [p \in Proc |-> {}]
  /\ ops = 0 /\ panic = FALSE /\ late = FALSE /\ owed = {}

Commit(p) ==
  write_log(p) \/ write_head(p) \/ install_trans(p) \/ clear_head(p) \/ end_commit(p)

Recover == read_head \/ recover_install \/ recover_clear

(* Steps the process takes by itself once it is inside a call. *)
Progress(p) ==
  begin_op(p) \/ sleep(p) \/ end_op(p) \/ Commit(p) \/ sys_sync(p) \/ sync_return(p)

Running(p) ==
  \/ StartOp(p) \/ kkill(p) \/ sync_call(p) \/ Progress(p)
  \/ \E b \in Block, v \in Value : log_write(p, b, v)

Next ==
  \/ Crash
  \/ Recover
  \/ /\ boot = "up" /\ ~panic
     /\ \/ \E p \in Proc : Running(p)
        \/ \E b \in Block : Evict(b) \/ Bread(b)

Spec == Init /\ [][Next]_vars

----------------------------------------------------------------------------
(* The fairness of the scheduler's round-robin scan: a process that is not  *)
(* asleep is run again.  A call in progress goes on; no new call is forced. *)
Fairness ==
  /\ WF_vars(Recover)
  /\ \A p \in Proc : WF_vars(boot = "up" /\ ~panic /\ Progress(p))

FairSpec == Spec /\ Fairness

----------------------------------------------------------------------------
(* What recovery would leave on the home blocks if the machine stopped now. *)
Recovered ==
  [b \in Block |-> IF b \in Range(head)
                     THEN logarea[CHOOSE i \in DOMAIN head : head[i] = b]
                     ELSE home[b]]

(* The contents the system works on. *)
Current == IF boot = "up" THEN [b \in Block |-> Contents(b)] ELSE Recovered

OpenOps == {p \in Proc : pc[p] = "op"}

(* Log implements TxDisk: group commit is atomic and durable whatever the   *)
(* point of a crash, during recovery included (log.c commit, recover_from_log). *)
Tx == INSTANCE TxDisk WITH durable <- Recovered, current <- Current, open <- OpenOps
AtomicCommit == Tx!Spec

PcValues == {"idle", "begin_op", "begin_op_sleep", "op", "write_log",
             "install_trans", "end_commit", "sys_sync", "sys_sync_sleep",
             "sync_return"}

(* Type invariant of struct log, the disk areas and the per-process state. *)
TypeOK ==
  /\ home \in [Block -> Value]
  /\ logarea \in [1..LOGBLOCKS -> Value]
  /\ head \in Seq(Block)
  /\ cache \in [Block -> Value \cup {NotCached}]
  /\ pins \in [Block -> Nat]
  /\ lh \in Seq(Block) /\ outstanding \in Nat /\ committing \in BOOLEAN
  /\ ncommit \in Nat /\ tail \in Nat
  /\ boot \in {"read_head", "install_trans", "up"}
  /\ pc \in [Proc -> PcValues] /\ chan \subseteq Proc
  /\ target \in [Proc -> Nat] /\ wset \in [Proc -> SUBSET Block]
  /\ ops \in Nat /\ panic \in BOOLEAN /\ late \in BOOLEAN
  /\ owed \subseteq Proc

(* The reservation of begin_op is enough: no panic of log_write ("too big a *)
(* transaction", "log_write outside of trans") or end_op ("log.committing") *)
(* is reachable while every operation logs at most OpBlocks blocks.         *)
NoPanic == ~panic

(* A header on disk names only blocks whose data is already in the log      *)
(* area: write_head comes strictly after write_log.                         *)
HeaderNamesLoggedData ==
  boot = "up" => \A i \in DOMAIN head : logarea[i] = Contents(head[i])

(* A buffer whose contents are not yet at home is pinned, so bget cannot    *)
(* recycle it before install_trans wrote it (log_write's bpin).             *)
DirtyIsPinned ==
  \A b \in Block : Contents(b) # home[b] /\ boot = "up" => pins[b] > 0

(* When sys_sync returns, every operation that had ended when it was called *)
(* survives a crash.                                                        *)
SyncDurable == \A p \in Proc : pc[p] = "sync_return" => p \notin owed

(* A call of begin_op returns, a call of sys_sync returns and a commit ends, *)
(* unless the machine crashes first.                                        *)
CallsReturn ==
  \A p \in Proc : []<>(pc[p] \in {"idle", "op"} \/ boot # "up")

============================================================================
