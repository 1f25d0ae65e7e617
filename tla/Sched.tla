------------------------------- MODULE Sched -------------------------------
(***************************************************************************)
(* Context switching: scheduler, sched, yield, sleep, forkret and kexit of *)
(* kernel/proc.c over several harts, with acquire/release, push_off and    *)
(* pop_off of spinlock.c and the interrupt flag they keep.                 *)
(*                                                                         *)
(* A hart runs its scheduler thread or the kernel thread of a process.     *)
(* p->lock is taken by one thread and released by another: the scheduler   *)
(* takes it and the process it switches to releases it, and the reverse.   *)
(* What happens under p->lock between two switches is one step.            *)
(***************************************************************************)
EXTENDS Naturals, FiniteSets

CONSTANTS
  Cpu,      \* harts
  NPROC,    \* the process table is proc[1..NPROC]; userinit makes proc[1]
  None      \* no process, no hart

Proc == 1..NPROC

ASSUME SchedAssumption ==
  /\ NPROC \in Nat \ {0} /\ None \notin Nat /\ None \notin Cpu /\ Cpu # {}

VARIABLES
  state,    \* p->state
  lock,     \* the hart that holds p->lock (lk->cpu), or None
  saved,    \* p->context holds the registers of the thread, which runs nowhere
  pc,       \* where the kernel thread of a process is
  was,      \* pc at the call of sched(), to return to
  local,    \* the local intena of sched()
  on,       \* the thread a hart runs: a process, or None for its scheduler
  proc, noff, intena,   \* struct cpu
  sie,      \* the interrupt-enable flag of sstatus
  spc, idx, found,      \* the scheduler thread: where it is, p, found
  panic

process == <<state, lock, saved, pc, was, local>>
hart == <<on, proc, noff, intena, sie>>
scan == <<spc, idx, found>>
vars == <<process, hart, scan, panic>>

----------------------------------------------------------------------------
(* push_off and acquire of proc[p].lock by hart c; a lock held by c itself   *)
(* is a panic, one held by another hart makes it spin.                       *)
push_off(c) ==
  /\ sie' = [sie EXCEPT ![c] = FALSE]
  /\ intena' = [intena EXCEPT ![c] = IF noff[c] = 0 THEN sie[c] ELSE @]
  /\ noff' = [noff EXCEPT ![c] = @ + 1]

acquire(c, p) ==
  /\ lock[p] \in {None, c}
  /\ panic' = (lock[p] = c)
  /\ lock' = [lock EXCEPT ![p] = c]
  /\ push_off(c)

(* release and pop_off; enable is the intena at that time. *)
release(c, p, enable) ==
  /\ lock' = [lock EXCEPT ![p] = None]
  /\ noff' = [noff EXCEPT ![c] = @ - 1]
  /\ sie' = [sie EXCEPT ![c] = noff[c] = 1 /\ enable]
  /\ panic' = (lock[p] # c \/ sie[c] \/ noff[c] < 1)

----------------------------------------------------------------------------
(***************************************************************************)
(* scheduler(): intr_on and intr_off, then the scan of the table.  Under   *)
(* the lock it either passes by, or switches to the process.               *)
(***************************************************************************)
scheduler_start(c) ==
  /\ on[c] = None /\ spc[c] = "start"
  /\ spc' = [spc EXCEPT ![c] = "scan"]
  /\ idx' = [idx EXCEPT ![c] = 1]
  /\ found' = [found EXCEPT ![c] = FALSE]
  /\ sie' = [sie EXCEPT ![c] = FALSE]
  /\ UNCHANGED <<process, on, proc, noff, intena, panic>>

scheduler_pass(c) ==
  /\ on[c] = None /\ spc[c] = "scan" /\ idx[c] \in Proc
  /\ lock[idx[c]] = None /\ state[idx[c]] # "RUNNABLE"
  /\ idx' = [idx EXCEPT ![c] = @ + 1]
  /\ UNCHANGED <<process, hart, spc, found, panic>>

scheduler_swtch(c) ==
  /\ on[c] = None /\ spc[c] = "scan" /\ idx[c] \in Proc
  /\ state[idx[c]] = "RUNNABLE"
  /\ acquire(c, idx[c])
  /\ state' = [state EXCEPT ![idx[c]] = "RUNNING"]
  /\ proc' = [proc EXCEPT ![c] = idx[c]]
  /\ on' = [on EXCEPT ![c] = idx[c]]
  /\ saved' = [saved EXCEPT ![idx[c]] = FALSE]
  /\ spc' = [spc EXCEPT ![c] = "back"]
  /\ UNCHANGED <<pc, was, local, idx, found>>

(* After swtch returns to the scheduler: intena = 0, c->proc = 0, release. *)
MutRestartScan(c) ==
  /\ on[c] = None /\ spc[c] = "back"
  /\ intena' = [intena EXCEPT ![c] = FALSE]
  /\ proc' = [proc EXCEPT ![c] = None]
  /\ found' = [found EXCEPT ![c] = TRUE]
  /\ release(c, idx[c], FALSE)
  /\ idx' = [idx EXCEPT ![c] = 1]
  /\ spc' = [spc EXCEPT ![c] = "scan"]
  /\ UNCHANGED <<state, saved, pc, was, local, on>>

scheduler_back(c) ==
  /\ on[c] = None /\ spc[c] = "back"
  /\ intena' = [intena EXCEPT ![c] = FALSE]
  /\ proc' = [proc EXCEPT ![c] = None]
  /\ found' = [found EXCEPT ![c] = TRUE]
  /\ release(c, idx[c], FALSE)
  /\ idx' = [idx EXCEPT ![c] = @ + 1]
  /\ spc' = [spc EXCEPT ![c] = "scan"]
  /\ UNCHANGED <<state, saved, pc, was, local, on>>

(* The end of the scan: wfi when nothing was found. *)
scheduler_end(c) ==
  /\ on[c] = None /\ spc[c] = "scan" /\ idx[c] = NPROC + 1
  /\ spc' = [spc EXCEPT ![c] = IF found[c] THEN "start" ELSE "wfi"]
  /\ UNCHANGED <<process, hart, idx, found, panic>>

(* An interrupt, at the latest the timer's, ends wfi. *)
interrupt(c) ==
  /\ on[c] = None /\ spc[c] = "wfi"
  /\ spc' = [spc EXCEPT ![c] = "start"]
  /\ UNCHANGED <<process, hart, idx, found, panic>>

----------------------------------------------------------------------------
(***************************************************************************)
(* The kernel thread of a process on hart c.  "run" is a program or system *)
(* call, with interrupts on; "trap" is usertrap or kerneltrap with them    *)
(* off, or the way from forkret to user mode.  The checks of usertrap and  *)
(* kerneltrap on the mode they came from are not modelled.                 *)
(***************************************************************************)
Here(c, p, l) == on[c] = p /\ pc[p] = l

usertrap(c, p) ==
  /\ Here(c, p, "run") /\ sie[c]
  /\ pc' = [pc EXCEPT ![p] = "trap"]
  /\ sie' = [sie EXCEPT ![c] = FALSE]
  /\ UNCHANGED <<state, lock, saved, was, local, on, proc, noff, intena, scan, panic>>

(* prepare_return and sret, or the intr_on of a system call. *)
usertrapret(c, p) ==
  /\ Here(c, p, "trap")
  /\ pc' = [pc EXCEPT ![p] = "run"]
  /\ sie' = [sie EXCEPT ![c] = TRUE]
  /\ UNCHANGED <<state, lock, saved, was, local, on, proc, noff, intena, scan, panic>>

(* yield() (from a trap, on a timer interrupt), sleep() and the end of       *)
(* kexit() take p->lock, set p->state and call sched().  sleep() is called   *)
(* in a system call, and with interrupts off by forkret's fsinit and kexec   *)
(* and by the kexit(-1) of usertrap, which waits for the log and the disk.   *)
(* kexit takes p->lock inside wait_lock, which it drops before sched().      *)
enter_sched(c, p, from, new) ==
  /\ Here(c, p, from)
  /\ acquire(c, p)
  /\ state' = [state EXCEPT ![p] = new]
  /\ was' = [was EXCEPT ![p] = from]
  /\ pc' = [pc EXCEPT ![p] = "sched"]
  /\ UNCHANGED <<saved, local, on, proc, scan>>

yield(c, p) == enter_sched(c, p, "trap", "RUNNABLE")
sleep(c, p) == \E from \in {"run", "trap"} : enter_sched(c, p, from, "SLEEPING")
kexit(c, p) == p # 1 /\ \E from \in {"run", "trap"} : enter_sched(c, p, from, "ZOMBIE")

(* sched(): its four panics, intena kept in a local, and swtch to the scheduler. *)
sched(c, p) ==
  /\ Here(c, p, "sched")
  /\ panic' = (lock[p] # c \/ noff[c] # 1 \/ state[p] = "RUNNING" \/ sie[c])
  /\ local' = [local EXCEPT ![p] = intena[c]]
  /\ saved' = [saved EXCEPT ![p] = TRUE]
  /\ pc' = [pc EXCEPT ![p] = "swtch"]
  /\ on' = [on EXCEPT ![c] = None]
  /\ UNCHANGED <<state, lock, was, proc, noff, intena, sie, scan>>

(* Back from swtch, perhaps on another hart: intena is put back and the     *)
(* caller of sched releases p->lock.                                        *)
MutForgetIntena(c, p) ==
  /\ Here(c, p, "swtch")
  /\ release(c, p, intena[c])
  /\ pc' = [pc EXCEPT ![p] = was[p]]
  /\ UNCHANGED <<state, saved, was, local, on, proc, intena, scan>>

sched_return(c, p) ==
  /\ Here(c, p, "swtch")
  /\ intena' = [intena EXCEPT ![c] = local[p]]
  /\ release(c, p, local[p])
  /\ pc' = [pc EXCEPT ![p] = was[p]]
  /\ UNCHANGED <<state, saved, was, local, on, proc, scan>>

MutForkretKeepsLock(c, p) ==
  /\ Here(c, p, "forkret")
  /\ pc' = [pc EXCEPT ![p] = "trap"]
  /\ UNCHANGED <<state, lock, saved, was, local, hart, scan, panic>>

forkret(c, p) ==
  /\ Here(c, p, "forkret")
  /\ release(c, p, intena[c])
  /\ pc' = [pc EXCEPT ![p] = "trap"]
  /\ UNCHANGED <<state, saved, was, local, on, proc, intena, scan>>

----------------------------------------------------------------------------
(***************************************************************************)
(* What a thread on hart c does to another process, under that process's   *)
(* lock and in one step; noff and intena are the same after it.            *)
(***************************************************************************)
Running(c) == on[c] # None /\ pc[on[c]] \in {"run", "trap"}

wakeup(c, p) ==
  /\ Running(c) \/ spc[c] = "start"
  /\ lock[p] = None /\ state[p] = "SLEEPING"
  /\ state' = [state EXCEPT ![p] = "RUNNABLE"]
  /\ UNCHANGED <<lock, saved, pc, was, local, hart, scan, panic>>

(* allocproc and the end of kfork. *)
kfork(c, p) ==
  /\ Running(c)
  /\ lock[p] = None /\ state[p] = "UNUSED"
  /\ state' = [state EXCEPT ![p] = "RUNNABLE"]
  /\ saved' = [saved EXCEPT ![p] = TRUE]
  /\ pc' = [pc EXCEPT ![p] = "forkret"]
  /\ UNCHANGED <<lock, was, local, hart, scan, panic>>

(* freeproc by kwait. *)
MutFreeUnlocked(c, p) ==
  /\ Running(c)
  /\ state[p] = "ZOMBIE"
  /\ state' = [state EXCEPT ![p] = "UNUSED"]
  /\ UNCHANGED <<lock, saved, pc, was, local, hart, scan, panic>>

freeproc(c, p) ==
  /\ Running(c)
  /\ lock[p] = None /\ state[p] = "ZOMBIE"
  /\ state' = [state EXCEPT ![p] = "UNUSED"]
  /\ UNCHANGED <<lock, saved, pc, was, local, hart, scan, panic>>

----------------------------------------------------------------------------
(* userinit; every hart enters scheduler() (main). *)
Init ==
  /\ state = [p \in Proc |-> IF p = 1 THEN "RUNNABLE" ELSE "UNUSED"]
  /\ lock = [p \in Proc |-> None]
  /\ saved = [p \in Proc |-> TRUE]
  /\ pc = [p \in Proc |-> "forkret"]
  /\ was = [p \in Proc |-> "trap"]
  /\ local = [p \in Proc |-> FALSE]
  /\ on = [c \in Cpu |-> None] /\ proc = [c \in Cpu |-> None]
  /\ noff = [c \in Cpu |-> 0] /\ intena = [c \in Cpu |-> FALSE]
  /\ sie = [c \in Cpu |-> FALSE]
  /\ spc = [c \in Cpu |-> "start"] /\ idx = [c \in Cpu |-> 1]
  /\ found = [c \in Cpu |-> FALSE]
  /\ panic = FALSE

scheduler(c) ==
  \/ scheduler_start(c) \/ scheduler_pass(c) \/ scheduler_swtch(c)
  \/ scheduler_back(c) \/ scheduler_end(c) \/ interrupt(c)

Thread(c) ==
  \E p \in Proc :
    \/ usertrap(c, p) \/ usertrapret(c, p) \/ yield(c, p) \/ sleep(c, p) \/ kexit(c, p)
    \/ sched(c, p) \/ sched_return(c, p) \/ forkret(c, p)
    \/ wakeup(c, p) \/ kfork(c, p) \/ freeproc(c, p)

Next == ~panic /\ \E c \in Cpu : scheduler(c) \/ Thread(c)

Spec == Init /\ [][Next]_vars

(***************************************************************************)
(* A hart does not stop.  The timer interrupts a running thread again and  *)
(* again and makes it yield, the atomic exchange of acquire succeeds in    *)
(* the end if the lock is free again and again.                            *)
(***************************************************************************)
Goes(c) ==
  \/ scheduler_start(c) \/ scheduler_end(c) \/ scheduler_back(c) \/ interrupt(c)
  \/ \E p \in Proc : sched(c, p) \/ sched_return(c, p) \/ forkret(c, p) \/ usertrap(c, p)
Acquires(c) ==
  scheduler_pass(c) \/ scheduler_swtch(c) \/ \E p \in Proc : yield(c, p)

Fairness ==
  \A c \in Cpu : WF_vars(~panic /\ Goes(c)) /\ SF_vars(~panic /\ Acquires(c))

FairSpec == Spec /\ Fairness

----------------------------------------------------------------------------
(* Type invariant of the process table, the harts and their schedulers. *)
TypeOK ==
  /\ state \in [Proc -> {"UNUSED", "SLEEPING", "RUNNABLE", "RUNNING", "ZOMBIE"}]
  /\ lock \in [Proc -> Cpu \cup {None}]
  /\ saved \in [Proc -> BOOLEAN] /\ local \in [Proc -> BOOLEAN]
  /\ pc \in [Proc -> {"run", "trap", "sched", "swtch", "forkret"}]
  /\ was \in [Proc -> {"run", "trap"}]
  /\ on \in [Cpu -> Proc \cup {None}] /\ proc \in [Cpu -> Proc \cup {None}]
  /\ noff \in [Cpu -> {0, 1}] /\ intena \in [Cpu -> BOOLEAN] /\ sie \in [Cpu -> BOOLEAN]
  /\ spc \in [Cpu -> {"start", "scan", "back", "wfi"}]
  /\ idx \in [Cpu -> 1..(NPROC + 1)] /\ found \in [Cpu -> BOOLEAN]
  /\ panic \in BOOLEAN

(* None of the panics of acquire(), release(), pop_off() and sched() is     *)
(* reachable: lock, noff and interrupt flag are right at every switch.      *)
NoPanic == ~panic

(* No process runs on two harts, and none runs while its table entry is     *)
(* free for allocproc: kwait frees a zombie only once it left its stack.    *)
OneStackOneHart ==
  /\ \A c, d \in Cpu : on[c] = on[d] /\ on[c] # None => c = d
  /\ \A c \in Cpu : on[c] # None => /\ proc[c] = on[c] /\ ~saved[on[c]]
                                    /\ state[on[c]] # "UNUSED"

(* A process whose lock is free and that may be picked, woken or reaped     *)
(* has its registers in p->context and runs nowhere.                        *)
ContextIsSaved ==
  \A p \in Proc : lock[p] = None /\ state[p] # "RUNNING" =>
                    saved[p] /\ \A c \in Cpu : on[c] # p

(* A thread finds interrupts as it left them: on in a program or a system   *)
(* call and off in a trap, although it slept and changed harts meanwhile.   *)
InterruptsRestored ==
  \A c \in Cpu : Running(c) => noff[c] = 0 /\ (sie[c] <=> pc[on[c]] = "run")

(* Interrupts stay off from the scheduler's intr_off to its wfi, so that an *)
(* interrupt that makes a process runnable is still pending at wfi.         *)
QuietScan == \A c \in Cpu : on[c] = None /\ spc[c] \in {"scan", "wfi"} => ~sie[c]

(* Every runnable process is run. *)
RunnableRuns == \A p \in Proc : []<>(state[p] # "RUNNABLE" \/ panic)

============================================================================
