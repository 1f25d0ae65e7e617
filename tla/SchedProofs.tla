---------------------------- MODULE SchedProofs ----------------------------
(***************************************************************************)
(* Sched for every number of harts and processes: the lock of a process    *)
(* that two threads hand to each other across swtch, the context it        *)
(* protects, and the interrupt state that travels with the thread.         *)
(***************************************************************************)
EXTENDS Sched, TLAPS

(* The hart is between the acquire and the release around a switch: the     *)
(* scheduler, or the process idx[c] it picked, holds that process's lock.   *)
Locked(c) == spc[c] = "back" /\ (on[c] = None \/ pc[idx[c]] \notin {"run", "trap"})

(* The thread a hart runs is the one its scheduler picked. *)
Picked ==
  \A c \in Cpu :
    /\ spc[c] # "back" => on[c] = None
    /\ spc[c] = "back" => idx[c] \in Proc /\ proc[c] = idx[c] /\ on[c] \in {None, idx[c]}

(* A hart holds a lock exactly between the two ends of a switch. *)
Locks ==
  /\ \A c \in Cpu : Locked(c) => noff[c] = 1 /\ ~sie[c] /\ lock[idx[c]] = c
  /\ \A c \in Cpu : ~Locked(c) => noff[c] = 0
  /\ \A c \in Cpu, p \in Proc : lock[p] = c => Locked(c) /\ idx[c] = p

(* The state and the context of a process that runs, and of one that does not. *)
Threads ==
  /\ \A c \in Cpu : on[c] # None =>
       /\ ~saved[on[c]]
       /\ pc[on[c]] # "sched" => state[on[c]] = "RUNNING"
       /\ pc[on[c]] = "sched" => state[on[c]] \notin {"RUNNING", "UNUSED"}
  /\ \A c, d \in Cpu : on[c] = on[d] /\ on[c] # None => c = d
  /\ \A p \in Proc : (\A c \in Cpu : on[c] # p) =>
       saved[p] /\ state[p] # "RUNNING" /\ pc[p] \in {"swtch", "forkret"}

(* Where the interrupt state of a thread is kept at each point of a switch. *)
Interrupts ==
  /\ \A c \in Cpu : Running(c) => (sie[c] <=> pc[on[c]] = "run")
  /\ \A c \in Cpu : on[c] # None /\ pc[on[c]] = "sched" => (intena[c] <=> was[on[c]] = "run")
  /\ \A c \in Cpu : on[c] # None /\ pc[on[c]] = "forkret" => ~intena[c]
  /\ \A p \in Proc : pc[p] = "swtch" => (local[p] <=> was[p] = "run")

IInv == TypeOK /\ NoPanic /\ Picked /\ Locks /\ Threads /\ Interrupts /\ QuietScan

----------------------------------------------------------------------------
(* None stands for no process and no hart. *)
LEMMA NoneIsOther == None \notin Proc /\ None \notin Cpu
BY SchedAssumption DEF Proc

(* The initial state of userinit and main has the invariant. *)
LEMMA InitInv == Init => IInv
<1> SUFFICES ASSUME Init PROVE IInv
  OBVIOUS
<1> USE SchedAssumption DEF Init, Proc
<1>1. TypeOK
  <2>1. 1 \in 1..(NPROC + 1) OBVIOUS
  <2>2. QED BY Zenon, <2>1 DEF TypeOK
<1>2. Picked BY DEF Picked
<1>3. Locks BY DEF Locks, Locked
<1>4. Threads BY NoneIsOther DEF Threads
<1>5. Interrupts BY DEF Interrupts, Running
<1>6. QED BY <1>1, <1>2, <1>3, <1>4, <1>5 DEF IInv, NoPanic, QuietScan

(* A process that nobody has locked and that is not running is on no hart   *)
(* and has its context saved.                                               *)
LEMMA OffHart ==
  ASSUME IInv, NEW p \in Proc, lock[p] = None, state[p] # "RUNNING"
  PROVE  (\A c \in Cpu : on[c] # p) /\ saved[p] /\ pc[p] \in {"swtch", "forkret"}
<1>1. ASSUME NEW c \in Cpu, on[c] = p PROVE FALSE
  <2>1. spc[c] = "back" /\ idx[c] = p
    BY <1>1, NoneIsOther DEF IInv, Picked
  <2>2. pc[p] = "sched"
    BY <1>1, NoneIsOther DEF IInv, Threads
  <2>3. QED BY <2>1, <2>2, NoneIsOther DEF IInv, Locks, Locked
<1>2. QED BY <1>1 DEF IInv, Threads

----------------------------------------------------------------------------
(* The scheduler between two switches touches no process. *)
LEMMA ScanInv ==
  ASSUME IInv, NEW c \in Cpu,
         scheduler_start(c) \/ scheduler_pass(c) \/ scheduler_end(c) \/ interrupt(c)
  PROVE  IInv'
<1> USE DEF scheduler_start, scheduler_pass, scheduler_end, interrupt, process, hart
<1>1. TypeOK' /\ NoPanic'
  <2> USE SchedAssumption DEF IInv, TypeOK, NoPanic, Proc
  <2>1. CASE scheduler_start(c) BY <2>1
  <2>2. CASE scheduler_pass(c) BY <2>2
  <2>3. CASE scheduler_end(c) BY <2>3
  <2>4. CASE interrupt(c) BY <2>4
  <2>5. QED BY Zenon, <2>1, <2>2, <2>3, <2>4
<1>2. Picked' BY DEF IInv, TypeOK, Picked
<1>3. \A d \in Cpu : Locked(d)' <=> Locked(d)
  BY DEF IInv, TypeOK, Picked, Locked
<1>4. Locks' BY <1>3, NoneIsOther DEF IInv, TypeOK, Picked, Locks, Locked
<1>5. Threads' BY SMTT(30) DEF IInv, Threads
<1>6. Interrupts' /\ QuietScan' BY SMTT(30) DEF IInv, TypeOK, Interrupts, QuietScan, Running
<1>7. QED BY Zenon, <1>1, <1>2, <1>4, <1>5, <1>6 DEF IInv

(* swtch to a process: the scheduler keeps the lock for it to release. *)
LEMMA SwtchInv ==
  ASSUME IInv, NEW c \in Cpu, scheduler_swtch(c)
  PROVE  IInv'
<1> DEFINE p == idx[c]
<1> USE DEF scheduler_swtch, acquire, push_off
<1>1. p \in Proc /\ ~Locked(c) /\ noff[c] = 0 /\ ~sie[c] /\ lock[p] = None
  BY DEF IInv, Locks, Locked, QuietScan
<1>2. (\A d \in Cpu : on[d] # p) /\ pc[p] \in {"swtch", "forkret"}
  BY <1>1, OffHart
<1>3. TypeOK' /\ NoPanic'
  BY <1>1, NoneIsOther DEF IInv, TypeOK, NoPanic
<1>4. Picked' BY <1>1 DEF IInv, TypeOK, Picked
<1>5. Locked(c)' /\ \A d \in Cpu \ {c} : Locked(d)' <=> Locked(d)
  BY <1>1, <1>2 DEF IInv, TypeOK, Locked
<1>6. Locks' BY <1>1, <1>5, NoneIsOther DEF IInv, TypeOK, Locks
<1>7. Threads' BY SMTT(30), <1>1, <1>2, NoneIsOther DEF IInv, TypeOK, Threads
<1>8. Interrupts' /\ QuietScan'
  BY SMTT(30), <1>1, <1>2, NoneIsOther DEF IInv, TypeOK, Interrupts, QuietScan, Running
<1>9. QED BY <1>3, <1>4, <1>6, <1>7, <1>8 DEF IInv

(* swtch back to the scheduler, which releases the lock of the process. *)
LEMMA BackInv ==
  ASSUME IInv, NEW c \in Cpu, scheduler_back(c)
  PROVE  IInv'
<1> DEFINE p == idx[c]
<1> USE DEF scheduler_back, release
<1>1. p \in Proc /\ Locked(c) /\ lock[p] = c /\ noff[c] = 1 /\ ~sie[c]
  BY DEF IInv, Picked, Locks, Locked
<1>2. TypeOK' /\ NoPanic'
  BY <1>1, SchedAssumption DEF IInv, TypeOK, NoPanic, Proc
<1>3. Picked' BY <1>1 DEF IInv, TypeOK, Picked
<1>4. ~Locked(c)' /\ \A d \in Cpu \ {c} : Locked(d)' <=> Locked(d)
  BY <1>1 DEF IInv, TypeOK, Locked
<1>5. Locks' BY <1>1, <1>4, NoneIsOther DEF IInv, TypeOK, Locks
<1>6. Threads' BY Zenon DEF IInv, Threads
<1>7. Interrupts' /\ QuietScan'
  BY <1>1 DEF IInv, TypeOK, Interrupts, QuietScan, Running
<1>8. QED BY <1>2, <1>3, <1>5, <1>6, <1>7 DEF IInv

----------------------------------------------------------------------------
(* The thread on a hart is the process that the scheduler of the hart picked, *)
(* and is on no other hart.                                                  *)
LEMMA OnHart ==
  ASSUME IInv, NEW c \in Cpu, NEW p \in Proc, on[c] = p
  PROVE  /\ spc[c] = "back" /\ idx[c] = p /\ p # None
         /\ \A d \in Cpu : on[d] = p => d = c
         /\ Locked(c) <=> pc[p] \notin {"run", "trap"}
BY NoneIsOther DEF IInv, Picked, Threads, Locked

(* usertrap and the way back change the interrupt flag with the place. *)
LEMMA TrapInv ==
  ASSUME IInv, NEW c \in Cpu, NEW p \in Proc, usertrap(c, p) \/ usertrapret(c, p)
  PROVE  IInv'
<1> USE DEF usertrap, usertrapret, Here, scan
<1>1. on[c] = p /\ pc[p] \in {"run", "trap"} /\ pc'[p] \in {"run", "trap"}
  BY SMTT(30) DEF IInv, TypeOK
<1>2. TypeOK' /\ NoPanic'
  <2> USE DEF IInv, TypeOK, NoPanic
  <2>1. CASE usertrap(c, p) BY <2>1
  <2>2. CASE usertrapret(c, p) BY Zenon, <2>2
  <2>3. QED BY <2>1, <2>2
<1>3. Picked' BY DEF IInv, Picked
<1>4. \A d \in Cpu : Locked(d)' <=> Locked(d)
  BY <1>1 DEF IInv, TypeOK, Picked, Locked
<1>5. Locks' BY SMTT(30), <1>1, <1>4, OnHart DEF IInv, TypeOK, Locks
<1>6. Threads' BY <1>1, OnHart DEF IInv, TypeOK, Threads
<1>7. Interrupts' /\ QuietScan'
  BY <1>1, OnHart, NoneIsOther DEF IInv, TypeOK, Interrupts, QuietScan, Running
<1>8. QED BY <1>2, <1>3, <1>5, <1>6, <1>7 DEF IInv

(* yield, sleep and kexit take the lock and set the state before sched(). *)
LEMMA EnterInv ==
  ASSUME IInv, NEW c \in Cpu, NEW p \in Proc, yield(c, p) \/ sleep(c, p) \/ kexit(c, p)
  PROVE  IInv'
<1> USE DEF acquire, push_off, Here, scan
<1>1. PICK from \in {"run", "trap"}, new \in {"RUNNABLE", "SLEEPING", "ZOMBIE"} :
        enter_sched(c, p, from, new)
  BY Zenon DEF yield, sleep, kexit
<1> USE <1>1 DEF enter_sched
<1>2. on[c] = p /\ pc[p] = from /\ ~Locked(c) /\ noff[c] = 0 /\ lock[p] = None
  BY SMTT(30), OnHart DEF IInv, TypeOK, Locks
<1>3. sie[c] <=> from = "run"
  BY <1>2, NoneIsOther DEF IInv, Interrupts, Running
<1>4. TypeOK' /\ NoPanic'
  BY <1>2, NoneIsOther DEF IInv, TypeOK, NoPanic
<1>5. Picked' BY DEF IInv, Picked
<1>6. Locked(c)' /\ \A d \in Cpu \ {c} : Locked(d)' <=> Locked(d)
  BY SMTT(30), <1>2, OnHart DEF IInv, TypeOK, Picked, Locked
<1>7. Locks' BY SMTT(30), <1>2, <1>6, OnHart, NoneIsOther DEF IInv, TypeOK, Locks
<1>8. Threads' BY SMTT(30), <1>2, OnHart DEF IInv, TypeOK, Threads
<1>9. Interrupts' /\ QuietScan'
  BY SMTT(30), <1>2, <1>3, OnHart, NoneIsOther DEF IInv, TypeOK, Interrupts, QuietScan, Running
<1>10. QED BY <1>4, <1>5, <1>7, <1>8, <1>9 DEF IInv

(* sched(): the context is saved before the scheduler can release the lock. *)
LEMMA SchedInv ==
  ASSUME IInv, NEW c \in Cpu, NEW p \in Proc, sched(c, p)
  PROVE  IInv'
<1>0. on[c] = p /\ pc[p] = "sched"
  BY Zenon DEF sched, Here
<1>1. /\ on[c] = p /\ pc[p] = "sched" /\ Locked(c) /\ noff[c] = 1 /\ ~sie[c] /\ lock[p] = c
      /\ state[p] # "RUNNING" /\ (intena[c] <=> was[p] = "run")
  BY SMTT(30), <1>0, OnHart DEF IInv, Locks, Threads, Interrupts
<1> USE DEF sched, Here, scan
<1>2. TypeOK' /\ NoPanic' BY <1>1 DEF IInv, TypeOK, NoPanic
<1>3. Picked' BY SMTT(30), <1>1, OnHart DEF IInv, TypeOK, Picked
<1>4. \A d \in Cpu : Locked(d)' <=> Locked(d)
  BY SMTT(30), <1>1, OnHart DEF IInv, TypeOK, Picked, Locked
<1>5. Locks' BY Zenon, <1>4 DEF IInv, TypeOK, Locks
<1>6. Threads' BY SMTT(30), <1>1, OnHart DEF IInv, TypeOK, Threads
<1>7. Interrupts' /\ QuietScan'
  BY SMTT(30), <1>1, OnHart, NoneIsOther DEF IInv, TypeOK, Interrupts, QuietScan, Running
<1>8. QED BY Zenon, <1>2, <1>3, <1>5, <1>6, <1>7 DEF IInv

(* Back on a hart, the process releases the lock the scheduler took. *)
LEMMA ReturnInv ==
  ASSUME IInv, NEW c \in Cpu, NEW p \in Proc, sched_return(c, p) \/ forkret(c, p)
  PROVE  IInv'
<1>0. on[c] = p /\ pc[p] \in {"swtch", "forkret"}
  BY Zenon DEF sched_return, forkret, Here
<1>1. /\ on[c] = p /\ pc[p] \in {"swtch", "forkret"} /\ Locked(c)
      /\ noff[c] = 1 /\ ~sie[c] /\ lock[p] = c /\ state[p] = "RUNNING"
  BY SMTT(30), <1>0, OnHart DEF IInv, Locks, Threads
<1> USE DEF sched_return, forkret, release, Here, scan
<1>2. TypeOK' /\ NoPanic' /\ pc'[p] \in {"run", "trap"}
  BY SMTT(30), <1>1 DEF IInv, TypeOK, NoPanic
<1>3. Picked' BY ZenonT(40) DEF IInv, Picked
<1>4. ~Locked(c)' /\ \A d \in Cpu \ {c} : Locked(d)' <=> Locked(d)
  BY SMTT(30), <1>1, <1>2, OnHart DEF IInv, TypeOK, Picked, Locked
<1>5. Locks'
  <2>1. lock' = [lock EXCEPT ![p] = None] /\ noff' = [noff EXCEPT ![c] = 0] /\ idx' = idx
    BY SMTT(30), <1>1 DEF IInv, TypeOK
  <2>2. \A d \in Cpu \ {c} : sie'[d] = sie[d] /\ idx[c] = p
    BY SMTT(30), <1>1, OnHart DEF IInv, TypeOK
  <2>3. QED BY SMTT(30), <1>1, <1>4, <2>1, <2>2, NoneIsOther DEF IInv, TypeOK, Locks, Locked
<1>6. Threads' BY SMTT(30), <1>1, <1>2, OnHart DEF IInv, TypeOK, Threads
<1>7. sie'[c] <=> pc'[p] = "run"
  BY SMTT(30), <1>1, NoneIsOther DEF IInv, TypeOK, Interrupts
<1>8. Interrupts' /\ QuietScan'
  BY SMTT(30), <1>1, <1>2, <1>7, OnHart, NoneIsOther DEF IInv, TypeOK, Interrupts, QuietScan, Running
<1>9. QED BY Zenon, <1>2, <1>3, <1>5, <1>6, <1>8 DEF IInv

(* wakeup, kfork and kwait change a process that is on no hart. *)
LEMMA OtherInv ==
  ASSUME IInv, NEW c \in Cpu, NEW p \in Proc, wakeup(c, p) \/ kfork(c, p) \/ freeproc(c, p)
  PROVE  IInv'
<1> USE DEF wakeup, kfork, freeproc, hart, scan
<1>1. \A d \in Cpu : on[d] # p
  BY Zenon, OffHart
<1>2. TypeOK' /\ NoPanic'
  <2> USE DEF IInv, TypeOK, NoPanic
  <2>1. CASE wakeup(c, p) BY <2>1
  <2>2. CASE kfork(c, p) BY <2>2
  <2>3. CASE freeproc(c, p) BY SMTT(30), <2>3
  <2>4. QED BY <2>1, <2>2, <2>3
<1>3. Picked' BY Zenon DEF IInv, Picked
<1>4. \A d \in Cpu : Locked(d)' <=> Locked(d)
  BY SMTT(30), <1>1 DEF IInv, TypeOK, Picked, Locked
<1>f. UNCHANGED <<noff, sie, lock, idx>>
  BY Zenon
<1>5. Locks' BY Zenon, <1>4, <1>f DEF IInv, Locks
<1>6. Threads' BY SMTT(30), <1>1 DEF IInv, TypeOK, Threads
<1>7. Interrupts' /\ QuietScan'
  BY <1>1 DEF IInv, TypeOK, Interrupts, QuietScan, Running
<1>8. QED BY <1>2, <1>3, <1>5, <1>6, <1>7 DEF IInv

----------------------------------------------------------------------------
(* Every step of every hart keeps the invariant. *)
LEMMA NextInv == IInv /\ [Next]_vars => IInv'
<1> SUFFICES ASSUME IInv, [Next]_vars PROVE IInv'
  OBVIOUS
<1>1. ASSUME NEW c \in Cpu, scheduler(c) PROVE IInv'
  BY <1>1, ScanInv, SwtchInv, BackInv DEF scheduler
<1>2. ASSUME NEW c \in Cpu, Thread(c) PROVE IInv'
  BY Zenon, <1>2, TrapInv, EnterInv, SchedInv, ReturnInv, OtherInv DEF Thread
<1>3. CASE UNCHANGED vars
  BY <1>3 DEF vars, process, hart, scan, IInv, TypeOK, NoPanic, Picked, Locks, Threads,
     Interrupts, QuietScan, Locked, Running
<1>4. QED BY <1>1, <1>2, <1>3 DEF Next

(* The invariant holds of every behaviour of the harts. *)
THEOREM Invariance == Spec => []IInv
BY InitInv, NextInv, PTL DEF Spec

(* No panic of acquire, release, pop_off and sched is reachable, with any   *)
(* number of harts and processes.                                           *)
THEOREM SwitchNeverPanics == Spec => []NoPanic
BY Invariance, PTL DEF IInv

(* No process runs on two harts, or while its table entry is free.          *)
THEOREM OneStack == Spec => []OneStackOneHart
<1>1. IInv => OneStackOneHart
  <2> SUFFICES ASSUME IInv PROVE OneStackOneHart
    OBVIOUS
  <2>1. ASSUME NEW c \in Cpu, on[c] # None
        PROVE  proc[c] = on[c] /\ ~saved[on[c]] /\ state[on[c]] # "UNUSED"
    BY <2>1 DEF IInv, TypeOK, Picked, Threads
  <2>2. QED BY <2>1 DEF IInv, Threads, OneStackOneHart
<1>2. QED BY <1>1, Invariance, PTL

(* A process that may be picked, woken or reaped has its registers in       *)
(* p->context and runs nowhere.                                             *)
THEOREM ContextSafe == Spec => []ContextIsSaved
<1>1. IInv => ContextIsSaved
  BY OffHart DEF ContextIsSaved
<1>2. QED BY <1>1, Invariance, PTL

(* A thread finds interrupts as it left them, on whatever hart it goes on.  *)
THEOREM InterruptsTravel == Spec => []InterruptsRestored
<1>1. IInv => InterruptsRestored
  BY NoneIsOther DEF IInv, TypeOK, Picked, Locks, Locked, Interrupts, InterruptsRestored, Running
<1>2. QED BY <1>1, Invariance, PTL

(* Interrupts are off from the scheduler's intr_off to its wfi.             *)
THEOREM ScanIsQuiet == Spec => []QuietScan
BY Invariance, PTL DEF IInv
=============================================================================
