-------------------------------- MODULE Proc --------------------------------
(***************************************************************************)
(* The process table of kernel/proc.c: fork, exit, wait, kill, sleep and   *)
(* wakeup, with the killed checks of usertrap (trap.c) and of the loops    *)
(* that sleep interruptibly (kwait, sys_pause, pipes, console).            *)
(*                                                                         *)
(* A section of code under one p->lock is one step.  wait_lock is a        *)
(* variable: kexit holds it over several such sections.  wakeup visits     *)
(* the processes one after another; what it does to each of them touches   *)
(* that process alone, so the whole scan is one step.                      *)
(***************************************************************************)
EXTENDS Integers, FiniteSets

CONSTANTS
  Slot,       \* the entries of proc[NPROC]
  initproc,   \* the entry of the first process
  NULL,       \* the null pointer
  Io,         \* the channels other than a process's own: pipe, console, ticks
  NCPU,       \* number of harts
  Status,     \* arguments of exit()
  KillPids,   \* arguments of kill()
  MaxPid      \* bound: pids handed out

ASSUME ProcAssumption ==
  /\ initproc \in Slot
  /\ NULL \notin Slot /\ Io \notin Slot /\ Io # NULL
  /\ Status \subseteq Nat
  /\ KillPids \subseteq Nat
  /\ NCPU \in Nat /\ MaxPid \in Nat

VARIABLES
  state, pid, parent, killed, chan, xstate,   \* fields of struct proc
  nextpid,
  wait_lock,   \* its holder, or NULL
  pc,          \* where the process's kernel thread is
  np,          \* np in kfork
  panic,       \* kexit called by initproc
  aimed        \* history: how the process itself was killed, by its pid or a fault:
               \* "no"; "late", between a loop's killed check and its sleep; or "seen"

vars == <<state, pid, parent, killed, chan, xstate, nextpid, wait_lock, pc, np,
          panic, aimed>>

Goto(p, l) == pc' = [pc EXCEPT ![p] = l]

Runs(p, l) == state[p] = "RUNNING" /\ pc[p] = l

(* usertrap enters a system call only after its killed check. *)
InUser(p) == Runs(p, "user") /\ ~killed[p]

----------------------------------------------------------------------------
(* wakeup(c). *)
wakeup(c) ==
  /\ chan' = [q \in Slot |-> IF chan[q] = c THEN NULL ELSE chan[q]]
  /\ state' = [q \in Slot |-> IF chan[q] = c /\ state[q] = "SLEEPING"
                                THEN "RUNNABLE" ELSE state[q]]

sleep_prepare(p, c) == chan' = [chan EXCEPT ![p] = c]

(* sleep(): pc is then the top of the loop that called it. *)
sleep(p) ==
  /\ Runs(p, "wait_sleep") \/ Runs(p, "io_sleep")
  /\ Goto(p, IF pc[p] = "wait_sleep" THEN "wait" ELSE "io")
  /\ state' = [state EXCEPT ![p] = IF chan[p] # NULL THEN "SLEEPING" ELSE @]
  /\ UNCHANGED <<pid, parent, killed, chan, xstate, nextpid, wait_lock, np,
                 panic, aimed>>

(* scheduler() and yield(). *)
scheduler(p) ==
  /\ state[p] = "RUNNABLE"
  /\ Cardinality({q \in Slot : state[q] = "RUNNING"}) < NCPU
  /\ state' = [state EXCEPT ![p] = "RUNNING"]
  /\ UNCHANGED <<pid, parent, killed, chan, xstate, nextpid, wait_lock, pc, np,
                 panic, aimed>>

yield(p) ==
  /\ state[p] = "RUNNING" /\ wait_lock # p
  /\ state' = [state EXCEPT ![p] = "RUNNABLE"]
  /\ UNCHANGED <<pid, parent, killed, chan, xstate, nextpid, wait_lock, pc, np,
                 panic, aimed>>

----------------------------------------------------------------------------
(***************************************************************************)
(* kfork: allocproc and the copying under np->lock; then the parent link   *)
(* under wait_lock; then RUNNABLE.  The second form is a failure of        *)
(* kalloc, proc_pagetable or uvmcopy after the slot was taken.             *)
(***************************************************************************)
kfork(p, q) ==
  /\ InUser(p) /\ state[q] = "UNUSED" /\ nextpid <= MaxPid
  /\ nextpid' = nextpid + 1
  /\ state' = [state EXCEPT ![q] = "USED"]
  /\ pid' = [pid EXCEPT ![q] = nextpid]
  /\ np' = [np EXCEPT ![p] = q]
  /\ Goto(p, "fork_parent")
  /\ UNCHANGED <<parent, killed, chan, xstate, wait_lock, panic, aimed>>

kfork_fails(p, q) ==
  /\ InUser(p) /\ state[q] = "UNUSED" /\ nextpid <= MaxPid
  /\ nextpid' = nextpid + 1
  /\ killed' = [killed EXCEPT ![q] = FALSE]
  /\ UNCHANGED <<state, pid, parent, chan, xstate, wait_lock, pc, np, panic, aimed>>

kfork_parent(p) ==
  /\ Runs(p, "fork_parent") /\ wait_lock = NULL
  /\ parent' = [parent EXCEPT ![np[p]] = p]
  /\ Goto(p, "fork_runnable")
  /\ UNCHANGED <<state, pid, killed, chan, xstate, nextpid, wait_lock, np, panic, aimed>>

kfork_runnable(p) ==
  /\ Runs(p, "fork_runnable")
  /\ state' = [state EXCEPT ![np[p]] = "RUNNABLE"]
  /\ np' = [np EXCEPT ![p] = NULL]
  /\ pc' = [pc EXCEPT ![np[p]] = "user", ![p] = "user"]
  /\ UNCHANGED <<pid, parent, killed, chan, xstate, nextpid, wait_lock, panic, aimed>>

----------------------------------------------------------------------------
(***************************************************************************)
(* kexit(status), called by sys_exit or, with -1, by usertrap's killed     *)
(* checks.  `exit` is the time it closes files and releases cwd.           *)
(***************************************************************************)
kexit(p, status) ==
  /\ IF p = initproc
       THEN panic' = TRUE /\ UNCHANGED <<xstate, pc>>
       ELSE /\ xstate' = [xstate EXCEPT ![p] = status]
            /\ Goto(p, "exit")
            /\ UNCHANGED panic
  /\ UNCHANGED <<state, pid, parent, killed, chan, nextpid, wait_lock, np, aimed>>

(* user/init.c does not exit while its fork and wait succeed. *)
sys_exit(p) == InUser(p) /\ p # initproc /\ \E s \in Status : kexit(p, s)

usertrap_killed(p) == Runs(p, "user") /\ killed[p] /\ kexit(p, -1)

(* reparent(p), wait_lock being taken just before. *)
MutReparentLiving(p) ==
  parent' = [q \in Slot |-> IF parent[q] = p /\ state[q] # "ZOMBIE" THEN initproc ELSE parent[q]]

reparent(p) ==
  parent' = [q \in Slot |-> IF parent[q] = p THEN initproc ELSE parent[q]]

kexit_reparent(p) ==
  /\ Runs(p, "exit") /\ wait_lock = NULL
  /\ wait_lock' = p
  /\ reparent(p)
  /\ IF \E q \in Slot : parent[q] = p THEN wakeup(initproc) ELSE UNCHANGED <<chan, state>>
  /\ Goto(p, "exit_wakeup")
  /\ UNCHANGED <<pid, killed, xstate, nextpid, np, panic, aimed>>

MutReleaseEarly(p) ==
  /\ Runs(p, "exit_wakeup")
  /\ wakeup(parent[p])
  /\ wait_lock' = NULL
  /\ Goto(p, "exit_zombie")
  /\ UNCHANGED <<pid, parent, killed, xstate, nextpid, np, panic, aimed>>

kexit_wakeup(p) ==
  /\ Runs(p, "exit_wakeup")
  /\ wakeup(parent[p])
  /\ Goto(p, "exit_zombie")
  /\ UNCHANGED <<pid, parent, killed, xstate, nextpid, wait_lock, np, panic, aimed>>

kexit_zombie(p) ==
  /\ Runs(p, "exit_zombie")
  /\ state' = [state EXCEPT ![p] = "ZOMBIE"]
  /\ wait_lock' = NULL
  /\ Goto(p, "none")
  /\ UNCHANGED <<pid, parent, killed, chan, xstate, nextpid, np, panic, aimed>>

----------------------------------------------------------------------------
(***************************************************************************)
(* kwait: one turn of its loop, under wait_lock.  A child that is a zombie *)
(* is reaped, unless copyout of its status fails (init passes no address); *)
(* with no child, or killed, it returns -1; otherwise it prepares to sleep. *)
(***************************************************************************)
sys_wait(p) ==
  /\ InUser(p)
  /\ Goto(p, "wait")
  /\ UNCHANGED <<state, pid, parent, killed, chan, xstate, nextpid, wait_lock,
                 np, panic, aimed>>

Children(p) == {q \in Slot : parent[q] = p}
Zombies(p) == {q \in Children(p) : state[q] = "ZOMBIE"}

(* freeproc(q), with kwait's pp->parent = 0. *)
freeproc(q) ==
  /\ state' = [state EXCEPT ![q] = "UNUSED"]
  /\ pid' = [pid EXCEPT ![q] = 0]
  /\ parent' = [parent EXCEPT ![q] = NULL]
  /\ killed' = [killed EXCEPT ![q] = FALSE]
  /\ chan' = [chan EXCEPT ![q] = NULL]
  /\ xstate' = [xstate EXCEPT ![q] = 0]
  /\ aimed' = [aimed EXCEPT ![q] = "no"]

kwait_reap(p, q) ==
  /\ Runs(p, "wait") /\ wait_lock = NULL
  /\ q \in Zombies(p)
  /\ freeproc(q)
  /\ Goto(p, "user")
  /\ UNCHANGED <<nextpid, wait_lock, np, panic>>

kwait_fails(p) ==
  /\ Runs(p, "wait") /\ wait_lock = NULL
  /\ IF Zombies(p) # {} THEN p # initproc ELSE Children(p) = {} \/ killed[p]
  /\ Goto(p, "user")
  /\ UNCHANGED <<state, pid, parent, killed, chan, xstate, nextpid, wait_lock,
                 np, panic, aimed>>

kwait_prepare(p) ==
  /\ Runs(p, "wait") /\ wait_lock = NULL
  /\ Zombies(p) = {} /\ Children(p) # {} /\ ~killed[p]
  /\ sleep_prepare(p, p)
  /\ Goto(p, "wait_sleep")
  /\ UNCHANGED <<state, pid, parent, killed, xstate, nextpid, wait_lock, np,
                 panic, aimed>>

----------------------------------------------------------------------------
(***************************************************************************)
(* The other loops that sleep until an event or a kill: sys_pause,         *)
(* piperead, pipewrite, consoleread.  init's program only forks and waits. *)
(***************************************************************************)
io_call(p) ==
  /\ InUser(p) /\ p # initproc
  /\ Goto(p, "io")
  /\ UNCHANGED <<state, pid, parent, killed, chan, xstate, nextpid, wait_lock,
                 np, panic, aimed>>

io_killed(p) ==
  /\ Runs(p, "io") /\ killed[p]
  /\ Goto(p, "user")
  /\ UNCHANGED <<state, pid, parent, killed, chan, xstate, nextpid, wait_lock,
                 np, panic, aimed>>

io_return(p) ==
  /\ Runs(p, "io")
  /\ Goto(p, "user")
  /\ UNCHANGED <<state, pid, parent, killed, chan, xstate, nextpid, wait_lock,
                 np, panic, aimed>>

io_prepare(p) ==
  /\ Runs(p, "io") /\ ~killed[p]
  /\ sleep_prepare(p, Io)
  /\ Goto(p, "io_sleep")
  /\ UNCHANGED <<state, pid, parent, killed, xstate, nextpid, wait_lock, np,
                 panic, aimed>>

(* The event: clockintr, uartintr/consoleintr, the other end of a pipe. *)
io_event ==
  /\ \E q \in Slot : chan[q] = Io
  /\ wakeup(Io)
  /\ UNCHANGED <<pid, parent, killed, xstate, nextpid, wait_lock, pc, np, panic, aimed>>

(* kkill(n): the first entry whose pid is n.  AboutToSleep(q) is the time    *)
(* between the killed check of q's loop and the sleep() it leads to.         *)
AboutToSleep(q) == pc[q] \in {"wait_sleep", "io_sleep"}

Aim(q, n) ==
  aimed' = [aimed EXCEPT ![q] = IF n = 0 THEN @ ELSE IF AboutToSleep(q) THEN "late" ELSE "seen"]

MutKillNoWake(p, n) ==
  /\ InUser(p)
  /\ \E q \in Slot : pid[q] = n /\ killed' = [killed EXCEPT ![q] = TRUE] /\ Aim(q, n)
  /\ UNCHANGED <<state, pid, parent, chan, xstate, nextpid, wait_lock, pc, np, panic>>

kkill(p, n) ==
  /\ InUser(p)
  /\ \E q \in Slot :
       /\ pid[q] = n
       /\ killed' = [killed EXCEPT ![q] = TRUE]
       /\ state' = [state EXCEPT ![q] = IF @ = "SLEEPING" THEN "RUNNABLE" ELSE @]
       /\ Aim(q, n)
  /\ UNCHANGED <<pid, parent, chan, xstate, nextpid, wait_lock, pc, np, panic>>

(* A fault in user mode: usertrap's setkilled. *)
setkilled(p) ==
  /\ InUser(p)
  /\ killed' = [killed EXCEPT ![p] = TRUE]
  /\ aimed' = [aimed EXCEPT ![p] = "seen"]
  /\ UNCHANGED <<state, pid, parent, chan, xstate, nextpid, wait_lock, pc, np, panic>>

----------------------------------------------------------------------------
(* userinit: proc[0] is runnable, the rest of the table is empty. *)
Init ==
  /\ state = [p \in Slot |-> IF p = initproc THEN "RUNNABLE" ELSE "UNUSED"]
  /\ pid = [p \in Slot |-> IF p = initproc THEN 1 ELSE 0]
  /\ parent = [p \in Slot |-> NULL]
  /\ killed = [p \in Slot |-> FALSE]
  /\ chan = [p \in Slot |-> NULL]
  /\ xstate = [p \in Slot |-> 0]
  /\ nextpid = 2
  /\ wait_lock = NULL
  /\ pc = [p \in Slot |-> IF p = initproc THEN "user" ELSE "none"]
  /\ np = [p \in Slot |-> NULL]
  /\ panic = FALSE
  /\ aimed = [p \in Slot |-> "no"]

(* Steps a process takes by itself once it is in the kernel. *)
Kernel(p) ==
  \/ sleep(p)
  \/ kfork_parent(p) \/ kfork_runnable(p)
  \/ usertrap_killed(p) \/ io_killed(p)
  \/ kexit_reparent(p) \/ kexit_wakeup(p) \/ kexit_zombie(p)
  \/ kwait_fails(p) \/ kwait_prepare(p) \/ \E q \in Slot : kwait_reap(p, q)

Calls(p) ==
  \/ \E q \in Slot : kfork(p, q) \/ kfork_fails(p, q)
  \/ sys_exit(p) \/ sys_wait(p)
  \/ io_call(p) \/ io_return(p) \/ io_prepare(p)
  \/ \E n \in KillPids : kkill(p, n)
  \/ setkilled(p)

Next ==
  /\ ~panic
  /\ \/ \E p \in Slot : scheduler(p) \/ yield(p) \/ Kernel(p) \/ Calls(p)
     \/ io_event

Spec == Init /\ [][Next]_vars

(***************************************************************************)
(* The scheduler scans proc[] round and round and a timer interrupts every *)
(* process, so a runnable process runs again and again and then gets on;   *)
(* init's program calls wait in a loop.  No process is forced to make any  *)
(* other call, and the event a reader of a pipe or of the console sleeps   *)
(* for need never come.                                                    *)
(***************************************************************************)
Fairness ==
  /\ \A p \in Slot : WF_vars(~panic /\ scheduler(p)) /\ SF_vars(~panic /\ Kernel(p))
  /\ SF_vars(~panic /\ sys_wait(initproc))

FairSpec == Spec /\ Fairness

----------------------------------------------------------------------------
(* The parent of a process that was made runnable is a process that can     *)
(* still wait for it: exit hands over all children, zombies included, and   *)
(* the entry of a parent is not reused under its children (reparent, kwait). *)
ParentCanWait ==
  \A q \in Slot : q # initproc /\ state[q] \notin {"UNUSED", "USED"} =>
    /\ parent[q] \in Slot
    /\ state[parent[q]] \notin {"UNUSED", "USED", "ZOMBIE"}

(* The status a zombie holds for wait is the one its program passed to      *)
(* exit(), unless the process itself was killed.                            *)
ExitStatusIsOwn ==
  \A q \in Slot : state[q] = "ZOMBIE" /\ aimed[q] = "no" => xstate[q] \in Status

(* A zombie handed over to init is reaped (kwait in init's loop).           *)
OrphanIsReaped ==
  \A q \in Slot : []<>(\/ ~(state[q] = "ZOMBIE" /\ parent[q] = initproc)
                       \/ panic \/ killed[initproc])

(* A killed process exits, although what it sleeps for may never happen:    *)
(* kkill makes a sleeper runnable and the loop it sleeps in checks killed.  *)
(* One exception is in the code: a kill that comes between the killed check *)
(* of such a loop and its sleep() finds nobody asleep and leaves p->chan,   *)
(* so the process goes to sleep, until the event or another kill.           *)
KillTakesEffect ==
  \A p \in Slot : []<>(\/ ~killed[p] \/ pc[p] = "none" \/ panic
                       \/ aimed[p] = "late" /\ state[p] = "SLEEPING")

============================================================================
