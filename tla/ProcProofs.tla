----------------------------- MODULE ProcProofs -----------------------------
(***************************************************************************)
(* The process family of Proc for every size of the table: who may be the  *)
(* parent of whom, and why kwait cannot sleep through the exit of a child. *)
(***************************************************************************)
EXTENDS Proc, TLAPS

Alive(p) == state[p] \in {"SLEEPING", "RUNNABLE", "RUNNING"}
Forking(p) == pc[p] \in {"fork_parent", "fork_runnable"}
Exiting(p) == pc[p] \in {"exit_wakeup", "exit_zombie"}

(* In kwait, in or before sleep(), with nobody having called wakeup. *)
Waiting(p) ==
  /\ chan[p] = p
  /\ pc[p] = "wait_sleep" \/ (pc[p] = "wait" /\ state[p] = "SLEEPING")

States == {"UNUSED", "USED", "SLEEPING", "RUNNABLE", "RUNNING", "ZOMBIE"}
PcValues == {"none", "user", "fork_parent", "fork_runnable", "exit", "exit_wakeup",
             "exit_zombie", "wait", "wait_sleep", "io", "io_sleep"}
Types ==
  /\ state \in [Slot -> States] /\ parent \in [Slot -> Slot \cup {NULL}]
  /\ chan \in [Slot -> Slot \cup {NULL, Io}] /\ wait_lock \in Slot \cup {NULL}
  /\ pc \in [Slot -> PcValues] /\ np \in [Slot -> Slot \cup {NULL}]

(* A process that is past reparent() or gone has no children, and everybody *)
(* but init has a parent until freeproc.                                    *)
Family ==
  /\ \A p \in Slot : pc[p] = "none" <=> ~Alive(p)
  /\ Alive(initproc) /\ pc[initproc] # "exit" /\ ~Exiting(initproc)
  /\ \A p, q \in Slot : parent[q] = p => Alive(p) /\ ~Exiting(p)
  /\ \A q \in Slot : q # initproc /\ (Alive(q) \/ state[q] = "ZOMBIE") => parent[q] \in Slot

(* The entry that kfork took is nobody else's. *)
Births ==
  /\ \A p \in Slot : Forking(p) => np[p] \in Slot /\ state[np[p]] = "USED"
  /\ \A p \in Slot : pc[p] = "fork_runnable" => parent[np[p]] = p
  /\ \A p, q \in Slot : Forking(p) /\ Forking(q) /\ np[p] = np[q] => p = q

(* Between kexit's wakeup of the parent and ZOMBIE, wait_lock keeps the      *)
(* parent from going to sleep.                                              *)
Exits ==
  /\ \A p \in Slot : wait_lock = p <=> Exiting(p)
  /\ \A q \in Slot : pc[q] = "exit_zombie" => ~Waiting(parent[q])

(* kwait never sleeps through the exit of a child: while it waits with its  *)
(* channel set, no child is a zombie (kexit calls wakeup before it sets     *)
(* ZOMBIE, but under wait_lock, and sleep_prepare is under wait_lock too).  *)
NoLostChildExit == \A p \in Slot : Waiting(p) => Zombies(p) = {}

IInv == Types /\ Family /\ Births /\ Exits /\ NoLostChildExit

----------------------------------------------------------------------------
(* userinit leaves one process without a parent. *)
LEMMA InitInv == Init => IInv
BY ProcAssumption DEF Init, IInv, Types, States, PcValues, Family, Births, Exits, NoLostChildExit,
   Alive, Forking, Exiting, Waiting, Zombies, Children

(* wakeup changes no life, only sleep. *)
LEMMA WakeupFrame ==
  ASSUME Types, NEW c, wakeup(c)
  PROVE  /\ state' \in [Slot -> States] /\ chan' \in [Slot -> Slot \cup {NULL, Io}]
         /\ \A q \in Slot : Alive(q)' <=> Alive(q)
         /\ \A q \in Slot : ~Alive(q) => state'[q] = state[q]
         /\ \A q \in Slot : chan'[q] # c \/ c = NULL
         /\ \A q \in Slot : chan'[q] = q => chan[q] = q
         /\ \A q \in Slot : state'[q] = "SLEEPING" => state[q] = "SLEEPING"
BY ProcAssumption DEF wakeup, Types, States, Alive

(* Steps that change no parent, no fork and no life: a process goes from    *)
(* one place to another that is neither a fork nor an exit, or states       *)
(* change among SLEEPING, RUNNABLE and RUNNING.                             *)
LEMMA OrdinaryInv ==
  ASSUME IInv, Types', UNCHANGED <<parent, wait_lock, np>>,
         \A q \in Slot : Alive(q)' <=> Alive(q),
         \A q \in Slot : ~Alive(q) => state'[q] = state[q],
         \A q \in Slot : pc'[q] = pc[q] \/ (/\ pc[q] # "none" /\ ~Forking(q) /\ ~Exiting(q)
                                           /\ pc'[q] # "none" /\ ~Forking(q)' /\ ~Exiting(q)'),
         pc'[initproc] # "exit",
         \A q \in Slot : Waiting(q)' => Waiting(q)
  PROVE  IInv'
<1>1. Family' BY ProcAssumption DEF IInv, Family, Types, Exiting
<1>2. Births' BY DEF IInv, Births, Types, Forking, Alive
<1>3. Exits' BY ProcAssumption DEF IInv, Exits, Family, Types, Exiting, Alive
<1>4. NoLostChildExit' BY DEF IInv, NoLostChildExit, Zombies, Children, Alive
<1>5. QED BY <1>1, <1>2, <1>3, <1>4 DEF IInv

(* The actions that OrdinaryInv covers. *)
LEMMA PlainInv ==
  ASSUME IInv, NEW p \in Slot,
         \/ scheduler(p) \/ yield(p) \/ sleep(p) \/ sys_wait(p) \/ kwait_fails(p)
         \/ io_call(p) \/ io_killed(p) \/ io_return(p) \/ io_prepare(p) \/ setkilled(p)
  PROVE  IInv'
<1> USE DEF Runs, InUser, Goto
<1>1. state[p] \in {"RUNNABLE", "RUNNING"} /\ Alive(p)
  BY DEF scheduler, yield, sleep, sys_wait, kwait_fails, io_call, io_killed, io_return,
     io_prepare, setkilled, Alive
<1>2. /\ UNCHANGED <<parent, wait_lock, np>>
      /\ state' \in [Slot -> States] /\ state'[p] \in {"SLEEPING", "RUNNABLE", "RUNNING"}
      /\ \A q \in Slot \ {p} : state'[q] = state[q]
  BY DEF scheduler, yield, sleep, sys_wait, kwait_fails, io_call, io_killed, io_return,
     io_prepare, setkilled, IInv, Types, States
<1>3. /\ pc' \in [Slot -> PcValues] /\ \A q \in Slot \ {p} : pc'[q] = pc[q]
      /\ pc'[p] = pc[p] \/ (/\ pc[p] \in {"user", "wait", "wait_sleep", "io", "io_sleep"}
                            /\ pc'[p] \in {"user", "wait", "io", "io_sleep"})
  BY DEF scheduler, yield, sleep, sys_wait, kwait_fails, io_call, io_killed, io_return,
     io_prepare, setkilled, IInv, Types, PcValues
<1>4. chan' \in [Slot -> Slot \cup {NULL, Io}] /\ \A q \in Slot : chan'[q] = chan[q] \/ chan'[q] = Io
  BY DEF scheduler, yield, sleep, sys_wait, kwait_fails, io_call, io_killed, io_return,
     io_prepare, sleep_prepare, setkilled, IInv, Types
<1>5. Waiting(p)' => Waiting(p)
  BY <1>1, ProcAssumption DEF scheduler, yield, sleep, sys_wait, kwait_fails, io_call, io_killed,
     io_return, io_prepare, sleep_prepare, setkilled, IInv, Types, Waiting
<1>6. \A q \in Slot : Waiting(q)' => Waiting(q)
  BY <1>2, <1>3, <1>4, <1>5, ProcAssumption DEF Waiting
<1>7. \A q \in Slot : (Alive(q)' <=> Alive(q)) /\ (~Alive(q) => state'[q] = state[q])
  BY <1>1, <1>2 DEF Alive
<1>8. Types' BY <1>2, <1>3, <1>4 DEF IInv, Types
<1>9. QED
  BY <1>2, <1>3, <1>6, <1>7, <1>8, OrdinaryInv, ProcAssumption
     DEF IInv, Family, Forking, Exiting

(* kkill wakes a sleeper; an event wakes those that wait for it. *)
LEMMA EventInv ==
  ASSUME IInv, io_event \/ \E p \in Slot, n \in KillPids : kkill(p, n)
  PROVE  IInv'
<1>1. CASE io_event
  <2>1. wakeup(Io) /\ UNCHANGED <<parent, wait_lock, np, pc>> BY <1>1 DEF io_event
  <2>2. \A q \in Slot : Waiting(q)' => Waiting(q)
    BY <2>1, WakeupFrame DEF IInv, Waiting
  <2>3. Types' BY <2>1, WakeupFrame DEF IInv, Types
  <2>4. QED
    BY <2>1, <2>2, <2>3, WakeupFrame, OrdinaryInv, ProcAssumption DEF IInv, Family
<1>2. ASSUME NEW p \in Slot, NEW n \in KillPids, kkill(p, n) PROVE IInv'
  <2>1. PICK q \in Slot :
          state' = [state EXCEPT ![q] = IF @ = "SLEEPING" THEN "RUNNABLE" ELSE @]
    BY Zenon, <1>2 DEF kkill
  <2>2. UNCHANGED <<parent, wait_lock, np, pc, chan>> BY <1>2 DEF kkill
  <2>3. Types' BY <2>1, <2>2 DEF IInv, Types, States
  <2>4. \A r \in Slot : (Alive(r)' <=> Alive(r)) /\ (~Alive(r) => state'[r] = state[r])
    BY <2>1 DEF IInv, Types, Alive
  <2>5. \A r \in Slot : Waiting(r)' => Waiting(r)
    BY <2>1, <2>2 DEF IInv, Types, Waiting
  <2>6. QED BY <2>2, <2>3, <2>4, <2>5, OrdinaryInv, ProcAssumption DEF IInv, Family
<1>3. QED BY Zenon, <1>1, <1>2

(* kwait prepares to sleep under wait_lock, when it has seen no zombie. *)
LEMMA PrepareInv ==
  ASSUME IInv, NEW p \in Slot, kwait_prepare(p)
  PROVE  IInv'
<1> USE DEF kwait_prepare, Runs, Goto, sleep_prepare
<1>1. Types' BY DEF IInv, Types, PcValues
<1>2. Family' BY DEF IInv, Types, Family, Alive, Exiting
<1>3. Births' BY DEF IInv, Types, Births, Forking
<1>4. \A q \in Slot : ~Exiting(q) /\ ~Exiting(q)'
  BY ProcAssumption DEF IInv, Types, Exits, Exiting
<1>5. Exits' BY <1>4, ProcAssumption DEF IInv, Types, Exits, Exiting
<1>6. NoLostChildExit'
  BY ProcAssumption DEF IInv, Types, NoLostChildExit, Waiting, Zombies, Children
<1>7. QED BY <1>1, <1>2, <1>3, <1>5, <1>6 DEF IInv

----------------------------------------------------------------------------
(* kfork: the entry, the parent link, the new process. *)
LEMMA ForkInv ==
  ASSUME IInv, NEW p \in Slot, NEW q \in Slot, kfork(p, q) \/ kfork_fails(p, q)
  PROVE  IInv'
<1> USE DEF kfork, kfork_fails, Runs, InUser, Goto
<1>1. CASE kfork(p, q)
  <2> USE <1>1
  <2>1. p # q /\ q # initproc /\ ~Alive(q) /\ (\A r \in Slot : parent[r] # q)
    BY DEF IInv, Types, Family, Alive
  <2>2. Types' BY DEF IInv, Types, States, PcValues
  <2>3. Family' BY <2>1 DEF IInv, Types, Family, Alive, Exiting
  <2>4. Births' BY <2>1 DEF IInv, Types, Births, Forking
  <2>5. Exits' BY <2>1, ProcAssumption DEF IInv, Types, Exits, Exiting, Waiting, Family, Alive
  <2>6. NoLostChildExit' BY Zenon, <2>1 DEF IInv, Types, NoLostChildExit, Waiting, Zombies, Children
  <2>7. QED BY <2>2, <2>3, <2>4, <2>5, <2>6 DEF IInv
<1>2. CASE kfork_fails(p, q)
  BY SMTT(30), <1>2 DEF IInv, Types, Family, Births, Exits, NoLostChildExit, Alive, Forking, Exiting,
     Waiting, Zombies, Children
<1>3. QED BY <1>1, <1>2

LEMMA ForkParentInv ==
  ASSUME IInv, NEW p \in Slot, kfork_parent(p)
  PROVE  IInv'
<1> USE DEF kfork_parent, Runs, Goto
<1>1. Forking(p) /\ np[p] \in Slot /\ state[np[p]] = "USED" /\ Alive(p) /\ ~Exiting(p)
  BY DEF IInv, Births, Forking, Alive, Exiting
<1>2. Types' BY <1>1 DEF IInv, Types, PcValues
<1>3. Family' BY <1>1, ProcAssumption DEF IInv, Types, Family, Alive, Exiting
<1>4. Births' BY <1>1 DEF IInv, Types, Births, Forking
<1>5. Exits' BY <1>1, ProcAssumption DEF IInv, Types, Exits, Exiting, Waiting, Family, Alive
<1>6. NoLostChildExit' BY <1>1 DEF IInv, Types, NoLostChildExit, Waiting, Zombies, Children
<1>7. QED BY <1>2, <1>3, <1>4, <1>5, <1>6 DEF IInv

LEMMA ForkRunnableInv ==
  ASSUME IInv, NEW p \in Slot, kfork_runnable(p)
  PROVE  IInv'
<1> DEFINE c == np[p]
<1> USE DEF kfork_runnable, Runs
<1>1. /\ Forking(p) /\ c \in Slot /\ state[c] = "USED" /\ parent[c] = p /\ p # c
      /\ Alive(p) /\ ~Alive(c) /\ pc[c] = "none" /\ c # initproc
  BY DEF IInv, Births, Family, Forking, Alive
<1>2. Types' BY <1>1 DEF IInv, Types, States, PcValues
<1>3. pc'[c] = "user" /\ pc'[p] = "user" /\ \A r \in Slot \ {p, c} : pc'[r] = pc[r]
  BY Zenon, <1>1 DEF IInv, Types
<1>4. Family' BY <1>1, <1>3, ProcAssumption DEF IInv, Types, Family, Alive, Exiting
<1>5. Births' BY <1>1, <1>3 DEF IInv, Types, Births, Forking
<1>6. Exits' BY <1>1, <1>3, ProcAssumption DEF IInv, Types, Exits, Exiting, Waiting, Family, Alive
<1>7. NoLostChildExit'
  BY SMTT(30), <1>1, <1>3 DEF IInv, Types, NoLostChildExit, Waiting, Zombies, Children
<1>8. QED BY <1>2, <1>4, <1>5, <1>6, <1>7 DEF IInv

----------------------------------------------------------------------------
(* kexit: it begins in user mode, and not in init. *)
LEMMA ExitInv ==
  ASSUME IInv, NEW p \in Slot, sys_exit(p) \/ usertrap_killed(p)
  PROVE  IInv'
<1> USE DEF Runs, InUser, Goto, kexit, sys_exit, usertrap_killed
<1>1. UNCHANGED <<state, parent, chan, wait_lock, np>>
      /\ pc[p] = "user" /\ (pc' = pc \/ (p # initproc /\ pc' = [pc EXCEPT ![p] = "exit"]))
  OBVIOUS
<1>2. Types' BY <1>1 DEF IInv, Types, PcValues
<1>3. \A q \in Slot : pc'[q] = pc[q] \/ (q = p /\ p # initproc /\ pc'[q] = "exit")
  BY <1>1 DEF IInv, Types
<1>4. \A q \in Slot : (Alive(q)' <=> Alive(q)) /\ (Waiting(q)' => Waiting(q))
  BY Zenon, <1>1, <1>3 DEF Alive, Waiting
<1>5. QED
  BY Zenon, <1>1, <1>2, <1>3, <1>4, OrdinaryInv, ProcAssumption DEF IInv, Family, Forking, Exiting

(* The children go to init, which is woken in case one of them is a zombie. *)
LEMMA ReparentInv ==
  ASSUME IInv, NEW p \in Slot, kexit_reparent(p)
  PROVE  IInv'
<1> USE DEF kexit_reparent, reparent, Runs, Goto
<1>1. p # initproc /\ Alive(p) /\ ~Forking(p) /\ pc[p] = "exit" /\ initproc \in Slot
  BY Zenon, ProcAssumption DEF IInv, Family, Alive, Forking
<1>2. /\ state' \in [Slot -> States] /\ chan' \in [Slot -> Slot \cup {NULL, Io}]
      /\ \A q \in Slot : (Alive(q)' <=> Alive(q)) /\ (~Alive(q) => state'[q] = state[q])
      /\ \A q \in Slot : chan'[q] = q => chan[q] = q
      /\ \A q \in Slot : state'[q] = "SLEEPING" => state[q] = "SLEEPING"
      /\ (\E q \in Slot : parent[q] = p) => chan'[initproc] # initproc
  <2>1. CASE \E q \in Slot : parent[q] = p
    <3>1. wakeup(initproc) BY <2>1
    <3>2. QED BY <3>1, <1>1, WakeupFrame, ProcAssumption DEF IInv
  <2>2. CASE ~\E q \in Slot : parent[q] = p
    BY <2>2 DEF IInv, Types, Alive
  <2>3. QED BY Zenon, <2>1, <2>2
<1>3. Types' BY ZenonT(40), <1>1, <1>2 DEF IInv, Types, PcValues
<1>4. pc'[p] = "exit_wakeup" /\ (\A q \in Slot \ {p} : pc'[q] = pc[q])
      /\ (\A q \in Slot : ~Exiting(q))
  BY ProcAssumption DEF IInv, Types, Exits
<1>5. Family' BY <1>1, <1>2, <1>4, ProcAssumption DEF IInv, Types, Family, Exiting, Alive
<1>6. Births' BY SMTT(30), <1>1, <1>2, <1>4 DEF IInv, Types, Births, Forking, Alive
<1>7. Exits' BY Zenon, <1>1, <1>3, <1>4, ProcAssumption DEF IInv, Types, Exits, Exiting
<1>8. \A q \in Slot : Waiting(q)' => Waiting(q)
  BY Zenon, <1>1, <1>2, <1>4 DEF Waiting
<1>9. NoLostChildExit'
  <2> SUFFICES ASSUME NEW r \in Slot, Waiting(r)', NEW q \in Slot, parent'[q] = r,
                      state'[q] = "ZOMBIE"
               PROVE  FALSE
    BY DEF NoLostChildExit, Zombies, Children
  <2>1. Waiting(r) /\ state[q] = "ZOMBIE"
    BY <1>2, <1>8 DEF IInv, Types, Alive
  <2>2. parent[q] # p BY <1>2 DEF Waiting
  <2>3. QED BY <2>1, <2>2 DEF IInv, Types, NoLostChildExit, Zombies, Children
<1>10. QED BY <1>3, <1>5, <1>6, <1>7, <1>9 DEF IInv

(* The parent is woken while wait_lock is held. *)
LEMMA ExitWakeupInv ==
  ASSUME IInv, NEW p \in Slot, kexit_wakeup(p)
  PROVE  IInv'
<1> DEFINE r == parent[p]
<1> USE DEF kexit_wakeup, Runs, Goto
<1>1. Alive(p) /\ ~Forking(p) /\ Exiting(p) /\ p # initproc /\ r \in Slot
  BY Zenon DEF IInv, Family, Alive, Forking, Exiting
<1>2. wakeup(r) /\ chan'[r] # r
  BY SMTT(30), <1>1, WakeupFrame, ProcAssumption DEF IInv
<1>3. Types' BY <1>1, <1>2, WakeupFrame DEF IInv, Types, PcValues
<1>4. pc'[p] = "exit_zombie" /\ \A q \in Slot \ {p} : pc'[q] = pc[q]
  BY Zenon DEF IInv, Types
<1>5. Family' BY SMTT(30), <1>1, <1>2, <1>4, WakeupFrame, ProcAssumption DEF IInv, Types, Family, Exiting, Alive
<1>6. Births' BY SMTT(30), <1>1, <1>2, <1>4, WakeupFrame DEF IInv, Types, Births, Forking, Alive
<1>7. \A q \in Slot : Waiting(q)' => Waiting(q)
  BY Zenon, <1>1, <1>2, <1>4, WakeupFrame DEF IInv, Waiting
<1>8. Exits'
  BY SMTT(30), <1>1, <1>2, <1>4, <1>7, ProcAssumption DEF IInv, Types, Exits, Exiting, Family, Alive, Waiting
<1>9. NoLostChildExit'
  BY <1>2, <1>7, WakeupFrame DEF IInv, NoLostChildExit, Zombies, Children, Types, Alive
<1>10. QED BY <1>3, <1>5, <1>6, <1>8, <1>9 DEF IInv

(* ZOMBIE: the parent does not wait, so it will look. *)
LEMMA ZombieInv ==
  ASSUME IInv, NEW p \in Slot, kexit_zombie(p)
  PROVE  IInv'
<1> USE DEF kexit_zombie, Runs, Goto
<1>1. /\ Alive(p) /\ ~Forking(p) /\ Exiting(p) /\ p # initproc /\ parent[p] \in Slot
      /\ ~Waiting(parent[p]) /\ wait_lock = p /\ (\A q \in Slot : parent[q] # p)
  BY DEF IInv, Family, Exits, Alive, Forking, Exiting
<1>2. Types' BY DEF IInv, Types, States, PcValues
<1>3. pc'[p] = "none" /\ state'[p] = "ZOMBIE"
      /\ \A q \in Slot \ {p} : pc'[q] = pc[q] /\ state'[q] = state[q]
  BY Zenon DEF IInv, Types
<1>4. Family' BY <1>1, <1>3, ProcAssumption DEF IInv, Types, Family, Exiting, Alive
<1>5. Births' BY SMTT(30), <1>1, <1>3 DEF IInv, Types, Births, Forking, Alive
<1>6. \A q \in Slot : ~Exiting(q)'
  BY <1>1, <1>3 DEF IInv, Exits, Exiting
<1>7. Exits' BY <1>6, ProcAssumption DEF Exits, Exiting
<1>8. \A q \in Slot : Waiting(q)' => Waiting(q)
  BY Zenon, <1>3 DEF Waiting
<1>9. NoLostChildExit'
  BY <1>1, <1>3, <1>8 DEF IInv, NoLostChildExit, Zombies, Children
<1>10. QED BY <1>2, <1>4, <1>5, <1>7, <1>9 DEF IInv

(* kwait frees the entry of a zombie, which is nobody's parent. *)
LEMMA ReapInv ==
  ASSUME IInv, NEW p \in Slot, NEW q \in Slot, kwait_reap(p, q)
  PROVE  IInv'
<1> USE DEF kwait_reap, freeproc, Runs, Goto, Zombies, Children
<1>1. /\ state[q] = "ZOMBIE" /\ ~Alive(q) /\ p # q /\ q # initproc
      /\ (\A r \in Slot : parent[r] # q) /\ Alive(p) /\ ~Forking(p)
  BY DEF IInv, Family, Alive, Forking
<1>2. Types' BY DEF IInv, Types, States, PcValues
<1>3. \A r \in Slot : ~Exiting(r) /\ ~Exiting(r)'
  BY Zenon, ProcAssumption DEF IInv, Types, Exits, Exiting
<1>4. Family' BY ZenonT(40), <1>1, <1>3, ProcAssumption DEF IInv, Types, Family, Alive
<1>5. Births' BY <1>1 DEF IInv, Types, Births, Forking
<1>6. Exits' BY Zenon, <1>3, ProcAssumption DEF IInv, Exits, Exiting
<1>7. \A r \in Slot : Waiting(r)' => Waiting(r)
  BY <1>1, ProcAssumption DEF IInv, Types, Waiting
<1>8. NoLostChildExit' BY <1>7, ProcAssumption DEF IInv, Types, NoLostChildExit
<1>9. QED BY <1>2, <1>4, <1>5, <1>6, <1>8 DEF IInv

----------------------------------------------------------------------------
(* Every step of every process keeps the invariant. *)
LEMMA NextInv == IInv /\ [Next]_vars => IInv'
<1> SUFFICES ASSUME IInv, [Next]_vars PROVE IInv'
  OBVIOUS
<1>1. ASSUME NEW p \in Slot, scheduler(p) \/ yield(p) PROVE IInv'
  BY <1>1, PlainInv
<1>2. ASSUME NEW p \in Slot, Kernel(p) PROVE IInv'
  BY <1>2, PlainInv, PrepareInv, ForkParentInv, ForkRunnableInv, ExitInv, ReparentInv,
     ExitWakeupInv, ZombieInv, ReapInv DEF Kernel
<1>3. ASSUME NEW p \in Slot, Calls(p) PROVE IInv'
  BY <1>3, PlainInv, ForkInv, ExitInv, EventInv DEF Calls
<1>4. CASE io_event BY Zenon, <1>4, EventInv
<1>5. CASE UNCHANGED vars
  BY <1>5 DEF vars, IInv, Types, Family, Births, Exits, NoLostChildExit, Alive, Forking,
     Exiting, Waiting, Zombies, Children
<1>6. QED BY <1>1, <1>2, <1>3, <1>4, <1>5 DEF Next

(* The invariant holds of every behaviour of the process table. *)
THEOREM Invariance == Spec => []IInv
BY InitInv, NextInv, PTL DEF Spec

(* In a table of any size, the parent of a process that was made runnable   *)
(* is one that can still wait for it: kexit and reparent leave no orphan.   *)
THEOREM NoOrphans == Spec => []ParentCanWait
<1>1. IInv => ParentCanWait
  BY DEF IInv, Types, States, Family, Alive, ParentCanWait
<1>2. QED BY <1>1, Invariance, PTL

(* A parent in kwait never sleeps while one of its children is a zombie.    *)
THEOREM ChildExitIsSeen == Spec => []NoLostChildExit
BY Invariance, PTL DEF IInv
=============================================================================
