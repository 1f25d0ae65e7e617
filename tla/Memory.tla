------------------------------- MODULE Memory -------------------------------
(***************************************************************************)
(* Physical pages and user address spaces: kernel/kalloc.c, kernel/vm.c,   *)
(* the page tables of kernel/proc.c, kernel/exec.c and sbrk.               *)
(*                                                                         *)
(* A call touches its own page table and the free list, so it is one step  *)
(* here; what other processes take from the free list meanwhile is `left`, *)
(* the number of pages that kalloc still finds for this call, which is     *)
(* chosen freely.  A page is abstracted to one value.                      *)
(***************************************************************************)
EXTENDS Integers, Sequences, FiniteSets, FiniteSetsExt, SequencesExt

CONSTANTS
  Proc,
  NPage,      \* physical pages
  FAN,        \* entries of a page table page; there are three levels
  PGSIZE,
  UINT64,     \* one more than the largest uint64
  USERSTACK,
  Programs,   \* sequences of segments [vaddr, memsz, filesz, w]
  Sizes,      \* bound: the arguments of sbrk
  Addrs,      \* bound: the user addresses that are used
  Value,      \* bound: the values that are written to user memory
  MaxCalls,   \* bound: the number of steps
  None

Page == 1..NPage
VPN == 0..(FAN * FAN * FAN - 1)
TRAMPOLINE == FAN * FAN * FAN - 1
TRAPFRAME == TRAMPOLINE - 1     \* page numbers; the code's are addresses
Node == {<<2, 0>>} \cup ({1} \X (0..FAN - 1)) \cup ({0} \X (0..FAN * FAN - 1))

JUNK == 99    \* what memset leaves in a page that is freed or allocated
TEXT == 98    \* the bytes of a program file
ARGS == 97    \* the arguments that exec puts on the stack
PASSED == -1  \* the physical address of the trampoline

ASSUME MemoryAssumption ==
  /\ NPage \in Nat /\ FAN \in Nat \ {0, 1} /\ PGSIZE \in Nat \ {0} /\ MaxCalls \in Nat
  /\ (TRAMPOLINE + 1) * PGSIZE < UINT64 /\ USERSTACK \in Nat \ {0}
  /\ {JUNK, TEXT, ARGS} \cap Value = {} /\ Addrs \subseteq 0..((TRAPFRAME - 2) * PGSIZE)

VARIABLES
  free,       \* kmem.freelist
  mem,        \* contents of pages
  pt,         \* p->pagetable: table pages and leaf entries
  frame,      \* p->trapframe
  sz,         \* p->sz
  live,       \* the processes that exist
  panic, ncalls

vars == <<free, mem, pt, frame, sz, live, panic, ncalls>>

NoLeaf == [pa |-> 0, u |-> FALSE, w |-> FALSE]
NoTable == [node |-> [x \in Node |-> 0], leaf |-> [v \in VPN |-> NoLeaf]]

PGROUNDUP(a) == (a + PGSIZE - 1) \div PGSIZE    \* in pages

(* Values lo..hi-1 in order. *)
Upto(lo, hi) == [i \in 1..Max({0, hi - lo}) |-> lo + i - 1]

----------------------------------------------------------------------------
(* A call carries the record c: the free list, the pages, the page table it *)
(* works on, `left`, the page kalloc returned (0 for none), whether it is   *)
(* still succeeding, and whether it panicked.                               *)
Start(t, left) == [free |-> free, mem |-> mem, pt |-> t, left |-> left, got |-> 0,
                   ok |-> TRUE, at |-> 0, size |-> 0, panic |-> FALSE]

kalloc(c) ==
  IF c.free = {} \/ c.left = 0 THEN [c EXCEPT !.got = 0, !.ok = FALSE]
  ELSE LET b == Min(c.free)
       IN  [c EXCEPT !.free = @ \ {b}, !.left = @ - 1, !.got = b, !.mem[b] = JUNK]

kfree(c, b) ==
  IF b \notin Page THEN [c EXCEPT !.panic = TRUE]
  ELSE [c EXCEPT !.free = @ \cup {b}, !.mem[b] = JUNK]

(* walk with alloc: the table pages on the way to v, made where they are    *)
(* missing; they stay when a later one cannot be made.                      *)
Entered(a, x) == IF a.ok THEN [a EXCEPT !.pt.node[x] = a.got] ELSE a
Enter(c, x) == IF ~c.ok \/ c.pt.node[x] # 0 THEN c ELSE Entered(kalloc(c), x)
walk(c, v) ==
  FoldLeft(Enter, [c EXCEPT !.panic = @ \/ v \notin VPN],
           <<<<1, v \div (FAN * FAN)>>, <<0, v \div FAN>>>>)

SetLeaf(c, v, leaf) ==
  IF ~c.ok THEN c
  ELSE [c EXCEPT !.panic = @ \/ c.pt.leaf[v].pa # 0, !.pt.leaf[v] = leaf]
mappages(c, v, leaf) == SetLeaf(walk(c, v), v, leaf)

uvmunmap(c, V, do_free) ==
  LET drop(v, a) ==
        IF a.pt.leaf[v].pa = 0 THEN a
        ELSE [(IF do_free THEN kfree(a, a.pt.leaf[v].pa) ELSE a) EXCEPT !.pt.leaf[v] = NoLeaf]
  IN  FoldSet(drop, c, V)

uvmdealloc(c, oldsz, newsz) == uvmunmap(c, PGROUNDUP(newsz)..(PGROUNDUP(oldsz) - 1), TRUE)

(* A page that could not be mapped is freed. *)
MutKeepPage(c, page) == c
FreeIfFailed(c, page) == IF c.ok THEN c ELSE kfree(c, page)

(* A fresh page with contents x at v. *)
NewPage(c, v, x, leaf) ==
  LET a == kalloc(c)
  IN  IF ~a.ok THEN a
      ELSE FreeIfFailed(mappages([a EXCEPT !.mem[a.got] = x], v, [leaf EXCEPT !.pa = a.got]),
                        a.got)

UserLeaf(w) == [pa |-> 0, u |-> TRUE, w |-> w]

(* uvmalloc goes up to the page where it fails and takes back the rest. *)
uvmalloc(c, oldsz, newsz, w) ==
  LET grow(a, v) == IF a.ok THEN [NewPage(a, v, 0, UserLeaf(w)) EXCEPT !.at = v] ELSE a
      d == FoldLeft(grow, c, Upto(PGROUNDUP(oldsz), PGROUNDUP(newsz)))
  IN  IF d.ok THEN d ELSE uvmdealloc(d, d.at * PGSIZE, oldsz)

(* freewalk: a leaf that is still there is a panic; the root page is last. *)
freewalk(c) ==
  LET drop(x, a) == IF a.pt.node[x] = 0 THEN a ELSE kfree(a, a.pt.node[x])
      d == FoldSet(drop, c, Node)
  IN  [d EXCEPT !.pt = NoTable, !.panic = @ \/ \E v \in VPN : c.pt.leaf[v].pa # 0]
uvmfree(c, size) == freewalk(uvmunmap(c, 0..(PGROUNDUP(size) - 1), TRUE))

(* uvmcopy, with the pages of the parent in old. *)
uvmcopy(c, old, size) ==
  LET copy(a, v) ==
        IF ~a.ok \/ old.leaf[v].pa = 0 THEN a
        ELSE [NewPage(a, v, a.mem[old.leaf[v].pa], old.leaf[v]) EXCEPT !.at = v]
      d == FoldLeft(copy, c, Upto(0, PGROUNDUP(size)))
  IN  IF d.ok THEN d ELSE uvmunmap(d, 0..(d.at - 1), TRUE)

----------------------------------------------------------------------------
(* proc_pagetable and proc_freepagetable; tf is the trapframe page. *)
proc_pagetable(c, tf) ==
  LET root == kalloc([c EXCEPT !.pt = NoTable])
      t1 == mappages([root EXCEPT !.pt.node[<<2, 0>>] = root.got], TRAMPOLINE,
                     [NoLeaf EXCEPT !.pa = PASSED])
      t2 == mappages(t1, TRAPFRAME, [NoLeaf EXCEPT !.pa = tf, !.w = TRUE])
  IN  IF ~root.ok THEN root
      ELSE IF ~t1.ok THEN uvmfree(t1, 0)
      ELSE IF ~t2.ok THEN uvmfree(uvmunmap(t2, {TRAMPOLINE}, FALSE), 0)
      ELSE t2

proc_freepagetable(c, size) ==
  uvmfree(uvmunmap(uvmunmap(c, {TRAMPOLINE}, FALSE), {TRAPFRAME}, FALSE), size)

(* vmfault: a page below the size that is not mapped appears, zero. *)
MutAnyAddress(c, psz, va) ==
  LET v == va \div PGSIZE
  IN  IF c.pt.leaf[v].pa # 0 THEN [c EXCEPT !.ok = FALSE] ELSE NewPage(c, v, 0, UserLeaf(TRUE))
vmfault(c, psz, va) ==
  LET v == va \div PGSIZE
  IN  IF va >= psz \/ c.pt.leaf[v].pa # 0 THEN [c EXCEPT !.ok = FALSE]
      ELSE NewPage(c, v, 0, UserLeaf(TRUE))

(* One page of copyin or copyout, which ask vmfault for the page address. *)
Reach(c, psz, v) == IF c.pt.leaf[v].u THEN c ELSE vmfault(c, psz, v * PGSIZE)
Put(c, v, x) ==
  IF ~c.ok THEN c
  ELSE IF ~c.pt.leaf[v].w THEN [c EXCEPT !.ok = FALSE]
  ELSE [c EXCEPT !.mem[c.pt.leaf[v].pa] = x]

PagesOf(va, len) == Upto(va \div PGSIZE, PGROUNDUP(va + len))
copyout(c, psz, va, len, x) ==
  LET page(a, v) == IF a.ok THEN Put(Reach(a, psz, v), v, x) ELSE a
  IN  FoldLeft(page, c, PagesOf(va, len))
copyin(c, psz, va, len) ==
  LET page(a, v) == IF a.ok THEN Reach(a, psz, v) ELSE a
  IN  FoldLeft(page, c, PagesOf(va, len))

----------------------------------------------------------------------------
(* The step of a call by p ends with c. *)
Call == ~panic /\ ncalls < MaxCalls /\ ncalls' = ncalls + 1
Keep(p, c) ==
  /\ free' = c.free /\ mem' = c.mem /\ panic' = c.panic
  /\ pt' = [pt EXCEPT ![p] = c.pt]
Left(k) == 0..Min({k, Cardinality(free)})   \* for a call that asks for at most k pages

Fits(p, n) == sz[p] + n <= TRAPFRAME * PGSIZE

(* growproc and sys_sbrk.  n < 0 is computed as uint64; below zero it wraps *)
(* to a size that is not smaller, and nothing happens.                      *)
growproc(p, n) ==
  LET new == (sz[p] + n) % UINT64
  IN  \/ /\ n > 0 /\ Fits(p, n)
         /\ \E left \in Left(NPage) :
              LET c == uvmalloc(Start(pt[p], left), sz[p], new, TRUE)
              IN  /\ Keep(p, c)
                  /\ sz' = IF c.ok THEN [sz EXCEPT ![p] = new] ELSE sz
      \/ /\ n < 0 /\ new < sz[p]
         /\ Keep(p, uvmdealloc(Start(pt[p], 0), sz[p], new))
         /\ sz' = [sz EXCEPT ![p] = new]

sys_sbrk(p) ==
  /\ Call /\ p \in live
  /\ \E n \in Sizes :
       \/ growproc(p, n)
       \/ /\ n >= 0 /\ Fits(p, n)
          /\ sz' = [sz EXCEPT ![p] = @ + n]
          /\ UNCHANGED <<free, mem, pt, panic>>
  /\ UNCHANGED <<frame, live>>

(* A store or a load of the program.  If the page is not there, usertrap    *)
(* calls vmfault and the instruction runs again; else the process is killed.*)
usertrap(p) ==
  /\ Call /\ p \in live
  /\ \E va \in Addrs, x \in Value, left \in Left(3), write \in BOOLEAN :
       LET v == va \div PGSIZE
           c == Start(pt[p], left)
           l == pt[p].leaf[v]
           d == IF l.u /\ (write => l.w) THEN c ELSE vmfault(c, sz[p], va)
       IN  Keep(p, IF write THEN Put(d, v, x) ELSE d)
  /\ UNCHANGED <<frame, sz, live>>

(* The kernel copies from and to the memory of its caller. *)
either_copy(p) ==
  /\ Call /\ p \in live
  /\ \E va \in Addrs, x \in Value, left \in Left(6) :
       LET len == PGSIZE + 1
       IN  \/ Keep(p, copyout(Start(pt[p], left), sz[p], va, len, x))
           \/ Keep(p, copyin(Start(pt[p], left), sz[p], va, len))
  /\ UNCHANGED <<frame, sz, live>>

----------------------------------------------------------------------------
(* allocproc and the copy of kfork; freeproc on every failure. *)
kfork(p, q) ==
  /\ Call /\ p \in live /\ q \notin live
  /\ \E left \in Left(NPage) :
       LET tf == kalloc(Start(NoTable, left))
           t == proc_pagetable(tf, tf.got)
           c == uvmcopy(t, pt[p], sz[p])
           fails == IF ~tf.ok THEN tf
                    ELSE IF ~t.ok THEN kfree(t, tf.got)
                    ELSE proc_freepagetable(kfree(c, tf.got), 0)
       IN  \/ /\ tf.ok /\ t.ok /\ c.ok
              /\ Keep(q, c)
              /\ frame' = [frame EXCEPT ![q] = tf.got]
              /\ sz' = [sz EXCEPT ![q] = sz[p]] /\ live' = live \cup {q}
           \/ /\ ~(tf.ok /\ t.ok /\ c.ok)
              /\ Keep(q, fails)
              /\ UNCHANGED <<frame, sz, live>>

(* The end of a process: kexit, then freeproc by its parent. *)
freeproc(p) ==
  /\ Call /\ p \in live /\ Cardinality(live) > 1
  /\ Keep(p, proc_freepagetable(kfree(Start(pt[p], 0), frame[p]), sz[p]))
  /\ frame' = [frame EXCEPT ![p] = 0] /\ sz' = [sz EXCEPT ![p] = 0] /\ live' = live \ {p}

(* kexec.  The call fails when memory runs out, when the file is bad or     *)
(* short in segment `bad`, or when the arguments do not fit (bad = 0).      *)
load(a, v) == [a EXCEPT !.panic = @ \/ ~a.pt.leaf[v].u, !.mem[a.pt.leaf[v].pa] = TEXT]
loadseg(c, s) ==
  IF c.ok THEN FoldLeft(load, c, Upto(s.vaddr \div PGSIZE, PGROUNDUP(s.vaddr + s.filesz))) ELSE c

segment(c, s, bad) ==
  IF ~c.ok THEN c
  ELSE LET a == loadseg(uvmalloc(c, c.size, s.vaddr + s.memsz, s.w), s)
       IN  [a EXCEPT !.ok = @ /\ ~bad, !.size = IF a.ok THEN Max({@, s.vaddr + s.memsz}) ELSE @]

uvmclear(c, v) ==
  [c EXCEPT !.panic = @ \/ c.pt.leaf[v].pa = 0, !.pt.leaf[v].u = FALSE]

stack(c, bad) ==
  LET base == PGROUNDUP(c.size)
      top == base + USERSTACK + 1
      a == uvmalloc(c, base * PGSIZE, top * PGSIZE, TRUE)
      b == copyout(uvmclear([a EXCEPT !.size = top * PGSIZE], base), top * PGSIZE,
                   top * PGSIZE - 1, 1, ARGS)
  IN  IF ~c.ok THEN c
      ELSE IF ~a.ok THEN [a EXCEPT !.size = base * PGSIZE]
      ELSE [b EXCEPT !.ok = @ /\ ~bad]

(* The end of kexec: t is the new page table as it was made, c the call     *)
(* after the segments and the stack.                                        *)
commit(p, t, c) ==
  \/ /\ t.ok /\ c.ok
     /\ Keep(p, [proc_freepagetable([c EXCEPT !.pt = pt[p]], sz[p]) EXCEPT !.pt = c.pt])
     /\ sz' = [sz EXCEPT ![p] = c.size]
  \/ /\ t.ok /\ ~c.ok
     /\ Keep(p, [proc_freepagetable(c, c.size) EXCEPT !.pt = pt[p]])
     /\ UNCHANGED sz
  \/ /\ ~t.ok
     /\ Keep(p, [t EXCEPT !.pt = pt[p]])
     /\ UNCHANGED sz

kexec(p) ==
  /\ Call /\ p \in live
  /\ \E prog \in Programs, left \in Left(NPage) : \E bad \in 0..Len(prog) + 1 :
       LET t == proc_pagetable(Start(NoTable, left), frame[p])
           seg(a, i) == segment(a, prog[i], bad = i)
       IN  commit(p, t, stack(FoldLeft(seg, t, Upto(1, Len(prog) + 1)), bad = 0))
  /\ UNCHANGED <<frame, live>>

(* kinit, and the first process of userinit, which has no memory yet. *)
Init ==
  \E p \in Proc :
    LET c0 == [free |-> Page, mem |-> [b \in Page |-> JUNK], pt |-> NoTable, left |-> NPage,
               got |-> 0, ok |-> TRUE, at |-> 0, size |-> 0, panic |-> FALSE]
        tf == kalloc(c0)
        c == proc_pagetable(tf, tf.got)
    IN  /\ free = c.free /\ mem = c.mem /\ panic = c.panic
        /\ pt = [q \in Proc |-> IF q = p THEN c.pt ELSE NoTable]
        /\ frame = [q \in Proc |-> IF q = p THEN tf.got ELSE 0]
        /\ sz = [q \in Proc |-> 0] /\ live = {p} /\ ncalls = 0

Next ==
  \E p \in Proc :
    \/ sys_sbrk(p) \/ usertrap(p) \/ either_copy(p) \/ kexec(p) \/ freeproc(p)
    \/ \E q \in Proc : kfork(p, q)

Spec == Init /\ [][Next]_vars

----------------------------------------------------------------------------
(* The uses of pages: table pages, user pages, trapframes.                  *)
Uses ==
  {<<p, "node", x>> : p \in Proc, x \in Node} \cup {<<p, "leaf", v>> : p \in Proc, v \in 0..(TRAPFRAME - 1)}
    \cup {<<p, "frame", 0>> : p \in Proc}
PageOf(u) ==
  CASE u[2] = "node" -> pt[u[1]].node[u[3]]
    [] u[2] = "leaf" -> pt[u[1]].leaf[u[3]].pa
    [] u[2] = "frame" -> frame[u[1]]

(* Whatever call fails at whatever page, every physical page is free or has *)
(* one use: none is lost, none is shared, none is free and in use.  So no   *)
(* call panics: no remap in mappages, no leaf left for freewalk, no page    *)
(* outside of memory freed, no segment page missing in loadseg.             *)
PagesOwned ==
  LET inuse == {u \in Uses : PageOf(u) # 0}
      pages == {PageOf(u) : u \in inuse}
  IN  /\ ~panic
      /\ pages = Page \ free
      /\ Cardinality(pages) = Cardinality(inuse)

(* Processes see the memory that AddrSpace describes: pages that are not    *)
(* there yet read as zero, shrinking and growing again gives zeroes, and a  *)
(* call that fails changes nothing.                                         *)
Image(p) ==
  [k \in 1..PGROUNDUP(sz[p]) |->
     LET a == pt[p].leaf[k - 1].pa IN IF a = 0 THEN 0 ELSE mem[a]]

============================================================================
