------------------------------ MODULE FileTable ------------------------------
(***************************************************************************)
(* Open files and descriptors: kernel/file.c, the descriptor calls of      *)
(* kernel/sysfile.c and pipealloc, pipeclose of kernel/pipe.c.  A process  *)
(* is in one call at a time; the steps of calls of different processes     *)
(* interleave between the critical sections of ftable.lock.  What a pipe   *)
(* delivers is the module Pipe's subject: here it is a count of bytes.     *)
(***************************************************************************)
EXTENDS Integers, FiniteSets, Sequences, FiniteSetsExt

CONSTANTS
  Proc,
  NFILE, NOFILE,
  NPAGE,        \* pages that kalloc has for pipes
  PIPESIZE,
  FileSize,     \* bytes read from a file or the console before its end
  None

ASSUME FileTableAssumption ==
  /\ IsFiniteSet(Proc) /\ NFILE \in Nat /\ NOFILE \in Nat \ {0} /\ NPAGE \in Nat
  /\ PIPESIZE \in Nat \ {0} /\ FileSize \in Nat /\ None \notin Nat

VARIABLES
  file,    \* ftable.file: ref, type, the pipe, readable, writable, off
  ofile,   \* p->ofile, descriptor to file
  pipes,   \* page to what pipe.c keeps in it; used: not on the free list
  sys,     \* per process: the call it is in, and its locals
  kpanic

fvars == <<file, ofile, pipes, sys, kpanic>>

File == 0..(NFILE - 1)
Fd == 0..(NOFILE - 1)
Page == 1..NPAGE

FD_NONE == [ref |-> 0, type |-> "NONE", pipe |-> 0, readable |-> FALSE, writable |-> FALSE,
            off |-> 0]
(* k: where in the call; todo: files it still has to close; ff: fileclose's *)
(* copy; rf, wf: sys_pipe's files; op: in a transaction; ret: its result,   *)
(* with fd1 the second descriptor of pipe().                                *)
User == [k |-> "user", todo |-> <<>>, ff |-> FD_NONE, rf |-> None, wf |-> None,
         op |-> FALSE, ret |-> 0, fd1 |-> 0]
Return(p, r) == sys' = [sys EXCEPT ![p] = [User EXCEPT !.ret = r]]
InUser(p) == sys[p].k = "user"

----------------------------------------------------------------------------
(* Under ftable.lock. *)
Unused == {f \in File : file[f].ref = 0}
filealloc == Min(Unused)

filedup(f) == file' = [file EXCEPT ![f].ref = @ + 1]

(* The lowest free descriptor. *)
MutHighestFd(p) == LET free == {fd \in Fd : ofile[p][fd] = None}
                   IN IF free = {} THEN -1 ELSE Max(free)
fdalloc(p) == LET free == {fd \in Fd : ofile[p][fd] = None}
              IN IF free = {} THEN -1 ELSE Min(free)

argfd(p, fd) == IF fd \in Fd THEN ofile[p][fd] ELSE None

----------------------------------------------------------------------------
(* fileclose(f) in a call that continues as c: the last reference leaves a  *)
(* copy, ff, whose pipe end or inode is given up after ftable.lock.         *)
MutKeepType(f) == [file EXCEPT ![f].ref = @ - 1]
drop(f) ==
  [file EXCEPT ![f] = IF file[f].ref > 1 THEN [file[f] EXCEPT !.ref = @ - 1] ELSE FD_NONE]

(* The call returns when its files are closed. *)
Continue(c) ==
  IF c.k = "close" /\ c.todo = <<>> /\ c.ff = FD_NONE THEN [User EXCEPT !.ret = c.ret] ELSE c

fileclose(p, f, c) ==
  /\ kpanic' = IF file[f].ref < 1 THEN "fileclose" ELSE kpanic
  /\ file' = drop(f)
  /\ sys' = [sys EXCEPT ![p] = Continue([c EXCEPT !.ff =
       IF file[f].ref = 1 /\ file[f].type # "NONE" THEN file[f] ELSE FD_NONE])]

fileclose_next(p) ==
  /\ sys[p].todo # <<>> /\ sys[p].ff = FD_NONE
  /\ fileclose(p, Head(sys[p].todo), [sys[p] EXCEPT !.todo = Tail(@)])
  /\ UNCHANGED <<ofile, pipes>>

MutForgetPage(g) == g
Freed(g) == IF g.readopen \/ g.writeopen THEN g ELSE [g EXCEPT !.used = FALSE]

pipeclose(p) ==
  /\ sys[p].ff.type = "PIPE"
  /\ pipes' = [pipes EXCEPT ![sys[p].ff.pipe] =
                 IF sys[p].ff.writable THEN Freed([@ EXCEPT !.writeopen = FALSE])
                 ELSE Freed([@ EXCEPT !.readopen = FALSE])]
  /\ sys' = [sys EXCEPT ![p] = Continue([@ EXCEPT !.ff = FD_NONE])]
  /\ UNCHANGED <<file, ofile, kpanic>>

(* begin_op, iput, end_op for FD_INODE and FD_DEVICE. *)
fileclose_iput(p) ==
  /\ sys[p].ff.type = "INODE"
  /\ sys' = [sys EXCEPT ![p] = Continue([@ EXCEPT !.ff = FD_NONE])]
  /\ UNCHANGED <<file, ofile, pipes, kpanic>>

Close(p, files, op) ==
  sys' = [sys EXCEPT ![p] = [User EXCEPT !.k = "close", !.todo = files, !.ret = -1, !.op = op]]

----------------------------------------------------------------------------
(* ofile[p] is p's own, so clearing the descriptor and the critical section *)
(* of fileclose are one step.                                               *)
sys_close(p, fd) ==
  /\ InUser(p)
  /\ IF argfd(p, fd) = None THEN Return(p, -1) /\ UNCHANGED <<file, ofile, kpanic>>
     ELSE /\ ofile' = [ofile EXCEPT ![p][fd] = None]
          /\ fileclose(p, ofile[p][fd], [User EXCEPT !.k = "close"])
  /\ UNCHANGED pipes

Open(p) == {fd \in Fd : ofile[p][fd] # None}

(* kexit gives up the descriptors one by one. *)
kexit_close(p) == Open(p) # {} /\ sys_close(p, Min(Open(p)))

sys_dup(p, fd) ==
  /\ InUser(p)
  /\ LET f == argfd(p, fd)  new == fdalloc(p)
     IN IF f = None \/ new = -1 THEN Return(p, -1) /\ UNCHANGED <<file, ofile, kpanic>>
        ELSE /\ ofile' = [ofile EXCEPT ![p][new] = f]
             /\ kpanic' = IF file[f].ref < 1 THEN "filedup" ELSE kpanic
             /\ filedup(f)
             /\ Return(p, new)
  /\ UNCHANGED pipes

(* kfork gives the child the parent's descriptors; the parent's own         *)
(* references keep the files meanwhile.                                     *)
kfork_files(p, q) ==
  /\ ofile' = [ofile EXCEPT ![q] = ofile[p]]
  /\ file' = [f \in File |->
       [file[f] EXCEPT !.ref = @ + Cardinality({fd \in Fd : ofile[p][fd] = f})]]

----------------------------------------------------------------------------
(* sys_open, in its transaction; found: namei or create returned an inode. *)
sys_open(p, found, rd, wr) ==
  /\ InUser(p)
  /\ IF ~found \/ Unused = {} THEN Return(p, -1) /\ UNCHANGED <<file, ofile>>
     ELSE LET f == filealloc  fd == fdalloc(p)
          IN IF fd = -1
               THEN /\ file' = [file EXCEPT ![f].ref = 1]
                    /\ Close(p, <<f>>, TRUE)
                    /\ UNCHANGED ofile
               ELSE /\ file' = [file EXCEPT ![f] = [@ EXCEPT !.ref = 1, !.type = "INODE",
                                   !.readable = rd, !.writable = wr, !.off = 0]]
                    /\ ofile' = [ofile EXCEPT ![p][fd] = f]
                    /\ Return(p, fd)
  /\ UNCHANGED <<pipes, kpanic>>

----------------------------------------------------------------------------
(* sys_pipe: pipealloc takes a file, another one and a page; then the two   *)
(* descriptors, which copyout may fail to report.                           *)
sys_pipe(p) ==
  /\ InUser(p)
  /\ IF Unused = {} THEN Return(p, -1) /\ UNCHANGED file
     ELSE /\ file' = [file EXCEPT ![filealloc].ref = 1]
          /\ sys' = [sys EXCEPT ![p] = [User EXCEPT !.k = "pipealloc", !.rf = filealloc]]
  /\ UNCHANGED <<ofile, pipes, kpanic>>

FreePages == {g \in Page : ~pipes[g].used}
End(f, g, wr) == [file[f] EXCEPT !.ref = 1, !.type = "PIPE", !.pipe = g,
                                 !.readable = ~wr, !.writable = wr]

pipealloc(p) ==
  /\ sys[p].k = "pipealloc"
  /\ IF Unused = {} THEN Close(p, <<sys[p].rf>>, FALSE) /\ UNCHANGED <<file, pipes>>
     ELSE LET wf == filealloc  rf == sys[p].rf
          IN IF FreePages = {}
               THEN /\ file' = [file EXCEPT ![wf].ref = 1]
                    /\ Close(p, <<rf, wf>>, FALSE)
                    /\ UNCHANGED pipes
               ELSE LET g == Min(FreePages)
                    IN /\ file' = [file EXCEPT ![rf] = End(rf, g, FALSE), ![wf] = End(wf, g, TRUE)]
                       /\ pipes' = [pipes EXCEPT ![g] =
                            [used |-> TRUE, readopen |-> TRUE, writeopen |-> TRUE, n |-> 0]]
                       /\ sys' = [sys EXCEPT ![p].k = "pipe_fds", ![p].wf = wf]
  /\ UNCHANGED <<ofile, kpanic>>

sys_pipe_fds(p) ==
  /\ sys[p].k = "pipe_fds"
  /\ LET free == {fd \in Fd : ofile[p][fd] = None}
         fd0 == Min(free)  fd1 == Min(free \ {fd0})
     IN \/ /\ Cardinality(free) >= 2
           /\ ofile' = [ofile EXCEPT ![p][fd0] = sys[p].rf, ![p][fd1] = sys[p].wf]
           /\ sys' = [sys EXCEPT ![p] = [User EXCEPT !.ret = fd0, !.fd1 = fd1]]
        \/ Close(p, <<sys[p].rf, sys[p].wf>>, FALSE) /\ UNCHANGED ofile
  /\ UNCHANGED <<file, pipes, kpanic>>

----------------------------------------------------------------------------
(* read(fd, .., 1) and write(fd, .., 1); a pipe makes them wait as the      *)
(* module Pipe describes.                                                   *)
sys_read(p, fd) ==
  /\ InUser(p)
  /\ LET f == argfd(p, fd)
     IN IF f = None \/ ~file[f].readable THEN Return(p, -1) /\ UNCHANGED <<file, pipes>>
        ELSE IF file[f].type = "PIPE"
          THEN LET g == pipes[file[f].pipe]
               IN /\ g.n > 0 \/ ~g.writeopen
                  /\ pipes' = [pipes EXCEPT ![file[f].pipe].n = IF @ > 0 THEN @ - 1 ELSE 0]
                  /\ Return(p, IF g.n > 0 THEN 1 ELSE 0)
                  /\ UNCHANGED file
          ELSE /\ file' = [file EXCEPT ![f].off = IF @ < FileSize THEN @ + 1 ELSE @]
               /\ Return(p, IF file[f].off < FileSize THEN 1 ELSE 0)
               /\ UNCHANGED pipes
  /\ UNCHANGED <<ofile, kpanic>>

sys_write(p, fd) ==
  /\ InUser(p)
  /\ LET f == argfd(p, fd)
     IN IF f = None \/ ~file[f].writable THEN Return(p, -1) /\ UNCHANGED pipes
        ELSE IF file[f].type = "PIPE"
          THEN LET g == pipes[file[f].pipe]
               IN /\ ~g.readopen \/ g.n < PIPESIZE
                  /\ pipes' = [pipes EXCEPT ![file[f].pipe].n = IF g.readopen THEN @ + 1 ELSE @]
                  /\ Return(p, IF g.readopen THEN 1 ELSE -1)
          ELSE Return(p, 1) /\ UNCHANGED pipes
  /\ UNCHANGED <<file, ofile, kpanic>>

FileInit ==
  /\ file = [f \in File |-> FD_NONE]
  /\ ofile = [p \in Proc |-> [fd \in Fd |-> None]]
  /\ pipes = [g \in Page |-> [used |-> FALSE, readopen |-> FALSE, writeopen |-> FALSE, n |-> 0]]
  /\ sys = [p \in Proc |-> User]
  /\ kpanic = ""

(* The steps of a call after its first. *)
Kernel(p) ==
  \/ fileclose_next(p) \/ pipeclose(p) \/ fileclose_iput(p)
  \/ pipealloc(p) \/ sys_pipe_fds(p)

----------------------------------------------------------------------------
(* The table under any programs: a process in user mode makes any call, on  *)
(* any descriptor, or forks into a slot that kexit left without files.      *)
AnyFd == -1..NOFILE

Calls(p) ==
  \/ \E fd \in AnyFd : sys_close(p, fd) \/ sys_dup(p, fd) \/ sys_read(p, fd) \/ sys_write(p, fd)
  \/ \E found, rd, wr \in BOOLEAN : sys_open(p, found, rd, wr)
  \/ sys_pipe(p)
  \/ \E q \in Proc \ {p} :
       /\ InUser(p) /\ InUser(q) /\ Open(q) = {}
       /\ kfork_files(p, q) /\ UNCHANGED <<pipes, sys, kpanic>>

(* kexit panics when init calls exit. *)
kexit_panic == kpanic' = "init exiting" /\ UNCHANGED <<file, ofile, pipes, sys>>

FileNext == kexit_panic \/ \E p \in Proc : Calls(p) \/ Kernel(p)
FileSpec == FileInit /\ [][FileNext]_fvars

----------------------------------------------------------------------------
(* A file's count is the number of descriptors and of calls that refer to   *)
(* it, on every path of pipe, open, dup, fork, close and exit.  A pipe's    *)
(* end is open exactly while a file of that end exists or its pipeclose is  *)
(* on the way, and its page is free exactly when both are closed.           *)
Holders(f) ==
  Cardinality({d \in Proc \X Fd : ofile[d[1]][d[2]] = f})
    + Cardinality({d \in Proc \X (1..2) :
        d[2] \in DOMAIN sys[d[1]].todo /\ sys[d[1]].todo[d[2]] = f})
    + Cardinality({p \in Proc : sys[p].k \in {"pipealloc", "pipe_fds"} /\ sys[p].rf = f})
    + Cardinality({p \in Proc : sys[p].k = "pipe_fds" /\ sys[p].wf = f})
(* A pipe's end is open exactly while a file of that end exists, or its     *)
(* pipeclose is on the way; its page is free exactly when both are closed.  *)
Ends(g, wr) ==
  Cardinality({f \in File : file[f].type = "PIPE" /\ file[f].pipe = g /\ file[f].writable = wr})
    + Cardinality({p \in Proc : sys[p].ff.type = "PIPE" /\ sys[p].ff.pipe = g
                                /\ sys[p].ff.writable = wr})
RefsExact ==
  /\ kpanic \notin {"fileclose", "filedup"}
  /\ \A f \in File : file[f].ref = Holders(f)
  /\ \A g \in Page :
       /\ Ends(g, FALSE) = (IF pipes[g].readopen THEN 1 ELSE 0)
       /\ Ends(g, TRUE) = (IF pipes[g].writeopen THEN 1 ELSE 0)
       /\ pipes[g].used <=> pipes[g].readopen \/ pipes[g].writeopen

(* fileclose starts no transaction inside sys_open's: the file that         *)
(* sys_open gives back after fdalloc failed has no type yet.                *)
NoNestedOp == \A p \in Proc : sys[p].op => sys[p].ff.type # "INODE"

============================================================================
