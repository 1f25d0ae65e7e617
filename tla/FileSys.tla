------------------------------ MODULE FileSys ------------------------------
(***************************************************************************)
(* The inode table of kernel/fs.c and the calls of kernel/sysfile.c that   *)
(* change the directory tree, over the disk that the log provides (TxDisk: *)
(* `cur` is what the system reads, `dur` what a crash leaves).             *)
(*                                                                         *)
(* A thread is the stack of places it has to go on from, top first, with   *)
(* the locals of the calls.  What a call does between taking and giving up *)
(* a sleep-lock is one step, unless it takes another lock meanwhile.       *)
(* The data of files is not here (see FileData).                           *)
(***************************************************************************)
EXTENDS Integers, Sequences, FiniteSets, FiniteSetsExt

CONSTANTS
  Proc,
  Inum,       \* inode numbers 1..n; 1 is the root directory
  Name,       \* names of directory entries besides "." and ".."
  Workload,   \* bounds: records [image, calls, paths, ncalls, ncrash], the disk at
              \* the first boot, the calls made with which paths, how many, and
              \* how many crashes
  NINODE,     \* entries of the inode table
  NLINK_MAX,
  None        \* no process

ROOTINO == 1
Slot == 1..NINODE

ASSUME FileSysAssumption ==
  /\ Inum = 1..Cardinality(Inum) /\ NINODE \in Nat /\ NLINK_MAX \in Nat
  /\ \A w \in Workload : w.ncalls \in Nat /\ w.ncrash \in Nat

VARIABLES
  cur, dur,   \* the disk inodes with the entries of directories
  itab,       \* itable.inode: inum, ref, valid, and the copy of type and nlink
  itl,        \* holder of itable.lock, where it is held over several steps
  lock,       \* holder of the sleep-lock of each table entry
  th,         \* the threads
  file, cwd,  \* the inode a process has open, and its directory (table entries)
  boot,       \* the next inode for ireclaim to look at, 0 when it is done
  panic,
  load        \* the workload, with what is left of it

own == <<file, cwd>>
world == <<dur, boot, load>>
vars == <<cur, dur, itab, itl, lock, th, file, cwd, boot, panic, load>>

Free == [type |-> "free", nlink |-> 0, ents |-> [n \in Name |-> 0], up |-> 0]
Idle == [stk |-> <<>>, op |-> "none", path |-> <<>>, to |-> <<>>, parent |-> FALSE,
         todo |-> <<>>, res |-> 0, ip |-> 0, put |-> 0, inum |-> 0]

(* Thread p goes on at the places s, then where it was before the top one. *)
Goto(p, s, u) == th' = [th EXCEPT ![p] = [u EXCEPT !.stk = s \o Tail(th[p].stk)]]
At(p, l) == th[p].stk # <<>> /\ Head(th[p].stk) = l /\ ~panic

----------------------------------------------------------------------------
(* iget: the entry of inode i in table t, else the first unused one. *)
Named(t, i) == {s \in Slot : t[s].ref > 0 /\ t[s].inum = i}
Unused(t) == {s \in Slot : t[s].ref = 0}
Found(t, i) ==
  IF Named(t, i) # {} THEN Min(Named(t, i)) ELSE IF Unused(t) # {} THEN Min(Unused(t)) ELSE 0

iget(t, i) ==
  [s \in Slot |->
     IF s # Found(t, i) THEN t[s]
     ELSE IF Named(t, i) # {} THEN [t[s] EXCEPT !.ref = @ + 1]
     ELSE [t[s] EXCEPT !.inum = i, !.ref = 1, !.valid = FALSE]]

(* ilock's read of the disk inode. *)
Load(s) ==
  LET d == cur[itab[s].inum]
  IN  IF itab[s].valid THEN itab[s]
      ELSE [itab[s] EXCEPT !.valid = TRUE, !.type = d.type, !.nlink = d.nlink]
ilock(s) == lock[s] = None
ilock_panics(s) == itab[s].ref < 1 \/ Load(s).type = "free"

(* dirlookup in the directory of entry s. *)
dirlookup(s, n) ==
  LET i == itab[s].inum
  IN  IF n = "." THEN i ELSE IF n = ".." THEN cur[i].up ELSE cur[i].ents[n]

----------------------------------------------------------------------------
(* iput(th[p].put).  The last reference to an inode without links takes the *)
(* sleep-lock under itable.lock, truncates, drops the reference, and frees  *)
(* the disk inode.                                                          *)
MutIgnoresRef(s) == itab[s].valid /\ itab[s].nlink = 0
IsLast(s) == itab[s].ref = 1 /\ itab[s].valid /\ itab[s].nlink = 0

iput(p) ==
  LET s == th[p].put
  IN  /\ At(p, "iput") /\ itl = None
      /\ \/ /\ ~IsLast(s)
            /\ itab' = [itab EXCEPT ![s].ref = @ - 1]
            /\ Goto(p, <<>>, th[p])
            /\ UNCHANGED itl
         \/ /\ IsLast(s)
            /\ itl' = p
            /\ Goto(p, <<"iput_lock">>, [th[p] EXCEPT !.inum = itab[s].inum])
            /\ UNCHANGED itab
      /\ UNCHANGED <<cur, lock, panic, own, world>>

iput_lock(p) ==
  LET s == th[p].put
  IN  /\ At(p, "iput_lock") /\ lock[s] = None
      /\ lock' = [lock EXCEPT ![s] = p]
      /\ itl' = None
      /\ Goto(p, <<"iput_trunc">>, th[p])
      /\ UNCHANGED <<cur, itab, panic, own, world>>

(* itrunc leaves a directory without entries. *)
iput_trunc(p) ==
  LET s == th[p].put
  IN  /\ At(p, "iput_trunc")
      /\ cur' = [cur EXCEPT ![itab[s].inum] =
                   [Free EXCEPT !.type = itab[s].type, !.nlink = itab[s].nlink]]
      /\ itab' = [itab EXCEPT ![s].valid = FALSE]
      /\ lock' = [lock EXCEPT ![s] = None]
      /\ Goto(p, <<"iput_drop">>, th[p])
      /\ UNCHANGED <<itl, panic, own, world>>

iput_drop(p) ==
  /\ At(p, "iput_drop") /\ itl = None
  /\ itab' = [itab EXCEPT ![th[p].put].ref = @ - 1]
  /\ Goto(p, <<"ifree">>, th[p])
  /\ UNCHANGED <<cur, itl, lock, panic, own, world>>

ifree(p) ==
  /\ At(p, "ifree")
  /\ cur' = [cur EXCEPT ![th[p].inum].type = "free"]
  /\ Goto(p, <<>>, [th[p] EXCEPT !.inum = 0])
  /\ UNCHANGED <<itab, itl, lock, panic, own, world>>

----------------------------------------------------------------------------
(* namex: it starts at the root or at the current directory; the result is  *)
(* th[p].res, 0 for none.                                                   *)
namex(p) ==
  LET abs == th[p].path.abs
      t == IF abs THEN iget(itab, ROOTINO) ELSE [itab EXCEPT ![cwd[p]].ref = @ + 1]
  IN  /\ At(p, "namex") /\ itl = None
      /\ itab' = t
      /\ panic' = (abs /\ Found(itab, ROOTINO) = 0)
      /\ Goto(p, <<"namex_loop">>,
              [th[p] EXCEPT !.res = IF abs THEN Found(itab, ROOTINO) ELSE cwd[p],
                            !.todo = th[p].path.elems])
      /\ UNCHANGED <<cur, itl, lock, own, world>>

Refused(d) == d.type # "dir" \/ d.nlink = 0

(* One element of the path: lock, test, look up, unlock; then iput. *)
namex_loop(p) ==
  LET u == th[p]
      s == u.res
      d == Load(s)
      t == [itab EXCEPT ![s] = d]
      i == dirlookup(s, Head(u.todo))
      fails == [u EXCEPT !.res = 0, !.put = s]
  IN  /\ At(p, "namex_loop") /\ u.todo # <<>> /\ ilock(s) /\ itl = None
      /\ \/ /\ Refused(d)
            /\ itab' = t /\ panic' = ilock_panics(s)
            /\ Goto(p, <<"iput">>, fails)
         \/ /\ ~Refused(d) /\ u.parent /\ Len(u.todo) = 1
            /\ itab' = t /\ UNCHANGED panic
            /\ Goto(p, <<>>, u)
         \/ /\ ~Refused(d) /\ ~(u.parent /\ Len(u.todo) = 1)
            /\ \/ /\ i = 0
                  /\ itab' = t /\ UNCHANGED panic
                  /\ Goto(p, <<"iput">>, fails)
               \/ /\ i # 0
                  /\ itab' = iget(t, i) /\ panic' = (Found(t, i) = 0)
                  /\ Goto(p, <<"iput", "namex_loop">>,
                          [u EXCEPT !.res = Found(t, i), !.put = s, !.todo = Tail(@)])
      /\ UNCHANGED <<cur, itl, lock, own, world>>

namex_end(p) ==
  LET u == th[p]
  IN  /\ At(p, "namex_loop") /\ u.todo = <<>>
      /\ \/ u.parent /\ Goto(p, <<"iput">>, [u EXCEPT !.res = 0, !.put = u.res])
         \/ ~u.parent /\ Goto(p, <<>>, u)
      /\ UNCHANGED <<cur, itab, itl, lock, panic, own, world>>

----------------------------------------------------------------------------
(* The calls.  Each runs between begin_op and end_op; link continues below. *)
Call(p, op, s, parent, u) ==
  /\ th[p] = Idle /\ boot = 0 /\ ~panic /\ load.ncalls > 0 /\ op \in load.calls
  /\ th' = [th EXCEPT ![p] = [u EXCEPT !.stk = s \o <<"end_op">>, !.op = op, !.parent = parent]]
  /\ load' = [load EXCEPT !.ncalls = @ - 1]
  /\ UNCHANGED <<cur, dur, itab, itl, lock, cwd, boot, panic>>

sys_call(p) ==
  \E x \in load.paths :
    LET u == [Idle EXCEPT !.path = x]
    IN  /\ \/ file[p] = 0 /\ Call(p, "open", <<"namex", "open_lock", "open">>, FALSE, u)
           \/ file[p] = 0 /\ Call(p, "creat", <<"namex", "create", "open">>, TRUE, u)
           \/ Call(p, "mkdir", <<"namex", "create", "mkdone">>, TRUE, u)
           \/ Call(p, "mknod", <<"namex", "create", "mkdone">>, TRUE, u)
           \/ Call(p, "unlink", <<"namex", "unlink">>, TRUE, u)
           \/ Call(p, "chdir", <<"namex", "chdir">>, FALSE, u)
           \/ \E y \in load.paths : Call(p, "link", <<"namex", "link">>, FALSE, [u EXCEPT !.to = y])
        /\ UNCHANGED file

(* fileclose of the last descriptor of an inode. *)
sys_close(p) ==
  /\ file[p] # 0
  /\ Call(p, "close", <<"iput">>, FALSE, [Idle EXCEPT !.put = file[p]])
  /\ file' = [file EXCEPT ![p] = 0]

end_op(p) ==
  /\ At(p, "end_op")
  /\ th' = [th EXCEPT ![p] = Idle]
  /\ UNCHANGED <<cur, itab, itl, lock, panic, own, world>>

----------------------------------------------------------------------------
(* sys_link: raise nlink, add the entry, or take nlink back.  dirlink gets  *)
(* and puts the inode of an entry of the same name; dirlink also fails when *)
(* the directory cannot grow.                                               *)
name(p) == Head(th[p].todo)
Full(d) == d.nlink >= NLINK_MAX

sys_link(p) ==
  LET u == th[p]
      s == u.res
      d == Load(s)
      more == [d EXCEPT !.nlink = @ + 1]
  IN  /\ At(p, "link")
      /\ \/ /\ s = 0
            /\ Goto(p, <<>>, u)
            /\ UNCHANGED <<cur, itab, panic>>
         \/ /\ s # 0 /\ ilock(s) /\ panic' = ilock_panics(s)
            /\ \/ /\ d.type = "dir" \/ Full(d)
                  /\ itab' = [itab EXCEPT ![s] = d]
                  /\ Goto(p, <<"iput">>, [u EXCEPT !.put = s])
                  /\ UNCHANGED cur
               \/ /\ d.type # "dir" /\ ~Full(d)
                  /\ itab' = [itab EXCEPT ![s] = more]
                  /\ cur' = [cur EXCEPT ![d.inum].nlink = more.nlink]
                  /\ Goto(p, <<"namex", "link_entry">>,
                          [u EXCEPT !.ip = s, !.path = u.to, !.parent = TRUE])
      /\ UNCHANGED <<itl, lock, own, world>>

link_entry(p) ==
  LET u == th[p]
      s == u.res
      d == Load(s)
      i == itab[u.ip].inum
      old == IF d.nlink = 0 THEN 0 ELSE dirlookup(s, name(p))
  IN  /\ At(p, "link_entry")
      /\ \/ /\ s = 0
            /\ Goto(p, <<"link_bad">>, u)
            /\ UNCHANGED <<cur, itab, panic>>
         \/ /\ s # 0 /\ ilock(s) /\ itl = None
            /\ itab' = [itab EXCEPT ![s] = d]
            /\ panic' = (ilock_panics(s) \/ (old # 0 /\ Found(itab, old) = 0))
            /\ \/ /\ d.nlink # 0 /\ old = 0
                  /\ cur' = [cur EXCEPT ![d.inum].ents[name(p)] = i]
                  /\ Goto(p, <<"iput", "link_put">>, [u EXCEPT !.put = s])
               \/ /\ Goto(p, <<"iput", "link_bad">>, [u EXCEPT !.put = s])
                  /\ UNCHANGED cur
      /\ UNCHANGED <<itl, lock, own, world>>

link_put(p) ==
  /\ At(p, "link_put")
  /\ Goto(p, <<"iput">>, [th[p] EXCEPT !.put = th[p].ip])
  /\ UNCHANGED <<cur, itab, itl, lock, panic, own, world>>

MutNoUndo(p) ==
  /\ At(p, "link_bad")
  /\ Goto(p, <<"iput">>, [th[p] EXCEPT !.put = th[p].ip])
  /\ UNCHANGED <<cur, itab, itl, lock, panic, own, world>>

link_bad(p) ==
  LET s == th[p].ip
      d == [Load(s) EXCEPT !.nlink = @ - 1]
  IN  /\ At(p, "link_bad") /\ ilock(s)
      /\ panic' = ilock_panics(s)
      /\ itab' = [itab EXCEPT ![s] = d]
      /\ cur' = [cur EXCEPT ![d.inum].nlink = d.nlink]
      /\ Goto(p, <<"iput">>, [th[p] EXCEPT !.put = s])
      /\ UNCHANGED <<itl, lock, own, world>>

----------------------------------------------------------------------------
(* sys_unlink: the parent stays locked until the entry is erased, the inode *)
(* until its count is written.                                              *)
sys_unlink(p) ==
  LET u == th[p]
      s == u.res
      d == Load(s)
      t == [itab EXCEPT ![s] = d]
      i == dirlookup(s, name(p))
  IN  /\ At(p, "unlink")
      /\ \/ /\ s = 0
            /\ Goto(p, <<>>, u)
            /\ UNCHANGED <<itab, lock, panic>>
         \/ /\ s # 0 /\ ilock(s) /\ itl = None
            /\ \/ /\ name(p) \in {".", ".."} \/ i = 0
                  /\ itab' = t /\ panic' = ilock_panics(s)
                  /\ Goto(p, <<"iput">>, [u EXCEPT !.put = s])
                  /\ UNCHANGED lock
               \/ /\ name(p) \notin {".", ".."} /\ i # 0
                  /\ itab' = iget(t, i) /\ panic' = (ilock_panics(s) \/ Found(t, i) = 0)
                  /\ lock' = [lock EXCEPT ![s] = p]
                  /\ Goto(p, <<"unlink_entry">>, [u EXCEPT !.ip = Found(t, i)])
      /\ UNCHANGED <<cur, itl, own, world>>

isdirempty(i) == \A n \in Name : cur[i].ents[n] = 0

unlink_entry(p) ==
  LET u == th[p]
      s == u.ip
      d == Load(s)
      dp == itab[u.res]
      fewer == IF d.type = "dir" THEN dp.nlink - 1 ELSE dp.nlink
  IN  /\ At(p, "unlink_entry") /\ ilock(s)
      /\ panic' = (ilock_panics(s) \/ d.nlink < 1)
      /\ \/ /\ d.type = "dir" /\ ~isdirempty(d.inum)
            /\ itab' = [itab EXCEPT ![s] = d]
            /\ Goto(p, <<"iput", "unlock_dp">>, [u EXCEPT !.put = s])
            /\ UNCHANGED <<cur, lock>>
         \/ /\ d.type # "dir" \/ isdirempty(d.inum)
            /\ itab' = [itab EXCEPT ![s] = d, ![u.res].nlink = fewer]
            /\ cur' = [cur EXCEPT ![dp.inum].ents[name(p)] = 0, ![dp.inum].nlink = fewer]
            /\ lock' = [lock EXCEPT ![s] = p, ![u.res] = None]
            /\ Goto(p, <<"iput", "unlink_count">>, [u EXCEPT !.put = u.res])
      /\ UNCHANGED <<itl, own, world>>

unlink_count(p) ==
  LET s == th[p].ip
      n == itab[s].nlink - 1
  IN  /\ At(p, "unlink_count")
      /\ itab' = [itab EXCEPT ![s].nlink = n]
      /\ cur' = [cur EXCEPT ![itab[s].inum].nlink = n]
      /\ lock' = [lock EXCEPT ![s] = None]
      /\ Goto(p, <<"iput">>, [th[p] EXCEPT !.put = s])
      /\ UNCHANGED <<itl, panic, own, world>>

MutNoPut(p) ==
  /\ At(p, "unlock_dp")
  /\ lock' = [lock EXCEPT ![th[p].res] = None]
  /\ Goto(p, <<>>, [th[p] EXCEPT !.res = 0])
  /\ UNCHANGED <<cur, itab, itl, panic, own, world>>
MutNoUnlock(p) ==
  /\ At(p, "unlock_dp")
  /\ Goto(p, <<"iput">>, [th[p] EXCEPT !.res = 0, !.put = th[p].res])
  /\ UNCHANGED <<cur, itab, itl, lock, panic, own, world>>

(* iunlockput(dp), on the way out with an error. *)
unlock_dp(p) ==
  LET s == th[p].res
  IN  /\ At(p, "unlock_dp")
      /\ lock' = [lock EXCEPT ![s] = None]
      /\ Goto(p, <<"iput">>, [th[p] EXCEPT !.res = 0, !.put = s])
      /\ UNCHANGED <<cur, itab, itl, panic, own, world>>

----------------------------------------------------------------------------
(* create: the result is th[p].res, locked, or 0. *)
Type(op) == CASE op = "creat" -> "file" [] op = "mkdir" -> "dir" [] op = "mknod" -> "dev"

RefusesEntry(p, d) == d.nlink = 0 \/ (Type(th[p].op) = "dir" /\ Full(d))

create(p) ==
  LET u == th[p]
      s == u.res
      d == Load(s)
      t == [itab EXCEPT ![s] = d]
      i == dirlookup(s, name(p))
      fails == [u EXCEPT !.res = 0, !.put = s]
  IN  /\ At(p, "create")
      /\ \/ /\ s = 0
            /\ Goto(p, <<>>, u)
            /\ UNCHANGED <<cur, itab, lock, panic>>
         \/ /\ s # 0 /\ ilock(s) /\ itl = None
            /\ \/ /\ RefusesEntry(p, d) \/ (i = 0 /\ \A j \in Inum : cur[j].type # "free")
                  /\ itab' = t /\ panic' = ilock_panics(s)
                  /\ Goto(p, <<"iput">>, fails)
                  /\ UNCHANGED <<cur, lock>>
               \/ /\ ~RefusesEntry(p, d) /\ i # 0
                  /\ itab' = iget(t, i) /\ panic' = (ilock_panics(s) \/ Found(t, i) = 0)
                  /\ Goto(p, <<"iput", "create_old">>, [fails EXCEPT !.ip = Found(t, i)])
                  /\ UNCHANGED <<cur, lock>>
               \/ \E j \in Inum :
                  /\ ~RefusesEntry(p, d) /\ i = 0 /\ cur[j].type = "free"
                  /\ cur' = [cur EXCEPT ![j] = [Free EXCEPT !.type = Type(u.op)]]
                  /\ itab' = iget(t, j) /\ panic' = (ilock_panics(s) \/ Found(t, j) = 0)
                  /\ lock' = [lock EXCEPT ![s] = p]
                  /\ Goto(p, <<"create_new">>, [u EXCEPT !.ip = Found(t, j)])
      /\ UNCHANGED <<itl, own, world>>

create_old(p) ==
  LET u == th[p]
      s == u.ip
      d == Load(s)
  IN  /\ At(p, "create_old") /\ ilock(s)
      /\ itab' = [itab EXCEPT ![s] = d] /\ panic' = ilock_panics(s)
      /\ \/ /\ u.op = "creat" /\ d.type \in {"file", "dev"}
            /\ lock' = [lock EXCEPT ![s] = p]
            /\ Goto(p, <<>>, [u EXCEPT !.res = s])
         \/ /\ ~(u.op = "creat" /\ d.type \in {"file", "dev"})
            /\ Goto(p, <<"iput">>, [u EXCEPT !.put = s])
            /\ UNCHANGED lock
      /\ UNCHANGED <<cur, itl, own, world>>

(* The new inode gets its links, or none when a directory has no room. *)
create_new(p) ==
  LET u == th[p]
      s == u.ip
      i == itab[s].inum
      d == Load(s)
      dp == itab[u.res]
      more == IF d.type = "dir" THEN dp.nlink + 1 ELSE dp.nlink
  IN  /\ At(p, "create_new") /\ ilock(s)
      /\ panic' = ilock_panics(s)
      /\ \/ /\ itab' = [itab EXCEPT ![s] = [d EXCEPT !.nlink = 1], ![u.res].nlink = more]
            /\ cur' = [cur EXCEPT ![i].nlink = 1,
                                  ![i].up = IF d.type = "dir" THEN dp.inum ELSE 0,
                                  ![dp.inum].ents[name(p)] = i, ![dp.inum].nlink = more]
            /\ lock' = [lock EXCEPT ![s] = p, ![u.res] = None]
            /\ Goto(p, <<"iput">>, [u EXCEPT !.res = s, !.put = u.res])
         \/ /\ itab' = [itab EXCEPT ![s] = d]
            /\ Goto(p, <<"iput", "unlock_dp">>, [u EXCEPT !.put = s])
            /\ UNCHANGED <<cur, lock>>
      /\ UNCHANGED <<itl, own, world>>

----------------------------------------------------------------------------
(* sys_open without O_CREATE; opening a directory for writing fails. *)
open_lock(p) ==
  LET u == th[p]
      s == u.res
      d == Load(s)
  IN  /\ At(p, "open_lock")
      /\ \/ /\ s = 0
            /\ Goto(p, <<>>, u)
            /\ UNCHANGED <<itab, lock, panic>>
         \/ /\ s # 0 /\ ilock(s)
            /\ itab' = [itab EXCEPT ![s] = d] /\ panic' = ilock_panics(s)
            /\ \/ /\ lock' = [lock EXCEPT ![s] = p]
                  /\ Goto(p, <<>>, u)
               \/ /\ d.type = "dir"
                  /\ Goto(p, <<"iput">>, [u EXCEPT !.res = 0, !.put = s])
                  /\ UNCHANGED lock
      /\ UNCHANGED <<cur, itl, own, world>>

(* The rest of sys_open: a file and a descriptor, or out of them. *)
sys_open(p) ==
  LET s == th[p].res
  IN  /\ At(p, "open")
      /\ \/ /\ s = 0
            /\ Goto(p, <<>>, th[p])
            /\ UNCHANGED <<lock, file>>
         \/ /\ s # 0
            /\ lock' = [lock EXCEPT ![s] = None]
            /\ \/ /\ file' = [file EXCEPT ![p] = s]
                  /\ Goto(p, <<>>, th[p])
               \/ /\ Goto(p, <<"iput">>, [th[p] EXCEPT !.put = s])
                  /\ UNCHANGED file
      /\ UNCHANGED <<cur, itab, itl, panic, cwd, world>>

(* The rest of sys_mkdir and sys_mknod. *)
sys_mkdir(p) ==
  LET s == th[p].res
  IN  /\ At(p, "mkdone")
      /\ \/ /\ s = 0
            /\ Goto(p, <<>>, th[p])
            /\ UNCHANGED lock
         \/ /\ s # 0
            /\ lock' = [lock EXCEPT ![s] = None]
            /\ Goto(p, <<"iput">>, [th[p] EXCEPT !.put = s])
      /\ UNCHANGED <<cur, itab, itl, panic, own, world>>

sys_chdir(p) ==
  LET u == th[p]
      s == u.res
      d == Load(s)
  IN  /\ At(p, "chdir")
      /\ \/ /\ s = 0
            /\ Goto(p, <<>>, u)
            /\ UNCHANGED <<itab, cwd, panic>>
         \/ /\ s # 0 /\ ilock(s)
            /\ itab' = [itab EXCEPT ![s] = d] /\ panic' = ilock_panics(s)
            /\ \/ /\ d.type # "dir"
                  /\ Goto(p, <<"iput">>, [u EXCEPT !.put = s])
                  /\ UNCHANGED cwd
               \/ /\ d.type = "dir"
                  /\ Goto(p, <<"iput">>, [u EXCEPT !.put = cwd[p]])
                  /\ cwd' = [cwd EXCEPT ![p] = s]
      /\ UNCHANGED <<cur, itl, lock, file, world>>

----------------------------------------------------------------------------
(* The log: a group commits while no operation is open. *)
Commit ==
  /\ \A p \in Proc : th[p] = Idle
  /\ cur # dur /\ ~panic
  /\ dur' = cur
  /\ UNCHANGED <<cur, itab, itl, lock, th, own, boot, panic, load>>

(* iinit; every process starts in the root directory. *)
iinit ==
  [s \in Slot |-> [inum |-> IF s = 1 THEN ROOTINO ELSE 0,
                   ref |-> IF s = 1 THEN Cardinality(Proc) ELSE 0,
                   valid |-> FALSE, type |-> "free", nlink |-> 0]]
Each(S, v) == [x \in S |-> v]

Crash ==
  /\ load.ncrash > 0 /\ ~panic
  /\ load' = [load EXCEPT !.ncrash = @ - 1]
  /\ cur' = dur
  /\ itab' = iinit /\ itl' = None /\ lock' = Each(Slot, None) /\ th' = Each(Proc, Idle)
  /\ file' = Each(Proc, 0) /\ cwd' = Each(Proc, 1) /\ boot' = 1
  /\ UNCHANGED <<dur, panic>>

(* ireclaim looks at one inode: an orphan is freed by the iput of the only  *)
(* reference, in a transaction of its own.                                  *)
MutNoReclaim ==
  /\ boot # 0 /\ ~panic
  /\ boot' = IF boot + 1 \in Inum THEN boot + 1 ELSE 0
  /\ UNCHANGED <<cur, dur, itab, itl, lock, th, own, panic, load>>
ireclaim ==
  /\ boot # 0 /\ ~panic
  /\ cur' = IF cur[boot].type # "free" /\ cur[boot].nlink = 0
            THEN [cur EXCEPT ![boot] = Free] ELSE cur
  /\ boot' = IF boot + 1 \in Inum THEN boot + 1 ELSE 0
  /\ UNCHANGED <<dur, itab, itl, lock, th, own, panic, load>>

Init ==
  /\ load \in Workload
  /\ cur = load.image /\ dur = load.image
  /\ itab = iinit /\ itl = None /\ lock = Each(Slot, None) /\ th = Each(Proc, Idle)
  /\ file = Each(Proc, 0) /\ cwd = Each(Proc, 1) /\ boot = 1
  /\ panic = FALSE

Iput(p) == iput(p) \/ iput_lock(p) \/ iput_trunc(p) \/ iput_drop(p) \/ ifree(p)
Namex(p) == namex(p) \/ namex_loop(p) \/ namex_end(p)
Step(p) ==
  \/ Iput(p) \/ Namex(p) \/ end_op(p)
  \/ sys_link(p) \/ link_entry(p) \/ link_put(p) \/ link_bad(p)
  \/ sys_unlink(p) \/ unlink_entry(p) \/ unlink_count(p) \/ unlock_dp(p)
  \/ create(p) \/ create_old(p) \/ create_new(p)
  \/ open_lock(p) \/ sys_open(p) \/ sys_mkdir(p) \/ sys_chdir(p)

Next ==
  \/ \E p \in Proc : sys_call(p) \/ sys_close(p) \/ Step(p)
  \/ Commit \/ Crash \/ ireclaim

Spec == Init /\ [][Next]_vars

----------------------------------------------------------------------------
Quiet == \A p \in Proc : th[p] = Idle

(* On a disk d the directories form a tree and the counts are exact: nlink  *)
(* of an inode is the number of entries that name it plus, for a directory, *)
(* the number of directories in it; a directory other than the root has one *)
(* entry, in the directory its ".." names; a directory without links is     *)
(* empty, and no entry names a free inode.                                  *)
Entries(d, i) == {e \in Inum \X Name : d[e[1]].ents[e[2]] = i}
Subdirs(d, i) == {n \in Name : d[i].ents[n] # 0 /\ d[d[i].ents[n]].type = "dir"}
Exact(d) ==
  \A i \in Inum :
    LET links == Entries(d, i)
        root == IF i = ROOTINO THEN 1 ELSE 0
    IN  /\ d[i].nlink = Cardinality(links) + Cardinality(Subdirs(d, i)) + root
        /\ links # {} => d[i].type # "free"
        /\ d[i].type = "dir" /\ d[i].nlink > 0 => Cardinality(links) + root = 1
        /\ d[i].type = "dir" => \A e \in links : d[i].up = e[1]
        /\ (d[i].type # "dir" \/ d[i].nlink = 0) => \A n \in Name : d[i].ents[n] = 0

ASSUME ImageAssumption == \A w \in Workload : Exact(w.image)

(* What a crash leaves, and what calls see when no call is under way, has   *)
(* exact link counts, although link and unlink write the count and the      *)
(* entry at different times with no lock over both.                         *)
LinkCountsExact == Exact(dur) /\ (Quiet => Exact(cur))

(* A reference of the table keeps the disk inode allocated: iput frees an   *)
(* inode only after the last reference is gone.                             *)
RefKeepsInode ==
  \A s \in Slot : itab[s].ref > 0 => cur[itab[s].inum].type # "free"

(* Every error path gives back what it took: when no call is under way the  *)
(* references to an entry are the open files and directories of processes.  *)
RefsExact ==
  Quiet => \A s \in Slot :
    itab[s].ref = Cardinality({p \in Proc : cwd[p] = s}) + Cardinality({p \in Proc : file[p] = s})

(* No inode is lost: once ireclaim is done, an allocated inode without      *)
(* links is still open somewhere.                                           *)
NoLeak ==
  Quiet /\ boot = 0 => \A i \in Inum :
    cur[i].type # "free" /\ cur[i].nlink = 0 => Named(itab, i) # {}

(* A call is never stuck.  No interleaving reaches a panic of ilock (no     *)
(* reference, or an inode that was freed), of unlink (nlink < 1) or of iget *)
(* (no table entry).  acquiresleep in iput, under itable.lock, never has to *)
(* sleep, since with one reference nobody else can hold the lock.  And no   *)
(* order of the inode locks makes calls wait for each other.                *)
CallsGoOn ==
  /\ ~panic
  /\ \A p \in Proc : At(p, "iput_lock") => lock[th[p].put] = None
  /\ ~Quiet => \E p \in Proc : ENABLED Step(p)

============================================================================
