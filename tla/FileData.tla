------------------------------ MODULE FileData ------------------------------
(***************************************************************************)
(* The bytes of files: the free map, the block lists of inodes, readi,     *)
(* writei and itrunc of kernel/fs.c, and the loops of fileread and         *)
(* filewrite (kernel/file.c) over them.                                    *)
(*                                                                         *)
(* ilock makes a call the only user of its inode, but files share the free *)
(* map: one iteration of a loop is one step, in which balloc or bfree is   *)
(* atomic under the lock of the bitmap's buffer.  The log's promise that   *)
(* the steps of a transaction are atomic under crashes is not repeated.    *)
(***************************************************************************)
EXTENDS Mkfs, FiniteSets, FiniteSetsExt

CONSTANTS
  Proc,
  Fd,           \* open files, with FdFile[d] the inode of d
  FdFile,
  MAXOPBLOCKS,
  UINT,         \* one more than the largest unsigned int
  Counts,       \* bound: the byte counts that calls ask for
  MaxCalls,     \* bound: the number of calls
  Fill,         \* what a process writes: the bytes of the sequence Fill[p], again and again
  None

ASSUME FileDataAssumption ==
  /\ MaxCalls \in Nat /\ MAXOPBLOCKS >= 6 /\ Counts \subseteq 0..(UINT \div 2 - 1)
  /\ (NDIRECT + NINDIRECT) * BSIZE < UINT \div 2
  /\ FdFile \in [Fd -> File] /\ \A p \in Proc : Len(Fill[p]) > 0

BITMAP == 0     \* block numbers in `logged`
INODE == -1

VARIABLES
  used,         \* the bitmap: the blocks in use
  blk,          \* contents of blocks; an indirect block holds block numbers
  mem, disk,    \* the inodes in the table and on disk: addrs and size
  lock,         \* holder of the sleep-lock of an inode
  off,          \* f->off
  th,           \* the calls under way
  bytes,        \* history: what the calls have made of each file
  panic, ncalls

vars == <<used, blk, mem, disk, lock, off, th, bytes, panic, ncalls>>

Idle == [pc |-> "idle", d |-> None, n |-> 0, i |-> 0, n1 |-> 0, at |-> 0, tot |-> 0,
         got |-> <<>>, logged |-> {}]

f(p) == FdFile[th[p].d]
At(p, l) == th[p].pc = l /\ ~panic
Goto(p, l, u) == th' = [th EXCEPT ![p] = [u EXCEPT !.pc = l]]
InOp(p) == th[p].pc \in {"write_blk", "write_end", "trunc"}

----------------------------------------------------------------------------
(* The state a call changes, as a record: the bitmap, the blocks, the inode *)
(* it has locked, the blocks it logged, and whether it panicked.            *)
Here(p) == [used |-> used, blk |-> blk, ip |-> mem[f(p)], logged |-> th[p].logged,
            panic |-> FALSE, addr |-> 0]

log_write(c, b, p) == [c EXCEPT !.logged = @ \cup b, !.panic = @ \/ ~InOp(p)]

(* balloc takes the first free block and zeroes it; 0 when there is none. *)
balloc(c, p) ==
  IF c.used = Block THEN [c EXCEPT !.addr = 0]
  ELSE LET b == Min(Block \ c.used)
       IN  log_write([c EXCEPT !.addr = b, !.used = @ \cup {b}, !.blk[b] = Zero],
                     {BITMAP, b}, p)

bfree(c, b, p) ==
  log_write([c EXCEPT !.used = @ \ {b}, !.panic = @ \/ b \notin c.used], {BITMAP}, p)

(* The block at place i of addrs, allocated if need be. *)
Direct(c, i, p) ==
  IF c.ip.addrs[i] # 0 THEN [c EXCEPT !.addr = c.ip.addrs[i]]
  ELSE LET a == balloc(c, p) IN [a EXCEPT !.ip.addrs[i] = a.addr]

Indirect(c, j, p) ==
  LET x == c.addr
  IN  IF c.blk[x][j] # 0 THEN [c EXCEPT !.addr = c.blk[x][j]]
      ELSE LET a == balloc(c, p)
           IN  IF a.addr = 0 THEN a ELSE log_write([a EXCEPT !.blk[x][j] = a.addr], {x}, p)

bmap(c, bn, p) ==
  IF bn < NDIRECT THEN Direct(c, bn, p)
  ELSE IF bn < MAXFILE
       THEN LET c1 == Direct(c, NDIRECT, p)
            IN  IF c1.addr = 0 THEN c1 ELSE Indirect(c1, bn - NDIRECT, p)
       ELSE [c EXCEPT !.panic = TRUE]

(* The step of p leaves the state c. *)
Becomes(p, c) ==
  /\ used' = c.used /\ blk' = c.blk /\ mem' = [mem EXCEPT ![f(p)] = c.ip] /\ panic' = c.panic

----------------------------------------------------------------------------
(* fileread.  A directory is open for reading only. *)
Call(p, d, l, n) ==
  /\ At(p, "idle") /\ ncalls < MaxCalls
  /\ l = "read" \/ FdFile[d] # Root
  /\ ncalls' = ncalls + 1
  /\ th' = [th EXCEPT ![p] = [Idle EXCEPT !.pc = l, !.d = d, !.n = n]]
  /\ UNCHANGED <<used, blk, mem, disk, lock, off, bytes, panic>>

Wraps(o, n) == (o + n) % UINT < o

fileread(p) ==
  LET u == th[p]
      o == off[u.d]
      size == mem[f(p)].size
      n == IF o > size \/ Wraps(o, u.n) THEN 0 ELSE Min({u.n, size - o})
  IN  /\ At(p, "read") /\ lock[f(p)] = None
      /\ lock' = [lock EXCEPT ![f(p)] = p]
      /\ Goto(p, "read_blk", [u EXCEPT !.n1 = n, !.at = o])
      /\ UNCHANGED <<used, blk, mem, disk, off, bytes, panic, ncalls>>

Part(u) == Min({u.n1 - u.tot, BSIZE - (u.at % BSIZE)})

MutFromStart(u, a) == [k \in 1..Part(u) |-> blk[a][k - 1]]
BytesOf(u, a) == [k \in 1..Part(u) |-> blk[a][(u.at % BSIZE) + k - 1]]

(* An iteration of readi; either_copyout may fail. *)
readi(p) ==
  LET u == th[p]
      c == bmap(Here(p), u.at \div BSIZE, p)
  IN  /\ At(p, "read_blk") /\ u.tot < u.n1
      /\ Becomes(p, c)
      /\ \/ c.addr = 0 /\ Goto(p, "read_end", u)
         \/ /\ c.addr # 0
            /\ \/ Goto(p, "read_blk", [u EXCEPT !.tot = @ + Part(u), !.at = @ + Part(u),
                                                !.got = @ \o BytesOf(u, c.addr)])
               \/ Goto(p, "read_end", [u EXCEPT !.tot = -1])
      /\ UNCHANGED <<disk, lock, off, bytes, ncalls>>

readi_done(p) ==
  /\ At(p, "read_blk") /\ th[p].tot = th[p].n1
  /\ Goto(p, "read_end", th[p])
  /\ UNCHANGED <<used, blk, mem, disk, lock, off, bytes, panic, ncalls>>

Advanced(o, r) == IF r > 0 THEN o + r ELSE o

fileread_end(p) ==
  LET u == th[p]
  IN  /\ At(p, "read_end")
      /\ off' = [off EXCEPT ![u.d] = Advanced(@, u.tot)]
      /\ lock' = [lock EXCEPT ![f(p)] = None]
      /\ th' = [th EXCEPT ![p] = Idle]
      /\ UNCHANGED <<used, blk, mem, disk, bytes, panic, ncalls>>

----------------------------------------------------------------------------
(* filewrite: a transaction for every chunk of at most max bytes. *)
max == ((MAXOPBLOCKS - 1 - 1 - 2) \div 2) * BSIZE

MutStartOnly(o, n) == o > MAXFILE * BSIZE
TooLong(o, n) == o + n > MAXFILE * BSIZE

filewrite(p) ==
  LET u == th[p]
      o == off[u.d]
      n1 == Min({u.n - u.i, max})
      bad == o > mem[f(p)].size \/ Wraps(o, n1) \/ TooLong(o, n1)
  IN  /\ At(p, "write") /\ u.i < u.n /\ lock[f(p)] = None
      /\ \/ /\ bad
            /\ th' = [th EXCEPT ![p] = Idle]
            /\ UNCHANGED lock
         \/ /\ ~bad
            /\ lock' = [lock EXCEPT ![f(p)] = p]
            /\ Goto(p, "write_blk", [u EXCEPT !.n1 = n1, !.at = o, !.tot = 0])
      /\ UNCHANGED <<used, blk, mem, disk, off, bytes, panic, ncalls>>

Data(p, k) == Fill[p][1 + ((th[p].i + k) % Len(Fill[p]))]

(* Block a after the first m bytes of the part were copied in. *)
Copied(p, b, m) ==
  LET u == th[p]
      o == u.at % BSIZE
  IN  [k \in 0..BSIZE - 1 |-> IF k \in o..(o + m - 1) THEN Data(p, u.tot + k - o) ELSE b[k]]

(* The file s with the first m bytes of the chunk written at o. *)
Written(p, s, o, m) ==
  [k \in 1..Max({Len(s), o + m}) |-> IF k \in (o + 1)..(o + m) THEN Data(p, k - o - 1) ELSE s[k]]

(* An iteration of writei; either_copyin may fail after some of the bytes,  *)
(* which stay in the block.                                                 *)
writei(p) ==
  LET u == th[p]
      c == bmap(Here(p), u.at \div BSIZE, p)
      put(m) == log_write([c EXCEPT !.blk[c.addr] = Copied(p, @, m)], {c.addr}, p)
  IN  /\ At(p, "write_blk") /\ u.tot < u.n1
      /\ \/ /\ c.addr = 0
            /\ Becomes(p, c)
            /\ Goto(p, "write_end", [u EXCEPT !.logged = c.logged])
            /\ UNCHANGED bytes
         \/ /\ c.addr # 0
            /\ Becomes(p, put(Part(u)))
            /\ Goto(p, "write_blk", [u EXCEPT !.tot = @ + Part(u), !.at = @ + Part(u),
                                              !.logged = put(Part(u)).logged])
            /\ UNCHANGED bytes
         \/ \E m \in 0..Part(u) - 1 :
            /\ c.addr # 0
            /\ Becomes(p, put(m))
            /\ Goto(p, "write_end", [u EXCEPT !.logged = put(m).logged])
            /\ bytes' = [bytes EXCEPT ![f(p)] =
                           SubSeq(Written(p, @, u.at - u.tot, u.tot + m), 1, Len(@))]
      /\ UNCHANGED <<disk, lock, off, ncalls>>

writei_done(p) ==
  /\ At(p, "write_blk") /\ th[p].tot = th[p].n1
  /\ Goto(p, "write_end", th[p])
  /\ UNCHANGED <<used, blk, mem, disk, lock, off, bytes, panic, ncalls>>

(* The size, iupdate, the offset; another chunk unless this one was short. *)
MutNoUpdate(ip, fl) == disk
iupdate(ip, fl) == [disk EXCEPT ![fl] = ip]

filewrite_chunk(p) ==
  LET u == th[p]
      ip == [mem[f(p)] EXCEPT !.size = Max({@, u.at})]
  IN  /\ At(p, "write_end")
      /\ mem' = [mem EXCEPT ![f(p)] = ip] /\ disk' = iupdate(ip, f(p))
      /\ bytes' = [bytes EXCEPT ![f(p)] = Written(p, @, u.at - u.tot, u.tot)]
      /\ off' = [off EXCEPT ![u.d] = Advanced(@, u.tot)]
      /\ lock' = [lock EXCEPT ![f(p)] = None]
      /\ \/ u.tot = u.n1 /\ Goto(p, "write", [u EXCEPT !.i = @ + u.tot, !.logged = {}])
         \/ u.tot # u.n1 /\ th' = [th EXCEPT ![p] = Idle]
      /\ UNCHANGED <<used, blk, panic, ncalls>>

filewrite_end(p) ==
  /\ At(p, "write") /\ th[p].i = th[p].n
  /\ th' = [th EXCEPT ![p] = Idle]
  /\ UNCHANGED <<used, blk, mem, disk, lock, off, bytes, panic, ncalls>>

----------------------------------------------------------------------------
(* itrunc, for sys_open with O_TRUNC and for the last iput: th[p].i counts  *)
(* the places of the block list.                                            *)
trunc_lock(p) ==
  /\ At(p, "trunc_lock") /\ lock[f(p)] = None
  /\ lock' = [lock EXCEPT ![f(p)] = p]
  /\ Goto(p, "trunc", th[p])
  /\ UNCHANGED <<used, blk, mem, disk, off, bytes, panic, ncalls>>

MutKeepIndirect(c, i, p) ==
  IF i < NDIRECT /\ c.ip.addrs[i] # 0 THEN [bfree(c, c.ip.addrs[i], p) EXCEPT !.ip.addrs[i] = 0]
  ELSE IF i = MAXFILE /\ c.ip.addrs[NDIRECT] # 0
       THEN [bfree(c, c.ip.addrs[NDIRECT], p) EXCEPT !.ip.addrs[NDIRECT] = 0]
       ELSE c

(* Place i: a direct block, an entry of the indirect block, or the indirect *)
(* block itself.                                                            *)
Drop(c, i, p) ==
  LET x == c.ip.addrs[NDIRECT]
  IN  CASE i < NDIRECT /\ c.ip.addrs[i] # 0 ->
             [bfree(c, c.ip.addrs[i], p) EXCEPT !.ip.addrs[i] = 0]
        [] i \in NDIRECT..MAXFILE - 1 /\ x # 0 /\ c.blk[x][i - NDIRECT] # 0 ->
             bfree(c, c.blk[x][i - NDIRECT], p)
        [] i = MAXFILE /\ x # 0 -> [bfree(c, x, p) EXCEPT !.ip.addrs[NDIRECT] = 0]
        [] OTHER -> c

itrunc(p) ==
  LET u == th[p]
      c == Drop(Here(p), u.i, p)
  IN  /\ At(p, "trunc") /\ u.i <= MAXFILE
      /\ Becomes(p, c)
      /\ Goto(p, "trunc", [u EXCEPT !.i = @ + 1, !.logged = c.logged])
      /\ UNCHANGED <<disk, lock, off, bytes, ncalls>>

itrunc_end(p) ==
  LET ip == [mem[f(p)] EXCEPT !.size = 0]
  IN  /\ At(p, "trunc") /\ th[p].i = MAXFILE + 1
      /\ mem' = [mem EXCEPT ![f(p)] = ip] /\ disk' = iupdate(ip, f(p))
      /\ bytes' = [bytes EXCEPT ![f(p)] = <<>>]
      /\ lock' = [lock EXCEPT ![f(p)] = None]
      /\ th' = [th EXCEPT ![p] = Idle]
      /\ UNCHANGED <<used, blk, off, panic, ncalls>>

(* The table entry of an inode nobody uses is recycled, and ilock reads the *)
(* inode again.                                                             *)
ilock(fl) ==
  /\ lock[fl] = None /\ ~panic
  /\ mem' = [mem EXCEPT ![fl] = disk[fl]]
  /\ UNCHANGED <<used, blk, disk, lock, off, th, bytes, panic, ncalls>>

Init ==
  /\ used = balloc_mkfs /\ blk = image.blk
  /\ mem = image.inode /\ disk = mem
  /\ lock = [fl \in File |-> None] /\ off = [d \in Fd |-> 0]
  /\ th = [p \in Proc |-> Idle] /\ bytes = [fl \in File |-> Contents(fl)]
  /\ panic = FALSE /\ ncalls = 0

Next ==
  \/ \E p \in Proc :
       \/ \E d \in Fd : \/ \E n \in Counts : Call(p, d, "read", n) \/ Call(p, d, "write", n)
                        \/ Call(p, d, "trunc_lock", 0)
       \/ fileread(p) \/ readi(p) \/ readi_done(p) \/ fileread_end(p)
       \/ filewrite(p) \/ writei(p) \/ writei_done(p) \/ filewrite_chunk(p) \/ filewrite_end(p)
       \/ trunc_lock(p) \/ itrunc(p) \/ itrunc_end(p)
  \/ \E fl \in File : ilock(fl)

Spec == Init /\ [][Next]_vars

----------------------------------------------------------------------------
(* No balloc outside a transaction (a read that meets a hole would do it),  *)
(* no bfree of a free block, no block number beyond MAXFILE; and the chunk  *)
(* size of filewrite keeps a transaction within its share of the log, which *)
(* log_write needs one block short of MAXOPBLOCKS (see Log).                *)
NoPanic ==
  /\ ~panic
  /\ \A p \in Proc : InOp(p) => Cardinality(th[p].logged \cup {INODE}) <= MAXOPBLOCKS - 1

(* The places of the block list of a file: direct blocks, the indirect      *)
(* block, and its entries, without those itrunc has freed already.          *)
Freed(fl) == IF lock[fl] # None /\ th[lock[fl]].pc = "trunc" THEN th[lock[fl]].i - NDIRECT ELSE 0
Places(fl) ==
  LET a == mem[fl].addrs
  IN  {<<fl, i>> : i \in {k \in 0..NDIRECT : a[k] # 0}}
      \cup (IF a[NDIRECT] = 0 THEN {}
            ELSE {<<fl, NDIRECT + 1 + j>> :
                    j \in {k \in 0..NINDIRECT - 1 : k >= Freed(fl) /\ blk[a[NDIRECT]][k] # 0}})
BlockAt(x) ==
  LET a == mem[x[1]].addrs
  IN  IF x[2] <= NDIRECT THEN a[x[2]] ELSE blk[a[NDIRECT]][x[2] - NDIRECT - 1]

(* A block in use belongs to one place of one file, and a block that        *)
(* belongs to a file is in use: no block is lost or given out twice, when   *)
(* the disk is full half way through a write as well.                       *)
BlocksOwned ==
  LET places == UNION {Places(fl) : fl \in File}
  IN  /\ used = {BlockAt(x) : x \in places}
      /\ Cardinality(used) = Cardinality(places)

(* Read block by block, the inode on disk holds what the calls wrote: after *)
(* failed and partial writes, truncation, and reuse of blocks of other      *)
(* files.                                                                   *)
Content(ip) ==
  LET block(k) == IF k < NDIRECT THEN ip.addrs[k] ELSE blk[ip.addrs[NDIRECT]][k - NDIRECT]
  IN  [k \in 1..ip.size |-> blk[block((k - 1) \div BSIZE)][(k - 1) % BSIZE]]
ReadBack == \A fl \in File : lock[fl] = None => Content(disk[fl]) = bytes[fl]

(* A read returns the bytes at the offset, short only at the end of file.   *)
ReadIsExact ==
  \A p \in Proc : At(p, "read_end") /\ th[p].tot >= 0 =>
    LET o == off[th[p].d]
        s == bytes[f(p)]
    IN  th[p].got = SubSeq(s, o + 1, Min({Len(s), o + th[p].n}))

============================================================================
