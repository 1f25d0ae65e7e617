-------------------------------- MODULE Mkfs --------------------------------
(***************************************************************************)
(* mkfs/mkfs.c: the image it makes of a list of files.  Data blocks are    *)
(* numbered from 1; block 0 stands for no block, as in addrs.  The super   *)
(* block, the log and the layout of inodes in blocks are left out.         *)
(***************************************************************************)
EXTENDS Integers, Sequences, SequencesExt

CONSTANTS
  File, Root,   \* inodes, with ROOTINO
  NBlock,       \* data blocks of the disk
  BSIZE, NDIRECT, NINDIRECT,
  Dirent,       \* the bytes of a directory entry
  Args          \* the files given to mkfs: name and contents

ASSUME MkfsAssumption ==
  /\ NBlock \in Nat /\ NDIRECT \in Nat /\ BSIZE \in Nat \ {0} /\ NINDIRECT \in 0..BSIZE
  /\ Root \in File /\ \A k \in DOMAIN Args : Args[k].file \in File \ {Root}

(* wholeBlocks rounds an exact number of blocks up by one more.  The root    *)
(* directory then ends in a hole, and reading it to its end panics (see      *)
(* NoPanic in FileData).  The images of this repository have 24 entries, of  *)
(* which 64 fit in a block.                                                  *)
ASSUME RootNotFull == ((Len(Args) + 2) * Len(Dirent)) % BSIZE # 0

Block == 1..NBlock
MAXFILE == NDIRECT + NINDIRECT
Zero == [k \in 0..BSIZE - 1 |-> 0]
Empty == [addrs |-> [i \in 0..NDIRECT |-> 0], size |-> 0]

(* The image so far: freeblock, the inodes, the blocks. *)
Blank == [freeblock |-> 1, inode |-> [fl \in File |-> Empty], blk |-> [b \in Block |-> Zero]]

(* The block of a file at place i of addrs, or at entry j of the indirect   *)
(* block; a new one comes from freeblock.                                   *)
direct(d, fl, i) ==
  IF d.inode[fl].addrs[i] # 0 THEN d
  ELSE [d EXCEPT !.inode[fl].addrs[i] = d.freeblock, !.freeblock = @ + 1]
indirect(d, x, j) ==
  IF d.blk[x][j] # 0 THEN d
  ELSE [d EXCEPT !.blk[x][j] = d.freeblock, !.freeblock = @ + 1]

(* iappend, a byte at a time. *)
store(d, fl, x, c) ==
  [d EXCEPT !.blk[x][d.inode[fl].size % BSIZE] = c, !.inode[fl].size = @ + 1]
entry(d, fl, j, c) == store(d, fl, d.blk[d.inode[fl].addrs[NDIRECT]][j], c)
append(d, fl, fbn, c) ==
  IF fbn < NDIRECT THEN LET e == direct(d, fl, fbn) IN store(e, fl, e.inode[fl].addrs[fbn], c)
  ELSE LET e == direct(d, fl, NDIRECT)
       IN entry(indirect(e, e.inode[fl].addrs[NDIRECT], fbn - NDIRECT), fl, fbn - NDIRECT, c)
iappend(d, fl, bytes) ==
  FoldLeft(LAMBDA e, c : append(e, fl, e.inode[fl].size \div BSIZE, c), d, bytes)

(* main: ".", "..", an entry and the contents for every file; the root      *)
(* directory is made to end at the end of a block; then balloc.             *)
wholeBlocks(size) == ((size \div BSIZE) + 1) * BSIZE
image ==
  LET dots == iappend(iappend(Blank, Root, Dirent), Root, Dirent)
      all == FoldLeft(LAMBDA d, a : iappend(iappend(d, Root, Dirent), a.file, a.data), dots, Args)
  IN [all EXCEPT !.inode[Root].size = wholeBlocks(@)]
balloc_mkfs == 1..(image.freeblock - 1)

(* What the files of the image should hold. *)
Contents(fl) ==
  IF fl = Root
    THEN LET n == (Len(Args) + 2) * Len(Dirent)
         IN [k \in 1..wholeBlocks(n) |-> IF k <= n THEN Dirent[1 + ((k - 1) % Len(Dirent))] ELSE 0]
    ELSE FlattenSeq([k \in DOMAIN Args |-> IF Args[k].file = fl THEN Args[k].data ELSE <<>>])
=============================================================================
