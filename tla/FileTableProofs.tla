--------------------------- MODULE FileTableProofs ---------------------------
(***************************************************************************)
(* The file table under any programs, FileSpec: reference counts are exact *)
(* on every path of open, pipe, dup, fork, close and exit, a pipe's ends   *)
(* are open exactly while somebody may use them, and fileclose starts no   *)
(* transaction inside sys_open's, for every number of processes, files,    *)
(* descriptors and pages.                                                  *)
(*                                                                         *)
(* Counting is local: a step of p changes the references p has itself,     *)
(* Mine, and Exchange says that a file's count moves by as much.  What the *)
(* lemmas need of Cardinality and Min, Counting, is a hypothesis, proved   *)
(* at the end from the library.                                            *)
(***************************************************************************)
EXTENDS FileTable, TLAPS

CountEmpty ==
  /\ IsFiniteSet({}) /\ Cardinality({}) = 0
  /\ \A S : IsFiniteSet(S) => (Cardinality(S) = 0 <=> S = {})

CountType == \A S : IsFiniteSet(S) => Cardinality(S) \in Nat

CountSubset == \A S : IsFiniteSet(S) => \A T \in SUBSET S : IsFiniteSet(T)

CountAdd ==
  \A S, x : IsFiniteSet(S) /\ x \notin S => Cardinality(S \cup {x}) = Cardinality(S) + 1

CountSplit ==
  \A S, T : IsFiniteSet(S) /\ IsFiniteSet(T) /\ S \cap T = {} =>
    IsFiniteSet(S \cup T) /\ Cardinality(S \cup T) = Cardinality(S) + Cardinality(T)

CountRow ==
  \A x, S : IsFiniteSet(S) =>
    IsFiniteSet({x} \X S) /\ Cardinality({x} \X S) = Cardinality(S)

FiniteTables ==
  /\ IsFiniteSet(Fd) /\ IsFiniteSet(File) /\ IsFiniteSet(Proc \X Fd)
  /\ IsFiniteSet(Proc \X (1..2))

LeastExists == \A S \in SUBSET Nat : S # {} => Min(S) \in S

Counting ==
  /\ CountEmpty /\ CountType /\ CountSubset /\ CountAdd /\ CountSplit /\ CountRow
  /\ FiniteTables /\ LeastExists

----------------------------------------------------------------------------
(* The references that a process has: by its descriptors t and its call c. *)
One(b) == IF b THEN 1 ELSE 0
Owns(t, f) == {fd \in Fd : t[fd] = f}
Named(c, f) ==
  One(1 \in DOMAIN c.todo /\ c.todo[1] = f) + One(2 \in DOMAIN c.todo /\ c.todo[2] = f)
    + One(c.k \in {"pipealloc", "pipe_fds"} /\ c.rf = f) + One(c.k = "pipe_fds" /\ c.wf = f)
Mine(t, c, f) == Cardinality(Owns(t, f)) + Named(c, f)

(* All of them. *)
Descs(o, f) == {d \in Proc \X Fd : o[d[1]][d[2]] = f}
Todos(s, f) ==
  {d \in Proc \X (1..2) : d[2] \in DOMAIN s[d[1]].todo /\ s[d[1]].todo[d[2]] = f}
Rfs(s, f) == {p \in Proc : s[p].k \in {"pipealloc", "pipe_fds"} /\ s[p].rf = f}
Wfs(s, f) == {p \in Proc : s[p].k = "pipe_fds" /\ s[p].wf = f}
Refs(o, s, f) ==
  Cardinality(Descs(o, f)) + Cardinality(Todos(s, f)) + Cardinality(Rfs(s, f))
    + Cardinality(Wfs(s, f))

LEMMA HoldersAre ==
  ASSUME NEW f
  PROVE  Holders(f) = Refs(ofile, sys, f) /\ Holders(f)' = Refs(ofile', sys', f)
  BY Zenon DEF Holders, Refs, Descs, Todos, Rfs, Wfs

(* Two sets that differ in one element at most. *)
LEMMA Recount ==
  ASSUME Counting, NEW S, IsFiniteSet(S), NEW U \in SUBSET S, NEW V \in SUBSET S, NEW x,
         \A y \in S : y # x => (y \in U <=> y \in V)
  PROVE  /\ Cardinality(U) \in Nat /\ Cardinality(V) \in Nat
         /\ Cardinality(V) + One(x \in U) = Cardinality(U) + One(x \in V)
<1>1. IsFiniteSet(U) /\ IsFiniteSet(V)
  BY Zenon DEF Counting, CountSubset
<1>2. Cardinality(U) \in Nat /\ Cardinality(V) \in Nat
  BY Zenon, <1>1 DEF Counting, CountType
<1>3. CASE x \in U /\ x \notin V
  <2>1. U = V \cup {x}
    BY Zenon, <1>3
  <2>2. Cardinality(U) = Cardinality(V) + 1
    BY Zenon, <1>1, <1>3, <2>1 DEF Counting, CountAdd
  <2> QED
    BY <1>2, <1>3, <2>2 DEF One
<1>4. CASE x \notin U /\ x \in V
  <2>1. V = U \cup {x}
    BY Zenon, <1>4
  <2>2. Cardinality(V) = Cardinality(U) + 1
    BY Zenon, <1>1, <1>4, <2>1 DEF Counting, CountAdd
  <2> QED
    BY <1>2, <1>4, <2>2 DEF One
<1>5. CASE x \in U <=> x \in V
  <2>1. U = V
    BY <1>5
  <2> QED
    BY Zenon, <1>2, <2>1
<1> QED
  BY Zenon, <1>3, <1>4, <1>5

(* A step that changes nobody's entry but p's. *)
Only(p, o, o2) == \A q \in Proc \ {p} : o2[q] = o[q]

(* It moves the number of descriptors by as much as p's own. *)
LEMMA DescsMove ==
  ASSUME Counting, NEW o, NEW o2, NEW p \in Proc, NEW f,
         Only(p, o, o2)
  PROVE  /\ Cardinality(Descs(o, f)) \in Nat /\ Cardinality(Descs(o2, f)) \in Nat
         /\ Cardinality(Owns(o[p], f)) \in Nat /\ Cardinality(Owns(o2[p], f)) \in Nat
         /\ Cardinality(Descs(o2, f)) + Cardinality(Owns(o[p], f))
              = Cardinality(Descs(o, f)) + Cardinality(Owns(o2[p], f))
<1> DEFINE Rest == {d \in Proc \X Fd : d[1] # p /\ o[d[1]][d[2]] = f}
<1>1. /\ IsFiniteSet(Rest) /\ IsFiniteSet(Owns(o[p], f)) /\ IsFiniteSet(Owns(o2[p], f))
  <2>1. Rest \in SUBSET (Proc \X Fd) /\ \A t : Owns(t, f) \in SUBSET Fd
    BY Zenon DEF Owns
  <2> HIDE DEF Rest
  <2> QED
    BY Zenon, <2>1 DEF Counting, CountSubset, FiniteTables
<1>2. /\ Cardinality(Rest) \in Nat /\ Cardinality(Owns(o[p], f)) \in Nat
      /\ Cardinality(Owns(o2[p], f)) \in Nat
  BY Zenon, <1>1 DEF Counting, CountType
<1>3. ASSUME NEW t, NEW D, D = Rest \cup ({p} \X Owns(t, f)), IsFiniteSet(Owns(t, f))
      PROVE  Cardinality(D) = Cardinality(Rest) + Cardinality(Owns(t, f))
  <2>1. Rest \cap ({p} \X Owns(t, f)) = {}
    BY <1>3
  <2> HIDE DEF Rest
  <2>2. /\ IsFiniteSet({p} \X Owns(t, f))
        /\ Cardinality({p} \X Owns(t, f)) = Cardinality(Owns(t, f))
    BY Zenon, <1>3 DEF Counting, CountRow
  <2>3. Cardinality(D) = Cardinality(Rest) + Cardinality({p} \X Owns(t, f))
    BY Zenon, <1>1, <1>3, <2>1, <2>2 DEF Counting, CountSplit
  <2> QED
    BY Zenon, <2>2, <2>3
<1>4. Descs(o, f) = Rest \cup ({p} \X Owns(o[p], f))
  BY DEF Descs, Owns
<1>5. Descs(o2, f) = Rest \cup ({p} \X Owns(o2[p], f))
  <2>1. ASSUME NEW q \in Proc, NEW e \in Fd
        PROVE  <<q, e>> \in Descs(o2, f) <=> <<q, e>> \in Rest \cup ({p} \X Owns(o2[p], f))
    BY DEF Descs, Owns, Only
  <2>2. /\ Descs(o2, f) \in SUBSET (Proc \X Fd)
        /\ Rest \cup ({p} \X Owns(o2[p], f)) \in SUBSET (Proc \X Fd)
    BY DEF Descs, Owns
  <2> HIDE DEF Rest
  <2> QED
    BY <2>1, <2>2
<1> HIDE DEF Rest
<1>6. /\ Cardinality(Descs(o, f)) = Cardinality(Rest) + Cardinality(Owns(o[p], f))
      /\ Cardinality(Descs(o2, f)) = Cardinality(Rest) + Cardinality(Owns(o2[p], f))
  BY Zenon, <1>1, <1>3, <1>4, <1>5
<1> QED
  BY <1>2, <1>6

LEMMA TodosMove ==
  ASSUME Counting, NEW s, NEW s2, NEW p \in Proc, NEW f,
         Only(p, s, s2)
  PROVE  /\ Cardinality(Todos(s, f)) \in Nat /\ Cardinality(Todos(s2, f)) \in Nat
         /\ Cardinality(Todos(s2, f)) + One(1 \in DOMAIN s[p].todo /\ s[p].todo[1] = f)
              + One(2 \in DOMAIN s[p].todo /\ s[p].todo[2] = f)
            = Cardinality(Todos(s, f)) + One(1 \in DOMAIN s2[p].todo /\ s2[p].todo[1] = f)
              + One(2 \in DOMAIN s2[p].todo /\ s2[p].todo[2] = f)
<1> DEFINE S == Proc \X (1..2)
           U == Todos(s, f)
           V == Todos(s2, f)
           M == {d \in S : IF d = <<p, 1>> THEN d \in V ELSE d \in U}
<1>1. U \in SUBSET S /\ V \in SUBSET S /\ M \in SUBSET S /\ IsFiniteSet(S)
  BY Zenon DEF Todos, Counting, FiniteTables
<1>2. <<p, 1>> \in S /\ <<p, 2>> \in S /\ <<p, 1>> # <<p, 2>>
  OBVIOUS
<1>3. \A y \in S : y # <<p, 1>> /\ y # <<p, 2>> => (y \in U <=> y \in V)
  <2>1. ASSUME NEW q \in Proc, NEW i \in 1..2, <<q, i>> # <<p, 1>>, <<q, i>> # <<p, 2>>
        PROVE  <<q, i>> \in U <=> <<q, i>> \in V
    <3>1. q # p
      BY <2>1
    <3> QED
      BY Zenon, <2>1, <3>1 DEF Todos, Only
  <2> HIDE DEF U, V
  <2> SUFFICES ASSUME NEW y \in S, y # <<p, 1>>, y # <<p, 2>> PROVE y \in U <=> y \in V
    BY Zenon
  <2>2. PICK q \in Proc, i \in 1..2 : y = <<q, i>>
    BY DEF S
  <2> QED
    BY Zenon, <2>1, <2>2
<1>4. /\ <<p, 1>> \in U <=> (1 \in DOMAIN s[p].todo /\ s[p].todo[1] = f)
      /\ <<p, 2>> \in U <=> (2 \in DOMAIN s[p].todo /\ s[p].todo[2] = f)
      /\ <<p, 1>> \in V <=> (1 \in DOMAIN s2[p].todo /\ s2[p].todo[1] = f)
      /\ <<p, 2>> \in V <=> (2 \in DOMAIN s2[p].todo /\ s2[p].todo[2] = f)
  BY DEF Todos
<1>5. /\ \A y \in S : y # <<p, 1>> => (y \in U <=> y \in M)
      /\ \A y \in S : y # <<p, 2>> => (y \in M <=> y \in V)
      /\ <<p, 1>> \in M <=> <<p, 1>> \in V
      /\ <<p, 2>> \in M <=> <<p, 2>> \in U
  <2> HIDE DEF S, U, V
  <2> QED
    BY Zenon, <1>2, <1>3
<1> HIDE DEF S, U, V, M
<1>6. /\ Cardinality(U) \in Nat /\ Cardinality(M) \in Nat
      /\ Cardinality(M) + One(<<p, 1>> \in U) = Cardinality(U) + One(<<p, 1>> \in M)
  BY <1>1, <1>5, Recount
<1>7. /\ Cardinality(V) \in Nat
      /\ Cardinality(V) + One(<<p, 2>> \in M) = Cardinality(M) + One(<<p, 2>> \in V)
  BY <1>1, <1>5, Recount
<1>8. \A b : One(b) \in Nat
  BY DEF One
<1>9. /\ One(<<p, 1>> \in M) = One(<<p, 1>> \in V) /\ One(<<p, 2>> \in M) = One(<<p, 2>> \in U)
  BY Zenon, <1>5 DEF One
<1>10. Cardinality(V) + One(<<p, 1>> \in U) + One(<<p, 2>> \in U)
         = Cardinality(U) + One(<<p, 1>> \in V) + One(<<p, 2>> \in V)
  BY <1>6, <1>7, <1>8, <1>9
<1>11. /\ One(<<p, 1>> \in U) = One(1 \in DOMAIN s[p].todo /\ s[p].todo[1] = f)
       /\ One(<<p, 2>> \in U) = One(2 \in DOMAIN s[p].todo /\ s[p].todo[2] = f)
       /\ One(<<p, 1>> \in V) = One(1 \in DOMAIN s2[p].todo /\ s2[p].todo[1] = f)
       /\ One(<<p, 2>> \in V) = One(2 \in DOMAIN s2[p].todo /\ s2[p].todo[2] = f)
  BY Zenon, <1>4 DEF One
<1> QED
  BY Zenon, <1>6, <1>7, <1>10, <1>11 DEF U, V

(* A step of p moves the count of a file by as much as p's own references. *)
LEMMA Exchange ==
  ASSUME Counting, NEW o, NEW o2, NEW s, NEW s2, NEW p \in Proc, NEW f,
         Only(p, o, o2), Only(p, s, s2)
  PROVE  /\ Refs(o, s, f) \in Nat /\ Refs(o2, s2, f) \in Nat
         /\ Mine(o[p], s[p], f) \in Nat /\ Mine(o2[p], s2[p], f) \in Nat
         /\ Refs(o2, s2, f) + Mine(o[p], s[p], f) = Refs(o, s, f) + Mine(o2[p], s2[p], f)
<1> DEFINE R(x) == One(x.k \in {"pipealloc", "pipe_fds"} /\ x.rf = f)
           W(x) == One(x.k = "pipe_fds" /\ x.wf = f)
           T(x) == One(1 \in DOMAIN x.todo /\ x.todo[1] = f)
           T2(x) == One(2 \in DOMAIN x.todo /\ x.todo[2] = f)
<1>0. IsFiniteSet(Proc)
  BY Zenon, FileTableAssumption
<1>1. /\ Cardinality(Descs(o, f)) \in Nat /\ Cardinality(Descs(o2, f)) \in Nat
      /\ Cardinality(Owns(o[p], f)) \in Nat /\ Cardinality(Owns(o2[p], f)) \in Nat
      /\ Cardinality(Descs(o2, f)) + Cardinality(Owns(o[p], f))
           = Cardinality(Descs(o, f)) + Cardinality(Owns(o2[p], f))
  BY DescsMove
<1>2. /\ Cardinality(Todos(s, f)) \in Nat /\ Cardinality(Todos(s2, f)) \in Nat
      /\ Cardinality(Todos(s2, f)) + T(s[p]) + T2(s[p])
           = Cardinality(Todos(s, f)) + T(s2[p]) + T2(s2[p])
  BY TodosMove
<1>3. /\ Cardinality(Rfs(s, f)) \in Nat /\ Cardinality(Rfs(s2, f)) \in Nat
      /\ Cardinality(Rfs(s2, f)) + R(s[p]) = Cardinality(Rfs(s, f)) + R(s2[p])
  <2>1. Rfs(s, f) \in SUBSET Proc /\ Rfs(s2, f) \in SUBSET Proc
    BY Zenon DEF Rfs
  <2>2. \A q \in Proc : q # p => (q \in Rfs(s, f) <=> q \in Rfs(s2, f))
    BY Zenon DEF Rfs, Only
  <2>3. /\ Cardinality(Rfs(s, f)) \in Nat /\ Cardinality(Rfs(s2, f)) \in Nat
        /\ Cardinality(Rfs(s2, f)) + One(p \in Rfs(s, f))
             = Cardinality(Rfs(s, f)) + One(p \in Rfs(s2, f))
    BY <1>0, <2>1, <2>2, Recount
  <2>4. One(p \in Rfs(s, f)) = R(s[p]) /\ One(p \in Rfs(s2, f)) = R(s2[p])
    BY Zenon DEF Rfs, One
  <2> QED
    BY Zenon, <2>3, <2>4
<1>4. /\ Cardinality(Wfs(s, f)) \in Nat /\ Cardinality(Wfs(s2, f)) \in Nat
      /\ Cardinality(Wfs(s2, f)) + W(s[p]) = Cardinality(Wfs(s, f)) + W(s2[p])
  <2>1. Wfs(s, f) \in SUBSET Proc /\ Wfs(s2, f) \in SUBSET Proc
    BY Zenon DEF Wfs
  <2>2. \A q \in Proc : q # p => (q \in Wfs(s, f) <=> q \in Wfs(s2, f))
    BY Zenon DEF Wfs, Only
  <2>3. /\ Cardinality(Wfs(s, f)) \in Nat /\ Cardinality(Wfs(s2, f)) \in Nat
        /\ Cardinality(Wfs(s2, f)) + One(p \in Wfs(s, f))
             = Cardinality(Wfs(s, f)) + One(p \in Wfs(s2, f))
    BY <1>0, <2>1, <2>2, Recount
  <2>4. One(p \in Wfs(s, f)) = W(s[p]) /\ One(p \in Wfs(s2, f)) = W(s2[p])
    BY Zenon DEF Wfs, One
  <2> QED
    BY Zenon, <2>3, <2>4
<1>5. /\ Named(s[p], f) = T(s[p]) + T2(s[p]) + R(s[p]) + W(s[p])
      /\ Named(s2[p], f) = T(s2[p]) + T2(s2[p]) + R(s2[p]) + W(s2[p])
  BY Zenon DEF Named
<1>6. /\ R(s[p]) \in Nat /\ W(s[p]) \in Nat /\ T(s[p]) \in Nat /\ T2(s[p]) \in Nat
      /\ R(s2[p]) \in Nat /\ W(s2[p]) \in Nat /\ T(s2[p]) \in Nat /\ T2(s2[p]) \in Nat
  BY DEF One
<1> HIDE DEF R, W, T, T2
<1> QED
  BY <1>1, <1>2, <1>3, <1>4, <1>5, <1>6 DEF Refs, Mine

(* A process, and any two of them, have no more than all. *)
Nothing == [fd \in Fd |-> None]
LEMMA NothingMine ==
  ASSUME Counting, NEW f \in File
  PROVE  Mine(Nothing, User, f) = 0
<1>1. None \notin File
  BY FileTableAssumption DEF File
<1>2. Owns(Nothing, f) = {}
  BY Zenon, <1>1 DEF Owns, Nothing
<1>3. Cardinality(Owns(Nothing, f)) = 0
  BY Zenon, <1>2 DEF Counting, CountEmpty
<1>4. Named(User, f) = 0
  BY DEF Named, One, User
<1> QED
  BY <1>3, <1>4 DEF Mine

LEMMA AtMostAll ==
  ASSUME Counting, NEW o, NEW s, DOMAIN o = Proc, DOMAIN s = Proc, NEW p \in Proc, NEW f \in File
  PROVE  /\ Refs(o, s, f) \in Nat /\ Mine(o[p], s[p], f) \in Nat
         /\ Mine(o[p], s[p], f) <= Refs(o, s, f)
         /\ \A q \in Proc \ {p} : /\ Mine(o[q], s[q], f) \in Nat
                                  /\ Mine(o[p], s[p], f) + Mine(o[q], s[q], f) <= Refs(o, s, f)
<1> DEFINE o2 == [r \in Proc |-> IF r = p THEN Nothing ELSE o[r]]
           s2 == [r \in Proc |-> IF r = p THEN User ELSE s[r]]
<1>1. /\ o2[p] = Nothing /\ s2[p] = User
      /\ Only(p, o, o2) /\ Only(p, s, s2)
  BY Zenon DEF Only
<1> HIDE DEF o2, s2
<1>2. /\ Refs(o, s, f) \in Nat /\ Refs(o2, s2, f) \in Nat
      /\ Mine(o[p], s[p], f) \in Nat /\ Mine(o2[p], s2[p], f) \in Nat
      /\ Refs(o2, s2, f) + Mine(o[p], s[p], f) = Refs(o, s, f) + Mine(o2[p], s2[p], f)
  BY <1>1, Exchange
<1>3. Refs(o2, s2, f) + Mine(o[p], s[p], f) = Refs(o, s, f)
  <2>1. Mine(o2[p], s2[p], f) = 0
    BY Zenon, <1>1, NothingMine
  <2> QED
    BY <1>2, <2>1
<1>4. ASSUME NEW q \in Proc \ {p}
      PROVE  Mine(o[q], s[q], f) \in Nat /\ Mine(o[q], s[q], f) <= Refs(o2, s2, f)
  <2> DEFINE o3 == [r \in Proc |-> IF r = q THEN Nothing ELSE o2[r]]
             s3 == [r \in Proc |-> IF r = q THEN User ELSE s2[r]]
  <2>1. /\ o3[q] = Nothing /\ s3[q] = User
        /\ Only(q, o2, o3) /\ Only(q, s2, s3)
    BY Zenon DEF Only
  <2> HIDE DEF o3, s3
  <2>2. /\ Refs(o3, s3, f) \in Nat /\ Mine(o2[q], s2[q], f) \in Nat
        /\ Refs(o3, s3, f) + Mine(o2[q], s2[q], f) = Refs(o2, s2, f) + Mine(o3[q], s3[q], f)
    BY <2>1, Exchange
  <2>3. Mine(o3[q], s3[q], f) = 0
    BY Zenon, <2>1, NothingMine
  <2>4. o2[q] = o[q] /\ s2[q] = s[q]
    BY Zenon, <1>1 DEF Only
  <2> QED
    BY <1>2, <2>2, <2>3, <2>4
<1> QED
  BY <1>2, <1>3, <1>4

----------------------------------------------------------------------------
(* What is true of a file, of a call, and of the files that a process with  *)
(* descriptors t in the call c refers to.  A file without a type has one    *)
(* holder, who is still to give it one or to give it back.                  *)
FileRec == [ref : Nat, type : {"NONE", "INODE", "PIPE"}, pipe : Nat,
            readable : BOOLEAN, writable : BOOLEAN, off : Nat]
FileOK(x) ==
  /\ x.type = "NONE" => x.ref <= 1
  /\ x.ref = 0 => x.type = "NONE"
  /\ x.type = "PIPE" => x.pipe \in Page

CallRec == [k : {"user", "close", "pipealloc", "pipe_fds"}, todo : Seq(File), ff : FileRec,
            rf : File \cup {None}, wf : File \cup {None}, op : BOOLEAN, ret : Int, fd1 : Int]
CallOK(c) ==
  /\ Len(c.todo) <= 2
  /\ c.k # "close" => c.todo = <<>> /\ c.ff = FD_NONE /\ ~c.op
  /\ c.k \in {"pipealloc", "pipe_fds"} => c.rf \in File
  /\ c.k = "pipe_fds" => c.wf \in File /\ c.wf # c.rf
  /\ c.ff # FD_NONE => c.ff.type \in {"INODE", "PIPE"}
  /\ c.ff.type = "PIPE" => c.ff.pipe \in Page

Uses(fl, t, c) ==
  /\ \A fd \in Fd : t[fd] # None => fl[t[fd]].type # "NONE"
  /\ c.k = "pipealloc" => fl[c.rf].type = "NONE"
  /\ c.k = "pipe_fds" => fl[c.rf].type = "PIPE" /\ fl[c.wf].type = "PIPE"
  /\ c.op => c.ff = FD_NONE /\ \A i \in DOMAIN c.todo : fl[c.todo[i]].type = "NONE"

PipeRec == [used : BOOLEAN, readopen : BOOLEAN, writeopen : BOOLEAN, n : Nat]
Types ==
  /\ file \in [File -> FileRec] /\ ofile \in [Proc -> [Fd -> File \cup {None}]]
  /\ pipes \in [Page -> PipeRec] /\ sys \in [Proc -> CallRec]
Valid ==
  /\ \A f \in File : FileOK(file[f])
  /\ \A p \in Proc : CallOK(sys[p]) /\ Uses(file, ofile[p], sys[p])

EndsExact(g) ==
  /\ Ends(g, FALSE) = (IF pipes[g].readopen THEN 1 ELSE 0)
  /\ Ends(g, TRUE) = (IF pipes[g].writeopen THEN 1 ELSE 0)
  /\ pipes[g].used <=> pipes[g].readopen \/ pipes[g].writeopen
Exact == (\A f \in File : file[f].ref = Holders(f)) /\ \A g \in Page : EndsExact(g)

IInv == Types /\ Valid /\ Exact /\ kpanic \notin {"fileclose", "filedup"}

LEMMA Implied == IInv => RefsExact /\ NoNestedOp
<1>1. FD_NONE.type # "INODE"
  BY DEF FD_NONE
<1> QED
  BY Zenon, <1>1 DEF IInv, Exact, EndsExact, RefsExact, NoNestedOp, Valid, Uses

----------------------------------------------------------------------------
RefersTo(t, c, h) ==
  \/ \E fd \in Fd : t[fd] = h
  \/ \E i \in DOMAIN c.todo : c.todo[i] = h
  \/ c.k \in {"pipealloc", "pipe_fds"} /\ c.rf = h
  \/ c.k = "pipe_fds" /\ c.wf = h

LEMMA MineCounts ==
  ASSUME Counting, NEW t, NEW c \in CallRec, CallOK(c), NEW h
  PROVE  /\ Cardinality(Owns(t, h)) \in Nat /\ Mine(t, c, h) \in Nat /\ Named(c, h) \in Nat
         /\ RefersTo(t, c, h) <=> Mine(t, c, h) # 0
<1>1. Owns(t, h) \in SUBSET Fd
  BY Zenon DEF Owns
<1>2. IsFiniteSet(Owns(t, h))
  BY Zenon, <1>1 DEF Counting, CountSubset, FiniteTables
<1>3. /\ Cardinality(Owns(t, h)) \in Nat
      /\ Cardinality(Owns(t, h)) = 0 <=> Owns(t, h) = {}
  BY Zenon, <1>2 DEF Counting, CountType, CountEmpty
<1>4. Owns(t, h) = {} <=> ~ \E fd \in Fd : t[fd] = h
  BY Zenon DEF Owns
<1>5. DOMAIN c.todo \subseteq 1..2
  BY DEF CallOK, CallRec
<1>6. (\E i \in DOMAIN c.todo : c.todo[i] = h) <=>
        (1 \in DOMAIN c.todo /\ c.todo[1] = h) \/ (2 \in DOMAIN c.todo /\ c.todo[2] = h)
  <2>1. \A i \in DOMAIN c.todo : i = 1 \/ i = 2
    BY <1>5
  <2> QED
    BY Zenon, <2>1
<1>7. /\ Named(c, h) \in Nat
      /\ Named(c, h) = 0 <=> ~ \/ 1 \in DOMAIN c.todo /\ c.todo[1] = h
                               \/ 2 \in DOMAIN c.todo /\ c.todo[2] = h
                               \/ c.k \in {"pipealloc", "pipe_fds"} /\ c.rf = h
                               \/ c.k = "pipe_fds" /\ c.wf = h
  BY DEF Named, One
<1>8. /\ Mine(t, c, h) \in Nat
      /\ Mine(t, c, h) = 0 <=> Cardinality(Owns(t, h)) = 0 /\ Named(c, h) = 0
  BY <1>3, <1>7 DEF Mine
<1> QED
  BY Zenon, <1>3, <1>4, <1>6, <1>7, <1>8 DEF RefersTo

(* Who refers to a file is counted; if the count is 1 nobody else does. *)
LEMMA Held ==
  ASSUME Counting, IInv, NEW p \in Proc, NEW h \in File, RefersTo(ofile[p], sys[p], h)
  PROVE  /\ file[h].ref \in Nat /\ file[h].ref >= 1
         /\ file[h].ref <= 1 => \A q \in Proc \ {p} : ~RefersTo(ofile[q], sys[q], h)
<1>1. /\ DOMAIN ofile = Proc /\ DOMAIN sys = Proc /\ \A q \in Proc : sys[q] \in CallRec
      /\ \A q \in Proc : CallOK(sys[q])
  BY Zenon DEF IInv, Types, Valid
<1>2. file[h].ref = Refs(ofile, sys, h)
  BY Zenon, HoldersAre DEF IInv, Exact
<1>3. /\ Refs(ofile, sys, h) \in Nat
      /\ Mine(ofile[p], sys[p], h) <= Refs(ofile, sys, h)
      /\ \A q \in Proc \ {p} :
           /\ Mine(ofile[q], sys[q], h) \in Nat
           /\ Mine(ofile[p], sys[p], h) + Mine(ofile[q], sys[q], h) <= Refs(ofile, sys, h)
  BY <1>1, AtMostAll
<1>4. Mine(ofile[p], sys[p], h) \in Nat /\ Mine(ofile[p], sys[p], h) # 0
  BY Zenon, <1>1, MineCounts
<1>5. ASSUME file[h].ref <= 1, NEW q \in Proc \ {p} PROVE ~RefersTo(ofile[q], sys[q], h)
  <2>1. Mine(ofile[q], sys[q], h) = 0
    BY <1>2, <1>3, <1>4, <1>5
  <2> QED
    BY Zenon, <1>1, <2>1, MineCounts
<1> QED
  BY <1>2, <1>3, <1>4, <1>5

LEMMA NotHeld ==
  ASSUME Counting, IInv, NEW h \in File, file[h].ref = 0, NEW q \in Proc
  PROVE  ~RefersTo(ofile[q], sys[q], h)
<1>1. SUFFICES ASSUME RefersTo(ofile[q], sys[q], h) PROVE FALSE
  BY Zenon
<1>2. file[h].ref >= 1
  BY Zenon, <1>1, Held
<1> QED
  BY <1>2

(* The files a process refers to keep their types: so does what it may use. *)
LEMMA UsesKept ==
  ASSUME NEW fl, NEW fl2, NEW t \in [Fd -> File \cup {None}], NEW c \in CallRec, CallOK(c),
         Uses(fl, t, c),
         \A h \in File : fl2[h].type # fl[h].type => ~RefersTo(t, c, h)
  PROVE  Uses(fl2, t, c)
<1>1. \A h \in File : RefersTo(t, c, h) => fl2[h].type = fl[h].type
  BY Zenon
<1>2. \A fd \in Fd : t[fd] # None => fl2[t[fd]].type # "NONE"
  BY Zenon, <1>1 DEF Uses, RefersTo
<1>3. c.k = "pipealloc" => fl2[c.rf].type = "NONE"
  BY Zenon, <1>1 DEF Uses, RefersTo, CallOK
<1>4. c.k = "pipe_fds" => fl2[c.rf].type = "PIPE" /\ fl2[c.wf].type = "PIPE"
  BY Zenon, <1>1 DEF Uses, RefersTo, CallOK
<1>5. \A i \in DOMAIN c.todo : c.todo[i] \in File
  BY DEF CallRec
<1>6. c.op => c.ff = FD_NONE /\ \A i \in DOMAIN c.todo : fl2[c.todo[i]].type = "NONE"
  BY Zenon, <1>1, <1>5 DEF Uses, RefersTo
<1> QED
  BY Zenon, <1>2, <1>3, <1>4, <1>6 DEF Uses

(* A step of one process. *)
LEMMA StepInv ==
  ASSUME Counting, IInv, NEW p \in Proc, Types', kpanic' \notin {"fileclose", "filedup"},
         Only(p, ofile, ofile'), Only(p, sys, sys'),
         \A h \in File : FileOK(file'[h]),
         CallOK(sys'[p]), Uses(file', ofile'[p], sys'[p]),
         \A h \in File : file'[h].type # file[h].type =>
            \A q \in Proc \ {p} : ~RefersTo(ofile[q], sys[q], h),
         \A h \in File : file'[h].ref + Mine(ofile[p], sys[p], h)
                           = file[h].ref + Mine(ofile'[p], sys'[p], h),
         \A g \in Page : EndsExact(g)'
  PROVE  IInv'
<1>1. ASSUME NEW q \in Proc PROVE CallOK(sys'[q]) /\ Uses(file', ofile'[q], sys'[q])
  <2>1. CASE q = p
    BY Zenon, <2>1
  <2>2. CASE q # p
    <3>1. ofile'[q] = ofile[q] /\ sys'[q] = sys[q]
      BY Zenon, <2>2 DEF Only
    <3>2. /\ ofile[q] \in [Fd -> File \cup {None}] /\ sys[q] \in CallRec
          /\ CallOK(sys[q]) /\ Uses(file, ofile[q], sys[q])
      BY Zenon DEF IInv, Types, Valid
    <3>3. \A h \in File : file'[h].type # file[h].type => ~RefersTo(ofile[q], sys[q], h)
      BY Zenon, <2>2
    <3>4. Uses(file', ofile[q], sys[q])
      BY Zenon, <3>2, <3>3, UsesKept
    <3> QED
      BY Zenon, <3>1, <3>2, <3>4
  <2> QED
    BY Zenon, <2>1, <2>2
<1>2. ASSUME NEW h \in File PROVE file'[h].ref = Holders(h)'
  <2>1. /\ Refs(ofile, sys, h) \in Nat /\ Refs(ofile', sys', h) \in Nat
        /\ Mine(ofile[p], sys[p], h) \in Nat /\ Mine(ofile'[p], sys'[p], h) \in Nat
        /\ Refs(ofile', sys', h) + Mine(ofile[p], sys[p], h)
             = Refs(ofile, sys, h) + Mine(ofile'[p], sys'[p], h)
    BY Exchange
  <2>2. file[h].ref = Refs(ofile, sys, h) /\ Holders(h)' = Refs(ofile', sys', h)
    BY Zenon, HoldersAre DEF IInv, Exact
  <2>3. /\ file'[h].ref \in Nat
        /\ file'[h].ref + Mine(ofile[p], sys[p], h)
             = file[h].ref + Mine(ofile'[p], sys'[p], h)
    BY DEF Types, FileRec
  <2> QED
    BY <2>1, <2>2, <2>3
<1>3. Valid'
  BY Zenon, <1>1 DEF Valid
<1>4. Exact'
  BY Zenon, <1>2 DEF Exact
<1> QED
  BY Zenon, <1>3, <1>4 DEF IInv

----------------------------------------------------------------------------
(* The ends of pipes: files of that end, and calls that are to close it. *)
IsEnd(x, g, wr) == x.type = "PIPE" /\ x.pipe = g /\ x.writable = wr
FileEnds(fl, g, wr) == {f \in File : IsEnd(fl[f], g, wr)}
CallEnds(s, g, wr) == {p \in Proc : IsEnd(s[p].ff, g, wr)}

LEMMA EndsAre ==
  ASSUME NEW g, NEW wr
  PROVE  /\ Ends(g, wr) = Cardinality(FileEnds(file, g, wr)) + Cardinality(CallEnds(sys, g, wr))
         /\ Ends(g, wr)' =
              Cardinality(FileEnds(file', g, wr)) + Cardinality(CallEnds(sys', g, wr))
  BY Zenon DEF Ends, FileEnds, CallEnds, IsEnd

OnlyEnd(f, fl, fl2, g, wr) ==
  \A h \in File : h # f => (IsEnd(fl[h], g, wr) <=> IsEnd(fl2[h], g, wr))

LEMMA FileEndsMove ==
  ASSUME Counting, NEW fl, NEW fl2, NEW f \in File, NEW g, NEW wr, OnlyEnd(f, fl, fl2, g, wr)
  PROVE  /\ Cardinality(FileEnds(fl, g, wr)) \in Nat /\ Cardinality(FileEnds(fl2, g, wr)) \in Nat
         /\ Cardinality(FileEnds(fl2, g, wr)) + One(IsEnd(fl[f], g, wr))
              = Cardinality(FileEnds(fl, g, wr)) + One(IsEnd(fl2[f], g, wr))
<1> DEFINE U == FileEnds(fl, g, wr)
           V == FileEnds(fl2, g, wr)
<1>1. U \in SUBSET File /\ V \in SUBSET File /\ IsFiniteSet(File)
  BY Zenon DEF FileEnds, Counting, FiniteTables
<1>2. \A y \in File : y # f => (y \in U <=> y \in V)
  BY Zenon DEF FileEnds, OnlyEnd
<1>3. (f \in U <=> IsEnd(fl[f], g, wr)) /\ (f \in V <=> IsEnd(fl2[f], g, wr))
  BY Zenon DEF FileEnds
<1> HIDE DEF U, V
<1>4. /\ Cardinality(U) \in Nat /\ Cardinality(V) \in Nat
      /\ Cardinality(V) + One(f \in U) = Cardinality(U) + One(f \in V)
  BY <1>1, <1>2, Recount
<1>5. One(f \in U) = One(IsEnd(fl[f], g, wr)) /\ One(f \in V) = One(IsEnd(fl2[f], g, wr))
  BY Zenon, <1>3 DEF One
<1> QED
  BY Zenon, <1>4, <1>5 DEF U, V

LEMMA CallEndsMove ==
  ASSUME Counting, NEW s, NEW s2, NEW p \in Proc, NEW g, NEW wr, Only(p, s, s2)
  PROVE  /\ Cardinality(CallEnds(s, g, wr)) \in Nat /\ Cardinality(CallEnds(s2, g, wr)) \in Nat
         /\ Cardinality(CallEnds(s2, g, wr)) + One(IsEnd(s[p].ff, g, wr))
              = Cardinality(CallEnds(s, g, wr)) + One(IsEnd(s2[p].ff, g, wr))
<1> DEFINE U == CallEnds(s, g, wr)
           V == CallEnds(s2, g, wr)
<1>1. U \in SUBSET Proc /\ V \in SUBSET Proc /\ IsFiniteSet(Proc)
  BY Zenon, FileTableAssumption DEF CallEnds
<1>2. \A y \in Proc : y # p => (y \in U <=> y \in V)
  BY Zenon DEF CallEnds, Only
<1>3. (p \in U <=> IsEnd(s[p].ff, g, wr)) /\ (p \in V <=> IsEnd(s2[p].ff, g, wr))
  BY Zenon DEF CallEnds
<1> HIDE DEF U, V
<1>4. /\ Cardinality(U) \in Nat /\ Cardinality(V) \in Nat
      /\ Cardinality(V) + One(p \in U) = Cardinality(U) + One(p \in V)
  BY <1>1, <1>2, Recount
<1>5. One(p \in U) = One(IsEnd(s[p].ff, g, wr)) /\ One(p \in V) = One(IsEnd(s2[p].ff, g, wr))
  BY Zenon, <1>3 DEF One
<1> QED
  BY Zenon, <1>4, <1>5 DEF U, V

(* Neither a file nor a call changes sides. *)
LEMMA EndsStay ==
  ASSUME IInv, \A f \in File : \A g, wr : IsEnd(file'[f], g, wr) <=> IsEnd(file[f], g, wr),
         \A p \in Proc : sys'[p].ff = sys[p].ff,
         \A g \in Page : /\ pipes'[g].used = pipes[g].used
                         /\ pipes'[g].readopen = pipes[g].readopen
                         /\ pipes'[g].writeopen = pipes[g].writeopen
  PROVE  \A g \in Page : EndsExact(g)'
<1>1. ASSUME NEW g, NEW wr PROVE Ends(g, wr)' = Ends(g, wr)
  <2>1. FileEnds(file', g, wr) = FileEnds(file, g, wr)
    BY Zenon DEF FileEnds
  <2>2. CallEnds(sys', g, wr) = CallEnds(sys, g, wr)
    BY Zenon DEF CallEnds
  <2> QED
    BY Zenon, <2>1, <2>2, EndsAre
<1> QED
  BY Zenon, <1>1 DEF IInv, Exact, EndsExact

(* A descriptor that changes. *)
Becomes(t, fd, x, t2) ==
  /\ t \in [Fd -> File \cup {None}] /\ fd \in Fd
  /\ t2 = [t EXCEPT ![fd] = x]
LEMMA OwnsSet ==
  ASSUME Counting, NEW t, NEW fd, NEW x, NEW t2, Becomes(t, fd, x, t2), NEW h
  PROVE  /\ Cardinality(Owns(t, h)) \in Nat /\ Cardinality(Owns(t2, h)) \in Nat
         /\ Cardinality(Owns(t2, h)) + One(t[fd] = h)
              = Cardinality(Owns(t, h)) + One(x = h)
<1> DEFINE U == Owns(t, h)
           V == Owns(t2, h)
<1>1. U \in SUBSET Fd /\ V \in SUBSET Fd /\ IsFiniteSet(Fd) /\ fd \in Fd
  BY Zenon DEF Owns, Counting, FiniteTables, Becomes
<1>2. \A y \in Fd : y # fd => (y \in U <=> y \in V)
  BY Zenon DEF Owns, Becomes
<1>3. (fd \in U <=> t[fd] = h) /\ (fd \in V <=> x = h)
  BY Zenon DEF Owns, Becomes
<1> HIDE DEF U, V
<1>4. /\ Cardinality(U) \in Nat /\ Cardinality(V) \in Nat
      /\ Cardinality(V) + One(fd \in U) = Cardinality(U) + One(fd \in V)
  BY <1>1, <1>2, Recount
<1>5. One(fd \in U) = One(t[fd] = h) /\ One(fd \in V) = One(x = h)
  BY Zenon, <1>3 DEF One
<1> QED
  BY Zenon, <1>4, <1>5 DEF U, V

----------------------------------------------------------------------------
(* Calls: in user mode, and while closing files. *)
LEMMA NoFile ==
  /\ FD_NONE \in FileRec /\ FD_NONE.type = "NONE" /\ FD_NONE.ref = 0 /\ FileOK(FD_NONE)
  /\ \A g, wr : ~IsEnd(FD_NONE, g, wr)
  BY DEF FD_NONE, FileRec, FileOK, IsEnd

(* Outside of sys_pipe a call names the files it is to close. *)
NoPipe(c) == c.k \notin {"pipealloc", "pipe_fds"}

LEMMA Unnamed ==
  ASSUME NEW c, NoPipe(c), c.todo = <<>>, NEW h
  PROVE  Named(c, h) = 0 /\ \A t : Mine(t, c, h) = Cardinality(Owns(t, h)) + 0
<1>1. Named(c, h) = 0
  BY DEF Named, One, NoPipe
<1> QED
  BY Zenon, <1>1 DEF Mine

LEMMA Back ==
  ASSUME NEW r \in Int, NEW e \in Int, NEW c,
         c = [User EXCEPT !.ret = r] \/ c = [User EXCEPT !.ret = r, !.fd1 = e]
  PROVE  /\ c \in CallRec /\ CallOK(c) /\ c.k = "user" /\ c.todo = <<>> /\ c.ff = FD_NONE
         /\ ~c.op /\ NoPipe(c)
<1>1. /\ c \in CallRec /\ c.k = "user" /\ c.todo = <<>> /\ c.ff = FD_NONE /\ ~c.op
  <2>1. FD_NONE \in FileRec
    BY Zenon, NoFile
  <2>2. /\ User \in CallRec /\ User.k = "user" /\ User.todo = <<>> /\ User.ff = FD_NONE
        /\ ~User.op
    <3> HIDE DEF FD_NONE
    <3> QED
      BY <2>1 DEF User, CallRec
  <2> HIDE DEF User
  <2> QED
    BY Zenon, <2>2 DEF CallRec
<1>2. FD_NONE.type = "NONE" /\ Len(<<>>) <= 2
  BY DEF FD_NONE
<1> QED
  BY Zenon, <1>1, <1>2 DEF CallOK, NoPipe

LEMMA Closing ==
  ASSUME NEW c, c = [User EXCEPT !.k = "close"]
  PROVE  /\ c \in CallRec /\ CallOK(c) /\ c.k = "close" /\ c.ff = FD_NONE /\ ~c.op
         /\ c.todo = <<>> /\ NoPipe(c)
<1>1. /\ c \in CallRec /\ c.k = "close" /\ c.todo = <<>> /\ c.ff = FD_NONE /\ ~c.op
  <2>1. FD_NONE \in FileRec
    BY Zenon, NoFile
  <2>2. /\ User \in CallRec /\ User.todo = <<>> /\ User.ff = FD_NONE /\ ~User.op
    BY <2>1 DEF User, CallRec
  <2> QED
    BY <2>2 DEF CallRec
<1>2. FD_NONE.type = "NONE" /\ Len(<<>>) <= 2
  BY DEF FD_NONE
<1> QED
  BY Zenon, <1>1, <1>2 DEF CallOK, NoPipe

LEMMA UserFacts ==
  ASSUME IInv, NEW p \in Proc, InUser(p)
  PROVE  /\ sys[p].todo = <<>> /\ sys[p].ff = FD_NONE /\ sys[p].k = "user" /\ NoPipe(sys[p])
  BY Zenon DEF IInv, Valid, CallOK, InUser, NoPipe

LEMMA SameMine ==
  ASSUME NEW c, NEW d, NoPipe(c), NoPipe(d), c.todo = d.todo, NEW t, NEW h
  PROVE  Mine(t, c, h) = Mine(t, d, h)
<1>1. Named(c, h) = Named(d, h)
  BY DEF Named, One, NoPipe
<1> QED
  BY Zenon, <1>1 DEF Mine

LEMMA Continues ==
  ASSUME NEW c \in CallRec, CallOK(c), c.k = "close", NEW x \in FileRec,
         x # FD_NONE => x.type \in {"INODE", "PIPE"}, x.type = "PIPE" => x.pipe \in Page,
         NEW d, d = Continue([c EXCEPT !.ff = x])
  PROVE  /\ d \in CallRec /\ CallOK(d) /\ d.todo = c.todo /\ d.ff = x /\ (d.op => c.op)
         /\ NoPipe(d)
<1> DEFINE b == [c EXCEPT !.ff = x]
<1>1. /\ b \in CallRec /\ b.todo = c.todo /\ b.ff = x /\ b.op = c.op /\ b.k = "close"
      /\ b.ret \in Int
  BY DEF CallRec
<1>2. CASE b.todo = <<>> /\ b.ff = FD_NONE
  <2>1. d = [User EXCEPT !.ret = b.ret]
    BY Zenon, <1>1, <1>2 DEF Continue
  <2>2. /\ d \in CallRec /\ CallOK(d) /\ d.k = "user" /\ d.todo = <<>> /\ d.ff = FD_NONE
        /\ ~d.op /\ NoPipe(d)
    BY Zenon, <1>1, <2>1, Back
  <2> QED
    BY Zenon, <1>1, <1>2, <2>2
<1>3. CASE ~(b.todo = <<>> /\ b.ff = FD_NONE)
  <2>1. d = b
    BY Zenon, <1>3 DEF Continue
  <2>2. CallOK(d)
    BY Zenon, <1>1, <2>1 DEF CallOK
  <2> QED
    BY Zenon, <1>1, <2>1, <2>2 DEF NoPipe
<1> QED
  BY Zenon, <1>2, <1>3

LEMMA ProcStep ==
  ASSUME IInv, NEW p \in Proc, NEW c \in CallRec, sys' = [sys EXCEPT ![p] = c]
  PROVE  sys'[p] = c /\ Only(p, sys, sys') /\ sys' \in [Proc -> CallRec]
  BY Zenon DEF IInv, Types, Only

(* A call that returns at once, and changes no count, type or flag. *)
LEMMA ReturnInv ==
  ASSUME Counting, IInv, NEW p \in Proc, InUser(p), NEW r \in Int, Return(p, r),
         UNCHANGED <<ofile, kpanic>>,
         file' \in [File -> FileRec], pipes' \in [Page -> PipeRec],
         \A h \in File : /\ file'[h].ref = file[h].ref /\ file'[h].type = file[h].type
                         /\ file'[h].pipe = file[h].pipe
                         /\ file'[h].writable = file[h].writable,
         \A g \in Page : /\ pipes'[g].used = pipes[g].used
                         /\ pipes'[g].readopen = pipes[g].readopen
                         /\ pipes'[g].writeopen = pipes[g].writeopen
  PROVE  IInv'
<1> DEFINE c == [User EXCEPT !.ret = r]
<1>1. /\ c \in CallRec /\ CallOK(c) /\ c.k = "user" /\ c.todo = <<>> /\ c.ff = FD_NONE
      /\ ~c.op /\ NoPipe(c)
  BY Zenon, Back
<1>2. sys' = [sys EXCEPT ![p] = c]
  BY Zenon DEF Return
<1> HIDE DEF c
<1>3. sys'[p] = c /\ Only(p, sys, sys') /\ sys' \in [Proc -> CallRec]
  BY Zenon, <1>1, <1>2, ProcStep
<1>4. Types' /\ Only(p, ofile, ofile')
  BY Zenon, <1>3 DEF IInv, Types, Only
<1>5. \A h \in File : FileOK(file'[h])
  BY Zenon DEF IInv, Valid, FileOK
<1>6. Uses(file', ofile'[p], sys'[p])
  <2>1. Uses(file, ofile[p], sys[p]) /\ ofile[p] \in [Fd -> File \cup {None}]
    BY Zenon DEF IInv, Valid, Types
  <2>2. \A fd \in Fd : ofile[p][fd] # None => file'[ofile[p][fd]].type # "NONE"
    BY ZenonT(40), <2>1 DEF Uses
  <2>3. c.k # "pipealloc" /\ c.k # "pipe_fds"
    BY Zenon, <1>1
  <2> QED
    BY Zenon, <1>1, <1>3, <2>2, <2>3 DEF Uses
<1>7. \A h \in File : file'[h].ref + Mine(ofile[p], sys[p], h)
                        = file[h].ref + Mine(ofile'[p], sys'[p], h)
  <2>1. NoPipe(sys[p]) /\ NoPipe(sys'[p]) /\ sys[p].todo = sys'[p].todo
    BY Zenon, <1>1, <1>3, UserFacts
  <2>2. \A h \in File : Mine(ofile[p], sys[p], h) = Mine(ofile[p], sys'[p], h)
    BY <2>1, SameMine
  <2> QED
    BY Zenon, <2>2
<1>8. \A q \in Proc : sys'[q].ff = sys[q].ff
  BY Zenon, <1>1, <1>3, UserFacts DEF Only
<1>9. \A g \in Page : EndsExact(g)'
  <2>1. \A f \in File : \A g, wr : IsEnd(file'[f], g, wr) <=> IsEnd(file[f], g, wr)
    BY Zenon DEF IsEnd
  <2> QED
    BY Zenon, <1>8, <2>1, EndsStay
<1> QED
  BY Zenon, <1>1, <1>3, <1>4, <1>5, <1>6, <1>7, <1>9, StepInv DEF IInv

(* The descriptor that a call names. *)
LEMMA Argfd ==
  ASSUME IInv, NEW p \in Proc, NEW fd, argfd(p, fd) # None
  PROVE  /\ fd \in Fd /\ argfd(p, fd) = ofile[p][fd] /\ ofile[p][fd] \in File
         /\ file[ofile[p][fd]] \in FileRec /\ file[ofile[p][fd]].type # "NONE"
         /\ FileOK(file[ofile[p][fd]]) /\ RefersTo(ofile[p], sys[p], ofile[p][fd])
<1>1. fd \in Fd /\ argfd(p, fd) = ofile[p][fd]
  BY Zenon DEF argfd
<1>2. ofile[p][fd] \in File \cup {None} /\ ofile[p][fd] # None
  BY ZenonT(40), <1>1 DEF IInv, Types
<1>3. file[ofile[p][fd]] \in FileRec /\ FileOK(file[ofile[p][fd]])
  BY Zenon, <1>2 DEF IInv, Types, Valid
<1>4. file[ofile[p][fd]].type # "NONE"
  BY Zenon, <1>1, <1>2 DEF IInv, Valid, Uses
<1>5. RefersTo(ofile[p], sys[p], ofile[p][fd])
  BY Zenon, <1>1 DEF RefersTo
<1> QED
  BY Zenon, <1>1, <1>2, <1>3, <1>4, <1>5

----------------------------------------------------------------------------
(* fileclose(f) by p, which gives up one reference to f and continues as c. *)
LEMMA FilecloseInv ==
  ASSUME Counting, IInv, NEW p \in Proc, NEW f \in File, NEW c \in CallRec, CallOK(c),
         c.k = "close", c.ff = FD_NONE, sys[p].ff = FD_NONE, fileclose(p, f, c),
         pipes' = pipes, Only(p, ofile, ofile'), ofile' \in [Proc -> [Fd -> File \cup {None}]],
         RefersTo(ofile[p], sys[p], f),
         \A h \in File : Mine(ofile'[p], c, h) + One(h = f) = Mine(ofile[p], sys[p], h),
         \A e \in Fd : ofile'[p][e] # None => ofile'[p][e] = ofile[p][e],
         c.op => /\ file[f].type = "NONE"
                 /\ \A i \in DOMAIN c.todo : file[c.todo[i]].type = "NONE"
  PROVE  IInv'
<1> DEFINE x == IF file[f].ref = 1 /\ file[f].type # "NONE" THEN file[f] ELSE FD_NONE
           d == Continue([c EXCEPT !.ff = x])
<1>1. /\ file \in [File -> FileRec] /\ file[f] \in FileRec /\ FileOK(file[f])
      /\ file[f].ref \in Nat /\ file[f].type \in {"NONE", "INODE", "PIPE"}
  <2>1. file \in [File -> FileRec] /\ FileOK(file[f])
    BY Zenon DEF IInv, Types, Valid
  <2> QED
    BY <2>1 DEF FileRec
<1>2. /\ file[f].ref >= 1
      /\ file[f].ref <= 1 => \A q \in Proc \ {p} : ~RefersTo(ofile[q], sys[q], f)
  BY Zenon, Held
<1>3. /\ x \in FileRec /\ (x # FD_NONE => x.type \in {"INODE", "PIPE"})
      /\ (x.type = "PIPE" => x.pipe \in Page)
  BY Zenon, <1>1, NoFile DEF FileOK
<1>4. sys' = [sys EXCEPT ![p] = d] /\ file' = drop(f) /\ kpanic' = kpanic
  BY <1>1, <1>2 DEF fileclose
<1>x. x = IF file[f].ref = 1 /\ file[f].type # "NONE" THEN file[f] ELSE FD_NONE
  OBVIOUS
<1> HIDE DEF x
<1>5. /\ d \in CallRec /\ CallOK(d) /\ d.todo = c.todo /\ d.ff = x /\ (d.op => c.op)
      /\ NoPipe(d)
  BY Zenon, <1>3, Continues
<1> HIDE DEF d
<1>6. sys'[p] = d /\ Only(p, sys, sys') /\ sys' \in [Proc -> CallRec]
  BY Zenon, <1>4, <1>5, ProcStep
<1>7. /\ file' \in [File -> FileRec]
      /\ \A h \in File : h # f => file'[h] = file[h]
      /\ file[f].ref > 1 => /\ file'[f].ref = file[f].ref - 1 /\ file'[f].type = file[f].type
                            /\ file'[f].pipe = file[f].pipe
                            /\ file'[f].writable = file[f].writable
      /\ ~(file[f].ref > 1) => file'[f] = FD_NONE
  <2> DEFINE y == IF file[f].ref > 1 THEN [file[f] EXCEPT !.ref = @ - 1] ELSE FD_NONE
  <2>1. /\ y \in FileRec
        /\ file[f].ref > 1 => /\ y.ref = file[f].ref - 1 /\ y.type = file[f].type
                              /\ y.pipe = file[f].pipe /\ y.writable = file[f].writable
        /\ ~(file[f].ref > 1) => y = FD_NONE
    <3>1. FD_NONE \in FileRec
      BY Zenon, NoFile
    <3> QED
      BY <1>1, <3>1 DEF FileRec
  <2>2. file' = [file EXCEPT ![f] = y]
    BY Zenon, <1>4 DEF drop
  <2> HIDE DEF y
  <2> QED
    BY Zenon, <1>1, <2>1, <2>2
<1>8. \A h \in File : FileOK(file'[h])
  <2>1. FileOK(file'[f])
    <3>1. CASE file[f].ref > 1
      BY <1>1, <1>7, <3>1 DEF FileOK
    <3>2. CASE ~(file[f].ref > 1)
      BY Zenon, <1>7, <3>2, NoFile
    <3> QED
      BY Zenon, <3>1, <3>2
  <2>2. \A h \in File : h # f => FileOK(file'[h])
    BY Zenon, <1>7 DEF IInv, Valid
  <2> QED
    BY Zenon, <2>1, <2>2
<1>9. \A h \in File : file'[h].type # file[h].type => h = f /\ file[f].ref <= 1
  <2>1. ~(file[f].ref > 1) => file[f].ref <= 1
    BY <1>1
  <2> QED
    BY Zenon, <1>7, <2>1
<1>10. ASSUME NEW h \in File PROVE Mine(ofile'[p], sys'[p], h) = Mine(ofile'[p], c, h)
  <2>1. NoPipe(c) /\ NoPipe(sys'[p]) /\ sys'[p].todo = c.todo
    BY Zenon, <1>5, <1>6 DEF NoPipe
  <2> QED
    BY <2>1, SameMine
<1>11. ASSUME NEW h \in File
       PROVE  file'[h].ref + Mine(ofile[p], sys[p], h)
                = file[h].ref + Mine(ofile'[p], sys'[p], h)
  <2>1. Mine(ofile'[p], c, h) \in Nat
    BY Zenon, MineCounts
  <2>2. Mine(ofile'[p], c, h) + One(h = f) = Mine(ofile[p], sys[p], h)
    BY Zenon
  <2>3. file'[h].ref + One(h = f) = file[h].ref /\ file'[h].ref \in Nat
    <3>1. file'[h].ref \in Nat
      BY <1>7 DEF FileRec
    <3>2. CASE h # f
      <4>1. file'[h].ref = file[h].ref /\ One(h = f) = 0
        BY Zenon, <1>7, <3>2 DEF One
      <4> QED
        BY <3>1, <4>1
    <3>3. CASE h = f
      <4>1. One(h = f) = 1 /\ FD_NONE.ref = 0
        BY Zenon, <3>3, NoFile DEF One
      <4> QED
        BY SMTT(30), <1>1, <1>2, <1>7, <3>3, <4>1
    <3> QED
      BY Zenon, <3>1, <3>2, <3>3
  <2>4. One(h = f) \in Nat
    BY DEF One
  <2> QED
    BY <1>10, <2>1, <2>2, <2>3, <2>4
<1>12. Uses(file', ofile'[p], sys'[p])
  <2>0. Uses(file, ofile[p], sys[p]) /\ ofile'[p] \in [Fd -> File \cup {None}]
    BY Zenon DEF IInv, Valid
  <2>1. ASSUME NEW e \in Fd, ofile'[p][e] # None PROVE file'[ofile'[p][e]].type # "NONE"
    <3>1. /\ ofile'[p][e] \in File /\ ofile'[p][e] = ofile[p][e]
          /\ file[ofile'[p][e]].type # "NONE"
      BY Zenon, <2>0, <2>1 DEF Uses
    <3>2. CASE file[f].ref <= 1 /\ ofile'[p][e] = f
      <4>1. RefersTo(ofile'[p], c, f)
        BY Zenon, <3>2 DEF RefersTo
      <4>2. Mine(ofile'[p], c, f) \in Nat /\ Mine(ofile'[p], c, f) # 0
        BY ZenonT(40), <4>1, MineCounts
      <4>3. Mine(ofile'[p], c, f) + 1 = Mine(ofile[p], sys[p], f)
        BY Zenon DEF One
      <4>4. Mine(ofile[p], sys[p], f) <= file[f].ref
        <5>1. DOMAIN ofile = Proc /\ DOMAIN sys = Proc /\ file[f].ref = Refs(ofile, sys, f)
          BY Zenon, HoldersAre DEF IInv, Types, Exact
        <5> QED
          BY <5>1, AtMostAll
      <4> QED
        BY <1>1, <3>2, <4>2, <4>3, <4>4
    <3>3. CASE ~(file[f].ref <= 1 /\ ofile'[p][e] = f)
      BY Zenon, <1>9, <3>1, <3>3
    <3> QED
      BY Zenon, <3>2, <3>3
  <2>2. d.op => x = FD_NONE /\ \A i \in DOMAIN c.todo : file'[c.todo[i]].type = "NONE"
    <3>1. \A i \in DOMAIN c.todo : c.todo[i] \in File
      BY DEF CallRec
    <3>2. file[f].type = "NONE" => file'[f].type = "NONE"
      BY Zenon, <1>7, NoFile
    <3>3. \A h \in File : file[h].type = "NONE" => file'[h].type = "NONE"
      BY Zenon, <1>7, <3>2
    <3> QED
      BY Zenon, <1>5, <1>x, <3>1, <3>3
  <2>3. d.k # "pipealloc" /\ d.k # "pipe_fds"
    BY Zenon, <1>5 DEF NoPipe
  <2> QED
    BY Zenon, <1>5, <1>6, <2>1, <2>2, <2>3 DEF Uses
<1>13. \A g \in Page : EndsExact(g)'
  <2>1. ASSUME NEW g, NEW wr PROVE Ends(g, wr)' = Ends(g, wr)
    <3>1. OnlyEnd(f, file, file', g, wr)
      BY Zenon, <1>7 DEF OnlyEnd
    <3>2. /\ Cardinality(FileEnds(file, g, wr)) \in Nat
          /\ Cardinality(FileEnds(file', g, wr)) \in Nat
          /\ Cardinality(FileEnds(file', g, wr)) + One(IsEnd(file[f], g, wr))
               = Cardinality(FileEnds(file, g, wr)) + One(IsEnd(file'[f], g, wr))
      BY <3>1, FileEndsMove
    <3>3. /\ Cardinality(CallEnds(sys, g, wr)) \in Nat
          /\ Cardinality(CallEnds(sys', g, wr)) \in Nat
          /\ Cardinality(CallEnds(sys', g, wr)) + One(IsEnd(sys[p].ff, g, wr))
               = Cardinality(CallEnds(sys, g, wr)) + One(IsEnd(sys'[p].ff, g, wr))
      BY <1>6, CallEndsMove
    <3>4. One(IsEnd(sys[p].ff, g, wr)) = 0
      BY Zenon, NoFile DEF One
    <3>5. One(IsEnd(file'[f], g, wr)) + One(IsEnd(sys'[p].ff, g, wr)) = One(IsEnd(file[f], g, wr))
      <4>1. CASE file[f].ref > 1
        <5>1. x = FD_NONE
          BY <1>x, <1>1, <4>1
        <5>2. IsEnd(file'[f], g, wr) <=> IsEnd(file[f], g, wr)
          BY Zenon, <1>7, <4>1 DEF IsEnd
        <5>3. ~IsEnd(sys'[p].ff, g, wr)
          BY ZenonT(40), <1>5, <1>6, <5>1, NoFile
        <5> QED
          BY <5>2, <5>3 DEF One
      <4>2. CASE ~(file[f].ref > 1)
        <5>1. file[f].ref = 1
          BY <1>1, <1>2, <4>2
        <5>2. ~IsEnd(file'[f], g, wr)
          BY Zenon, <1>7, <4>2, NoFile
        <5>3. IsEnd(x, g, wr) <=> IsEnd(file[f], g, wr)
          BY Zenon, <1>x, <5>1, NoFile DEF IsEnd
        <5> QED
          BY <1>5, <1>6, <5>2, <5>3 DEF One
      <4> QED
        BY Zenon, <4>1, <4>2
    <3>6. /\ One(IsEnd(file'[f], g, wr)) \in Nat /\ One(IsEnd(sys'[p].ff, g, wr)) \in Nat
          /\ One(IsEnd(file[f], g, wr)) \in Nat /\ One(IsEnd(sys[p].ff, g, wr)) \in Nat
      BY DEF One
    <3>7. Cardinality(FileEnds(file', g, wr)) + Cardinality(CallEnds(sys', g, wr))
            = Cardinality(FileEnds(file, g, wr)) + Cardinality(CallEnds(sys, g, wr))
      <4> DEFINE a == Cardinality(FileEnds(file, g, wr))
                 a2 == Cardinality(FileEnds(file', g, wr))
                 b == Cardinality(CallEnds(sys, g, wr))
                 b2 == Cardinality(CallEnds(sys', g, wr))
                 x1 == One(IsEnd(file[f], g, wr))
                 x2 == One(IsEnd(file'[f], g, wr))
                 y1 == One(IsEnd(sys[p].ff, g, wr))
                 y2 == One(IsEnd(sys'[p].ff, g, wr))
      <4>1. /\ a \in Nat /\ a2 \in Nat /\ b \in Nat /\ b2 \in Nat
            /\ x1 \in Nat /\ x2 \in Nat /\ y1 \in Nat /\ y2 \in Nat
            /\ a2 + x1 = a + x2 /\ b2 + y1 = b + y2 /\ y1 = 0 /\ x2 + y2 = x1
        BY Zenon, <3>2, <3>3, <3>4, <3>5, <3>6
      <4> HIDE DEF a, a2, b, b2, x1, x2, y1, y2
      <4>2. a2 + b2 = a + b
        BY <4>1
      <4> QED
        BY Zenon, <4>2 DEF a, a2, b, b2
    <3> QED
      BY <3>7, EndsAre
  <2> QED
    BY Zenon, <2>1 DEF IInv, Exact, EndsExact
<1>14. Types'
  BY Zenon, <1>6, <1>7 DEF IInv, Types
<1>15. CallOK(sys'[p]) /\ kpanic' \notin {"fileclose", "filedup"}
  BY Zenon, <1>4, <1>5, <1>6 DEF IInv
<1>16. \A h \in File : file'[h].type # file[h].type =>
         \A q \in Proc \ {p} : ~RefersTo(ofile[q], sys[q], h)
  BY Zenon, <1>2, <1>9
<1> QED
  BY Zenon, <1>6, <1>8, <1>11, <1>12, <1>13, <1>14, <1>15, <1>16, StepInv

LEMMA SysCloseInv ==
  ASSUME Counting, IInv, NEW p \in Proc, NEW fd, sys_close(p, fd)
  PROVE  IInv'
<1>1. InUser(p) /\ pipes' = pipes
  BY Zenon DEF sys_close
<1>2. CASE argfd(p, fd) = None
  <2>1. Return(p, -1) /\ UNCHANGED <<file, ofile, kpanic>>
    BY Zenon, <1>2 DEF sys_close
  <2>2. file' \in [File -> FileRec] /\ pipes' \in [Page -> PipeRec] /\ file' = file
    BY Zenon, <1>1, <2>1 DEF IInv, Types
  <2> QED
    BY <1>1, <2>1, <2>2, ReturnInv
<1>3. CASE argfd(p, fd) # None
  <2> DEFINE f == ofile[p][fd]
             c == [User EXCEPT !.k = "close"]
  <2>1. /\ fd \in Fd /\ f \in File /\ RefersTo(ofile[p], sys[p], f)
        /\ ofile' = [ofile EXCEPT ![p][fd] = None] /\ fileclose(p, f, c)
    BY Zenon, <1>3, Argfd DEF sys_close
  <2>2. /\ c \in CallRec /\ CallOK(c) /\ c.k = "close" /\ c.ff = FD_NONE /\ ~c.op
        /\ c.todo = <<>> /\ NoPipe(c)
    BY Zenon, Closing
  <2>3. /\ ofile \in [Proc -> [Fd -> File \cup {None}]] /\ f # None
        /\ ofile[p] \in [Fd -> File \cup {None}]
    BY Zenon, <1>3, <2>1, Argfd DEF IInv, Types
  <2> HIDE DEF f, c
  <2>4. /\ ofile'[p] = [ofile[p] EXCEPT ![fd] = None] /\ Only(p, ofile, ofile')
        /\ ofile' \in [Proc -> [Fd -> File \cup {None}]]
    BY Zenon, <2>1, <2>3 DEF Only
  <2>5. ASSUME NEW h \in File
        PROVE  Mine(ofile'[p], c, h) + One(h = f) = Mine(ofile[p], sys[p], h)
    <3>1. /\ Cardinality(Owns(ofile[p], h)) \in Nat /\ Cardinality(Owns(ofile'[p], h)) \in Nat
          /\ Cardinality(Owns(ofile'[p], h)) + One(ofile[p][fd] = h)
               = Cardinality(Owns(ofile[p], h)) + One(None = h)
      <4>1. Becomes(ofile[p], fd, None, ofile'[p])
        BY Zenon, <2>1, <2>3, <2>4 DEF Becomes
      <4> QED
        BY <4>1, OwnsSet
    <3>2. /\ Mine(ofile'[p], c, h) = Cardinality(Owns(ofile'[p], h)) + 0
          /\ Mine(ofile[p], sys[p], h) = Cardinality(Owns(ofile[p], h)) + 0
      BY Zenon, <1>1, <2>2, UserFacts, Unnamed
    <3>3. One(None = h) = 0 /\ One(ofile[p][fd] = h) = One(h = f) /\ One(h = f) \in Nat
      <4>1. None # h
        BY FileTableAssumption DEF File
      <4> QED
        BY <4>1 DEF One, f
    <3> QED
      BY <3>1, <3>2, <3>3
  <2>6. \A e \in Fd : ofile'[p][e] # None => ofile'[p][e] = ofile[p][e]
    BY Zenon, <2>1, <2>3, <2>4
  <2>7. sys[p].ff = FD_NONE
    BY Zenon, <1>1, UserFacts
  <2>8. c.op => /\ file[f].type = "NONE"
                /\ \A i \in DOMAIN c.todo : file[c.todo[i]].type = "NONE"
    BY Zenon, <2>2
  <2>9. /\ f \in File /\ RefersTo(ofile[p], sys[p], f) /\ fileclose(p, f, c)
        /\ Only(p, ofile, ofile') /\ ofile' \in [Proc -> [Fd -> File \cup {None}]]
    BY Zenon, <2>1, <2>4
  <2> QED
    BY Zenon, <1>1, <2>2, <2>5, <2>6, <2>7, <2>8, <2>9, FilecloseInv
<1> QED
  BY Zenon, <1>2, <1>3

LEMMA ShortSeq ==
  ASSUME NEW s \in Seq(File), s # <<>>, Len(s) <= 2
  PROVE  /\ Head(s) = s[1] /\ s[1] \in File /\ 1 \in DOMAIN s
         /\ Tail(s) \in Seq(File) /\ Len(Tail(s)) <= 1 /\ DOMAIN Tail(s) \subseteq {1}
         /\ \A i \in DOMAIN Tail(s) : 2 \in DOMAIN s /\ Tail(s)[i] = s[2]
         /\ 2 \in DOMAIN s => 1 \in DOMAIN Tail(s)
<1>0. Len(s) \in Nat /\ DOMAIN s = 1..Len(s) /\ Len(s) # 0
  OBVIOUS
<1>1. Len(s) \in 1..2 /\ DOMAIN s = 1..Len(s)
  BY <1>0
<1>2. Len(Tail(s)) = Len(s) - 1 /\ Tail(s) \in Seq(File)
  BY <1>1
<1>3. DOMAIN Tail(s) = 1..(Len(s) - 1)
  BY <1>1, <1>2
<1>4. \A i \in DOMAIN Tail(s) : i = 1 /\ 2 \in DOMAIN s /\ Tail(s)[i] = s[2]
  BY <1>1, <1>3
<1> QED
  BY <1>1, <1>2, <1>3, <1>4

(* The next file of a call that closes several. *)
LEMMA FilecloseNextInv ==
  ASSUME Counting, IInv, NEW p \in Proc, fileclose_next(p)
  PROVE  IInv'
<1> DEFINE f == Head(sys[p].todo)
           c == [sys[p] EXCEPT !.todo = Tail(@)]
<1>1. /\ sys[p].todo # <<>> /\ sys[p].ff = FD_NONE /\ fileclose(p, f, c)
      /\ ofile' = ofile /\ pipes' = pipes
  BY Zenon DEF fileclose_next
<1>2. sys[p] \in CallRec /\ CallOK(sys[p]) /\ Uses(file, ofile[p], sys[p])
  BY Zenon DEF IInv, Types, Valid
<1>3. sys[p].k = "close"
  BY Zenon, <1>1, <1>2 DEF CallOK
<1>s. sys[p].todo \in Seq(File) /\ Len(sys[p].todo) <= 2
  BY Zenon, <1>2 DEF CallRec, CallOK
<1>4. f = sys[p].todo[1] /\ f \in File /\ 1 \in DOMAIN sys[p].todo
  BY Zenon, <1>1, <1>s, ShortSeq
<1>5. /\ c \in CallRec /\ c.todo = Tail(sys[p].todo) /\ c.ff = FD_NONE /\ c.k = "close"
      /\ c.op = sys[p].op
  <2>1. Tail(sys[p].todo) \in Seq(File)
    BY Zenon, <1>1, <1>s, ShortSeq
  <2> QED
    BY Zenon, <1>1, <1>2, <1>3, <2>1 DEF CallRec
<1> HIDE DEF f, c
<1>6. /\ Len(c.todo) <= 1 /\ DOMAIN c.todo \subseteq {1}
      /\ \A i \in DOMAIN c.todo : 2 \in DOMAIN sys[p].todo /\ c.todo[i] = sys[p].todo[2]
      /\ 2 \in DOMAIN sys[p].todo => 1 \in DOMAIN c.todo
  BY Zenon, <1>1, <1>s, <1>5, ShortSeq
<1>7. CallOK(c) /\ NoPipe(c) /\ NoPipe(sys[p])
  <2>1. c.ff.type = "NONE" /\ Len(c.todo) <= 2
    BY <1>5, <1>6, NoFile
  <2> QED
    BY Zenon, <1>3, <1>5, <2>1 DEF CallOK, NoPipe
<1>8. RefersTo(ofile[p], sys[p], f)
  BY Zenon, <1>4 DEF RefersTo
<1>9. ASSUME NEW h \in File
      PROVE  Mine(ofile'[p], c, h) + One(h = f) = Mine(ofile[p], sys[p], h)
  <2>1. /\ Cardinality(Owns(ofile[p], h)) \in Nat /\ Named(c, h) \in Nat
        /\ Named(sys[p], h) \in Nat
    BY Zenon, <1>2, <1>5, <1>7, MineCounts
  <2>2. Named(c, h) + One(h = f) = Named(sys[p], h)
    <3>1. (1 \in DOMAIN c.todo /\ c.todo[1] = h) <=> (2 \in DOMAIN sys[p].todo /\ sys[p].todo[2] = h)
      BY Zenon, <1>6
    <3>2. (1 \in DOMAIN sys[p].todo /\ sys[p].todo[1] = h) <=> h = f
      BY Zenon, <1>4
    <3>3. 2 \notin DOMAIN c.todo
      BY <1>6
    <3> QED
      BY <1>7, <3>1, <3>2, <3>3 DEF Named, One, NoPipe
  <2>3. One(h = f) \in Nat
    BY DEF One
  <2> QED
    BY <1>1, <2>1, <2>2, <2>3 DEF Mine
<1>10. c.op => /\ file[f].type = "NONE"
               /\ \A i \in DOMAIN c.todo : file[c.todo[i]].type = "NONE"
  BY Zenon, <1>2, <1>4, <1>5, <1>6 DEF Uses
<1>11. /\ Only(p, ofile, ofile') /\ ofile' \in [Proc -> [Fd -> File \cup {None}]]
       /\ \A e \in Fd : ofile'[p][e] # None => ofile'[p][e] = ofile[p][e]
  BY Zenon, <1>1 DEF IInv, Types, Only
<1> QED
  BY Zenon, <1>1, <1>4, <1>5, <1>7, <1>8, <1>9, <1>10, <1>11, FilecloseInv

----------------------------------------------------------------------------
(* The end of fileclose, after ftable.lock. *)
LEMMA CopyDone ==
  ASSUME Counting, NEW p \in Proc, Only(p, sys, sys'), sys'[p].ff = FD_NONE, file' = file,
         NEW g, NEW wr
  PROVE  /\ Ends(g, wr) \in Nat /\ Ends(g, wr)' \in Nat
         /\ Ends(g, wr)' + One(IsEnd(sys[p].ff, g, wr)) = Ends(g, wr)
<1> DEFINE a == Cardinality(FileEnds(file, g, wr))
           b == Cardinality(CallEnds(sys, g, wr))
           b2 == Cardinality(CallEnds(sys', g, wr))
           y == One(IsEnd(sys[p].ff, g, wr))
           y2 == One(IsEnd(sys'[p].ff, g, wr))
<1>1. b \in Nat /\ b2 \in Nat /\ b2 + y = b + y2
  BY CallEndsMove
<1>2. a \in Nat
  <2>1. FileEnds(file, g, wr) \in SUBSET File /\ IsFiniteSet(File)
    BY Zenon DEF FileEnds, Counting, FiniteTables
  <2> QED
    BY Zenon, <2>1 DEF Counting, CountSubset, CountType
<1>3. y2 = 0
  BY Zenon, NoFile DEF One
<1>4. y \in Nat
  BY DEF One
<1>5. Ends(g, wr) = a + b /\ Ends(g, wr)' = a + b2
  BY EndsAre
<1> HIDE DEF a, b, b2, y, y2
<1>6. a + b \in Nat /\ a + b2 \in Nat /\ (a + b2) + y = a + b
  BY <1>1, <1>2, <1>3, <1>4
<1> QED
  BY Zenon, <1>5, <1>6 DEF y

LEMMA CopyDoneInv ==
  ASSUME Counting, IInv, NEW p \in Proc, sys[p].ff # FD_NONE,
         sys' = [sys EXCEPT ![p] = Continue([sys[p] EXCEPT !.ff = FD_NONE])],
         file' = file, ofile' = ofile, kpanic' = kpanic, pipes' \in [Page -> PipeRec],
         Only(p, sys, sys') /\ sys'[p].ff = FD_NONE => \A g \in Page : EndsExact(g)'
  PROVE  IInv'
<1> DEFINE d == Continue([sys[p] EXCEPT !.ff = FD_NONE])
<1>1. sys[p] \in CallRec /\ CallOK(sys[p]) /\ Uses(file, ofile[p], sys[p])
  BY Zenon DEF IInv, Types, Valid
<1>2. sys[p].k = "close"
  BY Zenon, <1>1 DEF CallOK
<1>3. FD_NONE \in FileRec /\ FD_NONE.type # "PIPE"
  BY NoFile
<1>5. sys' = [sys EXCEPT ![p] = d] /\ d = Continue([sys[p] EXCEPT !.ff = FD_NONE])
  BY Zenon
<1> HIDE DEF d
<1>4. /\ d \in CallRec /\ CallOK(d) /\ d.todo = sys[p].todo /\ d.ff = FD_NONE
      /\ (d.op => sys[p].op) /\ NoPipe(d)
  BY <1>1, <1>2, <1>3, <1>5, Continues
<1>6. sys'[p] = d /\ Only(p, sys, sys') /\ sys' \in [Proc -> CallRec]
  BY Zenon, <1>4, <1>5, ProcStep
<1>7. Types' /\ Only(p, ofile, ofile') /\ (\A h \in File : FileOK(file'[h]))
  BY Zenon, <1>6 DEF IInv, Types, Valid, Only
<1>8. Uses(file', ofile'[p], sys'[p])
  <2>1. d.k # "pipealloc" /\ d.k # "pipe_fds"
    BY Zenon, <1>4 DEF NoPipe
  <2> QED
    BY Zenon, <1>1, <1>4, <1>6, <2>1 DEF Uses
<1>9. \A h \in File : file'[h].ref + Mine(ofile[p], sys[p], h)
                        = file[h].ref + Mine(ofile'[p], sys'[p], h)
  <2>1. NoPipe(sys[p]) /\ NoPipe(sys'[p]) /\ sys[p].todo = sys'[p].todo
    BY Zenon, <1>2, <1>4, <1>6 DEF NoPipe
  <2>2. \A h \in File : Mine(ofile[p], sys[p], h) = Mine(ofile[p], sys'[p], h)
    BY <2>1, SameMine
  <2> QED
    BY Zenon, <2>2
<1>10. \A g \in Page : EndsExact(g)'
  BY Zenon, <1>4, <1>6
<1>11. kpanic' \notin {"fileclose", "filedup"} /\ CallOK(sys'[p])
  BY Zenon, <1>4, <1>6 DEF IInv
<1>12. \A h \in File : file'[h].type # file[h].type =>
         \A q \in Proc \ {p} : ~RefersTo(ofile[q], sys[q], h)
  BY Zenon
<1> QED
  BY Zenon, <1>6, <1>7, <1>8, <1>9, <1>10, <1>11, <1>12, StepInv

LEMMA IputInv ==
  ASSUME Counting, IInv, NEW p \in Proc, fileclose_iput(p)
  PROVE  IInv'
<1>1. /\ sys[p].ff.type = "INODE" /\ file' = file /\ ofile' = ofile /\ pipes' = pipes
      /\ kpanic' = kpanic
      /\ sys' = [sys EXCEPT ![p] = Continue([sys[p] EXCEPT !.ff = FD_NONE])]
  BY Zenon DEF fileclose_iput
<1>2. sys[p].ff # FD_NONE /\ pipes' \in [Page -> PipeRec]
  BY <1>1, NoFile DEF IInv, Types
<1>3. ASSUME Only(p, sys, sys'), sys'[p].ff = FD_NONE PROVE \A g \in Page : EndsExact(g)'
  <2>1. ASSUME NEW g, NEW wr PROVE Ends(g, wr)' = Ends(g, wr)
    <3>1. /\ Ends(g, wr) \in Nat /\ Ends(g, wr)' \in Nat
          /\ Ends(g, wr)' + One(IsEnd(sys[p].ff, g, wr)) = Ends(g, wr)
      BY Zenon, <1>1, <1>3, CopyDone
    <3>2. One(IsEnd(sys[p].ff, g, wr)) = 0
      BY <1>1 DEF One, IsEnd
    <3> QED
      BY <3>1, <3>2
  <2> QED
    BY Zenon, <1>1, <2>1 DEF IInv, Exact, EndsExact
<1> QED
  BY Zenon, <1>1, <1>2, <1>3, CopyDoneInv

LEMMA PipecloseInv ==
  ASSUME Counting, IInv, NEW p \in Proc, pipeclose(p)
  PROVE  IInv'
<1> DEFINE e == sys[p].ff
<1>k. PICK k : k = e.pipe
  BY Zenon
<1> DEFINE x == IF e.writable THEN Freed([pipes[k] EXCEPT !.writeopen = FALSE])
                     ELSE Freed([pipes[k] EXCEPT !.readopen = FALSE])
<1>1. /\ e.type = "PIPE" /\ file' = file /\ ofile' = ofile /\ kpanic' = kpanic
      /\ pipes' = [pipes EXCEPT ![k] = x]
      /\ sys' = [sys EXCEPT ![p] = Continue([sys[p] EXCEPT !.ff = FD_NONE])]
  BY Zenon, <1>k DEF pipeclose
<1>2. /\ e # FD_NONE /\ k \in Page /\ pipes \in [Page -> PipeRec] /\ pipes[k] \in PipeRec
      /\ e.writable \in BOOLEAN
  <2>1. /\ pipes \in [Page -> PipeRec] /\ sys[p] \in CallRec /\ CallOK(sys[p])
    BY Zenon DEF IInv, Types, Valid
  <2>2. e.writable \in BOOLEAN
    BY <2>1 DEF CallRec, FileRec
  <2> QED
    BY Zenon, <1>k, <1>1, <2>1, <2>2, NoFile DEF CallOK
<1>3. /\ x \in PipeRec
      /\ x.readopen = (pipes[k].readopen /\ e.writable)
      /\ x.writeopen = (pipes[k].writeopen /\ ~e.writable)
      /\ pipes[k].used => (x.used <=> x.readopen \/ x.writeopen)
  <2> HIDE DEF e
  <2> QED
    BY Zenon, <1>2 DEF PipeRec, Freed
<1> HIDE DEF x
<1>4. pipes' \in [Page -> PipeRec] /\ pipes'[k] = x /\ \A g \in Page : g # k => pipes'[g] = pipes[g]
  BY Zenon, <1>1, <1>2, <1>3
<1> HIDE DEF e
<1>5. ASSUME Only(p, sys, sys'), sys'[p].ff = FD_NONE PROVE \A g \in Page : EndsExact(g)'
  <2>1. ASSUME NEW g, NEW wr
        PROVE  /\ Ends(g, wr) \in Nat /\ Ends(g, wr)' \in Nat
               /\ Ends(g, wr)' + One(IsEnd(e, g, wr)) = Ends(g, wr)
    BY Zenon, <1>1, <1>5, CopyDone DEF e
  <2>2. ASSUME NEW g \in Page, g # k PROVE EndsExact(g)'
    <3>1. ASSUME NEW wr PROVE Ends(g, wr)' = Ends(g, wr)
      <4>1. One(IsEnd(e, g, wr)) = 0
        BY Zenon, <1>k, <2>2 DEF One, IsEnd
      <4> QED
        BY <2>1, <4>1
    <3> QED
      BY Zenon, <1>4, <2>2, <3>1 DEF IInv, Exact, EndsExact
  <2>3. EndsExact(k)'
    <3>1. EndsExact(k)
      BY Zenon, <1>2 DEF IInv, Exact
    <3>2. IsEnd(e, k, TRUE) <=> e.writable
      BY Zenon, <1>k, <1>1, <1>2 DEF IsEnd
    <3>3. IsEnd(e, k, FALSE) <=> ~e.writable
      BY Zenon, <1>k, <1>1, <1>2 DEF IsEnd
    <3>4. /\ Ends(k, TRUE) \in Nat /\ Ends(k, TRUE)' \in Nat
          /\ Ends(k, TRUE)' + One(e.writable) = Ends(k, TRUE)
      <4>1. One(IsEnd(e, k, TRUE)) = One(e.writable)
        BY Zenon, <3>2 DEF One
      <4> QED
        BY Zenon, <2>1, <4>1
    <3>5. /\ Ends(k, FALSE) \in Nat /\ Ends(k, FALSE)' \in Nat
          /\ Ends(k, FALSE)' + One(~e.writable) = Ends(k, FALSE)
      <4>1. One(IsEnd(e, k, FALSE)) = One(~e.writable)
        BY Zenon, <3>3 DEF One
      <4> QED
        BY Zenon, <2>1, <4>1
    <3>6. CASE e.writable
      <4>0. One(e.writable) = 1 /\ One(~e.writable) = 0
        BY Zenon, <3>6 DEF One
      <4> DEFINE a == Ends(k, TRUE)   a2 == Ends(k, TRUE)'
                 b == Ends(k, FALSE)   b2 == Ends(k, FALSE)'
      <4>3. /\ a = (IF pipes[k].writeopen THEN 1 ELSE 0)
            /\ a2 \in Nat /\ a2 + 1 = a /\ b2 \in Nat /\ b2 + 0 = b
        BY Zenon, <3>1, <3>4, <3>5, <4>0 DEF EndsExact
      <4> HIDE DEF a, a2, b, b2
      <4>1. a = 1 /\ a2 = 0 /\ pipes[k].writeopen /\ b2 = b
        BY <4>3
      <4> QED
        BY Zenon, <1>3, <1>4, <3>1, <3>6, <4>1 DEF EndsExact, a, a2, b, b2
    <3>7. CASE ~e.writable
      <4>0. One(e.writable) = 0 /\ One(~e.writable) = 1
        BY Zenon, <3>7 DEF One
      <4> DEFINE a == Ends(k, FALSE)   a2 == Ends(k, FALSE)'
                 b == Ends(k, TRUE)   b2 == Ends(k, TRUE)'
      <4>3. /\ a = (IF pipes[k].readopen THEN 1 ELSE 0)
            /\ a2 \in Nat /\ a2 + 1 = a /\ b2 \in Nat /\ b2 + 0 = b
        BY Zenon, <3>1, <3>4, <3>5, <4>0 DEF EndsExact
      <4> HIDE DEF a, a2, b, b2
      <4>1. a = 1 /\ a2 = 0 /\ pipes[k].readopen /\ b2 = b
        BY <4>3
      <4> QED
        BY Zenon, <1>3, <1>4, <3>1, <3>7, <4>1 DEF EndsExact, a, a2, b, b2
    <3> QED
      BY Zenon, <3>6, <3>7
  <2> QED
    BY Zenon, <2>2, <2>3
<1> QED
  BY Zenon, <1>1, <1>2, <1>4, <1>5, CopyDoneInv DEF e

----------------------------------------------------------------------------
(* A step of p to the call c that opens and closes no pipe. *)
LEMMA CallInv ==
  ASSUME Counting, IInv, NEW p \in Proc, NEW c \in CallRec, CallOK(c), c.ff = FD_NONE,
         sys[p].ff = FD_NONE, sys' = [sys EXCEPT ![p] = c],
         Only(p, ofile, ofile'), ofile' \in [Proc -> [Fd -> File \cup {None}]],
         pipes' = pipes, kpanic' = kpanic, file' \in [File -> FileRec],
         \A h \in File : FileOK(file'[h]), Uses(file', ofile'[p], c),
         \A h \in File : file'[h].type # file[h].type => file[h].ref = 0,
         \A h \in File : \A g, wr : IsEnd(file'[h], g, wr) <=> IsEnd(file[h], g, wr),
         \A h \in File : file'[h].ref + Mine(ofile[p], sys[p], h)
                           = file[h].ref + Mine(ofile'[p], c, h)
  PROVE  IInv'
<1>1. sys'[p] = c /\ Only(p, sys, sys') /\ sys' \in [Proc -> CallRec]
  BY Zenon, ProcStep
<1>2. Types'
  BY Zenon, <1>1 DEF IInv, Types
<1>3. \A q \in Proc : sys'[q].ff = sys[q].ff
  BY Zenon, <1>1 DEF Only
<1>4. \A g \in Page : EndsExact(g)'
  BY Zenon, <1>3, EndsStay
<1>5. \A h \in File : file'[h].type # file[h].type =>
        \A q \in Proc \ {p} : ~RefersTo(ofile[q], sys[q], h)
  BY Zenon, NotHeld
<1>6. kpanic' \notin {"fileclose", "filedup"} /\ CallOK(sys'[p]) /\ Uses(file', ofile'[p], sys'[p])
  BY Zenon, <1>1 DEF IInv
<1>7. \A h \in File : file'[h].ref + Mine(ofile[p], sys[p], h)
                        = file[h].ref + Mine(ofile'[p], sys'[p], h)
  BY Zenon, <1>1
<1> QED
  BY Zenon, <1>1, <1>2, <1>4, <1>5, <1>6, <1>7, StepInv

LEMMA Alloc ==
  ASSUME Counting, IInv, Unused # {}
  PROVE  /\ filealloc \in File /\ file[filealloc].ref = 0 /\ file[filealloc].type = "NONE"
         /\ file[filealloc] \in FileRec
<1>1. Unused \in SUBSET Nat
  BY DEF Unused, File
<1>2. Min(Unused) \in Unused
  BY Zenon, <1>1 DEF Counting, LeastExists
<1>3. filealloc \in File /\ file[filealloc].ref = 0
  BY Zenon, <1>2 DEF filealloc, Unused
<1> QED
  BY Zenon, <1>3 DEF IInv, Valid, FileOK, Types

LEMMA Fdalloc ==
  ASSUME Counting, NEW p, fdalloc(p) # -1
  PROVE  fdalloc(p) \in Fd /\ ofile[p][fdalloc(p)] = None
<1> DEFINE free == {fd \in Fd : ofile[p][fd] = None}
<1>1. free # {} /\ fdalloc(p) = Min(free)
  BY Zenon DEF fdalloc
<1>2. free \in SUBSET Nat
  BY DEF Fd
<1>3. Min(free) \in free
  <2> HIDE DEF free
  <2> QED
    BY Zenon, <1>1, <1>2 DEF Counting, LeastExists
<1> QED
  BY Zenon, <1>1, <1>3

LEMMA NoneIsNone == None \notin File /\ -1 \notin Fd
  BY FileTableAssumption DEF File, Fd

(* p returns r, with its free descriptor fd on the file f. *)
LEMMA InstallInv ==
  ASSUME Counting, IInv, NEW p \in Proc, InUser(p), NEW fd \in Fd, ofile[p][fd] = None,
         NEW f \in File, NEW r \in Int, Return(p, r), pipes' = pipes, kpanic' = kpanic,
         ofile' = [ofile EXCEPT ![p][fd] = f], file' \in [File -> FileRec],
         \A h \in File : h # f => file'[h] = file[h],
         file[f].ref \in Nat, file'[f].ref = file[f].ref + 1, FileOK(file'[f]),
         file'[f].type # "NONE",
         file'[f].type # file[f].type => file[f].ref = 0,
         \A g, wr : IsEnd(file'[f], g, wr) <=> IsEnd(file[f], g, wr)
  PROVE  IInv'
<1> DEFINE c == [User EXCEPT !.ret = r]
<1>1. /\ c \in CallRec /\ CallOK(c) /\ c.k = "user" /\ c.todo = <<>> /\ c.ff = FD_NONE
      /\ ~c.op /\ NoPipe(c)
  BY Zenon, Back
<1>2. sys' = [sys EXCEPT ![p] = c]
  BY Zenon DEF Return
<1> HIDE DEF c
<1>3. sys[p].ff = FD_NONE /\ NoPipe(sys[p]) /\ sys[p].todo = <<>>
  BY Zenon, UserFacts
<1>4. /\ ofile \in [Proc -> [Fd -> File \cup {None}]]
      /\ ofile[p] \in [Fd -> File \cup {None}] /\ Uses(file, ofile[p], sys[p])
  BY Zenon DEF IInv, Types, Valid
<1>5. /\ ofile'[p] = [ofile[p] EXCEPT ![fd] = f] /\ Only(p, ofile, ofile')
      /\ ofile' \in [Proc -> [Fd -> File \cup {None}]]
  BY Zenon, <1>4 DEF Only
<1>6. \A h \in File : FileOK(file'[h])
  BY Zenon DEF IInv, Valid
<1>7. Uses(file', ofile'[p], c)
  <2>1. ASSUME NEW e \in Fd, ofile'[p][e] # None PROVE file'[ofile'[p][e]].type # "NONE"
    <3>1. CASE ofile'[p][e] = f
      BY Zenon, <3>1
    <3>2. CASE ofile'[p][e] # f
      <4>1. ofile'[p][e] = ofile[p][e] /\ ofile[p][e] \in File
        BY Zenon, <1>4, <1>5, <2>1, <3>2
      <4> QED
        BY Zenon, <1>4, <2>1, <3>2, <4>1 DEF Uses
    <3> QED
      BY Zenon, <3>1, <3>2
  <2>2. c.k # "pipealloc" /\ c.k # "pipe_fds"
    BY Zenon, <1>1
  <2> QED
    BY Zenon, <1>1, <2>1, <2>2 DEF Uses
<1>8. \A h \in File : file'[h].type # file[h].type => file[h].ref = 0
  BY Zenon
<1>9. \A h \in File : \A g, wr : IsEnd(file'[h], g, wr) <=> IsEnd(file[h], g, wr)
  BY Zenon
<1>10. ASSUME NEW h \in File
       PROVE  file'[h].ref + Mine(ofile[p], sys[p], h) = file[h].ref + Mine(ofile'[p], c, h)
  <2>0. Becomes(ofile[p], fd, f, ofile'[p])
    BY Zenon, <1>4, <1>5 DEF Becomes
  <2>1. /\ Cardinality(Owns(ofile[p], h)) \in Nat /\ Cardinality(Owns(ofile'[p], h)) \in Nat
        /\ Cardinality(Owns(ofile'[p], h)) + One(ofile[p][fd] = h)
             = Cardinality(Owns(ofile[p], h)) + One(f = h)
    BY <2>0, OwnsSet
  <2>2. /\ Mine(ofile'[p], c, h) = Cardinality(Owns(ofile'[p], h)) + 0
        /\ Mine(ofile[p], sys[p], h) = Cardinality(Owns(ofile[p], h)) + 0
    <3>1. NoPipe(c) /\ c.todo = <<>>
      BY Zenon, <1>1
    <3>2. Named(c, h) = 0 /\ Named(sys[p], h) = 0
      BY Zenon, <1>3, <3>1, Unnamed
    <3> QED
      BY Zenon, <3>2 DEF Mine
  <2>3. One(ofile[p][fd] = h) = 0
    BY Zenon, NoneIsNone DEF One
  <2> DEFINE a == Cardinality(Owns(ofile[p], h))
             a2 == Cardinality(Owns(ofile'[p], h))
             o == One(f = h)
             m == Mine(ofile[p], sys[p], h)
             m2 == Mine(ofile'[p], c, h)
  <2>4. a \in Nat /\ a2 \in Nat /\ a2 + 0 = a + o /\ m2 = a2 + 0 /\ m = a + 0
    BY Zenon, <2>1, <2>2, <2>3
  <2>5. file[h].ref \in Nat /\ file'[h].ref = file[h].ref + o /\ o \in Nat
    <3>1. CASE h = f
      BY Zenon, <3>1 DEF One
    <3>2. CASE h # f
      <4>0. file'[h] = file[h] /\ file[h] \in FileRec
        BY Zenon, <3>2
      <4>1. file'[h].ref = file[h].ref /\ file[h].ref \in Nat
        BY <4>0 DEF FileRec
      <4>2. o = 0
        BY Zenon, <3>2 DEF One
      <4> QED
        BY <4>1, <4>2
    <3> QED
      BY Zenon, <3>1, <3>2
  <2> HIDE DEF a, a2, o, m, m2
  <2>6. file'[h].ref + m = file[h].ref + m2
    BY <2>4, <2>5
  <2> QED
    BY Zenon, <2>6 DEF m, m2
<1> QED
  BY Zenon, <1>1, <1>2, <1>3, <1>5, <1>6, <1>7, <1>8, <1>9, <1>10, CallInv

LEMMA SysDupInv ==
  ASSUME Counting, IInv, NEW p \in Proc, NEW fd, sys_dup(p, fd)
  PROVE  IInv'
<1>1. InUser(p) /\ pipes' = pipes
  BY Zenon DEF sys_dup
<1>2. CASE argfd(p, fd) = None \/ fdalloc(p) = -1
  <2>1. Return(p, -1) /\ UNCHANGED <<file, ofile, kpanic>>
    BY Zenon, <1>2 DEF sys_dup
  <2>2. file' \in [File -> FileRec] /\ pipes' \in [Page -> PipeRec] /\ file' = file
    BY Zenon, <1>1, <2>1 DEF IInv, Types
  <2> QED
    BY <1>1, <2>1, <2>2, ReturnInv
<1>3. CASE ~(argfd(p, fd) = None \/ fdalloc(p) = -1)
  <2>1. PICK f, new : f = argfd(p, fd) /\ new = fdalloc(p)
    BY Zenon
  <2>2. /\ f \in File /\ file[f] \in FileRec /\ file[f].type # "NONE" /\ FileOK(file[f])
        /\ RefersTo(ofile[p], sys[p], f)
    BY <1>3, <2>1, Argfd
  <2>3. new \in Fd /\ ofile[p][new] = None
    BY Zenon, <1>3, <2>1, Fdalloc
  <2>4. file[f].ref \in Nat /\ file[f].ref >= 1
    BY Zenon, <2>2, Held
  <2>5. /\ ofile' = [ofile EXCEPT ![p][new] = f] /\ filedup(f) /\ Return(p, new)
        /\ kpanic' = IF file[f].ref < 1 THEN "filedup" ELSE kpanic
    BY Zenon, <1>3, <2>1 DEF sys_dup
  <2>6. kpanic' = kpanic /\ new \in Int
    BY <2>3, <2>4, <2>5 DEF Fd
  <2>7. file' = [file EXCEPT ![f] = [file[f] EXCEPT !.ref = @ + 1]]
    BY Zenon, <2>5 DEF filedup
  <2> DEFINE x == [file[f] EXCEPT !.ref = @ + 1]
  <2>8. /\ x \in FileRec /\ x.ref = file[f].ref + 1 /\ x.type = file[f].type
        /\ x.pipe = file[f].pipe /\ x.writable = file[f].writable
    BY <2>2, <2>4 DEF FileRec
  <2> HIDE DEF x
  <2>9. FileOK(x)
    BY <2>2, <2>4, <2>8 DEF FileOK
  <2>10. /\ file' \in [File -> FileRec] /\ file'[f] = x
         /\ \A h \in File : h # f => file'[h] = file[h]
    <3>1. file \in [File -> FileRec] /\ file' = [file EXCEPT ![f] = x]
      BY Zenon, <2>7 DEF IInv, Types, x
    <3> QED
      BY Zenon, <2>2, <2>8, <3>1
  <2>11. \A g, wr : IsEnd(file'[f], g, wr) <=> IsEnd(file[f], g, wr)
    BY Zenon, <2>8, <2>10 DEF IsEnd
  <2>12. /\ file'[f].ref = file[f].ref + 1 /\ FileOK(file'[f]) /\ file'[f].type = file[f].type
    BY Zenon, <2>8, <2>9, <2>10
  <2> QED
    BY Zenon, <1>1, <2>2, <2>3, <2>4, <2>5, <2>6, <2>10, <2>11, <2>12, InstallInv
<1> QED
  BY Zenon, <1>2, <1>3

(* An unused file that a call takes keeps no type. *)
LEMMA Taken ==
  ASSUME Counting, IInv, NEW f \in File, file[f].ref = 0, file' = [file EXCEPT ![f].ref = 1]
  PROVE  /\ file' \in [File -> FileRec] /\ (\A h \in File : FileOK(file'[h]))
         /\ \A h \in File : file'[h].type = file[h].type
         /\ \A h \in File : \A g, wr : IsEnd(file'[h], g, wr) <=> IsEnd(file[h], g, wr)
         /\ \A h \in File : file[h].ref \in Nat /\ file'[h].ref = file[h].ref + One(h = f)
<1> DEFINE x == [file[f] EXCEPT !.ref = 1]
<1>1. /\ file \in [File -> FileRec] /\ file' = [file EXCEPT ![f] = x] /\ file[f] \in FileRec
      /\ FileOK(file[f]) /\ file[f].type = "NONE"
  BY Zenon DEF IInv, Types, Valid, FileOK
<1>2. /\ x \in FileRec /\ x.ref = 1 /\ x.type = file[f].type
      /\ x.pipe = file[f].pipe /\ x.writable = file[f].writable
  BY <1>1 DEF FileRec
<1> HIDE DEF x
<1>3. FileOK(x)
  BY <1>1, <1>2 DEF FileOK
<1>4. /\ file' \in [File -> FileRec] /\ file'[f] = x
      /\ \A h \in File : h # f => file'[h] = file[h]
  BY Zenon, <1>1, <1>2
<1>5. /\ \A h \in File : FileOK(file'[h])
      /\ \A h \in File : file'[h].type = file[h].type
  BY Zenon, <1>2, <1>3, <1>4 DEF IInv, Valid
<1>6. \A h \in File : \A g, wr : IsEnd(file'[h], g, wr) <=> IsEnd(file[h], g, wr)
  BY Zenon, <1>2, <1>4 DEF IsEnd
<1>7. ASSUME NEW h \in File
      PROVE  file[h].ref \in Nat /\ file'[h].ref = file[h].ref + One(h = f)
  <2>0. file[h] \in FileRec
    BY Zenon, <1>1
  <2>1. file[h].ref \in Nat
    BY <2>0 DEF FileRec
  <2>2. CASE h = f
    <3>1. file'[h].ref = 1 /\ file[h].ref = 0 /\ One(h = f) = 1
      BY Zenon, <1>2, <1>4, <2>2 DEF One
    <3> QED
      BY <3>1
  <2>3. CASE h # f
    <3>1. file'[h].ref = file[h].ref /\ One(h = f) = 0
      BY Zenon, <1>4, <2>3 DEF One
    <3> QED
      BY <2>1, <3>1
  <2> QED
    BY Zenon, <2>1, <2>2, <2>3
<1> QED
  BY Zenon, <1>4, <1>5, <1>6, <1>7

(* A call that takes the file f and goes on as c. *)
LEMMA TakeInv ==
  ASSUME Counting, IInv, NEW p \in Proc, NEW f \in File, file[f].ref = 0,
         file' = [file EXCEPT ![f].ref = 1], ofile' = ofile, pipes' = pipes, kpanic' = kpanic,
         NEW c \in CallRec, CallOK(c), c.ff = FD_NONE, sys[p].ff = FD_NONE,
         sys' = [sys EXCEPT ![p] = c], c.k # "pipe_fds",
         c.k = "pipealloc" => file[c.rf].type = "NONE",
         c.op => \A i \in DOMAIN c.todo : file[c.todo[i]].type = "NONE",
         \A h \in File : Named(c, h) = Named(sys[p], h) + One(h = f)
  PROVE  IInv'
<1>1. /\ file' \in [File -> FileRec] /\ (\A h \in File : FileOK(file'[h]))
      /\ \A h \in File : file'[h].type = file[h].type
      /\ \A h \in File : \A g, wr : IsEnd(file'[h], g, wr) <=> IsEnd(file[h], g, wr)
  BY Zenon, Taken
<1>2. /\ ofile' \in [Proc -> [Fd -> File \cup {None}]] /\ Only(p, ofile, ofile')
      /\ ofile[p] \in [Fd -> File \cup {None}] /\ Uses(file, ofile[p], sys[p])
      /\ sys[p] \in CallRec /\ CallOK(sys[p])
  BY Zenon DEF IInv, Types, Valid, Only
<1>3. Uses(file', ofile'[p], c)
  <2>1. \A e \in Fd : ofile[p][e] # None => file'[ofile[p][e]].type # "NONE"
    BY ZenonT(40), <1>1, <1>2 DEF Uses
  <2>2. c.k = "pipealloc" => file'[c.rf].type = "NONE"
    BY Zenon, <1>1 DEF CallOK
  <2>3. \A i \in DOMAIN c.todo : c.todo[i] \in File
    BY DEF CallRec
  <2> QED
    BY ZenonT(40), <1>1, <2>1, <2>2, <2>3 DEF Uses
<1>4. ASSUME NEW h \in File
      PROVE  file'[h].ref + Mine(ofile[p], sys[p], h) = file[h].ref + Mine(ofile'[p], c, h)
  <2> DEFINE a == Cardinality(Owns(ofile[p], h))
             o == One(h = f)
             m == Named(sys[p], h)
             m2 == Named(c, h)
  <2>1. /\ file[h].ref \in Nat /\ file'[h].ref = file[h].ref + o /\ m2 = m + o
        /\ Mine(ofile[p], sys[p], h) = a + m /\ Mine(ofile'[p], c, h) = a + m2
    BY Zenon, Taken DEF Mine
  <2>2. a \in Nat /\ m \in Nat
    BY Zenon, <1>2, MineCounts
  <2>3. o \in Nat
    BY DEF One
  <2> HIDE DEF a, o, m, m2
  <2>4. file'[h].ref + (a + m) = file[h].ref + (a + m2)
    BY <2>1, <2>2, <2>3
  <2> QED
    BY Zenon, <2>1, <2>4
<1> QED
  BY Zenon, <1>1, <1>2, <1>3, <1>4, CallInv

(* What Close leaves a process with. *)
Shut(s, op) == [User EXCEPT !.k = "close", !.todo = s, !.ret = -1, !.op = op]

LEMMA ClosingAll ==
  ASSUME NEW s \in Seq(File), Len(s) <= 2, NEW op \in BOOLEAN, NEW c, c = Shut(s, op)
  PROVE  /\ c \in CallRec /\ CallOK(c) /\ c.k = "close" /\ c.ff = FD_NONE /\ c.op = op
         /\ c.todo = s /\ NoPipe(c)
<1>1. c \in CallRec /\ c.k = "close" /\ c.todo = s /\ c.ff = FD_NONE /\ c.op = op
  <2>1. FD_NONE \in FileRec
    BY Zenon, NoFile
  <2>2. c = [k |-> "close", todo |-> s, ff |-> FD_NONE, rf |-> None, wf |-> None,
             op |-> op, ret |-> -1, fd1 |-> 0]
    BY Zenon DEF User, Shut
  <2> QED
    BY <2>1, <2>2 DEF CallRec
<1>2. FD_NONE.type = "NONE"
  BY DEF FD_NONE
<1> QED
  BY Zenon, <1>1, <1>2 DEF CallOK, NoPipe

(* The files that a call names. *)
LEMMA NamedOne ==
  ASSUME NEW c, NEW h, NEW f, NoPipe(c), c.todo = <<f>>
  PROVE  Named(c, h) = 0 + One(h = f)
  BY DEF Named, One, NoPipe
LEMMA NamedTwo ==
  ASSUME NEW c, NEW h, NEW f, NEW g, NoPipe(c), c.todo = <<f, g>>
  PROVE  Named(c, h) = One(h = f) + One(h = g)
  BY DEF Named, One, NoPipe
LEMMA NamedRf ==
  ASSUME NEW c, NEW h, NEW f, c.k = "pipealloc", c.rf = f, c.todo = <<>>
  PROVE  Named(c, h) = 0 + One(h = f)
  BY DEF Named, One
LEMMA NamedBoth ==
  ASSUME NEW c, NEW h, NEW f, NEW g, c.k = "pipe_fds", c.rf = f, c.wf = g, c.todo = <<>>
  PROVE  Named(c, h) = One(h = f) + One(h = g)
  BY DEF Named, One

LEMMA SysOpenInv ==
  ASSUME Counting, IInv, NEW p \in Proc, NEW found \in BOOLEAN, NEW rd \in BOOLEAN,
         NEW wr \in BOOLEAN, sys_open(p, found, rd, wr)
  PROVE  IInv'
<1>1. InUser(p) /\ pipes' = pipes /\ kpanic' = kpanic
  BY Zenon DEF sys_open
<1>2. CASE ~found \/ Unused = {}
  <2>1. Return(p, -1) /\ UNCHANGED <<file, ofile>>
    BY Zenon, <1>2 DEF sys_open
  <2>2. file' \in [File -> FileRec] /\ pipes' \in [Page -> PipeRec] /\ file' = file
    BY Zenon, <1>1, <2>1 DEF IInv, Types
  <2> QED
    BY <1>1, <2>1, <2>2, ReturnInv
<1>3. CASE ~(~found \/ Unused = {})
  <2>1. PICK f, fd : f = filealloc /\ fd = fdalloc(p)
    BY Zenon
  <2>2. f \in File /\ file[f].ref = 0 /\ file[f].type = "NONE" /\ file[f] \in FileRec
    BY Zenon, <1>3, <2>1, Alloc
  <2>3. CASE fd = -1
    <3>1. /\ file' = [file EXCEPT ![f].ref = 1] /\ Close(p, <<f>>, TRUE) /\ ofile' = ofile
      BY Zenon, <1>3, <2>1, <2>3 DEF sys_open
    <3>2. PICK c : c = Shut(<<f>>, TRUE)
      BY Zenon
    <3>3. sys' = [sys EXCEPT ![p] = c]
      BY Zenon, <3>1, <3>2 DEF Close, Shut
    <3>4. <<f>> \in Seq(File) /\ Len(<<f>>) <= 2 /\ \A i \in DOMAIN <<f>> : <<f>>[i] = f
      BY <2>2
    <3>5. /\ c \in CallRec /\ CallOK(c) /\ c.k = "close" /\ c.ff = FD_NONE
          /\ c.todo = <<f>> /\ NoPipe(c)
      BY ZenonT(40), <3>2, <3>4, ClosingAll
    <3>6. \A h \in File : Named(c, h) = Named(sys[p], h) + One(h = f)
      <4>1. sys[p].todo = <<>> /\ NoPipe(sys[p])
        BY Zenon, <1>1, UserFacts
      <4>2. \A h : Named(c, h) = 0 + One(h = f) /\ Named(sys[p], h) = 0
        BY <3>5, <4>1, NamedOne, Unnamed
      <4> QED
        BY Zenon, <4>2
    <3>7. /\ sys[p].ff = FD_NONE /\ c.k # "pipe_fds" /\ c.k # "pipealloc"
          /\ \A i \in DOMAIN c.todo : file[c.todo[i]].type = "NONE"
      BY Zenon, <1>1, <2>2, <3>4, <3>5, UserFacts
    <3> QED
      BY Zenon, <1>1, <2>2, <3>1, <3>3, <3>5, <3>6, <3>7, TakeInv
  <2>4. CASE fd # -1
    <3> DEFINE x == [file[f] EXCEPT !.ref = 1, !.type = "INODE", !.readable = rd,
                                    !.writable = wr, !.off = 0]
    <3>1. /\ file' = [file EXCEPT ![f] = x] /\ ofile' = [ofile EXCEPT ![p][fd] = f]
          /\ Return(p, fd)
      BY Zenon, <1>3, <2>1, <2>4 DEF sys_open
    <3>2. x \in FileRec /\ x.ref = 1 /\ x.type = "INODE"
      BY ZenonT(40), <2>2 DEF FileRec
    <3> HIDE DEF x
    <3>3. fd \in Fd /\ ofile[p][fd] = None
      BY Zenon, <2>1, <2>4, Fdalloc
    <3>4. /\ file' \in [File -> FileRec] /\ file'[f] = x
          /\ \A h \in File : h # f => file'[h] = file[h]
      <4>1. file \in [File -> FileRec]
        BY Zenon DEF IInv, Types
      <4> QED
        BY Zenon, <2>2, <3>1, <3>2, <4>1
    <3>5. /\ FileOK(file'[f]) /\ file'[f].ref = file[f].ref + 1 /\ file'[f].type # "NONE"
          /\ file[f].ref \in Nat /\ fd \in Int
      BY <2>2, <3>2, <3>3, <3>4 DEF FileOK, Fd
    <3>6. \A g, w : IsEnd(file'[f], g, w) <=> IsEnd(file[f], g, w)
      BY <2>2, <3>2, <3>4 DEF IsEnd
    <3> QED
      BY Zenon, <1>1, <2>2, <3>1, <3>3, <3>4, <3>5, <3>6, InstallInv
  <2> QED
    BY Zenon, <2>3, <2>4
<1> QED
  BY Zenon, <1>2, <1>3

LEMMA SysPipeInv ==
  ASSUME Counting, IInv, NEW p \in Proc, sys_pipe(p)
  PROVE  IInv'
<1>1. InUser(p) /\ ofile' = ofile /\ pipes' = pipes /\ kpanic' = kpanic
  BY Zenon DEF sys_pipe
<1>2. CASE Unused = {}
  <2>1. Return(p, -1) /\ file' = file
    BY Zenon, <1>2 DEF sys_pipe
  <2>2. file' \in [File -> FileRec] /\ pipes' \in [Page -> PipeRec]
    BY Zenon, <1>1, <2>1 DEF IInv, Types
  <2> QED
    BY <1>1, <2>1, <2>2, ReturnInv
<1>3. CASE Unused # {}
  <2>1. PICK f : f = filealloc
    BY Zenon
  <2>2. f \in File /\ file[f].ref = 0 /\ file[f].type = "NONE"
    BY Zenon, <1>3, <2>1, Alloc
  <2>3. PICK c : c = [User EXCEPT !.k = "pipealloc", !.rf = f]
    BY Zenon
  <2>4. file' = [file EXCEPT ![f].ref = 1] /\ sys' = [sys EXCEPT ![p] = c]
    BY Zenon, <1>3, <2>1, <2>3 DEF sys_pipe
  <2>5. /\ c \in CallRec /\ c.k = "pipealloc" /\ c.rf = f /\ c.todo = <<>> /\ c.ff = FD_NONE
        /\ ~c.op
    <3>1. FD_NONE \in FileRec
      BY Zenon, NoFile
    <3>2. User \in CallRec /\ User.ff = FD_NONE /\ User.todo = <<>> /\ ~User.op
      BY <3>1 DEF User, CallRec
    <3> QED
      BY Zenon, <2>2, <2>3, <3>2 DEF CallRec
  <2>6. CallOK(c)
    <3>1. FD_NONE.type = "NONE" /\ Len(<<>>) <= 2
      BY DEF FD_NONE
    <3> QED
      BY Zenon, <2>2, <2>5, <3>1 DEF CallOK
  <2>7. \A h \in File : Named(c, h) = Named(sys[p], h) + One(h = f)
    <3>1. sys[p].todo = <<>> /\ NoPipe(sys[p])
      BY Zenon, <1>1, UserFacts
    <3>2. \A h : Named(c, h) = 0 + One(h = f) /\ Named(sys[p], h) = 0
      BY <2>5, <3>1, NamedRf, Unnamed
    <3> QED
      BY Zenon, <3>2
  <2>8. sys[p].ff = FD_NONE /\ c.k # "pipe_fds" /\ file[c.rf].type = "NONE"
    BY Zenon, <1>1, <2>2, <2>5, UserFacts
  <2> QED
    BY Zenon, <1>1, <2>2, <2>4, <2>5, <2>6, <2>7, <2>8, TakeInv
<1> QED
  BY Zenon, <1>2, <1>3

----------------------------------------------------------------------------
(* pipealloc: the file f becomes an end of the pipe g. *)
LEMMA NewEnd ==
  ASSUME Counting, NEW f \in File, NEW g, NEW wr, OnlyEnd(f, file, file', g, wr),
         \A q \in Proc : sys'[q].ff = sys[q].ff
  PROVE  ~IsEnd(file[f], g, wr) /\ IsEnd(file'[f], g, wr) =>
           Ends(g, wr) \in Nat /\ Ends(g, wr)' = Ends(g, wr) + 1
<1> DEFINE a == Cardinality(FileEnds(file, g, wr))
           a2 == Cardinality(FileEnds(file', g, wr))
           b == Cardinality(CallEnds(sys, g, wr))
<1>1. /\ a \in Nat /\ a2 \in Nat
      /\ a2 + One(IsEnd(file[f], g, wr)) = a + One(IsEnd(file'[f], g, wr))
  BY FileEndsMove
<1>0. HAVE ~IsEnd(file[f], g, wr) /\ IsEnd(file'[f], g, wr)
<1>2. b \in Nat
  <2>1. CallEnds(sys, g, wr) \in SUBSET Proc /\ IsFiniteSet(Proc)
    BY Zenon, FileTableAssumption DEF CallEnds
  <2> QED
    BY Zenon, <2>1 DEF Counting, CountSubset, CountType
<1>3. CallEnds(sys', g, wr) = CallEnds(sys, g, wr)
  BY Zenon DEF CallEnds
<1>4. One(IsEnd(file[f], g, wr)) = 0 /\ One(IsEnd(file'[f], g, wr)) = 1
  BY Zenon, <1>0 DEF One
<1>5. a \in Nat /\ a2 \in Nat /\ a2 + 0 = a + 1
  BY Zenon, <1>1, <1>4
<1>6. Ends(g, wr) = a + b /\ Ends(g, wr)' = a2 + b
  BY Zenon, <1>3, EndsAre
<1> HIDE DEF a, a2, b
<1>7. a + b \in Nat /\ a2 + b = (a + b) + 1
  BY <1>2, <1>5
<1> QED
  BY Zenon, <1>6, <1>7

(* A call in pipealloc has its first file to itself. *)
LEMMA InPipealloc ==
  ASSUME Counting, IInv, NEW p \in Proc, sys[p].k = "pipealloc", NEW rf, rf = sys[p].rf
  PROVE  /\ rf \in File /\ file[rf] \in FileRec /\ file[rf].type = "NONE" /\ file[rf].ref = 1
         /\ \A q \in Proc \ {p} : ~RefersTo(ofile[q], sys[q], rf)
         /\ sys[p] \in CallRec /\ sys[p].todo = <<>> /\ sys[p].ff = FD_NONE /\ ~sys[p].op
         /\ \A h : Named(sys[p], h) = 0 + One(h = rf)
<1>1. sys[p] \in CallRec /\ CallOK(sys[p]) /\ Uses(file, ofile[p], sys[p])
  BY Zenon DEF IInv, Types, Valid
<1>2. rf \in File /\ sys[p].todo = <<>> /\ sys[p].ff = FD_NONE /\ ~sys[p].op
  BY Zenon, <1>1 DEF CallOK
<1>3. file[rf] \in FileRec /\ FileOK(file[rf]) /\ file[rf].type = "NONE"
  BY Zenon, <1>1, <1>2 DEF IInv, Types, Valid, Uses
<1>4. RefersTo(ofile[p], sys[p], rf)
  BY Zenon DEF RefersTo
<1>5. /\ file[rf].ref \in Nat /\ file[rf].ref >= 1
      /\ file[rf].ref <= 1 => \A q \in Proc \ {p} : ~RefersTo(ofile[q], sys[q], rf)
  BY Zenon, <1>2, <1>4, Held
<1>6. file[rf].ref <= 1
  BY Zenon, <1>3 DEF FileOK
<1>7. file[rf].ref = 1
  <2> DEFINE r == file[rf].ref
  <2>1. r \in Nat /\ r >= 1 /\ r <= 1
    BY Zenon, <1>5, <1>6
  <2> HIDE DEF r
  <2>2. r = 1
    BY <2>1
  <2> QED
    BY Zenon, <2>2 DEF r
<1>8. \A h : Named(sys[p], h) = 0 + One(h = rf)
  BY <1>2, NamedRf
<1> QED
  BY Zenon, <1>1, <1>2, <1>3, <1>5, <1>6, <1>7, <1>8

(* A call that gives up on its pipe goes on to close the files it named. *)
LEMMA GiveUpInv ==
  ASSUME Counting, IInv, NEW p \in Proc, NEW c \in CallRec, CallOK(c), c.ff = FD_NONE,
         sys[p].ff = FD_NONE, sys' = [sys EXCEPT ![p] = c], NoPipe(c), ~c.op,
         file' = file, ofile' = ofile, pipes' = pipes, kpanic' = kpanic,
         \A h \in File : Named(c, h) = Named(sys[p], h)
  PROVE  IInv'
<1>1. /\ ofile' \in [Proc -> [Fd -> File \cup {None}]] /\ Only(p, ofile, ofile')
      /\ file' \in [File -> FileRec] /\ \A h \in File : FileOK(file'[h])
  BY Zenon DEF IInv, Types, Valid, Only
<1>2. Uses(file', ofile'[p], c)
  <2>1. Uses(file, ofile[p], sys[p])
    BY Zenon DEF IInv, Valid
  <2>2. c.k # "pipealloc" /\ c.k # "pipe_fds"
    BY Zenon DEF NoPipe
  <2> QED
    BY Zenon, <2>1, <2>2 DEF Uses
<1>3. \A h \in File : file'[h].ref + Mine(ofile[p], sys[p], h)
                        = file[h].ref + Mine(ofile'[p], c, h)
  BY Zenon DEF Mine
<1>4. /\ \A h \in File : file'[h].type # file[h].type => file[h].ref = 0
      /\ \A h \in File : \A g, wr : IsEnd(file'[h], g, wr) <=> IsEnd(file[h], g, wr)
  BY Zenon
<1> QED
  BY Zenon, <1>1, <1>2, <1>3, <1>4, CallInv

LEMMA EndRec ==
  ASSUME NEW f, file[f] \in FileRec, NEW g \in Page, NEW wr \in BOOLEAN
  PROVE  /\ End(f, g, wr) \in FileRec /\ End(f, g, wr).ref = 1 /\ End(f, g, wr).type = "PIPE"
         /\ End(f, g, wr).pipe = g /\ End(f, g, wr).writable = wr
<1>1. g \in Nat
  BY DEF Page
<1> QED
  BY Zenon, <1>1 DEF FileRec, End

LEMMA NewPipe ==
  ASSUME Counting, IInv, FreePages # {}
  PROVE  Min(FreePages) \in Page /\ ~pipes[Min(FreePages)].used
<1>1. FreePages \in SUBSET Nat
  BY DEF FreePages, Page
<1>2. Min(FreePages) \in FreePages
  BY Zenon, <1>1 DEF Counting, LeastExists
<1> QED
  BY Zenon, <1>2 DEF FreePages

LEMMA PipeallocInv ==
  ASSUME Counting, IInv, NEW p \in Proc, pipealloc(p)
  PROVE  IInv'
<1>1. PICK rf : rf = sys[p].rf
  BY Zenon
<1>2. sys[p].k = "pipealloc" /\ ofile' = ofile /\ kpanic' = kpanic
  BY Zenon DEF pipealloc
<1>3. /\ rf \in File /\ file[rf] \in FileRec /\ file[rf].type = "NONE" /\ file[rf].ref = 1
      /\ \A q \in Proc \ {p} : ~RefersTo(ofile[q], sys[q], rf)
      /\ sys[p] \in CallRec /\ sys[p].todo = <<>> /\ sys[p].ff = FD_NONE /\ ~sys[p].op
      /\ \A h : Named(sys[p], h) = 0 + One(h = rf)
  BY SMTT(30), <1>1, <1>2, InPipealloc
<1>4. CASE Unused = {}
  <2>1. Close(p, <<rf>>, FALSE) /\ file' = file /\ pipes' = pipes
    BY Zenon, <1>1, <1>4 DEF pipealloc
  <2>2. PICK c : c = Shut(<<rf>>, FALSE)
    BY Zenon
  <2>3. sys' = [sys EXCEPT ![p] = c]
    BY Zenon, <2>1, <2>2 DEF Close, Shut
  <2>4. <<rf>> \in Seq(File) /\ Len(<<rf>>) <= 2
    BY <1>3
  <2>5. /\ c \in CallRec /\ CallOK(c) /\ c.ff = FD_NONE /\ c.op = FALSE
        /\ c.todo = <<rf>> /\ NoPipe(c)
    BY ZenonT(40), <2>2, <2>4, ClosingAll
  <2>6. \A h \in File : Named(c, h) = Named(sys[p], h)
    BY <1>3, <2>5, NamedOne
  <2> QED
    BY Zenon, <1>2, <1>3, <2>1, <2>3, <2>5, <2>6, GiveUpInv
<1>5. CASE Unused # {} /\ FreePages = {}
  <2>1. PICK wf : wf = filealloc
    BY Zenon
  <2>2. wf \in File /\ file[wf].ref = 0
    BY Zenon, <1>5, <2>1, Alloc
  <2>3. file' = [file EXCEPT ![wf].ref = 1] /\ Close(p, <<rf, wf>>, FALSE) /\ pipes' = pipes
    BY Zenon, <1>1, <1>5, <2>1 DEF pipealloc
  <2>4. PICK c : c = Shut(<<rf, wf>>, FALSE)
    BY Zenon
  <2>5. sys' = [sys EXCEPT ![p] = c]
    BY Zenon, <2>3, <2>4 DEF Close, Shut
  <2>6. <<rf, wf>> \in Seq(File) /\ Len(<<rf, wf>>) <= 2
    BY <1>3, <2>2
  <2>7. /\ c \in CallRec /\ CallOK(c) /\ c.ff = FD_NONE /\ c.op = FALSE
        /\ c.todo = <<rf, wf>> /\ NoPipe(c)
    BY Zenon, <2>4, <2>6, ClosingAll
  <2>8. ASSUME NEW h \in File PROVE Named(c, h) = Named(sys[p], h) + One(h = wf)
    <3>1. Named(c, h) = One(h = rf) + One(h = wf)
      BY <2>7, NamedTwo
    <3>2. Named(sys[p], h) = 0 + One(h = rf)
      BY Zenon, <1>3
    <3>3. One(h = rf) \in Nat
      BY DEF One
    <3> QED
      BY SMTT(30), <3>1, <3>2, <3>3
  <2>9. c.k # "pipealloc" /\ c.k # "pipe_fds"
    BY Zenon, <2>7 DEF NoPipe
  <2> QED
    BY ZenonT(40), <1>2, <1>3, <2>2, <2>3, <2>5, <2>7, <2>8, <2>9, TakeInv
<1>6. CASE Unused # {} /\ FreePages # {}
  <2>1. PICK wf, g : wf = filealloc /\ g = Min(FreePages)
    BY Zenon
  <2>2. wf \in File /\ file[wf].ref = 0 /\ file[wf].type = "NONE" /\ file[wf] \in FileRec
    BY Zenon, <1>6, <2>1, Alloc
  <2>3. g \in Page /\ ~pipes[g].used
    BY Zenon, <1>6, <2>1, NewPipe
  <2>4. rf # wf
    <3>1. file[rf].ref # file[wf].ref
      BY <1>3, <2>2
    <3> QED
      BY Zenon, <3>1
  <2> DEFINE x == End(rf, g, FALSE)
             y == End(wf, g, TRUE)
             np == [used |-> TRUE, readopen |-> TRUE, writeopen |-> TRUE, n |-> 0]
  <2>5. PICK c : c = [sys[p] EXCEPT !.k = "pipe_fds", !.wf = wf]
    BY Zenon
  <2>6. /\ file' = [file EXCEPT ![rf] = x, ![wf] = y] /\ pipes' = [pipes EXCEPT ![g] = np]
        /\ sys' = [sys EXCEPT ![p].k = "pipe_fds", ![p].wf = wf]
    BY Zenon, <1>1, <1>6, <2>1 DEF pipealloc
  <2>7. /\ x \in FileRec /\ x.ref = 1 /\ x.type = "PIPE" /\ x.pipe = g /\ x.writable = FALSE
        /\ y \in FileRec /\ y.ref = 1 /\ y.type = "PIPE" /\ y.pipe = g /\ y.writable = TRUE
    <3>1. file[rf] \in FileRec /\ FALSE \in BOOLEAN /\ TRUE \in BOOLEAN
      BY Zenon, <1>3
    <3>2. /\ x \in FileRec /\ x.ref = 1 /\ x.type = "PIPE" /\ x.pipe = g /\ x.writable = FALSE
      BY Zenon, <2>3, <3>1, EndRec
    <3>3. /\ y \in FileRec /\ y.ref = 1 /\ y.type = "PIPE" /\ y.pipe = g /\ y.writable = TRUE
      BY ZenonT(40), <2>2, <2>3, <3>1, EndRec
    <3> QED
      BY Zenon, <3>2, <3>3
  <2>8. np \in PipeRec /\ np.used /\ np.readopen /\ np.writeopen
    BY DEF PipeRec
  <2> HIDE DEF x, y, np
  <2>9. /\ file' \in [File -> FileRec] /\ file'[rf] = x /\ file'[wf] = y
        /\ \A h \in File : h # rf /\ h # wf => file'[h] = file[h]
        /\ pipes' \in [Page -> PipeRec] /\ pipes'[g] = np
        /\ \A g2 \in Page : g2 # g => pipes'[g2] = pipes[g2]
    <3>1. file \in [File -> FileRec] /\ pipes \in [Page -> PipeRec]
      BY Zenon DEF IInv, Types
    <3> QED
      BY Zenon, <1>3, <2>2, <2>3, <2>4, <2>6, <2>7, <2>8, <3>1
  <2>10. /\ c \in CallRec /\ c.k = "pipe_fds" /\ c.rf = rf /\ c.wf = wf /\ c.todo = <<>>
         /\ c.ff = FD_NONE /\ ~c.op
    BY Zenon, <1>1, <1>3, <2>2, <2>5 DEF CallRec
  <2>11. CallOK(c)
    <3>1. FD_NONE.type = "NONE" /\ Len(<<>>) <= 2
      BY DEF FD_NONE
    <3> QED
      BY ZenonT(40), <1>3, <2>2, <2>4, <2>10, <3>1 DEF CallOK
  <2>12. sys'[p] = c /\ Only(p, sys, sys') /\ sys' \in [Proc -> CallRec]
    <3>1. sys' = [sys EXCEPT ![p] = c]
      <4>1. sys \in [Proc -> CallRec]
        BY Zenon DEF IInv, Types
      <4> QED
        BY Zenon, <2>5, <2>6, <4>1
    <3> QED
      BY Zenon, <2>10, <3>1, ProcStep
  <2>13. Types' /\ Only(p, ofile, ofile') /\ kpanic' \notin {"fileclose", "filedup"}
    BY Zenon, <1>2, <2>9, <2>12 DEF IInv, Types, Only
  <2>14. \A h \in File : FileOK(file'[h])
    <3>1. FileOK(x) /\ FileOK(y)
      BY <2>3, <2>7 DEF FileOK
    <3> QED
      BY Zenon, <2>9, <3>1 DEF IInv, Valid
  <2>15. Uses(file', ofile'[p], sys'[p])
    <3>1. Uses(file, ofile[p], sys[p]) /\ ofile[p] \in [Fd -> File \cup {None}]
      BY Zenon DEF IInv, Types, Valid
    <3>2. \A e \in Fd : ofile[p][e] # None => file'[ofile[p][e]].type # "NONE"
      BY ZenonT(40), <1>3, <2>2, <2>9, <3>1 DEF Uses
    <3>3. c.k # "pipealloc"
      BY <2>10
    <3> QED
      BY ZenonT(40), <1>2, <2>7, <2>9, <2>10, <2>12, <3>2, <3>3 DEF Uses
  <2>16. \A h \in File : file'[h].type # file[h].type =>
           \A q \in Proc \ {p} : ~RefersTo(ofile[q], sys[q], h)
    BY Zenon, <1>3, <2>2, <2>9, NotHeld
  <2>17. ASSUME NEW h \in File
         PROVE  file'[h].ref + Mine(ofile[p], sys[p], h)
                  = file[h].ref + Mine(ofile'[p], sys'[p], h)
    <3> DEFINE a == Cardinality(Owns(ofile[p], h))
               o == One(h = rf)
               o2 == One(h = wf)
    <3>1. Named(c, h) = o + o2 /\ Named(sys[p], h) = 0 + o
      BY <1>3, <2>10, NamedBoth
    <3>2. a \in Nat
      BY Zenon, <2>10, <2>11, MineCounts
    <3>3. Mine(ofile[p], sys[p], h) = a + (0 + o) /\ Mine(ofile'[p], sys'[p], h) = a + (o + o2)
      BY Zenon, <1>2, <2>12, <3>1 DEF Mine
    <3>4. o \in Nat /\ o2 \in Nat
      BY DEF One
    <3>5. file[h].ref \in Nat /\ file'[h].ref = file[h].ref + o2
      <4>1. file[h] \in FileRec
        BY Zenon DEF IInv, Types
      <4>2. file[h].ref \in Nat
        BY <4>1 DEF FileRec
      <4>3. CASE h = wf
        <5>1. o2 = 1 /\ file[h].ref = 0 /\ file'[h].ref = 1
          BY Zenon, <2>2, <2>7, <2>9, <4>3 DEF One
        <5> QED
          BY <5>1
      <4>4. CASE h # wf
        <5>1. o2 = 0 /\ file'[h].ref = file[h].ref
          BY Zenon, <1>3, <2>7, <2>9, <4>4 DEF One
        <5> QED
          BY <4>2, <5>1
      <4> QED
        BY Zenon, <4>2, <4>3, <4>4
    <3> HIDE DEF a, o, o2
    <3>6. file'[h].ref + (a + (0 + o)) = file[h].ref + (a + (o + o2))
      BY <3>2, <3>4, <3>5
    <3> QED
      BY ZenonT(40), <3>3, <3>6
  <2>18. \A k \in Page : EndsExact(k)'
    <3>1. \A q \in Proc : sys'[q].ff = sys[q].ff
      BY ZenonT(40), <1>3, <2>10, <2>12 DEF Only
    <3>2. \A k, wr : ~IsEnd(file[rf], k, wr) /\ ~IsEnd(file[wf], k, wr)
      BY <1>3, <2>2 DEF IsEnd
    <3>3. \A k, wr : /\ IsEnd(file'[rf], k, wr) <=> k = g /\ wr = FALSE
                     /\ IsEnd(file'[wf], k, wr) <=> k = g /\ wr = TRUE
      BY Zenon, <2>7, <2>9 DEF IsEnd
    <3>4. ASSUME NEW k \in Page, k # g PROVE EndsExact(k)'
      <4>1. ASSUME NEW wr PROVE Ends(k, wr)' = Ends(k, wr)
        <5>1. \A h \in File : IsEnd(file'[h], k, wr) <=> IsEnd(file[h], k, wr)
          BY Zenon, <2>9, <3>2, <3>3, <3>4
        <5>2. FileEnds(file', k, wr) = FileEnds(file, k, wr)
          BY Zenon, <5>1 DEF FileEnds
        <5>3. CallEnds(sys', k, wr) = CallEnds(sys, k, wr)
          BY Zenon, <3>1 DEF CallEnds
        <5> QED
          BY Zenon, <5>2, <5>3, EndsAre
      <4> QED
        BY Zenon, <2>9, <3>4, <4>1 DEF IInv, Exact, EndsExact
    <3>5. EndsExact(g)'
      <4>1. EndsExact(g)
        BY Zenon, <2>3 DEF IInv, Exact
      <4>2. Ends(g, FALSE) = 0 /\ Ends(g, TRUE) = 0
        BY Zenon, <2>3, <4>1 DEF EndsExact
      <4>3. OnlyEnd(rf, file, file', g, FALSE) /\ OnlyEnd(wf, file, file', g, TRUE)
        BY Zenon, <2>9, <3>2, <3>3 DEF OnlyEnd
      <4>4. Ends(g, FALSE)' = Ends(g, FALSE) + 1
        <5>1. rf \in File /\ ~IsEnd(file[rf], g, FALSE) /\ IsEnd(file'[rf], g, FALSE)
          BY Zenon, <1>3, <3>2, <3>3
        <5> QED
          BY Zenon, <3>1, <4>3, <5>1, NewEnd
      <4>5. Ends(g, TRUE)' = Ends(g, TRUE) + 1
        <5>1. ~IsEnd(file[wf], g, TRUE) /\ IsEnd(file'[wf], g, TRUE)
          BY Zenon, <3>2, <3>3
        <5> QED
          BY Zenon, <2>2, <3>1, <4>3, <5>1, NewEnd
      <4>6. Ends(g, FALSE)' = 0 + 1 /\ Ends(g, TRUE)' = 0 + 1 /\ 0 + 1 = 1
        <5>1. 0 + 1 = 1
          OBVIOUS
        <5> QED
          BY Zenon, <4>2, <4>4, <4>5, <5>1
      <4> QED
        BY Zenon, <2>8, <2>9, <4>6 DEF EndsExact
    <3> QED
      BY Zenon, <3>4, <3>5
  <2>19. CallOK(sys'[p])
    BY Zenon, <2>11, <2>12
  <2> QED
    BY ZenonT(40), <2>12, <2>13, <2>14, <2>15, <2>16, <2>17, <2>18, <2>19, StepInv
<1> QED
  BY Zenon, <1>4, <1>5, <1>6

(* Two free descriptors. *)
LEMMA TwoFree ==
  ASSUME Counting, NEW free \in SUBSET Fd, Cardinality(free) >= 2
  PROVE  /\ Min(free) \in free
         /\ Min(free \ {Min(free)}) \in free \ {Min(free)}
<1>1. IsFiniteSet(free) /\ Cardinality(free) \in Nat
  BY Zenon DEF Counting, FiniteTables, CountSubset, CountType
<1>2. Cardinality(free) # 0 /\ Cardinality(free) # 1
  BY <1>1
<1>3. free # {} /\ Fd \in SUBSET Nat
  <2>1. Fd \in SUBSET Nat
    BY DEF Fd
  <2> QED
    BY Zenon, <1>1, <1>2, <2>1 DEF Counting, CountEmpty
<1>4. PICK a : a = Min(free)
  BY Zenon
<1>5. a \in free
  BY Zenon, <1>3, <1>4 DEF Counting, LeastExists
<1>6. free \ {a} # {}
  <2> SUFFICES ASSUME free \ {a} = {} PROVE FALSE
    BY Zenon
  <2>1. free = {} \cup {a}
    BY Zenon, <1>5
  <2>2. Cardinality({} \cup {a}) = Cardinality({}) + 1 /\ Cardinality({}) = 0
    BY Zenon DEF Counting, CountEmpty, CountAdd
  <2>3. Cardinality(free) = 0 + 1
    BY Zenon, <2>1, <2>2
  <2> QED
    BY <1>2, <2>3
<1>7. free \ {a} \in SUBSET Nat
  BY Zenon, <1>3
<1>8. Min(free \ {a}) \in free \ {a}
  BY Zenon, <1>6, <1>7 DEF Counting, LeastExists
<1> QED
  BY Zenon, <1>4, <1>5, <1>8

LEMMA PipeFdsInv ==
  ASSUME Counting, IInv, NEW p \in Proc, sys_pipe_fds(p)
  PROVE  IInv'
<1>1. PICK rf, wf : rf = sys[p].rf /\ wf = sys[p].wf
  BY Zenon
<1>2. /\ sys[p].k = "pipe_fds" /\ file' = file /\ pipes' = pipes /\ kpanic' = kpanic
  BY Zenon DEF sys_pipe_fds
<1>3. /\ sys[p] \in CallRec /\ CallOK(sys[p]) /\ Uses(file, ofile[p], sys[p])
      /\ ofile \in [Proc -> [Fd -> File \cup {None}]] /\ ofile[p] \in [Fd -> File \cup {None}]
  BY Zenon DEF IInv, Types, Valid
<1>4. /\ rf \in File /\ wf \in File /\ sys[p].todo = <<>> /\ sys[p].ff = FD_NONE
      /\ file[rf].type = "PIPE" /\ file[wf].type = "PIPE"
  BY Zenon, <1>1, <1>2, <1>3 DEF CallOK, Uses
<1>5. \A h : Named(sys[p], h) = One(h = rf) + One(h = wf)
  BY <1>1, <1>2, <1>4, NamedBoth
<1> DEFINE free == {fd \in Fd : ofile[p][fd] = None}
<1>6. CASE Close(p, <<rf, wf>>, FALSE) /\ ofile' = ofile
  <2>1. PICK c : c = Shut(<<rf, wf>>, FALSE)
    BY Zenon
  <2>2. sys' = [sys EXCEPT ![p] = c]
    BY Zenon, <1>6, <2>1 DEF Close, Shut
  <2>3. <<rf, wf>> \in Seq(File) /\ Len(<<rf, wf>>) <= 2
    BY <1>4
  <2>4. /\ c \in CallRec /\ CallOK(c) /\ c.ff = FD_NONE /\ c.op = FALSE
        /\ c.todo = <<rf, wf>> /\ NoPipe(c)
    BY Zenon, <2>1, <2>3, ClosingAll
  <2>5. \A h \in File : Named(c, h) = Named(sys[p], h)
    BY <1>5, <2>4, NamedTwo
  <2> QED
    BY Zenon, <1>2, <1>4, <1>6, <2>2, <2>4, <2>5, GiveUpInv
<1>7. ASSUME Cardinality(free) >= 2, NEW fd0, fd0 = Min(free), NEW fd1, fd1 = Min(free \ {fd0}),
             ofile' = [ofile EXCEPT ![p][fd0] = rf, ![p][fd1] = wf],
             sys' = [sys EXCEPT ![p] = [User EXCEPT !.ret = fd0, !.fd1 = fd1]]
      PROVE  IInv'
  <2>1. fd0 \in free /\ fd1 \in free /\ fd0 # fd1
    <3>1. free \in SUBSET Fd
      BY Zenon
    <3> HIDE DEF free
    <3> QED
      BY Zenon, <1>7, <3>1, TwoFree
  <2>2. fd0 \in Fd /\ fd1 \in Fd /\ fd0 \in Int /\ fd1 \in Int
    BY <2>1 DEF Fd
  <2>3. ofile[p][fd0] = None /\ ofile[p][fd1] = None
    BY Zenon, <2>1
  <2>4. PICK c : c = [User EXCEPT !.ret = fd0, !.fd1 = fd1]
    BY Zenon
  <2>5. /\ c \in CallRec /\ CallOK(c) /\ c.k = "user" /\ c.todo = <<>> /\ c.ff = FD_NONE
        /\ ~c.op /\ NoPipe(c)
    BY Zenon, <2>2, <2>4, Back
  <2>6. PICK t : t = [ofile[p] EXCEPT ![fd0] = rf]
    BY Zenon
  <2>7. t \in [Fd -> File \cup {None}] /\ t[fd1] = None
    BY Zenon, <1>3, <1>4, <2>1, <2>2, <2>3, <2>6
  <2>8. /\ ofile'[p] = [t EXCEPT ![fd1] = wf] /\ Only(p, ofile, ofile')
        /\ ofile' \in [Proc -> [Fd -> File \cup {None}]]
    <3>1. ofile' = [ofile EXCEPT ![p] = [t EXCEPT ![fd1] = wf]]
      BY Zenon, <1>3, <1>7, <2>2, <2>6
    <3>2. [t EXCEPT ![fd1] = wf] \in [Fd -> File \cup {None}]
      BY Zenon, <1>4, <2>7
    <3> QED
      BY Zenon, <1>3, <3>1, <3>2 DEF Only
  <2>9. Becomes(ofile[p], fd0, rf, t) /\ Becomes(t, fd1, wf, ofile'[p])
    BY Zenon, <1>3, <2>2, <2>6, <2>7, <2>8 DEF Becomes
  <2>10. Uses(file', ofile'[p], c)
    <3>1. ASSUME NEW e \in Fd, ofile'[p][e] # None PROVE file[ofile'[p][e]].type # "NONE"
      <4>1. ofile'[p][e] = wf \/ ofile'[p][e] = rf \/ ofile'[p][e] = ofile[p][e]
        BY Zenon, <1>3, <2>2, <2>6, <2>7, <2>8
      <4>2. file[rf].type # "NONE" /\ file[wf].type # "NONE"
        BY <1>4
      <4> QED
        BY Zenon, <1>3, <3>1, <4>1, <4>2 DEF Uses
    <3>2. c.k # "pipealloc" /\ c.k # "pipe_fds"
      BY Zenon, <2>5 DEF NoPipe
    <3> QED
      BY Zenon, <1>2, <2>5, <3>1, <3>2 DEF Uses
  <2>11. ASSUME NEW h \in File
         PROVE  file'[h].ref + Mine(ofile[p], sys[p], h) = file[h].ref + Mine(ofile'[p], c, h)
    <3> DEFINE a == Cardinality(Owns(ofile[p], h))
               b == Cardinality(Owns(t, h))
               d == Cardinality(Owns(ofile'[p], h))
               o == One(h = rf)
               o2 == One(h = wf)
    <3>1. /\ a \in Nat /\ b \in Nat /\ b + One(ofile[p][fd0] = h) = a + One(rf = h)
      BY SMTT(30), <2>9, OwnsSet
    <3>2. /\ d \in Nat /\ d + One(t[fd1] = h) = b + One(wf = h)
      BY <2>9, OwnsSet
    <3>3. /\ One(ofile[p][fd0] = h) = 0 /\ One(t[fd1] = h) = 0 /\ One(rf = h) = o
          /\ One(wf = h) = o2
      BY Zenon, <2>3, <2>7, NoneIsNone DEF One
    <3>4. Mine(ofile[p], sys[p], h) = a + (o + o2) /\ Mine(ofile'[p], c, h) = d + 0
      <4>1. Named(c, h) = 0
        BY Zenon, <2>5, Unnamed
      <4> QED
        BY Zenon, <1>5, <4>1 DEF Mine
    <3>5. o \in Nat /\ o2 \in Nat
      BY DEF One
    <3>6. b + 0 = a + o /\ d + 0 = b + o2
      BY Zenon, <3>1, <3>2, <3>3
    <3> HIDE DEF a, b, d, o, o2
    <3>7. a + (o + o2) = d + 0
      BY <3>1, <3>2, <3>5, <3>6
    <3> QED
      BY ZenonT(40), <1>2, <3>4, <3>7
  <2>12. /\ file' \in [File -> FileRec] /\ (\A h \in File : FileOK(file'[h]))
         /\ \A h \in File : file'[h].type # file[h].type => file[h].ref = 0
         /\ \A h \in File : \A g, wr : IsEnd(file'[h], g, wr) <=> IsEnd(file[h], g, wr)
    BY Zenon, <1>2 DEF IInv, Types, Valid
  <2>13. sys' = [sys EXCEPT ![p] = c]
    BY Zenon, <1>7, <2>4
  <2> QED
    BY Zenon, <1>2, <1>4, <2>5, <2>8, <2>10, <2>11, <2>12, <2>13, CallInv
<1> QED
  BY Zenon, <1>1, <1>6, <1>7 DEF sys_pipe_fds

----------------------------------------------------------------------------
(* read and write move an offset or the bytes of a pipe, never a count. *)
LEMMA PipeBytes ==
  ASSUME pipes \in [Page -> PipeRec], NEW k \in Page, NEW m \in Nat,
         pipes' = [pipes EXCEPT ![k].n = m]
  PROVE  /\ pipes' \in [Page -> PipeRec]
         /\ \A g \in Page : /\ pipes'[g].used = pipes[g].used
                            /\ pipes'[g].readopen = pipes[g].readopen
                            /\ pipes'[g].writeopen = pipes[g].writeopen
<1> DEFINE x == [pipes[k] EXCEPT !.n = m]
<1>1. pipes' = [pipes EXCEPT ![k] = x]
  BY Zenon
<1>2. /\ x \in PipeRec /\ x.used = pipes[k].used /\ x.readopen = pipes[k].readopen
      /\ x.writeopen = pipes[k].writeopen
  <2>1. pipes[k] \in PipeRec
    BY Zenon
  <2> QED
    BY <2>1 DEF PipeRec
<1> HIDE DEF x
<1> QED
  BY Zenon, <1>1, <1>2

LEMMA Offset ==
  ASSUME file \in [File -> FileRec], NEW f \in File, NEW m \in Nat,
         file' = [file EXCEPT ![f].off = m]
  PROVE  /\ file' \in [File -> FileRec]
         /\ \A h \in File : /\ file'[h].ref = file[h].ref /\ file'[h].type = file[h].type
                            /\ file'[h].pipe = file[h].pipe
                            /\ file'[h].writable = file[h].writable
<1> DEFINE x == [file[f] EXCEPT !.off = m]
<1>1. file' = [file EXCEPT ![f] = x]
  BY Zenon
<1>2. /\ x \in FileRec /\ x.ref = file[f].ref /\ x.type = file[f].type /\ x.pipe = file[f].pipe
      /\ x.writable = file[f].writable
  <2>1. file[f] \in FileRec
    BY Zenon
  <2> QED
    BY <2>1 DEF FileRec
<1> HIDE DEF x
<1> QED
  BY Zenon, <1>1, <1>2

LEMMA SysReadInv ==
  ASSUME Counting, IInv, NEW p \in Proc, NEW fd, sys_read(p, fd)
  PROVE  IInv'
<1>1. InUser(p) /\ UNCHANGED <<ofile, kpanic>>
  BY Zenon DEF sys_read
<1>2. file \in [File -> FileRec] /\ pipes \in [Page -> PipeRec] /\ 0 \in Int /\ 1 \in Int /\ -1 \in Int
  BY DEF IInv, Types
<1>3. PICK f : f = argfd(p, fd)
  BY Zenon
<1>4. CASE f = None \/ ~file[f].readable
  <2>1. Return(p, -1) /\ file' = file /\ pipes' = pipes
    BY Zenon, <1>3, <1>4 DEF sys_read
  <2> QED
    BY <1>1, <1>2, <2>1, ReturnInv
<1>5. CASE ~(f = None \/ ~file[f].readable)
  <2>1. f \in File /\ file[f] \in FileRec /\ FileOK(file[f])
    BY <1>3, <1>5, Argfd
  <2>2. CASE file[f].type = "PIPE"
    <3>1. PICK k : k = file[f].pipe
      BY Zenon
    <3>2. k \in Page
      BY Zenon, <2>1, <2>2, <3>1 DEF FileOK
    <3>3. pipes[k] \in PipeRec
      BY Zenon, <1>2, <3>2
    <3>4. PICK m : m = IF pipes[k].n > 0 THEN pipes[k].n - 1 ELSE 0
      BY Zenon
    <3>5. m \in Nat
      BY <3>3, <3>4 DEF PipeRec
    <3>6. PICK r \in {0, 1} : Return(p, r) /\ file' = file /\ pipes' = [pipes EXCEPT ![k].n = m]
      BY Zenon, <1>3, <1>5, <2>2, <3>1, <3>4 DEF sys_read
    <3>7. r \in Int
      BY Zenon, <1>2
    <3>8. /\ pipes' \in [Page -> PipeRec]
          /\ \A g \in Page : /\ pipes'[g].used = pipes[g].used
                             /\ pipes'[g].readopen = pipes[g].readopen
                             /\ pipes'[g].writeopen = pipes[g].writeopen
      BY Zenon, <1>2, <3>2, <3>5, <3>6, PipeBytes
    <3> QED
      BY SMTT(30), <1>1, <1>2, <3>6, <3>7, <3>8, ReturnInv
  <2>3. CASE file[f].type # "PIPE"
    <3>1. PICK m : m = IF file[f].off < FileSize THEN file[f].off + 1 ELSE file[f].off
      BY Zenon
    <3>2. m \in Nat
      BY <2>1, <3>1 DEF FileRec
    <3>3. PICK r \in {0, 1} : Return(p, r) /\ pipes' = pipes /\ file' = [file EXCEPT ![f].off = m]
      BY Zenon, <1>3, <1>5, <2>3, <3>1 DEF sys_read
    <3>4. r \in Int
      BY Zenon, <1>2
    <3>5. /\ file' \in [File -> FileRec]
          /\ \A h \in File : /\ file'[h].ref = file[h].ref /\ file'[h].type = file[h].type
                             /\ file'[h].pipe = file[h].pipe
                             /\ file'[h].writable = file[h].writable
      BY Zenon, <1>2, <2>1, <3>2, <3>3, Offset
    <3> QED
      BY SMTT(30), <1>1, <1>2, <3>3, <3>4, <3>5, ReturnInv
  <2> QED
    BY Zenon, <2>2, <2>3
<1> QED
  BY Zenon, <1>4, <1>5

LEMMA SysWriteInv ==
  ASSUME Counting, IInv, NEW p \in Proc, NEW fd, sys_write(p, fd)
  PROVE  IInv'
<1>1. InUser(p) /\ UNCHANGED <<ofile, kpanic>> /\ file' = file
  BY Zenon DEF sys_write
<1>2. file \in [File -> FileRec] /\ pipes \in [Page -> PipeRec] /\ 1 \in Int /\ -1 \in Int
  BY DEF IInv, Types
<1>3. PICK f : f = argfd(p, fd)
  BY Zenon
<1>4. CASE f = None \/ ~file[f].writable \/ file[f].type # "PIPE"
  <2>1. PICK r \in {1, -1} : Return(p, r) /\ pipes' = pipes
    BY Zenon, <1>3, <1>4 DEF sys_write
  <2>2. r \in Int
    BY Zenon, <1>2
  <2> QED
    BY SMTT(30), <1>1, <1>2, <2>1, <2>2, ReturnInv
<1>5. CASE ~(f = None \/ ~file[f].writable \/ file[f].type # "PIPE")
  <2>1. f \in File /\ file[f] \in FileRec /\ FileOK(file[f])
    BY <1>3, <1>5, Argfd
  <2>2. PICK k : k = file[f].pipe
    BY Zenon
  <2>3. k \in Page
    BY Zenon, <1>5, <2>1, <2>2 DEF FileOK
  <2>4. pipes[k] \in PipeRec
    BY Zenon, <1>2, <2>3
  <2>5. PICK m : m = IF pipes[k].readopen THEN pipes[k].n + 1 ELSE pipes[k].n
    BY Zenon
  <2>6. m \in Nat
    BY <2>4, <2>5 DEF PipeRec
  <2>7. PICK r \in {1, -1} : Return(p, r) /\ pipes' = [pipes EXCEPT ![k].n = m]
    BY Zenon, <1>3, <1>5, <2>2, <2>5 DEF sys_write
  <2>8. r \in Int
    BY Zenon, <1>2
  <2>9. /\ pipes' \in [Page -> PipeRec]
        /\ \A g \in Page : /\ pipes'[g].used = pipes[g].used
                           /\ pipes'[g].readopen = pipes[g].readopen
                           /\ pipes'[g].writeopen = pipes[g].writeopen
    BY Zenon, <1>2, <2>3, <2>6, <2>7, PipeBytes
  <2> QED
    BY SMTT(30), <1>1, <1>2, <2>7, <2>8, <2>9, ReturnInv
<1> QED
  BY Zenon, <1>4, <1>5

----------------------------------------------------------------------------
(* kfork gives the child q, which has no files, p's. *)
LEMMA KforkInv ==
  ASSUME Counting, IInv, NEW p \in Proc, NEW q \in Proc \ {p}, InUser(q), Open(q) = {},
         kfork_files(p, q), UNCHANGED <<pipes, sys, kpanic>>
  PROVE  IInv'
<1>1. /\ ofile \in [Proc -> [Fd -> File \cup {None}]] /\ ofile[p] \in [Fd -> File \cup {None}]
      /\ file \in [File -> FileRec] /\ sys \in [Proc -> CallRec] /\ sys[q] \in CallRec
      /\ CallOK(sys[q]) /\ Uses(file, ofile[p], sys[p]) /\ Uses(file, ofile[q], sys[q])
  BY Zenon DEF IInv, Types, Valid
<1>2. /\ ofile' = [ofile EXCEPT ![q] = ofile[p]]
      /\ file' = [f \in File |->
           [file[f] EXCEPT !.ref = @ + Cardinality(Owns(ofile[p], f))]]
  BY Zenon DEF kfork_files, Owns
<1>3. /\ ofile'[q] = ofile[p] /\ Only(q, ofile, ofile')
      /\ ofile' \in [Proc -> [Fd -> File \cup {None}]]
  BY Zenon, <1>1, <1>2 DEF Only
<1>4. sys[q].todo = <<>> /\ sys[q].ff = FD_NONE /\ sys[q].k = "user" /\ NoPipe(sys[q])
  BY Zenon, UserFacts
<1>5. ASSUME NEW h \in File
      PROVE  /\ Cardinality(Owns(ofile[p], h)) \in Nat /\ file[h].ref \in Nat
             /\ file[h] \in FileRec /\ file'[h] \in FileRec
             /\ file'[h].ref = file[h].ref + Cardinality(Owns(ofile[p], h))
             /\ file'[h].type = file[h].type /\ file'[h].pipe = file[h].pipe
             /\ file'[h].writable = file[h].writable
  <2> DEFINE a == Cardinality(Owns(ofile[p], h))
  <2>1. a \in Nat /\ file[h] \in FileRec
    BY Zenon, <1>1, <1>4, MineCounts
  <2>2. file'[h] = [file[h] EXCEPT !.ref = @ + a]
    BY Zenon, <1>2
  <2> HIDE DEF a
  <2>3. /\ file[h].ref \in Nat /\ file'[h] \in FileRec /\ file'[h].ref = file[h].ref + a
        /\ file'[h].type = file[h].type /\ file'[h].pipe = file[h].pipe
        /\ file'[h].writable = file[h].writable
    BY <2>1, <2>2 DEF FileRec
  <2> QED
    BY Zenon, <2>1, <2>3 DEF a
<1>6. file' \in [File -> FileRec]
  <2>1. file' = [f \in File |-> file'[f]]
    BY Zenon, <1>2
  <2> QED
    BY Zenon, <1>5, <2>1
<1>7. ASSUME NEW h \in File PROVE FileOK(file'[h])
  <2>1. FileOK(file[h])
    BY Zenon DEF IInv, Valid
  <2>2. CASE file[h].type = "NONE"
    <3>1. Owns(ofile[p], h) = {}
      BY ZenonT(40), <1>1, <2>2, NoneIsNone DEF Owns, Uses
    <3>2. Cardinality(Owns(ofile[p], h)) = 0
      BY Zenon, <3>1 DEF Counting, CountEmpty
    <3>3. file'[h].ref = file[h].ref
      BY <1>5, <3>2
    <3> QED
      BY Zenon, <1>5, <2>1, <3>3 DEF FileOK
  <2>3. CASE file[h].type # "NONE"
    <3>1. file[h].ref # 0
      BY Zenon, <2>1, <2>3 DEF FileOK
    <3>2. file'[h].ref # 0
      BY <1>5, <3>1
    <3> QED
      BY Zenon, <1>5, <2>1, <2>3, <3>2 DEF FileOK
  <2> QED
    BY Zenon, <2>2, <2>3
<1>8. Uses(file', ofile'[q], sys[q])
  <2>1. \A e \in Fd : ofile[p][e] # None => file'[ofile[p][e]].type # "NONE"
    <3>1. \A e \in Fd : ofile[p][e] # None =>
            ofile[p][e] \in File /\ file[ofile[p][e]].type # "NONE"
      BY Zenon, <1>1 DEF Uses
    <3>2. \A h \in File : file'[h].type = file[h].type
      BY Zenon, <1>5
    <3> QED
      BY Zenon, <3>1, <3>2
  <2>2. ~sys[q].op /\ sys[q].k # "pipealloc" /\ sys[q].k # "pipe_fds"
    BY Zenon, <1>1, <1>4 DEF CallOK, NoPipe
  <2> QED
    BY Zenon, <1>3, <2>1, <2>2 DEF Uses
<1>9. ASSUME NEW h \in File
      PROVE  file'[h].ref + Mine(ofile[q], sys[q], h) = file[h].ref + Mine(ofile'[q], sys[q], h)
  <2> DEFINE a == Cardinality(Owns(ofile[p], h))
  <2>1. Owns(ofile[q], h) = {}
    BY Zenon, NoneIsNone DEF Owns, Open
  <2>2. Cardinality(Owns(ofile[q], h)) = 0 /\ Named(sys[q], h) = 0
    BY Zenon, <1>4, <2>1, Unnamed DEF Counting, CountEmpty
  <2>3. Mine(ofile[q], sys[q], h) = 0 + 0 /\ Mine(ofile'[q], sys[q], h) = a + 0
    BY Zenon, <1>3, <2>2 DEF Mine
  <2>4. a \in Nat /\ file[h].ref \in Nat /\ file'[h].ref = file[h].ref + a
    BY Zenon, <1>5
  <2> HIDE DEF a
  <2>5. file'[h].ref + (0 + 0) = file[h].ref + (a + 0)
    BY <2>4
  <2> QED
    BY Zenon, <2>3, <2>5
<1>10. /\ \A h \in File : file'[h].type # file[h].type => file[h].ref = 0
       /\ \A h \in File : \A g, wr : IsEnd(file'[h], g, wr) <=> IsEnd(file[h], g, wr)
  BY Zenon, <1>5 DEF IsEnd
<1>11. sys' = [sys EXCEPT ![q] = sys[q]] /\ pipes' = pipes /\ kpanic' = kpanic
  BY Zenon, <1>1
<1> QED
  BY ZenonT(40), <1>1, <1>3, <1>4, <1>6, <1>7, <1>8, <1>9, <1>10, <1>11, CallInv

(* A panic of kexit changes nothing here, and so does a step of others. *)
LEMMA SameInv ==
  ASSUME IInv, UNCHANGED <<file, ofile, pipes, sys>>, kpanic' \notin {"fileclose", "filedup"}
  PROVE  IInv'
<1>1. (Types' <=> Types) /\ (Valid' <=> Valid)
  BY Zenon DEF Types, Valid
<1>2. ASSUME NEW f PROVE Holders(f)' = Holders(f)
  BY Zenon DEF Holders
<1>3. ASSUME NEW g, NEW wr PROVE Ends(g, wr)' = Ends(g, wr)
  BY Zenon DEF Ends
<1>4. Exact'
  BY Zenon, <1>2, <1>3 DEF IInv, Exact, EndsExact
<1> QED
  BY Zenon, <1>1, <1>4 DEF IInv, Types, Valid

LEMMA NextInv ==
  ASSUME Counting, IInv, [FileNext]_fvars
  PROVE  IInv'
<1>1. CASE kexit_panic
  BY Zenon, <1>1, SameInv DEF kexit_panic
<1>2. CASE UNCHANGED fvars
  BY Zenon, <1>2, SameInv DEF fvars, IInv
<1>3. ASSUME NEW p \in Proc, NEW fd, sys_close(p, fd) \/ sys_dup(p, fd) \/ sys_read(p, fd)
                                       \/ sys_write(p, fd)
      PROVE  IInv'
  BY Zenon, <1>3, SysCloseInv, SysDupInv, SysReadInv, SysWriteInv
<1>4. ASSUME NEW p \in Proc, Calls(p) PROVE IInv'
  <2>1. CASE \E found, rd, wr \in BOOLEAN : sys_open(p, found, rd, wr)
    BY Zenon, <2>1, SysOpenInv
  <2>2. CASE \E q \in Proc \ {p} :
               /\ InUser(p) /\ InUser(q) /\ Open(q) = {}
               /\ kfork_files(p, q) /\ UNCHANGED <<pipes, sys, kpanic>>
    BY Zenon, <2>2, KforkInv
  <2>3. CASE sys_pipe(p)
    BY Zenon, <2>3, SysPipeInv
  <2> QED
    BY Zenon, <1>3, <1>4, <2>1, <2>2, <2>3 DEF Calls
<1>5. ASSUME NEW p \in Proc, Kernel(p) PROVE IInv'
  BY Zenon, <1>5, FilecloseNextInv, PipecloseInv, IputInv, PipeallocInv, PipeFdsInv DEF Kernel
<1> QED
  BY Zenon, <1>1, <1>2, <1>4, <1>5 DEF FileNext

LEMMA InitInv ==
  ASSUME Counting
  PROVE  FileInit => IInv
<1> SUFFICES ASSUME FileInit PROVE IInv
  BY Zenon
<1>1. /\ file = [f \in File |-> FD_NONE] /\ sys = [p \in Proc |-> User]
      /\ ofile = [p \in Proc |-> [fd \in Fd |-> None]]
      /\ pipes = [g \in Page |-> [used |-> FALSE, readopen |-> FALSE, writeopen |-> FALSE, n |-> 0]]
      /\ kpanic = ""
  BY Zenon DEF FileInit
<1>2. FD_NONE \in FileRec /\ FileOK(FD_NONE) /\ FD_NONE.ref = 0 /\ FD_NONE.type = "NONE"
  BY Zenon, NoFile
<1>3. /\ User \in CallRec /\ User.k = "user" /\ User.todo = <<>> /\ User.ff = FD_NONE
      /\ ~User.op
  BY <1>2 DEF User, CallRec
<1>4. CallOK(User)
  <2>1. Len(<<>>) <= 2
    OBVIOUS
  <2> QED
    BY <1>2, <1>3, <2>1 DEF CallOK
<1>5. Types
  <2>1. [used |-> FALSE, readopen |-> FALSE, writeopen |-> FALSE, n |-> 0] \in PipeRec
    BY DEF PipeRec
  <2> QED
    BY Zenon, <1>1, <1>2, <1>3, <2>1 DEF Types
<1>6. Valid
  <2>1. User.k # "pipealloc" /\ User.k # "pipe_fds"
    BY <1>3
  <2>2. ASSUME NEW p \in Proc PROVE Uses(file, ofile[p], sys[p])
    <3>1. sys[p] = User /\ \A fd \in Fd : ofile[p][fd] = None
      BY Zenon, <1>1
    <3> QED
      BY Zenon, <1>3, <2>1, <3>1 DEF Uses
  <2> QED
    BY Zenon, <1>1, <1>2, <1>4, <2>2 DEF Valid
<1>7. ASSUME NEW f \in File PROVE file[f].ref = Holders(f)
  <2>1. Descs(ofile, f) = {}
    BY Zenon, <1>1, NoneIsNone DEF Descs
  <2>2. Todos(sys, f) = {}
    <3>1. ASSUME NEW p \in Proc, NEW i PROVE i \notin DOMAIN sys[p].todo
      <4>1. sys[p].todo = <<>>
        BY Zenon, <1>1, <1>3
      <4> QED
        BY <4>1
    <3>2. \A d \in Proc \X (1..2) : d[1] \in Proc
      OBVIOUS
    <3> QED
      BY Zenon, <3>1, <3>2 DEF Todos
  <2>3. Rfs(sys, f) = {} /\ Wfs(sys, f) = {}
    BY Zenon, <1>1, <1>3 DEF Rfs, Wfs
  <2>4. Cardinality({}) = 0
    BY Zenon DEF Counting, CountEmpty
  <2>5. Refs(ofile, sys, f) = 0
    BY <2>1, <2>2, <2>3, <2>4 DEF Refs
  <2> QED
    BY Zenon, <1>1, <1>2, <2>5, HoldersAre
<1>8. ASSUME NEW g \in Page PROVE EndsExact(g)
  <2>1. ASSUME NEW wr PROVE Ends(g, wr) = 0
    <3>1. FileEnds(file, g, wr) = {} /\ CallEnds(sys, g, wr) = {}
      BY Zenon, <1>1, <1>3, NoFile DEF FileEnds, CallEnds
    <3>2. Cardinality({}) = 0
      BY Zenon DEF Counting, CountEmpty
    <3>3. Ends(g, wr) = 0 + 0
      BY Zenon, <3>1, <3>2, EndsAre
    <3> QED
      BY <3>3
  <2>2. ~pipes[g].used /\ ~pipes[g].readopen /\ ~pipes[g].writeopen
    BY <1>1
  <2> QED
    BY Zenon, <2>1, <2>2 DEF EndsExact
<1> QED
  BY <1>1, <1>5, <1>6, <1>7, <1>8 DEF IInv, Exact

----------------------------------------------------------------------------
INSTANCE FiniteSetTheorems

(* What the lemmas assume of Cardinality and Min. *)
LEMMA LeastHolds == LeastExists
<1> SUFFICES ASSUME NEW S \in SUBSET Nat, S # {} PROVE Min(S) \in S
  BY Zenon DEF LeastExists
<1> DEFINE R == {ss \in Nat \X Nat : ss[1] < ss[2]}
<1>1. IsWellFoundedOn(R, Nat)
  BY NatLessThanWellFounded, Zenon DEF OpToRel
<1>2. PICK x \in S : \A y \in S : ~(<<y, x>> \in R)
  <2> HIDE DEF R
  <2> QED
    BY Zenon, <1>1, WFMin
<1>3. \A y \in S : x <= y
  <2> SUFFICES ASSUME NEW y \in S PROVE x <= y
    BY Zenon
  <2>1. x \in Nat /\ y \in Nat /\ <<y, x>> \notin R
    BY Zenon, <1>2
  <2> QED
    BY <2>1
<1> QED
  BY Zenon, <1>3 DEF Min

LEMMA CountingHolds == Counting
<1>1. CountEmpty
  BY Zenon, FS_EmptySet DEF CountEmpty
<1>2. CountType
  BY Zenon, FS_CardinalityType DEF CountType
<1>3. CountSubset
  BY Zenon, FS_Subset DEF CountSubset
<1>4. CountAdd
  BY Zenon, FS_AddElement DEF CountAdd
<1>5. CountSplit
  <2> SUFFICES ASSUME NEW S, NEW T, IsFiniteSet(S), IsFiniteSet(T), S \cap T = {}
               PROVE  /\ IsFiniteSet(S \cup T)
                      /\ Cardinality(S \cup T) = Cardinality(S) + Cardinality(T)
    BY Zenon DEF CountSplit
  <2>1. /\ IsFiniteSet(S \cup T)
        /\ Cardinality(S \cup T) = Cardinality(S) + Cardinality(T) - Cardinality(S \cap T)
    BY Zenon, FS_Union
  <2>2. Cardinality(S) \in Nat /\ Cardinality(T) \in Nat /\ Cardinality(S \cap T) = 0
    BY Zenon, FS_CardinalityType, FS_EmptySet
  <2> QED
    BY <2>1, <2>2
<1>6. CountRow
  <2> SUFFICES ASSUME NEW x, NEW S, IsFiniteSet(S)
               PROVE  IsFiniteSet({x} \X S) /\ Cardinality({x} \X S) = Cardinality(S)
    BY Zenon DEF CountRow
  <2>1. IsFiniteSet({x}) /\ Cardinality({x}) = 1
    BY Zenon, FS_Singleton
  <2>2. IsFiniteSet({x} \X S) /\ Cardinality({x} \X S) = Cardinality({x}) * Cardinality(S)
    BY Zenon, <2>1, FS_Product
  <2>3. Cardinality(S) \in Nat
    BY Zenon, FS_CardinalityType
  <2> QED
    BY SMTT(30), <2>1, <2>2, <2>3
<1>7. FiniteTables
  <2>1. IsFiniteSet(Fd) /\ IsFiniteSet(File) /\ IsFiniteSet(1..2)
    <3>1. 0 \in Int /\ NOFILE - 1 \in Int /\ NFILE - 1 \in Int /\ 1 \in Int /\ 2 \in Int
      BY FileTableAssumption
    <3> QED
      BY Zenon, <3>1, FS_Interval DEF Fd, File
  <2> QED
    BY ZenonT(40), <2>1, FileTableAssumption, FS_Product DEF FiniteTables
<1> QED
  BY ZenonT(40), <1>1, <1>2, <1>3, <1>4, <1>5, <1>6, <1>7, LeastHolds DEF Counting

LEMMA Invariance == FileSpec => []IInv
<1>1. FileInit => IInv
  BY Zenon, CountingHolds, InitInv
<1>2. IInv /\ [FileNext]_fvars => IInv'
  BY Zenon, CountingHolds, NextInv
<1> QED
  BY <1>1, <1>2, PTL DEF FileSpec

(***************************************************************************)
(* Whatever the programs do, a file's ref is the number of descriptors and *)
(* of calls on their way that refer to it, so that fileclose and filedup   *)
(* never panic; a pipe's end is open exactly while a file of that end, or  *)
(* its pipeclose on the way, exists; and a pipe's page is allocated        *)
(* exactly while one of its ends is open.                                  *)
(***************************************************************************)
THEOREM FileRefsExact == FileSpec => []RefsExact
  BY Implied, Invariance, PTL

(***************************************************************************)
(* fileclose begins no transaction inside the one sys_open is in: the file *)
(* it gives back when no descriptor is free has no inode to put yet, since *)
(* a file without a type has nobody else that could give it one.           *)
(***************************************************************************)
THEOREM NoOpInOp == FileSpec => []NoNestedOp
  BY Implied, Invariance, PTL

=============================================================================
