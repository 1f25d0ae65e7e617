-------------------------------- MODULE Pipe --------------------------------
(***************************************************************************)
(* One pipe of kernel/pipe.c, with the processes that hold its two ends.   *)
(* pi->lock is a variable: a call holds it over its loop, byte by byte,    *)
(* while kill() may set the killed flag of the caller (under p->lock).     *)
(* nread and nwrite are uint and wrap.                                     *)
(***************************************************************************)
EXTENDS Integers, FiniteSets, Sequences

CONSTANTS
  Reader, Writer,   \* processes with a descriptor of the read, of the write end
  Byte,
  PIPESIZE,
  UINT,             \* the number of values of a uint, a multiple of PIPESIZE
  Counts,           \* the n of a read or write
  Killable,         \* the processes that kill is aimed at
  MaxKilled,        \* bound: the processes that are killed
  None              \* no process, channel 0

ASSUME PipeAssumption ==
  /\ IsFiniteSet(Reader) /\ IsFiniteSet(Writer) /\ Reader \cap Writer = {}
  /\ None \notin Reader \cup Writer \cup {"nread", "nwrite"}
  /\ PIPESIZE \in Nat \ {0} /\ UINT \in Nat /\ UINT % PIPESIZE = 0 /\ PIPESIZE < UINT
  /\ Counts \subseteq Nat /\ Killable \subseteq Reader \cup Writer
  /\ MaxKilled \in Nat

Proc == Reader \cup Writer

VARIABLES
  data, nread, nwrite, readopen, writeopen,   \* struct pipe
  lock,      \* holder of pi->lock, or None
  freed,     \* the page went back to kfree
  open,      \* the processes that still hold their descriptor
  pc, i, n,  \* of a call: where it is, its i and n
  chan,      \* p->chan: "nread", "nwrite" or None
  killed,
  user,      \* the byte copied out last, in user memory
  silent     \* history: a write put bytes and returned -1, with no wakeup since

ring == <<data, nread, nwrite>>
vars == <<data, nread, nwrite, readopen, writeopen, lock, freed, open, pc, i, n,
          chan, killed, user, silent>>

Goto(p, l) == pc' = [pc EXCEPT ![p] = l]

MutNoWakeup(c) == UNCHANGED chan
wakeup(c) == chan' = [q \in Proc |-> IF chan[q] = c THEN None ELSE chan[q]]

(* The locals of a call end with it. *)
Return(p) ==
  /\ Goto(p, "idle")
  /\ i' = [i EXCEPT ![p] = 0] /\ n' = [n EXCEPT ![p] = 0]

(* The tests of pipewrite and piperead on the indices. *)
MutFullOnWrap == nwrite = (nread + PIPESIZE)
Full == nwrite = (nread + PIPESIZE) % UINT
Empty == nread = nwrite

----------------------------------------------------------------------------
(* read(fd, .., k) and write(fd, .., k), up to acquire(&pi->lock); usertrap *)
(* lets no killed process call.                                             *)
call(p, k) ==
  /\ pc[p] = "idle" /\ p \in open /\ ~killed[p]
  /\ n' = [n EXCEPT ![p] = k]
  /\ i' = [i EXCEPT ![p] = 0]
  /\ Goto(p, "acquire")
  /\ UNCHANGED <<ring, readopen, writeopen, lock, freed, open, chan, killed,
                 user, silent>>

acquire(p) ==
  /\ pc[p] = "acquire" /\ lock = None
  /\ lock' = p
  /\ Goto(p, IF p \in Writer THEN "pipewrite" ELSE "piperead")
  /\ UNCHANGED <<ring, readopen, writeopen, freed, open, i, n, chan, killed,
                 user, silent>>

(* sleep() returns after wakeup, or after a kill, p->chan then still set. *)
sleep(p) ==
  /\ pc[p] = "sleep" /\ chan[p] = None
  /\ Goto(p, "acquire")
  /\ UNCHANGED <<ring, readopen, writeopen, lock, freed, open, i, n, chan,
                 killed, user, silent>>

----------------------------------------------------------------------------
(* pipewrite: the four ways one turn of its loop can go, and its end. *)
pipewrite_fails(p) ==
  /\ pc[p] = "pipewrite" /\ i[p] < n[p]
  /\ ~readopen \/ killed[p]
  /\ lock' = None
  /\ Return(p)
  /\ silent' = (silent \/ i[p] > 0)
  /\ UNCHANGED <<ring, readopen, writeopen, freed, open, chan, killed, user>>

pipewrite_full(p) ==
  /\ pc[p] = "pipewrite" /\ i[p] < n[p]
  /\ readopen /\ ~killed[p] /\ Full
  /\ chan' = [q \in Proc |-> IF q = p THEN "nwrite"
                             ELSE IF chan[q] = "nread" THEN None ELSE chan[q]]
  /\ lock' = None
  /\ Goto(p, "sleep")
  /\ silent' = FALSE
  /\ UNCHANGED <<ring, readopen, writeopen, freed, open, i, n, killed, user>>

pipewrite_byte(p) ==
  /\ pc[p] = "pipewrite" /\ i[p] < n[p]
  /\ readopen /\ ~killed[p] /\ ~Full
  /\ \E ch \in Byte : data' = [data EXCEPT ![nwrite % PIPESIZE] = ch]
  /\ nwrite' = (nwrite + 1) % UINT
  /\ i' = [i EXCEPT ![p] = @ + 1]
  /\ UNCHANGED <<nread, readopen, writeopen, lock, freed, open, pc, n, chan,
                 killed, user, silent>>

pipewrite_copyin(p) ==
  /\ pc[p] = "pipewrite" /\ i[p] < n[p]
  /\ readopen /\ ~killed[p] /\ ~Full
  /\ i' = [i EXCEPT ![p] = IF @ = 0 THEN -1 ELSE @]
  /\ Goto(p, "pipewrite_end")
  /\ UNCHANGED <<ring, readopen, writeopen, lock, freed, open, n, chan, killed,
                 user, silent>>

pipewrite_end(p) ==
  /\ pc[p] = "pipewrite_end" \/ (pc[p] = "pipewrite" /\ i[p] >= n[p])
  /\ wakeup("nread")
  /\ lock' = None
  /\ Return(p)
  /\ silent' = FALSE
  /\ UNCHANGED <<ring, readopen, writeopen, freed, open, killed, user>>

----------------------------------------------------------------------------
(* piperead: its waiting loop, then its copying loop, then its end. *)
MutSwappedFlag == Empty /\ ~readopen
ReadWaits == Empty /\ writeopen

piperead_killed(p) ==
  /\ pc[p] = "piperead" /\ ReadWaits /\ killed[p]
  /\ lock' = None
  /\ Return(p)
  /\ UNCHANGED <<ring, readopen, writeopen, freed, open, chan, killed, user,
                 silent>>

piperead_wait(p) ==
  /\ pc[p] = "piperead" /\ ReadWaits /\ ~killed[p]
  /\ chan' = [chan EXCEPT ![p] = "nread"]
  /\ lock' = None
  /\ Goto(p, "sleep")
  /\ UNCHANGED <<ring, readopen, writeopen, freed, open, i, n, killed, user,
                 silent>>

piperead_ready(p) ==
  /\ pc[p] = "piperead" /\ ~ReadWaits
  /\ Goto(p, "piperead_copy")
  /\ UNCHANGED <<ring, readopen, writeopen, lock, freed, open, i, n, chan,
                 killed, user, silent>>

piperead_byte(p) ==
  /\ pc[p] = "piperead_copy" /\ i[p] < n[p] /\ ~Empty
  /\ user' = data[nread % PIPESIZE]
  /\ nread' = (nread + 1) % UINT
  /\ i' = [i EXCEPT ![p] = @ + 1]
  /\ UNCHANGED <<data, nwrite, readopen, writeopen, lock, freed, open, pc, n,
                 chan, killed, silent>>

piperead_copyout(p) ==
  /\ pc[p] = "piperead_copy" /\ i[p] < n[p] /\ ~Empty
  /\ i' = [i EXCEPT ![p] = IF @ = 0 THEN -1 ELSE @]
  /\ Goto(p, "piperead_end")
  /\ UNCHANGED <<ring, readopen, writeopen, lock, freed, open, n, chan, killed,
                 user, silent>>

piperead_end(p) ==
  /\ pc[p] = "piperead_end" \/ (pc[p] = "piperead_copy" /\ (i[p] >= n[p] \/ Empty))
  /\ wakeup("nwrite")
  /\ lock' = None
  /\ Return(p)
  /\ UNCHANGED <<ring, readopen, writeopen, freed, open, killed, user, silent>>

----------------------------------------------------------------------------
(***************************************************************************)
(* close(), or exit: fileclose calls pipeclose when the last descriptor of *)
(* an end goes.                                                            *)
(***************************************************************************)
fileclose(p) ==
  /\ pc[p] = "idle" /\ p \in open
  /\ open' = open \ {p}
  /\ Goto(p, IF open' \cap (IF p \in Writer THEN Writer ELSE Reader) = {}
               THEN "pipeclose" ELSE "idle")
  /\ UNCHANGED <<ring, readopen, writeopen, lock, freed, i, n, chan, killed,
                 user, silent>>

MutCloseQuietly(p) ==
  /\ pc[p] = "pipeclose" /\ lock = None
  /\ IF p \in Writer THEN writeopen' = FALSE /\ UNCHANGED <<readopen, silent>>
     ELSE readopen' = FALSE /\ UNCHANGED <<writeopen, silent>>
  /\ freed' = (freed \/ ~(readopen' \/ writeopen'))
  /\ Goto(p, "idle")
  /\ UNCHANGED <<ring, lock, open, i, n, chan, killed, user>>

pipeclose(p) ==
  /\ pc[p] = "pipeclose" /\ lock = None
  /\ IF p \in Writer
       THEN writeopen' = FALSE /\ wakeup("nread") /\ silent' = FALSE /\ UNCHANGED readopen
       ELSE readopen' = FALSE /\ wakeup("nwrite") /\ UNCHANGED <<writeopen, silent>>
  /\ freed' = (freed \/ ~(readopen' \/ writeopen'))
  /\ Goto(p, "idle")
  /\ UNCHANGED <<ring, lock, open, i, n, killed, user>>

(* kkill: a process that is asleep runs again, its channel still set; one   *)
(* on its way into sleep(), or anywhere else, goes on as it is.             *)
kkill(p) ==
  /\ p \in Killable \cap open /\ ~killed[p]
  /\ Cardinality({q \in Proc : killed[q]}) < MaxKilled
  /\ killed' = [killed EXCEPT ![p] = TRUE]
  /\ UNCHANGED pc \/ (pc[p] = "sleep" /\ Goto(p, "acquire"))
  /\ UNCHANGED <<ring, readopen, writeopen, lock, freed, open, i, n, chan, user,
                 silent>>

----------------------------------------------------------------------------
(* pipealloc; the page's bytes are what kalloc filled it with. *)
Init ==
  /\ \E junk \in Byte : data = [k \in 0..(PIPESIZE - 1) |-> junk] /\ user = junk
  /\ nread = 0 /\ nwrite = 0
  /\ readopen = TRUE /\ writeopen = TRUE
  /\ lock = None /\ freed = FALSE
  /\ open = Proc
  /\ pc = [p \in Proc |-> "idle"]
  /\ i = [p \in Proc |-> 0] /\ n = [p \in Proc |-> 0]
  /\ chan = [p \in Proc |-> None]
  /\ killed = [p \in Proc |-> FALSE]
  /\ silent = FALSE

pipewrite(p) ==
  \/ pipewrite_fails(p) \/ pipewrite_full(p) \/ pipewrite_byte(p)
  \/ pipewrite_copyin(p) \/ pipewrite_end(p)

piperead(p) ==
  \/ piperead_killed(p) \/ piperead_wait(p) \/ piperead_ready(p)
  \/ piperead_byte(p) \/ piperead_copyout(p) \/ piperead_end(p)

Progress(p) == sleep(p) \/ acquire(p) \/ pipewrite(p) \/ piperead(p) \/ pipeclose(p)

Next ==
  \E p \in Proc :
    \/ \E k \in Counts : call(p, k)
    \/ Progress(p) \/ fileclose(p) \/ kkill(p)

Spec == Init /\ [][Next]_vars

(* A process in a call is scheduled again and again, and the spin-lock is    *)
(* free again and again; no process is forced to make a call.                *)
Fairness == \A p \in Proc : SF_vars(Progress(p))
FairSpec == Spec /\ Fairness

----------------------------------------------------------------------------
Locked == {"pipewrite", "pipewrite_end", "piperead", "piperead_copy", "piperead_end"}

(* The ring with its wrapping indices implements a bounded FIFO queue: no   *)
(* byte is lost, duplicated, reordered or overwritten.                      *)
Queue ==
  [k \in 1..((nwrite - nread) % UINT) |-> data[((nread + k - 1) % UINT) % PIPESIZE]]
Ring == INSTANCE Fifo WITH queue <- Queue, delivered <- user,
                           ropen <- readopen, wopen <- writeopen
IsFifo == Ring!Spec

(* A process with its channel set, in or before sleep(), has a reason to    *)
(* wait whenever pi->lock is free: the pipe is full and has a reader, or it *)
(* is empty and has a writer.  One exception is in the code: a write that   *)
(* was killed after some bytes returns -1 without a wakeup.                 *)
NoLostWakeup ==
  lock = None => \A p \in Proc : pc[p] = "sleep" =>
    /\ chan[p] = "nwrite" => Full /\ readopen
    /\ chan[p] = "nread" => writeopen /\ (Empty \/ silent)

(* read() returns 0 for a positive count only at the end of the stream:     *)
(* no writer is left and every byte was read.                               *)
ZeroIsEndOfFile ==
  [][\A p \in Reader : piperead_end(p) /\ n[p] > 0 /\ i[p] = 0
       => ~writeopen /\ Empty]_vars

(* When the other end is closed, a call in progress returns.                *)
ClosedEndReturns ==
  \A p \in Proc : []<>(pc[p] = "idle" \/ (IF p \in Writer THEN readopen ELSE writeopen))

============================================================================
