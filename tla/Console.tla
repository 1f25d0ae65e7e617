------------------------------ MODULE Console ------------------------------
(***************************************************************************)
(* The console: kernel/console.c over kernel/uart.c.  The handler uartintr *)
(* (one at a time, by plic_claim) and the processes in consoleread and     *)
(* consolewrite interleave; the UART receives and transmits on its own.    *)
(* uartwrite and the handler's echo both write the transmit register after *)
(* they saw it idle, with no lock between them.                            *)
(***************************************************************************)
EXTENDS Integers, FiniteSets, Sequences

CONSTANTS
  Proc,
  Text,             \* characters without a meaning for consoleintr
  Ignored,          \* 0, and C('P'), which only calls procdump
  NL, CR, EOF, ERASE, KILL,   \* '\n', '\r', C('D'), C('H'), C('U')
  INPUT_BUF_SIZE,
  UINT,             \* the number of values of a uint, a multiple of INPUT_BUF_SIZE
  CHUNK,            \* sizeof(buf) of consolewrite
  Counts,           \* the n of a read or write
  MaxRx,            \* bound: characters that wait in the UART
  Workload,         \* records: who reads, who writes, who is killed, what is typed,
                    \* how much of it, and the newlines typed and read before
  None

ASSUME ConsoleAssumption ==
  /\ IsFiniteSet(Proc) /\ None \notin Proc /\ "intr" \notin Proc /\ None # "intr"
  /\ NL \notin {ERASE, KILL}
  /\ Workload \subseteq [readers : SUBSET Proc, writers : SUBSET Proc, killable : SUBSET Proc,
                          keys : SUBSET (Text \cup Ignored \cup {NL, CR, EOF, ERASE, KILL}),
                          typed : Nat, before : Nat]
  /\ INPUT_BUF_SIZE \in Nat \ {0} /\ UINT \in Nat /\ UINT % INPUT_BUF_SIZE = 0
  /\ INPUT_BUF_SIZE < UINT
  /\ CHUNK \in Nat \ {0} /\ Counts \subseteq Nat /\ MaxRx \in Nat

VARIABLES
  buf, r, w, e,      \* struct cons
  lock,              \* holder of cons.lock: a process, "intr" or None
  tx_lock,           \* holder of the sleep-lock, or None
  rx,                \* UART: how many characters wait; each is chosen when read
  thr, tx_ip,        \* UART: bytes in the transmit FIFO; its interrupt is pending
  hpc, c, echo,      \* uartintr: where it is, the character, bytes left to echo
  pc, n, i, end,     \* of a call: where it is, its n, bytes done, end of the chunk
  chan, killed,
  load,              \* the workload; load.typed counts down
  sent               \* history: bytes of the call that entered the FIFO

cons == <<buf, r, w, e>>
uart == <<rx, thr, tx_ip, load>>
intr == <<hpc, c, echo>>
call == <<pc, n, i, end, sent>>
vars == <<cons, lock, tx_lock, uart, intr, call, chan, killed>>

Inc(k) == (k + 1) % UINT
Dec(k) == (k - 1) % UINT
wakeup(ch) == chan' = [p \in Proc |-> IF chan[p] = ch THEN None ELSE chan[p]]
sleep_prepare(p, ch) == chan' = [chan EXCEPT ![p] = ch]
Goto(p, l) == pc' = [pc EXCEPT ![p] = l]

----------------------------------------------------------------------------
(* The UART.  uartinit enables its FIFO of 16 bytes; TX_IDLE says that the  *)
(* FIFO is empty.  An interrupt is raised when it becomes empty; reading    *)
(* ISR clears it, unless a received character is what ISR reports.          *)
MutNoFifo == 1
FIFO == 16
TX_IDLE == thr = 0

(* WriteReg(THR, ..): a byte that finds the FIFO full is lost. *)
WriteTHR == thr' = (IF thr < FIFO THEN thr + 1 ELSE thr) /\ tx_ip' = FALSE

Receive ==
  /\ rx < MaxRx /\ load.typed > 0
  /\ rx' = rx + 1
  /\ load' = [load EXCEPT !.typed = @ - 1]
  /\ UNCHANGED <<cons, lock, tx_lock, thr, tx_ip, intr, call, chan, killed>>

Transmit ==
  /\ thr > 0
  /\ thr' = thr - 1
  /\ tx_ip' = (thr' = 0)
  /\ UNCHANGED <<cons, lock, tx_lock, rx, load, intr, call, chan, killed>>

----------------------------------------------------------------------------
(* uartintr: ReadReg(ISR), the wakeup of a waiting transmitter, then a turn *)
(* of consoleintr for each character.                                       *)
uartintr ==
  /\ hpc = "idle" /\ (tx_ip \/ rx > 0)
  /\ tx_ip' \in {FALSE, tx_ip /\ rx > 0}
  /\ hpc' = "tx"
  /\ UNCHANGED <<cons, lock, tx_lock, rx, thr, load, c, echo, call, chan, killed>>

MutReceiveFirst ==
  /\ hpc = "tx"
  /\ IF TX_IDLE /\ rx = 0 THEN wakeup("tx_chan") ELSE UNCHANGED chan
  /\ hpc' = "rx"
  /\ UNCHANGED <<cons, lock, tx_lock, uart, c, echo, call, killed>>

uartintr_tx ==
  /\ hpc = "tx"
  /\ IF TX_IDLE THEN wakeup("tx_chan") ELSE UNCHANGED chan
  /\ hpc' = "rx"
  /\ UNCHANGED <<cons, lock, tx_lock, uart, c, echo, call, killed>>

LSR_RX_READY == rx > 0

uartgetc ==
  /\ hpc = "rx"
  /\ IF ~LSR_RX_READY THEN hpc' = "idle" /\ UNCHANGED <<rx, c>>
     ELSE rx' = rx - 1 /\ c' \in load.keys /\ hpc' = "consoleintr"
  /\ UNCHANGED <<cons, lock, tx_lock, thr, tx_ip, load, echo, call, chan, killed>>

consoleintr ==
  /\ hpc = "consoleintr" /\ lock = None
  /\ lock' = "intr"
  /\ hpc' = "switch"
  /\ UNCHANGED <<cons, tx_lock, uart, c, echo, call, chan, killed>>

(* release(&cons.lock) and back to the loop of uartintr; c ends there. *)
Release == lock' = None /\ hpc' = "rx" /\ c' = NL

(* A character goes from the line, and consputc(BACKSPACE) echoes three.    *)
Backspace == e' = Dec(e) /\ echo' = 3 /\ hpc' = "echo" /\ UNCHANGED <<lock, c>>

Erasable == e # w

consoleintr_erase ==
  /\ hpc = "switch" /\ c = ERASE
  /\ IF Erasable THEN Backspace ELSE Release /\ UNCHANGED <<e, echo>>
  /\ UNCHANGED <<buf, r, w, tx_lock, uart, call, chan, killed>>

consoleintr_kill ==
  /\ hpc = "switch" /\ c = KILL
  /\ IF Erasable /\ buf[Dec(e) % INPUT_BUF_SIZE] # NL
       THEN Backspace ELSE Release /\ UNCHANGED <<e, echo>>
  /\ UNCHANGED <<buf, r, w, tx_lock, uart, call, chan, killed>>

MutRoomOnWrap == e < r + INPUT_BUF_SIZE
HasRoom == (e - r) % UINT < INPUT_BUF_SIZE

consoleintr_default ==
  /\ hpc = "switch" /\ c \notin {ERASE, KILL}
  /\ IF c \notin Ignored /\ HasRoom
       THEN echo' = 1 /\ c' = (IF c = CR THEN NL ELSE c) /\ hpc' = "echo" /\ UNCHANGED lock
       ELSE Release /\ UNCHANGED echo
  /\ UNCHANGED <<cons, tx_lock, uart, call, chan, killed>>

(* uartputc_sync spins until the FIFO is empty, then writes.               *)
uartputc_sync_test ==
  /\ hpc = "echo" /\ TX_IDLE
  /\ hpc' = "put"
  /\ UNCHANGED <<cons, lock, tx_lock, uart, c, echo, call, chan, killed>>

uartputc_sync_put ==
  /\ hpc = "put"
  /\ WriteTHR
  /\ echo' = echo - 1
  /\ IF echo' = 0 /\ c = ERASE THEN Release
     ELSE /\ hpc' = IF echo' > 0 THEN "echo" ELSE IF c = KILL THEN "switch" ELSE "store"
          /\ UNCHANGED <<lock, c>>
  /\ UNCHANGED <<cons, tx_lock, rx, load, call, chan, killed>>

(* A line that ended, or that filled the buffer, becomes readable. *)
consoleintr_store ==
  /\ hpc = "store"
  /\ buf' = [buf EXCEPT ![e % INPUT_BUF_SIZE] = c]
  /\ e' = Inc(e)
  /\ IF c \in {NL, EOF} \/ (e' - r) % UINT = INPUT_BUF_SIZE
       THEN w' = e' /\ wakeup("r") ELSE UNCHANGED <<w, chan>>
  /\ Release
  /\ UNCHANGED <<r, tx_lock, uart, echo, call, killed>>

----------------------------------------------------------------------------
(* A call starts; usertrap lets no killed process make one.                *)
sys_call(p, k) ==
  /\ pc[p] = "idle" /\ ~killed[p]
  /\ \/ p \in load.readers /\ Goto(p, "acquire")
     \/ p \in load.writers /\ Goto(p, "consolewrite")
  /\ n' = [n EXCEPT ![p] = k]
  /\ UNCHANGED <<cons, lock, tx_lock, uart, intr, i, end, chan, killed, sent>>

Return(p) ==
  /\ Goto(p, "idle")
  /\ n' = [n EXCEPT ![p] = 0] /\ i' = [i EXCEPT ![p] = 0]
  /\ end' = [end EXCEPT ![p] = 0] /\ sent' = [sent EXCEPT ![p] = 0]

(* Where each waiting loop goes on after sleep(). *)
Resume(p) ==
  Goto(p, CASE pc[p] = "sleep_r" -> "acquire" [] pc[p] = "sleep_tx" -> "uartwrite"
            [] pc[p] = "sleep_lk" -> "acquiresleep")
Asleep(p) == pc[p] \in {"sleep_r", "sleep_tx", "sleep_lk"}

sleep(p) ==
  /\ Asleep(p) /\ chan[p] = None
  /\ Resume(p)
  /\ UNCHANGED <<cons, lock, tx_lock, uart, intr, n, i, end, sent, chan, killed>>

(* kkill: a process that is asleep runs again, its channel still set; one   *)
(* that is still on its way into sleep() does not notice.                   *)
kkill(p) ==
  /\ p \in load.killable /\ ~killed[p]
  /\ killed' = [killed EXCEPT ![p] = TRUE]
  /\ UNCHANGED pc \/ (Asleep(p) /\ Resume(p))
  /\ UNCHANGED <<cons, lock, tx_lock, uart, intr, n, i, end, sent, chan>>

----------------------------------------------------------------------------
(* consoleread: acquire, then a turn of its loop per step; i counts what   *)
(* was copied, target - n of the code.                                     *)
acquire(p) ==
  /\ pc[p] = "acquire" /\ lock = None
  /\ lock' = p
  /\ Goto(p, "consoleread")
  /\ UNCHANGED <<cons, tx_lock, uart, intr, n, i, end, sent, chan, killed>>

Reading(p) == pc[p] = "consoleread" /\ i[p] < n[p]
Front == buf[r % INPUT_BUF_SIZE]

consoleread_wait(p) ==
  /\ Reading(p) /\ r = w
  /\ lock' = None
  /\ IF killed[p] THEN Return(p) /\ UNCHANGED chan
     ELSE sleep_prepare(p, "r") /\ Goto(p, "sleep_r") /\ UNCHANGED <<n, i, end, sent>>
  /\ UNCHANGED <<cons, tx_lock, uart, intr, killed>>

(* C('D') ends the read; it stays for the next one unless nothing was read. *)
consoleread_eof(p) ==
  /\ Reading(p) /\ r # w /\ Front = EOF
  /\ IF i[p] > 0 THEN UNCHANGED r ELSE r' = Inc(r)
  /\ lock' = None
  /\ Return(p)
  /\ UNCHANGED <<buf, w, e, tx_lock, uart, intr, chan, killed>>

(* Any other character: copied out, or lost when either_copyout fails.     *)
consoleread_char(p) ==
  /\ Reading(p) /\ r # w /\ Front # EOF
  /\ r' = Inc(r)
  /\ \/ /\ Front # NL
        /\ i' = [i EXCEPT ![p] = @ + 1]
        /\ UNCHANGED <<lock, pc, n, end, sent>>
     \/ lock' = None /\ Return(p)
  /\ UNCHANGED <<buf, w, e, tx_lock, uart, intr, chan, killed>>

consoleread_end(p) ==
  /\ pc[p] = "consoleread" /\ i[p] >= n[p]
  /\ lock' = None
  /\ Return(p)
  /\ UNCHANGED <<cons, tx_lock, uart, intr, chan, killed>>

consoleread(p) ==
  consoleread_wait(p) \/ consoleread_eof(p) \/ consoleread_char(p) \/ consoleread_end(p)

----------------------------------------------------------------------------
(* consolewrite: the next chunk, or the end (of the bytes, or of the memory *)
(* either_copyin can read).                                                 *)
consolewrite_chunk(p) ==
  /\ pc[p] = "consolewrite" /\ i[p] < n[p]
  /\ end' = [end EXCEPT ![p] = IF CHUNK > n[p] - i[p] THEN n[p] ELSE i[p] + CHUNK]
  /\ Goto(p, "acquiresleep")
  /\ UNCHANGED <<cons, lock, tx_lock, uart, intr, n, i, sent, chan, killed>>

consolewrite_end(p) ==
  /\ pc[p] = "consolewrite"
  /\ Return(p)
  /\ UNCHANGED <<cons, lock, tx_lock, uart, intr, chan, killed>>

(* acquiresleep(&tx_lock) and releasesleep, under the inner spin-lock.     *)
acquiresleep(p) ==
  /\ pc[p] = "acquiresleep"
  /\ IF tx_lock = None THEN tx_lock' = p /\ Goto(p, "uartwrite") /\ UNCHANGED chan
     ELSE sleep_prepare(p, "tx_lock") /\ Goto(p, "sleep_lk") /\ UNCHANGED tx_lock
  /\ UNCHANGED <<cons, lock, uart, intr, n, i, end, sent, killed>>

releasesleep(p) ==
  /\ pc[p] = "uartwrite" /\ i[p] >= end[p]
  /\ tx_lock' = None
  /\ wakeup("tx_lock")
  /\ Goto(p, "consolewrite")
  /\ UNCHANGED <<cons, lock, uart, intr, n, i, end, sent, killed>>

(* uartwrite: sleep_prepare, the status register, then the byte or sleep.  *)
uartwrite(p) ==
  /\ pc[p] = "uartwrite" /\ i[p] < end[p]
  /\ sleep_prepare(p, "tx_chan")
  /\ Goto(p, "uartwrite_test")
  /\ UNCHANGED <<cons, lock, tx_lock, uart, intr, n, i, end, sent, killed>>

uartwrite_test(p) ==
  /\ pc[p] = "uartwrite_test"
  /\ Goto(p, IF TX_IDLE THEN "uartwrite_put" ELSE "sleep_tx")
  /\ UNCHANGED <<cons, lock, tx_lock, uart, intr, n, i, end, sent, chan, killed>>

uartwrite_put(p) ==
  /\ pc[p] = "uartwrite_put"
  /\ WriteTHR
  /\ sent' = [sent EXCEPT ![p] = @ + (thr' - thr)]
  /\ i' = [i EXCEPT ![p] = @ + 1]
  /\ Goto(p, "uartwrite")
  /\ UNCHANGED <<cons, lock, tx_lock, rx, load, intr, n, end, chan, killed>>

consolewrite(p) ==
  \/ consolewrite_chunk(p) \/ consolewrite_end(p) \/ acquiresleep(p)
  \/ releasesleep(p) \/ uartwrite(p) \/ uartwrite_test(p) \/ uartwrite_put(p)

----------------------------------------------------------------------------
(* consoleinit and uartinit, and the newlines of before. *)
Init ==
  /\ buf = [k \in 0..(INPUT_BUF_SIZE - 1) |-> NL]
  /\ load \in Workload
  /\ r = load.before % UINT /\ w = r /\ e = r
  /\ lock = None /\ tx_lock = None
  /\ rx = 0 /\ thr = 0 /\ tx_ip = FALSE
  /\ hpc = "idle" /\ c = NL /\ echo = 0
  /\ pc = [p \in Proc |-> "idle"] /\ n = [p \in Proc |-> 0] /\ i = [p \in Proc |-> 0]
  /\ end = [p \in Proc |-> 0] /\ sent = [p \in Proc |-> 0]
  /\ chan = [p \in Proc |-> None] /\ killed = [p \in Proc |-> FALSE]

Handler ==
  \/ uartintr \/ uartintr_tx \/ uartgetc \/ consoleintr
  \/ consoleintr_erase \/ consoleintr_kill \/ consoleintr_default
  \/ uartputc_sync_test \/ uartputc_sync_put \/ consoleintr_store

Progress(p) == sleep(p) \/ acquire(p) \/ consoleread(p) \/ consolewrite(p)

Next ==
  \/ Receive \/ Transmit \/ Handler
  \/ \E p \in Proc :
       \/ Progress(p) \/ kkill(p)
       \/ \E k \in Counts : sys_call(p, k)

Spec == Init /\ [][Next]_vars

(* The UART transmits, interrupts are served, and processes in a call are  *)
(* scheduled again and again, with cons.lock free again and again.         *)
Fairness == WF_vars(Transmit) /\ SF_vars(Handler) /\ \A p \in Proc : SF_vars(Progress(p))
FairSpec == Spec /\ Fairness

----------------------------------------------------------------------------
(* The ring with its three wrapping indices implements a line discipline:   *)
(* what is between r and w is readable, what is between w and e is edited,  *)
(* and the ring loses, repeats or overwrites no character at any wrap.  (A  *)
(* character that a reader took is gone when its either_copyout fails.)     *)
Between(a, b) ==
  [k \in 1..((b - a) % UINT) |-> buf[((a + k - 1) % UINT) % INPUT_BUF_SIZE]]
Lines == INSTANCE LineInput WITH
  End <- {NL, EOF}, Room <- INPUT_BUF_SIZE,
  ready <- Between(r, w), line <- Between(w, e)
IsLineInput == Lines!Spec

(* Echo and uartwrite may both find the UART idle and both write: no byte   *)
(* of a write is lost all the same, because the FIFO takes both.            *)
InWrite == {"consolewrite", "acquiresleep", "sleep_lk", "uartwrite", "uartwrite_test",
            "uartwrite_put", "sleep_tx"}
NoByteLost == \A p \in Proc : pc[p] \in InWrite => sent[p] = i[p]

(* Nobody is forgotten.  A process in uartwrite sends its chunk and gives   *)
(* up tx_lock: when it sleeps it is woken, whatever is echoed.  (That       *)
(* another one then gets the sleep-lock is not promised.)  A readable       *)
(* character does not stay while a reader waits for it.                     *)
WaitersServed ==
  \A p \in Proc :
    /\ []<>(tx_lock # p)
    /\ p \in load.readers => []<>(r = w \/ pc[p] = "idle")
============================================================================
