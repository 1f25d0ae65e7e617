---------------------------- MODULE ConsoleProofs ----------------------------
(***************************************************************************)
(* The console loses no byte that uartwrite sends and implements           *)
(* LineInput, for any processes, any INPUT_BUF_SIZE that divides the range *)
(* of a uint, and any input.                                               *)
(*                                                                         *)
(* Neither holds step by step.  uartputc_sync and uartwrite write THR with *)
(* no lock between them, each after it saw the FIFO empty: Transmitter     *)
(* bounds what the FIFO can hold by who has still to write.  A character   *)
(* is stored after it was echoed, long after the test for room: Editing    *)
(* says why the room is still there.                                       *)
(***************************************************************************)
EXTENDS Console, TLAPS

Uint == 0..(UINT - 1)
After(a, k) == IF a + k < UINT THEN a + k ELSE a + k - UINT
Span(a, b) == IF b >= a THEN b - a ELSE b - a + UINT
Held(d, a, m) == [k \in 1..m |-> d[After(a, k - 1) % INPUT_BUF_SIZE]]
Char == Text \cup {NL, EOF}
Key == Text \cup Ignored \cup {NL, CR, EOF, ERASE, KILL}
Buffer == [0..(INPUT_BUF_SIZE - 1) -> Char]

Pcs == InWrite \cup {"idle", "acquire", "consoleread", "sleep_r"}
Hpcs == {"idle", "tx", "rx", "consoleintr", "switch", "echo", "put", "store"}

Types ==
  /\ buf \in Buffer /\ r \in Uint /\ w \in Uint /\ e \in Uint
  /\ lock \in Proc \cup {"intr", None} /\ tx_lock \in Proc \cup {None}
  /\ thr \in 0..2 /\ hpc \in Hpcs /\ echo \in Nat
  /\ pc \in [Proc -> Pcs] /\ i \in [Proc -> Int] /\ sent \in [Proc -> Int]
  /\ load \in [readers : SUBSET Proc, writers : SUBSET Proc, killable : SUBSET Proc,
               keys : SUBSET Key, typed : Nat, before : Nat]

(* Who holds cons.lock and tx_lock. *)
Locks ==
  /\ hpc \in {"switch", "echo", "put", "store"} <=> lock = "intr"
  /\ \A p \in Proc :
       /\ pc[p] = "consoleread" <=> lock = p
       /\ pc[p] \in {"uartwrite", "uartwrite_test", "uartwrite_put", "sleep_tx"}
            <=> tx_lock = p

(* Each of the two that may write THR has seen the FIFO empty since its     *)
(* last byte: it holds one byte at most while one of them is about to write *)
(* and none while both are.                                                 *)
Putting == \E p \in Proc : pc[p] = "uartwrite_put"
Transmitter ==
  /\ hpc = "put" \/ Putting => thr <= 1
  /\ hpc = "put" /\ Putting => thr = 0

Counted == \A p \in Proc : pc[p] \in InWrite \cup {"idle"} => sent[p] = i[p]

(* The three indices are in order, and the character that is being echoed   *)
(* has its place.                                                           *)
Editing ==
  /\ Span(r, w) + Span(w, e) <= INPUT_BUF_SIZE
  /\ hpc \in {"consoleintr", "switch"} => c \in Key
  /\ hpc \in {"echo", "put"} => echo >= 1
  /\ hpc \in {"echo", "put", "store"} /\ c \notin {ERASE, KILL} =>
       c \in Char /\ Span(r, w) + Span(w, e) < INPUT_BUF_SIZE
  /\ hpc = "store" => c \notin {ERASE, KILL}

IInv == Types /\ Locks /\ Transmitter /\ Counted /\ Editing

----------------------------------------------------------------------------
LEMMA Sizes ==
  /\ INPUT_BUF_SIZE \in Nat /\ INPUT_BUF_SIZE > 0 /\ UINT \in Nat /\ INPUT_BUF_SIZE < UINT
  /\ UINT % INPUT_BUF_SIZE = 0
BY ConsoleAssumption

(* What the code computes with % UINT. *)
LEMMA Wraps ==
  ASSUME NEW a \in Uint, NEW b \in Uint
  PROVE  /\ (b - a) % UINT = Span(a, b)
         /\ \A k \in Uint : (a + k) % UINT = After(a, k)
<1>1. UINT \in Nat /\ UINT > 0
  BY Sizes
<1>2. (b - a) % UINT = Span(a, b)
  <2>1. CASE b >= a
    BY <1>1, <2>1 DEF Uint, Span
  <2>2. CASE b < a
    BY <1>1, <2>2 DEF Uint, Span
  <2> QED
    BY <2>1, <2>2 DEF Uint
<1>3. ASSUME NEW k \in Uint PROVE (a + k) % UINT = After(a, k)
  <2>1. CASE a + k < UINT
    BY <1>1, <2>1 DEF Uint, After
  <2>2. CASE a + k >= UINT
    BY <1>1, <2>2 DEF Uint, After
  <2> QED
    BY <1>1, <2>1, <2>2 DEF Uint
<1> QED
  BY Zenon, <1>2, <1>3

LEMMA RingFacts ==
  ASSUME NEW a \in Uint, NEW b \in Uint
  PROVE  /\ After(a, 1) \in Uint /\ Span(a, b) \in 0..(UINT - 1)
         /\ Span(a, b) = 0 <=> a = b
         /\ After(a, Span(a, b)) = b
         /\ Span(a, b) + 1 < UINT => Span(a, After(b, 1)) = Span(a, b) + 1
         /\ a # b => Span(After(a, 1), b) = Span(a, b) - 1
         /\ \A k \in 0..(UINT - 2) : After(After(a, 1), k) = After(a, k + 1)
         /\ \A k \in Uint : After(a, k) \in Uint
         /\ After(a, 0) = a
BY Sizes DEF Uint, After, Span

(* Walking the span from a to b ends at b. *)
LEMMA SpanReaches ==
  ASSUME NEW a \in Uint, NEW b \in Uint
  PROVE  After(a, Span(a, b)) = b
BY RingFacts

LEMMA HeldType ==
  ASSUME NEW d \in Buffer, NEW a \in Uint, NEW m \in Nat, m < UINT
  PROVE  /\ Held(d, a, m) \in Seq(Char) /\ Len(Held(d, a, m)) = m
         /\ \A k \in 1..m : Held(d, a, m)[k] = d[After(a, k - 1) % INPUT_BUF_SIZE]
<1>1. \A k \in 1..m : After(a, k - 1) % INPUT_BUF_SIZE \in 0..(INPUT_BUF_SIZE - 1)
  <2> TAKE k \in 1..m
  <2>1. After(a, k - 1) \in Nat
    BY Sizes DEF Uint, After
  <2> QED
    BY <2>1, Sizes
<1>2. Held(d, a, m) \in [1..m -> Char]
  BY Zenon, <1>1 DEF Held, Buffer
<1> QED
  BY <1>2 DEF Held

(* A read takes the first character of what the ring holds. *)
LEMMA HeldTake ==
  ASSUME NEW d \in Buffer, NEW a \in Uint, NEW m \in Nat, m < UINT, m > 0
  PROVE  /\ Head(Held(d, a, m)) = d[a % INPUT_BUF_SIZE]
         /\ Tail(Held(d, a, m)) = Held(d, After(a, 1), m - 1)
<1>1. After(a, 1) \in Uint /\ After(a, 0) = a /\ m - 1 \in Nat /\ m - 1 < UINT
  BY Sizes DEF Uint, After
<1>2. \A k \in 1..(m - 1) : After(After(a, 1), k - 1) = After(a, k)
  BY Sizes DEF Uint, After
<1> DEFINE s == Held(d, a, m)
           t == Held(d, After(a, 1), m - 1)
<1>4. s \in Seq(Char) /\ Len(s) = m /\ t \in Seq(Char) /\ Len(t) = m - 1
  BY Zenon, <1>1, HeldType
<1>3. s[1] = d[a % INPUT_BUF_SIZE]
  <2>1. 1 \in 1..m /\ 1 - 1 = 0
    OBVIOUS
  <2> QED
    BY <1>1, <2>1, HeldType
<1>5. \A k \in 1..(m - 1) : t[k] = s[k + 1]
  <2> TAKE k \in 1..(m - 1)
  <2>1. k + 1 \in 1..m /\ (k + 1) - 1 = k
    OBVIOUS
  <2>2. s[k + 1] = d[After(a, k) % INPUT_BUF_SIZE]
    BY Zenon, <2>1, HeldType
  <2>3. t[k] = d[After(After(a, 1), k - 1) % INPUT_BUF_SIZE]
    BY Zenon, <1>1, HeldType
  <2> QED
    BY Zenon, <1>2, <2>2, <2>3
<1>6. Tail(s) = t /\ Head(s) = s[1]
  <2> HIDE DEF s, t
  <2> QED
    BY <1>4, <1>5
<1> QED
  BY Zenon, <1>3, <1>6

(* A multiple of INPUT_BUF_SIZE that is smaller than INPUT_BUF_SIZE is 0. *)
LEMMA SmallMultiple ==
  ASSUME NEW q \in Int, NEW d \in Int, d = INPUT_BUF_SIZE * q,
         d < INPUT_BUF_SIZE, -INPUT_BUF_SIZE < d
  PROVE  d = 0
<1>1. INPUT_BUF_SIZE \in Nat /\ INPUT_BUF_SIZE > 0
  BY Zenon, Sizes
<1>2. CASE q >= 1
  BY <1>1, <1>2
<1>3. CASE q <= -1
  BY <1>1, <1>3
<1> QED
  BY <1>1, <1>2, <1>3

LEMMA Division ==
  \A x \in Nat : /\ x = INPUT_BUF_SIZE * (x \div INPUT_BUF_SIZE) + (x % INPUT_BUF_SIZE)
                 /\ x \div INPUT_BUF_SIZE \in Int
                 /\ x % INPUT_BUF_SIZE \in 0..(INPUT_BUF_SIZE - 1)
BY Sizes

(* INPUT_BUF_SIZE divides UINT, so that as many indices in a row have slots *)
(* of their own, also where they wrap.                                      *)
LEMMA SlotInjective ==
  ASSUME NEW a \in Uint, NEW j \in 0..(INPUT_BUF_SIZE - 1),
         NEW k \in 0..(INPUT_BUF_SIZE - 1),
         After(a, j) % INPUT_BUF_SIZE = After(a, k) % INPUT_BUF_SIZE
  PROVE  j = k
<1> DEFINE x == After(a, j)
           y == After(a, k)
           m == UINT \div INPUT_BUF_SIZE
           q == (x \div INPUT_BUF_SIZE) - (y \div INPUT_BUF_SIZE)
<1>1. x \in Nat /\ y \in Nat /\ j \in Nat /\ k \in Nat
  BY Sizes DEF Uint, After
<1>2. m \in Int /\ UINT = INPUT_BUF_SIZE * m
  BY Sizes, Division
<1>3. /\ x = INPUT_BUF_SIZE * (x \div INPUT_BUF_SIZE) + (x % INPUT_BUF_SIZE)
      /\ x \div INPUT_BUF_SIZE \in Int
      /\ y = INPUT_BUF_SIZE * (y \div INPUT_BUF_SIZE) + (y % INPUT_BUF_SIZE)
      /\ y \div INPUT_BUF_SIZE \in Int
      /\ x % INPUT_BUF_SIZE = y % INPUT_BUF_SIZE
  BY Zenon, <1>1, Division
<1>4. q \in Int /\ x - y = INPUT_BUF_SIZE * q
  <2> HIDE DEF x, y
  <2> QED
    BY <1>1, <1>3, Sizes
<1>5. x - y \in {j - k, j - k + UINT, j - k - UINT}
  BY Sizes DEF After, Uint
<1>6. \E z \in Int : j - k = INPUT_BUF_SIZE * z
  <2> HIDE DEF x, y, m, q
  <2>1. CASE x - y = j - k
    BY Zenon, <1>4, <2>1
  <2>2. CASE x - y = j - k + UINT
    <3>1. j - k = INPUT_BUF_SIZE * (q - m)
      BY <1>1, <1>2, <1>4, <2>2, Sizes
    <3> QED
      BY <1>2, <1>4, <3>1
  <2>3. CASE x - y = j - k - UINT
    <3>1. j - k = INPUT_BUF_SIZE * (q + m)
      BY <1>1, <1>2, <1>4, <2>3, Sizes
    <3> QED
      BY <1>2, <1>4, <3>1
  <2> QED
    BY Zenon, <1>5, <2>1, <2>2, <2>3
<1>7. PICK z \in Int : j - k = INPUT_BUF_SIZE * z
  BY Zenon, <1>6
<1>8. j - k \in Int /\ j - k < INPUT_BUF_SIZE /\ -INPUT_BUF_SIZE < j - k
  BY Sizes
<1>9. j - k = 0
  BY Zenon, <1>7, <1>8, SmallMultiple
<1> QED
  BY <1>1, <1>9

(* The character put at the end of what the ring holds overwrites none of it. *)
LEMMA HeldPut ==
  ASSUME NEW d \in Buffer, NEW a \in Uint, NEW m \in Nat,
         m < INPUT_BUF_SIZE, NEW ch \in Char
  PROVE  /\ [d EXCEPT ![After(a, m) % INPUT_BUF_SIZE] = ch] \in Buffer
         /\ Held([d EXCEPT ![After(a, m) % INPUT_BUF_SIZE] = ch], a, m + 1)
              = Append(Held(d, a, m), ch)
<1> DEFINE f == [d EXCEPT ![After(a, m) % INPUT_BUF_SIZE] = ch]
           s == Held(d, a, m)
           t == Held(f, a, m + 1)
<1>1. /\ m + 1 \in Nat /\ m + 1 < UINT /\ m < UINT
      /\ \A k \in 0..m : After(a, k) \in Nat /\ k \in 0..(INPUT_BUF_SIZE - 1)
  BY Sizes DEF Uint, After
<1>2. \A k \in 0..m : After(a, k) % INPUT_BUF_SIZE \in 0..(INPUT_BUF_SIZE - 1)
  BY Zenon, <1>1, Division
<1>3. f \in Buffer /\ f[After(a, m) % INPUT_BUF_SIZE] = ch
  BY <1>1, <1>2 DEF Buffer
<1>4. \A k \in 1..m :
        f[After(a, k - 1) % INPUT_BUF_SIZE] = d[After(a, k - 1) % INPUT_BUF_SIZE]
  <2> TAKE k \in 1..m
  <2>1. k - 1 \in 0..m /\ k - 1 # m /\ m \in 0..m
    OBVIOUS
  <2>2. After(a, k - 1) % INPUT_BUF_SIZE # After(a, m) % INPUT_BUF_SIZE
    BY Zenon, <1>1, <2>1, SlotInjective
  <2> QED
    BY Zenon, <1>2, <2>1, <2>2 DEF Buffer
<1>5. /\ s \in Seq(Char) /\ Len(s) = m
      /\ \A k \in 1..m : s[k] = d[After(a, k - 1) % INPUT_BUF_SIZE]
  BY Zenon, <1>1, HeldType
<1>6. /\ t \in Seq(Char) /\ Len(t) = m + 1
      /\ \A k \in 1..(m + 1) : t[k] = f[After(a, k - 1) % INPUT_BUF_SIZE]
  BY Zenon, <1>1, <1>3, HeldType
<1>7. \A k \in 1..m : t[k] = s[k]
  <2> TAKE k \in 1..m
  <2>1. k \in 1..(m + 1)
    OBVIOUS
  <2> HIDE DEF s, t, f
  <2> QED
    BY Zenon, <1>4, <1>5, <1>6, <2>1
<1>8. t[m + 1] = ch
  <2>1. m + 1 \in 1..(m + 1) /\ (m + 1) - 1 = m
    OBVIOUS
  <2> HIDE DEF s, t, f
  <2> QED
    BY Zenon, <1>3, <1>6, <2>1
<1>9. t = Append(s, ch)
  <2> HIDE DEF s, t, f
  <2> QED
    BY <1>5, <1>6, <1>7, <1>8
<1> QED
  BY Zenon, <1>3, <1>9

LEMMA BetweenIsHeld ==
  ASSUME NEW d, NEW a \in Uint, NEW b \in Uint
  PROVE  [k \in 1..((b - a) % UINT) |-> d[((a + k - 1) % UINT) % INPUT_BUF_SIZE]]
           = Held(d, a, Span(a, b))
<1>1. (b - a) % UINT = Span(a, b) /\ Span(a, b) \in Nat /\ Span(a, b) < UINT
  BY Wraps, Sizes DEF Span, Uint
<1>2. ASSUME NEW k \in 1..Span(a, b) PROVE (a + k - 1) % UINT = After(a, k - 1)
  <2>1. k - 1 \in Uint /\ a + (k - 1) = a + k - 1
    BY <1>1, Sizes DEF Uint
  <2> QED
    BY Zenon, <2>1, Wraps
<1> QED
  BY Zenon, <1>1, <1>2 DEF Held

----------------------------------------------------------------------------

LEMMA HeldErase ==
  ASSUME NEW d \in Buffer, NEW a \in Uint, NEW m \in Nat, m < UINT, m > 0
  PROVE  SubSeq(Held(d, a, m), 1, m - 1) = Held(d, a, m - 1)
<1> DEFINE s == Held(d, a, m)
           t == Held(d, a, m - 1)
<1>1. m - 1 \in Nat /\ m - 1 < UINT
  BY Sizes
<1>2. s \in Seq(Char) /\ Len(s) = m /\ t \in Seq(Char) /\ Len(t) = m - 1
  BY Zenon, <1>1, HeldType
<1>3. \A k \in 1..(m - 1) : s[k] = t[k]
  <2> TAKE k \in 1..(m - 1)
  <2>1. k \in 1..m
    OBVIOUS
  <2> QED
    BY <1>1, <2>1, HeldType
<1>4. SubSeq(s, 1, m - 1) = t
  <2> HIDE DEF s, t
  <2> QED
    BY <1>2, <1>3
<1> QED
  BY Zenon, <1>4

(* What was put behind them leaves the characters before it alone. *)
LEMMA HeldKeep ==
  ASSUME NEW d \in Buffer, NEW a \in Uint, NEW m \in Nat, m < INPUT_BUF_SIZE,
         NEW ch \in Char, NEW j \in 0..m
  PROVE  Held([d EXCEPT ![After(a, m) % INPUT_BUF_SIZE] = ch], a, j) = Held(d, a, j)
<1> DEFINE f == [d EXCEPT ![After(a, m) % INPUT_BUF_SIZE] = ch]
<1>1. \A k \in 0..m : After(a, k) \in Nat /\ k \in 0..(INPUT_BUF_SIZE - 1)
  BY Sizes DEF Uint, After
<1>2. \A k \in 1..j : f[After(a, k - 1) % INPUT_BUF_SIZE] = d[After(a, k - 1) % INPUT_BUF_SIZE]
  <2> TAKE k \in 1..j
  <2>1. k - 1 \in 0..m /\ k - 1 # m /\ m \in 0..m
    OBVIOUS
  <2>2. After(a, k - 1) % INPUT_BUF_SIZE # After(a, m) % INPUT_BUF_SIZE
    BY Zenon, <1>1, <2>1, SlotInjective
  <2>3. After(a, k - 1) % INPUT_BUF_SIZE \in 0..(INPUT_BUF_SIZE - 1)
    BY Zenon, <1>1, <2>1, Division
  <2> QED
    BY Zenon, <2>2, <2>3 DEF Buffer
<1> HIDE DEF f
<1>3. Held(f, a, j) = Held(d, a, j)
  BY Zenon, <1>2 DEF Held
<1> QED
  BY Zenon, <1>3 DEF f

(* Inc and Dec, as the code applies them to r, w and e. *)
LEMMA IncFacts ==
  ASSUME NEW a \in Uint, NEW b \in Uint
  PROVE  /\ Inc(a) = After(a, 1) /\ Inc(a) \in Uint
         /\ a # b => Span(Inc(a), b) = Span(a, b) - 1
         /\ Span(a, b) + 1 < UINT => Span(a, Inc(b)) = Span(a, b) + 1
<1>1. 1 \in Uint
  BY Sizes DEF Uint
<1>2. Inc(a) = After(a, 1) /\ Inc(b) = After(b, 1)
  BY Zenon, <1>1, Wraps DEF Inc
<1> QED
  BY <1>2, RingFacts

LEMMA DecFacts ==
  ASSUME NEW a \in Uint, NEW b \in Uint, a # b
  PROVE  /\ Dec(b) \in Uint /\ Span(a, Dec(b)) = Span(a, b) - 1
         /\ Span(a, b) \in Nat /\ Span(a, b) > 0
<1>1. Dec(b) = IF b = 0 THEN UINT - 1 ELSE b - 1
  <2>1. CASE b = 0
    BY <2>1, Sizes DEF Dec
  <2>2. CASE b # 0
    BY <2>2, Sizes DEF Dec, Uint
  <2> QED
    BY Zenon, <2>1, <2>2
<1> QED
  BY <1>1, Sizes DEF Uint, Span

LEMMA SpanSelf ==
  ASSUME NEW a \in Uint
  PROVE  Span(a, a) = 0
BY Sizes DEF Uint, Span

LEMMA SpanFacts ==
  ASSUME NEW a \in Uint, NEW b \in Uint, NEW d \in Uint,
         Span(a, b) + Span(b, d) <= INPUT_BUF_SIZE
  PROVE  /\ (d - a) % UINT = Span(a, b) + Span(b, d) /\ Span(a, d) = Span(a, b) + Span(b, d)
         /\ Span(a, b) \in Nat /\ Span(b, d) \in Nat /\ Span(b, b) = 0
         /\ Span(a, b) = 0 <=> a = b
<1>1. (d - a) % UINT = Span(a, d)
  BY Zenon, Wraps
<1> QED
  BY <1>1, Sizes DEF Uint, Span

----------------------------------------------------------------------------
LEMMA Constants ==
  /\ None \notin Proc /\ "intr" \notin Proc /\ None # "intr" /\ NL \notin {ERASE, KILL}
  /\ NL \in Char /\ Counts \subseteq Nat
BY Zenon, ConsoleAssumption DEF Char

LEMMA InitInv == Init => IInv
<1> SUFFICES ASSUME Init PROVE IInv
  BY Zenon
<1>1. r \in Uint /\ w = r /\ e = r
  <2>1. load.before \in Nat
    BY Zenon, ConsoleAssumption DEF Init
  <2> QED
    BY <2>1, Sizes DEF Init, Uint
<1>2. buf \in Buffer /\ load \in [readers : SUBSET Proc, writers : SUBSET Proc,
        killable : SUBSET Proc, keys : SUBSET Key, typed : Nat, before : Nat]
  BY Zenon, Constants, ConsoleAssumption DEF Init, Buffer, Key
<1>3. Types
  BY <1>1, <1>2, Constants DEF Init, Types, Pcs, Hpcs
<1>4. Locks /\ Transmitter /\ Counted
  BY Zenon, Constants DEF Init, Locks, Transmitter, Counted, Putting
<1>5. Editing
  <2>1. Span(r, w) + Span(w, e) = 0
    BY <1>1, Sizes DEF Uint, Span
  <2> QED
    BY <2>1, Sizes DEF Init, Editing
<1> QED
  BY Zenon, <1>3, <1>4, <1>5 DEF IInv

(* What the handler leaves alone. *)
LEMMA HandlerFrame ==
  ASSUME Handler
  PROVE  UNCHANGED <<pc, n, i, sent, tx_lock, load>>
BY Zenon DEF Handler, uartintr, uartintr_tx, uartgetc, consoleintr, consoleintr_erase,
       consoleintr_kill, consoleintr_default, uartputc_sync_test, uartputc_sync_put,
       consoleintr_store, uart, call

(* Of IInv, what a handler step can disturb. *)
LEMMA HandlerGoal ==
  ASSUME IInv, UNCHANGED <<pc, i, sent, tx_lock, load>>,
         buf' \in Buffer, r' \in Uint, w' \in Uint, e' \in Uint,
         thr' \in 0..2, hpc' \in Hpcs, echo' \in Nat,
         \/ lock' = lock /\ (hpc' \in {"switch", "echo", "put", "store"} <=> lock = "intr")
         \/ lock = None /\ lock' = "intr" /\ hpc' \in {"switch", "echo", "put", "store"}
         \/ lock = "intr" /\ lock' = None /\ hpc' \notin {"switch", "echo", "put", "store"},
         Transmitter', Editing'
  PROVE  IInv'
<1>1. Types'
  BY Zenon, Constants DEF IInv, Types
<1>2. Locks'
  BY Zenon, Constants DEF IInv, Locks
<1>3. Counted'
  BY Zenon DEF IInv, Counted
<1> QED
  BY Zenon, <1>1, <1>2, <1>3 DEF IInv

(* The steps of uartintr around consoleintr. *)
LEMMA UartIntr ==
  ASSUME IInv, Handler,
         uartintr \/ uartintr_tx \/ uartgetc \/ consoleintr \/ uartputc_sync_test
  PROVE  IInv'
<1>0. UNCHANGED <<pc, i, sent, tx_lock, load>>
  BY Zenon, HandlerFrame
<1>1. UNCHANGED <<buf, r, w, e, thr, echo>>
  BY Zenon DEF uartintr, uartintr_tx, uartgetc, consoleintr, uartputc_sync_test, cons, uart
<1>2. CASE uartintr \/ uartintr_tx
  <2>1. hpc \in {"idle", "tx"} /\ hpc' \in {"tx", "rx"} /\ UNCHANGED <<lock, c>>
    BY Zenon, <1>2 DEF uartintr, uartintr_tx
  <2>2. Transmitter' /\ Editing'
    BY Zenon, <1>0, <1>1, <2>1 DEF IInv, Transmitter, Editing, Putting
  <2> QED
    BY Zenon, <1>0, <1>1, <2>1, <2>2, HandlerGoal DEF IInv, Types, Locks, Hpcs
<1>3. CASE uartgetc
  <2>1. /\ hpc = "rx" /\ hpc' \in {"idle", "consoleintr"} /\ UNCHANGED lock
        /\ hpc' = "consoleintr" => c' \in load.keys
    BY Zenon, <1>3 DEF uartgetc
  <2>2. load.keys \subseteq Key
    BY Zenon DEF IInv, Types
  <2>3. Transmitter' /\ Editing'
    BY Zenon, <1>0, <1>1, <2>1, <2>2 DEF IInv, Transmitter, Editing, Putting
  <2> QED
    BY Zenon, <1>0, <1>1, <2>1, <2>3, HandlerGoal DEF IInv, Types, Locks, Hpcs
<1>4. CASE consoleintr
  <2>1. hpc = "consoleintr" /\ hpc' = "switch" /\ lock = None /\ lock' = "intr" /\ UNCHANGED c
    BY Zenon, <1>4 DEF consoleintr
  <2>2. Transmitter' /\ Editing'
    BY Zenon, <1>0, <1>1, <2>1 DEF IInv, Transmitter, Editing, Putting
  <2> QED
    BY Zenon, <1>0, <1>1, <2>1, <2>2, HandlerGoal DEF IInv, Types, Locks, Hpcs
<1>5. CASE uartputc_sync_test
  <2>1. hpc = "echo" /\ hpc' = "put" /\ thr = 0 /\ UNCHANGED <<lock, c>>
    BY Zenon, <1>5 DEF uartputc_sync_test, TX_IDLE
  <2>2. Transmitter' /\ Editing'
    BY <1>0, <1>1, <2>1 DEF IInv, Transmitter, Editing, Putting
  <2> QED
    BY Zenon, <1>0, <1>1, <2>1, <2>2, HandlerGoal DEF IInv, Types, Locks, Hpcs
<1> QED
  BY Zenon, <1>2, <1>3, <1>4, <1>5

(* A character goes from the line, with its echo; or nothing happens. *)
LEMMA Erases ==
  ASSUME IInv, Handler, consoleintr_erase \/ consoleintr_kill
  PROVE  /\ IInv' /\ UNCHANGED <<buf, r, w>>
         /\ e' = e \/ (e' = Dec(e) /\ e # w)
<1>0. UNCHANGED <<pc, i, sent, tx_lock, load>>
  BY Zenon, HandlerFrame
<1>1. /\ hpc = "switch" /\ c \in {ERASE, KILL} /\ UNCHANGED <<buf, r, w, thr>>
      /\ \/ e # w /\ Backspace
         \/ Release /\ UNCHANGED <<e, echo>>
  BY Zenon DEF consoleintr_erase, consoleintr_kill, Erasable, uart
<1>2. lock = "intr" /\ buf \in Buffer /\ r \in Uint /\ w \in Uint /\ e \in Uint
  BY Zenon, <1>1 DEF IInv, Types, Locks
<1>3. CASE e # w /\ Backspace
  <2>1. e' = Dec(e) /\ echo' = 3 /\ hpc' = "echo" /\ UNCHANGED <<lock, c>>
    BY Zenon, <1>3 DEF Backspace
  <2>2. e' \in Uint /\ Span(w, e') = Span(w, e) - 1
    BY Zenon, <1>2, <1>3, <2>1, DecFacts
  <2>3. Span(r, w) \in Nat /\ Span(w, e) \in Nat
    BY Zenon, <1>2, SpanFacts DEF IInv, Editing
  <2>4. Editing'
    <3>1. Span(r', w') + Span(w', e') <= INPUT_BUF_SIZE
      BY <1>1, <2>2, <2>3, Sizes DEF IInv, Editing
    <3> QED
      BY <1>1, <2>1, <3>1 DEF Editing
  <2>5. Transmitter'
    BY Zenon, <1>0, <1>1, <2>1 DEF IInv, Transmitter, Putting
  <2>6. IInv'
    BY Zenon, <1>0, <1>1, <1>2, <2>1, <2>2, <2>4, <2>5, HandlerGoal DEF IInv, Types, Hpcs
  <2> QED
    BY Zenon, <1>1, <1>3, <2>1, <2>6
<1>4. CASE Release /\ UNCHANGED <<e, echo>>
  <2>1. lock' = None /\ hpc' = "rx" /\ UNCHANGED <<e, echo>>
    BY Zenon, <1>4 DEF Release
  <2>2. Transmitter' /\ Editing'
    BY Zenon, <1>0, <1>1, <2>1 DEF IInv, Transmitter, Editing, Putting
  <2>3. IInv'
    BY Zenon, <1>0, <1>1, <1>2, <2>1, <2>2, HandlerGoal DEF IInv, Types, Hpcs
  <2> QED
    BY Zenon, <1>1, <2>1, <2>3
<1> QED
  BY Zenon, <1>1, <1>3, <1>4

(* The test for room, before the echo. *)
LEMMA Tests ==
  ASSUME IInv, Handler, consoleintr_default
  PROVE  IInv'
<1>0. UNCHANGED <<pc, i, sent, tx_lock, load>>
  BY Zenon, HandlerFrame
<1>1. /\ hpc = "switch" /\ c \notin {ERASE, KILL} /\ UNCHANGED <<buf, r, w, e, thr>>
      /\ \/ /\ c \notin Ignored /\ HasRoom /\ echo' = 1 /\ c' = (IF c = CR THEN NL ELSE c)
            /\ hpc' = "echo" /\ UNCHANGED lock
         \/ Release /\ UNCHANGED echo
  BY Zenon DEF consoleintr_default, cons, uart
<1>2. /\ lock = "intr" /\ buf \in Buffer /\ r \in Uint /\ w \in Uint /\ e \in Uint
      /\ c \in Key
  BY Zenon, <1>1 DEF IInv, Types, Locks, Editing
<1>3. CASE Release /\ UNCHANGED echo
  <2>1. lock' = None /\ hpc' = "rx" /\ UNCHANGED echo
    BY Zenon, <1>3 DEF Release
  <2>2. Transmitter' /\ Editing'
    BY Zenon, <1>0, <1>1, <2>1 DEF IInv, Transmitter, Editing, Putting
  <2> QED
    BY Zenon, <1>0, <1>1, <1>2, <2>1, <2>2, HandlerGoal DEF IInv, Types, Hpcs
<1>4. CASE /\ c \notin Ignored /\ HasRoom /\ echo' = 1 /\ c' = (IF c = CR THEN NL ELSE c)
           /\ hpc' = "echo" /\ UNCHANGED lock
  <2>1. c' \in Char
    BY Zenon, <1>1, <1>2, <1>4 DEF Key, Char
  <2>2. Span(r, w) + Span(w, e) < INPUT_BUF_SIZE
    BY <1>2, <1>4, SpanFacts DEF HasRoom, IInv, Editing
  <2>3. Editing'
    BY <1>1, <1>4, <2>1, <2>2 DEF IInv, Editing
  <2>4. Transmitter'
    BY Zenon, <1>0, <1>1, <1>4 DEF IInv, Transmitter, Putting
  <2> QED
    BY Zenon, <1>0, <1>1, <1>2, <1>4, <2>3, <2>4, HandlerGoal DEF IInv, Types, Hpcs
<1> QED
  BY Zenon, <1>1, <1>3, <1>4

(* A byte of the echo enters the FIFO. *)
LEMMA EchoPut ==
  ASSUME IInv, Handler, uartputc_sync_put
  PROVE  IInv'
<1>0. UNCHANGED <<pc, i, sent, tx_lock, load>>
  BY Zenon, HandlerFrame
<1>1. /\ hpc = "put" /\ echo' = echo - 1 /\ UNCHANGED <<buf, r, w, e>>
      /\ thr' = (IF thr < 16 THEN thr + 1 ELSE thr)
      /\ \/ lock' = None /\ hpc' = "rx" /\ c' = NL
         \/ /\ ~(echo' = 0 /\ c = ERASE) /\ UNCHANGED <<lock, c>>
            /\ hpc' = IF echo' > 0 THEN "echo" ELSE IF c = KILL THEN "switch" ELSE "store"
  BY Zenon DEF uartputc_sync_put, cons, WriteTHR, Release, FIFO
<1>2. /\ lock = "intr" /\ buf \in Buffer /\ r \in Uint /\ w \in Uint /\ e \in Uint
      /\ echo \in Nat /\ echo >= 1 /\ thr \in 0..2 /\ thr <= 1 /\ (Putting => thr = 0)
  BY Zenon, <1>1 DEF IInv, Types, Locks, Editing, Transmitter
<1>3. thr' \in 0..2 /\ (Putting => thr' <= 1) /\ echo' \in Nat
  BY <1>1, <1>2
<1>4. Transmitter'
  BY Zenon, <1>0, <1>1, <1>3 DEF Transmitter, Putting
<1>5. Editing'
  <2>1. hpc' = "store" => c \notin {ERASE, KILL}
    <3>1. hpc' = "store" => ~(echo' > 0) /\ c # KILL /\ ~(echo' = 0 /\ c = ERASE)
      BY Zenon, <1>1
    <3>2. ~(echo' > 0) => echo' = 0
      BY <1>3
    <3> QED
      BY Zenon, <3>1, <3>2
  <2>2. hpc' = "echo" => echo' >= 1
    BY <1>1, <1>3
  <2>3. hpc' \in {"rx", "echo", "switch", "store"} /\ (hpc' # "rx" => c' = c)
        /\ (hpc' = "switch" => c \in Key)
    BY Zenon, <1>1 DEF Key
  <2> QED
    BY Zenon, <1>1, <2>1, <2>2, <2>3 DEF IInv, Editing
<1> QED
  BY Zenon, <1>0, <1>1, <1>2, <1>3, <1>4, <1>5, HandlerGoal DEF Hpcs

(* The character is stored at e, and the line may become readable. *)
LEMMA Stores ==
  ASSUME IInv, Handler, consoleintr_store
  PROVE  /\ IInv' /\ r' = r /\ c \in Char /\ e' = Inc(e)
         /\ buf' = [buf EXCEPT ![e % INPUT_BUF_SIZE] = c]
         /\ Span(r, w) + Span(w, e) < INPUT_BUF_SIZE
         /\ IF c \in {NL, EOF} \/ Span(r, w) + Span(w, e) + 1 = INPUT_BUF_SIZE
              THEN w' = e' ELSE w' = w
<1>0. UNCHANGED <<pc, i, sent, tx_lock, load>>
  BY Zenon, HandlerFrame
<1>1. /\ hpc = "store" /\ buf' = [buf EXCEPT ![e % INPUT_BUF_SIZE] = c] /\ e' = Inc(e)
      /\ IF c \in {NL, EOF} \/ (e' - r) % UINT = INPUT_BUF_SIZE THEN w' = e' ELSE w' = w
      /\ lock' = None /\ hpc' = "rx" /\ UNCHANGED <<r, thr, echo>>
  BY Zenon DEF consoleintr_store, Release, uart
<1> DEFINE A == Span(r, w)
           B == Span(w, e)
<1>2. /\ lock = "intr" /\ buf \in Buffer /\ r \in Uint /\ w \in Uint /\ e \in Uint
      /\ c \in Char /\ A + B < INPUT_BUF_SIZE /\ thr \in 0..2 /\ echo \in Nat
  BY Zenon, <1>1 DEF IInv, Types, Locks, Editing
<1>3. A \in Nat /\ B \in Nat /\ Span(r, e) = A + B /\ A + B + 1 < UINT /\ B + 1 < UINT
  <2>1. A \in Nat /\ B \in Nat
    BY <1>2, Sizes DEF Uint, Span
  <2>2. A + B <= INPUT_BUF_SIZE /\ A + B + 1 < UINT /\ B + 1 < UINT
    <3> HIDE DEF A, B
    <3> QED
      BY <1>2, <2>1, Sizes
  <2> QED
    BY <1>2, <2>1, <2>2, SpanFacts
<1>4. e' \in Uint /\ Span(w, e') = B + 1 /\ Span(r, e') = A + B + 1
  <2>1. e' \in Uint /\ Span(w, e') = B + 1
    BY Zenon, <1>1, <1>2, <1>3, IncFacts
  <2>2. Span(r, e') = Span(r, e) + 1
    <3>1. Span(r, e) + 1 < UINT
      BY Zenon, <1>3
    <3> QED
      BY Zenon, <1>1, <1>2, <3>1, IncFacts
  <2> QED
    BY Zenon, <1>3, <2>1, <2>2
<1>5. (e' - r) % UINT = A + B + 1
  BY Zenon, <1>2, <1>4, Wraps
<1>6. IF c \in {NL, EOF} \/ A + B + 1 = INPUT_BUF_SIZE THEN w' = e' ELSE w' = w
  BY Zenon, <1>1, <1>5
<1>7. w' \in Uint /\ Span(r, w') + Span(w', e') <= INPUT_BUF_SIZE
  <2> HIDE DEF A, B
  <2>1. CASE w' = e'
    <3>1. Span(e', e') = 0
      BY Zenon, <1>4, SpanSelf
    <3> QED
      BY <1>2, <1>3, <1>4, <2>1, <3>1, Sizes
  <2>2. CASE w' = w
    BY <1>2, <1>3, <1>4, <2>2, Sizes DEF A
  <2> QED
    BY Zenon, <1>6, <2>1, <2>2
<1>8. buf' \in Buffer
  <2>1. e \in Nat
    BY <1>2 DEF Uint
  <2>2. e % INPUT_BUF_SIZE \in 0..(INPUT_BUF_SIZE - 1)
    BY Zenon, <2>1, Division
  <2> QED
    BY Zenon, <1>1, <1>2, <2>2 DEF Buffer
<1>9. Transmitter' /\ Editing'
  <2>1. Transmitter'
    BY Zenon, <1>0, <1>1 DEF IInv, Transmitter, Putting
  <2>2. Editing'
    BY Zenon, <1>1, <1>7 DEF Editing
  <2> QED
    BY Zenon, <2>1, <2>2
<1>10. IInv'
  BY Zenon, <1>0, <1>1, <1>2, <1>4, <1>7, <1>8, <1>9, HandlerGoal DEF Hpcs
<1> QED
  BY Zenon, <1>1, <1>2, <1>6, <1>10

LEMMA HandlerInv ==
  ASSUME IInv, Handler
  PROVE  IInv'
BY Zenon, UartIntr, Erases, Tests, EchoPut, Stores DEF Handler

----------------------------------------------------------------------------
(* The UART. *)
LEMMA UartInv ==
  ASSUME IInv, Receive \/ Transmit
  PROVE  IInv' /\ UNCHANGED cons
<1>1. /\ UNCHANGED <<buf, r, w, e, lock, tx_lock, hpc, c, echo, pc, i, sent>>
      /\ \/ thr' = thr /\ load' = [load EXCEPT !.typed = load.typed - 1] /\ load.typed > 0
         \/ thr > 0 /\ thr' = thr - 1 /\ load' = load
  BY Zenon DEF Receive, Transmit, cons, intr, call
<1>2. load' \in [readers : SUBSET Proc, writers : SUBSET Proc, killable : SUBSET Proc,
               keys : SUBSET Key, typed : Nat, before : Nat]
  BY <1>1 DEF IInv, Types
<1>3. thr' \in 0..2 /\ thr' <= thr
  BY <1>1 DEF IInv, Types
<1>4. thr \in 0..2
  BY Zenon DEF IInv, Types
<1>5. Types' /\ Locks' /\ Counted'
  BY Zenon, <1>1, <1>2, <1>3 DEF IInv, Types, Locks, Counted
<1>6. Transmitter' /\ Editing'
  BY <1>1, <1>3, <1>4 DEF IInv, Transmitter, Editing, Putting
<1> QED
  BY Zenon, <1>1, <1>5, <1>6 DEF IInv, cons

(* Of IInv, what a step of a process can disturb. *)
LEMMA ProcGoal ==
  ASSUME IInv, NEW p \in Proc, NEW l \in Pcs, pc' = [pc EXCEPT ![p] = l],
         UNCHANGED <<hpc, c, echo, load, buf, w, e>>, r' \in Uint,
         thr' \in 0..2, i' \in [Proc -> Int], sent' \in [Proc -> Int],
         \A q \in Proc : q # p => i'[q] = i[q] /\ sent'[q] = sent[q],
         l \in InWrite \cup {"idle"} => sent'[p] = i'[p],
         \/ lock' = lock /\ (l = "consoleread" <=> lock = p)
         \/ lock = None /\ lock' = p /\ l = "consoleread"
         \/ lock = p /\ lock' = None /\ l # "consoleread",
         LET held == l \in {"uartwrite", "uartwrite_test", "uartwrite_put", "sleep_tx"}
         IN \/ tx_lock' = tx_lock /\ (held <=> tx_lock = p)
            \/ tx_lock = None /\ tx_lock' = p /\ held
            \/ tx_lock = p /\ tx_lock' = None /\ ~held,
         Transmitter', Editing'
  PROVE  IInv'
<1>1. pc \in [Proc -> Pcs] /\ pc' \in [Proc -> Pcs] /\ pc'[p] = l
      /\ \A q \in Proc : q # p => pc'[q] = pc[q]
  BY Zenon DEF IInv, Types
<1>2. Types'
  BY Zenon, <1>1, Constants DEF IInv, Types
<1>3. Locks'
  <2>1. hpc' \in {"switch", "echo", "put", "store"} <=> lock' = "intr"
    BY Zenon, Constants DEF IInv, Locks
  <2>2. \A q \in Proc : pc'[q] = "consoleread" <=> lock' = q
    BY <1>1, Constants DEF IInv, Locks
  <2>3. \A q \in Proc : pc'[q] \in {"uartwrite", "uartwrite_test", "uartwrite_put", "sleep_tx"}
                          <=> tx_lock' = q
    BY <1>1, Constants DEF IInv, Locks
  <2> QED
    BY Zenon, <2>1, <2>2, <2>3 DEF Locks
<1>4. Counted'
  BY Zenon, <1>1 DEF IInv, Counted
<1> QED
  BY Zenon, <1>2, <1>3, <1>4 DEF IInv

(* A call starts, sleep() returns, kill() marks a process. *)
LEMMA CallsInv ==
  ASSUME IInv, NEW p \in Proc,
         sleep(p) \/ kkill(p) \/ \E k \in Counts : sys_call(p, k)
  PROVE  IInv' /\ UNCHANGED cons
<1>1. UNCHANGED <<buf, r, w, e, lock, tx_lock, thr, load, hpc, c, echo, i, sent>>
  BY Zenon DEF sleep, kkill, sys_call, cons, uart, intr
<1>2. pc \in [Proc -> Pcs]
  BY Zenon DEF IInv, Types
<1>3. \/ pc' = pc
      \/ /\ pc[p] = "idle" /\ \/ pc' = [pc EXCEPT ![p] = "acquire"]
                              \/ pc' = [pc EXCEPT ![p] = "consolewrite"]
      \/ pc[p] = "sleep_r" /\ pc' = [pc EXCEPT ![p] = "acquire"]
      \/ pc[p] = "sleep_tx" /\ pc' = [pc EXCEPT ![p] = "uartwrite"]
      \/ pc[p] = "sleep_lk" /\ pc' = [pc EXCEPT ![p] = "acquiresleep"]
  BY Zenon DEF sleep, kkill, sys_call, Resume, Asleep, Goto
<1>4. PICK l \in Pcs : /\ pc' = [pc EXCEPT ![p] = l]
                       /\ \/ l = pc[p]
                          \/ pc[p] = "idle" /\ l \in {"acquire", "consolewrite"}
                          \/ pc[p] = "sleep_r" /\ l = "acquire"
                          \/ pc[p] = "sleep_tx" /\ l = "uartwrite"
                          \/ pc[p] = "sleep_lk" /\ l = "acquiresleep"
  BY Zenon, <1>2, <1>3 DEF Pcs, InWrite
<1>5. Putting' => Putting
  BY Zenon, <1>2, <1>4 DEF Putting
<1>6. Transmitter' /\ Editing'
  BY Zenon, <1>1, <1>5 DEF IInv, Transmitter, Editing
<1>7. l \in InWrite \cup {"idle"} => sent[p] = i[p]
  BY Zenon, <1>4 DEF IInv, Counted, InWrite
<1>8. IInv'
  BY ZenonT(40), <1>1, <1>4, <1>6, <1>7, ProcGoal DEF IInv, Types, Locks
<1> QED
  BY Zenon, <1>1, <1>8 DEF cons

(* The end of a call. *)
LEMMA Returns ==
  ASSUME IInv, NEW p \in Proc, Return(p)
  PROVE  /\ pc' = [pc EXCEPT ![p] = "idle"] /\ i' \in [Proc -> Int] /\ sent' \in [Proc -> Int]
         /\ \A q \in Proc : q # p => i'[q] = i[q] /\ sent'[q] = sent[q]
         /\ sent'[p] = i'[p]
BY DEF Return, Goto, IInv, Types

(* consoleread: what changes r holds cons.lock, so no character is being    *)
(* echoed meanwhile.                                                        *)
LEMMA ReadsInv ==
  ASSUME IInv, NEW p \in Proc, acquire(p) \/ consoleread(p)
  PROVE  /\ IInv' /\ UNCHANGED <<buf, w, e>>
         /\ r' = r \/ (r' = Inc(r) /\ r # w)
<1>1. /\ UNCHANGED <<buf, w, e, tx_lock, thr, load, hpc, c, echo>>
      /\ r' = r \/ (r' = Inc(r) /\ r # w)
  BY Zenon DEF acquire, consoleread, consoleread_wait, consoleread_eof, consoleread_char,
         consoleread_end, cons, uart, intr
<1>2. /\ r \in Uint /\ w \in Uint /\ e \in Uint /\ thr \in 0..2 /\ pc \in [Proc -> Pcs]
      /\ i \in [Proc -> Int] /\ sent \in [Proc -> Int]
  BY Zenon DEF IInv, Types
<1>3. PICK l \in Pcs :
        /\ pc' = [pc EXCEPT ![p] = l] /\ i' \in [Proc -> Int] /\ sent' \in [Proc -> Int]
        /\ \A q \in Proc : q # p => i'[q] = i[q] /\ sent'[q] = sent[q]
        /\ \/ pc[p] = "acquire" /\ lock = None /\ lock' = p /\ l = "consoleread" /\ r' = r
           \/ pc[p] = "consoleread" /\ lock' = lock /\ l = "consoleread"
           \/ pc[p] = "consoleread" /\ lock' = None /\ l = "sleep_r"
           \/ pc[p] = "consoleread" /\ lock' = None /\ l = "idle" /\ sent'[p] = i'[p]
  <2>1. CASE acquire(p)
    <3>1. /\ pc[p] = "acquire" /\ pc' = [pc EXCEPT ![p] = "consoleread"] /\ lock = None
          /\ lock' = p /\ i' = i /\ sent' = sent /\ r' = r
      BY Zenon, <2>1 DEF acquire, Goto, cons
    <3> QED
      BY Zenon, <1>2, <3>1 DEF Pcs
  <2>2. CASE pc[p] = "consoleread" /\ lock' = None /\ Return(p)
    BY Zenon, <2>2, Returns DEF Pcs
  <2>3. CASE /\ pc[p] = "consoleread" /\ lock' = None /\ Goto(p, "sleep_r")
             /\ UNCHANGED <<n, i, end, sent>>
    BY Zenon, <1>2, <2>3 DEF Pcs, Goto
  <2>4. CASE /\ pc[p] = "consoleread" /\ i' = [i EXCEPT ![p] = i[p] + 1]
             /\ UNCHANGED <<lock, pc, n, end, sent>>
    <3>1. i' \in [Proc -> Int] /\ \A q \in Proc : q # p => i'[q] = i[q]
      BY <1>2, <2>4
    <3>2. pc' = [pc EXCEPT ![p] = "consoleread"] /\ "consoleread" \in Pcs
      BY Zenon, <1>2, <2>4 DEF Pcs
    <3> QED
      BY Zenon, <1>2, <2>4, <3>1, <3>2
  <2> QED
    BY Zenon, <2>1, <2>2, <2>3, <2>4 DEF consoleread, consoleread_wait, consoleread_eof,
       consoleread_char, consoleread_end, Reading
<1>4. Putting' <=> Putting
  BY Zenon, <1>2, <1>3 DEF Putting
<1>5. Transmitter'
  BY Zenon, <1>1, <1>4 DEF IInv, Transmitter
<1>6. r' \in Uint /\ Span(r', w) <= Span(r, w) /\ Span(r', w) \in Int /\ Span(r, w) \in Int
  <2>1. CASE r' = r
    BY <1>2, <2>1, Sizes DEF Uint, Span
  <2>2. CASE r' = Inc(r) /\ r # w
    <3>1. Span(r, w) \in Int
      BY <1>2, Sizes DEF Uint, Span
    <3> QED
      BY <1>2, <2>2, <3>1, IncFacts
  <2> QED
    BY Zenon, <1>1, <2>1, <2>2
<1>7. Span(w, e) \in Int
  BY <1>2, Sizes DEF Uint, Span
<1>8. Editing'
  BY <1>1, <1>6, <1>7, Sizes DEF IInv, Editing
<1>9. IInv'
  BY ZenonT(40), <1>1, <1>2, <1>3, <1>5, <1>6, <1>8, ProcGoal DEF IInv, Locks, InWrite
<1> QED
  BY Zenon, <1>1, <1>9

(* consolewrite and uartwrite up to the byte. *)
LEMMA WritesInv ==
  ASSUME IInv, NEW p \in Proc, consolewrite(p), ~uartwrite_put(p)
  PROVE  IInv' /\ UNCHANGED cons
<1>1. UNCHANGED <<buf, r, w, e, lock, thr, load, hpc, c, echo>>
  BY Zenon DEF consolewrite, consolewrite_chunk, consolewrite_end, acquiresleep, releasesleep,
         uartwrite, uartwrite_test, cons, uart, intr
<1>2. /\ thr \in 0..2 /\ pc \in [Proc -> Pcs] /\ r \in Uint
      /\ i \in [Proc -> Int] /\ sent \in [Proc -> Int]
  BY Zenon DEF IInv, Types
<1>3. PICK l \in Pcs :
        /\ pc' = [pc EXCEPT ![p] = l] /\ i' \in [Proc -> Int] /\ sent' \in [Proc -> Int]
        /\ \A q \in Proc : q # p => i'[q] = i[q] /\ sent'[q] = sent[q]
        /\ l \in InWrite \cup {"idle"} /\ pc[p] \in InWrite
        /\ (l = "idle" /\ sent'[p] = i'[p]) \/ UNCHANGED <<i, sent>>
        /\ \/ /\ tx_lock' = tx_lock
              /\ pc[p] \in {"consolewrite", "acquiresleep"}
              /\ l \in {"acquiresleep", "sleep_lk", "idle"}
           \/ pc[p] = "acquiresleep" /\ tx_lock = None /\ tx_lock' = p /\ l = "uartwrite"
           \/ pc[p] = "uartwrite" /\ tx_lock' = None /\ l = "consolewrite"
           \/ pc[p] = "uartwrite" /\ tx_lock' = tx_lock /\ l = "uartwrite_test"
           \/ /\ pc[p] = "uartwrite_test" /\ tx_lock' = tx_lock
              /\ l = (IF thr = 0 THEN "uartwrite_put" ELSE "sleep_tx")
  <2>1. CASE consolewrite_end(p)
    BY Zenon, <2>1, Returns DEF consolewrite_end, Pcs, InWrite
  <2>2. CASE consolewrite_chunk(p) \/ acquiresleep(p)
    BY Zenon, <1>2, <2>2 DEF consolewrite_chunk, acquiresleep, Goto, Pcs, InWrite
  <2>3. CASE releasesleep(p) \/ uartwrite(p) \/ uartwrite_test(p)
    BY Zenon, <1>2, <2>3 DEF releasesleep, uartwrite, uartwrite_test, TX_IDLE, Goto, Pcs, InWrite
  <2> QED
    BY Zenon, <2>1, <2>2, <2>3 DEF consolewrite
<1>4. \A q \in Proc : pc'[q] = "uartwrite_put" /\ q # p => pc[q] = "uartwrite_put" 
  BY Zenon, <1>2, <1>3
<1>5. Transmitter'
  <2>1. Putting' => Putting \/ thr = 0
    BY Zenon, <1>2, <1>3, <1>4 DEF Putting
  <2> QED
    BY <1>1, <1>2, <2>1 DEF IInv, Transmitter
<1>6. Editing'
  BY Zenon, <1>1 DEF IInv, Editing
<1>7. sent'[p] = i'[p]
  BY Zenon, <1>3 DEF IInv, Counted
<1>8. IInv'
  BY Zenon, <1>1, <1>2, <1>3, <1>5, <1>6, <1>7, ProcGoal DEF IInv, Locks, InWrite
<1> QED
  BY Zenon, <1>1, <1>8 DEF cons

(* The byte: the FIFO has room for it whoever else has written.             *)
LEMMA PutInv ==
  ASSUME IInv, NEW p \in Proc, uartwrite_put(p)
  PROVE  IInv' /\ UNCHANGED cons
<1>1. /\ pc[p] = "uartwrite_put" /\ pc' = [pc EXCEPT ![p] = "uartwrite"]
      /\ thr' = (IF thr < 16 THEN thr + 1 ELSE thr)
      /\ sent' = [sent EXCEPT ![p] = sent[p] + (thr' - thr)]
      /\ i' = [i EXCEPT ![p] = i[p] + 1]
      /\ UNCHANGED <<buf, r, w, e, lock, tx_lock, load, hpc, c, echo>>
  BY Zenon DEF uartwrite_put, WriteTHR, FIFO, Goto, cons, intr
<1>2. /\ thr \in 0..2 /\ pc \in [Proc -> Pcs] /\ r \in Uint
      /\ i \in [Proc -> Int] /\ sent \in [Proc -> Int]
  BY Zenon DEF IInv, Types
<1>3. thr <= 1 /\ (hpc = "put" => thr = 0)
  BY Zenon, <1>1 DEF IInv, Transmitter, Putting
<1>4. thr' = thr + 1 /\ thr' \in 0..2
  BY <1>1, <1>2, <1>3
<1>5. /\ i' \in [Proc -> Int] /\ sent' \in [Proc -> Int] /\ i'[p] = i[p] + 1
      /\ \A q \in Proc : q # p => i'[q] = i[q] /\ sent'[q] = sent[q]
  BY <1>1, <1>2, <1>4
<1>6. sent'[p] = i'[p]
  <2>1. sent[p] = i[p] /\ sent[p] \in Int
    BY Zenon, <1>1, <1>2 DEF IInv, Counted, InWrite
  <2> QED
    BY <1>1, <1>2, <1>4, <2>1
<1>7. Transmitter'
  <2>1. ~Putting'
    BY Zenon, <1>1, <1>2 DEF IInv, Locks, Putting
  <2> QED
    BY <1>1, <1>2, <1>3, <1>4, <2>1 DEF Transmitter
<1>8. Editing'
  BY Zenon, <1>1 DEF IInv, Editing
<1>9. "uartwrite" \in Pcs /\ lock' = lock /\ lock # p /\ tx_lock = p
  BY Zenon, <1>1 DEF Pcs, InWrite, IInv, Locks
<1>10. IInv'
  BY Zenon, <1>1, <1>2, <1>4, <1>5, <1>6, <1>7, <1>8, <1>9, ProcGoal
<1> QED
  BY Zenon, <1>1, <1>10 DEF cons

LEMMA NextInv == IInv /\ [Next]_vars => IInv'
<1> SUFFICES ASSUME IInv, [Next]_vars PROVE IInv'
  BY Zenon
<1>1. CASE Next
  BY Zenon, <1>1, UartInv, HandlerInv, CallsInv, ReadsInv, WritesInv, PutInv
     DEF Next, Progress, consolewrite
<1>2. CASE UNCHANGED vars
  BY Zenon, <1>2 DEF vars, cons, uart, intr, call, IInv, Types, Locks, Transmitter, Putting,
              Counted, Editing
<1> QED
  BY Zenon, <1>1, <1>2

(***************************************************************************)
(* uartwrite loses no byte although the handler's echo writes the transmit *)
(* register with no lock between them: when a byte is written the FIFO     *)
(* holds one byte at most.                                                 *)
(***************************************************************************)
THEOREM NoWriteLost == Spec => []NoByteLost
<1>1. IInv => NoByteLost
  BY Zenon DEF IInv, Counted, NoByteLost
<1> QED
  BY <1>1, InitInv, NextInv, PTL DEF Spec

----------------------------------------------------------------------------
(* The line discipline.  The facts about \o are the library's. *)
INSTANCE SequenceTheorems

LEMMA HeldJoin ==
  ASSUME NEW d \in Buffer, NEW a \in Uint, NEW m \in Nat, NEW j \in Nat, m + j < UINT
  PROVE  Held(d, a, m) \o Held(d, After(a, m), j) = Held(d, a, m + j)
<1> DEFINE s == Held(d, a, m)
           t == Held(d, After(a, m), j)
           u == Held(d, a, m + j)
<1>1. /\ m < UINT /\ j < UINT /\ m + j \in Nat /\ After(a, m) \in Uint
      /\ \A k \in 0..(j - 1) : After(After(a, m), k) = After(a, m + k)
  BY Sizes DEF Uint, After
<1>2. /\ s \in Seq(Char) /\ Len(s) = m /\ t \in Seq(Char) /\ Len(t) = j
      /\ u \in Seq(Char) /\ Len(u) = m + j
  BY Zenon, <1>1, HeldType
<1>3. \A k \in 1..m : s[k] = u[k]
  <2> TAKE k \in 1..m
  <2>1. k \in 1..(m + j)
    OBVIOUS
  <2> QED
    BY SMTT(30), <1>1, <2>1, HeldType
<1>4. \A k \in (m + 1)..(m + j) : t[k - m] = u[k]
  <2> TAKE k \in (m + 1)..(m + j)
  <2>1. /\ k \in 1..(m + j) /\ k - m \in 1..j
        /\ m + (k - m - 1) = k - 1 /\ k - m - 1 \in 0..(j - 1)
    OBVIOUS
  <2>2. t[k - m] = d[After(After(a, m), k - m - 1) % INPUT_BUF_SIZE]
    BY Zenon, <1>1, <2>1, HeldType
  <2>3. u[k] = d[After(a, k - 1) % INPUT_BUF_SIZE]
    BY Zenon, <1>1, <2>1, HeldType
  <2> QED
    BY Zenon, <1>1, <2>1, <2>2, <2>3
<1>5. s \o t = u
  <2> HIDE DEF s, t, u
  <2>1. /\ s \o t \in Seq(Char) /\ Len(s \o t) = m + j
        /\ \A k \in 1..(m + j) : (s \o t)[k] = IF k <= m THEN s[k] ELSE t[k - m]
    BY Zenon, <1>2, ConcatProperties
  <2>2. ASSUME NEW k \in 1..(m + j) PROVE (s \o t)[k] = u[k]
    BY SMTT(30), <1>3, <1>4, <2>1
  <2> QED
    BY Zenon, <1>2, <2>1, <2>2, SeqEqual
<1> QED
  BY Zenon, <1>5


LEMMA LineFacts ==
  ASSUME IInv
  PROVE  /\ Between(r, w) = Held(buf, r, Span(r, w)) /\ Between(w, e) = Held(buf, w, Span(w, e))
         /\ Span(r, w) \in Nat /\ Span(w, e) \in Nat
         /\ Span(r, w) < UINT /\ Span(w, e) < UINT
         /\ Len(Between(r, w)) = Span(r, w) /\ Len(Between(w, e)) = Span(w, e)
         /\ Between(r, w) \in Seq(Char) /\ Between(w, e) \in Seq(Char)
<1>1. buf \in Buffer /\ r \in Uint /\ w \in Uint /\ e \in Uint
      /\ Span(r, w) + Span(w, e) <= INPUT_BUF_SIZE
  BY Zenon DEF IInv, Types, Editing
<1>2. Span(r, w) \in Nat /\ Span(w, e) \in Nat
  BY Zenon, <1>1, SpanFacts
<1>3. Span(r, w) + Span(w, e) < UINT /\ Span(r, w) < UINT /\ Span(w, e) < UINT
  BY <1>1, <1>2, Sizes
<1>4. Between(r, w) = Held(buf, r, Span(r, w)) /\ Between(w, e) = Held(buf, w, Span(w, e))
  BY Zenon, <1>1, BetweenIsHeld DEF Between
<1> QED
  BY SMTT(30), <1>1, <1>2, <1>3, <1>4, HeldType

LEMMA PrimedLines ==
  ASSUME IInv'
  PROVE  /\ Between(r, w)' = Held(buf', r', Span(r', w'))
         /\ Between(w, e)' = Held(buf', w', Span(w', e'))
<1>1. r' \in Uint /\ w' \in Uint /\ e' \in Uint
  BY Zenon DEF IInv, Types
<1> QED
  BY Zenon, <1>1, BetweenIsHeld DEF Between

(* A reader takes the first readable character. *)
LEMMA TakesChar ==
  ASSUME IInv, IInv', UNCHANGED <<buf, w, e>>, r' = Inc(r), r # w
  PROVE  Lines!Take
<1> DEFINE A == Span(r, w)
<1>1. buf \in Buffer /\ r \in Uint /\ w \in Uint /\ A \in Nat /\ A < UINT
  BY Zenon, LineFacts DEF IInv, Types
<1>2. r' = After(r, 1) /\ Span(r', w) = A - 1 /\ A > 0
  BY <1>1, IncFacts, RingFacts
<1>3. Tail(Held(buf, r, A)) = Held(buf, r', A - 1)
  BY Zenon, <1>1, <1>2, HeldTake
<1>4. Between(r, w)' = Tail(Between(r, w)) /\ Between(w, e)' = Between(w, e)
  BY Zenon, <1>2, <1>3, LineFacts, PrimedLines
<1>5. Between(r, w) # <<>>
  <2>1. Len(Between(r, w)) > 0
    BY Zenon, <1>2, LineFacts
  <2> QED
    BY <2>1
<1> QED
  BY Zenon, <1>4, <1>5 DEF Lines!Take

(* Backspace takes the last character of the line. *)
LEMMA ErasesChar ==
  ASSUME IInv, IInv', UNCHANGED <<buf, r, w>>, e' = Dec(e), e # w
  PROVE  Lines!Erase
<1> DEFINE B == Span(w, e)
<1>1. buf \in Buffer /\ w \in Uint /\ e \in Uint /\ B \in Nat /\ B < UINT
  BY Zenon, LineFacts DEF IInv, Types
<1>2. Span(w, e') = B - 1 /\ B > 0
  BY Zenon, <1>1, DecFacts
<1>3. SubSeq(Held(buf, w, B), 1, B - 1) = Held(buf, w, B - 1)
  BY Zenon, <1>1, <1>2, HeldErase
<1>4. Len(Between(w, e)) = B /\ Between(w, e) = Held(buf, w, B)
  BY Zenon, LineFacts
<1>5. Between(w, e)' = SubSeq(Between(w, e), 1, Len(Between(w, e)) - 1)
  BY Zenon, <1>2, <1>3, <1>4, PrimedLines
<1>6. Between(r, w)' = Between(r, w)
  BY Zenon, LineFacts, PrimedLines
<1>7. Between(w, e) # <<>>
  <2>1. Len(Between(w, e)) > 0
    BY Zenon, <1>2, <1>4
  <2> QED
    BY <2>1
<1> QED
  BY Zenon, <1>5, <1>6, <1>7 DEF Lines!Erase

(* A character is typed; it ends the line, or fills the buffer, or neither. *)
LEMMA TypesChar ==
  ASSUME IInv, Handler, consoleintr_store
  PROVE  \E ch \in Text \cup {NL, EOF} : Lines!Type(ch)
<1> DEFINE A == Span(r, w)
           B == Span(w, e)
           ready == Between(r, w)
           line == Between(w, e)
<1>1. /\ IInv' /\ r' = r /\ c \in Char /\ e' = Inc(e)
      /\ buf' = [buf EXCEPT ![e % INPUT_BUF_SIZE] = c] /\ A + B < INPUT_BUF_SIZE
      /\ IF c \in {NL, EOF} \/ A + B + 1 = INPUT_BUF_SIZE THEN w' = e' ELSE w' = w
  BY Zenon, Stores
<1>2. /\ buf \in Buffer /\ buf' \in Buffer /\ r \in Uint /\ w \in Uint /\ e \in Uint
      /\ A \in Nat /\ B \in Nat /\ ready = Held(buf, r, A) /\ line = Held(buf, w, B)
      /\ Len(ready) = A /\ Len(line) = B /\ ready \in Seq(Char) /\ line \in Seq(Char)
  BY Zenon, <1>1, LineFacts DEF IInv, Types
<1>3. /\ e = After(w, B) /\ w = After(r, A) /\ e = After(r, A + B)
      /\ Span(w, e') = B + 1 /\ Span(r, e') = A + B + 1
  <2>1. A + B + 1 < UINT /\ B + 1 < UINT /\ A + B <= INPUT_BUF_SIZE
    <3> HIDE DEF A, B
    <3> QED
      BY SMTT(30), <1>1, <1>2, Sizes
  <2>2. Span(r, e) = A + B
    BY <1>2, <2>1, SpanFacts
  <2>3. e = After(w, B) /\ w = After(r, A) /\ e = After(r, Span(r, e))
    <3>1. r \in Uint /\ w \in Uint /\ e \in Uint
      BY Zenon, <1>2
    <3> QED
      BY Zenon, <3>1, SpanReaches
  <2>4. Span(w, e') = B + 1
    BY Zenon, <1>1, <1>2, <2>1, IncFacts
  <2>5. Span(r, e) + 1 < UINT
    BY Zenon, <2>1, <2>2
  <2>6. Span(r, e') = Span(r, e) + 1
    BY Zenon, <1>1, <1>2, <2>5, IncFacts
  <2> QED
    BY Zenon, <2>2, <2>3, <2>4, <2>6
<1> HIDE DEF A, B, ready, line
<1> DEFINE typed == Append(line, c)
<1>4. typed = Held(buf', w, B + 1) /\ Len(typed) = B + 1
  <2>1. B < INPUT_BUF_SIZE
    BY <1>1, <1>2, Sizes
  <2>2. buf' = [buf EXCEPT ![After(w, B) % INPUT_BUF_SIZE] = c]
    BY Zenon, <1>1, <1>3
  <2>3. Held([buf EXCEPT ![After(w, B) % INPUT_BUF_SIZE] = c], w, B + 1)
          = Append(Held(buf, w, B), c)
    <3>1. buf \in Buffer /\ w \in Uint /\ B \in Nat /\ c \in Char
      BY Zenon, <1>1, <1>2
    <3> QED
      BY Zenon, <2>1, <3>1, HeldPut
  <2>4. Len(Append(line, c)) = B + 1
    BY <1>1, <1>2
  <2> QED
    BY Zenon, <1>2, <2>2, <2>3, <2>4
<1>5. ready = Held(buf', r, A)
  <2>1. A + B \in Nat /\ A \in 0..(A + B)
    BY <1>2
  <2>2. buf' = [buf EXCEPT ![After(r, A + B) % INPUT_BUF_SIZE] = c]
    BY Zenon, <1>1, <1>3
  <2>3. Held([buf EXCEPT ![After(r, A + B) % INPUT_BUF_SIZE] = c], r, A) = Held(buf, r, A)
    <3>1. c \in Char /\ buf \in Buffer /\ r \in Uint /\ A + B < INPUT_BUF_SIZE
      BY Zenon, <1>1, <1>2
    <3> QED
      BY Zenon, <2>1, <3>1, HeldKeep
  <2> QED
    BY Zenon, <1>2, <2>2, <2>3
<1>6. Len(ready) + Len(typed) = A + B + 1
  <2>1. Len(ready) = A /\ Len(typed) = B + 1 /\ A \in Nat /\ B \in Nat
    BY Zenon, <1>2, <1>4
  <2> HIDE DEF typed
  <2> QED
    BY <2>1
<1>7. Len(ready) + Len(typed) <= INPUT_BUF_SIZE
  BY <1>1, <1>2, <1>6, Sizes
<1>8. CASE w' = e'
  <2>1. Between(w, e)' = <<>>
    <3>1. e' \in Uint
      BY Zenon, <1>1 DEF IInv, Types
    <3>2. Span(w', e') = 0
      BY Zenon, <1>8, <3>1, SpanSelf
    <3>3. Len(Between(w, e))' = 0 /\ Between(w, e)' \in Seq(Char)
      <4>1. Between(w, e)' = Held(buf', w', 0)
        BY Zenon, <1>1, <3>2, PrimedLines
      <4>2. w' \in Uint /\ 0 \in Nat /\ 0 < UINT
        BY <1>8, <3>1, Sizes
      <4> QED
        BY <1>2, <4>1, <4>2, HeldType
    <3> QED
      BY <3>3
  <2>2. Between(r, w)' = Held(buf', r, A + B + 1)
    BY Zenon, <1>1, <1>3, <1>8, PrimedLines
  <2>3. Held(buf', r, A) \o Held(buf', After(r, A), B + 1) = Held(buf', r, A + (B + 1))
    <3>1. B + 1 \in Nat /\ A + (B + 1) < UINT
      BY <1>1, <1>2, Sizes
    <3> QED
      BY <1>2, <3>1, HeldJoin
  <2>4. Between(r, w)' = ready \o typed
    <3>1. A + (B + 1) = A + B + 1
      BY <1>2
    <3> QED
      BY Zenon, <1>3, <1>4, <1>5, <2>2, <2>3, <3>1
  <2>5. c \in {NL, EOF} \/ Len(ready) + Len(typed) = INPUT_BUF_SIZE
    <3>1. B + 1 # 0 /\ Span(w, w) = 0
      BY <1>2, SpanSelf
    <3>2. w' # w
      BY Zenon, <1>3, <1>8, <3>1
    <3> QED
      BY Zenon, <1>1, <1>6, <3>2
  <2>6. Lines!Type(c)
    BY Zenon, <1>7, <2>1, <2>4, <2>5 DEF Lines!Type, ready, line
  <2> QED
    BY Zenon, <1>1, <2>6 DEF Char
<1>9. CASE w' # e'
  <2>1. w' = w /\ ~(c \in {NL, EOF} \/ Len(ready) + Len(typed) = INPUT_BUF_SIZE)
    BY Zenon, <1>1, <1>6, <1>9
  <2>2. Between(w, e)' = typed
    BY Zenon, <1>1, <1>3, <1>4, <2>1, PrimedLines
  <2>3. Between(r, w)' = ready
    BY Zenon, <1>1, <1>5, <2>1, PrimedLines DEF A
  <2>4. Lines!Type(c)
    BY Zenon, <1>7, <2>1, <2>2, <2>3 DEF Lines!Type, ready, line
  <2> QED
    BY Zenon, <1>1, <2>4 DEF Char
<1> QED
  BY Zenon, <1>8, <1>9

LEMMA LinesNext == IInv /\ IInv' /\ [Next]_vars =>
  [Lines!Next]_<<Between(r, w), Between(w, e)>>
<1> SUFFICES ASSUME IInv, IInv', [Next]_vars
             PROVE  [Lines!Next]_<<Between(r, w), Between(w, e)>>
  BY Zenon
<1> DEFINE Same == UNCHANGED <<Between(r, w), Between(w, e)>>
<1>1. ASSUME UNCHANGED cons PROVE Same
  BY Zenon, <1>1 DEF cons, Between
<1>2. CASE Handler
  <2>1. CASE consoleintr_store
    BY Zenon, <1>2, <2>1, TypesChar DEF Lines!Next
  <2>2. CASE consoleintr_erase \/ consoleintr_kill
    BY Zenon, <1>1, <1>2, <2>2, Erases, ErasesChar DEF Lines!Next, cons
  <2>3. CASE uartintr \/ uartintr_tx \/ uartgetc \/ consoleintr \/ consoleintr_default
             \/ uartputc_sync_test \/ uartputc_sync_put
    <3>1. UNCHANGED cons
      BY Zenon, <2>3 DEF uartintr, uartintr_tx, uartgetc, consoleintr, consoleintr_default,
                  uartputc_sync_test, uartputc_sync_put
    <3> QED
      BY Zenon, <1>1, <3>1
  <2> QED
    BY Zenon, <1>2, <2>1, <2>2, <2>3 DEF Handler
<1>3. ASSUME NEW p \in Proc, acquire(p) \/ consoleread(p)
      PROVE  Lines!Next \/ Same
  BY Zenon, <1>1, <1>3, ReadsInv, TakesChar DEF Lines!Next, cons
<1>4. CASE Receive \/ Transmit \/ UNCHANGED vars
  BY Zenon, <1>1, <1>4, UartInv DEF vars
<1>5. ASSUME NEW p \in Proc, sleep(p) \/ kkill(p) \/ consolewrite(p)
                             \/ \E k \in Counts : sys_call(p, k)
      PROVE  Same
  BY Zenon, <1>1, <1>5, CallsInv, WritesInv, PutInv
<1> QED
  BY Zenon, <1>2, <1>3, <1>4, <1>5 DEF Next, Progress

LEMMA LinesInit == Init => Lines!Init
<1> SUFFICES ASSUME Init PROVE Lines!Init
  BY Zenon
<1>1. IInv
  BY Zenon, InitInv
<1>2. Len(Between(r, w)) = 0 /\ Len(Between(w, e)) = 0
  <2>1. r \in Uint /\ w = r /\ e = r
    BY Zenon, <1>1 DEF IInv, Types, Init
  <2>2. Span(r, w) = 0 /\ Span(w, e) = 0
    BY Zenon, <2>1, SpanSelf
  <2> QED
    BY Zenon, <1>1, <2>2, LineFacts
<1>3. Between(r, w) \in Seq(Char) /\ Between(w, e) \in Seq(Char)
  BY Zenon, <1>1, LineFacts
<1>4. Between(r, w) = <<>> /\ Between(w, e) = <<>>
  BY <1>2, <1>3
<1> QED
  BY Zenon, <1>4 DEF Lines!Init

(***************************************************************************)
(* struct cons implements LineInput: for every sequence of keys, readers   *)
(* and echoes, at every wrap of the three indices, characters become       *)
(* readable a line at a time in the order typed, only what is not yet      *)
(* readable is erased, and the ring loses, repeats or overwrites none      *)
(* before a reader takes it.  That the reader's copy succeeds is not       *)
(* claimed: consoleread drops a character whose either_copyout fails.      *)
(***************************************************************************)
THEOREM ConsoleIsLineInput == Spec => IsLineInput
BY InitInv, NextInv, LinesInit, LinesNext, PTL DEF Spec, IsLineInput, Lines!Spec

=============================================================================
