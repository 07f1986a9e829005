------------------------------ MODULE Keyboard -----------------------------
(***************************************************************************)
(* The keyboard buffer of leanux: the interrupt handler of                 *)
(* drivers/keyboard.c enqueues scan codes into the circular queue of       *)
(* lib/cirqueue.c, and the loop of tty_read (drivers/tty.c), with          *)
(* interrupts on and no lock, serves them.  The handler runs with          *)
(* interrupts off, in one step; the reader can be interrupted between any  *)
(* two of the loads and stores of cirqueue_serve.                          *)
(*                                                                         *)
(* There is one reader: TerminalIsTheReaders of Shell shows that the       *)
(* programs of leanux never have two processes in tty_read.                *)
(***************************************************************************)
EXTENDS Naturals, Sequences

CONSTANTS
  Key,       \* scan codes of the keys that are pressed
  NoKey,
  BUF_SIZE,  \* _CIRQUEUE_BUF_SIZE, 64
  WORD       \* values of a size_t, 2^32

ASSUME KeyboardAssumption ==
  /\ BUF_SIZE \in Nat \ {0, 1}
  /\ WORD \in Nat \ {0} /\ WORD % BUF_SIZE = 0
  /\ NoKey \notin Key

VARIABLES
  buffer, front, end,  \* struct cirqueue kb_buf
  pc,                  \* where the reader executes
  reg_front,           \* q->front as cirqueue_serve loaded it
  scan_code            \* the variable of tty_read

queueVars == <<buffer, front, end>>
readerVars == <<pc, reg_front, scan_code>>
vars == <<queueVars, readerVars>>

Index == 0 .. BUF_SIZE - 1
Word == 0 .. WORD - 1

\* keyboard_init; the fields of kb_buf are zero already.
Init ==
  /\ buffer = [i \in Index |-> NoKey]
  /\ front = 0
  /\ end = 0
  /\ pc = "check"
  /\ reg_front = 0
  /\ scan_code = NoKey

\* (q->end - q->front) % _CIRQUEUE_BUF_SIZE, in unsigned arithmetic.
Count == ((end + WORD - front) % WORD) % BUF_SIZE

\* Mutant: || in place of && in the condition of the loop.
ReduceEither(i, j) == BUF_SIZE * ((IF i < j THEN j ELSE i) \div BUF_SIZE)

\* The loop that takes BUF_SIZE from both indices while both allow it.
Reduce(i, j) == BUF_SIZE * ((IF i < j THEN i ELSE j) \div BUF_SIZE)

\* Mutant: the test for a full queue compares with the size, which the
\* remainder never reaches.
EnqueueOverFull(k) ==
  /\ buffer' = [buffer EXCEPT ![end % BUF_SIZE] = k]
  /\ LET e == (end + 1) % WORD
     IN front' = front - Reduce(front, e) /\ end' = e - Reduce(front, e)

cirqueue_enqueue(k) ==
  IF Count = BUF_SIZE - 1
  THEN UNCHANGED queueVars
  ELSE /\ buffer' = [buffer EXCEPT ![end % BUF_SIZE] = k]
       /\ LET e == (end + 1) % WORD
          IN front' = front - Reduce(front, e) /\ end' = e - Reduce(front, e)

\* A key press; a release enqueues nothing.
int_21_keyboard ==
  /\ \E k \in Key : cirqueue_enqueue(k)
  /\ UNCHANGED readerVars

-----------------------------------------------------------------------------
(* cirqueue_serve, called by tty_read until it returns true: the test for  *)
(* an empty queue, the load of the entry, the store of the next front.     *)

ServeCheck ==
  /\ pc = "check"
  /\ Count # 0
  /\ pc' = "load"
  /\ reg_front' = front
  /\ UNCHANGED <<queueVars, scan_code>>

ServeLoad ==
  /\ pc = "load"
  /\ scan_code' = buffer[reg_front % BUF_SIZE]
  /\ pc' = "store"
  /\ UNCHANGED <<queueVars, reg_front>>

\* Mutant: the next front is not taken modulo the size.
ServeStoreUnreduced ==
  /\ pc = "store"
  /\ front' = (reg_front + 1) % WORD
  /\ pc' = "use"
  /\ UNCHANGED <<buffer, end, reg_front, scan_code>>

ServeStore ==
  /\ pc = "store"
  /\ front' = (reg_front + 1) % BUF_SIZE
  /\ pc' = "use"
  /\ UNCHANGED <<buffer, end, reg_front, scan_code>>

\* tty_read looks the key up and serves the next one.
UseKey ==
  /\ pc = "use"
  /\ pc' = "check"
  /\ UNCHANGED <<queueVars, reg_front, scan_code>>

-----------------------------------------------------------------------------
Reader == ServeCheck \/ ServeLoad \/ ServeStore \/ UseKey

Next == int_21_keyboard \/ Reader

\* The process in tty_read is given the CPU in slice after slice, and every
\* interrupt handler returns to it.
Spec == Init /\ [][Next]_vars /\ WF_vars(Reader)

-----------------------------------------------------------------------------
(***************************************************************************)
(* The types of the buffer and of the reader's variables.                  *)
(***************************************************************************)
TypeOK ==
  /\ buffer \in [Index -> Key \cup {NoKey}]
  /\ front \in Word /\ end \in Word
  /\ pc \in {"check", "load", "store", "use"}
  /\ reg_front \in Word
  /\ scan_code \in Key \cup {NoKey}

(***************************************************************************)
(* The handler never moves front under the reader: what cirqueue_serve     *)
(* loaded is still q->front when it stores the next one.  That holds       *)
(* because the loop of cirqueue_enqueue that takes BUF_SIZE from both      *)
(* indices never runs: front stays below the size, and end grows until it  *)
(* wraps around.                                                           *)
(***************************************************************************)
FrontIsTheReaders ==
  /\ front < BUF_SIZE
  /\ pc \in {"load", "store"} => reg_front = front

Fifo ==
  INSTANCE KeyFifo WITH
    Capacity <- BUF_SIZE - 1,
    queue <- [i \in 1 .. Count |-> buffer[(front + i - 1) % BUF_SIZE]],
    hand <- IF pc = "use" THEN scan_code ELSE NoKey

(***************************************************************************)
(* The keyboard buffer is a queue: every key that found a free slot is     *)
(* delivered once and in order, also when end wraps around, when the queue *)
(* is full, and when keys arrive between two instructions of the reader.   *)
(***************************************************************************)
ImplementsKeyFifo == Fifo!Spec

=============================================================================
