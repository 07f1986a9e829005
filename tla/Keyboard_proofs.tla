-------------------------- MODULE Keyboard_proofs --------------------------
(***************************************************************************)
(* Proofs about Keyboard, for a queue of any size and a word of any width: *)
(* the interrupt handler leaves the reader's index alone, and every step   *)
(* of the circular queue is a step of KeyFifo.  The queue's arithmetic is  *)
(* taken modulo its size throughout and rests on Remainders.               *)
(***************************************************************************)
EXTENDS Keyboard, Remainders, SequenceTheorems

-----------------------------------------------------------------------------
(* The arithmetic of the queue, for a front f and an end e.                *)

Between(f, e) == (e - f) % BUF_SIZE
Slot(f, i) == (f + i - 1) % BUF_SIZE

LEMMA Sizes ==
  /\ BUF_SIZE \in Nat \ {0} /\ BUF_SIZE > 1 /\ WORD \in Nat \ {0}
  /\ \E k \in Int : WORD = BUF_SIZE * k
<1>1. BUF_SIZE \in Nat \ {0} /\ BUF_SIZE > 1 /\ WORD \in Nat \ {0}
  BY KeyboardAssumption
<1>2. WORD \div BUF_SIZE \in Int /\ WORD = BUF_SIZE * (WORD \div BUF_SIZE) + (WORD % BUF_SIZE)
  <2>1. WORD \in Int
    BY <1>1
  <2> QED BY <1>1, <2>1, DivMod
<1>3. WORD % BUF_SIZE = 0
  BY KeyboardAssumption
<1> DEFINE k == WORD \div BUF_SIZE
<1>4. k \in Int /\ BUF_SIZE * k \in Int
  BY <1>1, <1>2
<1>5. WORD = BUF_SIZE * k
  BY <1>2, <1>3, <1>4
<1> QED BY <1>1, <1>4, <1>5

\* What is congruent stays so.
LEMMA Congruent ==
  ASSUME NEW a \in Int, NEW d \in Int, NEW c \in Int, NEW b \in Nat \ {0}, a % b = d % b
  PROVE  (a + c) % b = (d + c) % b
<1>1. ((a % b) + c) % b = (a + c) % b
  BY AddReduced
<1>2. ((d % b) + c) % b = (d + c) % b
  BY AddReduced
<1> QED BY <1>1, <1>2

\* A size_t that wraps around keeps its remainder: the queue's size divides
\* the word's.
LEMMA WrapsAround ==
  ASSUME NEW a \in Int
  PROVE  a % WORD \in Word /\ (a % WORD) % BUF_SIZE = a % BUF_SIZE
<1> DEFINE q == a \div WORD
           r == a % WORD
<1>1. q \in Int /\ r \in 0 .. WORD - 1 /\ a = WORD * q + r
  BY Sizes, DivMod
<1> HIDE DEF q, r
<1>2. PICK k \in Int : WORD = BUF_SIZE * k
  BY Sizes
<1> DEFINE m == k * q
<1>3. m \in Int /\ WORD * q = BUF_SIZE * m
  BY <1>1, <1>2, Sizes
<1> HIDE DEF m
<1>4. r + BUF_SIZE * m = a
  <2>1. BUF_SIZE * m \in Int
    BY <1>3, Sizes
  <2> QED BY <1>1, <1>3, <2>1
<1>5. (r + BUF_SIZE * m) % BUF_SIZE = r % BUF_SIZE
  <2>1. r \in Int
    BY <1>1, Sizes
  <2> QED BY <1>3, <2>1, Sizes, AddMultiple
<1> QED BY <1>1, <1>4, <1>5 DEF r, Word

\* The unsigned subtraction of _cirqueue_count.
LEMMA CountIs ==
  ASSUME NEW f \in Word, NEW e \in Word
  PROVE  /\ ((e + WORD - f) % WORD) % BUF_SIZE = Between(f, e)
         /\ Between(f, e) \in Index
<1> DEFINE a == e + WORD - f
           d == e - f
<1>1. a \in Int /\ d \in Int /\ a = d + WORD
  BY Sizes DEF Word
<1>2. PICK k \in Int : WORD = BUF_SIZE * k
  BY Sizes
<1> HIDE DEF a, d
<1>3. (d + BUF_SIZE * k) % BUF_SIZE = d % BUF_SIZE
  BY <1>1, <1>2, Sizes, AddMultiple
<1>4. (a % WORD) % BUF_SIZE = a % BUF_SIZE
  BY <1>1, WrapsAround
<1>5. d % BUF_SIZE \in Index
  BY <1>1, Sizes, DivMod DEF Index
<1> QED BY <1>1, <1>2, <1>3, <1>4, <1>5 DEF a, d, Between

LEMMA SlotIsIndex ==
  ASSUME NEW f \in Word, NEW i \in Int
  PROVE  Slot(f, i) \in Index
<1> DEFINE a == f + i - 1
<1>1. a \in Int
  BY Sizes DEF Word
<1> HIDE DEF a
<1>2. a % BUF_SIZE \in Index
  BY <1>1, Sizes, DivMod DEF Index
<1> QED BY <1>2 DEF a, Slot

LEMMA SlotsDiffer ==
  ASSUME NEW f \in Word, NEW i \in Int, NEW j \in Int, i < j, j - i < BUF_SIZE
  PROVE  Slot(f, i) # Slot(f, j)
<1> DEFINE a == f + i - 1
           d == j - i
<1>1. a \in Int /\ d \in 1 .. BUF_SIZE - 1 /\ a + d = f + j - 1
  BY Sizes DEF Word
<1> HIDE DEF a, d
<1>2. (a + d) % BUF_SIZE # a % BUF_SIZE
  BY <1>1, Sizes, Distinct
<1> QED BY <1>1, <1>2 DEF a, d, Slot

\* What cirqueue_enqueue computes when the queue is not full.
LEMMA EnqueueMoves ==
  ASSUME NEW f \in Word, f < BUF_SIZE, NEW e \in Word, Between(f, e) # BUF_SIZE - 1
  PROVE  LET n == (e + 1) % WORD
         IN  /\ n \in Word
             /\ Reduce(f, n) = 0
             /\ Between(f, n) = Between(f, e) + 1
             /\ e % BUF_SIZE = Slot(f, Between(f, e) + 1)
<1> DEFINE n == (e + 1) % WORD
           d == e - f
           g == e + 1
           m == -f
           r == d % BUF_SIZE
<1>0. e \in Int /\ f \in Int /\ d \in Int /\ g \in Int /\ m \in Int
  BY Sizes DEF Word
<1>1. n \in Word /\ n % BUF_SIZE = g % BUF_SIZE
  BY <1>0, WrapsAround
<1>n. n \in Int
  BY <1>1, Sizes DEF Word
<1>g. g + m = d + 1 /\ d + f = e
  BY <1>0
<1> HIDE DEF n, g
<1>2. Reduce(f, n) = 0
  <2> DEFINE x == IF f < n THEN f ELSE n
  <2>1. x \in 0 .. BUF_SIZE - 1
    BY <1>1, Sizes DEF Word
  <2> HIDE DEF x
  <2>2. x \div BUF_SIZE = 0
    BY <2>1, Sizes, Small
  <2>3. BUF_SIZE * 0 = 0
    BY Sizes
  <2> QED BY <2>2, <2>3 DEF x, Reduce
<1>m. n + m = n - f
  BY <1>0, <1>n
<1> HIDE DEF d, m
<1>3. (n + m) % BUF_SIZE = (g + m) % BUF_SIZE
  <2>1. n % BUF_SIZE = g % BUF_SIZE /\ n \in Int /\ g \in Int /\ m \in Int
    BY <1>0, <1>1, <1>n
  <2>2. BUF_SIZE \in Nat \ {0}
    BY Sizes
  <2> HIDE DEF r
  <2> QED BY ONLY <2>1, <2>2, Congruent
<1>4. (d + 1) % BUF_SIZE = (d % BUF_SIZE) + 1
  <2>1. d % BUF_SIZE # BUF_SIZE - 1
    BY DEF Between, d
  <2> QED BY <1>0, <2>1, Sizes, NextRemainder
<1>5. Between(f, n) = Between(f, e) + 1
  BY <1>3, <1>4, <1>g, <1>m DEF Between, d
<1>6. (r + f) % BUF_SIZE = e % BUF_SIZE
  BY <1>0, <1>g, Sizes, AddReduced
<1>7. r \in Int
  BY <1>0, Sizes, DivMod
<1> HIDE DEF r
<1>8. Slot(f, r + 1) = (r + f) % BUF_SIZE
  <2>1. f + (r + 1) - 1 = r + f
    BY <1>0, <1>7
  <2> QED BY <2>1 DEF Slot
<1>9. Between(f, e) = r
  BY DEF Between, d, r
<1> QED BY <1>1, <1>2, <1>5, <1>6, <1>8, <1>9 DEF n

\* What cirqueue_serve computes when the queue is not empty.
LEMMA ServeMoves ==
  ASSUME NEW f \in Word, NEW e \in Word, Between(f, e) # 0
  PROVE  LET n == (f + 1) % BUF_SIZE
         IN  /\ n \in Word /\ n < BUF_SIZE
             /\ Between(n, e) = Between(f, e) - 1
             /\ \A i \in Int : Slot(n, i) = Slot(f, i + 1)
<1> DEFINE g == f + 1
           n == g % BUF_SIZE
           d == e - f
<1>1. e \in Int /\ f \in Int /\ d \in Int /\ g \in Int /\ e - g = d - 1
  BY Sizes DEF Word
<1>2. n \in 0 .. BUF_SIZE - 1
  BY <1>1, Sizes, DivMod
<1>3. BUF_SIZE <= WORD
  <2>1. PICK k \in Int : WORD = BUF_SIZE * k
    BY Sizes
  <2>2. 0 < k
    <3>1. k < 0 => BUF_SIZE * k + BUF_SIZE <= BUF_SIZE * 0
      <4>1. 0 \in Int /\ BUF_SIZE \in Nat
        BY Sizes
      <4> QED BY <4>1, Multiples
    <3>2. BUF_SIZE * 0 = 0
      BY Sizes
    <3>3. k = 0 => WORD = 0
      BY <2>1, <3>2
    <3> QED BY <2>1, <3>1, <3>2, <3>3, Sizes
  <2>3. BUF_SIZE * 0 + BUF_SIZE <= BUF_SIZE * k
    <3>1. 0 \in Int /\ BUF_SIZE \in Nat
      BY Sizes
    <3> QED BY <2>2, <3>1, Multiples
  <2> QED BY <2>1, <2>3, Sizes
<1>4. n \in Word /\ n < BUF_SIZE /\ n \in Int
  BY <1>2, <1>3, Sizes DEF Word
<1>5. (e - n) % BUF_SIZE = (e - g) % BUF_SIZE
  BY <1>1, Sizes, SubtractReduced
<1>6. (d - 1) % BUF_SIZE = (d % BUF_SIZE) - 1
  <2>1. d % BUF_SIZE # 0
    BY DEF Between, d
  <2> HIDE DEF d
  <2> QED BY <1>1, <2>1, Sizes, PreviousRemainder
<1>7. Between(n, e) = Between(f, e) - 1
  <2> HIDE DEF n, g
  <2> QED BY <1>1, <1>5, <1>6 DEF Between, d
<1>8. ASSUME NEW i \in Int
      PROVE  Slot(n, i) = Slot(f, i + 1)
  <2> DEFINE c == i - 1
  <2>1. c \in Int
    OBVIOUS
  <2> HIDE DEF c
  <2>2. (n + c) % BUF_SIZE = (g + c) % BUF_SIZE
    BY <1>1, <2>1, Sizes, AddReduced
  <2> HIDE DEF n
  <2>3. n + c = n + i - 1 /\ g + c = f + (i + 1) - 1
    BY <1>1, <1>4 DEF c, g
  <2> QED BY <2>2, <2>3 DEF Slot
<1> HIDE DEF d
<1> QED BY <1>4, <1>7, <1>8 DEF n, g

-----------------------------------------------------------------------------
(* The invariant: what is in the queue are keys, and the reader that has   *)
(* found one is still looking at the first of them.                        *)

EntriesAreKeys == \A i \in 1 .. Count : buffer[Slot(front, i)] \in Key

ReaderHoldsFirst ==
  /\ pc \in {"load", "store"} => Count # 0
  /\ pc = "store" => scan_code = buffer[Slot(front, 1)]
  /\ pc = "use" => scan_code \in Key

KInv == TypeOK /\ FrontIsTheReaders /\ EntriesAreKeys /\ ReaderHoldsFirst

\* Count in terms of the two indices, in this state and in the next.
LEMMA CountBetween ==
  /\ TypeOK => Count = Between(front, end) /\ Count \in Index
  /\ TypeOK' => Count' = Between(front', end') /\ Count' \in Index
<1>1. TypeOK => Count = Between(front, end) /\ Count \in Index
  <2> SUFFICES ASSUME TypeOK PROVE Count = Between(front, end) /\ Count \in Index
    OBVIOUS
  <2>1. front \in Word /\ end \in Word
    BY DEF TypeOK
  <2> QED BY <2>1, CountIs DEF Count
<1>2. TypeOK' => Count' = Between(front', end') /\ Count' \in Index
  <2> SUFFICES ASSUME TypeOK' PROVE Count' = Between(front', end') /\ Count' \in Index
    OBVIOUS
  <2>1. front' \in Word /\ end' \in Word
    BY DEF TypeOK
  <2> QED BY <2>1, CountIs DEF Count
<1> QED BY <1>1, <1>2

LEMMA FirstSlot ==
  ASSUME NEW f \in Word, f < BUF_SIZE
  PROVE  f % BUF_SIZE = f /\ Slot(f, 1) = f
<1>1. f \in 0 .. BUF_SIZE - 1 /\ f + 1 - 1 = f
  BY Sizes DEF Word
<1>2. f % BUF_SIZE = f
  BY <1>1, Sizes, Small
<1> QED BY <1>1, <1>2 DEF Slot

\* What the handler does with a key it has room for.
LEMMA EnqueueStep ==
  ASSUME KInv, NEW k \in Key, cirqueue_enqueue(k), Count # BUF_SIZE - 1
  PROVE  /\ front' = front /\ end' \in Word
         /\ end % BUF_SIZE = Slot(front, Count + 1) /\ end % BUF_SIZE \in Index
         /\ buffer' = [buffer EXCEPT ![end % BUF_SIZE] = k]
         /\ Between(front, end') = Count + 1
<1>1. front \in Word /\ end \in Word /\ front < BUF_SIZE /\ front \in Int
  BY Sizes DEF KInv, TypeOK, FrontIsTheReaders, Word
<1>2. Count = Between(front, end)
  BY CountBetween DEF KInv
<1> DEFINE n == (end + 1) % WORD
<1>3. /\ buffer' = [buffer EXCEPT ![end % BUF_SIZE] = k]
      /\ front' = front - Reduce(front, n) /\ end' = n - Reduce(front, n)
  BY DEF cirqueue_enqueue
<1>4. /\ n \in Word /\ Reduce(front, n) = 0
      /\ Between(front, n) = Between(front, end) + 1
      /\ end % BUF_SIZE = Slot(front, Between(front, end) + 1)
  BY <1>1, <1>2, EnqueueMoves
<1>5. n \in Int
  BY <1>4, Sizes DEF Word
<1> HIDE DEF n
<1>6. front' = front /\ end' = n
  BY <1>1, <1>3, <1>4, <1>5
<1>7. Between(front, end) + 1 \in Int
  BY <1>2, CountBetween, Sizes DEF KInv, Index
<1>8. Slot(front, Between(front, end) + 1) \in Index
  BY <1>1, <1>7, SlotIsIndex
<1> QED BY <1>2, <1>3, <1>4, <1>6, <1>8

\* What ServeStore does.
LEMMA ServeStep ==
  ASSUME KInv, ServeStore
  PROVE  /\ Count # 0 /\ front' \in Word /\ front' < BUF_SIZE
         /\ buffer' = buffer /\ end' = end /\ scan_code' = scan_code
         /\ Between(front', end) = Count - 1
         /\ \A i \in Int : Slot(front', i) = Slot(front, i + 1)
<1>1. front \in Word /\ end \in Word /\ reg_front = front /\ Count # 0
  BY DEF KInv, TypeOK, FrontIsTheReaders, ReaderHoldsFirst, ServeStore
<1>2. Count = Between(front, end)
  BY CountBetween DEF KInv
<1>3. /\ buffer' = buffer /\ end' = end /\ scan_code' = scan_code
      /\ front' = (front + 1) % BUF_SIZE
  BY <1>1 DEF ServeStore
<1>4. LET n == (front + 1) % BUF_SIZE
      IN  /\ n \in Word /\ n < BUF_SIZE
          /\ Between(n, end) = Between(front, end) - 1
          /\ \A i \in Int : Slot(n, i) = Slot(front, i + 1)
  BY <1>1, <1>2, ServeMoves
<1> QED BY <1>1, <1>2, <1>3, <1>4

LEMMA InitKInv == Init => KInv
<1> SUFFICES ASSUME Init PROVE KInv
  OBVIOUS
<1>1. 0 \in Word /\ 0 < BUF_SIZE
  BY Sizes DEF Word
<1>2. TypeOK
  BY <1>1 DEF Init, TypeOK
<1>3. FrontIsTheReaders
  BY <1>1 DEF Init, FrontIsTheReaders
<1>4. Count = 0
  <2>1. Count = Between(0, 0)
    BY <1>2, CountBetween DEF Init
  <2>2. 0 % BUF_SIZE = 0
    BY <1>1, FirstSlot
  <2>3. 0 - 0 = 0
    OBVIOUS
  <2> QED BY <2>1, <2>2, <2>3 DEF Between
<1>5. EntriesAreKeys
  BY <1>4 DEF EntriesAreKeys
<1>6. ReaderHoldsFirst
  BY DEF Init, ReaderHoldsFirst
<1> QED BY <1>2, <1>3, <1>5, <1>6 DEF KInv

LEMMA NextKInv == KInv /\ [Next]_vars => KInv'
<1> SUFFICES ASSUME KInv, [Next]_vars PROVE KInv'
  OBVIOUS
<1> USE DEF KInv
<1>0. /\ front \in Word /\ end \in Word /\ front < BUF_SIZE
      /\ Count = Between(front, end) /\ Count \in Index /\ Count \in Nat
  <2>1. Count = Between(front, end) /\ Count \in Index
    BY CountBetween
  <2> QED BY <2>1, Sizes DEF TypeOK, FrontIsTheReaders, Index
<1>1. CASE int_21_keyboard
  <2>1. PICK k \in Key : cirqueue_enqueue(k)
    BY <1>1 DEF int_21_keyboard
  <2>2. UNCHANGED <<pc, reg_front, scan_code>>
    BY <1>1 DEF int_21_keyboard, readerVars
  <2>3. CASE Count = BUF_SIZE - 1
    <3>1. UNCHANGED vars
      BY <2>1, <2>2, <2>3 DEF cirqueue_enqueue, vars, queueVars, readerVars
    <3>2. TypeOK' /\ FrontIsTheReaders'
      BY <3>1 DEF vars, queueVars, readerVars, TypeOK, FrontIsTheReaders
    <3>3. Count' = Count
      BY <3>1 DEF Count, vars, queueVars
    <3> QED BY <3>1, <3>2, <3>3 DEF vars, queueVars, readerVars, EntriesAreKeys, ReaderHoldsFirst
  <2>4. CASE Count # BUF_SIZE - 1
    <3>1. /\ front' = front /\ end' \in Word
          /\ end % BUF_SIZE = Slot(front, Count + 1) /\ end % BUF_SIZE \in Index
          /\ buffer' = [buffer EXCEPT ![end % BUF_SIZE] = k]
          /\ Between(front, end') = Count + 1
      BY <2>1, <2>4, EnqueueStep
    <3> DEFINE t == end % BUF_SIZE
    <3> HIDE DEF t
    <3>2. TypeOK'
      BY <2>2, <3>1 DEF TypeOK, t
    <3>3. FrontIsTheReaders'
      BY <2>2, <3>1 DEF FrontIsTheReaders
    <3>4. Count' = Count + 1
      BY <3>1, <3>2, CountBetween
    <3>5. ASSUME NEW i \in 1 .. Count
          PROVE  Slot(front, i) # t /\ Slot(front, i) \in Index
      <4>1. i \in Int /\ Count + 1 \in Int /\ i < Count + 1 /\ (Count + 1) - i < BUF_SIZE
        BY <1>0, Sizes DEF Index
      <4> QED BY <1>0, <3>1, <4>1, SlotsDiffer, SlotIsIndex DEF t
    <3>6. EntriesAreKeys'
      <4> SUFFICES ASSUME NEW i \in 1 .. Count + 1
                   PROVE  buffer'[Slot(front, i)] \in Key
        BY <3>1, <3>4 DEF EntriesAreKeys
      <4>1. CASE i \in 1 .. Count
        BY <3>1, <3>5, <4>1 DEF TypeOK, EntriesAreKeys, t
      <4>2. CASE i = Count + 1
        BY <3>1, <4>2 DEF TypeOK, t
      <4> QED BY <1>0, <4>1, <4>2
    <3>7. ReaderHoldsFirst'
      <4>1. Count # 0 => Slot(front, 1) # t /\ Slot(front, 1) \in Index
        BY <1>0, <3>5
      <4>2. Count # 0 => buffer'[Slot(front, 1)] = buffer[Slot(front, 1)]
        BY <3>1, <4>1 DEF TypeOK, t
      <4> QED BY <1>0, <2>2, <3>1, <3>4, <4>2 DEF ReaderHoldsFirst
    <3> QED BY <3>2, <3>3, <3>6, <3>7
  <2> QED BY <2>3, <2>4
<1>2. CASE ServeCheck
  <2>1. /\ buffer' = buffer /\ front' = front /\ end' = end /\ scan_code' = scan_code
        /\ pc' = "load" /\ reg_front' = front /\ Count # 0
    BY <1>2 DEF ServeCheck, queueVars
  <2>2. Count' = Count
    BY <2>1 DEF Count
  <2>3. TypeOK' /\ FrontIsTheReaders'
    BY <2>1 DEF TypeOK, FrontIsTheReaders
  <2> QED BY <2>1, <2>2, <2>3 DEF EntriesAreKeys, ReaderHoldsFirst
<1>3. CASE ServeLoad
  <2>1. /\ buffer' = buffer /\ front' = front /\ end' = end /\ reg_front' = reg_front
        /\ pc = "load" /\ pc' = "store" /\ scan_code' = buffer[reg_front % BUF_SIZE]
    BY <1>3 DEF ServeLoad, queueVars
  <2>2. Count' = Count
    BY <2>1 DEF Count
  <2>3. reg_front = front /\ Count # 0
    BY <2>1 DEF FrontIsTheReaders, ReaderHoldsFirst
  <2>4. scan_code' = buffer[front] /\ Slot(front, 1) = front /\ front \in Index
    <3>1. front % BUF_SIZE = front /\ Slot(front, 1) = front
      BY <1>0, FirstSlot
    <3>2. front \in Index
      BY <1>0, Sizes DEF Word, Index
    <3> QED BY <2>1, <2>3, <3>1, <3>2
  <2>5. TypeOK' /\ FrontIsTheReaders'
    BY <2>1, <2>3, <2>4 DEF TypeOK, FrontIsTheReaders
  <2> QED BY <2>1, <2>2, <2>3, <2>4, <2>5 DEF EntriesAreKeys, ReaderHoldsFirst
<1>4. CASE ServeStore
  <2>1. /\ Count # 0 /\ front' \in Word /\ front' < BUF_SIZE
        /\ buffer' = buffer /\ end' = end /\ scan_code' = scan_code
        /\ Between(front', end) = Count - 1
        /\ \A i \in Int : Slot(front', i) = Slot(front, i + 1)
    BY <1>4, ServeStep
  <2>2. reg_front' = reg_front /\ pc = "store" /\ pc' = "use"
    BY <1>4 DEF ServeStore
  <2>3. TypeOK' /\ FrontIsTheReaders'
    BY <2>1, <2>2 DEF TypeOK, FrontIsTheReaders
  <2>4. Count' = Count - 1
    BY <2>1, <2>3, CountBetween
  <2>5. EntriesAreKeys'
    <3> SUFFICES ASSUME NEW i \in 1 .. Count - 1
                 PROVE  buffer[Slot(front', i)] \in Key
      BY <2>1, <2>4 DEF EntriesAreKeys
    <3>1. i + 1 \in 1 .. Count /\ i \in Int
      BY <1>0
    <3> QED BY <2>1, <3>1 DEF EntriesAreKeys
  <2>6. scan_code \in Key
    <3>1. 1 \in 1 .. Count
      BY <1>0, <2>1
    <3> QED BY <2>2, <3>1 DEF EntriesAreKeys, ReaderHoldsFirst
  <2> QED BY <2>1, <2>2, <2>3, <2>5, <2>6 DEF ReaderHoldsFirst
<1>5. CASE UseKey
  <2>1. /\ buffer' = buffer /\ front' = front /\ end' = end /\ reg_front' = reg_front
        /\ scan_code' = scan_code /\ pc' = "check"
    BY <1>5 DEF UseKey, queueVars
  <2>2. Count' = Count
    BY <2>1 DEF Count
  <2>3. TypeOK' /\ FrontIsTheReaders'
    BY <2>1 DEF TypeOK, FrontIsTheReaders
  <2> QED BY <2>1, <2>2, <2>3 DEF EntriesAreKeys, ReaderHoldsFirst
<1>6. CASE UNCHANGED vars
  <2>1. TypeOK' /\ FrontIsTheReaders'
    BY <1>6 DEF vars, queueVars, readerVars, TypeOK, FrontIsTheReaders
  <2>2. Count' = Count
    BY <1>6 DEF Count, vars, queueVars
  <2> QED BY <1>6, <2>1, <2>2 DEF vars, queueVars, readerVars, EntriesAreKeys, ReaderHoldsFirst
<1> QED BY <1>1, <1>2, <1>3, <1>4, <1>5, <1>6 DEF Next, Reader

(***************************************************************************)
(* The buffer and the reader's variables stay within their types.          *)
(***************************************************************************)
THEOREM TypeCorrect == Spec => []TypeOK
<1>1. Init => KInv
  BY InitKInv
<1>2. KInv /\ [Next]_vars => KInv'
  BY NextKInv
<1>3. KInv => TypeOK
  BY DEF KInv
<1> QED BY <1>1, <1>2, <1>3, PTL DEF Spec

(***************************************************************************)
(* For every size of the buffer that divides 2^32: the keyboard interrupt  *)
(* never moves the index that cirqueue_serve has loaded and will store.    *)
(***************************************************************************)
THEOREM FrontCorrect == Spec => []FrontIsTheReaders
<1>1. Init => KInv
  BY InitKInv
<1>2. KInv /\ [Next]_vars => KInv'
  BY NextKInv
<1>3. KInv => FrontIsTheReaders
  BY DEF KInv
<1> QED BY <1>1, <1>2, <1>3, PTL DEF Spec

-----------------------------------------------------------------------------
(* The refinement.                                                         *)

Queue == [i \in 1 .. Count |-> buffer[(front + i - 1) % BUF_SIZE]]
Hand == IF pc = "use" THEN scan_code ELSE NoKey

LEMMA QueueIs ==
  ASSUME KInv
  PROVE  /\ Queue \in Seq(Key) /\ Len(Queue) = Count
         /\ Queue # <<>> <=> Count # 0
         /\ \A i \in 1 .. Count : Queue[i] = buffer[Slot(front, i)]
<1>1. Count \in Nat
  BY CountBetween, Sizes DEF KInv, Index
<1>2. \A i \in 1 .. Count : Queue[i] = buffer[Slot(front, i)]
  BY DEF Queue, Slot
<1>3. Queue \in [1 .. Count -> Key]
  BY <1>2 DEF Queue, KInv, EntriesAreKeys, Slot
<1>4. Queue \in Seq(Key)
  BY <1>1, <1>3, SeqDef
<1>5. Len(Queue) = Count
  BY <1>1, <1>3, LenProperties, <1>4
<1> QED BY <1>1, <1>2, <1>4, <1>5, EmptySeq

LEMMA QueueIsNext ==
  ASSUME KInv'
  PROVE  /\ Queue' \in Seq(Key) /\ Len(Queue') = Count'
         /\ \A i \in 1 .. Count' : Queue'[i] = buffer'[Slot(front', i)]
<1>1. Count' \in Nat
  BY CountBetween, Sizes DEF KInv, Index
<1>2. \A i \in 1 .. Count' : Queue'[i] = buffer'[Slot(front', i)]
  BY DEF Queue, Slot
<1>3. Queue' \in [1 .. Count' -> Key]
  BY <1>2 DEF Queue, KInv, EntriesAreKeys, Slot
<1>4. Queue' \in Seq(Key)
  BY <1>1, <1>3, SeqDef
<1>5. Len(Queue') = Count'
  BY <1>1, <1>3, LenProperties, <1>4
<1> QED BY <1>1, <1>2, <1>4, <1>5

LEMMA PressStep ==
  ASSUME KInv, KInv', NEW k \in Key, cirqueue_enqueue(k), Count # BUF_SIZE - 1
  PROVE  Len(Queue) < BUF_SIZE - 1 /\ Queue' = Append(Queue, k)
<1>1. /\ front' = front /\ end % BUF_SIZE = Slot(front, Count + 1) /\ end % BUF_SIZE \in Index
      /\ buffer' = [buffer EXCEPT ![end % BUF_SIZE] = k]
      /\ Between(front, end') = Count + 1
  BY EnqueueStep
<1>2. Count \in Nat /\ Count < BUF_SIZE - 1 /\ front \in Word
  BY CountBetween, Sizes DEF KInv, TypeOK, Index
<1>3. Count' = Count + 1
  BY <1>1, CountBetween DEF KInv
<1>4. /\ Queue \in Seq(Key) /\ Len(Queue) = Count
      /\ \A i \in 1 .. Count : Queue[i] = buffer[Slot(front, i)]
  BY QueueIs
<1>5. /\ Queue' \in Seq(Key) /\ Len(Queue') = Count + 1
      /\ \A i \in 1 .. Count + 1 : Queue'[i] = buffer'[Slot(front, i)]
  BY QueueIsNext, <1>1, <1>3
<1> DEFINE t == end % BUF_SIZE
           q == Queue
           r == Queue'
           a == Append(q, k)
<1>6. /\ a \in Seq(Key) /\ Len(a) = Count + 1
      /\ \A i \in 1 .. Count : a[i] = q[i]
      /\ a[Count + 1] = k
  BY <1>4, AppendProperties
<1> HIDE DEF t, a
<1>7. ASSUME NEW i \in 1 .. Count + 1
      PROVE  r[i] = a[i]
  <2>1. CASE i \in 1 .. Count
    <3>1. i \in Int /\ Count + 1 \in Int /\ i < Count + 1 /\ (Count + 1) - i < BUF_SIZE
      BY <1>2, <2>1, Sizes
    <3>2. Slot(front, i) # t /\ Slot(front, i) \in Index
      BY <1>1, <1>2, <3>1, SlotsDiffer, SlotIsIndex DEF t
    <3>3. buffer'[Slot(front, i)] = buffer[Slot(front, i)]
      BY <1>1, <3>2 DEF KInv, TypeOK, t
    <3> QED BY <1>4, <1>5, <1>6, <2>1, <3>3
  <2>2. CASE i = Count + 1
    <3>1. buffer'[t] = k
      BY <1>1 DEF KInv, TypeOK, t
    <3> QED BY <1>1, <1>5, <1>6, <2>2, <3>1 DEF t
  <2> QED BY <1>2, <2>1, <2>2
<1> HIDE DEF q, r
<1>8. r \in Seq(Key) /\ Len(r) = Len(a)
  BY <1>5, <1>6 DEF r
<1>9. \A i \in 1 .. Len(r) : r[i] = a[i]
  BY <1>5, <1>7 DEF r
<1>10. r = a
  BY <1>6, <1>8, <1>9, SeqEqual
<1> QED BY <1>2, <1>4, <1>10 DEF a, q, r

LEMMA TakeStep ==
  ASSUME KInv, KInv', ServeStore
  PROVE  Queue # <<>> /\ Hand = NoKey /\ Hand' = Head(Queue) /\ Queue' = Tail(Queue)
<1>1. /\ Count # 0 /\ buffer' = buffer /\ scan_code' = scan_code
      /\ Between(front', end) = Count - 1 /\ end' = end
      /\ \A i \in Int : Slot(front', i) = Slot(front, i + 1)
  BY ServeStep
<1>2. pc = "store" /\ pc' = "use"
  BY DEF ServeStore
<1>3. Count \in Nat \ {0}
  BY <1>1, CountBetween, Sizes DEF KInv, Index
<1>4. Count' = Count - 1
  BY <1>1, CountBetween DEF KInv
<1>5. /\ Queue \in Seq(Key) /\ Len(Queue) = Count /\ Queue # <<>>
      /\ \A i \in 1 .. Count : Queue[i] = buffer[Slot(front, i)]
  BY <1>1, QueueIs
<1>6. /\ Queue' \in Seq(Key) /\ Len(Queue') = Count - 1
      /\ \A i \in 1 .. Count - 1 : Queue'[i] = buffer[Slot(front', i)]
  BY QueueIsNext, <1>1, <1>4
<1>7. Hand = NoKey /\ Hand' = scan_code
  BY <1>1, <1>2 DEF Hand
<1>8. scan_code = Head(Queue)
  <2>1. scan_code = buffer[Slot(front, 1)]
    BY <1>2 DEF KInv, ReaderHoldsFirst
  <2>2. 1 \in 1 .. Count
    BY <1>3
  <2>3. Head(Queue) = Queue[1]
    BY <1>5
  <2> QED BY <1>5, <2>1, <2>2, <2>3
<1> DEFINE q == Queue
           r == Queue'
           a == Tail(q)
<1>9. /\ a \in Seq(Key) /\ Len(a) = Count - 1
      /\ \A i \in 1 .. Count - 1 : a[i] = q[i + 1]
  BY <1>5, HeadTailProperties
<1> HIDE DEF a
<1>10. ASSUME NEW i \in 1 .. Count - 1
       PROVE  r[i] = a[i]
  <2>1. i \in Int /\ i + 1 \in 1 .. Count
    BY <1>3
  <2> QED BY <1>1, <1>5, <1>6, <1>9, <2>1
<1> HIDE DEF q, r
<1>11. r \in Seq(Key) /\ Len(r) = Len(a)
  BY <1>6, <1>9 DEF r
<1>12. \A i \in 1 .. Len(r) : r[i] = a[i]
  BY <1>6, <1>10 DEF r
<1>13. r = a
  BY <1>9, <1>11, <1>12, SeqEqual
<1> QED BY <1>5, <1>7, <1>8, <1>13 DEF a, q, r

\* What the queue and the hand are made of.
LEMMA QueueStays ==
  ASSUME UNCHANGED queueVars
  PROVE  Queue' = Queue
BY DEF queueVars, Queue, Count

LEMMA StepRefines ==
  ASSUME KInv, KInv', [Next]_vars
  PROVE  [Fifo!Next]_(Fifo!vars)
<1> SUFFICES ASSUME ~(Queue' = Queue /\ Hand' = Hand) PROVE Fifo!Next
  BY DEF Fifo!vars, Queue, Hand
<1>1. CASE int_21_keyboard
  <2>1. PICK k \in Key : cirqueue_enqueue(k)
    BY <1>1 DEF int_21_keyboard
  <2>2. Hand' = Hand
    BY <1>1 DEF int_21_keyboard, readerVars, Hand
  <2>3. CASE Count = BUF_SIZE - 1
    <3>1. UNCHANGED queueVars
      BY <2>1, <2>3 DEF cirqueue_enqueue
    <3> QED BY <2>2, <3>1, QueueStays
  <2>4. CASE Count # BUF_SIZE - 1
    <3>1. Len(Queue) < BUF_SIZE - 1 /\ Queue' = Append(Queue, k)
      BY <2>1, <2>4, PressStep
    <3>2. Fifo!Press(k)
      BY <2>2, <3>1 DEF Fifo!Press, Queue, Hand
    <3> QED BY <3>2 DEF Fifo!Next
  <2> QED BY <2>3, <2>4
<1>2. CASE ServeStore
  <2>1. Queue # <<>> /\ Hand = NoKey /\ Hand' = Head(Queue) /\ Queue' = Tail(Queue)
    BY <1>2, TakeStep
  <2>2. Fifo!Take
    BY <2>1 DEF Fifo!Take, Queue, Hand
  <2> QED BY <2>2 DEF Fifo!Next
<1>3. CASE UseKey
  <2>1. pc = "use" /\ pc' = "check" /\ scan_code \in Key
    BY <1>3 DEF UseKey, KInv, ReaderHoldsFirst
  <2>2. Hand # NoKey /\ Hand' = NoKey
    BY <2>1, KeyboardAssumption DEF Hand
  <2>3. Queue' = Queue
    BY <1>3, QueueStays DEF UseKey
  <2>4. Fifo!Use
    BY <2>2, <2>3 DEF Fifo!Use, Queue, Hand
  <2> QED BY <2>4 DEF Fifo!Next
<1>4. CASE ServeCheck \/ ServeLoad
  <2>1. Hand' = Hand
    BY <1>4 DEF ServeCheck, ServeLoad, Hand
  <2>2. Queue' = Queue
    BY <1>4, QueueStays DEF ServeCheck, ServeLoad
  <2> QED BY <2>1, <2>2
<1>5. CASE UNCHANGED vars
  <2>1. Hand' = Hand
    BY <1>5 DEF vars, readerVars, Hand
  <2>2. Queue' = Queue
    BY <1>5, QueueStays DEF vars
  <2> QED BY <2>1, <2>2
<1> QED BY <1>1, <1>2, <1>3, <1>4, <1>5 DEF Next, Reader

LEMMA InitRefines == Init => Fifo!Init
<1> SUFFICES ASSUME Init PROVE Fifo!Init
  OBVIOUS
<1>1. KInv
  BY InitKInv
<1>2. Count = 0
  <2>1. Count = Between(0, 0)
    BY <1>1, CountBetween DEF Init, KInv
  <2>2. 0 - 0 = 0 /\ 0 \in 0 .. BUF_SIZE - 1
    BY Sizes
  <2>3. 0 % BUF_SIZE = 0
    BY <2>2, Sizes, Small
  <2> QED BY <2>1, <2>2, <2>3 DEF Between
<1>3. Queue = <<>>
  BY <1>1, <1>2, QueueIs
<1>4. Hand = NoKey
  BY DEF Init, Hand
<1> QED BY <1>3, <1>4 DEF Fifo!Init, Queue, Hand

(***************************************************************************)
(* For every size of the buffer that divides 2^32: whatever the handler    *)
(* and the reader do, and however their steps interleave, is a step of a   *)
(* bounded queue that delivers each key once and in order.  (That it is    *)
(* delivered at all is left to the run: it rests on fairness.)             *)
(***************************************************************************)
THEOREM QueueRefinesFifo == Spec => Fifo!Init /\ [][Fifo!Next]_(Fifo!vars)
<1>1. Init => KInv /\ Fifo!Init
  BY InitKInv, InitRefines
<1>2. KInv /\ [Next]_vars => KInv'
  BY NextKInv
<1>3. KInv /\ KInv' /\ [Next]_vars => [Fifo!Next]_(Fifo!vars)
  BY StepRefines
<1> QED BY <1>1, <1>2, <1>3, PTL DEF Spec

=============================================================================
