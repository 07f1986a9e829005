----------------------------- MODULE Boot_proofs -----------------------------
(***************************************************************************)
(* Proofs about Boot and Timer, for every two intervals of the timer       *)
(* events: the first interrupts find their handlers, each is acknowledged  *)
(* before the next, and no tick of an event is lost or counted twice.      *)
(***************************************************************************)
EXTENDS Boot, Remainders

-----------------------------------------------------------------------------
(***************************************************************************)
(* What keeps the events on time.                                          *)
(***************************************************************************)

\* Events that are filled in, the one that is not counted yet included.
Registered == {e \in Event : e < timer_event_num \/ (pc = "count" /\ e = timer_event_num)}

\* Between two ticks, and after its turn in the handler.
Settled(e) ==
  timer_event_list[e].count_down + age[e] = timer_event_list[e].interval

\* In the handler, before its turn.
Pending(e) ==
  IF timer_event_list[e].count_down = 1 THEN age[e] = 0
  ELSE timer_event_list[e].count_down + age[e] = timer_event_list[e].interval + 1

EventsCounted ==
  \A e \in Registered :
    /\ timer_event_list[e].interval = Calls[e + 1].interval
    /\ timer_event_list[e].count_down \in 1 .. timer_event_list[e].interval
    /\ IF i # Idle /\ e <= i THEN Pending(e) ELSE Settled(e)

\* The handler has its turns with events that are counted.
TurnsOfCounted == i # Idle => i \in Counted

TimerInv == TypeOK /\ EventsCounted /\ TurnsOfCounted

(***************************************************************************)
(* What kernel_main has done, by the number of its next call: pic_init is  *)
(* its second, keyboard_init its fourth, timer_init its fifth, sched_init  *)
(* its sixth and animation's registration its eighth.                      *)
(***************************************************************************)
Progress ==
  /\ line <= 4 => pc = "mode"
  /\ line = 5 => pc \in {"mode", "bytes"}
  /\ line \in {6, 8} => pc \in {"register", "count"}
  /\ line = 7 \/ line >= 9 => pc = "register"
  /\ line <= 6 => timer_event_num = 0
  /\ line \in {7, 8} => timer_event_num = 1
  /\ line >= 9 => timer_event_num = 2
  /\ shell # "none" => line >= 10

Gates ==
  /\ line >= 3 => IDT[SPURIOUS] = "int_null_0" /\ {CASCADE, DISK} \subseteq mask
  /\ line >= 4 => IDT[PAGE_FAULT] = "int_page_fault"
  /\ line >= 5 => IDT[KEYBOARD] = "int_21_keyboard"
  /\ line >= 6 => IDT[TIMER] = "int_20_timer"
  /\ line >= 8 => IDT[SYSCALL] = "syscall"

\* There are no interrupts before sched_init has registered its event.
OnlyThen == IFlag \/ i # Idle \/ kb # "idle" => 0 \in Registered

\* Handlers have interrupts off, and that of the timer has nothing in service.
InService ==
  /\ i # Idle => ~IFlag /\ kb = "idle"
  /\ kb # "idle" => ~IFlag
  /\ isr = IF kb = "idle" THEN {} ELSE {KEYBOARD}

\* The types of what belongs to the controller and the keyboard.
Controller ==
  /\ IDT \in [Vector -> {"none", "int_null", "int_null_0", "int_null_1", "int_20_timer",
                         "int_21_keyboard", "int_page_fault", "syscall"}]
  /\ {mask, irr, isr} \subseteq SUBSET Irq
  /\ {port, val} \subseteq {"press", "release", "prefix"} /\ {full, due} \subseteq BOOLEAN
  /\ kb \in {"idle", "read", "again", "test"}
  /\ shell \in {"none", "ready", "running"}

BootInv ==
  /\ line \in 1 .. 11 /\ Controller /\ TimerInv
  /\ Progress /\ Gates /\ OnlyThen /\ InService
-----------------------------------------------------------------------------
(* Numbers                                                                 *)

LEMMA Vectors ==
  /\ TIMER = 32 /\ KEYBOARD = 33 /\ CASCADE = 34 /\ SPURIOUS = 39 /\ DISK = 46
  /\ PAGE_FAULT = 14 /\ SYSCALL = 128
  /\ \h20 .. \h28 = 32 .. 40 /\ \h29 .. \h2F = 41 .. 47
BY DEF TIMER, KEYBOARD, CASCADE, SPURIOUS, DISK, PAGE_FAULT, SYSCALL

LEMMA Events ==
  /\ Len(Calls) = 2 /\ Event = {0, 1} /\ Idle = 2
  /\ Calls[1].interval = SLICE /\ Calls[2].interval = ANIM_INTERVAL
  /\ SLICE \in Nat \ {0} /\ ANIM_INTERVAL \in Nat \ {0}
  /\ 0 .. SLICE \subseteq Ticks /\ 0 .. ANIM_INTERVAL \subseteq Ticks /\ Ticks \subseteq Nat
<1>1. Len(Calls) = 2 /\ Calls[1].interval = SLICE /\ Calls[2].interval = ANIM_INTERVAL
  BY DEF Calls
<1>2. Event = {0, 1} /\ Idle = 2
  BY <1>1 DEF Event, Idle
<1> QED BY <1>1, <1>2, TimerAssumption DEF Ticks

\* The number of each call.
LEMMA Lines ==
  ASSUME line \in 1 .. 11
  PROVE  /\ At("idt_init") => line = 1
         /\ At("pic_init") => line = 2
         /\ At("page_init") => line = 3
         /\ At("keyboard_init") => line = 4
         /\ At("timer_init") => line = 5
         /\ At("sched_init") => line = 6
         /\ At("syscall gate") => line = 7
         /\ At("animation") => line = 8
         /\ At("start_shell") => line = 9
         /\ At("enable_interrupt") => line = 10
<1>1. /\ MainCalls[1] = "idt_init" /\ MainCalls[2] = "pic_init" /\ MainCalls[3] = "page_init"
      /\ MainCalls[4] = "keyboard_init" /\ MainCalls[5] = "timer_init"
      /\ MainCalls[6] = "sched_init" /\ MainCalls[7] = "syscall gate"
      /\ MainCalls[8] = "animation" /\ MainCalls[9] = "start_shell"
      /\ MainCalls[10] = "enable_interrupt" /\ MainCalls[11] = "idle"
  BY DEF MainCalls
<1>2. line \in {1, 2, 3, 4, 5, 6, 7, 8, 9, 10, 11}
  OBVIOUS
<1> QED BY <1>1, <1>2 DEF At

\* What an end of interrupt acknowledges.
LEMMA EndOfInterrupt ==
  /\ send_pic_eoi({}) = {}
  /\ \A q \in Int : send_pic_eoi({q}) = {}
<1>1. ASSUME NEW q \in Int PROVE Min({q}) = q
  BY DEF Min
<1> QED BY <1>1 DEF send_pic_eoi

\* One more, up to the interval.
LEMMA NextTick ==
  ASSUME NEW n \in Nat \ {0}, NEW a \in 0 .. n - 1
  PROVE  (a + 1) % n = IF a = n - 1 THEN 0 ELSE a + 1
<1>1. CASE a = n - 1
  <2>1. n * 1 + 0 = a + 1 /\ 0 \in 0 .. n - 1 /\ 1 \in Int
    BY <1>1
  <2>2. (n * 1 + 0) % n = 0
    BY <2>1, Remainder
  <2> QED BY <1>1, <2>1, <2>2
<1>2. CASE a # n - 1
  <2> DEFINE r == a + 1
  <2>1. r \in 0 .. n - 1
    BY <1>2
  <2> HIDE DEF r
  <2>2. r % n = r
    BY <2>1, Small
  <2> QED BY <1>2, <2>2 DEF r
<1> QED BY <1>1, <1>2

-----------------------------------------------------------------------------
(* The timer's part of the invariant.                                      *)

LEMMA TimerUnchanged ==
  ASSUME TimerInv, UNCHANGED <<pc, chipVars, eventVars, i, anim_count, age>>, IFlag' \in BOOLEAN
  PROVE  TimerInv' /\ Registered' = Registered
BY DEF chipVars, eventVars, TimerInv, TypeOK, EventsCounted, TurnsOfCounted, Registered, Counted,
       Settled, Pending

LEMMA ChipStep ==
  ASSUME TimerInv, SetMode \/ timer_init, timer_event_num = 0, i = Idle
  PROVE  /\ TimerInv' /\ UNCHANGED <<timer_event_num, i, IFlag>>
         /\ pc = "mode" => pc' = "bytes"
         /\ pc = "bytes" => pc' \in {"bytes", "register"}
<1>1. /\ pc \in {"mode", "bytes"} /\ pc' \in {"bytes", "register"} /\ (pc = "mode" => pc' = "bytes")
      /\ UNCHANGED <<timer_event_list, timer_event_num, i, anim_count, IFlag, age>>
  BY DEF SetMode, timer_init, eventVars
<1>2. /\ latch' = <<>> \/ latch' \in [{1} -> Byte]
      /\ reload' \in Word
  <2>1. Divisor \div 256 \in Byte /\ Divisor % 256 \in Byte
    BY DEF Divisor, Byte
  <2>2. CASE SetMode
    BY <2>2 DEF SetMode, TimerInv, TypeOK
  <2>3. ASSUME NEW b \in Byte, WriteByte(b)
        PROVE  /\ latch' = <<>> \/ latch' \in [{1} -> Byte]
               /\ reload' \in Word
    <3>1. CASE latch = <<>>
      <4>1. latch' = <<b>> /\ reload' = reload
        BY <2>3, <3>1 DEF WriteByte
      <4>2. <<b>> \in [{1} -> Byte]
        BY <2>3
      <4> QED BY <4>1, <4>2 DEF TimerInv, TypeOK
    <3>2. CASE latch # <<>>
      <4>1. latch' = <<>> /\ reload' = latch[1] + 256 * b
        BY <2>3, <3>2 DEF WriteByte
      <4>2. latch[1] \in Byte
        BY <3>2 DEF TimerInv, TypeOK
      <4>3. latch[1] + 256 * b \in Word
        BY <4>2 DEF Byte, Word
      <4> QED BY <4>1, <4>3
    <3> QED BY <3>1, <3>2
  <2>4. CASE timer_init
    BY <2>1, <2>3, <2>4 DEF timer_init
  <2> QED BY <2>2, <2>4
<1>3. TypeOK'
  BY <1>1, <1>2 DEF TimerInv, TypeOK
<1>4. Registered' = {}
  BY <1>1, Events DEF Registered
<1>5. EventsCounted' /\ TurnsOfCounted'
  BY <1>1, <1>4 DEF EventsCounted, TurnsOfCounted
<1> QED BY <1>1, <1>3, <1>5 DEF TimerInv

\* A registration fills in an event before any tick counts it ...
LEMMA RegisterStep ==
  ASSUME TimerInv, register_timer_event
  PROVE  /\ TimerInv' /\ pc = "register" /\ pc' = "count"
         /\ UNCHANGED <<timer_event_num, i>> /\ IFlag' = TRUE
         /\ Registered' = Registered \cup {timer_event_num}
<1> DEFINE n == timer_event_num
           k == Calls[n + 1].interval
<1>1. /\ pc = "register" /\ i = Idle /\ n < Len(Calls)
      /\ timer_event_list' = [timer_event_list EXCEPT ![n] = [count_down |-> k, interval |-> k]]
      /\ age' = [age EXCEPT ![n] = 0] /\ IFlag' = TRUE /\ pc' = "count"
      /\ UNCHANGED <<latch, reload, timer_event_num, i, anim_count>>
  BY DEF register_timer_event, Executes, chipVars
<1>2. n \in {0, 1} /\ k \in {SLICE, ANIM_INTERVAL} /\ k \in Nat \ {0} /\ k \in Ticks /\ 0 \in Ticks
  BY <1>1, Events DEF TimerInv, TypeOK
<1> HIDE DEF k
<1>3. TypeOK'
  BY <1>1, <1>2, Events DEF TimerInv, TypeOK
<1>4. Registered' = Registered \cup {timer_event_num} /\ timer_event_num \notin Registered
  BY <1>1, <1>2, Events DEF Registered, TimerInv, TypeOK
<1>5. EventsCounted'
  <2> SUFFICES ASSUME NEW e \in Registered'
               PROVE  /\ timer_event_list'[e].interval = Calls[e + 1].interval
                      /\ timer_event_list'[e].count_down \in 1 .. timer_event_list'[e].interval
                      /\ timer_event_list'[e].count_down + age'[e] = timer_event_list'[e].interval
    BY <1>1 DEF EventsCounted, Settled
  <2>1. CASE e = n
    <3>1. timer_event_list'[e] = [count_down |-> k, interval |-> k] /\ age'[e] = 0
      BY <1>1, <1>2, <2>1, Events DEF TimerInv, TypeOK
    <3> QED BY <1>2, <2>1, <3>1 DEF k
  <2>2. CASE e # n
    <3>1. e \in Registered /\ e \in Event
      BY <1>4, <2>2 DEF Registered
    <3>2. timer_event_list'[e] = timer_event_list[e] /\ age'[e] = age[e]
      BY <1>1, <2>2, <3>1 DEF TimerInv, TypeOK
    <3> QED BY <1>1, <3>1, <3>2 DEF TimerInv, EventsCounted, Settled
  <2> QED BY <2>1, <2>2
<1>6. TurnsOfCounted'
  BY <1>1 DEF TurnsOfCounted, Idle
<1> QED BY <1>1, <1>3, <1>4, <1>5, <1>6 DEF TimerInv

\* ... and only then counts it.
LEMMA CountStep ==
  ASSUME TimerInv, CountEvent, timer_event_num < 2
  PROVE  /\ TimerInv' /\ pc = "count" /\ pc' = "register"
         /\ timer_event_num' = timer_event_num + 1
         /\ UNCHANGED <<i, IFlag>> /\ Registered' = Registered
<1>1. /\ pc = "count" /\ pc' = "register" /\ timer_event_num' = timer_event_num + 1 /\ i = Idle
      /\ UNCHANGED <<latch, reload, timer_event_list, i, anim_count, IFlag, age>>
  BY DEF CountEvent, Executes, chipVars
<1>2. timer_event_num \in {0, 1}
  BY Events DEF TimerInv, TypeOK
<1>3. TypeOK'
  BY <1>1, <1>2, Events DEF TimerInv, TypeOK
<1>4. Registered' = Registered
  BY <1>1, <1>2, Events DEF Registered
<1>5. EventsCounted' /\ TurnsOfCounted'
  BY <1>1, <1>4 DEF TimerInv, EventsCounted, TurnsOfCounted, Settled, Idle
<1> QED BY <1>1, <1>3, <1>4, <1>5 DEF TimerInv

\* A tick leaves every counted event one behind, until its turn.
LEMMA TickStep ==
  ASSUME TimerInv, int_20_timer, i = Idle, 0 \in Registered
  PROVE  /\ TimerInv' /\ UNCHANGED <<pc, timer_event_num>> /\ IFlag' = FALSE
         /\ i' # Idle /\ Registered' = Registered
<1>1. /\ i' = FirstEvent /\ IFlag' = FALSE
      /\ age' = [e \in Event |->
                   IF e \in Counted THEN (age[e] + 1) % timer_event_list[e].interval ELSE age[e]]
      /\ UNCHANGED <<pc, latch, reload, timer_event_list, timer_event_num, anim_count>>
  BY DEF int_20_timer, chipVars, eventVars
<1>2. timer_event_num \in {0, 1, 2}
  BY Events DEF TimerInv, TypeOK
<1>3. /\ Counted \subseteq Registered /\ Registered \subseteq Event
      /\ i' \in Counted /\ i' \in {0, 1} /\ \A e \in Registered : e <= i' <=> e \in Counted
  BY <1>1, <1>2, Events DEF FirstEvent, Counted, Registered
<1>4. ASSUME NEW e \in Registered
      PROVE  /\ e \in Counted => Pending(e)'
             /\ e \notin Counted => Settled(e)'
             /\ age'[e] \in Ticks
  <2>1. e \in Event /\ Settled(e) /\ timer_event_list[e].interval = Calls[e + 1].interval
        /\ timer_event_list[e].count_down \in 1 .. timer_event_list[e].interval
    BY <1>3 DEF TimerInv, EventsCounted
  <2> DEFINE n == timer_event_list[e].interval
             k == timer_event_list[e].count_down
  <2>2. n \in {SLICE, ANIM_INTERVAL} /\ n \in Nat \ {0} /\ k \in 1 .. n /\ age[e] \in Ticks
    BY <2>1, Events DEF TimerInv, TypeOK
  <2>3. age[e] \in 0 .. n - 1 /\ k + age[e] = n
    <3>1. k + age[e] = n
      BY <2>1 DEF Settled
    <3>2. age[e] \in Nat
      BY <2>2, Events
    <3> HIDE DEF n, k
    <3> QED BY <2>2, <3>1, <3>2
  <2>4. CASE e \in Counted
    <3>1. age'[e] = IF age[e] = n - 1 THEN 0 ELSE age[e] + 1
      <4>1. age'[e] = (age[e] + 1) % n
        BY <1>1, <2>1, <2>4
      <4> HIDE DEF n
      <4> QED BY <2>2, <2>3, <4>1, NextTick
    <3> HIDE DEF n, k
    <3>2. age'[e] \in 0 .. n /\ (IF k = 1 THEN age'[e] = 0 ELSE k + age'[e] = n + 1)
      BY <2>2, <2>3, <3>1
    <3>3. age'[e] \in Ticks
      BY <2>2, <3>2, Events
    <3>4. Pending(e)'
      BY <1>1, <3>2 DEF Pending, n, k
    <3> QED BY <2>4, <3>3, <3>4
  <2>5. CASE e \notin Counted
    BY <1>1, <2>1, <2>2, <2>5 DEF Settled
  <2> QED BY <2>4, <2>5
<1>5. TypeOK'
  <2>1. age' \in [Event -> Ticks]
    BY <1>1, <1>3, <1>4 DEF TimerInv, TypeOK
  <2> QED BY <1>1, <1>3, <2>1, Events DEF TimerInv, TypeOK
<1>6. Registered' = Registered /\ Counted' = Counted
  BY <1>1 DEF Registered, Counted
<1>7. EventsCounted'
  BY <1>1, <1>3, <1>4, <1>6, Events DEF TimerInv, EventsCounted
<1>8. TurnsOfCounted' /\ i' # Idle
  BY <1>3, <1>6, Events DEF TurnsOfCounted
<1> QED BY <1>1, <1>5, <1>6, <1>7, <1>8 DEF TimerInv

\* A turn settles its event.
LEMMA CountDownStep ==
  ASSUME TimerInv, CountEventDown \/ CountSchedulerDown, 0 \in Registered
  PROVE  /\ TimerInv' /\ UNCHANGED <<pc, timer_event_num>> /\ Registered' = Registered
         /\ i # Idle
         /\ CountEventDown => i' # Idle /\ UNCHANGED IFlag
         /\ CountSchedulerDown => i' = Idle /\ IFlag' = TRUE
<1>1. /\ i \in {0, 1} /\ CountDown(i) /\ i' = IF i = 1 THEN 0 ELSE Idle
      /\ anim_count' \in {anim_count, (anim_count + 1) % ANIM_SEQ_LEN}
      /\ IFlag' \in BOOLEAN
      /\ UNCHANGED <<pc, latch, reload, timer_event_num, age>>
      /\ CountEventDown => i = 1 /\ UNCHANGED IFlag
      /\ CountSchedulerDown => i = 0 /\ IFlag' = TRUE
  <2>1. CASE CountEventDown
    <3>1. i = 1
      BY <2>1, Events DEF CountEventDown
    <3> QED BY <2>1, <3>1 DEF CountEventDown, CountSchedulerDown, chipVars, TimerInv, TypeOK
  <2>2. CASE CountSchedulerDown
    BY <2>2 DEF CountEventDown, CountSchedulerDown, chipVars
  <2> QED BY <2>1, <2>2
<1>2. i \in Counted /\ i # Idle /\ timer_event_num \in {0, 1, 2}
  BY <1>1, Events DEF TimerInv, TypeOK, TurnsOfCounted
<1>3. Registered' = Registered /\ Counted' = Counted
  BY <1>1 DEF Registered, Counted
<1>4. anim_count' \in 0 .. ANIM_SEQ_LEN - 1
  BY <1>1 DEF TimerInv, TypeOK, ANIM_SEQ_LEN
<1> DEFINE n == timer_event_list[i].interval
           k == timer_event_list[i].count_down
<1>5. /\ i \in Registered /\ Pending(i) /\ n = Calls[i + 1].interval /\ k \in 1 .. n
  BY <1>1, <1>2, Events DEF TimerInv, EventsCounted, Counted, Registered
<1>6. n \in {SLICE, ANIM_INTERVAL} /\ n \in Nat \ {0} /\ k - 1 \in Ticks /\ n \in Ticks
      /\ age[i] \in Nat
  <2>1. n \in {SLICE, ANIM_INTERVAL} /\ age[i] \in Ticks
    BY <1>1, <1>5, Events DEF TimerInv, TypeOK
  <2> HIDE DEF n, k
  <2>2. n \in Nat \ {0} /\ 0 .. n \subseteq Ticks /\ age[i] \in Nat
    BY <2>1, Events
  <2> QED BY <1>5, <2>1, <2>2
<1> DEFINE next == IF k = 1 THEN n ELSE k - 1
<1>7. timer_event_list' = [timer_event_list EXCEPT ![i].count_down = next]
  BY <1>1 DEF CountDown
<1>8. next \in Ticks /\ next \in 1 .. n /\ next + age[i] = n
  <2>1. IF k = 1 THEN age[i] = 0 ELSE k + age[i] = n + 1
    BY <1>5 DEF Pending
  <2> HIDE DEF n, k
  <2> QED BY <1>5, <1>6, <2>1
<1> HIDE DEF next
<1>9. /\ timer_event_list' \in [Event -> [count_down : Ticks, interval : {0, SLICE, ANIM_INTERVAL}]]
      /\ timer_event_list'[i].interval = n /\ timer_event_list'[i].count_down = next
      /\ \A e \in Event \ {i} : timer_event_list'[e] = timer_event_list[e]
  BY <1>1, <1>7, <1>8, Events DEF TimerInv, TypeOK
<1>10. TypeOK'
  BY <1>1, <1>4, <1>9, Events DEF TimerInv, TypeOK
<1>11. EventsCounted'
  <2> SUFFICES ASSUME NEW e \in Registered
               PROVE  /\ timer_event_list'[e].interval = Calls[e + 1].interval
                      /\ timer_event_list'[e].count_down \in 1 .. timer_event_list'[e].interval
                      /\ IF i' # Idle /\ e <= i' THEN Pending(e)' ELSE Settled(e)'
    BY <1>3 DEF EventsCounted
  <2>1. CASE e = i
    <3>1. Settled(e)'
      BY <1>1, <1>8, <1>9, <2>1 DEF Settled
    <3>2. ~(i' # Idle /\ e <= i')
      BY <1>1, <2>1, Events
    <3> QED BY <1>5, <1>8, <1>9, <2>1, <3>1, <3>2
  <2>2. CASE e # i
    <3>1. e \in {0, 1} /\ timer_event_list'[e] = timer_event_list[e] /\ age'[e] = age[e]
      BY <1>1, <1>9, <2>2, Events DEF Registered
    <3>2. (i' # Idle /\ e <= i') <=> (i # Idle /\ e <= i)
      BY <1>1, <2>2, <3>1, Events
    <3>3. (Pending(e)' <=> Pending(e)) /\ (Settled(e)' <=> Settled(e))
      BY <3>1 DEF Pending, Settled
    <3> QED BY <3>1, <3>2, <3>3 DEF TimerInv, EventsCounted
  <2> QED BY <2>1, <2>2
<1>12. TurnsOfCounted'
  BY <1>1, <1>2, <1>3, Events DEF TurnsOfCounted, Counted
<1> QED BY <1>1, <1>2, <1>3, <1>10, <1>11, <1>12, Events DEF TimerInv

-----------------------------------------------------------------------------
(* The invariant holds initially, and each action preserves it.            *)

LEMMA BootInitInv == BootInit => BootInv
<1> SUFFICES ASSUME BootInit PROVE BootInv
  OBVIOUS
<1>1. TypeOK
  <2>1. 0 \in Word /\ 0 \in Ticks /\ 0 \in 0 .. ANIM_SEQ_LEN - 1 /\ 0 \in 0 .. Len(Calls)
    BY Events DEF Word, ANIM_SEQ_LEN
  <2> QED BY <2>1 DEF BootInit, Init, TypeOK
<1>2. Registered = {} /\ i = Idle
  BY Events DEF BootInit, Init, Registered
<1>3. TimerInv
  BY <1>1, <1>2 DEF TimerInv, EventsCounted, TurnsOfCounted
<1>4. Controller /\ line = 1
  <2>1. {} \in SUBSET Irq /\ Irq \ {TIMER} \in SUBSET Irq /\ SUBSET {TIMER, DISK} \subseteq SUBSET Irq
    BY DEF Irq
  <2> QED BY <2>1 DEF BootInit, Controller
<1> QED
  BY <1>1, <1>2, <1>3, <1>4
  DEF BootInit, Init, BootInv, Progress, Gates, OnlyThen, InService

\* kernel_main executes at most one of its calls.
LEMMA GatesStep ==
  ASSUME BootInv, SetUpGates
  PROVE  BootInv'
<1>1. /\ line \in 1 .. 11 /\ kb = "idle" /\ i = Idle /\ line' = line + 1
      /\ UNCHANGED <<pc, chipVars, eventVars, i, anim_count, IFlag, age>>
      /\ UNCHANGED <<port, full, kb, val, due, shell>>
      /\ TimerInv /\ Controller /\ Progress /\ Gates /\ OnlyThen /\ InService /\ isr = {}
  BY DEF SetUpGates, Call, At, EnvUnchanged, BootInv, vars, InService
<1>2. TimerInv' /\ Registered' = Registered
  <2>1. IFlag' \in BOOLEAN
    BY <1>1 DEF TimerInv, TypeOK
  <2> QED BY <1>1, <2>1, TimerUnchanged
<1>3. /\ Vector = {TIMER, KEYBOARD, CASCADE, DISK, SPURIOUS, PAGE_FAULT, SYSCALL}
      /\ Irq = {TIMER, KEYBOARD, CASCADE, DISK}
  BY DEF Vector, Irq
<1>4. /\ line \in {1, 2, 3, 4, 7} /\ Controller' /\ Gates'
      /\ (isr' = {})
  <2>1. CASE Call("idt_init") /\ idt_init
    <3>1. line = 1
      BY <1>1, <2>1, Lines DEF Call
    <3>2. isr' = {} /\ line' = 2
      BY <1>1, <2>1, <3>1 DEF idt_init
    <3>3. Controller'
      BY <1>1, <2>1, <3>1 DEF idt_init, Controller
    <3> QED BY <1>1, <3>1, <3>2, <3>3 DEF Gates
  <2>2. CASE Call("pic_init") /\ pic_init
    <3>0. line = 2
      BY <1>1, <2>2, Lines DEF Call
    <3>1. line = 2 /\ line' = 3 /\ mask' = Irq /\ irr' = {} /\ isr' = {}
      BY <1>1, <2>2, <3>0 DEF pic_init
    <3>2. IDT'[SPURIOUS] = "int_null_0" /\ Controller'
      BY <1>1, <1>3, <2>2, <3>1, Vectors DEF pic_init, Controller
    <3> QED BY <1>3, <3>1, <3>2 DEF Gates
  <2>3. CASE Call("page_init") /\ register_interrupt(PAGE_FAULT, "int_page_fault")
    <3>0. line = 3
      BY <1>1, <2>3, Lines DEF Call
    <3>1. line = 3 /\ line' = 4
      BY <1>1, <3>0
    <3>2. IDT' = [IDT EXCEPT ![PAGE_FAULT] = "int_page_fault"] /\ mask' = mask \ {PAGE_FAULT} /\ UNCHANGED <<irr, isr>>
      BY <2>3 DEF register_interrupt
    <3>3. Controller'
      BY <1>1, <3>2 DEF Controller
    <3>4. Gates'
      BY <1>1, <1>3, <3>1, <3>2, Vectors DEF Controller, Gates
    <3> QED BY <1>1, <3>1, <3>2, <3>3, <3>4
  <2>4. CASE Call("keyboard_init") /\ register_interrupt(KEYBOARD, "int_21_keyboard")
    <3>0. line = 4
      BY <1>1, <2>4, Lines DEF Call
    <3>1. line = 4 /\ line' = 5
      BY <1>1, <3>0
    <3>2. IDT' = [IDT EXCEPT ![KEYBOARD] = "int_21_keyboard"] /\ mask' = mask \ {KEYBOARD} /\ UNCHANGED <<irr, isr>>
      BY <2>4 DEF register_interrupt
    <3>3. Controller'
      BY <1>1, <3>2 DEF Controller
    <3>4. Gates'
      BY <1>1, <1>3, <3>1, <3>2, Vectors DEF Controller, Gates
    <3> QED BY <1>1, <3>1, <3>2, <3>3, <3>4
  <2>5. CASE Call("syscall gate") /\ register_interrupt(SYSCALL, "syscall")
    <3>0. line = 7
      BY <1>1, <2>5, Lines DEF Call
    <3>1. line = 7 /\ line' = 8
      BY <1>1, <3>0
    <3>2. IDT' = [IDT EXCEPT ![SYSCALL] = "syscall"] /\ mask' = mask \ {SYSCALL} /\ UNCHANGED <<irr, isr>>
      BY <2>5 DEF register_interrupt
    <3>3. Controller'
      BY <1>1, <3>2 DEF Controller
    <3>4. Gates'
      BY <1>1, <1>3, <3>1, <3>2, Vectors DEF Controller, Gates
    <3> QED BY <1>1, <3>1, <3>2, <3>3, <3>4
  <2> QED BY <2>1, <2>2, <2>3, <2>4, <2>5 DEF SetUpGates
<1>5. Progress'
  BY <1>1, <1>4 DEF Progress, eventVars
<1>6. OnlyThen' /\ InService'
  BY <1>1, <1>2, <1>4 DEF OnlyThen, InService
<1> QED BY <1>1, <1>2, <1>4, <1>5, <1>6 DEF BootInv

LEMMA ProgramStep ==
  ASSUME BootInv, ProgramTimer
  PROVE  BootInv'
<1>1. /\ line = 5 /\ kb = "idle" /\ i = Idle /\ (SetMode \/ timer_init)
      /\ IF pc' = "register"
         THEN line' = line + 1 /\ register_interrupt(TIMER, "int_20_timer")
         ELSE UNCHANGED <<line, IDT, mask, irr, isr>>
      /\ UNCHANGED <<port, full, kb, val, due, shell>>
      /\ TimerInv /\ Controller /\ Progress /\ Gates /\ OnlyThen /\ InService
  BY Lines DEF ProgramTimer, At, EnvUnchanged, BootInv
<1>2. timer_event_num = 0 /\ pc \in {"mode", "bytes"} /\ Registered = {}
  BY <1>1, Events DEF Progress, Registered
<1>3. /\ TimerInv' /\ UNCHANGED <<timer_event_num, i, IFlag>>
      /\ pc' \in {"bytes", "register"}
  <2>1. SetMode \/ timer_init
    BY <1>1
  <2> QED BY <1>1, <1>2, <2>1, ChipStep
<1>4. IFlag = FALSE
  BY <1>1, <1>2 DEF OnlyThen, TimerInv, TypeOK
<1>5. /\ Vector = {TIMER, KEYBOARD, CASCADE, DISK, SPURIOUS, PAGE_FAULT, SYSCALL}
      /\ Irq = {TIMER, KEYBOARD, CASCADE, DISK}
  BY DEF Vector, Irq
<1>6. line' \in {5, 6} /\ Controller' /\ Gates' /\ Progress' /\ isr' = isr
  <2>1. CASE pc' = "register"
    BY <1>1, <1>2, <1>3, <1>5, <2>1, Vectors DEF register_interrupt, Controller, Gates, Progress
  <2>2. CASE pc' # "register"
    BY <1>1, <1>2, <1>3, <2>2 DEF Controller, Gates, Progress
  <2> QED BY <2>1, <2>2
<1>7. OnlyThen' /\ InService'
  BY <1>1, <1>3, <1>4, <1>6 DEF OnlyThen, InService
<1> QED BY <1>3, <1>6, <1>7 DEF BootInv

LEMMA EventStep ==
  ASSUME BootInv, RegisterEvent
  PROVE  BootInv'
<1>1. /\ line \in {6, 8} /\ kb = "idle" /\ i = Idle /\ isr = {}
      /\ UNCHANGED <<IDT, mask, irr, isr, shell, port, full, kb, val, due>>
      /\ TimerInv /\ Controller /\ Progress /\ Gates /\ OnlyThen /\ InService
      /\ timer_event_num = (IF line = 6 THEN 0 ELSE 1)
      /\ pc \in {"register", "count"}
  <2>1. /\ line \in {6, 8} /\ kb = "idle" /\ i = Idle
        /\ UNCHANGED <<IDT, mask, irr, isr, shell, port, full, kb, val, due>>
        /\ TimerInv /\ Controller /\ Progress /\ Gates /\ OnlyThen /\ InService
    BY Lines DEF RegisterEvent, At, EnvUnchanged, BootInv
  <2> QED BY <2>1 DEF Progress, InService
<1>2. CASE register_timer_event /\ UNCHANGED line
  <2>1. /\ TimerInv' /\ pc' = "count" /\ UNCHANGED <<timer_event_num, i>> /\ IFlag' = TRUE
        /\ Registered' = Registered \cup {timer_event_num}
    BY <1>1, <1>2, RegisterStep
  <2>2. Controller' /\ Gates' /\ Progress'
    BY <1>1, <1>2, <2>1 DEF Controller, Gates, Progress
  <2>3. 0 \in Registered'
    BY <1>1, <2>1, Events DEF Registered, Progress
  <2>4. OnlyThen' /\ InService'
    BY <1>1, <2>1, <2>3 DEF OnlyThen, InService
  <2> QED BY <1>1, <1>2, <2>1, <2>2, <2>4 DEF BootInv
<1>3. CASE CountEvent /\ line' = line + 1
  <2>1. /\ TimerInv' /\ pc' = "register" /\ timer_event_num' = timer_event_num + 1
        /\ UNCHANGED <<i, IFlag>> /\ Registered' = Registered
    BY <1>1, <1>3, CountStep
  <2>2. Controller' /\ Gates' /\ Progress'
    BY <1>1, <1>3, <2>1 DEF Controller, Gates, Progress
  <2>3. OnlyThen' /\ InService'
    BY <1>1, <2>1 DEF OnlyThen, InService
  <2> QED BY <1>1, <1>3, <2>1, <2>2, <2>3 DEF BootInv
<1> QED BY <1>2, <1>3 DEF RegisterEvent

LEMMA LastStep ==
  ASSUME BootInv, start_shell \/ EnableInterrupt
  PROVE  BootInv'
<1>1. /\ line \in {9, 10} /\ kb = "idle" /\ i = Idle /\ line' = line + 1
      /\ UNCHANGED <<pc, chipVars, eventVars, i, anim_count, age>> /\ IFlag' \in {IFlag, TRUE}
      /\ UNCHANGED <<IDT, mask, irr, isr, port, full, kb, val, due>>
      /\ shell' \in {shell, "ready"} /\ (shell' # shell => line = 9)
      /\ TimerInv /\ Controller /\ Progress /\ Gates /\ OnlyThen /\ InService
      /\ isr = {}
  BY Lines
  DEF start_shell, EnableInterrupt, Call, At, EnvUnchanged, vars, BootInv, InService
<1>2. TimerInv' /\ Registered' = Registered
  <2>1. IFlag' \in BOOLEAN
    BY <1>1 DEF TimerInv, TypeOK
  <2> QED BY <1>1, <2>1, TimerUnchanged
<1>3. 0 \in Registered
  BY <1>1, Events DEF Progress, Registered
<1>4. Controller' /\ Gates' /\ Progress'
  BY <1>1 DEF Controller, Gates, Progress, eventVars
<1>5. OnlyThen' /\ InService'
  BY <1>1, <1>2, <1>3 DEF OnlyThen, InService
<1> QED BY <1>1, <1>2, <1>4, <1>5 DEF BootInv

\* The devices change nothing but their requests and the data port.
LEMMA DeviceStep ==
  ASSUME BootInv, InterruptRequest(TIMER) \/ InterruptRequest(DISK) \/ KeyByte
  PROVE  BootInv'
<1>1. /\ UNCHANGED <<pc, chipVars, eventVars, i, anim_count, IFlag, age>>
      /\ UNCHANGED <<line, IDT, mask, isr, kb, val, shell>>
      /\ irr' \in {irr \cup {TIMER}, irr \cup {DISK}, irr \cup {KEYBOARD}}
      /\ port' \in {port, "press", "release", "prefix"} /\ full' \in {full, TRUE}
      /\ due' \in {due, TRUE, FALSE}
  BY DEF InterruptRequest, KeyByte, vars, BootInv, Controller
<1>2. TimerInv' /\ Registered' = Registered
  <2>1. IFlag' \in BOOLEAN /\ TimerInv
    BY <1>1 DEF BootInv, TimerInv, TypeOK
  <2> QED BY <1>1, <2>1, TimerUnchanged
<1>3. Controller'
  <2>1. {TIMER, DISK, KEYBOARD} \subseteq Irq
    BY DEF Irq
  <2>2. irr' \in SUBSET Irq
    BY <1>1, <2>1 DEF BootInv, Controller
  <2> QED BY <1>1, <2>2 DEF BootInv, Controller
<1>4. Progress' /\ Gates' /\ OnlyThen' /\ InService'
  BY <1>1, <1>2 DEF BootInv, Progress, Gates, OnlyThen, InService, eventVars
<1> QED BY <1>1, <1>2, <1>3, <1>4 DEF BootInv

\* The timer's handler: nothing is in service from its first step on.
LEMMA TimerStep ==
  ASSUME BootInv, TimerInterrupt \/ ServeEvents
  PROVE  BootInv'
<1>1. CASE TimerInterrupt
  <2>1. /\ IFlag /\ int_20_timer /\ irr' = irr \ {TIMER} /\ isr' = ServedByTimer(TIMER)
        /\ UNCHANGED <<line, IDT, mask, port, full, kb, val, shell, due>>
    BY <1>1 DEF TimerInterrupt, Passes
  <2>2. i = Idle /\ kb = "idle" /\ isr = {} /\ 0 \in Registered
    BY <2>1 DEF BootInv, InService, OnlyThen
  <2>3. /\ TimerInv' /\ UNCHANGED <<pc, timer_event_num>> /\ IFlag' = FALSE
        /\ i' # Idle /\ Registered' = Registered
    BY <2>1, <2>2, TickStep DEF BootInv
  <2>4. isr' = {}
    <3>1. {} \cup {TIMER} = {TIMER} /\ TIMER \in Int
      BY Vectors
    <3> QED BY <2>1, <2>2, <3>1, EndOfInterrupt DEF ServedByTimer
  <2>5. Controller' /\ Progress' /\ Gates'
    BY <2>1, <2>3, <2>4 DEF BootInv, Controller, Progress, Gates
  <2>6. OnlyThen' /\ InService'
    BY <2>1, <2>2, <2>3, <2>4 DEF OnlyThen, InService
  <2> QED BY <2>1, <2>3, <2>5, <2>6 DEF BootInv
<1>2. CASE ServeEvents
  <2>1. /\ CountEventDown \/ CountSchedulerDown
        /\ shell' = shell \/ (CountSchedulerDown /\ shell = "ready" /\ shell' = "running")
        /\ UNCHANGED <<line, IDT, mask, irr, isr, port, full, kb, val, due>>
    BY <1>2 DEF ServeEvents, EnvUnchanged
  <2>2. i # Idle
    BY <2>1, Events DEF CountEventDown, CountSchedulerDown
  <2>3. kb = "idle" /\ isr = {} /\ 0 \in Registered
    BY <2>2 DEF BootInv, InService, OnlyThen
  <2>4. /\ TimerInv' /\ UNCHANGED <<pc, timer_event_num>> /\ Registered' = Registered
        /\ CountEventDown => i' # Idle /\ UNCHANGED IFlag
        /\ CountSchedulerDown => i' = Idle /\ IFlag' = TRUE
    BY <2>1, <2>3, CountDownStep DEF BootInv
  <2>5. Controller' /\ Progress' /\ Gates'
    BY <2>1, <2>4 DEF BootInv, Controller, Progress, Gates
  <2>6. OnlyThen' /\ InService'
    BY <2>1, <2>2, <2>3, <2>4 DEF BootInv, OnlyThen, InService
  <2> QED BY <2>1, <2>4, <2>5, <2>6 DEF BootInv
<1> QED BY <1>1, <1>2

\* The keyboard's handler is the only one in service, until its end.
LEMMA KeyboardStep ==
  ASSUME BootInv, KeyboardInterrupt \/ port_byte_in \/ EndOfKey \/ int_null_0
  PROVE  BootInv'
<1>1. /\ UNCHANGED <<pc, chipVars, eventVars, i, anim_count, age>>
      /\ UNCHANGED <<line, IDT, mask, port, shell>>
  BY DEF KeyboardInterrupt, port_byte_in, EndOfKey, int_null_0, vars
<1>2. ASSUME IFlag' \in BOOLEAN PROVE TimerInv' /\ Registered' = Registered
  BY <1>1, <1>2, TimerUnchanged DEF BootInv
<1>3. Progress' /\ Gates'
  BY <1>1 DEF BootInv, Progress, Gates, eventVars
<1>4. ASSUME OnlyThen', InService', IFlag' \in BOOLEAN, {irr', isr'} \subseteq SUBSET Irq,
             val' \in {port, val}, {full', due'} \subseteq BOOLEAN,
             kb' \in {"idle", "read", "again", "test"}
      PROVE  BootInv'
  <2>1. Controller'
    BY <1>1, <1>4 DEF BootInv, Controller
  <2> QED BY <1>1, <1>2, <1>3, <1>4, <2>1 DEF BootInv
<1>5. KEYBOARD \in Irq
  BY DEF Irq
<1>6. CASE KeyboardInterrupt
  <2>1. /\ IFlag /\ IFlag' = FALSE /\ kb' = "read" /\ irr' = irr \ {KEYBOARD}
        /\ isr' = isr \cup {KEYBOARD} /\ UNCHANGED <<full, val, due>>
    BY <1>6 DEF KeyboardInterrupt, Passes
  <2>2. i = Idle /\ kb = "idle" /\ isr = {} /\ 0 \in Registered
    BY <2>1 DEF BootInv, InService, OnlyThen
  <2>3. OnlyThen' /\ InService'
    BY <1>1, <1>2, <2>1, <2>2 DEF OnlyThen, InService
  <2> QED BY <1>4, <1>5, <2>1, <2>3 DEF BootInv, Controller
<1>7. CASE port_byte_in
  <2>1. /\ kb \in {"read", "again"} /\ kb' \in {"again", "test"} /\ val' = port /\ full' = FALSE
        /\ irr' \in {irr, irr \ {KEYBOARD}} /\ UNCHANGED <<IFlag, isr, due>>
    BY <1>7 DEF port_byte_in, vars
  <2>2. OnlyThen' /\ InService'
    <3>1. IFlag' \in BOOLEAN
      BY <2>1 DEF BootInv, TimerInv, TypeOK
    <3> QED BY <1>1, <1>2, <2>1, <3>1 DEF BootInv, OnlyThen, InService
  <2> QED BY <1>4, <2>1, <2>2 DEF BootInv, Controller, TimerInv, TypeOK
<1>8. CASE EndOfKey
  <2>1. /\ kb = "test" /\ kb' = "idle" /\ IFlag' = TRUE /\ isr' = send_pic_eoi(isr)
        /\ due' \in BOOLEAN /\ UNCHANGED <<irr, full, val>>
    BY <1>8 DEF EndOfKey, BootInv, Controller
  <2>2. isr = {KEYBOARD} /\ i = Idle /\ 0 \in Registered /\ KEYBOARD \in Int
    BY <2>1, Vectors DEF BootInv, InService, OnlyThen
  <2>3. isr' = {}
    BY <2>1, <2>2, EndOfInterrupt
  <2>4. OnlyThen' /\ InService'
    BY <1>1, <1>2, <2>1, <2>2, <2>3 DEF OnlyThen, InService
  <2> QED BY <1>4, <2>1, <2>3, <2>4 DEF BootInv, Controller
<1>9. CASE int_null_0
  <2>1. IFlag /\ isr' = send_pic_eoi(isr) /\ UNCHANGED <<IFlag, kb, irr, full, val, due>>
    BY <1>9 DEF int_null_0, vars
  <2>2. isr = {} /\ kb = "idle"
    BY <2>1 DEF BootInv, InService
  <2>3. isr' = {}
    BY <2>1, <2>2, EndOfInterrupt
  <2>4. OnlyThen' /\ InService'
    <3>1. IFlag' \in BOOLEAN
      BY <2>1 DEF BootInv, TimerInv, TypeOK
    <3> QED BY <1>1, <1>2, <2>1, <2>2, <2>3, <3>1 DEF BootInv, OnlyThen, InService
  <2> QED BY <1>4, <2>1, <2>3, <2>4 DEF BootInv, Controller, TimerInv, TypeOK
<1> QED BY <1>6, <1>7, <1>8, <1>9

LEMMA BootStep == BootInv /\ [BootNext]_allVars => BootInv'
<1> SUFFICES ASSUME BootInv, [BootNext]_allVars PROVE BootInv'
  OBVIOUS
<1>1. CASE UNCHANGED allVars
  <2>1. /\ UNCHANGED <<pc, chipVars, eventVars, i, anim_count, IFlag, age>>
        /\ UNCHANGED <<line, IDT, mask, irr, isr, port, full, kb, val, shell, due>>
    BY <1>1 DEF allVars, vars, bootVars
  <2>2. TimerInv' /\ Registered' = Registered
    <3>1. IFlag' \in BOOLEAN /\ TimerInv
      BY <2>1 DEF BootInv, TimerInv, TypeOK
    <3> QED BY <2>1, <3>1, TimerUnchanged
  <2> QED BY <2>1, <2>2
      DEF BootInv, Controller, Progress, Gates, OnlyThen, InService, eventVars
<1>2. CASE BootNext
  BY <1>2, GatesStep, ProgramStep, EventStep, LastStep, DeviceStep, TimerStep, KeyboardStep
  DEF BootNext, kernel_main, Handlers
<1> QED BY <1>1, <1>2
-----------------------------------------------------------------------------
(***************************************************************************)
(* The invariant holds in every reachable state; no fairness is needed.    *)
(***************************************************************************)
THEOREM BootInductive == BootSpec => []BootInv
<1>1. BootInit => BootInv
  BY BootInitInv
<1>2. BootInv /\ [BootNext]_allVars => BootInv'
  BY BootStep
<1> QED BY <1>1, <1>2, PTL DEF BootSpec

(***************************************************************************)
(* Type correctness: among others, no countdown runs past the interval of  *)
(* its event, whose counter in the code is unsigned.                       *)
(***************************************************************************)
THEOREM BootTypeCorrect == BootSpec => []BootTypeOK
<1>1. BootInv => BootTypeOK
  <2>1. DOMAIN MainCalls = 1 .. 11
    BY DEF MainCalls
  <2> QED BY <2>1 DEF BootInv, BootTypeOK, Controller, TimerInv
<1> QED BY <1>1, BootInductive, PTL

(***************************************************************************)
(* The ticks that come in the middle of a registration, and the handlers   *)
(* that do not return, cost no event a tick, whatever the two intervals.   *)
(***************************************************************************)
THEOREM EventsStayOnTime == BootSpec => []OnTime
<1>1. BootInv => OnTime
  <2> SUFFICES ASSUME BootInv, i = Idle, IFlag, NEW e \in Counted
               PROVE  timer_event_list[e].count_down + age[e] = timer_event_list[e].interval
    BY DEF OnTime
  <2>1. e \in Registered
    BY DEF BootInv, OnlyThen, Counted, Registered
  <2> QED BY <2>1 DEF BootInv, TimerInv, EventsCounted, Settled
<1> QED BY <1>1, BootInductive, PTL

(***************************************************************************)
(* With interrupts on, what the controller lets through has its handler,   *)
(* and the shell starts when everything kernel_main sets up is there.      *)
(***************************************************************************)
THEOREM GatesAreReady == BootSpec => []GatesReady
<1>1. BootInv => GatesReady
  <2> SUFFICES ASSUME BootInv PROVE GatesReady
    OBVIOUS
  <2>1. /\ line \in 1 .. 11 /\ Irq = {TIMER, KEYBOARD, CASCADE, DISK}
        /\ mask \subseteq Irq /\ timer_event_num \in {0, 1, 2}
        /\ pc = "count" => line \in {6, 8}
    BY Events DEF BootInv, Irq, Controller, TimerInv, TypeOK, Progress
  <2>2. ASSUME IFlag PROVE line >= 6
    BY <2>1, <2>2 DEF BootInv, OnlyThen, Registered, Progress
  <2>3. ASSUME shell = "running" PROVE line >= 10
    BY <2>3 DEF BootInv, Progress
  <2> QED BY <2>1, <2>2, <2>3, Events DEF BootInv, Gates, Progress, GatesReady
<1> QED BY <1>1, BootInductive, PTL

(***************************************************************************)
(* Each handler acknowledges its own request before interrupts are back    *)
(* on: an end of interrupt that names no request never ends another's.     *)
(***************************************************************************)
THEOREM NothingLeftInService == BootSpec => []AcknowledgedInTime
<1>1. BootInv => AcknowledgedInTime
  BY DEF BootInv, InService, AcknowledgedInTime
<1> QED BY <1>1, BootInductive, PTL

=============================================================================
