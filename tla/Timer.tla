------------------------------- MODULE Timer -------------------------------
(***************************************************************************)
(* The timer of leanux: timer_init (kernel/timer.c) programs channel 0 of  *)
(* the interval timer chip, kernel_main registers the two timer events,    *)
(* force_switch (by sched_init) and animation, and _int_20_timer counts    *)
(* their intervals down.  Interrupts come in as soon as the first          *)
(* registration turns them on.                                             *)
(*                                                                         *)
(* No event is ever unregistered: both are TIMER_CONSTANT.                 *)
(***************************************************************************)
EXTENDS Naturals, Sequences

CONSTANTS
  SLICE,         \* ticks between two calls of force_switch, 5
  ANIM_INTERVAL  \* ticks between two calls of animation, 7

ASSUME TimerAssumption == SLICE \in Nat \ {0} /\ ANIM_INTERVAL \in Nat \ {0}

\* The registrations, in order: event 0 is the scheduler's.
Calls == << [handler |-> "force_switch", interval |-> SLICE],
            [handler |-> "animation",    interval |-> ANIM_INTERVAL] >>

Event == 0 .. Len(Calls) - 1

\* Reload value for 100 interrupts a second.
Divisor == 1193182 \div 100

ANIM_SEQ_LEN == 4

VARIABLES
  pc,                \* where kernel_main executes
  latch, reload,     \* channel 0: the bytes written to it, its reload value
  timer_event_list,  \* count_down and interval of each event
  timer_event_num,
  i,                 \* the loop variable of _int_20_timer; Idle between ticks
  anim_count,
  IFlag,             \* the CPU's interrupt flag IF
  age                \* history: ticks since an event was due, or registered

chipVars == <<latch, reload>>
eventVars == <<timer_event_list, timer_event_num>>
vars == <<pc, chipVars, eventVars, i, anim_count, IFlag, age>>

Idle == Len(Calls)

Init ==
  /\ pc = "mode"
  /\ latch = <<>> /\ reload = 0
  /\ timer_event_list = [e \in Event |-> [count_down |-> 0, interval |-> 0]]
  /\ timer_event_num = 0
  /\ i = Idle
  /\ anim_count = 0
  /\ IFlag = FALSE
  /\ age = [e \in Event |-> 0]

-----------------------------------------------------------------------------
(* The chip: after the control word 0x34 it takes the low byte of the      *)
(* reload value first and the high byte second.                            *)

SetMode ==
  /\ pc = "mode"
  /\ latch' = <<>>
  /\ pc' = "bytes"
  /\ UNCHANGED <<reload, eventVars, i, anim_count, IFlag, age>>

WriteByte(b) ==
  IF latch = <<>>
  THEN latch' = <<b>> /\ UNCHANGED reload
  ELSE latch' = <<>> /\ reload' = latch[1] + 256 * b

\* timer_init writes the high byte, then the low byte.
timer_init ==
  /\ pc = "bytes"
  /\ IF latch = <<>>
     THEN WriteByte(Divisor \div 256) /\ UNCHANGED pc
     ELSE WriteByte(Divisor % 256) /\ pc' = "register"
  /\ UNCHANGED <<eventVars, i, anim_count, IFlag, age>>

-----------------------------------------------------------------------------
\* The flow of kernel_main executes when no handler does.
Executes(l) == pc = l /\ i = Idle

\* The next event is filled in with interrupts off, and they are turned on ...
register_timer_event ==
  /\ Executes("register")
  /\ timer_event_num < Len(Calls)
  /\ LET n == timer_event_num
         interval == Calls[n + 1].interval
     IN timer_event_list' =
          [timer_event_list EXCEPT ![n] = [count_down |-> interval, interval |-> interval]]
  /\ age' = [age EXCEPT ![timer_event_num] = 0]
  /\ IFlag' = TRUE
  /\ pc' = "count"
  /\ UNCHANGED <<chipVars, timer_event_num, i, anim_count>>

\* ... before it is counted.
CountEvent ==
  /\ Executes("count")
  /\ timer_event_num' = timer_event_num + 1
  /\ pc' = "register"
  /\ UNCHANGED <<chipVars, timer_event_list, i, anim_count, IFlag, age>>

-----------------------------------------------------------------------------
\* Events that the handler counts down: event 0 even before it is counted.
Counted == {e \in Event : e = 0 \/ e < timer_event_num}

\* Mutant: the loop runs upwards from event 0.  force_switch leaves by
\* switching stacks, so the events behind it do not get their turn.
FirstEventAscending == 0

\* The loop starts at the last event; event 0 comes after it.
FirstEvent == IF timer_event_num > 1 THEN timer_event_num - 1 ELSE 0

int_20_timer ==
  /\ IFlag
  /\ IFlag' = FALSE
  /\ i' = FirstEvent
  /\ age' = [e \in Event |->
               IF e \in Counted THEN (age[e] + 1) % timer_event_list[e].interval
               ELSE age[e]]
  /\ UNCHANGED <<pc, chipVars, eventVars, anim_count>>

\* Mutant: the count-down is not started again.
CountDownOnce(e) ==
  timer_event_list' = [timer_event_list EXCEPT ![e].count_down = @ - 1]

CountDown(e) ==
  timer_event_list' =
    [timer_event_list EXCEPT ![e].count_down = IF @ = 1 THEN timer_event_list[e].interval
                                                        ELSE @ - 1]

IsDue(e) == timer_event_list[e].count_down = 1

\* One round of the loop.  The only handler here is animation.
CountEventDown ==
  /\ i \in Event \ {0}
  /\ CountDown(i)
  /\ anim_count' = IF IsDue(i) THEN (anim_count + 1) % ANIM_SEQ_LEN ELSE anim_count
  /\ i' = i - 1
  /\ UNCHANGED <<pc, chipVars, timer_event_num, IFlag, age>>

\* Event 0 and the end of the handler: iretd, here or on another stack.
CountSchedulerDown ==
  /\ i = 0
  /\ CountDown(0)
  /\ i' = Idle
  /\ IFlag' = TRUE
  /\ UNCHANGED <<pc, chipVars, timer_event_num, anim_count, age>>

-----------------------------------------------------------------------------
Boot == SetMode \/ timer_init \/ register_timer_event \/ CountEvent

Tick == int_20_timer \/ CountEventDown \/ CountSchedulerDown

Next == Boot \/ Tick

Spec == Init /\ [][Next]_vars

-----------------------------------------------------------------------------
Byte == 0 .. 255
Word == {n \in Nat : n < 256 * 256}
Ticks == (0 .. SLICE) \cup (0 .. ANIM_INTERVAL)

(***************************************************************************)
(* The types of the timer's state.                                         *)
(***************************************************************************)
TypeOK ==
  /\ pc \in {"mode", "bytes", "register", "count"}
  /\ latch = <<>> \/ latch \in [{1} -> Byte]
  /\ reload \in Word
  /\ timer_event_list \in [Event -> [count_down : Ticks, interval : {0, SLICE, ANIM_INTERVAL}]]
  /\ timer_event_num \in 0 .. Len(Calls)
  /\ i \in Event \cup {Idle}
  /\ anim_count \in 0 .. ANIM_SEQ_LEN - 1
  /\ IFlag \in BOOLEAN
  /\ age \in [Event -> Ticks]

(***************************************************************************)
(* Events stay on time: between ticks, the ticks left to every event and   *)
(* those since it was last due make up its interval.  In particular the    *)
(* scheduler, which does not return from a switch, takes no tick from the  *)
(* events after it, and ticks that come in the middle of a registration    *)
(* disturb no event: Sched counts on event 0.                              *)
(***************************************************************************)
OnTime ==
  i = Idle /\ IFlag =>
    \A e \in Counted :
      timer_event_list[e].count_down + age[e] = timer_event_list[e].interval

(***************************************************************************)
(* "generate an interrupt every 10ms", says kernel/timer.c at line 16: the *)
(* chip counts 1193182 / 100 of its pulses.                                *)
(***************************************************************************)
TickEvery10ms == IFlag => reload = Divisor

=============================================================================
