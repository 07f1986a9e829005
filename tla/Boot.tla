-------------------------------- MODULE Boot --------------------------------
(***************************************************************************)
(* How leanux gets to its first interrupts, and what becomes of them:      *)
(* kernel_main (init/main.c) sets up the gates of the interrupt descriptor *)
(* table, the interrupt controller (kernel/interrupt.c), the keyboard and  *)
(* the timer while requests come in, turns interrupts on half-way, in the  *)
(* registration of the first timer event, and loses the CPU for good at    *)
(* the first switch to the shell.                                          *)
(*                                                                         *)
(* Every step of Timer is conjoined with what it means for the controller. *)
(* tty_init is in Tty, the paging of page_init and mm_init in Paging.      *)
(*                                                                         *)
(* Assumptions on the hardware: the user types nothing before pic_init,    *)
(* which would drop the request, and a tick comes after the handler of the *)
(* one before has returned (microseconds against milliseconds).            *)
(***************************************************************************)
EXTENDS Timer, FiniteSetsExt

\* Vectors of the two devices, of a request withdrawn too late, of the
\* cascaded controller and of the disk; of page faults and of system calls.
TIMER == \h20
KEYBOARD == \h21
CASCADE == \h22
SPURIOUS == \h27
DISK == \h2E
PAGE_FAULT == \h0E
SYSCALL == \h80

Irq == {TIMER, KEYBOARD, CASCADE, DISK}
Vector == Irq \cup {SPURIOUS, PAGE_FAULT, SYSCALL}

\* Mutant: the gate of the system calls is set last.
MainCallsGateLast == << "idt_init", "pic_init", "page_init", "keyboard_init", "timer_init",
                        "sched_init", "animation", "start_shell", "syscall gate",
                        "enable_interrupt", "idle" >>

\* The calls of kernel_main that concern interrupts, in their order.
MainCalls == << "idt_init", "pic_init", "page_init", "keyboard_init", "timer_init",
                "sched_init", "syscall gate", "animation", "start_shell",
                "enable_interrupt", "idle" >>

VARIABLES
  line,            \* where kernel_main is in its calls
  IDT,             \* the handler each gate leads to
  mask, irr, isr,  \* the controller: requests masked, pending, in service
  port, full,      \* the keyboard's data port: its last byte, and if it is new
  kb, val,         \* the keyboard handler: its next step, and its variable
  shell,           \* what has become of the shell
  due              \* history: a key press that kb_buf has not been told of

bootVars == <<line, IDT, mask, irr, isr, port, full, kb, val, shell, due>>

BootInit ==
  /\ Init
  /\ line = 1
  /\ IDT = [v \in Vector |-> "none"]
  /\ mask \in {{}, Irq \ {TIMER}} /\ irr \in SUBSET {TIMER, DISK} /\ isr = {}
  /\ port = "release" /\ full = FALSE
  /\ kb = "idle" /\ val = "release"
  /\ shell = "none"
  /\ due = FALSE

-----------------------------------------------------------------------------
(* The functions of kernel/interrupt.c                                     *)

\* idt_init and pic_init; initialising the controller clears it.
idt_init == IDT' = [v \in Vector |-> "int_null"] /\ UNCHANGED <<mask, irr, isr>>

pic_init ==
  /\ irr' = {} /\ isr' = {} /\ mask' = Irq
  /\ IDT' = [v \in Vector |-> IF v \in \h20 .. \h28 THEN "int_null_0"
                              ELSE IF v \in \h29 .. \h2F THEN "int_null_1"
                              ELSE IDT[v]]

\* Mutant: the gate is set and the request stays masked.
RegisterMasked(v, handler) ==
  IDT' = [IDT EXCEPT ![v] = handler] /\ UNCHANGED <<mask, irr, isr>>

register_interrupt(v, handler) ==
  /\ IDT' = [IDT EXCEPT ![v] = handler]
  /\ mask' = mask \ {v}
  /\ UNCHANGED <<irr, isr>>

\* The end of interrupt names no request: it is for the first in service.
send_pic_eoi(served) == IF served = {} THEN {} ELSE served \ {Min(served)}

-----------------------------------------------------------------------------
(* kernel_main executes when no handler does and no process has the CPU.   *)
At(call) == MainCalls[line] = call /\ kb = "idle" /\ i = Idle /\ shell # "running"

Call(call) == At(call) /\ line' = line + 1

EnvUnchanged == UNCHANGED <<port, full, kb, val, due>>

SetUpGates ==
  /\ \/ Call("idt_init") /\ idt_init
     \/ Call("pic_init") /\ pic_init
     \/ Call("page_init") /\ register_interrupt(PAGE_FAULT, "int_page_fault")
     \/ Call("keyboard_init") /\ register_interrupt(KEYBOARD, "int_21_keyboard")
     \/ Call("syscall gate") /\ register_interrupt(SYSCALL, "syscall")
  /\ UNCHANGED <<vars, shell>> /\ EnvUnchanged

\* timer_init, which registers its interrupt after the last byte.
ProgramTimer ==
  /\ At("timer_init")
  /\ SetMode \/ timer_init
  /\ IF pc' = "register"
     THEN line' = line + 1 /\ register_interrupt(TIMER, "int_20_timer")
     ELSE UNCHANGED <<line, IDT, mask, irr, isr>>
  /\ UNCHANGED shell /\ EnvUnchanged

\* sched_init registers force_switch and kernel_main animation; the end of
\* either call is the step that counts the event.
RegisterEvent ==
  /\ At("sched_init") \/ At("animation")
  /\ \/ register_timer_event /\ UNCHANGED line
     \/ CountEvent /\ line' = line + 1
  /\ UNCHANGED <<IDT, mask, irr, isr, shell>> /\ EnvUnchanged

start_shell ==
  /\ Call("start_shell")
  /\ shell' = "ready"
  /\ UNCHANGED <<vars, IDT, mask, irr, isr>> /\ EnvUnchanged

\* Interrupts are on already.
EnableInterrupt ==
  /\ Call("enable_interrupt")
  /\ IFlag' = TRUE
  /\ UNCHANGED <<pc, chipVars, eventVars, i, anim_count, age>>
  /\ UNCHANGED <<IDT, mask, irr, isr, shell>> /\ EnvUnchanged

kernel_main ==
  SetUpGates \/ ProgramTimer \/ RegisterEvent \/ start_shell \/ EnableInterrupt

-----------------------------------------------------------------------------
(* The devices: the timer's tick, the end of a disk transfer, and a byte   *)
(* of the keyboard.  An arrow key sends the prefix 0xE0 before its byte.   *)

InterruptRequest(q) ==
  /\ q = TIMER => i = Idle /\ TIMER \notin irr
  /\ irr' = irr \cup {q}
  /\ UNCHANGED <<vars, line, IDT, mask, isr, port, full, kb, val, shell, due>>

KeyByte ==
  /\ line > 2 /\ ~full
  /\ port' \in IF port = "prefix" THEN {"press", "release"} ELSE {"press", "release", "prefix"}
  /\ full' = TRUE
  /\ due' = (due \/ port' = "press")
  /\ irr' = irr \cup {KEYBOARD}
  /\ UNCHANGED <<vars, line, IDT, mask, isr, kb, val, shell>>

-----------------------------------------------------------------------------
(* The CPU takes an interrupt.  The gates turn interrupts off.             *)

\* The controller passes a request that comes before all in service, one of
\* its cascaded half only through CASCADE.
Passes(q) ==
  /\ IFlag
  /\ q \in irr \ mask
  /\ \A r \in (irr \ mask) \cup isr : q <= r
  /\ q >= \h28 => CASCADE \notin mask

\* Mutant: no end of interrupt.
ServedUnacknowledged(q) == isr \cup {q}

\* int_20_timer acknowledges before it serves the events.
ServedByTimer(q) == send_pic_eoi(isr \cup {q})

TimerInterrupt ==
  /\ Passes(TIMER) /\ IDT[TIMER] = "int_20_timer"
  /\ int_20_timer
  /\ irr' = irr \ {TIMER} /\ isr' = ServedByTimer(TIMER)
  /\ UNCHANGED <<line, IDT, mask, port, full, kb, val, shell, due>>

ServeEvents ==
  /\ \/ CountEventDown /\ UNCHANGED shell
     \/ /\ CountSchedulerDown
        /\ shell' = IF IsDue(0) /\ shell = "ready" THEN "running" ELSE shell
  /\ UNCHANGED <<line, IDT, mask, irr, isr>> /\ EnvUnchanged

KeyboardInterrupt ==
  /\ Passes(KEYBOARD) /\ IDT[KEYBOARD] = "int_21_keyboard"
  /\ irr' = irr \ {KEYBOARD} /\ isr' = isr \cup {KEYBOARD}
  /\ IFlag' = FALSE
  /\ kb' = "read"
  /\ UNCHANGED <<pc, chipVars, eventVars, i, anim_count, age>>
  /\ UNCHANGED <<line, IDT, mask, port, full, val, shell, due>>

\* Mutant: the handler always reads twice.
ReadsAlways == kb = "read"

\* 0xE0 is followed by another byte, which the handler does not wait for.
ReadsAgain == kb = "read" /\ port = "prefix"

\* Reading takes the request off the line; one that the controller has latched
\* may stay.
port_byte_in ==
  /\ kb \in {"read", "again"}
  /\ val' = port /\ full' = FALSE
  /\ irr' \in {irr, irr \ {KEYBOARD}}
  /\ kb' = IF ReadsAgain THEN "again" ELSE "test"
  /\ UNCHANGED <<vars, line, IDT, mask, isr, port, shell, due>>

\* A press is enqueued; acknowledge and turn interrupts on.
EndOfKey ==
  /\ kb = "test"
  /\ due' = (due /\ val # "press")
  /\ isr' = send_pic_eoi(isr)
  /\ IFlag' = TRUE
  /\ kb' = "idle"
  /\ UNCHANGED <<pc, chipVars, eventVars, i, anim_count, age>>
  /\ UNCHANGED <<line, IDT, mask, irr, port, full, val, shell>>

\* A request that goes away before the CPU asks for its vector comes as the
\* controller's last one, without being in service: int_null_0 acknowledges.
int_null_0 ==
  /\ IFlag /\ IDT[SPURIOUS] = "int_null_0"
  /\ isr' = send_pic_eoi(isr)
  /\ UNCHANGED <<vars, line, IDT, mask, irr, port, full, kb, val, shell, due>>

-----------------------------------------------------------------------------
Handlers == ServeEvents \/ port_byte_in \/ EndOfKey

BootNext ==
  \/ kernel_main
  \/ InterruptRequest(TIMER) \/ InterruptRequest(DISK) \/ KeyByte
  \/ TimerInterrupt \/ KeyboardInterrupt \/ int_null_0
  \/ Handlers

allVars == <<vars, bootVars>>

(* The CPU goes on executing, and takes a pending interrupt whenever its   *)
(* flag lets it: between a tick's handler and the next tick there is time. *)
BootSpec ==
  /\ BootInit /\ [][BootNext]_allVars
  /\ WF_allVars(kernel_main) /\ WF_allVars(Handlers)
  /\ SF_allVars(TimerInterrupt) /\ SF_allVars(KeyboardInterrupt)

-----------------------------------------------------------------------------
(***************************************************************************)
(* The types of the state of the boot, the controller and the keyboard.    *)
(***************************************************************************)
BootTypeOK ==
  /\ TypeOK
  /\ line \in DOMAIN MainCalls
  /\ IDT \in [Vector -> {"none", "int_null", "int_null_0", "int_null_1", "int_20_timer",
                         "int_21_keyboard", "int_page_fault", "syscall"}]
  /\ {mask, irr, isr} \subseteq SUBSET Irq
  /\ {port, val} \subseteq {"press", "release", "prefix"} /\ {full, due} \subseteq BOOLEAN
  /\ kb \in {"idle", "read", "again", "test"}
  /\ shell \in {"none", "ready", "running"}

(***************************************************************************)
(* Nothing arrives before it can be served: with interrupts on, requests   *)
(* that the controller lets through have their device's handler, and when  *)
(* the shell runs, kernel_main, which will not get the CPU again, has left *)
(* none of its set-up undone.                                              *)
(***************************************************************************)
GatesReady ==
  /\ IFlag => /\ \A q \in Irq \ mask : IDT[q] \in {"int_20_timer", "int_21_keyboard"}
              /\ IDT[SPURIOUS] = "int_null_0" /\ IDT[PAGE_FAULT] = "int_page_fault"
  /\ shell = "running" =>
       IDT[SYSCALL] = "syscall" /\ timer_event_num = Len(Calls)

(***************************************************************************)
(* With interrupts on nothing is in service: every handler acknowledges    *)
(* its own request, once, before it can be interrupted, so that the end of *)
(* interrupt, which names none, acknowledges nobody else's.                *)
(***************************************************************************)
AcknowledgedInTime == IFlag => isr = {}

(***************************************************************************)
(* Every key press reaches the keyboard buffer, arrow keys included, also  *)
(* when it comes while interrupts are off, while the timer's handler runs, *)
(* or between the two reads of the handler.                                *)
(***************************************************************************)
PressIsQueued == due ~> ~due

=============================================================================
