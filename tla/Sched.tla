------------------------------- MODULE Sched -------------------------------
(***************************************************************************)
(* The process scheduler of leanux (kernel/sched.c), driven by the timer   *)
(* interrupt (interrupts/isr.S, event 0 of kernel/timer.c) and by system   *)
(* calls: fork, shared_fork, waitpid and exit, which change its state, and *)
(* read and execve, which change where interrupts are on.                  *)
(*                                                                         *)
(* There is one CPU.  A flow of control is kernel_main (Kernel) or a       *)
(* process, named by its pid; cpu is the flow that executes.  All gates    *)
(* turn interrupts off, so what a handler does up to its sti or iretd is   *)
(* one step; the interleaving is at the places where interrupts are on:    *)
(* user code, the loops of tty_read, sys_waitpid and sys_exit, the way     *)
(* out of fork, and kernel_main after sched_init.                          *)
(*                                                                         *)
(* A pointer to a struct process_t is the pid of the structure, and a      *)
(* stack pointer is the flow whose interrupt frame it points to.  The      *)
(* lists are sequences of pids here.                                       *)
(***************************************************************************)
EXTENDS Naturals, Sequences

CONSTANTS
  MAX_PROC_NUM,   \* slots of process_list; also the bound on pids (PidBound)
  SLICE,          \* interval, in ticks, of the force_switch timer event
  NULL,           \* the null pointer
  Kernel          \* the flow of kernel_main

Pid == 1 .. MAX_PROC_NUM - 1
Flow == Pid \cup {Kernel}

ASSUME SchedAssumption ==
  /\ MAX_PROC_NUM \in Nat /\ MAX_PROC_NUM > 1
  /\ SLICE \in Nat \ {0}
  /\ NULL \notin Nat
  /\ Kernel \notin Nat
  /\ Kernel # NULL

VARIABLES
  current_process,  \* process the scheduler takes to be running, or NULL
  process_list,     \* table of the registered processes, indexed by pid
  ready_list,       \* processes to be served, first one first
  blocked_list,     \* switched-out processes that wait for an event
  next_pid,         \* pid of the next process
  parent_id, status, block_event, esp,  \* fields of struct process_t, by pid
  at,               \* where a process's own flow executes
  user_IF,          \* IF in the eflags of a process's user code
  boot,             \* where kernel_main executes
  cpu,              \* the flow that executes
  stored_esp,       \* frame recorded by the last timer entry or fork
  IFlag,            \* the CPU's interrupt flag IF
  in_service,       \* the timer's request awaits its end-of-interrupt
  count_down        \* ticks until timer event 0, force_switch, is due

procVars == <<parent_id, status, block_event, esp, at, user_IF>>
listVars == <<process_list, ready_list, blocked_list, next_pid>>
cpuVars  == <<current_process, cpu, boot, stored_esp, IFlag, in_service, count_down>>
vars == <<procVars, listVars, cpuVars>>

-----------------------------------------------------------------------------
(* Lists: sched_enqueue, sched_serve and sched_remove as sequence operators *)

\* Mutant: the loop to the end of the list is missing.
PushFront(q, p) == <<p>> \o q

sched_enqueue(q, p) == Append(q, p)

\* Position at which the loop of sched_remove finds p.
FirstAt(q, p) ==
  CHOOSE i \in 1 .. Len(q) : q[i] = p /\ \A j \in 1 .. i - 1 : q[j] # p

sched_remove(q, p) ==
  IF \E i \in 1 .. Len(q) : q[i] = p
  THEN [j \in 1 .. Len(q) - 1 |-> IF j < FirstAt(q, p) THEN q[j] ELSE q[j + 1]]
  ELSE q

-----------------------------------------------------------------------------
(* The state when kernel_main reaches start_shell: sched_init has run, the *)
(* timer interrupt is live and some ticks may have passed.                 *)
Init ==
  /\ current_process = NULL
  /\ process_list = [i \in 0 .. MAX_PROC_NUM - 1 |-> NULL]
  /\ ready_list = <<>>
  /\ blocked_list = <<>>
  /\ next_pid = 1
  /\ parent_id = [p \in Pid |-> 0]
  /\ status = [p \in Pid |-> "RUNNING"]       \* zero-filled memory
  /\ block_event = [p \in Pid |-> "WNONE"]
  /\ esp = [p \in Pid |-> NULL]
  /\ at = [p \in Pid |-> "none"]
  /\ user_IF = [p \in Pid |-> TRUE]
  /\ boot = "init_process"
  /\ cpu = Kernel
  /\ stored_esp = NULL
  /\ IFlag = TRUE
  /\ in_service = FALSE
  /\ count_down \in 1 .. SLICE

Executes(f) == cpu = f /\ ~in_service

\* Mutant: the parent's pointer is stored, before there is a parent.
NoParentId(p, q) ==
  /\ parent_id' = [parent_id EXCEPT ![p] = NULL]
  /\ status' = [status EXCEPT ![p] = "READY"]
  /\ block_event' = [block_event EXCEPT ![p] = "WNONE"]
  /\ esp' = [esp EXCEPT ![p] = p]

\* Mutant: the stack pointer is copied and not moved to the child's stack.
OnParentsStack(p, q) ==
  /\ parent_id' = [parent_id EXCEPT ![p] = q]
  /\ status' = [status EXCEPT ![p] = "READY"]
  /\ block_event' = [block_event EXCEPT ![p] = "WNONE"]
  /\ esp' = [esp EXCEPT ![p] = q]

\* The fields a new process p gets: parent q, ready, its stack prepared so
\* that its own flow starts when it is switched to.
NewProcess(p, q) ==
  /\ parent_id' = [parent_id EXCEPT ![p] = q]
  /\ status' = [status EXCEPT ![p] = "READY"]
  /\ block_event' = [block_event EXCEPT ![p] = "WNONE"]
  /\ esp' = [esp EXCEPT ![p] = p]

add_process(p) ==
  IF process_list[p] # NULL
  THEN UNCHANGED <<process_list, ready_list>>
  ELSE /\ process_list' = [process_list EXCEPT ![p] = p]
       /\ ready_list' = sched_enqueue(ready_list, p)

\* kernel_main, start_shell, exec_program: the shell's process structure ...
init_process ==
  /\ Executes(Kernel) /\ boot = "init_process"
  /\ next_pid \in Pid
  /\ NewProcess(next_pid, 1)
  /\ at' = [at EXCEPT ![next_pid] = "user"]
  /\ next_pid' = next_pid + 1
  /\ boot' = "add_process"
  /\ UNCHANGED <<user_IF, process_list, ready_list, blocked_list,
                 current_process, cpu, stored_esp, IFlag, in_service, count_down>>

\* ... is registered once the program is loaded; interrupts are on meanwhile.
exec_program ==
  /\ Executes(Kernel) /\ boot = "add_process"
  /\ add_process(next_pid - 1)
  /\ boot' = "idle"
  /\ UNCHANGED <<procVars, blocked_list, next_pid, current_process, cpu,
                 stored_esp, IFlag, in_service, count_down>>

-----------------------------------------------------------------------------
(* The process p that executes, from its system calls' point of view.      *)
(* Interrupts are off on entry.                                            *)

UserCode(p) == Executes(p) /\ at[p] = "user"

\* Mutant: enable_interrupt is missing; the gate has turned them off.
StayDisabledAt(l) == at' = l /\ IFlag' = FALSE /\ UNCHANGED user_IF

\* The system call turns interrupts on and executes on in the kernel at l.
EnableAt(l) == at' = l /\ IFlag' = TRUE /\ UNCHANGED user_IF

\* The last iretd of a system call restores the eflags of the user code.
BackToUser(p) ==
  /\ at' = [at EXCEPT ![p] = "user"]
  /\ IFlag' = user_IF[p]
  /\ UNCHANGED user_IF

PidBound == next_pid \in Pid

\* fork and shared_fork, which differ in the pages they share only.  Parent
\* and child leave by the same code, sys_fork_end or sys_shared_fork_end, and
\* by the same user eflags: the child's stack is a copy.
sys_fork(p) ==
  /\ UserCode(p)
  /\ PidBound
  /\ stored_esp' = p
  /\ NewProcess(next_pid, current_process)
  /\ next_pid' = next_pid + 1
  /\ add_process(next_pid)
  /\ at' = [at EXCEPT ![p] = "fork_end", ![next_pid] = "fork_end"]
  /\ user_IF' = [user_IF EXCEPT ![next_pid] = user_IF[p]]
  /\ IFlag' = TRUE
  /\ UNCHANGED <<blocked_list, current_process, cpu, boot, in_service, count_down>>

fork_return(p) ==
  /\ Executes(p) /\ at[p] = "fork_end"
  /\ BackToUser(p)
  /\ UNCHANGED <<listVars, parent_id, status, block_event, esp, current_process,
                 cpu, boot, stored_esp, in_service, count_down>>

sys_waitpid(p) ==
  /\ UserCode(p)
  /\ status' = [status EXCEPT ![current_process] = "BLOCKED"]
  /\ block_event' = [block_event EXCEPT ![current_process] = "WCHILD"]
  /\ EnableAt([at EXCEPT ![p] = "waitpid"])
  /\ UNCHANGED <<listVars, parent_id, esp, current_process, cpu, boot,
                 stored_esp, in_service, count_down>>

\* The loop of sys_waitpid is left when the process is no longer BLOCKED.
waitpid_return(p) ==
  /\ Executes(p) /\ at[p] = "waitpid"
  /\ status[current_process] # "BLOCKED"
  /\ BackToUser(p)
  /\ UNCHANGED <<listVars, parent_id, status, block_event, esp, current_process,
                 cpu, boot, stored_esp, in_service, count_down>>

\* read: tty_read polls the keyboard buffer with interrupts on.
sys_read(p) ==
  /\ UserCode(p)
  /\ EnableAt([at EXCEPT ![p] = "read"])
  /\ UNCHANGED <<listVars, parent_id, status, block_event, esp, current_process,
                 cpu, boot, stored_esp, in_service, count_down>>

read_return(p) ==
  /\ Executes(p) /\ at[p] = "read"
  /\ BackToUser(p)
  /\ UNCHANGED <<listVars, parent_id, status, block_event, esp, current_process,
                 cpu, boot, stored_esp, in_service, count_down>>

\* A successful execve jumps into the loaded program from inside the system
\* call, without iretd: the program starts with interrupts off.
sys_execve(p) ==
  /\ UserCode(p)
  /\ user_IF' = [user_IF EXCEPT ![p] = FALSE]
  /\ IFlag' = FALSE
  /\ UNCHANGED <<listVars, parent_id, status, block_event, esp, at,
                 current_process, cpu, boot, stored_esp, in_service, count_down>>

\* The instruction, which prog9 executes in user code.
sti(p) ==
  /\ UserCode(p)
  /\ user_IF' = [user_IF EXCEPT ![p] = TRUE]
  /\ IFlag' = TRUE
  /\ UNCHANGED <<listVars, parent_id, status, block_event, esp, at,
                 current_process, cpu, boot, stored_esp, in_service, count_down>>

\* Mutant: sched_enqueue on ready_list is missing.
WakeUnlisted(parent) ==
  IF parent # NULL /\ status[parent] = "BLOCKED" /\ block_event[parent] = "WCHILD"
  THEN /\ block_event' = [block_event EXCEPT ![parent] = "WNONE"]
       /\ status' = [status EXCEPT ![parent] = "READY"]
       /\ blocked_list' = sched_remove(blocked_list, parent)
       /\ UNCHANGED ready_list
  ELSE UNCHANGED <<block_event, status, blocked_list, ready_list>>

\* Mutant: sched_remove is missing.
WakeStillBlocked(parent) ==
  IF parent # NULL /\ status[parent] = "BLOCKED" /\ block_event[parent] = "WCHILD"
  THEN /\ block_event' = [block_event EXCEPT ![parent] = "WNONE"]
       /\ status' = [status EXCEPT ![parent] = "READY"]
       /\ ready_list' = sched_enqueue(ready_list, parent)
       /\ UNCHANGED blocked_list
  ELSE UNCHANGED <<block_event, status, blocked_list, ready_list>>

\* Mutant: every process that waits for a child is woken.
WakeEveryone(parent) ==
  /\ block_event' = [p \in Pid |-> "WNONE"]
  /\ status' = [p \in Pid |-> IF status[p] = "BLOCKED" THEN "READY" ELSE status[p]]
  /\ ready_list' = ready_list \o blocked_list
  /\ blocked_list' = <<>>

WakeParent(parent) ==
  IF parent # NULL /\ status[parent] = "BLOCKED" /\ block_event[parent] = "WCHILD"
  THEN /\ block_event' = [block_event EXCEPT ![parent] = "WNONE"]
       /\ status' = [status EXCEPT ![parent] = "READY"]
       /\ blocked_list' = sched_remove(blocked_list, parent)
       /\ ready_list' = sched_enqueue(ready_list, parent)
  ELSE UNCHANGED <<block_event, status, blocked_list, ready_list>>

sys_exit(p) ==
  /\ UserCode(p)
  /\ WakeParent(process_list[parent_id[current_process]])
  /\ current_process' = NULL
  /\ EnableAt([at EXCEPT ![p] = "exit"])
  /\ UNCHANGED <<process_list, next_pid, parent_id, esp, cpu, boot, stored_esp,
                 in_service, count_down>>

-----------------------------------------------------------------------------
(* The timer interrupt *)

\* The CPU accepts the request and int_20_timer records the frame.
int_20_timer ==
  /\ IFlag /\ ~in_service
  /\ IFlag' = FALSE
  /\ in_service' = TRUE
  /\ stored_esp' = cpu
  /\ UNCHANGED <<procVars, listVars, current_process, cpu, boot, count_down>>

\* force_switch gives the CPU to the first ready process, if there is one.
force_switch ==
  LET cur == current_process
      waits == cur # NULL /\ status[cur] = "BLOCKED"
      goesOn == cur # NULL /\ status[cur] # "BLOCKED"
      queue == IF goesOn THEN sched_enqueue(ready_list, cur) ELSE ready_list
      next == Head(queue)
  IN IF ready_list = <<>>
     THEN UNCHANGED <<procVars, listVars, current_process, cpu>>
     ELSE /\ ready_list' = Tail(queue)
          /\ blocked_list' = IF waits THEN sched_enqueue(blocked_list, cur)
                                      ELSE blocked_list
          /\ status' = [p \in Pid |-> IF p = next THEN "RUNNING"
                                      ELSE IF goesOn /\ p = cur THEN "READY"
                                      ELSE status[p]]
          /\ esp' = IF cur = NULL THEN esp ELSE [esp EXCEPT ![cur] = stored_esp]
          /\ current_process' = next
          /\ cpu' = esp'[next]
          /\ UNCHANGED <<process_list, next_pid, parent_id, block_event, at, user_IF>>

\* The handler: end-of-interrupt first, then event 0 when its time has come,
\* then iretd, into the interrupted flow or into the one switched to, which
\* either had interrupts on when a tick took the CPU from it, or is new.
handle_int_20_timer ==
  /\ in_service /\ ~IFlag
  /\ in_service' = FALSE
  /\ IF count_down = 1
     THEN count_down' = SLICE /\ force_switch
     ELSE /\ count_down' = count_down - 1
          /\ UNCHANGED <<procVars, listVars, current_process, cpu>>
  /\ IFlag' = TRUE
  /\ UNCHANGED <<boot, stored_esp>>

-----------------------------------------------------------------------------
KernelMain == init_process \/ exec_program

Process(p) ==
  \/ sys_fork(p) \/ fork_return(p)
  \/ sys_waitpid(p) \/ waitpid_return(p)
  \/ sys_read(p) \/ read_return(p)
  \/ sys_execve(p) \/ sti(p)
  \/ sys_exit(p)

Timer == int_20_timer \/ handle_int_20_timer

Next == KernelMain \/ Timer \/ \E p \in Pid : Process(p)

Spec == Init /\ [][Next]_vars

\* A program that runs with interrupts off does not compute for ever.
LetsInterruptsIn(p) ==
  /\ ~user_IF[p]
  /\ sys_fork(p) \/ sys_waitpid(p) \/ sys_read(p) \/ sti(p) \/ sys_exit(p)

(* The timer chip requests an interrupt every 10 ms and the PIC holds the    *)
(* request until the CPU accepts it: strong fairness of int_20_timer.  A     *)
(* flow that is given the CPU executes instructions for whole ticks, so a    *)
(* step it is offered in slice after slice is taken: strong fairness, as     *)
(* each tick briefly disables it.  Programs owe no system call, except when  *)
(* they have interrupts off, and nobody has to type.                         *)
Fairness ==
  /\ SF_vars(int_20_timer) /\ WF_vars(handle_int_20_timer)
  /\ SF_vars(KernelMain)
  /\ \A p \in Pid :
       /\ SF_vars(waitpid_return(p)) /\ SF_vars(fork_return(p))
       /\ WF_vars(LetsInterruptsIn(p))

FairSpec == Spec /\ Fairness

-----------------------------------------------------------------------------
Elems(q) == {q[i] : i \in 1 .. Len(q)}
NoDup(q) == \A i, j \in 1 .. Len(q) : q[i] = q[j] => i = j
StartsWith(r, q) == Len(q) <= Len(r) /\ \A i \in 1 .. Len(q) : r[i] = q[i]
Current == {current_process} \ {NULL}

\* Registered processes that have not exited.
Live == {p \in Pid : process_list[p] # NULL /\ at[p] # "exit"}

TypeOK ==
  /\ current_process \in Pid \cup {NULL}
  /\ process_list \in [0 .. MAX_PROC_NUM - 1 -> Pid \cup {NULL}]
  /\ ready_list \in Seq(Pid)
  /\ blocked_list \in Seq(Pid)
  /\ next_pid \in 1 .. MAX_PROC_NUM
  /\ parent_id \in [Pid -> Pid \cup {0}]
  /\ status \in [Pid -> {"RUNNING", "READY", "BLOCKED"}]
  /\ block_event \in [Pid -> {"WNONE", "WCHILD"}]
  /\ esp \in [Pid -> Flow \cup {NULL}]
  /\ at \in [Pid -> {"none", "user", "fork_end", "waitpid", "read", "exit"}]
  /\ user_IF \in [Pid -> BOOLEAN]
  /\ boot \in {"init_process", "add_process", "idle"}
  /\ cpu \in Flow
  /\ stored_esp \in Flow \cup {NULL}
  /\ IFlag \in BOOLEAN
  /\ in_service \in BOOLEAN
  /\ count_down \in 1 .. SLICE

(***************************************************************************)
(* Every live process is in exactly one place: it is current, or once in   *)
(* the ready list, or once in the blocked list; an exited process is       *)
(* nowhere.  force_switch, sys_exit and add_process move processes between *)
(* these places and none may be lost, duplicated or revived.               *)
(***************************************************************************)
OnePlace ==
  /\ NoDup(ready_list) /\ NoDup(blocked_list)
  /\ Elems(ready_list) \cap Elems(blocked_list) = {}
  /\ Current \cap (Elems(ready_list) \cup Elems(blocked_list)) = {}
  /\ Current \cup Elems(ready_list) \cup Elems(blocked_list) = Live

(***************************************************************************)
(* The status field agrees with the place.  sys_waitpid writes BLOCKED     *)
(* while the process is still current, and the lists follow at the next    *)
(* switch: sys_exit relies on a BLOCKED parent being in blocked_list, the  *)
(* only list it takes it out of.                                           *)
(***************************************************************************)
StatusMatchesPlace ==
  \A p \in Live :
    /\ status[p] = "READY" <=> p \in Elems(ready_list)
    /\ p \in Elems(blocked_list) => status[p] = "BLOCKED"
    /\ status[p] = "BLOCKED" <=> block_event[p] = "WCHILD"
    /\ status[p] = "BLOCKED" => at[p] = "waitpid"

(***************************************************************************)
(* A switch resumes what was suspended.  The saved context of a waiting    *)
(* process is a frame of its own flow, although stored_esp is one global   *)
(* that timer entries and forks of all processes overwrite; and the flow   *)
(* on the CPU is the current process, or one that nobody saves again:      *)
(* kernel_main, or a process that has exited.                              *)
(***************************************************************************)
OwnContext ==
  /\ \A p \in Elems(ready_list) \cup Elems(blocked_list) : esp[p] = p
  /\ in_service => stored_esp = cpu
  /\ IF current_process # NULL THEN cpu = current_process
     ELSE cpu = Kernel \/ at[cpu] = "exit"

(***************************************************************************)
(* Interrupts are on wherever the kernel is and no handler runs - above    *)
(* all in the loops of tty_read, sys_waitpid and sys_exit, which end only  *)
(* through an interrupt - and user code has the IF it had before it was    *)
(* interrupted or made a system call.                                      *)
(***************************************************************************)
InterruptFlag ==
  IFlag <=> ~in_service /\ (cpu \in Pid /\ at[cpu] = "user" => user_IF[cpu])

(***************************************************************************)
(* A process leaves BLOCKED only in the step in which one of its children  *)
(* exits, so a return of waitpid always follows the exit of a child.       *)
(***************************************************************************)
WokenByChild ==
  [][\A p \in Pid : status[p] = "BLOCKED" /\ status'[p] # "BLOCKED" =>
       \E c \in Pid : /\ parent_id[c] = p
                      /\ at[c] # "exit" /\ at'[c] = "exit"]_vars

(***************************************************************************)
(* No overtaking: ready_list is a queue.  A step leaves the ready          *)
(* processes in their order, takes out none but the first one, which is    *)
(* given the CPU, and puts a newcomer - preempted, woken or created -      *)
(* behind all that wait.                                                   *)
(***************************************************************************)
NoOvertaking ==
  [][\/ StartsWith(ready_list', ready_list)
     \/ /\ ready_list # <<>>
        /\ current_process' = Head(ready_list)
        /\ StartsWith(ready_list', Tail(ready_list))]_vars

(***************************************************************************)
(* The timer never dies: requests keep being accepted and acknowledged.    *)
(* A handler that switches does not return to _int_20_timer, and           *)
(* sys_waitpid and sys_exit never return at all while they wait for a      *)
(* switch, so each has to acknowledge or to enable interrupts beforehand.  *)
(***************************************************************************)
TimerKeepsTicking == []<>in_service /\ []<>~in_service

(***************************************************************************)
(* A process that is blocked in waitpid when a child of its own exits gets *)
(* out of it, even in the window in which it is BLOCKED but still current  *)
(* and in no list.  (A child that exited earlier wakes nobody.)  Children  *)
(* have higher pids.                                                       *)
(***************************************************************************)
BlockedInTimeReturns ==
  \A p, c \in Pid : p < c =>
    [](status[p] = "BLOCKED" /\ c \in Live /\ parent_id[c] = p
         => <>(at[p] = "user") \/ [](at[c] # "exit"))

-----------------------------------------------------------------------------
(***************************************************************************)
(* The scheduler implements ProcessLife.  A process exists for others from *)
(* its registration on.  It waits from the moment its status is BLOCKED,   *)
(* although it stays current, and spins, until the slice ends.             *)
(***************************************************************************)
Life ==
  [p \in Pid |->
     IF process_list[p] = NULL THEN "none"
     ELSE IF at[p] = "exit" THEN "dead"
     ELSE IF status[p] = "BLOCKED" THEN "waiting"
     ELSE IF current_process = p THEN "running"
     ELSE "ready"]

Parent == [p \in Pid |-> IF process_list[p] = NULL THEN 0 ELSE parent_id[p]]

Abstract == INSTANCE ProcessLife WITH Proc <- Pid, life <- Life, parent <- Parent

\* Every step of the code is a step of ProcessLife or changes no life: no
\* switch, wake-up or exit ever moves a process to a place it does not promise.
StepsImplementLife == Abstract!SafeSpec

\* Every ready process is dispatched in the end: ready_list is served while
\* the timer ticks, whatever the other processes do.
ImplementsProcessLife == Abstract!Spec

=============================================================================
