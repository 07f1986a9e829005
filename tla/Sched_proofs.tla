--------------------------- MODULE Sched_proofs ----------------------------
(***************************************************************************)
(* Proofs about Sched, for every number of processes and every slice.      *)
(***************************************************************************)
EXTENDS Sched, TLAPS

(***************************************************************************)
(* What the invariants of Sched rest on.                                   *)
(***************************************************************************)

\* Pids are given in order; a process is registered under its own pid, all
\* but the first one in the step that creates it.
Numbering ==
  /\ process_list[0] = NULL
  /\ \A p \in Pid :
       /\ process_list[p] \in {p, NULL}
       /\ process_list[p] # NULL <=>
            p < next_pid /\ ~(boot = "add_process" /\ p = next_pid - 1)
       /\ at[p] = "none" <=> p >= next_pid

\* Until the shell is registered, kernel_main is alone.
Boot ==
  boot # "idle" =>
    /\ cpu = Kernel /\ current_process = NULL
    /\ ready_list = <<>> /\ blocked_list = <<>>
    /\ next_pid = IF boot = "init_process" THEN 1 ELSE 2
    /\ boot = "add_process" =>
         /\ at[1] = "user" /\ status[1] = "READY" /\ block_event[1] = "WNONE"
         /\ esp[1] = 1 /\ parent_id[1] = 1
    /\ user_IF[1]

\* A process that is neither current nor in a list is not taken for a waiter.
NoStrayWaiter ==
  \A p \in Pid : p \notin Live => status[p] # "BLOCKED" /\ block_event[p] # "WCHILD"

\* A process lost the CPU at a place where it had interrupts on.
Suspended ==
  /\ \A p \in Elems(ready_list) \cup Elems(blocked_list) :
       at[p] = "user" => user_IF[p]
  /\ in_service /\ cpu \in Pid /\ at[cpu] = "user" => user_IF[cpu]

IInv ==
  /\ TypeOK
  /\ Numbering /\ Boot /\ NoStrayWaiter /\ Suspended
  /\ OnePlace /\ StatusMatchesPlace
  /\ OwnContext /\ InterruptFlag

-----------------------------------------------------------------------------
(***************************************************************************)
(* The list operations.  sched_enqueue adds one member at the end.         *)
(***************************************************************************)
LEMMA EnqueueLemma ==
  ASSUME NEW q \in Seq(Pid), NEW p \in Pid
  PROVE  /\ sched_enqueue(q, p) \in Seq(Pid)
         /\ sched_enqueue(q, p) # <<>>
         /\ Elems(sched_enqueue(q, p)) = Elems(q) \cup {p}
         /\ NoDup(q) /\ p \notin Elems(q) => NoDup(sched_enqueue(q, p))
         /\ Head(sched_enqueue(q, p)) = IF q = <<>> THEN p ELSE Head(q)
<1> DEFINE r == sched_enqueue(q, p)
<1>1. r \in Seq(Pid) /\ Len(r) = Len(q) + 1
  BY DEF sched_enqueue
<1>2. \A i \in 1 .. Len(q) : r[i] = q[i]
  BY DEF sched_enqueue
<1>3. r[Len(q) + 1] = p
  BY DEF sched_enqueue
<1>4. Elems(r) = Elems(q) \cup {p}
  BY <1>1, <1>2, <1>3 DEF Elems
<1>5. ASSUME NoDup(q), p \notin Elems(q)
      PROVE  NoDup(r)
  BY <1>1, <1>2, <1>3, <1>5 DEF Elems, NoDup
<1>6. r # <<>> /\ Head(r) = IF q = <<>> THEN p ELSE Head(q)
  BY <1>1, <1>2, <1>3
<1> QED
  BY <1>1, <1>4, <1>5, <1>6

\* The empty list has no members, and it is the only one.
LEMMA EmptyLemma ==
  /\ <<>> \in Seq(Pid) /\ Elems(<<>>) = {} /\ NoDup(<<>>)
  /\ \A q \in Seq(Pid) : q # <<>> <=> Elems(q) # {}
<1>1. <<>> \in Seq(Pid) /\ Elems(<<>>) = {} /\ NoDup(<<>>)
  BY DEF Elems, NoDup
<1>2. ASSUME NEW q \in Seq(Pid), q # <<>>
      PROVE  q[1] \in Elems(q)
  BY <1>2 DEF Elems
<1> QED
  BY <1>1, <1>2

(***************************************************************************)
(* sched_serve takes the first member away.                                *)
(***************************************************************************)
LEMMA ServeLemma ==
  ASSUME NEW q \in Seq(Pid), q # <<>>
  PROVE  /\ Head(q) \in Pid /\ Head(q) \in Elems(q)
         /\ Tail(q) \in Seq(Pid)
         /\ NoDup(q) => NoDup(Tail(q)) /\ Elems(Tail(q)) = Elems(q) \ {Head(q)}
<1>1. /\ Len(q) \in Nat \ {0}
      /\ Head(q) = q[1]
      /\ Len(Tail(q)) = Len(q) - 1
      /\ Tail(q) \in Seq(Pid)
      /\ \A i \in 1 .. Len(q) - 1 : Tail(q)[i] = q[i + 1]
  OBVIOUS
<1>2. Head(q) \in Pid /\ Head(q) \in Elems(q)
  BY <1>1 DEF Elems
<1>3. ASSUME NoDup(q)
      PROVE  NoDup(Tail(q)) /\ Elems(Tail(q)) = Elems(q) \ {Head(q)}
  <2>1. NoDup(Tail(q))
    BY <1>1, <1>3 DEF NoDup
  <2>2. ASSUME NEW x \in Elems(Tail(q))
        PROVE  x \in Elems(q) \ {Head(q)}
    <3>1. PICK i \in 1 .. Len(q) - 1 : x = q[i + 1]
      BY <1>1, <2>2 DEF Elems
    <3> QED
      BY <1>1, <1>3, <3>1 DEF Elems, NoDup
  <2>3. ASSUME NEW x \in Elems(q) \ {Head(q)}
        PROVE  x \in Elems(Tail(q))
    <3>1. PICK i \in 1 .. Len(q) : x = q[i] /\ i # 1
      BY <1>1, <2>3 DEF Elems
    <3>2. i - 1 \in 1 .. Len(Tail(q)) /\ Tail(q)[i - 1] = x
      BY <1>1, <3>1
    <3> QED
      BY <3>2 DEF Elems
  <2> QED
    BY <2>1, <2>2, <2>3
<1> QED
  BY <1>1, <1>2, <1>3

(***************************************************************************)
(* sched_remove takes the given member away and keeps the order.           *)
(***************************************************************************)
LEMMA RemoveLemma ==
  ASSUME NEW q \in Seq(Pid), NEW p \in Elems(q), NoDup(q)
  PROVE  /\ sched_remove(q, p) \in Seq(Pid)
         /\ NoDup(sched_remove(q, p))
         /\ Elems(sched_remove(q, p)) = Elems(q) \ {p}
<1> DEFINE k == FirstAt(q, p)
           r == sched_remove(q, p)
<1>1. k \in 1 .. Len(q) /\ q[k] = p
  <2>1. PICK i \in 1 .. Len(q) : q[i] = p
    BY DEF Elems
  <2>2. \A j \in 1 .. i - 1 : q[j] # p
    BY <2>1 DEF NoDup
  <2> QED
    BY <2>1, <2>2 DEF FirstAt
<1>2. r = [j \in 1 .. Len(q) - 1 |-> IF j < k THEN q[j] ELSE q[j + 1]]
  BY <1>1 DEF sched_remove
<1> HIDE DEF k, r
<1>3. /\ r \in Seq(Pid) /\ Len(r) = Len(q) - 1
      /\ \A j \in 1 .. Len(r) : r[j] = IF j < k THEN q[j] ELSE q[j + 1]
  <2>1. Len(q) - 1 \in Nat
    BY <1>1
  <2>2. \A j \in 1 .. Len(q) - 1 : (IF j < k THEN q[j] ELSE q[j + 1]) \in Pid
    BY <1>1
  <2> QED
    BY <1>2, <2>1, <2>2
<1>4. NoDup(r)
  <2> DEFINE src(j) == IF j < k THEN j ELSE j + 1
  <2>1. \A j \in 1 .. Len(r) : src(j) \in 1 .. Len(q) /\ r[j] = q[src(j)]
    BY <1>1, <1>3
  <2>2. \A i, j \in 1 .. Len(r) : src(i) = src(j) => i = j
    BY <1>1, <1>3
  <2> HIDE DEF src
  <2>3. \A i, j \in 1 .. Len(q) : q[i] = q[j] => i = j
    BY DEF NoDup
  <2> QED
    BY <2>1, <2>2, <2>3 DEF NoDup
<1>5. ASSUME NEW x \in Elems(r)
      PROVE  x \in Elems(q) \ {p}
  <2>1. PICK j \in 1 .. Len(r) : x = r[j]
    BY <1>5 DEF Elems
  <2>2. CASE j < k
    BY <1>1, <1>3, <2>1, <2>2 DEF Elems, NoDup
  <2>3. CASE ~(j < k)
    BY <1>1, <1>3, <2>1, <2>3 DEF Elems, NoDup
  <2> QED
    BY <2>2, <2>3
<1>6. ASSUME NEW x \in Elems(q) \ {p}
      PROVE  x \in Elems(r)
  <2>1. PICK i \in 1 .. Len(q) : x = q[i]
    BY <1>6 DEF Elems
  <2>2. i # k
    BY <1>1, <1>6, <2>1
  <2>3. CASE i < k
    <3>1. i \in 1 .. Len(r) /\ r[i] = x
      BY <1>1, <1>3, <2>1, <2>3
    <3> QED
      BY <3>1 DEF Elems
  <2>4. CASE i > k
    <3>1. i - 1 \in 1 .. Len(r) /\ r[i - 1] = x
      BY <1>1, <1>3, <2>1, <2>4
    <3> QED
      BY <3>1 DEF Elems
  <2> QED
    BY <1>1, <2>1, <2>2, <2>3, <2>4
<1>7. Elems(r) = Elems(q) \ {p}
  BY <1>5, <1>6
<1> QED
  BY <1>3, <1>4, <1>7 DEF r

-----------------------------------------------------------------------------
(***************************************************************************)
(* The flow on the CPU, if it is a process that has not exited, is the     *)
(* current process, and it is in no list.                                  *)
(***************************************************************************)
LEMMA CurrentExecutes ==
  ASSUME IInv, NEW p \in Pid, cpu = p, at[p] # "exit"
  PROVE  /\ current_process = p
         /\ boot = "idle"
         /\ p \in Live
         /\ p \notin Elems(ready_list) \cup Elems(blocked_list)
         /\ status[p] # "READY"
<1>1. p # Kernel /\ p # NULL
  BY SchedAssumption DEF Pid
<1>2. current_process = p
  BY <1>1 DEF IInv, OwnContext
<1>3. boot = "idle"
  BY <1>1, <1>2 DEF IInv, Boot
<1>4. p \in Live /\ p \notin Elems(ready_list) \cup Elems(blocked_list)
  BY <1>1, <1>2 DEF IInv, OnePlace, Current
<1>5. status[p] # "READY"
  BY <1>4 DEF IInv, StatusMatchesPlace
<1> QED
  BY <1>2, <1>3, <1>4, <1>5

(***************************************************************************)
(* A step of the running process that touches neither lists nor statuses.  *)
(***************************************************************************)
LEMMA PlainStep ==
  ASSUME IInv, NEW p \in Pid, Executes(p), at[p] \notin {"none", "exit"},
         NEW l \in {"user", "fork_end", "waitpid", "read"},
         status[p] = "BLOCKED" => l = "waitpid",
         at' = [at EXCEPT ![p] = l],
         user_IF' \in [Pid -> BOOLEAN],
         \A q \in Pid \ {p} : user_IF'[q] = user_IF[q],
         InterruptFlag', IFlag' \in BOOLEAN,
         UNCHANGED <<listVars, parent_id, status, block_event, esp, current_process,
                     cpu, boot, stored_esp, in_service, count_down>>
  PROVE  IInv'
<1>1. TypeOK'
  BY DEF IInv, TypeOK, listVars
<1>2. \A q \in Pid : /\ (at'[q] = "exit") = (at[q] = "exit")
                     /\ (at'[q] = "none") = (at[q] = "none")
                     /\ q # p => at'[q] = at[q]
  BY DEF IInv, TypeOK
<1>3. Live' = Live
  BY <1>2 DEF Live, listVars
<1>4. Numbering'
  BY <1>2 DEF IInv, Numbering, listVars
<1>5. Boot' /\ NoStrayWaiter'
  <2>1. boot = "idle"
    BY CurrentExecutes DEF Executes
  <2> QED
    BY <1>3, <2>1 DEF IInv, Boot, NoStrayWaiter, listVars
<1>6. OnePlace'
  BY <1>3 DEF IInv, OnePlace, Current, listVars
<1>7. StatusMatchesPlace'
  <2>1. at'[p] = l
    BY DEF IInv, TypeOK
  <2> QED
    BY <1>2, <1>3, <2>1 DEF IInv, StatusMatchesPlace, listVars
<1>8. OwnContext'
  <2>1. current_process = p
    BY CurrentExecutes DEF Executes
  <2> QED
    BY <1>2, <2>1 DEF IInv, OwnContext, listVars, Executes
<1>9. Suspended'
  <2>1. Elems(ready_list) \cup Elems(blocked_list) \subseteq Pid \ {p}
    BY CurrentExecutes DEF Executes, IInv, OnePlace, Live
  <2> QED
    BY <1>2, <2>1 DEF IInv, Suspended, listVars, Executes
<1> QED
  BY <1>1, <1>4, <1>5, <1>6, <1>7, <1>8, <1>9 DEF IInv

-----------------------------------------------------------------------------
(***************************************************************************)
(* The invariant holds initially and each action preserves it.             *)
(***************************************************************************)
LEMMA InitLemma == Init => IInv
<1> SUFFICES ASSUME Init PROVE IInv
  OBVIOUS
<1> USE SchedAssumption
<1>1. TypeOK
  <2>1. ready_list \in Seq(Pid) /\ blocked_list \in Seq(Pid)
    BY EmptyLemma DEF Init
  <2>2. next_pid \in 1 .. MAX_PROC_NUM /\ count_down \in 1 .. SLICE
    BY DEF Init
  <2> QED
    BY <2>1, <2>2 DEF Init, TypeOK, Flow
<1>2. Live = {} /\ Elems(ready_list) = {} /\ Elems(blocked_list) = {}
  BY EmptyLemma DEF Init, Live, Pid
<1>3. Numbering /\ Boot /\ NoStrayWaiter
  BY DEF Init, Numbering, Boot, NoStrayWaiter, Pid
<1>4. OnePlace /\ StatusMatchesPlace
  BY <1>2, EmptyLemma DEF Init, OnePlace, StatusMatchesPlace, Current
<1>5. OwnContext /\ InterruptFlag /\ Suspended
  BY <1>2 DEF Init, OwnContext, InterruptFlag, Suspended, Pid
<1> QED
  BY <1>1, <1>3, <1>4, <1>5 DEF IInv

\* The structure of the shell is prepared before anything is registered.
LEMMA InitProcessLemma == IInv /\ init_process => IInv'
<1> SUFFICES ASSUME IInv, init_process PROVE IInv'
  OBVIOUS
<1> USE SchedAssumption
<1>1. /\ next_pid = 1 /\ 1 \in Pid /\ next_pid' = 2
      /\ cpu = Kernel /\ current_process = NULL
      /\ ready_list = <<>> /\ blocked_list = <<>>
  BY DEF IInv, Boot, init_process, Pid
<1>2. /\ process_list' = process_list
      /\ at' = [at EXCEPT ![1] = "user"]
      /\ boot' = "add_process"
      /\ \A q \in Pid : process_list[q] = NULL
  BY <1>1 DEF IInv, Numbering, Pid, init_process, TypeOK
<1>3. TypeOK'
  BY <1>1 DEF IInv, TypeOK, init_process, NewProcess, Pid, Flow
<1>4. Live' = {} /\ Elems(ready_list') = {} /\ Elems(blocked_list') = {}
  <2>1. ready_list' = <<>> /\ blocked_list' = <<>>
    BY <1>1 DEF init_process
  <2>2. Live' = {}
    BY <1>2 DEF Live
  <2> QED
    BY <2>1, <2>2, EmptyLemma
<1>5. Numbering'
  BY <1>1, <1>2 DEF IInv, Numbering, TypeOK, Pid
<1>6. Boot'
  BY <1>1, <1>2 DEF IInv, TypeOK, Boot, init_process, NewProcess
<1>7. NoStrayWaiter'
  BY <1>1, <1>2 DEF IInv, NoStrayWaiter, TypeOK, Live, init_process, NewProcess
<1>8. OnePlace' /\ StatusMatchesPlace'
  BY <1>1, <1>4, EmptyLemma DEF OnePlace, StatusMatchesPlace, Current, init_process
<1>9. OwnContext' /\ Suspended'
  BY <1>1, <1>4 DEF IInv, OwnContext, Suspended, init_process, Executes
<1>10. InterruptFlag'
  BY <1>1 DEF IInv, InterruptFlag, init_process, Pid
<1> QED
  BY <1>3, <1>5, <1>6, <1>7, <1>8, <1>9, <1>10 DEF IInv

\* Registering the shell makes it the one ready process.
LEMMA ExecProgramLemma == IInv /\ exec_program => IInv'
<1> SUFFICES ASSUME IInv, exec_program PROVE IInv'
  OBVIOUS
<1> USE SchedAssumption
<1>1. /\ next_pid = 2 /\ 1 \in Pid
      /\ cpu = Kernel /\ current_process = NULL
      /\ ready_list = <<>> /\ blocked_list = <<>>
      /\ at[1] = "user" /\ status[1] = "READY" /\ block_event[1] = "WNONE" /\ esp[1] = 1
  BY DEF IInv, TypeOK, Boot, exec_program, Pid
<1>2. /\ process_list' = [process_list EXCEPT ![1] = 1]
      /\ ready_list' = sched_enqueue(<<>>, 1)
      /\ boot' = "idle"
      /\ \A q \in Pid : process_list[q] = NULL
  BY <1>1 DEF IInv, Numbering, TypeOK, Pid, exec_program, add_process
<1>3. /\ ready_list' \in Seq(Pid) /\ NoDup(ready_list')
      /\ Elems(ready_list') = {1}
  BY <1>1, <1>2, EnqueueLemma, EmptyLemma
<1>4. /\ UNCHANGED <<procVars, blocked_list, next_pid, current_process, cpu,
                     stored_esp, IFlag, in_service, count_down>>
      /\ Elems(blocked_list') = {} /\ NoDup(blocked_list')
  BY <1>1, EmptyLemma DEF exec_program
<1>5. TypeOK'
  BY <1>1, <1>2, <1>3, <1>4 DEF IInv, TypeOK, procVars, Pid
<1>6. Live' = {1}
  BY <1>1, <1>2, <1>4 DEF Live, procVars, IInv, TypeOK, Pid
<1>7. Numbering' /\ Boot'
  BY <1>1, <1>2, <1>4 DEF IInv, Numbering, Boot, TypeOK, Pid, procVars, exec_program
<1>8. NoStrayWaiter'
  BY <1>1, <1>2, <1>4, <1>6 DEF IInv, NoStrayWaiter, Live, procVars
<1>9. OnePlace'
  BY <1>1, <1>3, <1>4, <1>6 DEF OnePlace, Current
<1>10. StatusMatchesPlace'
  BY <1>1, <1>3, <1>4, <1>6 DEF StatusMatchesPlace, procVars
<1>11. OwnContext' /\ InterruptFlag' /\ Suspended'
  <2>1. user_IF[1]
    BY DEF IInv, Boot, exec_program
  <2> QED
    BY <1>1, <1>3, <1>4, <2>1
    DEF IInv, OwnContext, InterruptFlag, Suspended, procVars, exec_program, Executes
<1> QED
  BY <1>5, <1>7, <1>8, <1>9, <1>10, <1>11 DEF IInv

\* Leaving fork moves the executing process from the kernel to its user code.
LEMMA ForkReturnLemma ==
  ASSUME IInv, NEW p \in Pid, fork_return(p)
  PROVE  IInv'
<1>1. status[p] # "BLOCKED"
  BY CurrentExecutes DEF fork_return, Executes, IInv, StatusMatchesPlace
<1>2. /\ InterruptFlag' /\ IFlag' \in BOOLEAN /\ user_IF' \in [Pid -> BOOLEAN]
      /\ \A q \in Pid \ {p} : user_IF'[q] = user_IF[q]
  BY DEF fork_return, BackToUser, Executes, IInv, TypeOK, InterruptFlag
<1> QED
  BY <1>1, <1>2, PlainStep DEF fork_return, BackToUser

\* Leaving waitpid moves the executing process, READY again, to its user code.
LEMMA WaitpidReturnLemma ==
  ASSUME IInv, NEW p \in Pid, waitpid_return(p)
  PROVE  IInv'
<1>1. status[p] # "BLOCKED"
  BY CurrentExecutes DEF waitpid_return, Executes
<1>2. /\ InterruptFlag' /\ IFlag' \in BOOLEAN /\ user_IF' \in [Pid -> BOOLEAN]
      /\ \A q \in Pid \ {p} : user_IF'[q] = user_IF[q]
  BY DEF waitpid_return, BackToUser, Executes, IInv, TypeOK, InterruptFlag
<1> QED
  BY <1>1, <1>2, PlainStep DEF waitpid_return, BackToUser

\* Leaving read moves the executing process from the kernel to its user code.
LEMMA ReadReturnLemma ==
  ASSUME IInv, NEW p \in Pid, read_return(p)
  PROVE  IInv'
<1>1. status[p] # "BLOCKED"
  BY CurrentExecutes DEF read_return, Executes, IInv, StatusMatchesPlace
<1>2. /\ InterruptFlag' /\ IFlag' \in BOOLEAN /\ user_IF' \in [Pid -> BOOLEAN]
      /\ \A q \in Pid \ {p} : user_IF'[q] = user_IF[q]
  BY DEF read_return, BackToUser, Executes, IInv, TypeOK, InterruptFlag
<1> QED
  BY <1>1, <1>2, PlainStep DEF read_return, BackToUser

\* tty_read is entered with interrupts on, by the current process only.
LEMMA ReadLemma ==
  ASSUME IInv, NEW p \in Pid, sys_read(p)
  PROVE  IInv'
<1>1. status[p] # "BLOCKED"
  BY CurrentExecutes DEF sys_read, UserCode, Executes, IInv, StatusMatchesPlace
<1>2. /\ InterruptFlag' /\ IFlag' \in BOOLEAN /\ user_IF' \in [Pid -> BOOLEAN]
      /\ \A q \in Pid \ {p} : user_IF'[q] = user_IF[q]
  BY DEF sys_read, UserCode, EnableAt, Executes, IInv, TypeOK, InterruptFlag
<1> QED
  BY <1>1, <1>2, PlainStep DEF sys_read, UserCode, EnableAt

\* execve turns interrupts off for the executing process and for no other.
LEMMA ExecveLemma ==
  ASSUME IInv, NEW p \in Pid, sys_execve(p)
  PROVE  IInv'
<1>1. status[p] # "BLOCKED"
  BY CurrentExecutes DEF sys_execve, UserCode, Executes, IInv, StatusMatchesPlace
<1>2. /\ InterruptFlag' /\ IFlag' \in BOOLEAN /\ user_IF' \in [Pid -> BOOLEAN]
      /\ \A q \in Pid \ {p} : user_IF'[q] = user_IF[q]
  BY DEF sys_execve, UserCode, Executes, IInv, TypeOK, InterruptFlag
<1>3. at' = [at EXCEPT ![p] = "user"]
  BY DEF sys_execve, UserCode, IInv, TypeOK
<1> QED
  BY <1>1, <1>2, <1>3, PlainStep DEF sys_execve, UserCode

\* The sti of a program concerns the executing process only.
LEMMA StiLemma ==
  ASSUME IInv, NEW p \in Pid, sti(p)
  PROVE  IInv'
<1>1. status[p] # "BLOCKED"
  BY CurrentExecutes DEF sti, UserCode, Executes, IInv, StatusMatchesPlace
<1>2. /\ InterruptFlag' /\ IFlag' \in BOOLEAN /\ user_IF' \in [Pid -> BOOLEAN]
      /\ \A q \in Pid \ {p} : user_IF'[q] = user_IF[q]
  BY DEF sti, UserCode, Executes, IInv, TypeOK, InterruptFlag
<1>3. at' = [at EXCEPT ![p] = "user"]
  BY DEF sti, UserCode, IInv, TypeOK
<1> QED
  BY <1>1, <1>2, <1>3, PlainStep DEF sti, UserCode

\* sys_waitpid writes BLOCKED to the current process, which is in no list.
LEMMA WaitpidLemma ==
  ASSUME IInv, NEW p \in Pid, sys_waitpid(p)
  PROVE  IInv'
<1>1. /\ current_process = p /\ boot = "idle" /\ p \in Live
      /\ p \notin Elems(ready_list) \cup Elems(blocked_list)
  BY CurrentExecutes DEF sys_waitpid, UserCode, Executes
<1>2. /\ status' = [status EXCEPT ![p] = "BLOCKED"]
      /\ block_event' = [block_event EXCEPT ![p] = "WCHILD"]
      /\ at' = [at EXCEPT ![p] = "waitpid"]
      /\ UNCHANGED <<listVars, parent_id, esp, user_IF, current_process, cpu, boot,
                     stored_esp, in_service, count_down>>
      /\ IFlag' = TRUE /\ ~in_service /\ cpu = p /\ at[p] = "user"
  BY <1>1 DEF sys_waitpid, EnableAt, UserCode, Executes
<1>3. /\ \A q \in Pid : q # p => /\ at'[q] = at[q] /\ status'[q] = status[q]
                                 /\ block_event'[q] = block_event[q]
      /\ at'[p] = "waitpid" /\ status'[p] = "BLOCKED" /\ block_event'[p] = "WCHILD"
  BY <1>2 DEF IInv, TypeOK
<1>4. TypeOK'
  BY <1>2 DEF IInv, TypeOK, listVars
<1>5. Live' = Live
  BY <1>2, <1>3 DEF Live, listVars
<1>6. Numbering' /\ Boot'
  BY <1>1, <1>2, <1>3 DEF IInv, Numbering, Boot, listVars
<1>7. NoStrayWaiter'
  BY <1>1, <1>3, <1>5 DEF IInv, NoStrayWaiter
<1>8. OnePlace'
  BY <1>2, <1>5 DEF IInv, OnePlace, Current, listVars
<1>9. StatusMatchesPlace'
  BY <1>1, <1>2, <1>3, <1>5 DEF IInv, StatusMatchesPlace, listVars
<1>10. OwnContext' /\ InterruptFlag'
  BY <1>1, <1>2, <1>3 DEF IInv, OwnContext, InterruptFlag, listVars
<1>11. Suspended'
  <2>1. Elems(ready_list) \cup Elems(blocked_list) \subseteq Pid
    BY DEF IInv, OnePlace, Live
  <2> QED
    BY <1>1, <1>2, <1>3, <2>1 DEF IInv, Suspended, listVars
<1> QED
  BY <1>4, <1>6, <1>7, <1>8, <1>9, <1>10, <1>11 DEF IInv

\* fork registers the next pid, whose slot of process_list is free.
LEMMA ForkLemma ==
  ASSUME IInv, NEW p \in Pid, sys_fork(p)
  PROVE  IInv'
<1> DEFINE c == next_pid
<1>1. /\ current_process = p /\ boot = "idle" /\ p \in Live
      /\ p \notin Elems(ready_list) \cup Elems(blocked_list)
  BY CurrentExecutes DEF sys_fork, UserCode, Executes
<1>2. /\ c \in Pid /\ process_list[c] = NULL /\ at[c] = "none" /\ c # p
      /\ c \notin Live /\ status[p] # "BLOCKED"
  BY <1>1 DEF IInv, Numbering, StatusMatchesPlace, sys_fork, PidBound, UserCode,
              Live, Pid
<1>3. c \notin Elems(ready_list) \cup Elems(blocked_list)
  BY <1>2 DEF IInv, OnePlace
<1>4. /\ process_list' = [process_list EXCEPT ![c] = c]
      /\ ready_list' = sched_enqueue(ready_list, c)
      /\ next_pid' = c + 1
      /\ at' = [at EXCEPT ![p] = "fork_end", ![c] = "fork_end"]
      /\ parent_id' = [parent_id EXCEPT ![c] = p]
      /\ status' = [status EXCEPT ![c] = "READY"]
      /\ block_event' = [block_event EXCEPT ![c] = "WNONE"]
      /\ esp' = [esp EXCEPT ![c] = c]
      /\ user_IF' = [user_IF EXCEPT ![c] = user_IF[p]]
      /\ UNCHANGED <<blocked_list, current_process, cpu, boot, in_service, count_down>>
      /\ IFlag' = TRUE /\ ~in_service /\ cpu = p /\ at[p] = "user" /\ stored_esp' = p
  BY <1>1, <1>2 DEF sys_fork, NewProcess, add_process, UserCode, Executes
<1>5. /\ ready_list' \in Seq(Pid) /\ NoDup(ready_list')
      /\ Elems(ready_list') = Elems(ready_list) \cup {c}
      /\ Elems(blocked_list') = Elems(blocked_list) /\ NoDup(blocked_list')
  BY <1>2, <1>3, <1>4, EnqueueLemma DEF IInv, OnePlace, TypeOK
<1> HIDE DEF c
<1>6. /\ \A q \in Pid \ {c} :
           /\ process_list'[q] = process_list[q] /\ status'[q] = status[q]
           /\ block_event'[q] = block_event[q] /\ esp'[q] = esp[q]
           /\ q # p => at'[q] = at[q]
           /\ user_IF'[q] = user_IF[q]
      /\ process_list'[c] = c /\ status'[c] = "READY" /\ block_event'[c] = "WNONE"
      /\ esp'[c] = c /\ at'[c] = "fork_end" /\ at'[p] = "fork_end"
  BY <1>2, <1>4 DEF IInv, TypeOK, Pid
<1>7. TypeOK'
  <2>1. next_pid' \in 1 .. MAX_PROC_NUM
    BY <1>2, <1>4, SchedAssumption DEF Pid
  <2>2. process_list' \in [0 .. MAX_PROC_NUM - 1 -> Pid \cup {NULL}]
    BY <1>2, <1>4 DEF IInv, TypeOK
  <2> QED
    BY <1>2, <1>4, <1>5, <2>1, <2>2 DEF IInv, TypeOK, Flow
<1>8. Live' = Live \cup {c}
  <2>1. \A q \in Pid \ {c} : q \in Live' <=> q \in Live
    BY <1>4, <1>6 DEF Live
  <2>2. c # NULL
    BY <1>2, SchedAssumption DEF Pid
  <2>3. c \in Live'
    BY <1>2, <1>6, <2>2 DEF Live
  <2> QED
    BY <2>1, <2>3 DEF Live
<1>9. Numbering' /\ Boot'
  <2>1. process_list'[0] = NULL
    BY <1>2, <1>4, SchedAssumption DEF IInv, Numbering, TypeOK, Pid
  <2>2. \A q \in Pid : q < next_pid' <=> q < next_pid \/ q = c
    BY <1>4 DEF IInv, TypeOK, Pid, c
  <2> QED
    BY <1>1, <1>2, <1>4, <1>6, <2>1, <2>2, SchedAssumption
    DEF IInv, Numbering, Boot, Pid, c, TypeOK
<1>10. NoStrayWaiter'
  BY <1>6, <1>8 DEF IInv, NoStrayWaiter
<1>11. OnePlace'
  BY <1>1, <1>2, <1>3, <1>4, <1>5, <1>8 DEF IInv, OnePlace, Current
<1>12. StatusMatchesPlace'
  <2> SUFFICES ASSUME NEW q \in Live'
               PROVE  /\ status'[q] = "READY" <=> q \in Elems(ready_list')
                      /\ q \in Elems(blocked_list') => status'[q] = "BLOCKED"
                      /\ status'[q] = "BLOCKED" <=> block_event'[q] = "WCHILD"
                      /\ status'[q] = "BLOCKED" => at'[q] = "waitpid"
    BY DEF StatusMatchesPlace
  <2>1. CASE q = c
    BY <1>3, <1>5, <1>6, <2>1
  <2>2. CASE q # c
    <3>1. q \in Live /\ q \in Pid \ {c}
      BY <1>8, <2>2 DEF Live
    <3>2. /\ status'[q] = status[q] /\ block_event'[q] = block_event[q]
          /\ status[q] = "BLOCKED" => at'[q] = at[q]
      BY <1>2, <1>6, <3>1
    <3> QED
      BY <1>5, <2>2, <3>1, <3>2 DEF IInv, StatusMatchesPlace
  <2> QED
    BY <2>1, <2>2
<1>13. OwnContext'
  BY <1>1, <1>4, <1>5, <1>6, SchedAssumption DEF IInv, OwnContext, OnePlace, Pid
<1>14. InterruptFlag'
  BY <1>4, <1>6 DEF InterruptFlag
<1>15. Suspended'
  <2>1. Elems(ready_list) \cup Elems(blocked_list) \subseteq Pid \ {p, c}
    BY <1>1, <1>3 DEF IInv, OnePlace, Live
  <2>2. ASSUME NEW q \in Elems(ready_list') \cup Elems(blocked_list'), at'[q] = "user"
        PROVE  user_IF'[q]
    <3>1. q \in Pid \ {p, c} /\ q \in Elems(ready_list) \cup Elems(blocked_list)
      BY <1>5, <1>6, <2>1, <2>2
    <3>2. at[q] = "user" /\ user_IF'[q] = user_IF[q]
      BY <1>6, <2>2, <3>1
    <3> QED
      BY <3>1, <3>2 DEF IInv, Suspended
  <2> QED
    BY <1>4, <2>2 DEF Suspended
<1> QED
  BY <1>7, <1>9, <1>10, <1>11, <1>12, <1>13, <1>14, <1>15 DEF IInv

\* A parent that sys_exit wakes is in blocked_list: it is not current, since
\* the current process executes user code.
LEMMA WokenParent ==
  ASSUME IInv, NEW p \in Pid, cpu = p, at[p] = "user",
         NEW r \in Pid, status[r] = "BLOCKED"
  PROVE  r \in Live /\ r # p /\ r \in Elems(blocked_list)
<1>1. current_process = p /\ p \in Live
  BY CurrentExecutes
<1>2. r \in Live
  BY DEF IInv, NoStrayWaiter
<1>3. r # p
  BY <1>1 DEF IInv, StatusMatchesPlace
<1>4. r \notin Elems(ready_list)
  BY <1>2 DEF IInv, StatusMatchesPlace
<1> QED
  BY <1>1, <1>2, <1>3, <1>4 DEF IInv, OnePlace, Current

\* sys_exit takes the exiting process out of every place and wakes its parent.
LEMMA ExitLemma ==
  ASSUME IInv, NEW p \in Pid, sys_exit(p)
  PROVE  IInv'
<1> DEFINE r == process_list[parent_id[p]]
           wakes == r # NULL /\ status[r] = "BLOCKED" /\ block_event[r] = "WCHILD"
<1>1. /\ current_process = p /\ boot = "idle" /\ p \in Live
      /\ p \notin Elems(ready_list) \cup Elems(blocked_list)
      /\ status[p] # "BLOCKED" /\ block_event[p] # "WCHILD"
  BY CurrentExecutes DEF sys_exit, UserCode, Executes, IInv, StatusMatchesPlace
<1>2. /\ WakeParent(r)
      /\ current_process' = NULL
      /\ at' = [at EXCEPT ![p] = "exit"]
      /\ UNCHANGED <<process_list, next_pid, parent_id, esp, user_IF, cpu, boot,
                     stored_esp, in_service, count_down>>
      /\ IFlag' = TRUE /\ ~in_service /\ cpu = p /\ at[p] = "user"
  BY <1>1 DEF sys_exit, UserCode, Executes, EnableAt
<1>3. r \in Pid \cup {NULL}
  BY SchedAssumption DEF IInv, TypeOK, Pid
<1>4. \A q \in Pid : at'[q] = IF q = p THEN "exit" ELSE at[q]
  BY <1>2 DEF IInv, TypeOK
<1>5. Live' = Live \ {p}
  BY <1>2, <1>4 DEF Live
<1>6. /\ ready_list' \in Seq(Pid) /\ NoDup(ready_list')
      /\ blocked_list' \in Seq(Pid) /\ NoDup(blocked_list')
      /\ Elems(ready_list') = Elems(ready_list) \cup (IF wakes THEN {r} ELSE {})
      /\ Elems(blocked_list') = Elems(blocked_list) \ (IF wakes THEN {r} ELSE {})
      /\ wakes => r \in Live /\ r # p /\ r \in Elems(blocked_list)
      /\ status' = IF wakes THEN [status EXCEPT ![r] = "READY"] ELSE status
      /\ block_event' = IF wakes THEN [block_event EXCEPT ![r] = "WNONE"]
                                 ELSE block_event
  <2>1. CASE wakes
    <3>1. r \in Pid /\ r \in Live /\ r # p /\ r \in Elems(blocked_list)
      BY <1>2, <1>3, <2>1, WokenParent
    <3>2. r \notin Elems(ready_list)
      BY <3>1 DEF IInv, OnePlace
    <3>3. /\ blocked_list' = sched_remove(blocked_list, r)
          /\ ready_list' = sched_enqueue(ready_list, r)
          /\ status' = [status EXCEPT ![r] = "READY"]
          /\ block_event' = [block_event EXCEPT ![r] = "WNONE"]
      BY <1>2, <2>1 DEF WakeParent
    <3> QED
      BY <2>1, <3>1, <3>2, <3>3, EnqueueLemma, RemoveLemma
      DEF IInv, TypeOK, OnePlace
  <2>2. CASE ~wakes
    BY <1>2, <2>2 DEF WakeParent, IInv, TypeOK, OnePlace
  <2> QED
    BY <2>1, <2>2
<1> HIDE DEF r, wakes
<1>7. TypeOK'
  BY <1>2, <1>3, <1>6 DEF IInv, TypeOK
<1>8. Numbering' /\ Boot'
  BY <1>1, <1>2, <1>4 DEF IInv, Numbering, Boot
<1>9. \A q \in Pid :
        /\ status'[q] = IF wakes /\ q = r THEN "READY" ELSE status[q]
        /\ block_event'[q] = IF wakes /\ q = r THEN "WNONE" ELSE block_event[q]
  BY <1>6 DEF IInv, TypeOK
<1>10. NoStrayWaiter'
  BY <1>1, <1>5, <1>6, <1>9 DEF IInv, NoStrayWaiter
<1>11. OnePlace'
  BY <1>1, <1>2, <1>5, <1>6 DEF IInv, OnePlace, Current
<1>12. StatusMatchesPlace'
  <2> SUFFICES ASSUME NEW q \in Live'
               PROVE  /\ status'[q] = "READY" <=> q \in Elems(ready_list')
                      /\ q \in Elems(blocked_list') => status'[q] = "BLOCKED"
                      /\ status'[q] = "BLOCKED" <=> block_event'[q] = "WCHILD"
                      /\ status'[q] = "BLOCKED" => at'[q] = "waitpid"
    BY DEF StatusMatchesPlace
  <2>1. q \in Live /\ q \in Pid /\ at'[q] = at[q]
    BY <1>4, <1>5 DEF Live
  <2>2. CASE wakes /\ q = r
    BY <1>6, <1>9, <2>1, <2>2
  <2>3. CASE ~(wakes /\ q = r)
    BY <1>6, <1>9, <2>1, <2>3 DEF IInv, StatusMatchesPlace
  <2> QED
    BY <2>2, <2>3
<1>13. OwnContext'
  BY <1>1, <1>2, <1>4, <1>6 DEF IInv, OwnContext
<1>14. InterruptFlag'
  BY <1>2, <1>4 DEF InterruptFlag
<1>15. Suspended'
  <2>1. Elems(ready_list) \cup Elems(blocked_list) \subseteq Pid \ {p}
    BY <1>1 DEF IInv, OnePlace, Live
  <2>2. Elems(ready_list') \cup Elems(blocked_list')
          \subseteq Elems(ready_list) \cup Elems(blocked_list)
    BY <1>6
  <2> QED
    BY <1>2, <1>4, <2>1, <2>2 DEF IInv, Suspended
<1> QED
  BY <1>7, <1>8, <1>10, <1>11, <1>12, <1>13, <1>14, <1>15 DEF IInv

\* The timer entry records the frame of the flow that executes.
LEMMA TimerEntryLemma == IInv /\ int_20_timer => IInv'
<1> SUFFICES ASSUME IInv, int_20_timer PROVE IInv'
  OBVIOUS
<1> USE DEF int_20_timer, procVars, listVars
<1>1. TypeOK'
  BY DEF IInv, TypeOK
<1>2. Live' = Live
  BY DEF Live
<1>3. Numbering' /\ Boot' /\ NoStrayWaiter'
  BY <1>2 DEF IInv, Numbering, Boot, NoStrayWaiter
<1>4. OnePlace' /\ StatusMatchesPlace'
  BY <1>2 DEF IInv, OnePlace, StatusMatchesPlace, Current
<1>5. OwnContext' /\ InterruptFlag' /\ Suspended'
  BY DEF IInv, OwnContext, InterruptFlag, Suspended
<1> QED
  BY <1>1, <1>3, <1>4, <1>5 DEF IInv

(***************************************************************************)
(* What a switch does, in terms of the places of processes: Served gets    *)
(* the CPU and the current process, if there is one, waits or goes on.     *)
(***************************************************************************)
Served == Head(ready_list)
Waiting == {p \in Current : status[p] = "BLOCKED"}
GoingOn == {p \in Current : status[p] # "BLOCKED"}

SwitchDone ==
  /\ Served \in Pid /\ Served \in Elems(ready_list) /\ Served # current_process
  /\ current_process' = Served /\ cpu' = Served
  /\ ready_list' \in Seq(Pid) /\ NoDup(ready_list')
  /\ blocked_list' \in Seq(Pid) /\ NoDup(blocked_list')
  /\ Elems(ready_list') = (Elems(ready_list) \ {Served}) \cup GoingOn
  /\ Elems(blocked_list') = Elems(blocked_list) \cup Waiting
  /\ status' \in [Pid -> {"RUNNING", "READY", "BLOCKED"}]
  /\ \A q \in Pid : status'[q] = IF q = Served THEN "RUNNING"
                                 ELSE IF q \in GoingOn THEN "READY" ELSE status[q]
  /\ esp' \in [Pid -> Flow \cup {NULL}]
  /\ \A q \in Pid : esp'[q] = IF q = current_process THEN q ELSE esp[q]
  /\ UNCHANGED <<process_list, next_pid, parent_id, block_event, at, user_IF>>

\* What a switch does, with the process served and the list it came from.
LEMMA SwitchLemma ==
  ASSUME IInv, handle_int_20_timer, count_down = 1, ready_list # <<>>
  PROVE  SwitchDone
<1> DEFINE cur == current_process
           n == Served
           goesOn == cur # NULL /\ status[cur] # "BLOCKED"
           waits == cur # NULL /\ status[cur] = "BLOCKED"
           queue == IF goesOn THEN sched_enqueue(ready_list, cur) ELSE ready_list
<1>1. /\ cur \in Pid \cup {NULL} /\ NULL \notin Pid
      /\ ready_list \in Seq(Pid) /\ blocked_list \in Seq(Pid)
      /\ cur \notin Elems(ready_list) \cup Elems(blocked_list)
      /\ NoDup(ready_list) /\ NoDup(blocked_list)
  <2>1. NULL \notin Pid
    BY SchedAssumption DEF Pid
  <2>2. cur # NULL => cur \notin Elems(ready_list) \cup Elems(blocked_list)
    BY DEF IInv, OnePlace, Current
  <2>3. Elems(ready_list) \cup Elems(blocked_list) \subseteq Pid
    BY DEF IInv, OnePlace, Live
  <2> QED
    BY <2>1, <2>2, <2>3 DEF IInv, OnePlace, TypeOK
<1>2. n \in Pid /\ n \in Elems(ready_list) /\ n # cur
  BY <1>1, ServeLemma DEF Served
<1>3. /\ queue \in Seq(Pid) /\ queue # <<>> /\ NoDup(queue) /\ Head(queue) = n
      /\ Elems(queue) = Elems(ready_list) \cup GoingOn
  <2>1. CASE goesOn
    <3>1. GoingOn = {cur}
      BY <2>1 DEF GoingOn, Current
    <3> QED
      BY <1>1, <2>1, <3>1, EnqueueLemma DEF Served
  <2>2. CASE ~goesOn
    <3>1. GoingOn = {}
      BY <2>2 DEF GoingOn, Current
    <3> QED
      BY <1>1, <2>2, <3>1 DEF Served
  <2> QED
    BY <2>1, <2>2
<1>4. force_switch /\ in_service
  BY DEF handle_int_20_timer
<1>5. /\ ready_list' = Tail(queue)
      /\ blocked_list' = IF waits THEN sched_enqueue(blocked_list, cur) ELSE blocked_list
      /\ status' = [q \in Pid |-> IF q = Head(queue) THEN "RUNNING"
                                  ELSE IF goesOn /\ q = cur THEN "READY"
                                  ELSE status[q]]
      /\ esp' = IF cur = NULL THEN esp ELSE [esp EXCEPT ![cur] = stored_esp]
      /\ current_process' = Head(queue)
      /\ cpu' = esp'[Head(queue)]
      /\ UNCHANGED <<process_list, next_pid, parent_id, block_event, at, user_IF>>
  BY <1>4, Zenon DEF force_switch
<1> HIDE DEF queue
<1>6. /\ ready_list' \in Seq(Pid) /\ NoDup(ready_list')
      /\ Elems(ready_list') = (Elems(ready_list) \ {n}) \cup GoingOn
  <2>1. n \notin GoingOn
    BY <1>2 DEF GoingOn, Current
  <2> QED
    BY <1>3, <1>5, <2>1, ServeLemma
<1>7. /\ blocked_list' \in Seq(Pid) /\ NoDup(blocked_list')
      /\ Elems(blocked_list') = Elems(blocked_list) \cup Waiting
  <2>1. Waiting = IF waits THEN {cur} ELSE {}
    BY DEF Waiting, Current
  <2> QED
    BY <1>1, <1>5, <2>1, EnqueueLemma
<1>8. cur # NULL => stored_esp = cur
  BY <1>4 DEF IInv, OwnContext
<1>9. /\ esp' \in [Pid -> Flow \cup {NULL}]
      /\ \A q \in Pid : esp'[q] = IF q = cur THEN q ELSE esp[q]
  BY <1>1, <1>5, <1>8 DEF IInv, TypeOK, Flow
<1>10. cpu' = n /\ current_process' = n
  BY <1>2, <1>3, <1>5, <1>9 DEF IInv, OwnContext
<1>11. /\ status' \in [Pid -> {"RUNNING", "READY", "BLOCKED"}]
       /\ \A q \in Pid : status'[q] = IF q = n THEN "RUNNING"
                                      ELSE IF q \in GoingOn THEN "READY" ELSE status[q]
  <2>1. \A q : q \in GoingOn <=> goesOn /\ q = cur
    BY DEF GoingOn, Current
  <2> QED
    BY <1>3, <1>5, <2>1 DEF IInv, TypeOK
<1> QED
  BY <1>2, <1>5, <1>6, <1>7, <1>9, <1>10, <1>11 DEF SwitchDone

\* The timer handler, with a switch and without one.
LEMMA TimerHandlerLemma == IInv /\ handle_int_20_timer => IInv'
<1> SUFFICES ASSUME IInv, handle_int_20_timer PROVE IInv'
  OBVIOUS
<1>1. /\ in_service /\ in_service' = FALSE /\ IFlag' = TRUE
      /\ UNCHANGED <<boot, stored_esp>>
  BY DEF handle_int_20_timer
<1>2. count_down' \in 1 .. SLICE
  BY SchedAssumption DEF handle_int_20_timer, IInv, TypeOK
<1>3. CASE count_down = 1 /\ ready_list # <<>>
  <2> DEFINE n == Served
             cur == current_process
  <2>1. SwitchDone
    BY <1>3, SwitchLemma
  <2>2. /\ cur \in Pid \cup {NULL} /\ NULL \notin Pid
        /\ n \in Pid /\ n # NULL /\ n # Kernel /\ n # cur
        /\ n \in Elems(ready_list)
    BY <2>1, SchedAssumption DEF SwitchDone, IInv, TypeOK, Pid
  <2>3. /\ Current = GoingOn \cup Waiting /\ Current' = {n}
        /\ n \notin Current
    BY <2>1, <2>2 DEF SwitchDone, Current, GoingOn, Waiting
  <2>4. Live' = Live /\ n \in Live /\ Current \subseteq Live
    BY <2>1, <2>2 DEF SwitchDone, Live, IInv, OnePlace
  <2>5. TypeOK'
    BY <1>1, <1>2, <2>1, <2>2 DEF SwitchDone, IInv, TypeOK, Flow
  <2>6. Numbering' /\ Boot'
    BY <1>1, <1>3, <2>1 DEF SwitchDone, IInv, Numbering, Boot
  <2>7. NoStrayWaiter'
    BY <2>1, <2>3, <2>4 DEF SwitchDone, IInv, NoStrayWaiter
  <2>8. OnePlace'
    <3>1. /\ Elems(ready_list') = (Elems(ready_list) \ {n}) \cup GoingOn
          /\ Elems(blocked_list') = Elems(blocked_list) \cup Waiting
          /\ NoDup(ready_list') /\ NoDup(blocked_list')
      BY <2>1 DEF SwitchDone
    <3>2. GoingOn \cap Waiting = {}
      BY DEF GoingOn, Waiting
    <3>3. /\ Elems(ready_list) \cap Elems(blocked_list) = {}
          /\ Current \cap (Elems(ready_list) \cup Elems(blocked_list)) = {}
          /\ Current \cup Elems(ready_list) \cup Elems(blocked_list) = Live
      BY DEF IInv, OnePlace
    <3>4. /\ Elems(ready_list') \cap Elems(blocked_list') = {}
          /\ Current' \cap (Elems(ready_list') \cup Elems(blocked_list')) = {}
      BY <2>2, <2>3, <3>1, <3>2, <3>3
    <3>5. Current' \cup Elems(ready_list') \cup Elems(blocked_list') = Live'
      BY <2>2, <2>3, <2>4, <3>1, <3>3
    <3> QED
      BY <3>1, <3>4, <3>5 DEF OnePlace
  <2>9. StatusMatchesPlace'
    <3> SUFFICES ASSUME NEW q \in Live
                 PROVE  /\ status'[q] = "READY" <=> q \in Elems(ready_list')
                        /\ q \in Elems(blocked_list') => status'[q] = "BLOCKED"
                        /\ status'[q] = "BLOCKED" <=> block_event'[q] = "WCHILD"
                        /\ status'[q] = "BLOCKED" => at'[q] = "waitpid"
      BY <2>4 DEF StatusMatchesPlace
    <3>1. /\ q \in Pid /\ block_event'[q] = block_event[q] /\ at'[q] = at[q]
          /\ status[q] = "READY" <=> q \in Elems(ready_list)
          /\ q \in Elems(blocked_list) => status[q] = "BLOCKED"
          /\ status[q] = "BLOCKED" <=> block_event[q] = "WCHILD"
          /\ status[q] = "BLOCKED" => at[q] = "waitpid"
      BY <2>1 DEF SwitchDone, Live, IInv, StatusMatchesPlace
    <3>2. /\ status'[q] = IF q = n THEN "RUNNING"
                          ELSE IF q \in GoingOn THEN "READY" ELSE status[q]
          /\ q \in Elems(ready_list') <=> (q \in Elems(ready_list) /\ q # n) \/ q \in GoingOn
          /\ q \in Elems(blocked_list') <=> q \in Elems(blocked_list) \/ q \in Waiting
      BY <2>1, <3>1 DEF SwitchDone
    <3>3. CASE q = n
      <4>1. q \notin GoingOn /\ q \notin Waiting /\ status[q] = "READY"
        BY <2>2, <2>3, <3>1, <3>3
      <4> QED
        BY <3>1, <3>2, <3>3, <4>1
    <3>4. CASE q \in GoingOn
      <4>1. q # n /\ status[q] # "BLOCKED" /\ q \notin Waiting
        BY <2>3, <3>4 DEF GoingOn, Waiting
      <4> QED
        BY <3>1, <3>2, <3>4, <4>1
    <3>5. CASE q # n /\ q \notin GoingOn
      <4>1. q \in Waiting => status[q] = "BLOCKED"
        BY DEF Waiting
      <4> QED
        BY <3>1, <3>2, <3>5, <4>1
    <3> QED
      BY <3>3, <3>4, <3>5
  <2>10. OwnContext'
    <3>1. \A q \in Elems(ready_list') \cup Elems(blocked_list') : esp'[q] = q
      <4> SUFFICES ASSUME NEW q \in Elems(ready_list') \cup Elems(blocked_list')
                   PROVE  esp'[q] = q
        OBVIOUS
      <4>1. \/ q \in Elems(ready_list) \cup Elems(blocked_list)
            \/ q = cur /\ cur # NULL
        BY <2>1 DEF SwitchDone, GoingOn, Waiting, Current
      <4>2. q \in Pid
        BY <2>2, <4>1 DEF IInv, OnePlace, Live
      <4> QED
        BY <2>1, <4>1, <4>2 DEF SwitchDone, IInv, OwnContext
    <3> QED
      BY <1>1, <2>1, <2>2, <3>1 DEF SwitchDone, OwnContext
  <2>11. Suspended'
    <3>1. \A q \in Current : at[q] = "user" => user_IF[q]
      BY <1>1, <2>2 DEF IInv, OwnContext, Suspended, Current
    <3> QED
      BY <1>1, <2>1, <2>3, <3>1 DEF SwitchDone, IInv, Suspended
  <2>12. InterruptFlag'
    <3>1. at[n] = "user" => user_IF[n]
      BY <2>2 DEF IInv, Suspended
    <3> QED
      BY <1>1, <2>1, <3>1 DEF SwitchDone, InterruptFlag
  <2> QED
    BY <2>5, <2>6, <2>7, <2>8, <2>9, <2>10, <2>11, <2>12 DEF IInv
<1>4. CASE ~(count_down = 1 /\ ready_list # <<>>)
  <2>1. UNCHANGED <<procVars, listVars, current_process, cpu>>
    BY <1>4 DEF handle_int_20_timer, force_switch
  <2> USE <2>1 DEF procVars, listVars
  <2>2. TypeOK'
    BY <1>1, <1>2 DEF IInv, TypeOK
  <2>3. Live' = Live
    BY DEF Live
  <2>4. Numbering' /\ Boot' /\ NoStrayWaiter'
    BY <1>1, <2>3 DEF IInv, Numbering, Boot, NoStrayWaiter
  <2>5. OnePlace' /\ StatusMatchesPlace'
    BY <2>3 DEF IInv, OnePlace, StatusMatchesPlace, Current
  <2>6. OwnContext' /\ Suspended' /\ InterruptFlag'
    BY <1>1 DEF IInv, OwnContext, Suspended, InterruptFlag
  <2> QED
    BY <2>2, <2>4, <2>5, <2>6 DEF IInv
<1> QED
  BY <1>3, <1>4

-----------------------------------------------------------------------------
\* A stuttering step leaves the inductive invariant.
LEMMA StutterLemma == IInv /\ UNCHANGED vars => IInv'
<1> SUFFICES ASSUME IInv, UNCHANGED vars PROVE IInv'
  OBVIOUS
<1> USE DEF vars, procVars, listVars, cpuVars
<1>1. TypeOK'
  BY DEF IInv, TypeOK
<1>2. Live' = Live
  BY DEF Live
<1>3. Numbering' /\ Boot' /\ NoStrayWaiter' /\ Suspended'
  BY <1>2 DEF IInv, Numbering, Boot, NoStrayWaiter, Suspended
<1>4. OnePlace' /\ StatusMatchesPlace'
  BY <1>2 DEF IInv, OnePlace, StatusMatchesPlace, Current
<1>5. OwnContext' /\ InterruptFlag'
  BY DEF IInv, OwnContext, InterruptFlag
<1> QED
  BY <1>1, <1>3, <1>4, <1>5 DEF IInv

\* No step of the scheduler leaves the inductive invariant.
LEMMA StepLemma == IInv /\ [Next]_vars => IInv'
<1> SUFFICES ASSUME IInv, [Next]_vars PROVE IInv'
  OBVIOUS
<1>1. CASE init_process
  BY <1>1, InitProcessLemma
<1>2. CASE exec_program
  BY <1>2, ExecProgramLemma
<1>3. ASSUME NEW p \in Pid, Process(p)
      PROVE  IInv'
  BY <1>3, ForkLemma, ForkReturnLemma, WaitpidLemma, WaitpidReturnLemma, ReadLemma,
     ReadReturnLemma, ExecveLemma, StiLemma, ExitLemma DEF Process
<1>4. CASE int_20_timer
  BY <1>4, TimerEntryLemma
<1>5. CASE handle_int_20_timer
  BY <1>5, TimerHandlerLemma
<1>6. CASE UNCHANGED vars
  BY <1>6, StutterLemma
<1> QED
  BY <1>1, <1>2, <1>3, <1>4, <1>5, <1>6 DEF Next, KernelMain, Timer

(***************************************************************************)
(* The inductive invariant, and with it the invariants of Sched.           *)
(***************************************************************************)
THEOREM Inductive == Spec => []IInv
<1>1. Init => IInv
  BY InitLemma
<1>2. IInv /\ [Next]_vars => IInv'
  BY StepLemma
<1> QED
  BY <1>1, <1>2, PTL DEF Spec

\* The types of the scheduler's state, the range of the pids included.
THEOREM TypeCorrect == Spec => []TypeOK
<1>1. IInv => TypeOK
  BY DEF IInv
<1> QED
  BY <1>1, Inductive, PTL

\* No switch, fork or exit loses, duplicates or revives a process.
THEOREM ProcessesInOnePlace == Spec => []OnePlace
<1>1. IInv => OnePlace
  BY DEF IInv
<1> QED
  BY <1>1, Inductive, PTL

\* The status that sys_waitpid writes early agrees with the lists.
THEOREM StatusCorrect == Spec => []StatusMatchesPlace
<1>1. IInv => StatusMatchesPlace
  BY DEF IInv
<1> QED
  BY <1>1, Inductive, PTL

\* The global stored_esp never makes one process resume as another.
THEOREM ContextCorrect == Spec => []OwnContext
<1>1. IInv => OwnContext
  BY DEF IInv
<1> QED
  BY <1>1, Inductive, PTL

\* Interrupts are on in every loop of the kernel that waits for one.
THEOREM InterruptFlagCorrect == Spec => []InterruptFlag
<1>1. IInv => InterruptFlag
  BY DEF IInv
<1> QED
  BY <1>1, Inductive, PTL

-----------------------------------------------------------------------------
(***************************************************************************)
(* Steps that leave status alone, or change only who is not a waiter.      *)
(***************************************************************************)
LEMMA WakeStep ==
  ASSUME IInv, Next, NEW w \in Pid, status[w] = "BLOCKED", status'[w] # "BLOCKED"
  PROVE  \E c \in Pid : parent_id[c] = w /\ at[c] # "exit" /\ at'[c] = "exit"
<1>1. w \in Live
  BY DEF IInv, NoStrayWaiter
<1>2. process_list[w] # NULL
  BY <1>1 DEF Live
<1>3. ASSUME NEW p \in Pid, sys_exit(p)
      PROVE  parent_id[p] = w /\ at[p] # "exit" /\ at'[p] = "exit"
  <2>1. current_process = p /\ at[p] = "user"
    BY <1>3, CurrentExecutes DEF sys_exit, UserCode, Executes
  <2>2. at'[p] = "exit"
    BY <1>3 DEF sys_exit, EnableAt, IInv, TypeOK
  <2> DEFINE r == process_list[parent_id[p]]
  <2>3. WakeParent(r)
    BY <1>3, <2>1 DEF sys_exit
  <2>4. r \in {parent_id[p], NULL}
    BY DEF IInv, TypeOK, Numbering
  <2> HIDE DEF r
  <2>5. status' # status
    OBVIOUS
  <2>6. r # NULL /\ status' = [status EXCEPT ![r] = "READY"]
    BY <2>3, <2>5 DEF WakeParent
  <2>7. r = w
    BY <2>6 DEF IInv, TypeOK
  <2> QED
    BY <2>1, <2>2, <2>4, <2>6, <2>7
<1>4. ~init_process
  BY <1>2 DEF init_process, NewProcess, IInv, Numbering, Boot, TypeOK
<1>5. ASSUME NEW p \in Pid, sys_fork(p)
      PROVE  FALSE
  <2>1. next_pid # w /\ next_pid \in Pid
    BY <1>2, <1>5 DEF IInv, Numbering, sys_fork, PidBound, Pid
  <2> QED
    BY <1>5, <2>1 DEF sys_fork, NewProcess, IInv, TypeOK
<1>6. ASSUME NEW p \in Pid, sys_waitpid(p)
      PROVE  FALSE
  BY <1>6 DEF sys_waitpid, IInv, TypeOK
<1>7. ASSUME handle_int_20_timer
      PROVE  FALSE
  <2>1. CASE count_down = 1 /\ ready_list # <<>>
    <3>1. SwitchDone
      BY <1>7, <2>1, SwitchLemma
    <3>2. w # Served /\ w \notin GoingOn
      BY <1>1, <3>1 DEF SwitchDone, IInv, StatusMatchesPlace, GoingOn
    <3> QED
      BY <3>1, <3>2 DEF SwitchDone
  <2>2. CASE ~(count_down = 1 /\ ready_list # <<>>)
    BY <1>7, <2>2 DEF handle_int_20_timer, force_switch, procVars
  <2> QED
    BY <2>1, <2>2
<1>8. exec_program \/ int_20_timer => status' = status
  BY DEF exec_program, int_20_timer, procVars
<1>9. \A p \in Pid : \/ fork_return(p) \/ waitpid_return(p) \/ sys_read(p)
                     \/ read_return(p) \/ sys_execve(p) \/ sti(p)
                     => status' = status
  BY DEF fork_return, waitpid_return, sys_read, read_return, sys_execve, sti
<1> QED
  BY <1>3, <1>4, <1>5, <1>6, <1>7, <1>8, <1>9 DEF Next, KernelMain, Timer, Process

\* Only the exit of a child gets a process out of waitpid's loop.
THEOREM OnlyChildrenWake == Spec => WokenByChild
<1> DEFINE Woken == \A p \in Pid : status[p] = "BLOCKED" /\ status'[p] # "BLOCKED" =>
                      \E c \in Pid : /\ parent_id[c] = p
                                     /\ at[c] # "exit" /\ at'[c] = "exit"
<1>1. IInv /\ [Next]_vars => [Woken]_vars
  BY WakeStep
<1> QED
  BY <1>1, Inductive, PTL DEF Spec, WokenByChild

\* Appending keeps the members before in their places.
LEMMA StartsWithLemma ==
  ASSUME NEW q \in Seq(Pid), NEW p \in Pid
  PROVE  /\ StartsWith(q, q)
         /\ StartsWith(sched_enqueue(q, p), q)
         /\ q # <<>> => StartsWith(Tail(sched_enqueue(q, p)), Tail(q))
         /\ q # <<>> => StartsWith(Tail(q), Tail(q))
<1> DEFINE r == sched_enqueue(q, p)
<1>1. /\ r \in Seq(Pid) /\ Len(r) = Len(q) + 1 /\ Len(q) \in Nat
      /\ \A i \in 1 .. Len(q) : r[i] = q[i]
  BY DEF sched_enqueue
<1>2. StartsWith(q, q) /\ StartsWith(r, q)
  BY <1>1 DEF StartsWith
<1>3. ASSUME q # <<>>
      PROVE  StartsWith(Tail(r), Tail(q)) /\ StartsWith(Tail(q), Tail(q))
  <2>1. /\ Len(Tail(q)) = Len(q) - 1 /\ Len(q) \in Nat \ {0}
        /\ \A i \in 1 .. Len(q) - 1 : Tail(q)[i] = q[i + 1]
    BY <1>3
  <2>2. /\ Len(Tail(r)) = Len(q)
        /\ \A i \in 1 .. Len(q) : Tail(r)[i] = r[i + 1]
    BY <1>1
  <2> HIDE DEF r
  <2> QED
    BY <1>1, <2>1, <2>2 DEF StartsWith
<1> QED
  BY <1>2, <1>3

\* Every step treats ready_list as a queue: handlers that do not switch append
\* to it or leave it alone, and a switch serves its first member.
LEMMA QueueStep ==
  ASSUME IInv, Next
  PROVE  \/ StartsWith(ready_list', ready_list)
         \/ /\ ready_list # <<>>
            /\ current_process' = Head(ready_list)
            /\ StartsWith(ready_list', Tail(ready_list))
<1>1. ready_list \in Seq(Pid)
  BY DEF IInv, TypeOK
<1>2. StartsWith(ready_list, ready_list)
  <2>1. 1 \in Pid
    BY SchedAssumption DEF Pid
  <2> QED
    BY <1>1, <2>1, StartsWithLemma
<1>3. ASSUME NEW p \in Pid, ready_list' = sched_enqueue(ready_list, p)
      PROVE  StartsWith(ready_list', ready_list)
  BY <1>1, <1>3, StartsWithLemma
<1>4. CASE handle_int_20_timer
  <2>1. CASE count_down = 1 /\ ready_list # <<>>
    <3> DEFINE cur == current_process
               queue == IF cur # NULL /\ status[cur] # "BLOCKED"
                        THEN sched_enqueue(ready_list, cur) ELSE ready_list
    <3>1. ready_list' = Tail(queue) /\ current_process' = Head(queue)
      BY <1>4, <2>1 DEF handle_int_20_timer, force_switch
    <3>2. cur # NULL => cur \in Pid
      BY DEF IInv, TypeOK
    <3>3. Head(queue) = Head(ready_list)
      BY <1>1, <2>1, <3>2, EnqueueLemma
    <3>4. StartsWith(Tail(queue), Tail(ready_list))
      <4>1. 1 \in Pid
        BY SchedAssumption DEF Pid
      <4> QED
        BY <1>1, <2>1, <3>2, <4>1, StartsWithLemma
    <3> QED
      BY <2>1, <3>1, <3>3, <3>4
  <2>2. CASE ~(count_down = 1 /\ ready_list # <<>>)
    BY <1>2, <1>4, <2>2 DEF handle_int_20_timer, force_switch, listVars
  <2> QED
    BY <2>1, <2>2
<1>5. CASE exec_program
  <2>1. next_pid - 1 \in Pid
    BY <1>5, SchedAssumption DEF exec_program, IInv, Boot, Pid
  <2> QED
    BY <1>2, <1>3, <1>5, <2>1 DEF exec_program, add_process
<1>6. ASSUME NEW p \in Pid, sys_fork(p)
      PROVE  StartsWith(ready_list', ready_list)
  BY <1>2, <1>3, <1>6 DEF sys_fork, PidBound, add_process
<1>7. ASSUME NEW p \in Pid, sys_exit(p)
      PROVE  StartsWith(ready_list', ready_list)
  <2> DEFINE w == process_list[parent_id[current_process]]
  <2>1. CASE ready_list' = ready_list
    BY <1>2, <2>1
  <2>2. CASE w # NULL /\ ready_list' = sched_enqueue(ready_list, w)
    <3>1. w \in Pid
      <4>1. current_process = p /\ parent_id[p] \in 0 .. MAX_PROC_NUM - 1
        BY <1>7, CurrentExecutes, SchedAssumption
        DEF sys_exit, UserCode, Executes, IInv, TypeOK, Pid
      <4> QED
        BY <2>2, <4>1 DEF IInv, TypeOK
    <3> QED
      BY <1>3, <2>2, <3>1
  <2> QED
    BY <1>7, <2>1, <2>2 DEF sys_exit, WakeParent
<1>8. init_process \/ int_20_timer => ready_list' = ready_list
  BY DEF init_process, int_20_timer, listVars
<1>9. \A p \in Pid : Process(p) /\ ~sys_exit(p) /\ ~sys_fork(p) => ready_list' = ready_list
  BY DEF Process, fork_return, sys_waitpid, waitpid_return, sys_read, read_return,
         sys_execve, sti, listVars
<1> QED
  BY <1>2, <1>4, <1>5, <1>6, <1>7, <1>8, <1>9 DEF Next, Timer, KernelMain

\* The ready list is a queue: no ready process is ever overtaken, and a newcomer
\* goes behind all that wait.
THEOREM FirstComeFirstServed == Spec => NoOvertaking
<1> DEFINE InOrder == \/ StartsWith(ready_list', ready_list)
                      \/ /\ ready_list # <<>>
                         /\ current_process' = Head(ready_list)
                         /\ StartsWith(ready_list', Tail(ready_list))
<1>1. IInv /\ [Next]_vars => [InOrder]_vars
  BY QueueStep
<1> QED
  BY <1>1, Inductive, PTL DEF Spec, NoOvertaking

-----------------------------------------------------------------------------
(***************************************************************************)
(* The refinement of ProcessLife, step by step.                            *)
(***************************************************************************)

\* Steps that leave every life as it is.
LEMMA LifeUnchanged ==
  ASSUME UNCHANGED <<process_list, parent_id, status, current_process>>,
         \A q \in Pid : at'[q] = "exit" <=> at[q] = "exit"
  PROVE  UNCHANGED <<Life, Parent>>
BY DEF Life, Parent

\* The registration of the shell creates the first process.
LEMMA ExecProgramLife ==
  ASSUME IInv, exec_program
  PROVE  Abstract!Create(1) /\ 1 \in Pid
<1>1. /\ next_pid = 2 /\ 1 \in Pid /\ current_process = NULL
      /\ at[1] = "user" /\ status[1] = "READY" /\ parent_id[1] = 1
      /\ \A q \in Pid : process_list[q] = NULL
  BY SchedAssumption DEF IInv, TypeOK, Boot, Numbering, exec_program, Pid
<1>2. /\ process_list' = [process_list EXCEPT ![1] = 1]
      /\ UNCHANGED <<status, at, current_process, parent_id>>
  BY <1>1 DEF exec_program, add_process, procVars
<1>3. 1 # NULL
  BY SchedAssumption
<1>4. \A q \in Pid : process_list'[q] = IF q = 1 THEN 1 ELSE NULL
  BY <1>1, <1>2 DEF IInv, TypeOK, Pid
<1>5. \A q \in Pid : Life[q] = "none"
  BY <1>1 DEF Life
<1>6. Life' = [Life EXCEPT ![1] = "ready"]
  BY <1>1, <1>2, <1>3, <1>4 DEF Life
<1>7. Parent' = [Parent EXCEPT ![1] = 1]
  BY <1>1, <1>2, <1>3, <1>4 DEF Parent
<1> QED
  BY <1>1, <1>5, <1>6, <1>7 DEF Abstract!Create, Abstract!Begin

\* fork adds a ready child of the running process.
LEMMA ForkLife ==
  ASSUME IInv, NEW p \in Pid, sys_fork(p)
  PROVE  Abstract!Fork(p, next_pid) /\ next_pid \in Pid
<1> DEFINE c == next_pid
<1>1. current_process = p /\ p \in Live /\ at[p] = "user"
  BY CurrentExecutes DEF sys_fork, UserCode, Executes
<1>2. /\ c \in Pid /\ process_list[c] = NULL /\ c # p
      /\ status[p] # "BLOCKED" /\ process_list[p] # NULL
  BY <1>1 DEF IInv, Numbering, StatusMatchesPlace, sys_fork, PidBound, Live, Pid
<1>3. /\ process_list' = [process_list EXCEPT ![c] = c]
      /\ at' = [at EXCEPT ![p] = "fork_end", ![c] = "fork_end"]
      /\ parent_id' = [parent_id EXCEPT ![c] = p]
      /\ status' = [status EXCEPT ![c] = "READY"]
      /\ current_process' = p
  BY <1>1, <1>2 DEF sys_fork, NewProcess, add_process
<1> HIDE DEF c
<1>4. /\ \A q \in Pid \ {c} : /\ process_list'[q] = process_list[q]
                              /\ status'[q] = status[q] /\ parent_id'[q] = parent_id[q]
                              /\ at'[q] = "exit" <=> at[q] = "exit"
      /\ process_list'[c] = c /\ status'[c] = "READY" /\ at'[c] = "fork_end"
      /\ parent_id'[c] = p /\ c # NULL
  BY <1>1, <1>2, <1>3, SchedAssumption DEF IInv, TypeOK, Pid
<1>5. Life[p] = "running" /\ Life[c] = "none"
  BY <1>1, <1>2 DEF Life
<1>6. Life' = [Life EXCEPT ![c] = "ready"]
  <2>1. ASSUME NEW q \in Pid \ {c}
        PROVE  Life'[q] = Life[q]
    <3>1. /\ process_list'[q] = process_list[q] /\ status'[q] = status[q]
          /\ at'[q] = "exit" <=> at[q] = "exit"
          /\ current_process' = current_process
      BY <1>1, <1>3, <1>4
    <3> QED
      BY <3>1 DEF Life
  <2>2. Life'[c] = "ready"
    BY <1>1, <1>2, <1>3, <1>4 DEF Life
  <2> QED
    BY <2>1, <2>2 DEF Life
<1>7. Parent' = [Parent EXCEPT ![c] = p]
  BY <1>2, <1>4 DEF Parent
<1> QED
  BY <1>2, <1>5, <1>6, <1>7 DEF Abstract!Fork, Abstract!Begin, c

\* waitpid makes the running process wait, though it still spins on the CPU.
LEMMA WaitLife ==
  ASSUME IInv, NEW p \in Pid, sys_waitpid(p)
  PROVE  Abstract!Wait(p)
<1>1. current_process = p /\ p \in Live /\ at[p] = "user"
  BY CurrentExecutes DEF sys_waitpid, UserCode, Executes
<1>2. status[p] # "BLOCKED" /\ process_list[p] # NULL
  BY <1>1 DEF IInv, StatusMatchesPlace, Live
<1>3. /\ status' = [status EXCEPT ![p] = "BLOCKED"]
      /\ at' = [at EXCEPT ![p] = "waitpid"]
      /\ UNCHANGED <<process_list, parent_id, current_process>>
  BY <1>1 DEF sys_waitpid, EnableAt, listVars
<1>4. \A q \in Pid : /\ status'[q] = IF q = p THEN "BLOCKED" ELSE status[q]
                     /\ at'[q] = "exit" <=> at[q] = "exit"
  BY <1>1, <1>3 DEF IInv, TypeOK
<1>5. Life[p] = "running"
  BY <1>1, <1>2 DEF Life
<1>6. Life' = [Life EXCEPT ![p] = "waiting"]
  <2>1. ASSUME NEW q \in Pid, q # p
        PROVE  Life'[q] = Life[q]
    BY <1>1, <1>3, <1>4, <2>1 DEF Life
  <2>2. Life'[p] = "waiting"
    BY <1>1, <1>2, <1>3, <1>4 DEF Life
  <2> QED
    BY <2>1, <2>2 DEF Life
<1> QED
  BY <1>3, <1>5, <1>6 DEF Abstract!Wait, Parent

\* exit ends the running process and makes its waiting parent ready.
LEMMA ExitLife ==
  ASSUME IInv, NEW p \in Pid, sys_exit(p)
  PROVE  Abstract!Exit(p)
<1> DEFINE r == process_list[parent_id[p]]
           wakes == r # NULL /\ status[r] = "BLOCKED" /\ block_event[r] = "WCHILD"
<1>1. /\ current_process = p /\ p \in Live /\ at[p] = "user"
      /\ status[p] # "BLOCKED" /\ process_list[p] # NULL
  BY CurrentExecutes DEF sys_exit, UserCode, Executes, IInv, StatusMatchesPlace, Live
<1>2. /\ WakeParent(r)
      /\ at' = [at EXCEPT ![p] = "exit"] /\ current_process' = NULL
      /\ UNCHANGED <<process_list, parent_id>>
  BY <1>1 DEF sys_exit, EnableAt
<1>3. r \in {parent_id[p], NULL} /\ r \in Pid \cup {NULL} /\ NULL \notin Pid
  BY SchedAssumption DEF IInv, TypeOK, Numbering, Pid
<1>4. Life[p] = "running" /\ Parent[p] = parent_id[p]
  BY <1>1 DEF Life, Parent
<1>5. status' = IF wakes THEN [status EXCEPT ![r] = "READY"] ELSE status
  BY <1>2 DEF WakeParent
<1>6. \A q \in Pid : /\ status'[q] = IF wakes /\ q = r THEN "READY" ELSE status[q]
                     /\ at'[q] = IF q = p THEN "exit" ELSE at[q]
  BY <1>2, <1>5 DEF IInv, TypeOK
<1>7. ASSUME NEW q \in Pid
      PROVE  wakes /\ q = r <=> q = parent_id[p] /\ Life[q] = "waiting"
  <2>1. ASSUME wakes, q = r
        PROVE  q = parent_id[p] /\ Life[q] = "waiting"
    <3>1. q \in Live /\ status[q] = "BLOCKED"
      BY <2>1 DEF IInv, NoStrayWaiter
    <3> QED
      BY <1>3, <2>1, <3>1 DEF Life, Live
  <2>2. ASSUME q = parent_id[p], Life[q] = "waiting"
        PROVE  wakes /\ q = r
    <3>1. process_list[q] # NULL /\ at[q] # "exit" /\ status[q] = "BLOCKED"
      BY <2>2 DEF Life
    <3>2. block_event[q] = "WCHILD"
      BY <3>1 DEF IInv, StatusMatchesPlace, Live
    <3> QED
      BY <1>3, <2>2, <3>1, <3>2
  <2> QED
    BY <2>1, <2>2
<1> HIDE DEF r, wakes
<1>8. Life' = [q \in Pid |-> IF q = p THEN "dead"
                             ELSE IF q = Parent[p] /\ Life[q] = "waiting" THEN "ready"
                             ELSE Life[q]]
  <2> SUFFICES ASSUME NEW q \in Pid
               PROVE  Life'[q] = IF q = p THEN "dead"
                                 ELSE IF q = parent_id[p] /\ Life[q] = "waiting"
                                 THEN "ready" ELSE Life[q]
    BY <1>4 DEF Life
  <2>1. CASE q = p
    BY <1>1, <1>2, <1>6, <2>1 DEF Life
  <2>2. CASE q # p /\ wakes /\ q = r
    <3>1. Life[q] = "waiting" /\ q = parent_id[p]
      BY <1>7, <2>2
    <3>2. process_list[q] # NULL /\ at[q] # "exit"
      BY <3>1 DEF Life
    <3> QED
      BY <1>2, <1>3, <1>6, <2>2, <3>1, <3>2 DEF Life
  <2>3. CASE q # p /\ ~(wakes /\ q = r)
    <3>1. ~(q = parent_id[p] /\ Life[q] = "waiting")
      BY <1>7, <2>3
    <3> QED
      BY <1>1, <1>2, <1>3, <1>6, <2>3, <3>1 DEF Life
  <2> QED
    BY <2>1, <2>2, <2>3
<1> QED
  BY <1>2, <1>4, <1>8 DEF Abstract!Exit, Parent

\* A switch dispatches a ready process and preempts the running one, if any.
LEMMA SwitchLife ==
  ASSUME IInv, handle_int_20_timer
  PROVE  UNCHANGED <<Life, Parent>> \/ (Served \in Pid /\ Abstract!Dispatch(Served))
<1>1. CASE ~(count_down = 1 /\ ready_list # <<>>)
  BY <1>1, LifeUnchanged DEF handle_int_20_timer, force_switch, procVars, listVars
<1>2. CASE count_down = 1 /\ ready_list # <<>>
  <2> DEFINE n == Served
             cur == current_process
  <2>1. SwitchDone
    BY <1>2, SwitchLemma
  <2>2. n \in Live /\ n \in Pid /\ status[n] = "READY" /\ n # cur
    BY <2>1 DEF SwitchDone, IInv, OnePlace, StatusMatchesPlace
  <2>3. Life[n] = "ready"
    BY <2>2 DEF Life, Live
  <2>4. Life' = [q \in Pid |-> IF q = n THEN "running"
                               ELSE IF Life[q] = "running" THEN "ready" ELSE Life[q]]
    <3> SUFFICES ASSUME NEW q \in Pid
                 PROVE  Life'[q] = IF q = n THEN "running"
                                   ELSE IF Life[q] = "running" THEN "ready" ELSE Life[q]
      BY DEF Life
    <3>1. /\ process_list' = process_list /\ at' = at /\ current_process' = n
          /\ status'[q] = IF q = n THEN "RUNNING"
                          ELSE IF q \in GoingOn THEN "READY" ELSE status[q]
      BY <2>1 DEF SwitchDone
    <3>2. CASE q = n
      BY <2>2, <3>1, <3>2 DEF Life, Live
    <3>3. CASE q \in GoingOn
      BY <2>2, <3>1, <3>3 DEF Life, GoingOn, Current
    <3>4. CASE q # n /\ q \notin GoingOn
      BY <3>1, <3>4 DEF Life, GoingOn, Current
    <3> QED
      BY <3>2, <3>3, <3>4
  <2>5. Parent' = Parent
    BY <2>1 DEF SwitchDone, Parent
  <2> QED
    BY <2>2, <2>3, <2>4, <2>5 DEF Abstract!Dispatch
<1> QED
  BY <1>1, <1>2

\* Every step of the scheduler is a step of ProcessLife or changes no life.
LEMMA LifeStep == IInv /\ [Next]_vars => [Abstract!Next]_<<Life, Parent>>
<1> SUFFICES ASSUME IInv, [Next]_vars
             PROVE  Abstract!Next \/ UNCHANGED <<Life, Parent>>
  OBVIOUS
<1>1. CASE init_process
  <2>1. process_list' = process_list /\ \A q \in Pid : process_list[q] = NULL
    BY <1>1 DEF init_process, IInv, Boot, Numbering, Pid
  <2> QED
    BY <2>1 DEF Life, Parent
<1>2. CASE exec_program
  BY <1>2, ExecProgramLife DEF Abstract!Next
<1>3. CASE int_20_timer
  BY <1>3, LifeUnchanged DEF int_20_timer, procVars, listVars
<1>4. CASE handle_int_20_timer
  BY <1>4, SwitchLife DEF Abstract!Next
<1>5. CASE UNCHANGED vars
  BY <1>5, LifeUnchanged DEF vars, procVars, listVars, cpuVars
<1>6. ASSUME NEW p \in Pid, Process(p)
      PROVE  Abstract!Next \/ UNCHANGED <<Life, Parent>>
  <2>1. sys_fork(p) => Abstract!Next
    BY ForkLife DEF Abstract!Next
  <2>2. sys_waitpid(p) => Abstract!Next
    BY WaitLife DEF Abstract!Next
  <2>3. sys_exit(p) => Abstract!Next
    BY ExitLife DEF Abstract!Next
  <2>4. fork_return(p) \/ waitpid_return(p) \/ sys_read(p) \/ read_return(p)
          => UNCHANGED <<Life, Parent>>
    BY LifeUnchanged DEF fork_return, waitpid_return, sys_read, read_return, BackToUser,
       EnableAt, UserCode, listVars, IInv, TypeOK
  <2>5. sys_execve(p) \/ sti(p) => UNCHANGED <<Life, Parent>>
    BY LifeUnchanged DEF sys_execve, sti, listVars
  <2> QED
    BY <1>6, <2>1, <2>2, <2>3, <2>4, <2>5 DEF Process
<1> QED
  BY <1>1, <1>2, <1>3, <1>4, <1>5, <1>6 DEF Next, KernelMain, Timer

\* Whatever the interleaving, the scheduler takes only the steps of ProcessLife.
THEOREM Refinement == Spec => StepsImplementLife
<1>1. Init => Abstract!Init
  BY SchedAssumption DEF Init, Abstract!Init, Life, Parent, Pid
<1>2. IInv /\ [Next]_vars => [Abstract!Next]_(Abstract!vars)
  BY LifeStep DEF Abstract!vars
<1> QED
  BY <1>1, <1>2, Inductive, PTL DEF Spec, StepsImplementLife, Abstract!SafeSpec

=============================================================================
