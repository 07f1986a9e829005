------------------------------ MODULE ProcList ------------------------------
(***************************************************************************)
(* The linked lists of the scheduler (struct process_list_t, kernel/sched.c)*)
(* beside the sequences of Sched: each list has a head, a tail and a size,  *)
(* and both lists are linked through the one next field of the processes.   *)
(* Each step of Sched is conjoined with what the code does to the pointers; *)
(* the pointers alone decide what happens to them.                          *)
(***************************************************************************)
EXTENDS Sched

VARIABLES
  ready,    \* ready_list as the code has it: head, tail and size
  blocked,  \* blocked_list
  next      \* the field next of struct process_t, by pid

pointers == <<ready, blocked, next>>

EmptyList == [head |-> NULL, tail |-> NULL, size |-> 0]

\* init_process_queue, for both lists.
ListInit ==
  /\ ready = EmptyList
  /\ blocked = EmptyList
  /\ next = [p \in Pid |-> NULL]

-----------------------------------------------------------------------------
(* The operations: l is the list, n the next fields of all processes.  Each *)
(* has one operator for what it makes of the list and one for the fields.   *)

EnqueueList(l, p) ==
  [head |-> IF l.size = 0 THEN p ELSE l.head, tail |-> p, size |-> l.size + 1]

EnqueueNext(l, n, p) ==
  IF l.size = 0 THEN [n EXCEPT ![p] = NULL]
                ELSE [n EXCEPT ![l.tail] = p, ![p] = NULL]

ServeList(l, n) ==
  [head |-> n[l.head],
   tail |-> IF l.size = 1 THEN NULL ELSE l.tail,
   size |-> l.size - 1]

ServeNext(l, n) == [n EXCEPT ![l.head] = NULL]

\* The ways along next from the head to p: the loop of sched_remove takes one
\* and stops.
Walks(l, n, p) ==
  {s \in UNION {[1 .. k -> Pid] : k \in Pid} :
     /\ s[1] = l.head
     /\ \A i \in 1 .. Len(s) - 1 : s[i] # p /\ s[i + 1] = n[s[i]]
     /\ s[Len(s)] = p}

Prev(l, n, p) ==
  LET s == CHOOSE w \in Walks(l, n, p) : TRUE
  IN IF Len(s) = 1 THEN NULL ELSE s[Len(s) - 1]

\* Mutant: tail stays on the process that is removed.
RemoveKeepsTail(l, n, p) ==
  IF Walks(l, n, p) = {} THEN l
  ELSE [head |-> IF Prev(l, n, p) = NULL THEN n[p] ELSE l.head,
        tail |-> l.tail,
        size |-> l.size - 1]

RemoveList(l, n, p) ==
  IF Walks(l, n, p) = {} THEN l
  ELSE [head |-> IF Prev(l, n, p) = NULL THEN n[p] ELSE l.head,
        tail |-> IF l.tail = p THEN Prev(l, n, p) ELSE l.tail,
        size |-> l.size - 1]

RemoveNext(l, n, p) ==
  IF Walks(l, n, p) = {} THEN n
  ELSE IF Prev(l, n, p) = NULL THEN [n EXCEPT ![p] = NULL]
  ELSE [n EXCEPT ![Prev(l, n, p)] = n[p], ![p] = NULL]

-----------------------------------------------------------------------------
(* The steps.  kernel_main links the shell with interrupts on, store by    *)
(* store; the list has the shell once its size says so.                    *)

\* A new structure is zero-filled.
ListInitProcess ==
  /\ init_process
  /\ next' = [next EXCEPT ![next_pid] = NULL]
  /\ UNCHANGED <<ready, blocked>>

StoreHead ==
  /\ Executes(Kernel) /\ boot = "add_process" /\ ready.head = NULL
  /\ ready' = [ready EXCEPT !.head = next_pid - 1]
  /\ UNCHANGED <<vars, blocked, next>>

StoreTail ==
  /\ Executes(Kernel) /\ boot = "add_process" /\ ready.head # NULL /\ ready.tail = NULL
  /\ ready' = [ready EXCEPT !.tail = next_pid - 1]
  /\ UNCHANGED <<vars, blocked, next>>

StoreSize ==
  /\ ready.tail # NULL
  /\ exec_program
  /\ ready' = [ready EXCEPT !.size = ready.size + 1]
  /\ next' = [next EXCEPT ![next_pid - 1] = NULL]
  /\ UNCHANGED blocked

ListFork(p) ==
  /\ sys_fork(p)
  /\ ready' = EnqueueList(ready, next_pid)
  /\ next' = EnqueueNext(ready, next, next_pid)
  /\ UNCHANGED blocked

\* The parent that sys_exit wakes, if there is one.
Woken ==
  LET parent == process_list[parent_id[current_process]]
  IN {q \in {parent} \ {NULL} : status[q] = "BLOCKED" /\ block_event[q] = "WCHILD"}

ListExit(p) ==
  /\ sys_exit(p)
  /\ IF Woken = {} THEN UNCHANGED pointers
     ELSE \E q \in Woken :
            /\ blocked' = RemoveList(blocked, next, q)
            /\ ready' = EnqueueList(ready, q)
            /\ next' = EnqueueNext(ready, RemoveNext(blocked, next, q), q)

\* force_switch: it goes by the size of the ready list and takes its head.
ListSwitch ==
  LET cur == current_process
      waits == cur # NULL /\ status[cur] = "BLOCKED"
      goesOn == cur # NULL /\ status[cur] # "BLOCKED"
      queue == IF goesOn THEN EnqueueList(ready, cur) ELSE ready
      links == IF goesOn THEN EnqueueNext(ready, next, cur)
               ELSE IF waits THEN EnqueueNext(blocked, next, cur) ELSE next
  IN IF ready.size = 0 THEN UNCHANGED pointers
     ELSE /\ blocked' = IF waits THEN EnqueueList(blocked, cur) ELSE blocked
          /\ ready' = ServeList(queue, links)
          /\ next' = ServeNext(queue, links)

ListTick ==
  /\ handle_int_20_timer
  /\ IF count_down = 1 THEN ListSwitch ELSE UNCHANGED pointers

\* The steps of Sched that touch no list.
ListPlain ==
  /\ \/ int_20_timer
     \/ \E p \in Pid : \/ fork_return(p) \/ sys_waitpid(p) \/ waitpid_return(p)
                       \/ sys_read(p) \/ read_return(p) \/ sys_execve(p) \/ sti(p)
  /\ UNCHANGED pointers

ListNext ==
  \/ ListInitProcess \/ StoreHead \/ StoreTail \/ StoreSize
  \/ \E p \in Pid : ListFork(p) \/ ListExit(p)
  \/ ListTick \/ ListPlain

ListSpec == Init /\ ListInit /\ [][ListNext]_<<vars, pointers>>

-----------------------------------------------------------------------------
(* The list l, linked by n, has the members of the sequence q in its order. *)
Represents(l, n, q) ==
  /\ l.size = Len(q)
  /\ l.head = IF q = <<>> THEN NULL ELSE q[1]
  /\ l.tail = IF q = <<>> THEN NULL ELSE q[Len(q)]
  /\ \A i \in 1 .. Len(q) : n[q[i]] = IF i = Len(q) THEN NULL ELSE q[i + 1]

\* What kernel_main has stored so far counts for nobody.
HalfLinked ==
  /\ ready \in [head : {NULL, 1}, tail : {NULL, 1}, size : {0}]
  /\ ready.head = NULL => ready.tail = NULL

(***************************************************************************)
(* The pointers of both lists always are what the sequences say, although  *)
(* the lists share one next field and a process is moved from the middle   *)
(* of one to the end of the other; so the tests of size and the head that  *)
(* sched_serve returns decide what Sched decides, and the loop of          *)
(* sched_remove ends.  A process in neither list points nowhere.           *)
(***************************************************************************)
ListsRepresent ==
  /\ IF boot = "idle" THEN Represents(ready, next, ready_list) ELSE HalfLinked
  /\ Represents(blocked, next, blocked_list)
  /\ \A p \in Pid :
       p \notin Elems(ready_list) \cup Elems(blocked_list) => next[p] = NULL

=============================================================================
