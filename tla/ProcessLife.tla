---------------------------- MODULE ProcessLife ----------------------------
(***************************************************************************)
(* What the scheduler of leanux promises: the life of each process, with   *)
(* no lists, interrupts or saved contexts.  At most one process runs; a    *)
(* process that waits is made ready by the exit of one of its children;    *)
(* an exited process never runs again; and a ready process gets to run.    *)
(***************************************************************************)
EXTENDS Naturals

CONSTANT Proc

VARIABLES
  life,    \* "none", "ready", "running", "waiting" or "dead", by process
  parent   \* parent of each process; 0 before the process exists

vars == <<life, parent>>

Init ==
  /\ life = [p \in Proc |-> "none"]
  /\ parent = [p \in Proc |-> 0]

Begin(c, p) ==
  /\ life[c] = "none"
  /\ life' = [life EXCEPT ![c] = "ready"]
  /\ parent' = [parent EXCEPT ![c] = p]

\* The kernel starts the first process, which counts as its own child.
Create(c) == (\A p \in Proc : life[p] = "none") /\ Begin(c, c)

Fork(p, c) == life[p] = "running" /\ Begin(c, p)

Wait(p) ==
  /\ life[p] = "running"
  /\ life' = [life EXCEPT ![p] = "waiting"]
  /\ UNCHANGED parent

Exit(p) ==
  /\ life[p] = "running"
  /\ life' = [q \in Proc |->
                IF q = p THEN "dead"
                ELSE IF q = parent[p] /\ life[q] = "waiting" THEN "ready"
                ELSE life[q]]
  /\ UNCHANGED parent

\* p gets the CPU, from the running process if there is one.
Dispatch(p) ==
  /\ life[p] = "ready"
  /\ life' = [q \in Proc |->
                IF q = p THEN "running"
                ELSE IF life[q] = "running" THEN "ready"
                ELSE life[q]]
  /\ UNCHANGED parent

Next ==
  \E p \in Proc :
    \/ Create(p)
    \/ \E c \in Proc : Fork(p, c)
    \/ Wait(p)
    \/ Exit(p)
    \/ Dispatch(p)

SafeSpec == Init /\ [][Next]_vars

Spec == SafeSpec /\ \A p \in Proc : WF_vars(Dispatch(p))

=============================================================================
