---------------------------- MODULE Shell_proofs ----------------------------
(***************************************************************************)
(* Proofs about Shell, for every number of processes, every slice and      *)
(* every sequence of command lines: the processes that have not exited are *)
(* the shell, at most one command, and at most one second process of that  *)
(* command, and each of these waits for the next.                          *)
(***************************************************************************)
EXTENDS Shell, Sched_proofs

Active == {p \in Pid : at[p] \notin {"none", "exit"}}

\* What the processes are about to do, when they have a child that is active:
\* wait for it, or they are blocked already.
Awaits(p) ==
  \/ pc[p] \in {"wait", "sti_parent", "wait9"}
  \/ pc[p] \in {"prompt", "report"} /\ at[p] = "waitpid" /\ status[p] = "BLOCKED"

\* Where a program is in the kernel fits what it does next, and the page of
\* a process that does not exist yet is its own.
PlaceOf(p) ==
  /\ at[p] = "none" <=> pc[p] = "none"
  /\ at[p] = "none" => page[p] = p
  /\ at[p] = "read" => pc[p] \in {"prompt"} \cup DOMAIN AfterRead
  /\ at[p] = "fork_end" => pc[p] \in {"wait", "execve", "sti_parent", "sti_child"}
  /\ at[p] = "waitpid" => pc[p] \in {"prompt", "report"}
  /\ at[p] = "exit" => pc[p] = "exit"

\* Only process 1 runs the shell; only the process that a line naming prog9
\* was given to runs prog9 from its start, and it reports what it waited for.
KindOf(p) ==
  /\ p = 1 <=> pc[p] \in {"prompt", "fork", "wait"}
  /\ p = 1 => page[p] = 1
  /\ pc[p] \in {"shared_fork", "sti_parent", "wait9", "report"} => line[p].text = "prog9"
  /\ pc[p] = "report" /\ ~Awaits(p) => LetterNr[page[p]] = 44

\* A command owns its page.
Command(p) == page[p] = p /\ pc[p] \notin {"sti_child", "count"}

\* The second process of prog9 shares the page of the first.
Second(p) ==
  /\ parent_id[parent_id[p]] = 1
  /\ page[p] = parent_id[p]
  /\ pc[p] \in {"sti_child", "count", "print", "exit"}
  /\ pc[p] \in {"print", "exit"} => LetterNr[page[p]] = 44

\* All active processes but the shell are the only children of one that waits.
TreeOf(p) ==
  /\ parent_id[p] \in Active /\ Awaits(parent_id[p])
  /\ \A q \in Active \ {1} : parent_id[q] = parent_id[p] => q = p
  /\ IF parent_id[p] = 1 THEN Command(p) ELSE Second(p)

Places == \A p \in Pid : PlaceOf(p)
Kinds == \A p \in Active : KindOf(p)
Tree == \A p \in Active \ {1} : TreeOf(p)

SInv == IInv /\ ShellTypeOK /\ Places /\ Kinds /\ Tree

-----------------------------------------------------------------------------
(* Consequences of the tree.                                               *)

\* A process that does not wait has no active child, and if it owns its page
\* nobody else uses it.
LEMMA NoChild ==
  ASSUME SInv, NEW p \in Active, ~Awaits(p)
  PROVE  /\ \A q \in Active \ {1} : parent_id[q] # p
         /\ page[p] = p => \A q \in Active \ {p} : page[q] # p
<1>1. \A q \in Active \ {1} : parent_id[q] # p
  BY DEF SInv, Tree, TreeOf
<1>2. ASSUME page[p] = p, NEW q \in Active \ {p}, page[q] = p
      PROVE  FALSE
  <2>1. CASE q = 1
    BY <1>2, <2>1 DEF SInv, Kinds, KindOf
  <2>2. CASE q # 1
    BY <1>1, <1>2, <2>2 DEF SInv, Tree, TreeOf, Command, Second
  <2> QED BY <2>1, <2>2
<1> QED BY <1>1, <1>2

\* When the shell does not wait, it is alone; when a command does not, there
\* are only the two.
LEMMA Alone ==
  ASSUME SInv, 1 \in Active, ~Awaits(1)
  PROVE  Active = {1}
<1> SUFFICES ASSUME NEW q \in Active \ {1} PROVE FALSE
  OBVIOUS
<1>1. TreeOf(q) /\ parent_id[q] # 1
  BY DEF SInv, Tree, TreeOf
<1>2. parent_id[q] \in Active \ {1} /\ parent_id[parent_id[q]] = 1
  BY <1>1 DEF TreeOf, Second
<1> QED BY <1>2 DEF SInv, Tree, TreeOf

LEMMA TwoActive ==
  ASSUME SInv, NEW p \in Active \ {1}, ~Awaits(p), parent_id[p] = 1
  PROVE  Active \subseteq {1, p}
<1> SUFFICES ASSUME NEW q \in Active \ {1, p} PROVE FALSE
  OBVIOUS
<1>1. TreeOf(q) /\ TreeOf(p)
  BY DEF SInv, Tree
<1>2. parent_id[q] # 1
  BY <1>1 DEF TreeOf
<1>3. parent_id[q] \in Active \ {1} /\ parent_id[parent_id[q]] = 1
  BY <1>1, <1>2 DEF TreeOf, Second
<1>4. parent_id[q] = p
  BY <1>1, <1>3 DEF TreeOf
<1> QED BY <1>1, <1>4 DEF TreeOf

\* The running process is active, and is the one the scheduler means.
LEMMA Running ==
  ASSUME SInv, NEW p \in Pid, Executes(p), at[p] # "exit"
  PROVE  /\ p \in Active /\ current_process = p /\ boot = "idle"
         /\ p \in Live /\ p < next_pid /\ next_pid \in Nat
<1>1. /\ current_process = p /\ boot = "idle" /\ p \in Live
  BY CurrentExecutes DEF SInv, Executes
<1>2. p < next_pid /\ at[p] # "none"
  BY <1>1 DEF SInv, IInv, Numbering, Live, TypeOK, Pid
<1> QED BY <1>1, <1>2 DEF Active, SInv, IInv, TypeOK, Live

-----------------------------------------------------------------------------
(* Steps that fork and exit nobody.                                        *)

Blocked(p) == status[p] = "BLOCKED"

\* What the scheduler alone does: nothing that the tree is made of.
LEMMA SchedulerStep ==
  ASSUME SInv, IInv', ShellTypeOK',
         UNCHANGED userVars, UNCHANGED <<at, parent_id>>,
         \A q \in Pid : Blocked(q)' = Blocked(q)
  PROVE  SInv'
<1>1. Active' = Active
  BY DEF Active
<1>2. \A q \in Pid : Awaits(q)' = Awaits(q)
  BY DEF Awaits, Blocked, userVars
<1>3. Places'
  BY DEF SInv, Places, PlaceOf, userVars
<1>4. Kinds'
  <2> SUFFICES ASSUME NEW q \in Active PROVE KindOf(q)'
    BY <1>1 DEF Kinds
  <2>1. KindOf(q) /\ q \in Pid
    BY DEF SInv, Kinds, Active
  <2> QED BY <1>2, <2>1 DEF KindOf, userVars
<1>5. Tree'
  <2> SUFFICES ASSUME NEW q \in Active \ {1} PROVE TreeOf(q)'
    BY <1>1 DEF Tree
  <2>1. TreeOf(q) /\ parent_id[q] \in Pid
    BY DEF SInv, Tree, TreeOf, Active
  <2> QED BY <1>1, <1>2, <2>1 DEF TreeOf, Command, Second, userVars
<1> QED BY <1>3, <1>4, <1>5 DEF SInv

\* The running process p goes from one step of its program to the next, and
\* what it leaves behind still fits.
LEMMA ProgramStep ==
  ASSUME SInv, IInv', ShellTypeOK',
         NEW p \in Active, NEW l, NEW m, l \notin {"none", "exit"},
         at' = [at EXCEPT ![p] = l], pc' = [pc EXCEPT ![p] = m],
         UNCHANGED <<parent_id, page>>,
         \A q \in Pid \ {p} : Blocked(q)' = Blocked(q),
         \A q \in Pid \ {p} : line'[q] = line[q],
         \A q \in Active \ {p} : LetterNr'[page[q]] \in {LetterNr[page[q]], 44},
         PlaceOf(p)', KindOf(p)',
         Awaits(p) => Awaits(p)',
         p # 1 => IF parent_id[p] = 1 THEN Command(p)' ELSE Second(p)'
  PROVE  SInv'
<1>0. p \in Pid
  BY DEF Active
<1>1. Active' = Active
  BY <1>0 DEF Active, SInv, IInv, TypeOK
<1>2. \A q \in Pid \ {p} : at'[q] = at[q] /\ pc'[q] = pc[q]
  BY DEF SInv, IInv, TypeOK, ShellTypeOK
<1>3. \A q \in Pid \ {p} : Awaits(q)' = Awaits(q)
  BY <1>2 DEF Awaits, Blocked
<1>4. Places'
  <2> SUFFICES ASSUME NEW q \in Pid \ {p} PROVE PlaceOf(q)'
    BY DEF Places
  <2> QED BY <1>2 DEF SInv, Places, PlaceOf
<1>5. Kinds'
  <2> SUFFICES ASSUME NEW q \in Active \ {p} PROVE KindOf(q)'
    BY <1>1 DEF Kinds
  <2>1. KindOf(q) /\ q \in Pid \ {p}
    BY DEF SInv, Kinds, Active
  <2> QED BY <1>2, <1>3, <2>1 DEF KindOf
<1>6. Tree'
  <2> SUFFICES ASSUME NEW q \in Active \ {1} PROVE TreeOf(q)'
    BY <1>1 DEF Tree
  <2>1. TreeOf(q) /\ q \in Pid /\ parent_id[q] \in Pid
    BY DEF SInv, Tree, TreeOf, Active
  <2>2. \A r \in Pid : Awaits(r) => Awaits(r)'
    BY <1>3
  <2>3. \A r \in Active' \ {1} : parent_id'[r] = parent_id'[q] => r = q
    BY <1>1, <2>1 DEF TreeOf
  <2>4. IF parent_id[q] = 1 THEN Command(q)' ELSE Second(q)'
    <3>1. CASE q = p
      BY <3>1
    <3>2. CASE q # p
      BY <1>2, <2>1, <3>2 DEF TreeOf, Command, Second
    <3> QED BY <3>1, <3>2
  <2> QED BY <1>1, <2>1, <2>2, <2>3, <2>4 DEF TreeOf, Awaits
<1> QED BY <1>4, <1>5, <1>6 DEF SInv
-----------------------------------------------------------------------------
(* Every step of a program is a step of the scheduler or leaves it alone,  *)
(* and the programs' own state keeps its type.                             *)

LEMMA StepOfSched == ShellNext => [Next]_vars
<1> SUFFICES ASSUME ShellNext PROVE [Next]_vars
  OBVIOUS
<1>1. CASE StartShell
  BY <1>1 DEF StartShell, Next, KernelMain
<1>2. CASE (exec_program \/ Timer) /\ UNCHANGED userVars
  BY <1>2 DEF Next, KernelMain
<1>3. ASSUME NEW p \in Pid, UserStep(p)
      PROVE  [Next]_vars
  <2>1. Process(p) \/ UNCHANGED vars
    BY <1>3
    DEF UserStep, Computes, Fork, Wait, Execve, NoSuchCommand, Exit, Printf, SharedFork,
        Sti, CountLetter, Report, Read, ForkReturns, WaitReturns, ShellGetsLine,
        Prog3Gets, Process
  <2> QED BY <2>1 DEF Next
<1> QED BY <1>1, <1>2, <1>3 DEF ShellNext

LEMMA TypesKept ==
  ASSUME SInv, ShellNext
  PROVE  IInv' /\ ShellTypeOK'
<1>1. IInv'
  BY StepOfSched, StepLemma DEF SInv
<1>2. TypeOK'
  BY <1>1 DEF IInv
<1> USE DEF ShellTypeOK, SInv, Goto
<1>3. ASSUME StartShell PROVE ShellTypeOK'
  BY <1>2, <1>3 DEF StartShell
<1>4. ASSUME UNCHANGED userVars PROVE ShellTypeOK'
  BY <1>2, <1>4 DEF userVars
<1>5. ASSUME NEW p \in Pid, UserStep(p) PROVE ShellTypeOK'
  <2> USE <1>2
  <2>1. CASE Fork(p) \/ SharedFork(p)
    BY <2>1 DEF Fork, SharedFork, sys_fork, PidBound
  <2>2. CASE Wait(p) \/ Prog3Gets(p)
    BY <2>2 DEF Wait, AfterWait, Prog3Gets, AfterRead
  <2>3. CASE Execve(p)
    BY <2>3 DEF Execve, Main, Programs
  <2>4. CASE NoSuchCommand(p) \/ Printf(p) \/ Report(p)
    BY <2>4 DEF NoSuchCommand, Printf, Report
  <2>5. CASE Exit(p) \/ Read(p) \/ ForkReturns(p) \/ WaitReturns(p)
    BY <1>4, <2>5 DEF Exit, Read, ForkReturns, WaitReturns
  <2>6. CASE Sti(p)
    BY <2>6 DEF Sti
  <2>7. CASE CountLetter(p)
    BY <2>7 DEF CountLetter
  <2>8. CASE ShellGetsLine(p)
    BY <2>8 DEF ShellGetsLine
  <2> QED
    BY <1>5, <2>1, <2>2, <2>3, <2>4, <2>5, <2>6, <2>7, <2>8 DEF UserStep, Computes
<1> QED BY <1>1, <1>3, <1>4, <1>5 DEF ShellNext

-----------------------------------------------------------------------------
(* The steps of one program, each by ProgramStep.                          *)

\* The parent stops waiting for a chance to wait, and waits.
LEMMA WaitKept ==
  ASSUME SInv, IInv', ShellTypeOK', NEW p \in Pid, Wait(p)
  PROVE  SInv'
<1> DEFINE m == IF pc[p] = "wait" THEN "prompt" ELSE "report"
<1>1. p \in Active /\ current_process = p /\ at[p] = "user"
  BY Running DEF Wait, sys_waitpid, UserCode
<1>2. /\ at' = [at EXCEPT ![p] = "waitpid"]
      /\ status' = [status EXCEPT ![p] = "BLOCKED"]
      /\ pc[p] \in {"wait", "wait9"}
      /\ UNCHANGED <<parent_id, page, line, LetterNr>>
  BY <1>1 DEF Wait, AfterWait, sys_waitpid, EnableAt
<1>3. AfterWait[pc[p]] = m
  BY <1>2 DEF AfterWait
<1>4. pc' = [pc EXCEPT ![p] = m]
  BY <1>3 DEF Wait, Goto
<1>5. /\ at'[p] = "waitpid" /\ pc'[p] = m /\ status'[p] = "BLOCKED"
      /\ \A q \in Pid \ {p} : Blocked(q)' = Blocked(q)
  BY <1>1, <1>2, <1>4 DEF SInv, ShellTypeOK, IInv, TypeOK, Blocked
<1>6. KindOf(p) /\ (p # 1 => TreeOf(p))
  BY <1>1 DEF SInv, Kinds, Tree
<1>7. PlaceOf(p)' /\ KindOf(p)' /\ Awaits(p)'
  BY <1>2, <1>5, <1>6 DEF PlaceOf, KindOf, Awaits
<1>8. p # 1 => IF parent_id[p] = 1 THEN Command(p)' ELSE Second(p)'
  BY <1>2, <1>5, <1>6 DEF TreeOf, Command, Second
<1> HIDE DEF m
<1> QED BY <1>1, <1>2, <1>4, <1>5, <1>7, <1>8, ProgramStep

\* The child that runs the program of its command line has no child of its
\* own, and nobody else uses the page it loads the program into.
LEMMA ExecveKept ==
  ASSUME SInv, IInv', ShellTypeOK', NEW p \in Pid, Execve(p)
  PROVE  SInv'
<1> DEFINE m == Main[line[p].text]
<1>1. p \in Active /\ current_process = p /\ at[p] = "user"
  BY Running DEF Execve, sys_execve, UserCode
<1>2. /\ at' = [at EXCEPT ![p] = "user"]
      /\ pc[p] = "execve" /\ pc' = [pc EXCEPT ![p] = m]
      /\ LetterNr' = [LetterNr EXCEPT ![page[p]] = -1]
      /\ UNCHANGED <<parent_id, page, line, status>>
  BY <1>1 DEF Execve, sys_execve, Goto, SInv, IInv, TypeOK
<1>3. /\ m \in {"print", "getch", "shared_fork"}
      /\ m = "shared_fork" => line[p].text = "prog9"
  BY DEF Execve, Main, Programs
<1> HIDE DEF m
<1>4. /\ at'[p] = "user" /\ pc'[p] = m
      /\ \A q \in Pid : Blocked(q)' = Blocked(q)
  BY <1>1, <1>2 DEF SInv, ShellTypeOK, IInv, TypeOK, Blocked
<1>5. KindOf(p) /\ p # 1 /\ TreeOf(p) /\ ~Awaits(p)
  BY <1>1, <1>2 DEF SInv, Kinds, Tree, KindOf, Awaits
<1>6. parent_id[p] = 1 /\ Command(p)
  BY <1>2, <1>5 DEF TreeOf, Second
<1>7. \A q \in Active \ {p} : page[q] # p
  BY <1>1, <1>5, <1>6, NoChild DEF Command
<1>8. \A q \in Active \ {p} : LetterNr'[page[q]] = LetterNr[page[q]]
  BY <1>2, <1>6, <1>7 DEF Command, SInv, ShellTypeOK, Active
<1>9. PlaceOf(p)' /\ KindOf(p)' /\ Command(p)'
  BY <1>2, <1>3, <1>4, <1>5, <1>6 DEF PlaceOf, KindOf, Awaits, Command, AfterRead
<1> QED BY <1>1, <1>2, <1>3, <1>4, <1>5, <1>6, <1>8, <1>9, ProgramStep

\* Going on without a system call: the line names no program, or the program
\* prints, or reports what its child counted.
LEMMA LastStepKept ==
  ASSUME SInv, IInv', ShellTypeOK', NEW p \in Pid,
         NoSuchCommand(p) \/ Printf(p) \/ Report(p)
  PROVE  SInv'
<1>1. p \in Active /\ current_process = p /\ at[p] = "user"
  BY Running DEF NoSuchCommand, Printf, Report, UserCode
<1>2. /\ at' = [at EXCEPT ![p] = "user"]
      /\ pc[p] \in {"execve", "print", "report"} /\ pc' = [pc EXCEPT ![p] = "exit"]
      /\ UNCHANGED <<parent_id, page, line, status, LetterNr>>
  BY <1>1 DEF NoSuchCommand, Printf, Report, Goto, SInv, IInv, TypeOK, vars, procVars
<1>3. /\ at'[p] = "user" /\ pc'[p] = "exit"
      /\ \A q \in Pid : Blocked(q)' = Blocked(q)
  BY <1>1, <1>2 DEF SInv, ShellTypeOK, IInv, TypeOK, Blocked
<1>4. KindOf(p) /\ p # 1 /\ TreeOf(p) /\ ~Awaits(p)
  BY <1>1, <1>2 DEF SInv, Kinds, Tree, KindOf, Awaits
<1>5. PlaceOf(p)' /\ KindOf(p)'
  BY <1>2, <1>3, <1>4 DEF PlaceOf, KindOf, Awaits
<1>6. IF parent_id[p] = 1 THEN Command(p)' ELSE Second(p)'
  BY <1>2, <1>3, <1>4 DEF TreeOf, Command, Second
<1> QED BY <1>1, <1>2, <1>3, <1>4, <1>5, <1>6, ProgramStep

\* read and its return.
LEMMA ReadKept ==
  ASSUME SInv, IInv', ShellTypeOK', NEW p \in Pid, Read(p)
  PROVE  SInv'
<1>1. p \in Active /\ current_process = p /\ at[p] = "user"
  BY Running DEF Read, sys_read, UserCode
<1>2. /\ at' = [at EXCEPT ![p] = "read"]
      /\ pc[p] \in {"prompt"} \cup DOMAIN AfterRead /\ pc' = [pc EXCEPT ![p] = pc[p]]
      /\ UNCHANGED <<parent_id, page, line, status, LetterNr, pc>>
  BY <1>1 DEF Read, sys_read, EnableAt, SInv, ShellTypeOK, userVars
<1>3. /\ at'[p] = "read"
      /\ \A q \in Pid : Blocked(q)' = Blocked(q)
  BY <1>1, <1>2 DEF SInv, ShellTypeOK, IInv, TypeOK, Blocked
<1>4. KindOf(p) /\ (p # 1 => TreeOf(p)) /\ ~Awaits(p)
  BY <1>1, <1>2 DEF SInv, Kinds, Tree, KindOf, Awaits, AfterRead
<1>5. PlaceOf(p)' /\ KindOf(p)'
  BY <1>2, <1>3, <1>4 DEF PlaceOf, KindOf, Awaits, AfterRead
<1>6. p # 1 => IF parent_id[p] = 1 THEN Command(p)' ELSE Second(p)'
  BY <1>2, <1>3, <1>4 DEF TreeOf, Command, Second
<1> DEFINE m == pc[p]
<1>7. pc' = [pc EXCEPT ![p] = m]
  BY <1>2
<1> HIDE DEF m
<1> QED BY <1>1, <1>2, <1>3, <1>4, <1>5, <1>6, <1>7, ProgramStep

LEMMA ShellGetsLineKept ==
  ASSUME SInv, IInv', ShellTypeOK', NEW p \in Pid, ShellGetsLine(p)
  PROVE  SInv'
<1>1. p \in Active /\ current_process = p /\ at[p] = "read"
  BY Running DEF ShellGetsLine, read_return
<1>2. PICK m \in {"prompt", "fork"} : pc' = [pc EXCEPT ![p] = m]
  BY DEF ShellGetsLine, Goto
<1>3. /\ at' = [at EXCEPT ![p] = "user"]
      /\ pc[p] = "prompt"
      /\ UNCHANGED <<parent_id, page, status, LetterNr>>
      /\ \A q \in Pid \ {p} : line'[q] = line[q]
  BY <1>1 DEF ShellGetsLine, read_return, BackToUser, SInv, ShellTypeOK
<1>4. /\ at'[p] = "user" /\ pc'[p] = m
      /\ \A q \in Pid : Blocked(q)' = Blocked(q)
  BY <1>1, <1>2, <1>3 DEF SInv, ShellTypeOK, IInv, TypeOK, Blocked
<1>5. KindOf(p) /\ p = 1 /\ ~Awaits(p)
  BY <1>1, <1>3 DEF SInv, Kinds, KindOf, Awaits
<1>6. PlaceOf(p)' /\ KindOf(p)'
  BY <1>3, <1>4, <1>5 DEF PlaceOf, KindOf, Awaits
<1> QED BY <1>1, <1>2, <1>3, <1>4, <1>5, <1>6, ProgramStep

LEMMA Prog3GetsKept ==
  ASSUME SInv, IInv', ShellTypeOK', NEW p \in Pid, Prog3Gets(p)
  PROVE  SInv'
<1> DEFINE m == AfterRead[pc[p]]
<1>1. p \in Active /\ current_process = p /\ at[p] = "read"
  BY Running DEF Prog3Gets, read_return
<1>2. /\ at' = [at EXCEPT ![p] = "user"]
      /\ pc[p] \in {"getch", "gets", "scanf"} /\ pc' = [pc EXCEPT ![p] = m]
      /\ UNCHANGED <<parent_id, page, line, status, LetterNr>>
  BY <1>1 DEF Prog3Gets, read_return, BackToUser, Goto, AfterRead
<1>3. m \in {"gets", "scanf", "print"}
  BY <1>2 DEF AfterRead
<1> HIDE DEF m
<1>4. /\ at'[p] = "user" /\ pc'[p] = m
      /\ \A q \in Pid : Blocked(q)' = Blocked(q)
  BY <1>1, <1>2 DEF SInv, ShellTypeOK, IInv, TypeOK, Blocked
<1>5. KindOf(p) /\ p # 1 /\ TreeOf(p) /\ ~Awaits(p)
  <2>1. KindOf(p) /\ ~Awaits(p)
    BY <1>1, <1>2 DEF SInv, Kinds, Awaits
  <2> QED BY <1>1, <1>2, <2>1 DEF SInv, Tree, KindOf
<1>6. PlaceOf(p)' /\ KindOf(p)'
  BY <1>2, <1>3, <1>4, <1>5 DEF PlaceOf, KindOf, Awaits, AfterRead
<1>7. IF parent_id[p] = 1 THEN Command(p)' ELSE Second(p)'
  BY <1>2, <1>3, <1>4, <1>5 DEF TreeOf, Command, Second
<1> QED BY <1>1, <1>2, <1>3, <1>4, <1>5, <1>6, <1>7, ProgramStep
LEMMA StiKept ==
  ASSUME SInv, IInv', ShellTypeOK', NEW p \in Pid, Sti(p)
  PROVE  SInv'
<1> DEFINE m == IF pc[p] = "sti_parent" THEN "wait9" ELSE "count"
<1>1. p \in Active /\ current_process = p /\ at[p] = "user"
  BY Running DEF Sti, sti, UserCode
<1>2. /\ at' = [at EXCEPT ![p] = "user"]
      /\ pc[p] \in {"sti_parent", "sti_child"} /\ pc' = [pc EXCEPT ![p] = m]
      /\ UNCHANGED <<parent_id, page, line, status, LetterNr>>
  BY <1>1 DEF Sti, sti, Goto, SInv, IInv, TypeOK
<1>3. /\ at'[p] = "user" /\ pc'[p] = m
      /\ \A q \in Pid : Blocked(q)' = Blocked(q)
  BY <1>1, <1>2 DEF SInv, ShellTypeOK, IInv, TypeOK, Blocked
<1>4. KindOf(p) /\ p # 1 /\ TreeOf(p)
  <2>1. KindOf(p)
    BY <1>1 DEF SInv, Kinds
  <2> QED BY <1>1, <1>2, <2>1 DEF SInv, Tree, KindOf
<1>5. PlaceOf(p)' /\ KindOf(p)' /\ (Awaits(p) => Awaits(p)')
  BY <1>1, <1>2, <1>3, <1>4 DEF PlaceOf, KindOf, Awaits
<1>6. IF parent_id[p] = 1 THEN Command(p)' ELSE Second(p)'
  BY <1>2, <1>3, <1>4 DEF TreeOf, Command, Second
<1> HIDE DEF m
<1>7. m \notin {"none", "exit"}
  BY DEF m
<1> QED BY <1>1, <1>2, <1>3, <1>5, <1>6, ProgramStep

LEMMA CountLetterKept ==
  ASSUME SInv, IInv', ShellTypeOK', NEW p \in Pid, CountLetter(p)
  PROVE  SInv'
<1>1. p \in Active /\ current_process = p /\ at[p] = "user"
  BY Running DEF CountLetter, UserCode
<1>2. /\ at' = [at EXCEPT ![p] = "user"]
      /\ pc[p] = "count" /\ pc' = [pc EXCEPT ![p] = "print"]
      /\ LetterNr' = [LetterNr EXCEPT ![page[p]] = 44]
      /\ UNCHANGED <<parent_id, page, line, status>>
  BY <1>1 DEF CountLetter, Goto, SInv, IInv, TypeOK, vars, procVars
<1>3. /\ at'[p] = "user" /\ pc'[p] = "print" /\ LetterNr'[page[p]] = 44
      /\ \A q \in Pid : LetterNr'[page[q]] \in {LetterNr[page[q]], 44}
      /\ \A q \in Pid : Blocked(q)' = Blocked(q)
  BY <1>1, <1>2 DEF SInv, ShellTypeOK, IInv, TypeOK, Blocked
<1>4. KindOf(p) /\ p # 1 /\ TreeOf(p) /\ ~Awaits(p)
  BY <1>1, <1>2 DEF SInv, Kinds, Tree, KindOf, Awaits
<1>5. PlaceOf(p)' /\ KindOf(p)'
  BY <1>2, <1>3, <1>4 DEF PlaceOf, KindOf, Awaits
<1>6. IF parent_id[p] = 1 THEN Command(p)' ELSE Second(p)'
  BY <1>2, <1>3, <1>4 DEF TreeOf, Command, Second
<1>7. \A q \in Active \ {p} : LetterNr'[page[q]] \in {LetterNr[page[q]], 44}
  BY <1>3 DEF Active
<1> QED BY <1>1, <1>2, <1>3, <1>4, <1>5, <1>6, <1>7, ProgramStep

\* The ways out of fork and waitpid leave the programs' own state alone.
LEMMA ReturnKept ==
  ASSUME SInv, IInv', ShellTypeOK', NEW p \in Pid, ForkReturns(p) \/ WaitReturns(p)
  PROVE  SInv'
<1> DEFINE m == pc[p]
<1>1. p \in Active /\ current_process = p /\ at[p] \in {"fork_end", "waitpid"}
  BY Running DEF ForkReturns, WaitReturns, fork_return, waitpid_return
<1>2. /\ at' = [at EXCEPT ![p] = "user"]
      /\ at[p] = "waitpid" => status[p] # "BLOCKED"
      /\ UNCHANGED <<parent_id, page, line, status, LetterNr, pc>>
  BY <1>1 DEF ForkReturns, WaitReturns, fork_return, waitpid_return, BackToUser, userVars
<1>3. /\ pc' = [pc EXCEPT ![p] = m] /\ at'[p] = "user"
      /\ \A q \in Pid : Blocked(q)' = Blocked(q)
  BY <1>1, <1>2 DEF SInv, ShellTypeOK, IInv, TypeOK, Blocked
<1>4. PlaceOf(p) /\ KindOf(p) /\ (p # 1 => TreeOf(p))
  BY <1>1 DEF SInv, Kinds, Tree, Places
<1>5. Awaits(p)' <=> Awaits(p)
  BY <1>1, <1>2, <1>3 DEF Awaits
<1>6. PlaceOf(p)' /\ KindOf(p)' /\ m \notin {"none", "exit"}
  BY <1>1, <1>2, <1>3, <1>4, <1>5 DEF PlaceOf, KindOf
<1>7. p # 1 => IF parent_id[p] = 1 THEN Command(p)' ELSE Second(p)'
  BY <1>2, <1>4 DEF TreeOf, Command, Second
<1> HIDE DEF m
<1> QED BY <1>1, <1>2, <1>3, <1>5, <1>6, <1>7, ProgramStep

-----------------------------------------------------------------------------
(* The steps of the scheduler and of kernel_main.                          *)

LEMMA TimerKept ==
  ASSUME SInv, IInv', ShellTypeOK', exec_program \/ Timer, UNCHANGED userVars
  PROVE  SInv'
<1>1. CASE exec_program \/ int_20_timer
  <2>1. UNCHANGED <<at, parent_id, status>>
    BY <1>1 DEF exec_program, int_20_timer, procVars
  <2> QED BY <2>1, SchedulerStep DEF Blocked
<1>2. CASE handle_int_20_timer
  <2>1. CASE count_down = 1 /\ ready_list # <<>>
    <3>1. SwitchDone
      BY <1>2, <2>1, SwitchLemma DEF SInv
    <3>2. ASSUME NEW q \in Pid PROVE Blocked(q)' = Blocked(q)
      <4>1. CASE q = Served
        <5>1. q \in Live /\ status[q] = "READY"
          BY <3>1, <4>1 DEF SwitchDone, SInv, IInv, OnePlace, StatusMatchesPlace
        <5> QED BY <3>1, <4>1, <5>1 DEF SwitchDone, Blocked
      <4>2. CASE q # Served
        BY <3>1, <4>2 DEF SwitchDone, Blocked, GoingOn
      <4> QED BY <4>1, <4>2
    <3> QED BY <3>1, <3>2, SchedulerStep DEF SwitchDone
  <2>2. CASE ~(count_down = 1 /\ ready_list # <<>>)
    <3>1. UNCHANGED <<at, parent_id, status>>
      BY <1>2, <2>2 DEF handle_int_20_timer, force_switch, procVars
    <3> QED BY <3>1, SchedulerStep DEF Blocked
  <2> QED BY <2>1, <2>2
<1> QED BY <1>1, <1>2 DEF Timer

\* The first process is the shell, and nothing else is active.
LEMMA StartShellKept ==
  ASSUME SInv, IInv', ShellTypeOK', StartShell
  PROVE  SInv'
<1>1. /\ next_pid = 1 /\ 1 \in Pid
      /\ \A q \in Pid : at[q] = "none"
  BY SchedAssumption
  DEF StartShell, init_process, SInv, IInv, Boot, Numbering, Pid
<1>2. /\ at' = [at EXCEPT ![1] = "user"] /\ pc' = [pc EXCEPT ![1] = "prompt"]
      /\ UNCHANGED page
  BY <1>1 DEF StartShell, init_process, Goto
<1>3. /\ at'[1] = "user" /\ pc'[1] = "prompt"
      /\ \A q \in Pid \ {1} : at'[q] = "none" /\ pc'[q] = pc[q]
  BY <1>1, <1>2 DEF SInv, ShellTypeOK, IInv, TypeOK
<1>4. Active' = {1}
  BY <1>1, <1>3 DEF Active
<1>5. Places'
  BY <1>1, <1>2, <1>3 DEF SInv, Places, PlaceOf
<1>6. Kinds'
  BY <1>1, <1>2, <1>3, <1>4 DEF SInv, Places, PlaceOf, Kinds, KindOf
<1>7. Tree'
  BY <1>4 DEF Tree
<1> QED BY <1>5, <1>6, <1>7 DEF SInv
-----------------------------------------------------------------------------
(* The steps that change who is active.                                    *)

\* A fork makes the process with the next pid active.
LEMMA Forked ==
  ASSUME SInv, NEW p \in Pid, sys_fork(p)
  PROVE  /\ p \in Active /\ at[p] = "user"
         /\ next_pid \in Pid \ Active /\ next_pid # 1 /\ Active' = Active \cup {next_pid}
         /\ parent_id' = [parent_id EXCEPT ![next_pid] = p]
         /\ at' = [at EXCEPT ![p] = "fork_end", ![next_pid] = "fork_end"]
         /\ \A q \in Active : Blocked(q)' = Blocked(q)
<1>1. p \in Active /\ current_process = p /\ at[p] = "user" /\ p < next_pid
  BY Running DEF sys_fork, UserCode
<1>2. next_pid \in Pid /\ at[next_pid] = "none" /\ next_pid # 1
  BY <1>1 DEF sys_fork, PidBound, SInv, IInv, Numbering, Pid
<1> DEFINE c == next_pid
<1> HIDE DEF c
<1>3. /\ parent_id' = [parent_id EXCEPT ![c] = p]
      /\ at' = [at EXCEPT ![p] = "fork_end", ![c] = "fork_end"]
      /\ status' = [status EXCEPT ![c] = "READY"]
  BY <1>1 DEF sys_fork, NewProcess, c
<1>4. Active' = Active \cup {c}
  BY <1>1, <1>2, <1>3 DEF Active, SInv, IInv, TypeOK, c
<1>5. \A q \in Active : Blocked(q)' = Blocked(q)
  BY <1>2, <1>3 DEF Active, Blocked, SInv, IInv, TypeOK, c
<1> QED BY <1>1, <1>2, <1>3, <1>4, <1>5 DEF Active, c

\* The shell forks when it has no child that is active.
LEMMA ForkKept ==
  ASSUME SInv, IInv', ShellTypeOK', NEW p \in Pid, Fork(p)
  PROVE  SInv'
<1>0. PICK c \in Pid : c = next_pid
  BY Forked DEF Fork
<1>1. /\ p \in Active /\ at[p] = "user"
      /\ c \in Pid \ Active /\ c # 1 /\ Active' = Active \cup {c}
      /\ parent_id' = [parent_id EXCEPT ![c] = p]
      /\ at' = [at EXCEPT ![p] = "fork_end", ![c] = "fork_end"]
  BY <1>0, Forked DEF Fork
<1>2. /\ pc[p] = "fork" /\ pc' = [pc EXCEPT ![p] = "wait", ![c] = "execve"]
      /\ page' = [page EXCEPT ![c] = c]
  BY <1>0 DEF Fork
<1>3. p = 1 /\ Active = {1}
  <2>1. p = 1 /\ ~Awaits(1)
    BY <1>1, <1>2 DEF SInv, Kinds, KindOf, Awaits
  <2> QED BY <1>1, <2>1, Alone
<1>4. /\ at'[1] = "fork_end" /\ at'[c] = "fork_end"
      /\ pc'[1] = "wait" /\ pc'[c] = "execve" /\ page'[c] = c /\ page'[1] = page[1]
      /\ parent_id'[c] = 1
      /\ \A q \in Pid \ {1, c} : at'[q] = at[q] /\ pc'[q] = pc[q] /\ page'[q] = page[q]
  BY <1>1, <1>2, <1>3 DEF SInv, ShellTypeOK, IInv, TypeOK
<1>5. Places'
  BY <1>3, <1>4 DEF SInv, Places, PlaceOf
<1>6. KindOf(1)'
  BY <1>3, <1>4 DEF SInv, Kinds, KindOf
<1>7. KindOf(c)'
  BY <1>1, <1>4 DEF KindOf
<1>8. Kinds'
  BY <1>1, <1>3, <1>6, <1>7 DEF Kinds
<1>9. Tree'
  BY <1>1, <1>3, <1>4 DEF Tree, TreeOf, Awaits, Command
<1> QED BY <1>5, <1>8, <1>9 DEF SInv

\* prog9 forks when it is the only command.
LEMMA SharedForkKept ==
  ASSUME SInv, IInv', ShellTypeOK', NEW p \in Pid, SharedFork(p)
  PROVE  SInv'
<1>0. PICK c \in Pid : c = next_pid
  BY Forked DEF SharedFork
<1>1. /\ p \in Active /\ at[p] = "user"
      /\ c \in Pid \ Active /\ c # 1 /\ Active' = Active \cup {c}
      /\ parent_id' = [parent_id EXCEPT ![c] = p]
      /\ at' = [at EXCEPT ![p] = "fork_end", ![c] = "fork_end"]
      /\ \A q \in Active : Blocked(q)' = Blocked(q)
  BY <1>0, Forked DEF SharedFork
<1>2. /\ pc[p] = "shared_fork"
      /\ pc' = [pc EXCEPT ![p] = "sti_parent", ![c] = "sti_child"]
      /\ page' = [page EXCEPT ![c] = page[p]]
      /\ UNCHANGED <<line, LetterNr>>
  BY <1>0 DEF SharedFork
<1>3. KindOf(p) /\ p # 1 /\ ~Awaits(p) /\ TreeOf(p)
  BY <1>1, <1>2 DEF SInv, Kinds, KindOf, Awaits, Tree
<1>4. parent_id[p] = 1 /\ page[p] = p /\ 1 \in Active /\ Awaits(1)
  BY <1>2, <1>3 DEF TreeOf, Second, Command
<1>5. Active = {1, p}
  BY <1>1, <1>3, <1>4, TwoActive
<1>6. /\ at'[p] = "fork_end" /\ at'[c] = "fork_end"
      /\ pc'[p] = "sti_parent" /\ pc'[c] = "sti_child" /\ page'[c] = p /\ page'[p] = p
      /\ parent_id'[c] = p /\ parent_id'[p] = 1
      /\ \A q \in Pid \ {p, c} : at'[q] = at[q] /\ pc'[q] = pc[q] /\ page'[q] = page[q]
  BY <1>1, <1>2, <1>4 DEF SInv, ShellTypeOK, IInv, TypeOK
<1>7. 1 \in Pid \ {p, c}
  BY <1>1, <1>3, <1>5 DEF Active
<1>8. Awaits(1)' <=> Awaits(1)
  BY <1>1, <1>4, <1>6, <1>7 DEF Awaits, Blocked
<1>9. Places'
  <2>1. PlaceOf(p)' /\ PlaceOf(c)'
    BY <1>6 DEF PlaceOf
  <2>2. ASSUME NEW q \in Pid \ {p, c} PROVE PlaceOf(q)'
    <3>1. PlaceOf(q)
      BY DEF SInv, Places
    <3>2. at'[q] = at[q] /\ pc'[q] = pc[q] /\ page'[q] = page[q]
      BY <1>6
    <3> QED BY <3>1, <3>2 DEF PlaceOf
  <2> QED BY <2>1, <2>2 DEF Places
<1>10. Kinds'
  <2>1. KindOf(1)'
    <3>1. KindOf(1)
      BY <1>4 DEF SInv, Kinds
    <3>2. pc'[1] = pc[1] /\ page'[1] = page[1] /\ line' = line /\ LetterNr' = LetterNr
      BY <1>2, <1>6, <1>7
    <3> QED BY <1>8, <3>1, <3>2 DEF KindOf
  <2>2. KindOf(p)' /\ KindOf(c)'
    BY <1>1, <1>2, <1>3, <1>6 DEF KindOf
  <2> QED BY <1>1, <1>5, <2>1, <2>2 DEF Kinds
<1>11. Tree'
  <2>1. TreeOf(p)'
    BY <1>1, <1>3, <1>4, <1>5, <1>6, <1>7, <1>8 DEF TreeOf, Command, Awaits
  <2>2. TreeOf(c)'
    BY <1>1, <1>3, <1>5, <1>6, <1>7 DEF TreeOf, Second, Awaits
  <2> QED BY <1>1, <1>5, <2>1, <2>2 DEF Tree
<1> QED BY <1>9, <1>10, <1>11 DEF SInv

\* A process that exits is nobody's parent any more; the one it wakes waited
\* for it, and its count is in the page they share.
LEMMA ExitKept ==
  ASSUME SInv, IInv', ShellTypeOK', NEW p \in Pid, Exit(p)
  PROVE  SInv'
<1> DEFINE r == parent_id[p]
<1>1. p \in Active /\ current_process = p /\ at[p] = "user" /\ pc[p] = "exit"
  BY Running DEF Exit, sys_exit, UserCode
<1>2. /\ WakeParent(process_list[r])
      /\ at' = [at EXCEPT ![p] = "exit"]
      /\ UNCHANGED <<parent_id, pc, line, page, LetterNr>>
  BY <1>1 DEF Exit, sys_exit, EnableAt, userVars
<1>3. KindOf(p) /\ p # 1 /\ ~Awaits(p) /\ TreeOf(p)
  BY <1>1 DEF SInv, Kinds, KindOf, Awaits, Tree
<1>4. r \in Active /\ \A q \in Active \ {1} : parent_id[q] = r => q = p
  BY <1>3 DEF TreeOf
<1>5. \A q \in Active \ {1} : parent_id[q] # p
  BY <1>1, <1>3, NoChild
<1>6. \A q \in Pid \ {r} : status'[q] = status[q]
  <2>1. process_list[r] \in {r, NULL} /\ r \in Pid
    BY <1>4 DEF Active, SInv, IInv, Numbering
  <2> QED BY <1>2, <2>1 DEF WakeParent, SInv, IInv, TypeOK
<1>7. /\ Active' = Active \ {p} /\ at'[p] = "exit"
      /\ \A q \in Pid \ {p} : at'[q] = at[q]
  BY <1>1, <1>2 DEF SInv, IInv, TypeOK, Active
<1>8. \A q \in Active \ {p, r} : Awaits(q)' = Awaits(q)
  BY <1>2, <1>6, <1>7 DEF Awaits, Active
<1>9. Places'
  BY <1>1, <1>2, <1>7 DEF SInv, Places, PlaceOf
<1>10. Kinds'
  <2> SUFFICES ASSUME NEW q \in Active \ {p} PROVE KindOf(q)'
    BY <1>7 DEF Kinds
  <2>1. KindOf(q)
    BY DEF SInv, Kinds
  <2>2. CASE q # r
    BY <1>2, <1>8, <2>1, <2>2 DEF KindOf
  <2>3. CASE q = r
    <3>1. ASSUME pc[r] = "report" PROVE LetterNr[page[r]] = 44
      <4>1. r # 1 /\ TreeOf(r)
        BY <1>4, <2>1, <2>3, <3>1 DEF KindOf, SInv, Tree
      <4>2. Second(p)
        BY <1>3, <4>1 DEF TreeOf
      <4>3. page[r] = r
        BY <3>1, <4>1 DEF TreeOf, Command, Second
      <4> QED BY <1>1, <4>2, <4>3 DEF Second
    <3> QED BY <1>2, <2>1, <2>3, <3>1 DEF KindOf
  <2> QED BY <2>2, <2>3
<1>11. Tree'
  <2> SUFFICES ASSUME NEW q \in Active \ {1, p} PROVE TreeOf(q)'
    BY <1>7 DEF Tree
  <2>1. TreeOf(q)
    BY DEF SInv, Tree
  <2>2. parent_id[q] \in Active \ {p, r}
    BY <1>4, <1>5, <2>1 DEF TreeOf
  <2> HIDE DEF r
  <2> QED BY <1>2, <1>7, <1>8, <2>1, <2>2 DEF TreeOf, Awaits, Command, Second
<1> QED BY <1>9, <1>10, <1>11 DEF SInv
-----------------------------------------------------------------------------
(***************************************************************************)
(* The tree of processes holds from the first step of kernel_main on,      *)
(* whatever is typed at the prompt and whenever the timer ticks.           *)
(***************************************************************************)
LEMMA ShellInitLemma == ShellInit => SInv
<1> SUFFICES ASSUME ShellInit PROVE SInv
  OBVIOUS
<1>1. IInv
  BY InitLemma DEF ShellInit
<1>2. ShellTypeOK
  BY <1>1 DEF IInv, ShellInit, ShellTypeOK, NoLine, Lines
<1>3. Active = {} /\ \A p \in Pid : at[p] = "none"
  BY DEF ShellInit, Init, Active
<1>4. Places
  BY <1>3 DEF ShellInit, Places, PlaceOf
<1> QED BY <1>1, <1>2, <1>3, <1>4 DEF SInv, Kinds, Tree

LEMMA ShellStepLemma == SInv /\ [ShellNext]_allVars => SInv'
<1> SUFFICES ASSUME SInv, [ShellNext]_allVars PROVE SInv'
  OBVIOUS
<1>1. CASE UNCHANGED allVars
  <2>1. IInv' /\ UNCHANGED userVars /\ UNCHANGED <<at, parent_id, status>>
    BY <1>1, StutterLemma DEF SInv, allVars, vars, procVars
  <2>2. ShellTypeOK'
    BY <2>1 DEF SInv, IInv, ShellTypeOK, userVars
  <2> QED BY <2>1, <2>2, SchedulerStep DEF Blocked
<1>2. CASE ShellNext
  <2>1. IInv' /\ ShellTypeOK'
    BY <1>2, TypesKept
  <2>2. ASSUME NEW p \in Pid, UserStep(p) PROVE SInv'
    BY <2>1, <2>2, WaitKept, ExecveKept, LastStepKept, ReadKept, ShellGetsLineKept,
       Prog3GetsKept, StiKept, CountLetterKept, ReturnKept, ForkKept, SharedForkKept,
       ExitKept
    DEF UserStep, Computes
  <2> QED BY <1>2, <2>1, <2>2, TimerKept, StartShellKept DEF ShellNext
<1> QED BY <1>1, <1>2

THEOREM ShellInductive == ShellSpec => []SInv
<1> QED BY ShellInitLemma, ShellStepLemma, PTL DEF ShellSpec

(***************************************************************************)
(* The types of the scheduler's and of the programs' state.                *)
(***************************************************************************)
THEOREM ShellTypeCorrect == ShellSpec => []ShellTypeOK
<1>1. SInv => ShellTypeOK
  BY DEF SInv
<1> QED BY <1>1, ShellInductive, PTL

(***************************************************************************)
(* The programs use the scheduler through its system calls only, so what   *)
(* Sched_proofs shows of every behaviour of Sched holds while they run.    *)
(***************************************************************************)
THEOREM ProgramsUseTheScheduler == ShellSpec => Spec
<1>1. ShellInit => Init
  BY DEF ShellInit
<1>2. [ShellNext]_allVars => [Next]_vars
  BY StepOfSched DEF allVars
<1> QED BY <1>1, <1>2, PTL DEF ShellSpec, Spec

(***************************************************************************)
(* Every command runs in the foreground: when the shell of programs/sh.c   *)
(* is at its prompt, what it started has exited, the second process of     *)
(* prog9 included.                                                         *)
(***************************************************************************)
THEOREM CommandsRunInTheForeground == ShellSpec => []PromptMeansQuiet
<1>1. SInv => PromptMeansQuiet
  <2> SUFFICES ASSUME SInv, NEW p \in Pid, NEW q \in Pid,
                      pc[p] = "prompt", at[p] \in {"user", "read"}, q # p
               PROVE  at[q] \in {"none", "exit"}
    BY DEF PromptMeansQuiet
  <2>1. p \in Active /\ p = 1 /\ ~Awaits(1)
    BY DEF SInv, Kinds, KindOf, Awaits, Active
  <2> QED BY <2>1, Alone DEF Active
<1> QED BY <1>1, ShellInductive, PTL

(***************************************************************************)
(* A process in tty_read has the terminal to itself: whoever reads is the  *)
(* shell, which is alone then, or a command, and then the shell waits.     *)
(***************************************************************************)
THEOREM ReadersOwnTheTerminal == ShellSpec => []TerminalIsTheReaders
<1>1. SInv => TerminalIsTheReaders
  <2> SUFFICES ASSUME SInv, NEW p \in Pid, NEW q \in Pid,
                      at[p] = "read", UsesTerminal(q), p # q
               PROVE  FALSE
    BY DEF TerminalIsTheReaders
  <2>1. /\ p \in Active /\ ~Awaits(p)
        /\ pc[p] \in {"prompt", "getch", "gets", "scanf"}
    BY DEF SInv, Places, PlaceOf, AfterRead, Active, Awaits
  <2>2. q \in Active /\ ~Awaits(q)
    BY DEF UsesTerminal, SInv, Places, PlaceOf, AfterRead, Active, Awaits
  <2>3. p # 1 /\ q # 1
    BY <2>1, <2>2, Alone
  <2>4. TreeOf(p)
    BY <2>1, <2>3 DEF SInv, Tree
  <2>5. parent_id[p] = 1
    <3>1. pc[p] # "prompt"
      BY <2>1, <2>3 DEF SInv, Kinds, KindOf
    <3> QED BY <2>1, <2>4, <3>1 DEF TreeOf, Second
  <2> QED BY <2>1, <2>2, <2>3, <2>5, TwoActive
<1> QED BY <1>1, ShellInductive, PTL

(***************************************************************************)
(* The parent of prog9 reports the count that its child wrote to the page  *)
(* they share, and no execve has loaded another program over it.           *)
(***************************************************************************)
THEOREM CountArrives == ShellSpec => []ParentSeesCount
<1>1. SInv => ParentSeesCount
  BY DEF ParentSeesCount, SInv, Kinds, KindOf, Awaits, Active
<1> QED BY <1>1, ShellInductive, PTL

(***************************************************************************)
(* Two live processes that share a page are the two of one prog9.          *)
(***************************************************************************)
THEOREM OnlyProg9Shares == ShellSpec => []SharedOnlyByProg9
<1>1. SInv => SharedOnlyByProg9
  <2> SUFFICES ASSUME SInv, NEW p \in Live, NEW q \in Live, page[p] = page[q], p # q
               PROVE  /\ parent_id[p] = q \/ parent_id[q] = p
                      /\ "prog9" \in {line[p].text, line[q].text}
    BY DEF SharedOnlyByProg9
  <2>1. p \in Active /\ q \in Active
    BY DEF Live, Active, SInv, IInv, Numbering, TypeOK, Pid
  <2>2. ASSUME NEW a \in Active \ {1}
        PROVE  page[a] # 1
    BY <2>2 DEF SInv, Tree, TreeOf, Command, Second
  <2>3. p # 1 /\ q # 1
    BY <2>1, <2>2 DEF SInv, Kinds, KindOf
  <2>4. ASSUME NEW a \in Active \ {1}, NEW b \in Active \ {1}, a # b,
               page[a] = page[b], parent_id[a] = 1
        PROVE  parent_id[b] = a /\ line[a].text = "prog9"
    <3>1. TreeOf(a) /\ TreeOf(b) /\ page[a] = a
      BY <2>4 DEF SInv, Tree, TreeOf, Command
    <3>2. parent_id[b] = a /\ Awaits(a)
      BY <2>4, <3>1 DEF TreeOf, Command, Second
    <3>3. KindOf(a)
      BY DEF SInv, Kinds
    <3> QED BY <3>2, <3>3 DEF Awaits, KindOf
  <2>5. parent_id[p] = 1 \/ parent_id[q] = 1
    BY <2>1, <2>3 DEF SInv, Tree, TreeOf, Second
  <2> QED BY <2>1, <2>3, <2>4, <2>5
<1> QED BY <1>1, ShellInductive, PTL

=============================================================================
