------------------------------- MODULE Shell -------------------------------
(***************************************************************************)
(* The programs on the disk of leanux, running under the scheduler: the    *)
(* shell (programs/sh.c), which forks a child for each command line and    *)
(* waits for it, and the programs it can load: prog1 (prog2 does the same, *)
(* system calls that leave interrupts off), prog3, which reads three times *)
(* from the keyboard, and prog9, the test of shared_fork.                  *)
(*                                                                         *)
(* Every system call that concerns the scheduler is the action of Sched    *)
(* conjoined with the program's own step.                                  *)
(***************************************************************************)
EXTENDS Sched, Integers

VARIABLES
  pc,        \* what a process's program does next
  line,      \* the command line in a process's buf
  page,      \* the page that holds a process's program and data (page_no)
  LetterNr   \* the variable of prog9, by the page that holds it

userVars == <<pc, line, page, LetterNr>>

Programs == {"prog1", "prog3", "prog9"}

\* A command line names a program or none; a full one has as many characters
\* as the shell reads (prog000...01, for example).
NoLine == [text |-> "", full |-> FALSE]
Lines == {NoLine} \cup [text : Programs \cup {"other"}, full : BOOLEAN]

\* What follows each read of prog3, and each wait.
AfterRead == [getch |-> "gets", gets |-> "scanf", scanf |-> "print"]
AfterWait == [wait |-> "prompt", wait9 |-> "report"]

\* First step of each program.
Main == [prog1 |-> "print", prog3 |-> "getch", prog9 |-> "shared_fork"]

ShellInit ==
  /\ Init
  /\ pc = [p \in Pid |-> "none"]
  /\ line = [p \in Pid |-> NoLine]
  /\ page = [p \in Pid |-> p]
  /\ LetterNr = [p \in Pid |-> -1]

Goto(p, l) == pc' = [pc EXCEPT ![p] = l]

StartShell ==
  /\ init_process
  /\ Goto(next_pid, "prompt")
  /\ UNCHANGED <<line, page, LetterNr>>

-----------------------------------------------------------------------------
(* Steps of the shell and of the child it forks *)

Read(p) ==
  /\ pc[p] \in {"prompt"} \cup DOMAIN AfterRead
  /\ sys_read(p)
  /\ UNCHANGED userVars

ShellGetsLine(p) ==
  /\ pc[p] = "prompt"
  /\ read_return(p)
  /\ \E l \in Lines :
       /\ line' = [line EXCEPT ![p] = l]
       /\ Goto(p, IF l = NoLine THEN "prompt" ELSE "fork")
  /\ UNCHANGED <<page, LetterNr>>

\* A command is started only if its program has a pid left for a fork: with
\* interrupts off, a program that waited for one would stop the machine.
CommandBound == next_pid + 1 \in Pid

\* Mutant: the page table of the parent is kept, as in shared_fork.
ForkSharing(p) ==
  /\ pc[p] = "fork"
  /\ CommandBound
  /\ sys_fork(p)
  /\ pc' = [pc EXCEPT ![p] = "wait", ![next_pid] = "execve"]
  /\ line' = [line EXCEPT ![next_pid] = line[p]]
  /\ page' = [page EXCEPT ![next_pid] = page[p]]
  /\ UNCHANGED LetterNr

\* The child has a copy of the parent's stack, buf included, and of its page.
Fork(p) ==
  /\ pc[p] = "fork"
  /\ CommandBound
  /\ sys_fork(p)
  /\ pc' = [pc EXCEPT ![p] = "wait", ![next_pid] = "execve"]
  /\ line' = [line EXCEPT ![next_pid] = line[p]]
  /\ page' = [page EXCEPT ![next_pid] = next_pid]
  /\ LetterNr' = [LetterNr EXCEPT ![next_pid] = LetterNr[page[p]]]

ForkReturns(p) == fork_return(p) /\ UNCHANGED userVars

\* Mutant: the program goes on without the system call.
DoNotWait(p) ==
  /\ pc[p] \in DOMAIN AfterWait
  /\ UserCode(p)
  /\ Goto(p, AfterWait[pc[p]])
  /\ UNCHANGED <<vars, line, page, LetterNr>>

Wait(p) ==
  /\ pc[p] \in DOMAIN AfterWait
  /\ sys_waitpid(p)
  /\ Goto(p, AfterWait[pc[p]])
  /\ UNCHANGED <<line, page, LetterNr>>

WaitReturns(p) == waitpid_return(p) /\ UNCHANGED userVars

\* The program is read from the disk over the child's own page.
Execve(p) ==
  /\ pc[p] = "execve" /\ line[p].text \in Programs
  /\ sys_execve(p)
  /\ Goto(p, Main[line[p].text])
  /\ LetterNr' = [LetterNr EXCEPT ![page[p]] = -1]
  /\ UNCHANGED <<line, page>>

NoSuchCommand(p) ==
  /\ pc[p] = "execve" /\ line[p].text \notin Programs
  /\ UserCode(p)
  /\ Goto(p, "exit")
  /\ UNCHANGED <<vars, line, page, LetterNr>>

Exit(p) == pc[p] = "exit" /\ sys_exit(p) /\ UNCHANGED userVars

-----------------------------------------------------------------------------
(* Steps of the loaded programs *)

Printf(p) ==
  /\ pc[p] = "print"
  /\ UserCode(p)
  /\ Goto(p, "exit")
  /\ UNCHANGED <<vars, line, page, LetterNr>>

Prog3Gets(p) ==
  /\ pc[p] \in DOMAIN AfterRead
  /\ read_return(p)
  /\ Goto(p, AfterRead[pc[p]])
  /\ UNCHANGED <<line, page, LetterNr>>

\* Mutant: prog9 calls fork.
PlainFork(p) ==
  /\ pc[p] = "shared_fork"
  /\ sys_fork(p)
  /\ pc' = [pc EXCEPT ![p] = "sti_parent", ![next_pid] = "sti_child"]
  /\ page' = [page EXCEPT ![next_pid] = next_pid]
  /\ LetterNr' = [LetterNr EXCEPT ![next_pid] = LetterNr[page[p]]]
  /\ UNCHANGED line

SharedFork(p) ==
  /\ pc[p] = "shared_fork"
  /\ sys_fork(p)
  /\ pc' = [pc EXCEPT ![p] = "sti_parent", ![next_pid] = "sti_child"]
  /\ page' = [page EXCEPT ![next_pid] = page[p]]
  /\ UNCHANGED <<line, LetterNr>>

Sti(p) ==
  /\ pc[p] \in {"sti_parent", "sti_child"}
  /\ sti(p)
  /\ Goto(p, IF pc[p] = "sti_parent" THEN "wait9" ELSE "count")
  /\ UNCHANGED <<line, page, LetterNr>>

CountLetter(p) ==
  /\ pc[p] = "count"
  /\ UserCode(p)
  /\ LetterNr' = [LetterNr EXCEPT ![page[p]] = 44]
  /\ Goto(p, "print")
  /\ UNCHANGED <<vars, line, page>>

Report(p) ==
  /\ pc[p] = "report"
  /\ UserCode(p)
  /\ Goto(p, "exit")
  /\ UNCHANGED <<vars, line, page, LetterNr>>

-----------------------------------------------------------------------------
\* Steps a program takes of its own accord, and those that wait for a user.
Computes(p) ==
  \/ Fork(p) \/ Wait(p) \/ Execve(p) \/ NoSuchCommand(p) \/ Exit(p)
  \/ Printf(p) \/ SharedFork(p) \/ Sti(p) \/ CountLetter(p) \/ Report(p)
  \/ Read(p)

UserStep(p) ==
  \/ Computes(p)
  \/ ForkReturns(p) \/ WaitReturns(p)
  \/ ShellGetsLine(p) \/ Prog3Gets(p)

ShellNext ==
  \/ StartShell
  \/ (exec_program \/ Timer) /\ UNCHANGED userVars
  \/ \E p \in Pid : UserStep(p)

allVars == <<vars, userVars>>

ShellSpec == ShellInit /\ [][ShellNext]_allVars

(* The fairness of the scheduler, for the steps that return from it, and a   *)
(* program's own steps: each is offered again in slice after slice.          *)
ShellFairness ==
  /\ SF_allVars(int_20_timer /\ UNCHANGED userVars)
  /\ WF_allVars(handle_int_20_timer /\ UNCHANGED userVars)
  /\ SF_allVars(StartShell) /\ SF_allVars(exec_program /\ UNCHANGED userVars)
  /\ \A p \in Pid : /\ SF_allVars(Computes(p))
                    /\ SF_allVars(ForkReturns(p)) /\ SF_allVars(WaitReturns(p))

FairShellSpec == ShellSpec /\ ShellFairness

-----------------------------------------------------------------------------
(***************************************************************************)
(* The types of the programs' state.                                       *)
(***************************************************************************)
ShellTypeOK ==
  /\ TypeOK
  /\ pc \in [Pid -> {"none", "prompt", "fork", "wait", "execve", "exit", "print",
                     "getch", "gets", "scanf", "shared_fork", "sti_parent",
                     "sti_child", "wait9", "count", "report"}]
  /\ line \in [Pid -> Lines]
  /\ page \in [Pid -> Pid]
  /\ LetterNr \in [Pid -> {-1, 44}]

(***************************************************************************)
(* When the shell prompts, everything that the previous command started    *)
(* has exited, prog9's second process included: the shell was woken by the *)
(* child it waited for, and that child by its own.                         *)
(***************************************************************************)
PromptMeansQuiet ==
  \A p, q \in Pid :
    pc[p] = "prompt" /\ at[p] \in {"user", "read"} /\ q # p =>
      at[q] \in {"none", "exit"}

\* The next step of a process reads from the terminal or writes to it.
UsesTerminal(p) ==
  \/ at[p] = "read"
  \/ at[p] = "user" /\ \/ pc[p] \in {"prompt", "print", "report"} \cup DOMAIN AfterRead
                       \/ pc[p] = "fork" /\ line[p].full
                       \/ pc[p] = "execve" /\ line[p].text \notin Programs

(***************************************************************************)
(* A process in tty_read has the terminal to itself.  With two readers, a  *)
(* switch in the middle of cirqueue_serve, which has no lock, would        *)
(* deliver a key twice or skip one; with a reader and a writer, a switch   *)
(* in the middle of tty_putchar would leave a character at the place that  *)
(* the other has just moved from.  Keyboard and Tty rest on this.          *)
(***************************************************************************)
TerminalIsTheReaders ==
  \A p, q \in Pid : at[p] = "read" /\ UsesTerminal(q) => p = q

(***************************************************************************)
(* When the parent of prog9 reports, it sees the count its child wrote to  *)
(* the shared page, and no execve has loaded another program over it.      *)
(***************************************************************************)
ParentSeesCount ==
  \A p \in Pid : pc[p] = "report" /\ at[p] = "user" => LetterNr[page[p]] = 44

(***************************************************************************)
(* The only processes that share a page are the two of one prog9: a forked *)
(* child owns its page before execve overwrites it.                        *)
(***************************************************************************)
SharedOnlyByProg9 ==
  \A p, q \in Live :
    page[p] = page[q] /\ p # q =>
      /\ parent_id[p] = q \/ parent_id[q] = p
      /\ "prog9" \in {line[p].text, line[q].text}

(***************************************************************************)
(* prog9 calls wait to print after its child: programs/prog9.c, 21 and 22. *)
(* Once it is about to wait, it reports.                                   *)
(***************************************************************************)
Prog9Reports ==
  \A p \in Pid : pc[p] = "wait9" ~> (pc[p] = "report" /\ at[p] = "user")

(***************************************************************************)
(* "Command too long. Discarded.", prints programs/sh.c at line 35 for a   *)
(* full line: so no program is loaded for it.                              *)
(***************************************************************************)
FullLineIsDiscarded ==
  [][\A p \in Pid : line[p].full => ~Execve(p)]_allVars

=============================================================================
