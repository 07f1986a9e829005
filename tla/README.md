# Verification of leanux

Leanux is a small i386 kernel: protected mode, paging, preemptive processes
with `fork`, `shared_fork`, `waitpid`, `exit` and `execve`, a terminal, a
keyboard and a shell. This directory holds TLA+ models of it, the TLC
configurations that check them, and TLAPS proofs. Paths are relative to the
repository (`src/`).

## The system

| component | state | operations | what makes it correct |
|---|---|---|---|
| scheduler (`kernel/sched.c`, `interrupts/isr.S`) | `current_process`, `process_list`, `ready_list`, `blocked_list`, `next_pid`, `struct process_t`, `stored_esp` | `init_process`, `add_process`, `_sys_fork`, `_sys_shared_fork`, `sys_waitpid`, `sys_exit`, `force_switch` | a live process is in one place, its context is its own, waiters are woken by their children, ready processes run |
| timer (`kernel/timer.c`) | event list, chip | `timer_init`, `register_timer_event`, `_int_20_timer`, `unregister_timer_event` | events come on time, the timer never dies |
| system calls (`kernel/syscall.c`, `include/leanux/sys.h`) | none of its own; IF | `_syscall`, `sys_execve`, `sys_read`, writers, `lab_` calls | each wrapper reaches its function; interrupts are on again wherever the kernel waits |
| shell and programs (`programs/`) | a line, a page of data | read, fork, wait, execve, exit | commands run in the foreground |
| boot (`init/main.c`) | the place in `kernel_main` | `kernel_main`, `exec_program`, `animation` | nothing is requested before it can be served, nothing is left undone when the shell takes over |
| keyboard (`drivers/keyboard.c`, `lib/cirqueue.c`) | `kb_buf` | interrupt handler, `cirqueue_serve` | no key lost while there is room, none twice, in order |
| terminal (`drivers/tty.c`) | screen, cursor | `tty_putchar`, scroll, `tty_read` | the echo is the line |
| memory manager (`kernel/mm.c`) | page tables, `mem_map` | `alloc_page`, `mm_mmap`, `copy_pd_and_pts` | pages are not shared unintentionally; process structures are visible where they are used |
| interrupt controller (`kernel/interrupt.c`) | IDT, masks, requests | set-up, `register_interrupt`, `send_pic_eoi` | requests reach their handlers and are acknowledged, once |
| utilities, C library (`lib/`, `libc/`) | none | conversions, `printf`, `scanf`, string functions, device I/O | what is printed can be read back; names mean what they say |

There is one CPU. All gates are interrupt gates, so a handler or a system call
runs with interrupts off up to its `sti` or `iretd`; what interleaves is user
code, the loops of `tty_read`, `sys_waitpid` and `sys_exit`, the way out of
fork, and `kernel_main` after the first event is registered. The components
meet in few places: the timer calls `force_switch` as its event 0; system calls
and the switch share the process lists; the keyboard handler and `tty_read`
share `kb_buf`; the animation event and `tty_putchar` share the screen.

What is hard here: a switch that leaves a handler through another stack and does
not return; one global `stored_esp` for all saved frames; a process that is
BLOCKED while it still runs; system calls that spin with interrupts on, and
programs that start with interrupts *off*, because `execve` jumps into the
program without the `iretd` that would restore the flags; a queue shared with an
interrupt handler without a lock. PROJECT.json lists these hazards line by line
with the properties that watch them.

## The modules

**Sched** is the scheduler under the timer interrupt. A pointer to a
`struct process_t` is the pid of the structure, a stack pointer is the flow of
control whose frame it points to, the linked lists are sequences, and
`_sys_fork` and `_sys_shared_fork`, which differ in pages only, are one action.
A timer tick is two actions: the entry (`int_20_timer`: the frame is recorded,
IF goes off) and the handler with the switch (`handle_int_20_timer`).
A system call is one action up to the point where it turns interrupts on, and a
second one from there to user code (`fork_return`, `waitpid_return`,
`read_return`). `at[p]` is where the process executes and `user_IF[p]` the
interrupt flag of its user code. `Init` is the state in which `kernel_main`
calls `start_shell`.

**ProcList** puts the linked lists beside the sequences: each list is a head, a
tail and a size over the one `next` field of the processes, and every action of
Sched is conjoined with what the code does to these pointers. The pointers are
superposed: nothing they hold enables or forbids a step of Sched, except that the
boot-time `add_process`, which runs with interrupts on, is store by store here,
with timer ticks between the stores (the list has the shell once `size`, stored
last, says so). `ListsRepresent` says that each list, followed from its head,
spells the sequence of Sched; with it, whatever is shown of the sequences holds of
the pointers.

**ProcessLife** is what the scheduler promises: each process is *none, ready,
running, waiting* or *dead*; at most one runs; a waiting process becomes ready
when one of its children exits; ready processes run in the end. Sched
instantiates it with a refinement mapping (`Life`, `Parent`): a process counts
as waiting from the moment its status is BLOCKED, although it spins as the
current process until its slice ends.

**Shell** composes Sched with the programs on the disk: the shell, prog1 (prog2
makes the same calls), prog3, which reads from the keyboard, and prog9, the test
of `shared_fork`. Each step of a program that is a system call is the action of
Sched conjoined with the program's own step. A page is the data a process and
its `shared_fork` child have in common.

**Keyboard** is the interrupt handler's `cirqueue_enqueue`, atomic, against the
loads and stores of `cirqueue_serve`, with the word size and the buffer size as
constants; it implements **KeyFifo**, a bounded queue that hands over one key at
a time.

**Timer** is the programming of the timer chip, the registration of the
kernel's two events and the count-down loop of `_int_20_timer`, one action a
round; ticks come in as soon as the first registration turns interrupts on. The
chip (`WriteByte`) is external.

**Boot** composes Timer with the rest of what happens before the shell runs:
`kernel_main`'s calls in their order, the gates of the IDT, the interrupt
controller with its mask, its pending requests and those in service, and the
keyboard handler, whose two reads of the data port are two steps. The initial
state is what the firmware leaves: any mask of two, any pending timer or disk
request. Requests come at any time; the CPU takes one when its flag is on and the
controller passes it. A request that disappears before it is taken comes as the
spurious vector. The hardware is external, and assumed to behave in two ways:
nothing is typed before `pic_init` (which would drop it), and a tick comes only
after the previous one's handler has returned. A keyboard request that the
controller has latched may stay when the handler's second read takes the byte
away: then an arrow key counts twice, which nothing here excludes.

**Tty** is the screen with its cursor, `tty_putchar` with its scroll, the writing
calls with their colours, and the line editor of `tty_read`; the animation event
writes to the corner of the screen between any two of its stores. `start`, where
the line began, is a history variable, as `age` is in Timer and `due` in Boot. One
of the keys is a special key, whose byte is negative as a `char`: `make_vgaentry`
extends its sign, and all bits of its attribute are set (`WhiteOnWhite`).

**Stdio** is the text the programs work with: `printf` and `scanf` walking a format
character by character, `kitoa`, `katoi`, `number` and `string_ncmp`, the `lab_`
calls, the way `execve` reads the name of a program, and the table through which a
system call finds its function. Characters are codes and ints have W bits; what
the negation of the least int leaves to the compiler is a choice of two outcomes.

**Paging** is `mm.c` with the operations that use it: the first process, both
forks, the switch of the page directory, and the programs' writes. Page tables,
page directories and `mem_map` are modelled entry by entry, so that a process
sees memory only through its own tables; the data of a page is one value. A fork
is one step, made of the calls of the code in their order, each a function from
memory to memory. `owner` records which processes `shared_fork` has made share a
page. Sched's fork abstracts from all this, and Shell knows only that a
`shared_fork` child has its parent's page: `MemoryIsPrivate` and `ForkCopies`
are what justifies it.

**Sched_proofs, ProcList_proofs, Shell_proofs, Keyboard_proofs, Tty_proofs,
Boot_proofs** and **Paging_proofs** hold the theorems about the modules they are
named after; **Remainders** holds facts about division that four of them need. **MCProcList, MCSched, MCShell, MCKeyboard, MCBoot,
MCTimer, MCTty, MCStdio** and **MCPaging** are what TLC runs. Definitions introduced by "Mutant:" are
plausible faults of the code next to them; no specification uses them. Put in
place of the definition that follows, each makes TLC report the property that
PROJECT.json pairs it with.

## The runs

| configuration | checks | result |
|---|---|---|
| `MCProcList` | invariants of Sched, `ListsRepresent`, `WokenByChild`, `NoOvertaking`, step refinement of ProcessLife | hold, 1,003,770 states |
| `MCSched_live` | `TimerKeepsTicking`, `BlockedInTimeReturns`, ProcessLife with its fairness | hold, 24,282 states |
| `MCShell_safety` | foreground commands, who has the terminal, shared pages | hold, 75,279 states |
| `MCShell_prog9` | prog9's parent reports | **violated** |
| `MCShell_full` | a line reported as discarded is not run | **violated** |
| `MCKeyboard` | KeyFifo, with liveness | hold, 18,592 states |
| `MCBoot` | gates, acknowledgements, events on time, key presses | hold, 203,992 states |
| `MCTimer_period` | a tick every 10 ms | **violated** |
| `MCTty` | echo and prompt | hold, 1,473,131 states |
| `MCTty_keys` | no special key in a line | **violated** |
| `MCStdio` | conversions, system call table, program names | hold, 162,094 states |
| `MCPaging` | structures visible, memory private, pages counted, forks copy | hold, 11,890 states |

### Properties of the scheduler

- `OnePlace`: a live process is current, or once in one list; an exited one is
  nowhere. `StatusMatchesPlace` ties the status fields to the places, through
  the window after `sys_waitpid` has written BLOCKED. Both lists use the one
  `next` field of the structure: the linked lists depend on `OnePlace`.
- `ListsRepresent`: head, tail, size and next fields of both lists spell the
  sequences, also after `sys_exit` has taken a parent out of the middle.
- `OwnContext`: what a switch resumes is a frame of the process it resumes.
- `InterruptFlag`: interrupts are on in all the kernel's loops, and in user code
  they are as the program left them. `TimerKeepsTicking` follows, under
  fairness.
- `WokenByChild`, `NoOvertaking`, and the refinement of ProcessLife say how
  processes move between the places. `BlockedInTimeReturns`: a process that is
  blocked when its child exits returns from `waitpid`.

### Properties of the other parts

- Shell: `PromptMeansQuiet` (when the shell prompts, all that the command started
  is over), `TerminalIsTheReaders` (a process in `tty_read` has the terminal to
  itself: Keyboard's single reader and Tty's missing writers rest on it),
  `ParentSeesCount` and `SharedOnlyByProg9`.
- Keyboard: `FrontIsTheReaders` and `ImplementsKeyFifo`.
- Boot: `GatesReady` (with interrupts on, whatever the controller lets through has
  its handler; when the shell runs, nothing is left to set up),
  `AcknowledgedInTime` (every request is acknowledged once, before another can be
  taken), `OnTime` (no event loses a tick, whatever is registered meanwhile) and
  `PressIsQueued` (every key press reaches the buffer).
- Tty: `EchoIsTheLine` (text, place, cursor and colour: the terminal's, or white on
  white for the byte of a special key) and `PromptKept`.
- Stdio: `ScanInvertsPrint` (what `printf` wrote `sscanf` reads back, unless a digit
  follows a number), `CallsAsNamed` (wrapper and table agree; `lab_itoa` and
  `lab_atoi` are inverse with any calls between; the least int, which has no negation, is left out
  of both), `ExecveRunsNamed` (`execve` runs the program whose number the characters
  behind "prog" are taken for, whatever characters they are, and refuses any other
  path).
- Paging: `StructuresVisible`; `MemoryIsPrivate` (of the addresses of program and
  stack; through 0x700 and 0xFFFFE a parent goes on to see the pages of its last
  child); `UsedPagesCounted` (what is in use is not free, and the count of a user
  page is exactly that of the processes that share it, and one more); `ForkCopies`.

### What was found

- *A lost wake-up* (`Prog9Reports`). `sys_waitpid` blocks without looking for a
  child that has exited; `sys_exit` wakes a parent only if it is blocked. If
  prog9's child gets the CPU first and exits, prog9 and the shell wait for ever.
  The same holds for the shell's own `wait`: it needs the child to outlive the
  rest of the parent's slice. `BlockedInTimeReturns` is the part that holds.
- *A line that is reported as discarded is run* (`FullLineIsDiscarded`).
- *The tick is 33 ms, not 10 ms* (`TickEvery10ms`): the two bytes of the reload
  value are written high byte first to a chip that expects the low one.
- *Special keys are stored in the line* (`OnlyNormalKeys`): the test looks at the
  scan code instead of the key. Their bytes are echoed too, white on white.
- *A name that is none runs a program*: `katoi` takes any characters for digits, so
  that "prog1/" runs prog9, where the shell has "No such command." (`sh.c:44`) for
  names it does not know. `ExecveRunsNamed` states what the code does.

### Bounds

`MAX_PROC_NUM` is 1024 in the code. Five (pids 1 to 4) gives a shell, a child, a
grandchild and a sibling: every relation between two processes in `sys_exit` and
`force_switch`, with lists of up to three. Liveness uses 4 and Shell 6, since
prog9 needs three processes and a later command must find pids left. No pid is
ever given back, so forks stop at the bound (`PidBound`, `CommandBound`). A
slice of two ticks has a tick with a switch and one without; for Shell one is
enough, and the timer may come at every step. The circular queue has four slots
for 64, and its indices wrap at 16 for 2^32: full, empty, wrapped and the
normalising loop's test all come up, and only divisibility matters (the proofs
show this for every size). Timer and Boot use the code's intervals; their history
stops at the first switch to the shell, which `kernel_main` does not survive.
Stdio has ints of eight bits for 32, so that all of them are printed, and
texts of up to four characters over the digits and their neighbours at each
border that the code tests for. The screen is two by three for 80 by 25; a line of four fills all
but one row, the longest line for which the editor's arithmetic stays on the
screen (`TtyAssumption`; the programs read at most 128 characters, 24 rows hold
1920), and forces scrolls inside lines and backspaces over line ends.

Paging has tables of 20 entries for 1024: as in the code, tables 0 and 1 are the
kernel's and all processes', 2 the program's, the last one the stack's. Three
processes are a parent, and a child and a sibling or a child and a grandchild,
each by either fork. Nothing is freed in this kernel, and what it promises ends
with its pages: a fork takes three pages below 4 MiB, where some 750 are free,
and three or four above. Around the 190th fork a process structure would land on
page 0x700, through which forks copy; around the 250th the low pages or the eight
bits of a reference count run out; and from 8 MiB on structures would be copied
instead of shared. `EnoughPages` states the first of these limits in terms of the constants
(`kernel_page_break`, the last page of the kernel's image and `mem_map`, is one of
them). Nothing in the code checks it, although `MAX_PROC_NUM` is 1024: the
instance stays below, the proofs cover every number of processes that does, some
190 with the constants of the code and no more, and PROJECT.json lists the limits as
hazards. A reference count has six values for 256, the fewest that `EnoughPages`
allows for three processes.

### Fairness

The timer chip requests interrupts for ever and the controller holds a request
until the CPU takes it: strong fairness of `int_20_timer`. A handler that has
begun runs to its end: weak fairness. A process gets whole ticks of CPU in slice
after slice, each tick briefly disabling what it would do next: strong fairness
for its return from the kernel and, in Shell, for the steps of a program.
Programs owe no system call and users no key, with one exception: a program that
has interrupts off does not compute for ever (`LetsInterruptsIn`), or it would
stop the machine, timer included. The programs on the disk meet this.
The reader of Keyboard has weak fairness, as every handler returns to it. In Boot
the CPU goes on executing (weak fairness of `kernel_main` and of the handlers) and
takes a pending request whenever its flag lets it: strong fairness, because between
the end of a tick's handler and the next tick there is time for the keyboard's.

## The proofs

`Sched_proofs` proves, for every `MAX_PROC_NUM` and every `SLICE`, the
invariants of Sched, its two action properties, and that each of its steps is a
step of ProcessLife or changes no life. The assumptions are `SchedAssumption`
only.

The invariants are not inductive one by one. `IInv` adds four facts to them:
`Numbering` (pids are given in order and a process is registered under its own
pid, so a new process is in no list), `Boot` (until the shell is registered
`kernel_main` is alone), `NoStrayWaiter` (a process in no place never looks like
a waiter: an exited parent is not put back into the ready list) and `Suspended`
(a process that lost the CPU in user code had its interrupts on there, so the
`iretd` that resumes it may turn them on). The list operations have lemmas of
their own (`EnqueueLemma`, `ServeLemma`, `RemoveLemma`); each action then has
one lemma that it preserves `IInv`, and one that it maps to a step of
ProcessLife (`ForkLife`, `WaitLife`, `ExitLife`, `SwitchLife`,
`ExecProgramLife`). `CurrentExecutes` is used throughout: a system call is made
by the current process.

`ProcList_proofs` proves, for every `MAX_PROC_NUM`, that the linked lists represent
the sequences (`ListsCorrect`) and that the pointer version implements Sched
(`ListsAreSched`), so that every theorem about Sched holds of it. `OnePlace` from
`IInv` is what keeps an enqueue in one list from cutting the other: the lists are
disjoint, so a `next` field is in one of them at most.

`Keyboard_proofs` proves, for every buffer of two slots or more and every word whose
size the buffer's divides, that the handler never moves the index the reader has
loaded (`FrontCorrect`) and that every step of the two is a step of KeyFifo or a
stutter (`QueueRefinesFifo`). It rests on the facts in `Remainders`, from `DivMod`
to `Distinct`, because the number of entries is a difference of words that have
wrapped around, taken modulo the size. The invariant `KInv` adds
that what lies between front and end are keys, and that a reader past its test still
has an entry to take. `EnqueueMoves` and `ServeMoves` are the two operations in terms
of `Between` and `Slot`.

`Shell_proofs` proves the invariants of Shell for every `MAX_PROC_NUM` and
`SLICE`. First, ShellSpec implements Sched's Spec (`ProgramsUseTheScheduler`): each
program step is one of Sched's or leaves its variables alone, so `IInv` holds here
too. On top of it, `SInv` says how the programs depend on each other: `Places` ties
the place of a program to that of its process, `Kinds` says which programs can be in
which place, and `Tree` that every active process but the shell is the only active
child of one that waits, or whose next call is `waitpid`: a line of descent from
the shell to whoever acts. That line is why a process in `tty_read` is alone
(`ReadersOwnTheTerminal`) and why the prompt comes when all is quiet
(`CommandsRunInTheForeground`).

`Tty_proofs` proves, for every screen of two by two or more, every set of characters
and every line length that leaves one row (`TtyAssumption`, which also says that no
key stands for a line feed, a carriage return or a backspace, as is the case in
`KEYMAP`), that the echo is the line (`EchoCorrect`), that what is before it is kept
(`PromptStays`) and that all stores are on the screen (`TtyTypeCorrect`).
`EchoIsTheLine` speaks of the moments between two keys; `EchoInv` adds what holds
between the change of the buffer and its echo (`Echoes`), and between the two halves
of a scroll (`InScroll`), when the line is already one row above where `start` says.
`Screen`, `Rows` and `LastColumn` are the facts about offsets, and `StoreCharacter`,
`StoreControl`, `StoreBackspace` and `Scroll` say what the functions on a terminal
return. A line that may fill the whole screen would break the theorem: a scroll would
lose its first row.

`Boot_proofs` proves the invariants of the boot for every two intervals of the timer
events. `Progress`, `Gates` and `OnlyThen` read off the line of `kernel_main` which
gates are set, which events are registered and that no handler has run before the
first of them is; `InService` says what is in service in each handler. The timer's part is
`EventsCounted`: a tick ages all counted events at once but counts them down one by
one, so an event before its turn is `Pending`, one behind (or just due), and
`Settled` after it; the event that is filled in but not counted yet is settled too.
Lemmas about Timer's own actions (`RegisterStep`, `CountStep`, `TickStep`,
`CountDownStep`) come before those about Boot's.

`Paging_proofs` proves all that is checked of Paging, for tables of any size and any
number of processes within `EnoughPages`. The pages are taken in order and never
given back, so `IInv` can say where everything is: `Dir(p)`, `UserTable(p)` and
`StackTable(p)` follow from the pid, `CommonTable` holds the structures of all
processes, and `Ready` says that the low and the high pages are taken up to some
point (`Counted`), that the count of each user page is that of the processes that
share it, and one more (`Shared`), that the tables of each process refer to its user page, its stack
and the structures (`Space`), and that these are all different pages (`Apart`).
Before `exec_program`, `Booted` holds instead. `Put` and `NewTable` describe the two
things `mm_mmap` can do, `PutUsed`, `PutHigh`, `PutLow` and `TableCounted` what they do
to the counts. A fork is then followed call by call (`StructureMapped`,
`ShallowCopied`, `EntryCopied`, `UserPageCopied`, `StackCopied`, `OwnStructureMapped`):
what it writes is a new page, a table of the kernel's own, or one of three known entries
of the shared table and of its own stack's (`Kept`), so the processes there were keep
their layout
(`DirectoryKept`) and the new one gets its own (`ForkReady`). The counts follow from `OneMore` (a fork counts one
mapping more of one page) and `SharingGrows` (it makes those who share that page one
more), with the library's facts about cardinalities. `OneCopied` is why the
loop of `copy_pd_and_pts` over a whole directory comes to one copied page.

Only model-checked: Stdio, whose functions are recursive functions over data, so that
what they compute cannot be proved by induction here;
and all liveness (`TimerKeepsTicking`, `BlockedInTimeReturns`, `PressIsQueued`, the
fair part of ProcessLife and KeyFifo), which is out of the prover's reach.

## Not modelled

- The bits of page table entries (every entry is writable, all code runs in ring
  0), the TLB (every change is followed by a flush), page faults, whose handler
  stops the machine.
- `unregister_timer_event` and one-shot events: the kernel registers two periodic
  events and never takes one away.
- `tty_getcursor`, `tty_setcolor`, `cirqueue_front`, `string_cmp`, the C library's
  `atoi`, `strcpy` and `strncpy`, which nothing calls, and `vsprintf.c`, a stub.
- The port routines and the disk (`lib/asm_utils.S`, `kernel/low_level.c`); the
  second interrupt controller beyond its requests, which stay masked.
- Nested interrupts between the keyboard handler's `sti` and its `iretd`.
- `init/sh.c`, which is not linked into the kernel.

## Plan

1. *Proofs about Stdio*: `ExecveRunsNamed`, if `string_ncmp` can be reasoned about
   without induction.
2. *Paging beyond its limits*: a small instance that forks until the pages run out,
   once the code says what is to happen then.
