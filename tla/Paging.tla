------------------------------- MODULE Paging ------------------------------
(***************************************************************************)
(* The memory manager of leanux (kernel/mm.c) and its clients: the         *)
(* creation of the first process, fork and shared_fork (kernel/sched.c),   *)
(* which build the address space of a process, and the programs in these   *)
(* address spaces.  Page tables are there in full; what a page holds for   *)
(* anyone else is one value.  Nothing is ever freed.                       *)
(*                                                                         *)
(* The operations run with interrupts off, or before there is a process to *)
(* switch to: each is one step.                                            *)
(***************************************************************************)
EXTENDS Naturals, FiniteSets, FiniteSetsExt

CONSTANTS
  ENTRIES,      \* entries of a page table and of a page directory, 1024
  TEMP,         \* the virtual page 0x700, through which pages are copied
  num_of_page,  \* pages of physical memory
  REFS,         \* values of an entry of mem_map, 256
  kernel_page_break,  \* last page that the kernel's image and mem_map need
  MAX_PID,      \* bound on the processes created
  Data,         \* what a program can keep in a page
  NoData

ASSUME PagingAssumption ==
  /\ ENTRIES \in Nat /\ ENTRIES > 4
  /\ TEMP \in ENTRIES .. 2 * ENTRIES - 1
  /\ num_of_page \in Nat /\ num_of_page > 2 * ENTRIES
  /\ REFS \in Nat \ {0}
  /\ MAX_PID \in Nat \ {0}
  /\ kernel_page_break \in Nat /\ kernel_page_break >= 2
  /\ NoData \notin Data

\* A process takes up to three pages below ENTRIES, four from there to TEMP, and
\* one user page may be shared by all.  (With the constants of the code this
\* allows some 190 processes.)
ASSUME EnoughPages ==
  /\ kernel_page_break + 3 * MAX_PID + 4 <= ENTRIES
  /\ ENTRIES + 4 * MAX_PID - 1 <= TEMP
  /\ MAX_PID + 2 < REFS

Page == 0 .. num_of_page
Pid == 1 .. MAX_PID

\* Virtual pages: the program, the stack of a process and, below it, the page
\* through which fork fills the stack of a child.
USER_PROG == 2 * ENTRIES
STACK == ENTRIES * ENTRIES - 1
CHILD_STACK == STACK - 1

\* The page directory and the page table in the kernel's image, and the entry of
\* a table that is not present.
kernel_pd == 1
kernel_pt == 2
Absent == 0

EmptyTable == [e \in 0 .. ENTRIES - 1 |-> Absent]

VARIABLES
  memory,    \* mem_map, and every page as a table and as data
  process,   \* page_dir, page_no and page of the struct process_t of a pid
  next_pid,
  current,   \* the process whose page directory is in cr3, or 0
  owner      \* history: the process that owns the user page of a process

vars == <<memory, process, next_pid, current, owner>>

-----------------------------------------------------------------------------
(* mm.c, as functions of the memory m                                      *)

\* The first free page between the bounds, or upper_bound + 1.
alloc_page(m, lower_bound, upper_bound) ==
  CHOOSE i \in lower_bound .. upper_bound + 1 :
    /\ i <= upper_bound => m.map[i] = 0
    /\ \A j \in lower_bound .. i - 1 : m.map[j] # 0

LowPage(m) == alloc_page(m, 0, ENTRIES - 1)
HighPage(m) == alloc_page(m, ENTRIES, num_of_page)

Entry(m, table, e) == m.table[table][e]

\* The page to which pd maps vir.
Translate(m, pd, vir) ==
  LET pt == Entry(m, pd, vir \div ENTRIES)
  IN IF pt = Absent THEN Absent ELSE Entry(m, pt, vir % ENTRIES)

\* Mutant: the page mapped is not counted.
SetUncounted(m, pd, vir, phy) ==
  [m EXCEPT !.table[Entry(m, pd, vir \div ENTRIES)][vir % ENTRIES] = phy]

\* Mutant: the page is mapped where it is in physical memory.
SetIdentity(m, pd, vir, phy) ==
  [m EXCEPT !.table[Entry(m, pd, vir \div ENTRIES)][vir % ENTRIES] = vir,
            !.map[phy] = (@ + 1) % REFS]

SetEntry(m, pd, vir, phy) ==
  [m EXCEPT !.table[Entry(m, pd, vir \div ENTRIES)][vir % ENTRIES] = phy,
            !.map[phy] = (@ + 1) % REFS]

AddTable(m, pd, pde, new) ==
  [SetEntry(m, kernel_pd, new, new) EXCEPT !.table[new] = EmptyTable,
                                           !.table[pd][pde] = new]

mm_mmap(m, pd, vir, phy) ==
  IF Entry(m, pd, vir \div ENTRIES) = Absent
  THEN SetEntry(AddTable(m, pd, vir \div ENTRIES, LowPage(m)), pd, vir, phy)
  ELSE SetEntry(m, pd, vir, phy)

\* memory_copy of a page, both addresses in the address space of pd.
memory_copy(m, pd, to, from) ==
  [m EXCEPT !.data[Translate(m, pd, to)] = m.data[Translate(m, pd, from)]]

\* A page of its own for vir in pd_to, filled through pd, the current directory.
CopyEntry(m, pd, pd_to, vir) ==
  LET target == HighPage(m)
      known == mm_mmap(m, kernel_pd, target, target)
      reached == mm_mmap(known, pd, TEMP, target)
  IN memory_copy(mm_mmap(reached, pd_to, vir, target), pd, TEMP, vir)

\* Virtual pages in the tables that are copied deeply.
Copied(m, pd) ==
  {vir \in 2 * ENTRIES .. (ENTRIES - 1) * ENTRIES - 1 : Translate(m, pd, vir) # Absent}

\* Mutant: the second table is left to be created.
SharedTablesOne == {0}

\* The tables that a copy refers to.
SharedTables == {0, 1}

copy_pd_and_pts(m, pd, pd_to) ==
  LET known == mm_mmap(m, kernel_pd, pd_to, pd_to)
      shallow == [known EXCEPT !.table[pd_to] =
                    [e \in 0 .. ENTRIES - 1 |->
                       IF e \in SharedTables THEN Entry(known, pd, e) ELSE Absent]]
      copied[todo \in SUBSET Copied(m, pd)] ==
        IF todo = {} THEN shallow
        ELSE CopyEntry(copied[todo \ {Max(todo)}], pd, pd_to, Max(todo))
  IN copied[Copied(m, pd)]

-----------------------------------------------------------------------------
NoProcess == [page_dir |-> Absent, page_no |-> Absent, page |-> Absent]

\* page_init.
KernelTables ==
  [g \in Page |->
     IF g = kernel_pd THEN [EmptyTable EXCEPT ![0] = kernel_pt]
     ELSE IF g = kernel_pt
     THEN [e \in 0 .. ENTRIES - 1 |-> IF e <= kernel_page_break THEN e ELSE Absent]
     ELSE EmptyTable]

\* mm_init, which leaves the last entry of mem_map to chance.
CountedPages(last) ==
  [g \in Page |-> IF g = num_of_page THEN last
                  ELSE IF g <= kernel_page_break + 1 THEN 1 ELSE 0]

Init ==
  /\ \E last \in {0, 1} :
       memory = [map   |-> CountedPages(last),
                 table |-> KernelTables,
                 data  |-> [g \in Page |-> NoData]]
  /\ process = [p \in Pid |-> NoProcess]
  /\ next_pid = 1
  /\ current = 0
  /\ owner = [p \in Pid |-> p]

AddProcess(pd, no, g) ==
  /\ process' = [process EXCEPT ![next_pid] = [page_dir |-> pd, page_no |-> no, page |-> g]]
  /\ next_pid' = next_pid + 1

\* The structure of the new process at its own page, as seen through pd.
MapStructure(m, pd, g) ==
  LET k == mm_mmap(m, pd, g, g) IN [k EXCEPT !.data[Translate(k, pd, g)] = next_pid]

\* The program is read from the disk into page g.
load_program(m, g, d) == [m EXCEPT !.data[g] = d]

\* exec_program and init_process, for the shell.
exec_program ==
  /\ next_pid = 1
  /\ LET g == HighPage(memory)
         m1 == MapStructure(memory, kernel_pd, g)
         pd == LowPage(m1)
         m2 == mm_mmap(m1, kernel_pd, pd, pd)
         m3 == [m2 EXCEPT !.table[pd] = [EmptyTable EXCEPT ![0] = Entry(m2, kernel_pd, 0)]]
         no == HighPage(m3)
         m4 == mm_mmap(mm_mmap(m3, kernel_pd, no, no), pd, USER_PROG, no)
         m5 == mm_mmap(m4, pd, STACK, HighPage(m4))
     IN /\ \E d \in Data : memory' = load_program(mm_mmap(m5, pd, g, g), no, d)
        /\ AddProcess(pd, no, g)
  /\ UNCHANGED <<current, owner>>

\* What both forks do first: the structure, and a copy of the page directory.
BeginFork(pd, g, pd_to) ==
  copy_pd_and_pts(MapStructure(memory, pd, g), pd, pd_to)

\* Mutant: the child keeps the parent's stack.
SameStack(m, pd, pd_to) == mm_mmap(m, pd_to, STACK, Translate(m, pd, STACK))

\* The child's stack, a copy of the parent's.
CopyStack(m, pd, pd_to) ==
  LET stack_no == HighPage(m)
      reached == mm_mmap(m, pd, CHILD_STACK, stack_no)
  IN memory_copy(mm_mmap(reached, pd_to, STACK, stack_no), pd, CHILD_STACK, STACK)

\* Mutant: the copy of the user page is forgotten.
EmptyUserPage(m, pd, pd_to, no) ==
  mm_mmap(mm_mmap(m, pd, TEMP, no), pd_to, USER_PROG, no)

\* The child's user page, a copy of the parent's.
CopyUserPage(m, pd, pd_to, no) ==
  LET reached == mm_mmap(m, pd, TEMP, no)
  IN memory_copy(mm_mmap(reached, pd_to, USER_PROG, no), pd, TEMP, USER_PROG)

sys_fork ==
  /\ current # 0 /\ next_pid \in Pid
  /\ LET pd == process[current].page_dir
         g == HighPage(memory)
         pd_to == LowPage(MapStructure(memory, pd, g))
         m1 == BeginFork(pd, g, pd_to)
         no == HighPage(m1)
         m2 == CopyStack(CopyUserPage(m1, pd, pd_to, no), pd, pd_to)
     IN /\ memory' = mm_mmap(m2, pd_to, g, g)
        /\ AddProcess(pd_to, no, g)
  /\ UNCHANGED <<current, owner>>

sys_shared_fork ==
  /\ current # 0 /\ next_pid \in Pid
  /\ LET pd == process[current].page_dir
         g == HighPage(memory)
         pd_to == LowPage(MapStructure(memory, pd, g))
         no == process[current].page_no
         m1 == mm_mmap(BeginFork(pd, g, pd_to), pd_to, USER_PROG, no)
     IN /\ memory' = mm_mmap(CopyStack(m1, pd, pd_to), pd_to, g, g)
        /\ AddProcess(pd_to, no, g)
  /\ owner' = [owner EXCEPT ![next_pid] = owner[current]]
  /\ UNCHANGED current

\* switch_pd, in force_switch.
switch_pd ==
  /\ \E p \in 1 .. next_pid - 1 : current' = p
  /\ UNCHANGED <<memory, process, next_pid, owner>>

\* The program that runs, or execve, writes to its page or to its stack.
Write ==
  /\ current # 0
  /\ \E vir \in {USER_PROG, STACK}, d \in Data :
       memory' = [memory EXCEPT !.data[Translate(memory, process[current].page_dir, vir)] = d]
  /\ UNCHANGED <<process, next_pid, current, owner>>

Next == exec_program \/ sys_fork \/ sys_shared_fork \/ switch_pd \/ Write

Spec == Init /\ [][Next]_vars

-----------------------------------------------------------------------------
Processes == 1 .. next_pid - 1

PageOf(p, vir) == Translate(memory, process[p].page_dir, vir)

\* What p reads at vir.
Sees(p, vir) == memory.data[PageOf(p, vir)]

(***************************************************************************)
(* The types of the memory manager's state.                                *)
(***************************************************************************)
TypeOK ==
  /\ memory.map \in [Page -> 0 .. REFS - 1]
  /\ memory.table \in [Page -> [0 .. ENTRIES - 1 -> Page]]
  /\ memory.data \in [Page -> Data \cup Pid \cup {NoData}]
  /\ process \in [Pid -> [page_dir : Page, page_no : Page, page : Page]]
  /\ next_pid \in 1 .. MAX_PID + 1
  /\ current \in 0 .. MAX_PID
  /\ owner \in [Pid -> Pid]

(***************************************************************************)
(* Every process structure is at its own address, with its own contents,   *)
(* in the address space of every process: force_switch, sys_exit and the   *)
(* list operations follow pointers to the structures of all processes in   *)
(* the address space of whichever is current.                              *)
(***************************************************************************)
StructuresVisible ==
  \A p, q \in Processes :
    PageOf(q, process[p].page) = process[p].page /\ Sees(q, process[p].page) = p

(***************************************************************************)
(* At the addresses of its program and its stack, no process has the stack *)
(* of another, and two have one user page only if shared_fork made them    *)
(* share it; none of these pages is a page directory, a page table or a    *)
(* process structure.  (The windows of fork, 0x700 and 0xFFFFE, are not    *)
(* meant: there a parent keeps the pages of its last child in view.)       *)
(***************************************************************************)
MemoryIsPrivate ==
  \A p, q \in Processes :
    /\ PageOf(p, USER_PROG) = process[p].page_no
    /\ PageOf(p, STACK) = PageOf(q, STACK) => p = q
    /\ PageOf(p, USER_PROG) = PageOf(q, USER_PROG) <=> owner[p] = owner[q]
    /\ PageOf(p, USER_PROG) # PageOf(q, STACK)
    /\ \A own \in {PageOf(p, USER_PROG), PageOf(p, STACK)} :
         own >= ENTRIES /\ own # process[q].page

(***************************************************************************)
(* The counts of mem_map: a page that is in use, mapped by a process or    *)
(* one of its tables, is not free for alloc_page; and a user page counts   *)
(* exactly one mapping more than there are processes that share it, the    *)
(* one through which it was filled, so that no number of shared forks has  *)
(* wrapped its count, eight bits wide, around.                             *)
(***************************************************************************)
UsedPagesCounted ==
  \A p \in Processes :
    LET pd == process[p].page_dir
        sharing == {q \in Processes : owner[q] = owner[p]}
    IN /\ memory.map[PageOf(p, USER_PROG)] = 1 + Cardinality(sharing)
       /\ memory.map[pd] # 0
       /\ \A e \in 0 .. ENTRIES - 1 :
            LET pt == Entry(memory, pd, e)
            IN pt # Absent =>
                 /\ memory.map[pt] # 0
                 /\ \A k \in 0 .. ENTRIES - 1 :
                      Entry(memory, pt, k) # Absent => memory.map[Entry(memory, pt, k)] # 0

(***************************************************************************)
(* A forked child starts with the memory of its parent, and nobody's       *)
(* memory changes by the fork, though it copies through the parent's own   *)
(* page tables.                                                            *)
(***************************************************************************)
ForkCopies ==
  [][\A vir \in {USER_PROG, STACK}, p \in Processes :
       next_pid' # next_pid =>
         /\ Sees(p, vir)' = Sees(p, vir)
         /\ p = current => \A child \in Processes' \ Processes : Sees(child, vir)' = Sees(p, vir)]_vars

=============================================================================
