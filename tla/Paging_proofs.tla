--------------------------- MODULE Paging_proofs ----------------------------
(***************************************************************************)
(* Proofs about Paging, for tables of any size, any number of pages and as *)
(* many processes as EnoughPages allows: with the constants of the code    *)
(* some 190 of the 1024 that MAX_PROC_NUM names.                           *)
(*                                                                         *)
(* Every operation takes the first free pages there are, and nothing is    *)
(* freed: which page becomes the directory or a table of a process follows *)
(* from its pid, and what a fork does to the memory can be followed page   *)
(* by page.                                                                *)
(***************************************************************************)
EXTENDS Paging, Remainders, FiniteSetTheorems

Slot == 0 .. ENTRIES - 1
Contents == Data \cup Pid \cup {NoData}

Memory ==
  [map : [Page -> 0 .. REFS - 1], table : [Page -> [Slot -> Page]], data : [Page -> Contents]]

-----------------------------------------------------------------------------
(* Where the code's addresses are in a directory and in a table.           *)

LEMMA Sizes ==
  /\ ENTRIES \in Nat /\ ENTRIES > 8
  /\ TEMP \in Nat /\ ENTRIES <= TEMP /\ TEMP < 2 * ENTRIES
  /\ num_of_page \in Nat /\ num_of_page > 2 * ENTRIES
  /\ REFS \in Nat /\ MAX_PID \in Nat /\ MAX_PID >= 1
  /\ kernel_page_break \in Nat /\ kernel_page_break >= 2
  /\ kernel_page_break + 3 * MAX_PID + 4 <= ENTRIES
  /\ ENTRIES + 4 * MAX_PID - 1 <= TEMP
  /\ MAX_PID + 2 < REFS
BY PagingAssumption, EnoughPages

LEMMA PlaceOf ==
  ASSUME NEW q \in Nat, NEW r \in Slot
  PROVE  /\ (ENTRIES * q + r) \div ENTRIES = q
         /\ (ENTRIES * q + r) % ENTRIES = r
<1>1. ENTRIES \in Nat \ {0} /\ q \in Int /\ r \in 0 .. ENTRIES - 1
  BY Sizes DEF Slot
<1> QED BY <1>1, Quotient, Remainder

LEMMA UserPlace == USER_PROG \div ENTRIES = 2 /\ USER_PROG % ENTRIES = 0
<1>1. USER_PROG = ENTRIES * 2 + 0 /\ 0 \in Slot /\ 2 \in Nat
  BY Sizes DEF USER_PROG, Slot
<1> QED BY <1>1, PlaceOf

LEMMA StackPlaces ==
  /\ STACK \div ENTRIES = ENTRIES - 1 /\ STACK % ENTRIES = ENTRIES - 1
  /\ CHILD_STACK \div ENTRIES = ENTRIES - 1 /\ CHILD_STACK % ENTRIES = ENTRIES - 2
<1>1. /\ STACK = ENTRIES * (ENTRIES - 1) + (ENTRIES - 1)
      /\ CHILD_STACK = ENTRIES * (ENTRIES - 1) + (ENTRIES - 2)
  <2>1. ENTRIES * (ENTRIES - 1) = ENTRIES * ENTRIES - ENTRIES
    BY Sizes
  <2>2. ENTRIES * ENTRIES \in Nat
    BY Sizes
  <2> QED BY <2>1, <2>2, Sizes DEF STACK, CHILD_STACK
<1>2. ENTRIES - 1 \in Nat /\ ENTRIES - 1 \in Slot /\ ENTRIES - 2 \in Slot
  BY Sizes DEF Slot
<1> QED BY <1>1, <1>2, PlaceOf

LEMMA LowPlace ==
  ASSUME NEW g \in Nat, g < ENTRIES
  PROVE  g \div ENTRIES = 0 /\ g % ENTRIES = g
<1>1. g = ENTRIES * 0 + g /\ g \in Slot
  BY Sizes DEF Slot
<1> QED BY <1>1, PlaceOf

LEMMA CommonPlace ==
  ASSUME NEW g \in Nat, ENTRIES <= g, g < 2 * ENTRIES
  PROVE  g \div ENTRIES = 1 /\ g % ENTRIES = g - ENTRIES
<1>1. g = ENTRIES * 1 + (g - ENTRIES) /\ g - ENTRIES \in Slot
  BY Sizes DEF Slot
<1> QED BY <1>1, PlaceOf

-----------------------------------------------------------------------------
(* What the operations of mm.c do to a memory.                             *)

LEMMA AllocIs ==
  ASSUME NEW m, NEW first \in Nat, NEW last \in Nat, NEW l \in Nat,
         first <= l, l <= last, m.map[l] = 0,
         \A j \in first .. l - 1 : m.map[j] # 0
  PROVE  alloc_page(m, first, last) = l
<1> DEFINE Free(i) == /\ i <= last => m.map[i] = 0
                      /\ \A j \in first .. i - 1 : m.map[j] # 0
<1>1. l \in first .. last + 1 /\ Free(l)
  OBVIOUS
<1>2. ASSUME NEW i \in first .. last + 1, Free(i) PROVE i = l
  <2>1. ~(i < l)
    <3> SUFFICES ASSUME i < l PROVE FALSE
      OBVIOUS
    <3>1. i \in first .. l - 1 /\ i <= last
      OBVIOUS
    <3> QED BY <3>1, <1>2
  <2>2. ~(l < i)
    <3> SUFFICES ASSUME l < i PROVE FALSE
      OBVIOUS
    <3>1. l \in first .. i - 1
      OBVIOUS
    <3> QED BY <3>1, <1>2
  <2> QED BY <2>1, <2>2
<1> HIDE DEF Free
<1>3. (CHOOSE i \in first .. last + 1 : Free(i)) = l
  BY <1>1, <1>2
<1> QED BY <1>3 DEF alloc_page, Free

\* Low and high pages are taken in order, up to l and h; no count is above k, and
\* no table refers to a page that is free.
Counted(m, l, h, k) ==
  /\ \A g \in Page : g < l => m.map[g] # 0
  /\ \A g \in Page : l <= g /\ g < ENTRIES => m.map[g] = 0
  /\ \A g \in Page : ENTRIES <= g /\ g < h => m.map[g] # 0
  /\ \A g \in Page : h <= g /\ g < num_of_page => m.map[g] = 0
  /\ \A g \in Page : m.map[g] <= k
  /\ \A t \in Page, e \in Slot : m.map[m.table[t][e]] # 0

LEMMA LowPageIs ==
  ASSUME NEW m, NEW l \in Nat, NEW h, NEW k, Counted(m, l, h, k), l < ENTRIES
  PROVE  LowPage(m) = l
<1>1. l \in Page /\ \A j \in 0 .. l - 1 : j \in Page /\ j < l
  BY Sizes DEF Page
<1>2. m.map[l] = 0 /\ \A j \in 0 .. l - 1 : m.map[j] # 0
  BY <1>1, Sizes DEF Counted
<1>3. 0 \in Nat /\ ENTRIES - 1 \in Nat /\ 0 <= l /\ l <= ENTRIES - 1
  BY Sizes
<1>4. alloc_page(m, 0, ENTRIES - 1) = l
  BY <1>2, <1>3, AllocIs
<1> QED BY <1>4 DEF LowPage

LEMMA HighPageIs ==
  ASSUME NEW m, NEW l, NEW h \in Nat, NEW k, Counted(m, l, h, k),
         ENTRIES <= h, h < num_of_page
  PROVE  HighPage(m) = h
<1>1. h \in Page /\ \A j \in ENTRIES .. h - 1 : j \in Page /\ j < h /\ ENTRIES <= j
  BY Sizes DEF Page
<1>2. m.map[h] = 0 /\ \A j \in ENTRIES .. h - 1 : m.map[j] # 0
  BY <1>1, Sizes DEF Counted
<1>3. ENTRIES \in Nat /\ num_of_page \in Nat /\ h <= num_of_page
  BY Sizes
<1>4. alloc_page(m, ENTRIES, num_of_page) = h
  BY <1>2, <1>3, AllocIs
<1> QED BY <1>4 DEF HighPage

LEMMA FirstFree ==
  ASSUME NEW m, NEW l \in Nat, NEW h \in Nat, NEW k, Counted(m, l, h, k)
  PROVE  /\ l < ENTRIES => m.map[l] = 0
         /\ ENTRIES <= h /\ h < num_of_page => m.map[h] = 0
BY Sizes DEF Counted, Page

\* n is m with page g in entry e of table t.
Put(m, n, t, e, g) ==
  /\ n \in Memory
  /\ n.table[t][e] = g
  /\ \A x \in Page, y \in Slot : ~(x = t /\ y = e) => n.table[x][y] = m.table[x][y]
  /\ n.map[g] = m.map[g] + 1
  /\ \A x \in Page : x # g => n.map[x] = m.map[x]
  /\ n.data = m.data

LEMMA SetEntryPuts ==
  ASSUME NEW m \in Memory, NEW pd \in Page, NEW vir \in Nat, NEW g \in Page,
         NEW i \in Slot, NEW e \in Slot, vir \div ENTRIES = i, vir % ENTRIES = e,
         m.map[g] + 1 < REFS
  PROVE  Put(m, SetEntry(m, pd, vir, g), m.table[pd][i], e, g)
<1> DEFINE t == m.table[pd][i]
           n == SetEntry(m, pd, vir, g)
<1>1. t \in Page /\ m.map[g] \in 0 .. REFS - 1
  BY DEF Memory
<1>2. m.map[g] + 1 \in 0 .. REFS - 1
  BY <1>1, Sizes
<1>3. (m.map[g] + 1) % REFS = m.map[g] + 1
  <2>1. REFS \in Nat \ {0}
    BY Sizes
  <2> QED BY <1>2, <2>1, Small
<1>4. n = [m EXCEPT !.table[t][e] = g, !.map[g] = m.map[g] + 1]
  BY <1>3 DEF SetEntry, Entry
<1> HIDE DEF n, t
<1>5. /\ n.table = [m.table EXCEPT ![t] = [m.table[t] EXCEPT ![e] = g]]
      /\ n.map = [m.map EXCEPT ![g] = m.map[g] + 1]
      /\ n.data = m.data
  BY <1>4 DEF Memory
<1>6. n \in Memory
  <2>1. [m.table EXCEPT ![t] = [m.table[t] EXCEPT ![e] = g]] \in [Page -> [Slot -> Page]]
    BY <1>1 DEF Memory
  <2>2. [m.map EXCEPT ![g] = m.map[g] + 1] \in [Page -> 0 .. REFS - 1]
    BY <1>2 DEF Memory
  <2>3. n = [map |-> n.map, table |-> n.table, data |-> n.data]
    BY <1>4 DEF Memory
  <2> QED BY <1>5, <2>1, <2>2, <2>3 DEF Memory
<1>7. n.table[t][e] = g /\ \A x \in Page, y \in Slot : ~(x = t /\ y = e) => n.table[x][y] = m.table[x][y]
  BY <1>1, <1>5 DEF Memory
<1>8. n.map[g] = m.map[g] + 1 /\ \A x \in Page : x # g => n.map[x] = m.map[x]
  BY <1>5 DEF Memory
<1> QED BY <1>5, <1>6, <1>7, <1>8 DEF Put, n, t

LEMMA MapPresent ==
  ASSUME NEW m \in Memory, NEW pd \in Page, NEW vir \in Nat, NEW g \in Page,
         NEW i \in Slot, NEW e \in Slot, vir \div ENTRIES = i, vir % ENTRIES = e,
         m.table[pd][i] # Absent, m.map[g] + 1 < REFS
  PROVE  Put(m, mm_mmap(m, pd, vir, g), m.table[pd][i], e, g)
<1>1. mm_mmap(m, pd, vir, g) = SetEntry(m, pd, vir, g)
  BY DEF mm_mmap, Entry
<1> QED BY <1>1, SetEntryPuts

\* n is m with page l as a table in entry i of the directory pd, and page g in entry
\* e of that table.
NewTable(m, n, pd, i, l, e, g) ==
  /\ n \in Memory
  /\ n.table[pd][i] = l
  /\ n.table[kernel_pt][l] = l
  /\ n.table[l][e] = g
  /\ \A y \in Slot : y # e => n.table[l][y] = Absent
  /\ \A x \in Page, y \in Slot :
       x # l /\ ~(x = pd /\ y = i) /\ ~(x = kernel_pt /\ y = l) => n.table[x][y] = m.table[x][y]
  /\ n.map[l] = 1
  /\ n.map[g] = m.map[g] + 1
  /\ \A x \in Page : x # l /\ x # g => n.map[x] = m.map[x]
  /\ n.data = m.data

LEMMA AddTableAdds ==
  ASSUME NEW m \in Memory, NEW pd \in Page, NEW i \in Slot, NEW l \in Nat,
         m.table[kernel_pd][0] = kernel_pt, m.map[l] = 0,
         kernel_pt < l, l < ENTRIES, pd # l, pd # kernel_pt
  PROVE  LET n == AddTable(m, pd, i, l)
         IN /\ n \in Memory
            /\ n.table[pd][i] = l
            /\ n.table[kernel_pt][l] = l
            /\ \A y \in Slot : n.table[l][y] = Absent
            /\ \A x \in Page, y \in Slot :
                 x # l /\ ~(x = pd /\ y = i) /\ ~(x = kernel_pt /\ y = l) => n.table[x][y] = m.table[x][y]
            /\ n.map[l] = 1
            /\ \A x \in Page : x # l => n.map[x] = m.map[x]
            /\ n.data = m.data
<1> DEFINE s == SetEntry(m, kernel_pd, l, l)
           n == AddTable(m, pd, i, l)
<1>1. /\ l \in Page /\ kernel_pd \in Page /\ kernel_pt \in Page /\ Absent \in Page
      /\ 0 \in Slot /\ l \in Slot /\ 0 + 1 < REFS
  BY Sizes DEF Page, Slot, kernel_pd, kernel_pt, Absent
<1>2. Put(m, s, kernel_pt, l, l)
  <2>1. l \div ENTRIES = 0 /\ l % ENTRIES = l
    BY LowPlace
  <2>2. m.map[l] + 1 < REFS
    BY <1>1
  <2> QED BY <1>1, <2>1, <2>2, SetEntryPuts
<1> HIDE DEF s
<1>3. n = [s EXCEPT !.table[l] = EmptyTable, !.table[pd][i] = l]
  BY DEF AddTable, s
<1> HIDE DEF n
<1>4. s \in Memory
  BY <1>2 DEF Put
<1>5. EmptyTable \in [Slot -> Page] /\ \A y \in Slot : EmptyTable[y] = Absent
  BY <1>1 DEF EmptyTable, Slot
<1>6. /\ n.table = [s.table EXCEPT ![l] = EmptyTable, ![pd] = [s.table[pd] EXCEPT ![i] = l]]
      /\ n.map = s.map /\ n.data = s.data
      /\ n = [map |-> n.map, table |-> n.table, data |-> n.data]
  BY <1>3, <1>4, <1>1 DEF Memory
<1> HIDE DEF n
<1>7. n.table \in [Page -> [Slot -> Page]]
  <2>1. s.table \in [Page -> [Slot -> Page]]
    BY <1>4 DEF Memory
  <2>2. [s.table[pd] EXCEPT ![i] = l] \in [Slot -> Page]
    BY <2>1, <1>1
  <2> QED BY <1>6, <1>5, <2>1, <2>2
<1>8. n \in Memory
  BY <1>6, <1>7, <1>4 DEF Memory
<1>9. /\ n.table[l] = EmptyTable
      /\ n.table[pd] = [s.table[pd] EXCEPT ![i] = l]
      /\ \A x \in Page : x # l /\ x # pd => n.table[x] = s.table[x]
  BY <1>6, <1>4, <1>1 DEF Memory
<1>10. /\ n.table[pd][i] = l
       /\ \A y \in Slot : y # i => n.table[pd][y] = s.table[pd][y]
  BY <1>9, <1>4 DEF Memory
<1>11. /\ s.table[kernel_pt][l] = l
       /\ \A x \in Page, y \in Slot : ~(x = kernel_pt /\ y = l) => s.table[x][y] = m.table[x][y]
  BY <1>2 DEF Put
<1>12. n.table[kernel_pt][l] = l
  <2>1. kernel_pt # l
    BY DEF kernel_pt
  <2> QED BY <2>1, <1>1, <1>9, <1>11
<1>13. \A y \in Slot : n.table[l][y] = Absent
  BY <1>9, <1>5
<1>14. ASSUME NEW x \in Page, NEW y \in Slot,
             x # l, ~(x = pd /\ y = i), ~(x = kernel_pt /\ y = l)
      PROVE n.table[x][y] = m.table[x][y]
  <2>1. CASE x = pd
    BY <2>1, <1>14, <1>10, <1>11
  <2>2. CASE x # pd
    BY <2>2, <1>14, <1>9, <1>11
  <2> QED BY <2>1, <2>2
<1>15. n.map[l] = 1 /\ (\A x \in Page : x # l => n.map[x] = m.map[x]) /\ n.data = m.data
  BY <1>2, <1>6 DEF Put
<1> QED BY <1>8, <1>10, <1>12, <1>13, <1>14, <1>15 DEF n

LEMMA MapAbsent ==
  ASSUME NEW m \in Memory, NEW pd \in Page, NEW vir \in Nat, NEW g \in Page,
         NEW i \in Slot, NEW e \in Slot, vir \div ENTRIES = i, vir % ENTRIES = e,
         m.table[pd][i] = Absent, m.map[g] + 1 < REFS,
         m.table[kernel_pd][0] = kernel_pt,
         NEW l \in Nat, LowPage(m) = l, m.map[l] = 0,
         kernel_pt < l, l < ENTRIES, pd # l, pd # kernel_pt, g # l
  PROVE  NewTable(m, mm_mmap(m, pd, vir, g), pd, i, l, e, g)
<1> DEFINE a == AddTable(m, pd, i, l)
           n == SetEntry(a, pd, vir, g)
<1>1. mm_mmap(m, pd, vir, g) = n
  BY DEF mm_mmap, Entry
<1>2. /\ a \in Memory
      /\ a.table[pd][i] = l
      /\ a.table[kernel_pt][l] = l
      /\ \A y \in Slot : a.table[l][y] = Absent
      /\ \A x \in Page, y \in Slot :
           x # l /\ ~(x = pd /\ y = i) /\ ~(x = kernel_pt /\ y = l) => a.table[x][y] = m.table[x][y]
      /\ a.map[l] = 1
      /\ \A x \in Page : x # l => a.map[x] = m.map[x]
      /\ a.data = m.data
  BY AddTableAdds
<1> HIDE DEF a
<1>3. Put(a, n, l, e, g)
  <2>1. a.map[g] + 1 < REFS
    BY <1>2
  <2> QED BY <1>2, <2>1, SetEntryPuts
<1> HIDE DEF n
<1>4. l \in Page /\ l \in Slot /\ kernel_pt \in Page /\ kernel_pt # l
  BY Sizes DEF Page, Slot, kernel_pt
<1>5. n.table[pd][i] = l /\ n.table[kernel_pt][l] = l
  BY <1>2, <1>3, <1>4 DEF Put
<1>6. n.table[l][e] = g /\ \A y \in Slot : y # e => n.table[l][y] = Absent
  BY <1>2, <1>3, <1>4 DEF Put
<1>7. \A x \in Page, y \in Slot :
        x # l /\ ~(x = pd /\ y = i) /\ ~(x = kernel_pt /\ y = l) => n.table[x][y] = m.table[x][y]
  BY <1>2, <1>3, <1>4 DEF Put
<1>8. /\ n.map[l] = 1 /\ n.map[g] = m.map[g] + 1
      /\ \A x \in Page : x # l /\ x # g => n.map[x] = m.map[x]
      /\ n.data = m.data /\ n \in Memory
  BY <1>2, <1>3, <1>4 DEF Put
<1> QED BY <1>1, <1>5, <1>6, <1>7, <1>8 DEF NewTable

\* What a mapping does to the counts: of a page in use, of the first free high page,
\* and of the first free low page.
LEMMA PutUsed ==
  ASSUME NEW m \in Memory, NEW n, NEW t \in Page, NEW e \in Slot, NEW g \in Page,
         Put(m, n, t, e, g),
         NEW l, NEW h, NEW k \in Nat, Counted(m, l, h, k), m.map[g] # 0, m.map[g] < k
  PROVE  Counted(n, l, h, k)
<1>1. \A x \in Page : m.map[x] \in Nat
  BY Sizes DEF Memory
<1>2. \A x \in Page : (m.map[x] # 0 <=> n.map[x] # 0) /\ n.map[x] <= k
  BY <1>1 DEF Put, Counted
<1>3. \A x \in Page, y \in Slot : n.map[n.table[x][y]] # 0
  <2> SUFFICES ASSUME NEW x \in Page, NEW y \in Slot PROVE n.map[n.table[x][y]] # 0
    OBVIOUS
  <2>1. m.table[x][y] \in Page /\ m.map[m.table[x][y]] # 0
    BY DEF Memory, Counted
  <2>2. n.table[x][y] = g \/ n.table[x][y] = m.table[x][y]
    BY DEF Put
  <2> QED BY <2>1, <2>2, <1>2
<1> QED BY <1>2, <1>3 DEF Counted

LEMMA PutHigh ==
  ASSUME NEW m \in Memory, NEW n, NEW t \in Page, NEW e \in Slot, NEW h \in Nat,
         Put(m, n, t, e, h), ENTRIES <= h, h < num_of_page,
         NEW l \in Nat, NEW k \in Nat \ {0}, Counted(m, l, h, k)
  PROVE  Counted(n, l, h + 1, k)
<1>1. h \in Page
  BY Sizes DEF Page
<1>2. m.map[h] = 0 /\ n.map[h] = 1
  BY <1>1 DEF Counted, Put
<1>3. \A x \in Page : x \in Nat
  BY DEF Page
<1>4. \A x \in Page : x # h => n.map[x] = m.map[x]
  BY DEF Put
<1>5. /\ \A x \in Page : x < l /\ x # h => n.map[x] # 0
      /\ \A x \in Page : l <= x /\ x < ENTRIES => n.map[x] = 0
      /\ \A x \in Page : ENTRIES <= x /\ x < h + 1 => n.map[x] # 0
      /\ \A x \in Page : h + 1 <= x /\ x < num_of_page => n.map[x] = 0
      /\ \A x \in Page : n.map[x] <= k
  BY <1>2, <1>3, <1>4, Sizes DEF Counted
<1>6. \A x \in Page, y \in Slot : n.map[n.table[x][y]] # 0
  <2> SUFFICES ASSUME NEW x \in Page, NEW y \in Slot PROVE n.map[n.table[x][y]] # 0
    OBVIOUS
  <2>1. m.table[x][y] \in Page /\ m.map[m.table[x][y]] # 0
    BY DEF Memory, Counted
  <2>2. n.table[x][y] = h \/ n.table[x][y] = m.table[x][y]
    BY DEF Put
  <2> QED BY <2>1, <2>2, <1>2, <1>4
<1>7. \A x \in Page : x < l => n.map[x] # 0
  BY <1>2, <1>5
<1> QED BY <1>2, <1>5, <1>6, <1>7 DEF Counted

LEMMA PutLow ==
  ASSUME NEW m \in Memory, NEW n, NEW t \in Page, NEW e \in Slot, NEW l \in Nat,
         Put(m, n, t, e, l), l < ENTRIES,
         NEW h \in Nat, NEW k \in Nat \ {0}, Counted(m, l, h, k), ENTRIES <= h
  PROVE  Counted(n, l + 1, h, k)
<1>1. l \in Page
  BY Sizes DEF Page
<1>2. m.map[l] = 0 /\ n.map[l] = 1
  BY <1>1 DEF Counted, Put
<1>3. \A x \in Page : x \in Nat
  BY DEF Page
<1>4. \A x \in Page : x # l => n.map[x] = m.map[x]
  BY DEF Put
<1>5. /\ \A x \in Page : x < l + 1 => n.map[x] # 0
      /\ \A x \in Page : l + 1 <= x /\ x < ENTRIES => n.map[x] = 0
      /\ \A x \in Page : ENTRIES <= x /\ x < h => n.map[x] # 0
      /\ \A x \in Page : h <= x /\ x < num_of_page => n.map[x] = 0
      /\ \A x \in Page : n.map[x] <= k
  BY <1>2, <1>3, <1>4, Sizes DEF Counted
<1>6. \A x \in Page, y \in Slot : n.map[n.table[x][y]] # 0
  <2> SUFFICES ASSUME NEW x \in Page, NEW y \in Slot PROVE n.map[n.table[x][y]] # 0
    OBVIOUS
  <2>1. m.table[x][y] \in Page /\ m.map[m.table[x][y]] # 0
    BY DEF Memory, Counted
  <2>2. n.table[x][y] = l \/ n.table[x][y] = m.table[x][y]
    BY DEF Put
  <2> QED BY <2>1, <2>2, <1>2, <1>4
<1> QED BY <1>2, <1>5, <1>6 DEF Counted

LEMMA TableCounted ==
  ASSUME NEW m \in Memory, NEW n, NEW pd \in Page, NEW i \in Slot, NEW l \in Nat,
         NEW e \in Slot, NEW g \in Page, NewTable(m, n, pd, i, l, e, g),
         0 < l, l < ENTRIES, ENTRIES <= g,
         NEW h \in Nat, NEW k \in Nat \ {0}, Counted(m, l, h, k), ENTRIES <= h, h < num_of_page,
         NEW next, \/ m.map[g] # 0 /\ m.map[g] < k /\ next = h
                   \/ g = h /\ next = h + 1
  PROVE  Counted(n, l + 1, next, k)
<1>1. l \in Page /\ h \in Page /\ 0 \in Page /\ \A x \in Page : x \in Nat
  BY Sizes DEF Page
<1>2. \A x \in Page : m.map[x] \in Nat
  BY Sizes DEF Memory
<1>3. /\ n.map[l] = 1 /\ n.map[g] = m.map[g] + 1
      /\ \A x \in Page : x # l /\ x # g => n.map[x] = m.map[x]
  BY DEF NewTable
<1>4. \A x \in Page, y \in Slot : n.table[x][y] \in {Absent, l, g, m.table[x][y]}
  <2> SUFFICES ASSUME NEW x \in Page, NEW y \in Slot
               PROVE  n.table[x][y] \in {Absent, l, g, m.table[x][y]}
    OBVIOUS
  <2> QED BY DEF NewTable
<1>5. \A x \in Page, y \in Slot : n.map[n.table[x][y]] # 0
  <2> SUFFICES ASSUME NEW x \in Page, NEW y \in Slot PROVE n.map[n.table[x][y]] # 0
    OBVIOUS
  <2>1. m.table[x][y] \in Page /\ m.map[m.table[x][y]] # 0
    BY DEF Memory, Counted
  <2>2. m.map[Absent] # 0 /\ Absent \in Page
    BY <1>1 DEF Counted, Absent
  <2> QED BY <2>1, <2>2, <1>2, <1>3, <1>4
<1>6. ASSUME m.map[g] # 0, m.map[g] < k PROVE Counted(n, l + 1, h, k)
  <2>1. /\ \A x \in Page : x < l + 1 => n.map[x] # 0
        /\ \A x \in Page : l + 1 <= x /\ x < ENTRIES => n.map[x] = 0
    BY <1>1, <1>2, <1>3, <1>6, Sizes DEF Counted
  <2>2. /\ \A x \in Page : ENTRIES <= x /\ x < h => n.map[x] # 0
        /\ \A x \in Page : h <= x /\ x < num_of_page => n.map[x] = 0
    <3>1. ASSUME NEW x \in Page, ENTRIES <= x, x < h PROVE n.map[x] # 0
      <4>1. m.map[x] # 0 /\ x # l
        BY <1>1, <3>1, Sizes DEF Counted
      <4> QED BY <4>1, <1>2, <1>3
    <3>2. ASSUME NEW x \in Page, h <= x, x < num_of_page PROVE n.map[x] = 0
      <4>1. m.map[x] = 0
        BY <3>2 DEF Counted
      <4>2. x # l /\ x # g
        BY <4>1, <3>2, <1>1, <1>6, Sizes
      <4> QED BY <4>1, <4>2, <1>3
    <3> QED BY <3>1, <3>2
  <2>3. \A x \in Page : n.map[x] <= k
    BY <1>1, <1>2, <1>3, <1>6 DEF Counted
  <2> QED BY <2>1, <2>2, <2>3, <1>5 DEF Counted
<1>7. ASSUME g = h PROVE Counted(n, l + 1, h + 1, k)
  <2>1. m.map[h] = 0 /\ n.map[h] = 1
    BY <1>1, <1>3, <1>7 DEF Counted
  <2>2. /\ \A x \in Page : x < l + 1 => n.map[x] # 0
        /\ \A x \in Page : l + 1 <= x /\ x < ENTRIES => n.map[x] = 0
    BY <1>1, <1>2, <1>3, <1>7, Sizes DEF Counted
  <2>3. /\ \A x \in Page : ENTRIES <= x /\ x < h + 1 => n.map[x] # 0
        /\ \A x \in Page : h + 1 <= x /\ x < num_of_page => n.map[x] = 0
    BY <1>1, <1>2, <1>3, <1>7, <2>1, Sizes DEF Counted
  <2>4. \A x \in Page : n.map[x] <= k
    BY <1>1, <1>2, <1>3, <1>7, <2>1 DEF Counted
  <2> QED BY <2>1, <2>2, <2>3, <2>4, <1>5 DEF Counted
<1> QED BY <1>6, <1>7

-----------------------------------------------------------------------------
(* What is copied of an address space: the user page, and nothing else.    *)

LEMMA OneCopied ==
  ASSUME NEW m \in Memory, NEW pd \in Page,
         m.table[pd][2] # Absent, m.table[m.table[pd][2]][0] # Absent,
         \A e \in Slot : e # 0 => m.table[m.table[pd][2]][e] = Absent,
         \A e \in Slot : 2 < e /\ e < ENTRIES - 1 => m.table[pd][e] = Absent
  PROVE  Copied(m, pd) = {USER_PROG}
<1> DEFINE Deep == 2 * ENTRIES .. (ENTRIES - 1) * ENTRIES - 1
<1>1. (ENTRIES - 1) * ENTRIES = ENTRIES * (ENTRIES - 1) /\ ENTRIES * (ENTRIES - 1) \in Nat
  BY Sizes
<1>2. USER_PROG \in Deep
  <2>1. ENTRIES * 2 + ENTRIES <= ENTRIES * (ENTRIES - 1)
    <3>1. 2 \in Int /\ ENTRIES - 1 \in Int /\ ENTRIES \in Nat /\ 2 < ENTRIES - 1
      BY Sizes
    <3> QED BY <3>1, Multiples
  <2> QED BY <2>1, <1>1, Sizes DEF USER_PROG
<1>3. Translate(m, pd, USER_PROG) # Absent
  BY UserPlace DEF Translate, Entry
<1>4. ASSUME NEW vir \in Deep, Translate(m, pd, vir) # Absent PROVE vir = USER_PROG
  <2> DEFINE i == vir \div ENTRIES
             e == vir % ENTRIES
  <2>1. vir \in Int /\ 2 * ENTRIES <= vir /\ vir < ENTRIES * (ENTRIES - 1)
    BY <1>1, Sizes
  <2>2. i \in Int /\ e \in 0 .. ENTRIES - 1 /\ vir = ENTRIES * i + e
    <3>1. ENTRIES \in Nat \ {0}
      BY Sizes
    <3> QED BY <3>1, <2>1, DivMod
  <2>3. m.table[pd][i] # Absent /\ m.table[m.table[pd][i]][e] # Absent
    BY <1>4 DEF Translate, Entry
  <2> HIDE DEF i, e, Deep
  <2>4. 2 <= i
    <3> SUFFICES ASSUME i < 2 PROVE FALSE
      BY <2>2
    <3>1. ENTRIES * i + ENTRIES <= ENTRIES * 2
      BY <2>2, Multiples, Sizes
    <3>2. ENTRIES * i \in Int
      BY <2>2, Sizes
    <3> QED BY <3>1, <3>2, <2>1, <2>2, Sizes
  <2>5. i < ENTRIES - 1
    <3> SUFFICES ASSUME ENTRIES - 1 <= i PROVE FALSE
      BY <2>2, Sizes
    <3>1. ENTRIES - 1 < i => ENTRIES * (ENTRIES - 1) + ENTRIES <= ENTRIES * i
      BY <2>2, Multiples, Sizes
    <3>2. ENTRIES * i \in Int
      BY <2>2, Sizes
    <3>3. ENTRIES * (ENTRIES - 1) <= ENTRIES * i
      BY <3>1, <3>2, <1>1, <2>2, Sizes
    <3> QED BY <3>2, <3>3, <1>1, <2>1, <2>2
  <2>6. i = 2
    BY <2>2, <2>3, <2>4, <2>5, Sizes DEF Slot
  <2>7. e = 0
    BY <2>2, <2>3, <2>6 DEF Slot
  <2> QED BY <2>2, <2>6, <2>7, Sizes DEF USER_PROG
<1>5. Copied(m, pd) = {vir \in Deep : Translate(m, pd, vir) # Absent}
  BY DEF Copied
<1> HIDE DEF Deep
<1> QED BY <1>2, <1>3, <1>4, <1>5

\* The copy before its deep part.
Shallow(m, pd, pd_to) ==
  LET known == mm_mmap(m, kernel_pd, pd_to, pd_to)
  IN [known EXCEPT !.table[pd_to] =
        [e \in Slot |-> IF e \in SharedTables THEN Entry(known, pd, e) ELSE Absent]]

LEMMA CopyIs ==
  ASSUME NEW m, NEW pd, NEW pd_to, Copied(m, pd) = {USER_PROG}
  PROVE  copy_pd_and_pts(m, pd, pd_to) = CopyEntry(Shallow(m, pd, pd_to), pd, pd_to, USER_PROG)
<1> DEFINE S == Shallow(m, pd, pd_to)
           All == SUBSET {USER_PROG}
           Value(f) == [todo \in All |->
                          IF todo = {} THEN S
                          ELSE CopyEntry(f[todo \ {Max(todo)}], pd, pd_to, Max(todo))]
           result == [todo \in All |->
                        IF todo = {} THEN S ELSE CopyEntry(S, pd, pd_to, USER_PROG)]
           copied == CHOOSE f : f = Value(f)
<1>1. copy_pd_and_pts(m, pd, pd_to) = copied[{USER_PROG}]
  BY DEF copy_pd_and_pts, Shallow, Slot
<1>2. Max({USER_PROG}) = USER_PROG
  <2>1. USER_PROG >= USER_PROG
    BY Sizes DEF USER_PROG
  <2> QED BY <2>1 DEF Max
<1>3. \A todo \in All : todo = {} \/ todo = {USER_PROG}
  OBVIOUS
<1>4. {} \in All /\ {USER_PROG} \in All /\ {USER_PROG} \ {USER_PROG} = {}
  OBVIOUS
<1> HIDE DEF S
<1>5. result = Value(result)
  <2>1. ASSUME NEW todo \in All PROVE result[todo] = Value(result)[todo]
    <3>1. CASE todo = {}
      BY <3>1
    <3>2. CASE todo = {USER_PROG}
      <4>1. result[{}] = S /\ result[todo] = CopyEntry(S, pd, pd_to, USER_PROG)
        BY <1>4, <3>2
      <4>2. Value(result)[todo] = CopyEntry(result[{}], pd, pd_to, USER_PROG)
        BY <1>2, <1>4, <3>2
      <4> QED BY <4>1, <4>2
    <3> QED BY <3>1, <3>2, <1>3
  <2> QED BY <2>1
<1>6. copied = Value(copied)
  <2> HIDE DEF Value, result
  <2> QED BY <1>5
<1> HIDE DEF copied
<1>7. copied[{}] = S
  BY <1>4, <1>6
<1>8. copied[{USER_PROG}] = CopyEntry(copied[{}], pd, pd_to, USER_PROG)
  BY <1>2, <1>4, <1>6
<1> QED BY <1>1, <1>7, <1>8 DEF S

-----------------------------------------------------------------------------
(* The layout of the tables, and the invariant.                            *)

\* The second table of the kernel's directory, and the one that all processes share.
KernelTable == kernel_page_break + 2
CommonTable == kernel_page_break + 6

\* The page directory of a process, the table of its user page, that of its stack.
Dir(p) == IF p = 1 THEN kernel_page_break + 3 ELSE kernel_page_break + 3 * p + 1
UserTable(p) == Dir(p) + 1
StackTable(p) == Dir(p) + 2

StackPage(m, p) == m.table[StackTable(p)][ENTRIES - 1]

Kernel(m) == m.table[kernel_pd][0] = kernel_pt /\ m.table[kernel_pd][1] = KernelTable

\* The directory of p refers to the tables above, and there is one user page.
Directory(m, p) ==
  /\ m.table[Dir(p)][0] = kernel_pt
  /\ m.table[Dir(p)][1] = CommonTable
  /\ m.table[Dir(p)][2] = UserTable(p)
  /\ m.table[Dir(p)][ENTRIES - 1] = StackTable(p)
  /\ \A e \in Slot : 2 < e /\ e < ENTRIES - 1 => m.table[Dir(p)][e] = Absent
  /\ \A e \in Slot : e # 0 => m.table[UserTable(p)][e] = Absent

\* What p, with the structure P, has in memory is where P says; h is the first high
\* page that was never taken.
Space(m, p, P, h) ==
  /\ P.page_dir = Dir(p)
  /\ Directory(m, p)
  /\ m.table[UserTable(p)][0] = P.page_no
  /\ m.table[CommonTable][P.page - ENTRIES] = P.page
  /\ m.data[P.page] = p
  /\ P.page_no \in ENTRIES .. h - 1
  /\ P.page \in ENTRIES .. h - 1
  /\ StackPage(m, p) \in ENTRIES .. h - 1

\* Stacks, structures and user pages of the processes below n are different pages.
Apart(m, proc, own, n) ==
  \A p, q \in 1 .. n - 1 :
    /\ StackPage(m, p) = StackPage(m, q) => p = q
    /\ proc[p].page_no = proc[q].page_no <=> own[p] = own[q]
    /\ proc[p].page_no # proc[q].page
    /\ proc[p].page_no # StackPage(m, q)
    /\ proc[p].page # StackPage(m, q)

\* The processes below n that share the user page of p, and what counts that page.
Sharing(own, n, p) == {q \in 1 .. n - 1 : own[q] = own[p]}

Shared(m, proc, own, n) ==
  \A p \in 1 .. n - 1 : m.map[proc[p].page_no] = 1 + Cardinality(Sharing(own, n, p))

\* The memory of the processes below n.
Ready(m, proc, own, n, h) ==
  /\ m \in Memory
  /\ n \in 2 .. MAX_PID + 1
  /\ h \in ENTRIES .. ENTRIES + 4 * (n - 1) - 1
  /\ Counted(m, Dir(n), h, n + 1)
  /\ Kernel(m)
  /\ \A p \in 1 .. n - 1 : Space(m, p, proc[p], h)
  /\ Apart(m, proc, own, n)
  /\ Shared(m, proc, own, n)

Booted ==
  /\ next_pid = 1
  /\ \E last \in {0, 1} :
       memory = [map   |-> CountedPages(last),
                 table |-> KernelTables,
                 data  |-> [g \in Page |-> NoData]]

Types ==
  /\ process \in [Pid -> [page_dir : Page, page_no : Page, page : Page]]
  /\ next_pid \in 1 .. MAX_PID + 1
  /\ current \in 0 .. next_pid - 1
  /\ owner \in [Pid -> Pid]
  /\ \A p \in Pid : IF p < next_pid THEN owner[p] < next_pid ELSE owner[p] = p

\* Inductive: either the kernel alone is there, or low and high pages are taken up to
\* some point and the processes are laid out in them.
IInv ==
  /\ Types
  /\ Booted \/ \E h \in Nat : Ready(memory, process, owner, next_pid, h)

-----------------------------------------------------------------------------
(* The steps of a fork by c.  Its child is to have l for its directory, and *)
(* h for its structure.                                                    *)

Numbers(c, l, h, k) ==
  /\ Dir(c) \in Nat /\ KernelTable < Dir(c) /\ Dir(c) + 2 < l
  /\ Dir(c) + 2 < CommonTable \/ CommonTable < Dir(c)
  /\ l \in Nat /\ CommonTable < l /\ l + 2 < ENTRIES
  /\ h \in Nat /\ ENTRIES <= h /\ h + 3 < TEMP
  /\ k \in Nat /\ 4 <= k /\ k < REFS

\* n is m but for what a fork by c writes: the kernel's own tables, entries of the
\* shared table, the entry through which the stack is copied, and new pages.
Kept(m, n, c, l, h) ==
  /\ \A x \in Page, y \in Slot :
       /\ x < l /\ x # kernel_pt /\ x # KernelTable
       /\ ~(x = CommonTable /\ (y = h - ENTRIES \/ y = TEMP - ENTRIES))
       /\ ~(x = StackTable(c) /\ y = ENTRIES - 2)
       => n.table[x][y] = m.table[x][y]
  /\ \A g \in Page : g < h => n.data[g] = m.data[g]

LEMMA KeptKept ==
  ASSUME NEW m, NEW n, NEW o, NEW c, NEW l, NEW h, Kept(m, n, c, l, h), Kept(n, o, c, l, h)
  PROVE  Kept(m, o, c, l, h)
BY DEF Kept

LEMMA NumberFacts ==
  ASSUME NEW c, NEW l, NEW h, NEW k, Numbers(c, l, h, k)
  PROVE  /\ {l, l + 1, l + 2, h, h + 1, h + 2, h + 3, TEMP} \subseteq Page
         /\ {Dir(c), UserTable(c), StackTable(c), CommonTable, KernelTable} \subseteq Page
         /\ {kernel_pd, kernel_pt, Absent} \subseteq Page
         /\ {0, 1, 2, ENTRIES - 1, ENTRIES - 2, h - ENTRIES, TEMP - ENTRIES} \subseteq Slot
         /\ {h + 1 - ENTRIES, h + 2 - ENTRIES, h + 3 - ENTRIES, l, l + 1, l + 2} \subseteq Slot
<1>1. KernelTable \in Nat /\ KernelTable >= 4 /\ CommonTable = KernelTable + 4
  BY Sizes DEF KernelTable, CommonTable
<1> QED BY <1>1, Sizes DEF Numbers, Page, Slot, UserTable, StackTable, kernel_pd, kernel_pt, Absent

LEMMA DirectoryKept ==
  ASSUME NEW m, NEW n, NEW c, NEW p, NEW l, NEW h, NEW k, Numbers(p, l, h, k),
         Dir(p) # StackTable(c), UserTable(p) # StackTable(c),
         Kept(m, n, c, l, h), Kernel(m), Directory(m, p)
  PROVE  /\ Directory(n, p)
         /\ n.table[UserTable(p)][0] = m.table[UserTable(p)][0]
         /\ StackPage(n, p) = StackPage(m, p)
<1>1. KernelTable \in Nat /\ KernelTable >= 4 /\ CommonTable = KernelTable + 4
  BY Sizes DEF KernelTable, CommonTable
<1>2. ASSUME NEW x \in {Dir(p), UserTable(p)}, NEW y \in Slot
      PROVE  n.table[x][y] = m.table[x][y]
  <2>1. /\ x \in Page /\ x < l /\ x # kernel_pt /\ x # KernelTable
        /\ x # CommonTable /\ x # StackTable(c)
    <3>1. x \in Page
      BY NumberFacts
    <3>2. x = Dir(p) \/ x = Dir(p) + 1
      BY DEF UserTable
    <3>3. x < l /\ x # kernel_pt /\ x # KernelTable /\ x # CommonTable
      BY <1>1, <3>2 DEF Numbers, kernel_pt
    <3> QED BY <3>1, <3>3
  <2> QED BY <2>1 DEF Kept
<1>3. {0, 1, 2, ENTRIES - 1} \subseteq Slot /\ ENTRIES - 1 # ENTRIES - 2
  BY NumberFacts, Sizes
<1>4. Directory(n, p) /\ n.table[UserTable(p)][0] = m.table[UserTable(p)][0]
  BY <1>2, <1>3 DEF Directory
<1>5. StackPage(n, p) = StackPage(m, p)
  <2>1. /\ StackTable(p) \in Page /\ StackTable(p) < l /\ StackTable(p) # kernel_pt
        /\ StackTable(p) # KernelTable /\ StackTable(p) # CommonTable
    <3>1. StackTable(p) \in Page
      BY NumberFacts
    <3>2. StackTable(p) = Dir(p) + 2 /\ kernel_pt = 2
      BY DEF StackTable, kernel_pt
    <3> QED BY <1>1, <3>1, <3>2 DEF Numbers
  <2> QED BY <2>1, <1>3 DEF Kept, StackPage
<1> QED BY <1>4, <1>5

LEMMA KernelKept ==
  ASSUME NEW m, NEW n, NEW c, NEW l, NEW h, NEW k, Numbers(c, l, h, k),
         Kept(m, n, c, l, h), Kernel(m)
  PROVE  Kernel(n)
<1>1. /\ kernel_pd < l /\ kernel_pd # kernel_pt /\ kernel_pd # KernelTable
      /\ kernel_pd # CommonTable /\ kernel_pd # StackTable(c)
  BY Sizes DEF Numbers, KernelTable, CommonTable, StackTable, kernel_pd, kernel_pt
<1>2. kernel_pd \in Page /\ {0, 1} \subseteq Slot
  BY NumberFacts
<1> QED BY <1>1, <1>2 DEF Kept, Kernel

LEMMA ForkerKept ==
  ASSUME NEW m, NEW n, NEW c, NEW l, NEW h, NEW k, Numbers(c, l, h, k),
         Kept(m, n, c, l, h), Kernel(m), Directory(m, c)
  PROVE  /\ Kernel(n) /\ Directory(n, c)
         /\ n.table[UserTable(c)][0] = m.table[UserTable(c)][0]
         /\ StackPage(n, c) = StackPage(m, c)
<1>1. Dir(c) # StackTable(c) /\ UserTable(c) # StackTable(c)
  BY DEF Numbers, UserTable, StackTable
<1> QED BY <1>1, DirectoryKept, KernelKept

LEMMA StructureMapped ==
  ASSUME NEW m \in Memory, NEW c, NEW l, NEW h, NEW k, Numbers(c, l, h, k),
         Counted(m, l, h, k), Kernel(m), Directory(m, c), next_pid \in Pid
  PROVE  LET n == MapStructure(m, Dir(c), h)
         IN /\ n \in Memory /\ Kept(m, n, c, l, h) /\ Counted(n, l, h + 1, k)
            /\ n.map[h] = 1 /\ \A g \in Page : g < h => n.map[g] = m.map[g]
            /\ n.table[CommonTable][h - ENTRIES] = h /\ n.data[h] = next_pid
<1> DEFINE j == mm_mmap(m, Dir(c), h, h)
           n == MapStructure(m, Dir(c), h)
<1>1. /\ h \in Nat /\ h \in Page /\ h < num_of_page /\ ENTRIES <= h /\ h < 2 * ENTRIES
      /\ Dir(c) \in Page /\ CommonTable \in Page /\ 1 \in Slot /\ h - ENTRIES \in Slot
      /\ CommonTable # Absent /\ l \in Nat /\ k \in Nat \ {0}
  <2>1. h \in Nat /\ h < num_of_page /\ ENTRIES <= h /\ h < 2 * ENTRIES
    BY Sizes DEF Numbers
  <2>2. l \in Nat /\ k \in Nat \ {0} /\ CommonTable # Absent
    BY Sizes DEF Numbers, CommonTable, Absent
  <2> QED BY <2>1, <2>2, NumberFacts
<1>2. h \div ENTRIES = 1 /\ h % ENTRIES = h - ENTRIES
  BY <1>1, CommonPlace
<1>3. m.table[Dir(c)][1] = CommonTable
  BY DEF Directory
<1>4. m.map[h] = 0 /\ m.map[h] + 1 < REFS
  BY <1>1, Sizes DEF Counted, Numbers
<1>5. Put(m, j, CommonTable, h - ENTRIES, h)
  BY <1>1, <1>2, <1>3, <1>4, MapPresent
<1> HIDE DEF j
<1>6. Counted(j, l, h + 1, k) /\ j.map[h] = 1
  <2> DEFINE e == h - ENTRIES
  <2>1. e \in Slot /\ Put(m, j, CommonTable, e, h)
    BY <1>1, <1>5
  <2> HIDE DEF e
  <2>2. Counted(j, l, h + 1, k)
    BY <1>1, <2>1, PutHigh
  <2>3. j.map[h] = 1
    BY <1>4, <2>1 DEF Put
  <2> QED BY <2>2, <2>3
<1>7. Translate(j, Dir(c), h) = h
  <2>1. j.table[Dir(c)][1] = CommonTable
    <3>1. Dir(c) # CommonTable
      BY Sizes DEF Numbers, CommonTable
    <3> QED BY <3>1, <1>1, <1>3, <1>5 DEF Put
  <2>2. j.table[CommonTable][h - ENTRIES] = h
    BY <1>5 DEF Put
  <2> QED BY <2>1, <2>2, <1>1, <1>2 DEF Translate, Entry
<1>8. n = [j EXCEPT !.data[h] = next_pid]
  BY <1>7 DEF MapStructure, j
<1> HIDE DEF n
<1>9. j \in Memory
  BY <1>5 DEF Put
<1>10. n \in Memory /\ n.map = j.map /\ n.table = j.table
       /\ n.data[h] = next_pid /\ \A g \in Page : g # h => n.data[g] = j.data[g]
  BY <1>8, <1>9, <1>1 DEF Memory, Contents
<1>11. Counted(n, l, h + 1, k)
  BY <1>6, <1>10 DEF Counted
<1>12. Kept(m, n, c, l, h)
  <2>1. \A g \in Page : g < h => n.data[g] = m.data[g]
    BY <1>5, <1>10, <1>1 DEF Put
  <2>2. \A x \in Page, y \in Slot : ~(x = CommonTable /\ y = h - ENTRIES) => n.table[x][y] = m.table[x][y]
    BY <1>5, <1>10 DEF Put
  <2> QED BY <2>1, <2>2 DEF Kept
<1>13. \A g \in Page : g < h => n.map[g] = m.map[g]
  BY <1>5, <1>10, <1>1 DEF Put
<1>14. n.table[CommonTable][h - ENTRIES] = h
  BY <1>5, <1>10 DEF Put
<1> QED BY <1>6, <1>10, <1>11, <1>12, <1>13, <1>14 DEF n

\* The child's directory, before the deep part of the copy.
LEMMA ShallowCopied ==
  ASSUME NEW m \in Memory, NEW c, NEW l, NEW h, NEW k, Numbers(c, l, h, k),
         Counted(m, l, h + 1, k), Kernel(m), Directory(m, c)
  PROVE  LET n == Shallow(m, Dir(c), l)
         IN /\ n \in Memory /\ Counted(n, l + 1, h + 1, k)
            /\ n.table[l][0] = kernel_pt /\ n.table[l][1] = CommonTable
            /\ \A y \in Slot : y # 0 /\ y # 1 => n.table[l][y] = Absent
            /\ \A x \in Page, y \in Slot : x # l /\ x # kernel_pt => n.table[x][y] = m.table[x][y]
            /\ \A g \in Page : g # l => n.map[g] = m.map[g]
            /\ n.data = m.data
<1> DEFINE j == mm_mmap(m, kernel_pd, l, l)
           copy == [e \in Slot |-> IF e \in SharedTables THEN Entry(j, Dir(c), e) ELSE Absent]
           n == Shallow(m, Dir(c), l)
<1>1. /\ l \in Nat /\ l < ENTRIES /\ l \in Page /\ l \in Slot /\ l # kernel_pt
      /\ Dir(c) \in Page /\ Dir(c) # l /\ Dir(c) # kernel_pt
      /\ {kernel_pd, kernel_pt, Absent} \subseteq Page /\ {0, 1} \subseteq Slot
      /\ kernel_pt # Absent
  <2>1. l \in Nat /\ l < ENTRIES /\ l # kernel_pt /\ Dir(c) # l /\ Dir(c) # kernel_pt
    BY Sizes DEF Numbers, KernelTable, CommonTable, kernel_pt
  <2>2. kernel_pt # Absent
    BY DEF kernel_pt, Absent
  <2> QED BY <2>1, <2>2, NumberFacts
<1>2. h + 1 \in Nat /\ ENTRIES <= h + 1 /\ k \in Nat \ {0}
  BY Sizes DEF Numbers
<1>3. Put(m, j, kernel_pt, l, l)
  <2>1. l \div ENTRIES = 0 /\ l % ENTRIES = l
    BY <1>1, LowPlace
  <2>2. m.table[kernel_pd][0] = kernel_pt
    BY DEF Kernel
  <2>3. m.map[l] + 1 < REFS
    <3>1. m.map[l] = 0
      BY <1>1, <1>2, FirstFree
    <3> QED BY <3>1, Sizes
  <2> QED BY <1>1, <2>1, <2>2, <2>3, MapPresent
<1> HIDE DEF j
<1>4. Counted(j, l + 1, h + 1, k)
  <2> DEFINE o == h + 1
  <2>1. o \in Nat /\ ENTRIES <= o /\ Counted(m, l, o, k)
    BY <1>2
  <2> HIDE DEF o
  <2>2. Counted(j, l + 1, o, k)
    BY <1>1, <1>2, <1>3, <2>1, PutLow
  <2> QED BY <2>2 DEF o
<1>5. j \in Memory /\ \A x \in Page, y \in Slot : j.table[x][y] \in Page
  <2>1. j \in Memory
    BY <1>3 DEF Put
  <2> QED BY <2>1 DEF Memory
<1>6. j.table[Dir(c)][0] = kernel_pt /\ j.table[Dir(c)][1] = CommonTable
  BY <1>1, <1>3 DEF Put, Directory
<1>7. /\ copy \in [Slot -> Page]
      /\ copy[0] = kernel_pt /\ copy[1] = CommonTable
      /\ \A y \in Slot : y # 0 /\ y # 1 => copy[y] = Absent
  <2>1. \A y \in Slot : copy[y] = IF y = 0 \/ y = 1 THEN j.table[Dir(c)][y] ELSE Absent
    BY DEF SharedTables, Entry
  <2>2. \A y \in Slot : j.table[Dir(c)][y] \in Page
    BY <1>1, <1>5
  <2>3. \A y \in Slot : copy[y] \in Page
    BY <1>1, <2>1, <2>2
  <2>4. copy \in [Slot -> Page]
    BY <2>3
  <2> HIDE DEF copy
  <2> QED BY <1>1, <1>6, <2>1, <2>4
<1>8. n = [j EXCEPT !.table[l] = copy]
  BY DEF Shallow, j
<1>9. \A y \in Slot : copy[y] = Absent \/ \E x \in Slot : copy[y] = j.table[Dir(c)][x]
  BY DEF Entry
<1> HIDE DEF n, copy
<1>10. /\ n.map = j.map /\ n.data = j.data /\ n.table = [j.table EXCEPT ![l] = copy]
       /\ n \in Memory
  BY <1>1, <1>5, <1>7, <1>8 DEF Memory
<1>11. n.table[l] = copy /\ \A x \in Page : x # l => n.table[x] = j.table[x]
  BY <1>1, <1>5, <1>10 DEF Memory
<1>12. Counted(n, l + 1, h + 1, k)
  <2>1. j.map[Absent] # 0
    BY <1>1, <1>4, Sizes DEF Counted, Absent
  <2>2. \A x \in Page, y \in Slot : j.map[n.table[x][y]] # 0
    <3> SUFFICES ASSUME NEW x \in Page, NEW y \in Slot PROVE j.map[n.table[x][y]] # 0
      OBVIOUS
    <3>1. \A z \in Page, e \in Slot : j.map[j.table[z][e]] # 0
      BY <1>4 DEF Counted
    <3>2. CASE x = l
      <4>1. n.table[x][y] = copy[y]
        BY <1>11, <3>2
      <4>2. CASE copy[y] = Absent
        BY <2>1, <4>1, <4>2
      <4>3. CASE \E z \in Slot : copy[y] = j.table[Dir(c)][z]
        BY <1>1, <3>1, <4>1, <4>3
      <4> QED BY <1>9, <4>2, <4>3
    <3>3. CASE x # l
      BY <1>11, <3>1, <3>3
    <3> QED BY <3>2, <3>3
  <2> QED BY <1>4, <1>10, <2>2 DEF Counted
<1>13. \A x \in Page, y \in Slot : x # l /\ x # kernel_pt => n.table[x][y] = m.table[x][y]
  BY <1>3, <1>11 DEF Put
<1>14. (\A g \in Page : g # l => n.map[g] = m.map[g]) /\ n.data = m.data
  BY <1>3, <1>10 DEF Put
<1> QED BY <1>7, <1>10, <1>11, <1>12, <1>13, <1>14 DEF n

\* One page copied into the child, through the page at TEMP of the forking process.
LEMMA EntryCopied ==
  ASSUME NEW m \in Memory, NEW c, NEW l, NEW h, NEW k, Numbers(c, l, h, k),
         Counted(m, l + 1, h + 1, k), Kernel(m), Directory(m, c), m.table[l][2] = Absent
  PROVE  LET n == CopyEntry(m, Dir(c), l, USER_PROG)
         IN /\ n \in Memory /\ Counted(n, l + 2, h + 2, k)
            /\ n.table[l][2] = l + 1
            /\ \A y \in Slot : y # 0 => n.table[l + 1][y] = Absent
            /\ \A x \in Page, y \in Slot :
                 /\ x # kernel_pt /\ x # KernelTable /\ x # l + 1
                 /\ ~(x = CommonTable /\ y = TEMP - ENTRIES) /\ ~(x = l /\ y = 2)
                 => n.table[x][y] = m.table[x][y]
            /\ \A g \in Page : g # h + 1 /\ g # l + 1 => n.map[g] = m.map[g]
            /\ \A g \in Page : g # h + 1 => n.data[g] = m.data[g]
<1> DEFINE o == h + 1
           d == Dir(c)
           m1 == mm_mmap(m, kernel_pd, o, o)
           m2 == mm_mmap(m1, d, TEMP, o)
           m3 == mm_mmap(m2, l, USER_PROG, o)
           n == CopyEntry(m, d, l, USER_PROG)
           e1 == o - ENTRIES
           e2 == TEMP - ENTRIES
           l1 == l + 1
<1>1. /\ o \in Nat /\ ENTRIES <= o /\ o < 2 * ENTRIES /\ o < num_of_page /\ o + 1 = h + 2
      /\ l1 \in Nat /\ kernel_pt < l1 /\ l1 < ENTRIES /\ l \in Nat /\ 0 < l1 /\ l1 + 1 = l + 2
      /\ k \in Nat \ {0} /\ 4 <= k /\ k < REFS
      /\ TEMP \in Nat /\ ENTRIES <= TEMP /\ TEMP < 2 * ENTRIES
      /\ l1 # l /\ o # l1
  BY Sizes DEF Numbers, CommonTable, kernel_pt
<1>2. /\ d \in Nat /\ d # KernelTable /\ d # CommonTable /\ d # l /\ d # kernel_pt /\ d # l1
      /\ KernelTable # CommonTable /\ KernelTable # l /\ KernelTable # kernel_pt /\ KernelTable # l1
      /\ CommonTable # l /\ CommonTable # kernel_pt /\ CommonTable # l1
      /\ kernel_pd # KernelTable /\ kernel_pd # CommonTable /\ kernel_pd # l /\ kernel_pd # kernel_pt
      /\ KernelTable # Absent /\ CommonTable # Absent /\ l # kernel_pt
  BY Sizes DEF Numbers, CommonTable, KernelTable, kernel_pt, kernel_pd, Absent
<1>3. {o, l, l1, d, CommonTable, KernelTable, kernel_pd, kernel_pt, Absent, TEMP} \subseteq Page
  BY NumberFacts
<1>4. {0, 1, 2, e1, e2, l, l1} \subseteq Slot
  <2>1. e1 = h + 1 - ENTRIES
    BY Sizes DEF Numbers
  <2> QED BY <2>1, NumberFacts
<1>5. /\ o \div ENTRIES = 1 /\ o % ENTRIES = e1
      /\ TEMP \div ENTRIES = 1 /\ TEMP % ENTRIES = e2
  BY <1>1, CommonPlace
<1>6. CopyEntry(m, d, l, USER_PROG) = memory_copy(m3, d, TEMP, USER_PROG)
  <2>1. HighPage(m) = o
    BY <1>1, HighPageIs
  <2> QED BY <2>1 DEF CopyEntry
<1>7. Counted(m, l1, o, k)
  OBVIOUS
<1> HIDE DEF o, d, e1, e2, l1
<1>8. m.map[o] = 0 /\ m.map[l1] = 0
  BY <1>1, <1>7, FirstFree
<1>9. Put(m, m1, KernelTable, e1, o)
  <2>1. m.table[kernel_pd][1] = KernelTable
    BY DEF Kernel
  <2>2. m.map[o] + 1 < REFS
    BY <1>1, <1>8, Sizes
  <2> QED BY <1>1, <1>2, <1>3, <1>4, <1>5, <2>1, <2>2, MapPresent
<1> HIDE DEF m1
<1>10. m1 \in Memory /\ m1.map[o] = 1 /\ Counted(m1, l1, o + 1, k)
  <2>1. Counted(m1, l1, o + 1, k)
    BY <1>1, <1>3, <1>4, <1>7, <1>9, PutHigh
  <2> QED BY <2>1, <1>8, <1>9 DEF Put
<1>11. Put(m1, m2, CommonTable, e2, o)
  <2>1. m1.table[d][1] = CommonTable
    BY <1>2, <1>3, <1>4, <1>9 DEF Directory, Put, d
  <2>2. m1.map[o] + 1 < REFS
    BY <1>1, <1>10, Sizes
  <2> QED BY <1>1, <1>2, <1>3, <1>4, <1>5, <1>10, <2>1, <2>2, MapPresent
<1> HIDE DEF m2
<1>12. m2 \in Memory /\ m2.map[o] = 2 /\ Counted(m2, l1, o + 1, k)
  <2>1. m1.map[o] # 0 /\ m1.map[o] < k
    BY <1>1, <1>10
  <2>2. Counted(m2, l1, o + 1, k)
    BY <1>1, <1>3, <1>4, <1>10, <1>11, <2>1, PutUsed
  <2> QED BY <2>2, <1>10, <1>11 DEF Put
<1>13. NewTable(m2, m3, l, 2, l1, 0, o)
  <2>1. m2.table[l][2] = Absent /\ m2.table[kernel_pd][0] = kernel_pt
    BY <1>2, <1>3, <1>4, <1>9, <1>11 DEF Put, Kernel
  <2>2. LowPage(m2) = l1
    BY <1>1, <1>12, LowPageIs
  <2>3. m2.map[l1] = 0
    BY <1>1, <1>3, <1>8, <1>9, <1>11 DEF Put
  <2>4. m2.map[o] + 1 < REFS
    BY <1>1, <1>12, Sizes
  <2>5. USER_PROG \in Nat
    BY Sizes DEF USER_PROG
  <2>6. 2 \in Slot /\ 0 \in Slot /\ l \in Page /\ o \in Page
    BY <1>3, <1>4
  <2> QED BY <1>1, <1>2, <1>12, <2>1, <2>2, <2>3, <2>4, <2>5, <2>6, UserPlace, MapAbsent
<1> HIDE DEF m3
<1>14. m3 \in Memory /\ Counted(m3, l1 + 1, o + 1, k)
  <2>1. m2.map[o] # 0 /\ m2.map[o] < k
    BY <1>1, <1>12
  <2> DEFINE o1 == o + 1
  <2>2. o1 \in Nat /\ ENTRIES <= o1 /\ o1 < num_of_page /\ Counted(m2, l1, o1, k)
    BY <1>1, <1>12, Sizes DEF Numbers, o
  <2> HIDE DEF o1
  <2>3. Counted(m3, l1 + 1, o1, k)
    BY <1>1, <1>3, <1>4, <1>12, <1>13, <2>1, <2>2, TableCounted
  <2> QED BY <2>3, <1>13 DEF NewTable, o1
<1>15. Translate(m3, d, TEMP) = o
  <2>1. m3.table[d][1] = CommonTable
    BY <1>2, <1>3, <1>4, <1>9, <1>11, <1>13 DEF Directory, Put, NewTable, d
  <2>2. m3.table[CommonTable][e2] = o
    BY <1>2, <1>3, <1>4, <1>11, <1>13 DEF Put, NewTable
  <2> QED BY <2>1, <2>2, <1>2, <1>5 DEF Translate, Entry
<1>16. Translate(m3, d, USER_PROG) \in Page
  <2>1. \A x \in Page, y \in Slot : m3.table[x][y] \in Page
    BY <1>14 DEF Memory
  <2> QED BY <2>1, <1>3, <1>4, UserPlace DEF Translate, Entry
<1>17. n = [m3 EXCEPT !.data[o] = m3.data[Translate(m3, d, USER_PROG)]]
  BY <1>6, <1>15 DEF memory_copy
<1> HIDE DEF n
<1>18. n \in Memory /\ n.map = m3.map /\ n.table = m3.table
       /\ \A g \in Page : g # o => n.data[g] = m3.data[g]
  <2>1. m3.data[Translate(m3, d, USER_PROG)] \in Contents
    BY <1>14, <1>16 DEF Memory
  <2> QED BY <2>1, <1>3, <1>14, <1>17 DEF Memory
<1>19. Counted(n, l + 2, h + 2, k)
  BY <1>1, <1>14, <1>18 DEF Counted
<1>20. n.table[l][2] = l1 /\ \A y \in Slot : y # 0 => n.table[l1][y] = Absent
  BY <1>13, <1>18 DEF NewTable
<1>21. ASSUME NEW x \in Page, NEW y \in Slot,
              x # kernel_pt, x # KernelTable, x # l1, ~(x = CommonTable /\ y = e2), ~(x = l /\ y = 2)
       PROVE  n.table[x][y] = m.table[x][y]
  BY <1>9, <1>11, <1>13, <1>18, <1>21 DEF Put, NewTable
<1>22. /\ \A g \in Page : g # o /\ g # l1 => n.map[g] = m.map[g]
       /\ \A g \in Page : g # o => n.data[g] = m.data[g]
  BY <1>9, <1>11, <1>13, <1>18 DEF Put, NewTable
<1> QED BY <1>18, <1>19, <1>20, <1>21, <1>22 DEF n, o, l1, e2, d

\* copy_pd_and_pts, for the child's directory l.
LEMMA SpaceCopied ==
  ASSUME NEW m \in Memory, NEW c, NEW l, NEW h, NEW k, Numbers(c, l, h, k),
         Counted(m, l, h + 1, k), Kernel(m), Directory(m, c),
         m.table[UserTable(c)][0] # Absent
  PROVE  LET n == copy_pd_and_pts(m, Dir(c), l)
         IN /\ n \in Memory /\ Kept(m, n, c, l, h) /\ Counted(n, l + 2, h + 2, k)
            /\ \A g \in Page : ENTRIES <= g /\ g <= h => n.map[g] = m.map[g]
            /\ n.data[h] = m.data[h]
            /\ n.table[CommonTable][h - ENTRIES] = m.table[CommonTable][h - ENTRIES]
            /\ n.table[l][0] = kernel_pt /\ n.table[l][1] = CommonTable /\ n.table[l][2] = l + 1
            /\ \A y \in Slot : 2 < y => n.table[l][y] = Absent
            /\ \A y \in Slot : y # 0 => n.table[l + 1][y] = Absent
<1> DEFINE s == Shallow(m, Dir(c), l)
           n == copy_pd_and_pts(m, Dir(c), l)
<1>1. Copied(m, Dir(c)) = {USER_PROG}
  <2>1. /\ Dir(c) \in Page /\ m.table[Dir(c)][2] = UserTable(c) /\ UserTable(c) # Absent
        /\ \A e \in Slot : 2 < e /\ e < ENTRIES - 1 => m.table[Dir(c)][e] = Absent
        /\ \A e \in Slot : e # 0 => m.table[UserTable(c)][e] = Absent
    <3>1. Dir(c) \in Page
      BY NumberFacts
    <3>2. UserTable(c) # Absent
      BY Sizes DEF UserTable, Numbers, Absent
    <3> QED BY <3>1, <3>2 DEF Directory
  <2> QED BY <2>1, OneCopied
<1>2. n = CopyEntry(s, Dir(c), l, USER_PROG)
  BY <1>1, CopyIs
<1>3. /\ s \in Memory /\ Counted(s, l + 1, h + 1, k)
      /\ s.table[l][0] = kernel_pt /\ s.table[l][1] = CommonTable
      /\ \A y \in Slot : y # 0 /\ y # 1 => s.table[l][y] = Absent
      /\ \A x \in Page, y \in Slot : x # l /\ x # kernel_pt => s.table[x][y] = m.table[x][y]
      /\ \A g \in Page : g # l => s.map[g] = m.map[g]
      /\ s.data = m.data
  BY ShallowCopied
<1> HIDE DEF s
<1>4. Kept(m, s, c, l, h)
  <2>1. \A x \in Page, y \in Slot : x < l /\ x # kernel_pt => s.table[x][y] = m.table[x][y]
    <3>1. ~(l < l)
      BY DEF Numbers
    <3> QED BY <1>3, <3>1
  <2>2. \A g \in Page : s.data[g] = m.data[g]
    BY <1>3
  <2> QED BY <2>1, <2>2 DEF Kept
<1>5. Kernel(s) /\ Directory(s, c)
  BY <1>4, ForkerKept
<1>6. 2 \in Slot /\ s.table[l][2] = Absent
  BY <1>3, NumberFacts
<1>7. /\ n \in Memory /\ Counted(n, l + 2, h + 2, k)
      /\ n.table[l][2] = l + 1
      /\ \A y \in Slot : y # 0 => n.table[l + 1][y] = Absent
      /\ \A x \in Page, y \in Slot :
           /\ x # kernel_pt /\ x # KernelTable /\ x # l + 1
           /\ ~(x = CommonTable /\ y = TEMP - ENTRIES) /\ ~(x = l /\ y = 2)
           => n.table[x][y] = s.table[x][y]
      /\ \A g \in Page : g # h + 1 /\ g # l + 1 => n.map[g] = s.map[g]
      /\ \A g \in Page : g # h + 1 => n.data[g] = s.data[g]
  BY <1>2, <1>3, <1>5, <1>6, EntryCopied
<1> HIDE DEF n
<1>8. /\ l \in Nat /\ h \in Nat /\ l + 1 < ENTRIES /\ ENTRIES <= h /\ ENTRIES \in Nat
      /\ CommonTable # kernel_pt /\ CommonTable # KernelTable /\ CommonTable < l
      /\ l # kernel_pt /\ l # KernelTable /\ l # CommonTable
      /\ h - ENTRIES # TEMP - ENTRIES /\ CommonTable \in Nat
  BY Sizes DEF Numbers, CommonTable, KernelTable, kernel_pt
<1>9. {l, h, CommonTable} \subseteq Page /\ {0, 1, h - ENTRIES} \subseteq Slot
      /\ \A x \in Page \cup Slot : x \in Nat
  <2>1. \A x \in Page \cup Slot : x \in Nat
    BY DEF Page, Slot
  <2> QED BY <2>1, NumberFacts
<1>10. Kept(s, n, c, l, h)
  <2>1. ASSUME NEW x \in Page, NEW y \in Slot, x < l, x # kernel_pt, x # KernelTable,
               ~(x = CommonTable /\ y = TEMP - ENTRIES)
        PROVE  n.table[x][y] = s.table[x][y]
    <3>1. x # l /\ x # l + 1
      BY <1>8, <1>9, <2>1
    <3> QED BY <1>7, <2>1, <3>1
  <2>2. ASSUME NEW g \in Page, g < h PROVE n.data[g] = s.data[g]
    <3>1. g # h + 1
      BY <1>8, <1>9, <2>2
    <3> QED BY <1>7, <3>1
  <2> QED BY <2>1, <2>2 DEF Kept
<1>11. Kept(m, n, c, l, h)
  BY <1>4, <1>10, KeptKept
<1>12. ASSUME NEW g \in Page, ENTRIES <= g, g <= h PROVE n.map[g] = m.map[g]
  <2>1. g # h + 1 /\ g # l + 1 /\ g # l
    BY <1>8, <1>9, <1>12
  <2> QED BY <1>3, <1>7, <2>1
<1>13. n.data[h] = m.data[h]
  <2>1. h # h + 1
    BY <1>8
  <2> QED BY <1>3, <1>7, <1>9, <2>1
<1>14. n.table[CommonTable][h - ENTRIES] = m.table[CommonTable][h - ENTRIES]
  <2>1. CommonTable # l + 1
    BY <1>8
  <2>2. n.table[CommonTable][h - ENTRIES] = s.table[CommonTable][h - ENTRIES]
    BY <1>7, <1>8, <1>9, <2>1
  <2> QED BY <1>3, <1>8, <1>9, <2>2
<1>15. \A y \in Slot : y # 2 => n.table[l][y] = s.table[l][y]
  <2>1. l # l + 1
    BY <1>8
  <2> QED BY <1>7, <1>8, <1>9, <2>1
<1>16. n.table[l][0] = kernel_pt /\ n.table[l][1] = CommonTable
  BY <1>3, <1>9, <1>15
<1>17. ASSUME NEW y \in Slot, 2 < y PROVE n.table[l][y] = Absent
  <2>1. y # 0 /\ y # 1 /\ y # 2
    BY <1>17
  <2> QED BY <1>3, <1>15, <2>1
<1> QED BY <1>7, <1>11, <1>12, <1>13, <1>14, <1>16, <1>17 DEF n

\* A user page for the child.
LEMMA UserPageCopied ==
  ASSUME NEW m \in Memory, NEW c, NEW l, NEW h, NEW k, Numbers(c, l, h, k),
         Counted(m, l + 2, h + 2, k), Directory(m, c), m.table[l][2] = l + 1,
         NEW u \in Page, m.table[UserTable(c)][0] = u, u < h
  PROVE  /\ HighPage(m) = h + 2
         /\ LET n == CopyUserPage(m, Dir(c), l, h + 2)
            IN /\ n \in Memory /\ Counted(n, l + 2, h + 3, k)
               /\ n.table[l + 1][0] = h + 2
               /\ \A x \in Page, y \in Slot :
                    ~(x = CommonTable /\ y = TEMP - ENTRIES) /\ ~(x = l + 1 /\ y = 0)
                    => n.table[x][y] = m.table[x][y]
               /\ n.data[h + 2] = m.data[u] /\ n.map[h + 2] = 2
               /\ \A g \in Page : g # h + 2 => n.data[g] = m.data[g] /\ n.map[g] = m.map[g]
<1> DEFINE o == h + 2
           d == Dir(c)
           e2 == TEMP - ENTRIES
           l1 == l + 1
           l2 == l + 2
           m1 == mm_mmap(m, d, TEMP, o)
           m2 == mm_mmap(m1, l, USER_PROG, o)
           n == CopyUserPage(m, d, l, o)
<1>1. /\ o \in Nat /\ ENTRIES <= o /\ o < num_of_page /\ o + 1 = h + 3
      /\ l2 \in Nat /\ k \in Nat \ {0} /\ 4 <= k /\ k < REFS
      /\ TEMP \in Nat /\ ENTRIES <= TEMP /\ TEMP < 2 * ENTRIES
      /\ u # o
  <2>1. u \in Nat
    BY DEF Page
  <2> QED BY <2>1, Sizes DEF Numbers
<1>2. /\ d # CommonTable /\ d # l1 /\ l # CommonTable /\ l1 # CommonTable /\ l1 # l
      /\ UserTable(c) # CommonTable /\ UserTable(c) # l1
      /\ CommonTable # Absent /\ l1 # Absent /\ UserTable(c) # Absent
  BY Sizes DEF Numbers, CommonTable, KernelTable, UserTable, Absent
<1>3. {o, l, l1, d, CommonTable, UserTable(c), TEMP} \subseteq Page
  BY NumberFacts
<1>4. {0, 1, 2, e2} \subseteq Slot
  BY NumberFacts
<1>5. TEMP \div ENTRIES = 1 /\ TEMP % ENTRIES = e2
  BY <1>1, CommonPlace
<1>6. n = memory_copy(m2, d, TEMP, USER_PROG)
  BY DEF CopyUserPage
<1>7. Counted(m, l2, o, k) /\ m.table[l][2] = l1
  OBVIOUS
<1> HIDE DEF o, d, e2, l1, l2
<1>8. HighPage(m) = o /\ m.map[o] = 0
  <2>1. HighPage(m) = o
    BY <1>1, <1>7, HighPageIs
  <2> QED BY <2>1, <1>1, <1>7, FirstFree
<1>9. Put(m, m1, CommonTable, e2, o)
  <2>1. m.table[d][1] = CommonTable
    BY DEF Directory, d
  <2>2. m.map[o] + 1 < REFS
    BY <1>1, <1>8, Sizes
  <2> QED BY <1>1, <1>2, <1>3, <1>4, <1>5, <2>1, <2>2, MapPresent
<1> HIDE DEF m1
<1>10. m1 \in Memory /\ m1.map[o] = 1 /\ Counted(m1, l2, o + 1, k)
  <2>1. Counted(m1, l2, o + 1, k)
    BY <1>1, <1>3, <1>4, <1>7, <1>9, PutHigh
  <2> QED BY <2>1, <1>8, <1>9 DEF Put
<1>11. Put(m1, m2, l1, 0, o)
  <2>1. m1.table[l][2] = l1
    BY <1>2, <1>3, <1>4, <1>7, <1>9 DEF Put
  <2>2. m1.map[o] + 1 < REFS
    BY <1>1, <1>10, Sizes
  <2>3. USER_PROG \in Nat
    BY Sizes DEF USER_PROG
  <2> QED BY <1>1, <1>2, <1>3, <1>4, <1>10, <2>1, <2>2, <2>3, UserPlace, MapPresent
<1> HIDE DEF m2
<1>12. m2 \in Memory /\ Counted(m2, l2, o + 1, k)
  <2>1. m1.map[o] # 0 /\ m1.map[o] < k
    BY <1>1, <1>10
  <2>2. Counted(m2, l2, o + 1, k)
    BY <1>1, <1>3, <1>4, <1>10, <1>11, <2>1, PutUsed
  <2> QED BY <2>2, <1>11 DEF Put
<1>13. ASSUME NEW x \in Page, NEW y \in Slot,
              ~(x = CommonTable /\ y = e2), ~(x = l1 /\ y = 0)
       PROVE  m2.table[x][y] = m.table[x][y]
  BY <1>9, <1>11, <1>13 DEF Put
<1>14. Translate(m2, d, TEMP) = o /\ Translate(m2, d, USER_PROG) = u
  <2>1. m2.table[d][1] = CommonTable /\ m2.table[d][2] = UserTable(c)
    BY <1>2, <1>3, <1>4, <1>13 DEF Directory, d
  <2>2. m2.table[CommonTable][e2] = o
    BY <1>2, <1>3, <1>4, <1>9, <1>11 DEF Put
  <2>3. m2.table[UserTable(c)][0] = u
    BY <1>2, <1>3, <1>4, <1>13
  <2> QED BY <2>1, <2>2, <2>3, <1>2, <1>5, UserPlace DEF Translate, Entry
<1>15. n = [m2 EXCEPT !.data[o] = m2.data[u]]
  BY <1>6, <1>14 DEF memory_copy
<1> HIDE DEF n
<1>16. m2.data = m.data
  BY <1>9, <1>11 DEF Put
<1>17. n \in Memory /\ n.map = m2.map /\ n.table = m2.table
       /\ n.data[o] = m.data[u] /\ \A g \in Page : g # o => n.data[g] = m.data[g]
  <2>1. m2.data[u] \in Contents
    BY <1>12 DEF Memory
  <2> QED BY <2>1, <1>3, <1>12, <1>15, <1>16 DEF Memory
<1>18. Counted(n, l + 2, h + 3, k)
  BY <1>1, <1>12, <1>17 DEF Counted, l2
<1>19. n.table[l1][0] = o
  BY <1>11, <1>17 DEF Put
<1>20. \A g \in Page : g # o => n.map[g] = m.map[g]
  BY <1>9, <1>11, <1>17 DEF Put
<1>21. n.map[o] = 2
  BY <1>10, <1>11, <1>17 DEF Put
<1> QED BY <1>8, <1>13, <1>17, <1>18, <1>19, <1>20, <1>21 DEF n, o, l1, e2, d

\* A stack for the child, on the page s.
LEMMA StackCopied ==
  ASSUME NEW m \in Memory, NEW c, NEW l, NEW h, NEW k, Numbers(c, l, h, k),
         NEW s \in Nat, h <= s, s <= h + 3,
         Counted(m, l + 2, s, k), Kernel(m), Directory(m, c), m.table[l][ENTRIES - 1] = Absent,
         StackPage(m, c) \in ENTRIES .. h - 1
  PROVE  LET n == CopyStack(m, Dir(c), l)
         IN /\ n \in Memory /\ Counted(n, l + 3, s + 1, k)
            /\ n.table[l][ENTRIES - 1] = l + 2
            /\ n.table[l + 2][ENTRIES - 1] = s
            /\ \A x \in Page, y \in Slot :
                 /\ x # kernel_pt /\ x # l + 2
                 /\ ~(x = StackTable(c) /\ y = ENTRIES - 2) /\ ~(x = l /\ y = ENTRIES - 1)
                 => n.table[x][y] = m.table[x][y]
            /\ n.data[s] = m.data[StackPage(m, c)]
            /\ \A g \in Page : g # s => n.data[g] = m.data[g]
            /\ \A g \in Page : g < s /\ ENTRIES <= g => n.map[g] = m.map[g]
<1> DEFINE d == Dir(c)
           t == StackTable(c)
           l2 == l + 2
           e1 == ENTRIES - 1
           e2 == ENTRIES - 2
           v == StackPage(m, c)
           m1 == mm_mmap(m, d, CHILD_STACK, s)
           m2 == mm_mmap(m1, l, STACK, s)
           n == CopyStack(m, d, l)
<1>1. /\ ENTRIES <= s /\ s < num_of_page /\ s + 1 \in Nat /\ s + 1 < num_of_page
      /\ l \in Nat /\ l2 \in Nat /\ 0 < l2 /\ l2 < ENTRIES /\ kernel_pt < l2 /\ l2 + 1 = l + 3
      /\ k \in Nat \ {0} /\ 4 <= k /\ k < REFS
      /\ v # s /\ e1 # e2
  BY Sizes DEF Numbers, CommonTable, kernel_pt
<1>2. /\ d # t /\ d # l /\ d # l2 /\ d # kernel_pt
      /\ t # l /\ t # l2 /\ t # kernel_pt /\ t # kernel_pd /\ t # Absent
      /\ l # l2 /\ l # kernel_pt /\ l # kernel_pd /\ s # l2
  BY Sizes DEF Numbers, CommonTable, KernelTable, StackTable, kernel_pt, kernel_pd, Absent
<1>3. {s, v, l, l2, d, t, kernel_pd, kernel_pt} \subseteq Page
  <2>1. s \in Page /\ v \in Page
    BY Sizes DEF Numbers, Page
  <2> QED BY <2>1, NumberFacts
<1>4. {0, e1, e2} \subseteq Slot
  BY NumberFacts
<1>5. STACK \in Nat /\ CHILD_STACK \in Nat
  <2>1. ENTRIES * (ENTRIES - 1) = ENTRIES * ENTRIES - ENTRIES /\ ENTRIES * ENTRIES \in Nat
        /\ ENTRIES * (ENTRIES - 1) \in Nat
    BY Sizes
  <2> QED BY <2>1, Sizes DEF STACK, CHILD_STACK
<1>6. n = memory_copy(m2, d, CHILD_STACK, STACK)
  <2>1. HighPage(m) = s
    BY <1>1, HighPageIs
  <2> QED BY <2>1 DEF CopyStack
<1>7. Counted(m, l2, s, k) /\ m.table[l][e1] = Absent /\ m.table[t][e1] = v
  BY DEF StackPage
<1>8. /\ STACK \div ENTRIES = e1 /\ STACK % ENTRIES = e1
      /\ CHILD_STACK \div ENTRIES = e1 /\ CHILD_STACK % ENTRIES = e2
  BY StackPlaces
<1> HIDE DEF d, t, l2, e1, e2, v
<1>9. m.map[s] = 0 /\ m.map[l2] = 0
  BY <1>1, <1>7, FirstFree
<1>10. Put(m, m1, t, e2, s)
  <2>1. m.table[d][e1] = t
    BY DEF Directory, d, t, e1
  <2>2. m.map[s] + 1 < REFS
    BY <1>1, <1>9, Sizes
  <2> QED BY <1>1, <1>2, <1>3, <1>4, <1>5, <1>8, <2>1, <2>2, MapPresent
<1> HIDE DEF m1
<1>11. m1 \in Memory /\ m1.map[s] = 1 /\ Counted(m1, l2, s + 1, k)
  <2>1. Counted(m1, l2, s + 1, k)
    BY <1>1, <1>3, <1>4, <1>7, <1>10, PutHigh
  <2> QED BY <2>1, <1>9, <1>10 DEF Put
<1>12. NewTable(m1, m2, l, e1, l2, e1, s)
  <2>1. m1.table[l][e1] = Absent /\ m1.table[kernel_pd][0] = kernel_pt
    BY <1>2, <1>3, <1>4, <1>7, <1>10 DEF Put, Kernel
  <2>2. LowPage(m1) = l2
    BY <1>1, <1>11, LowPageIs
  <2>3. m1.map[l2] = 0
    BY <1>2, <1>3, <1>9, <1>10 DEF Put
  <2>4. m1.map[s] + 1 < REFS
    BY <1>1, <1>11, Sizes
  <2>5. e1 \in Slot /\ l \in Page /\ s \in Page
    BY <1>3, <1>4
  <2> QED BY <1>1, <1>2, <1>5, <1>8, <1>11, <2>1, <2>2, <2>3, <2>4, <2>5, MapAbsent
<1> HIDE DEF m2
<1>13. m2 \in Memory /\ Counted(m2, l2 + 1, s + 1, k)
  <2>1. m1.map[s] # 0 /\ m1.map[s] < k
    BY <1>1, <1>11
  <2> DEFINE o1 == s + 1
  <2>2. o1 \in Nat /\ ENTRIES <= o1 /\ o1 < num_of_page /\ Counted(m1, l2, o1, k)
    BY <1>1, <1>11, Sizes
  <2> HIDE DEF o1
  <2>3. Counted(m2, l2 + 1, o1, k)
    BY <1>1, <1>3, <1>4, <1>11, <1>12, <2>1, <2>2, TableCounted
  <2> QED BY <2>3, <1>12 DEF NewTable, o1
<1>14. ASSUME NEW x \in Page, NEW y \in Slot,
              x # kernel_pt, x # l2, ~(x = t /\ y = e2), ~(x = l /\ y = e1)
       PROVE  m2.table[x][y] = m.table[x][y]
  BY <1>10, <1>12, <1>14 DEF Put, NewTable
<1>15. Translate(m2, d, CHILD_STACK) = s /\ Translate(m2, d, STACK) = v
  <2>1. m2.table[d][e1] = t
    <3>1. m.table[d][e1] = t
      BY DEF Directory, d, t, e1
    <3> QED BY <3>1, <1>2, <1>3, <1>4, <1>14
  <2>2. m2.table[t][e1] = v
    BY <1>1, <1>2, <1>3, <1>4, <1>7, <1>14
  <2>3. m2.table[t][e2] = s
    BY <1>2, <1>3, <1>4, <1>10, <1>12 DEF Put, NewTable
  <2> QED BY <2>1, <2>2, <2>3, <1>2, <1>8 DEF Translate, Entry
<1>16. n = [m2 EXCEPT !.data[s] = m2.data[v]]
  BY <1>6, <1>15 DEF memory_copy
<1> HIDE DEF n
<1>17. m2.data = m.data
  BY <1>10, <1>12 DEF Put, NewTable
<1>18. n \in Memory /\ n.map = m2.map /\ n.table = m2.table
       /\ n.data[s] = m.data[v] /\ \A g \in Page : g # s => n.data[g] = m.data[g]
  <2>1. m2.data[v] \in Contents
    BY <1>3, <1>13 DEF Memory
  <2> QED BY <2>1, <1>3, <1>13, <1>16, <1>17 DEF Memory
<1>19. Counted(n, l + 3, s + 1, k)
  BY <1>1, <1>13, <1>18 DEF Counted
<1>20. n.table[l][e1] = l2 /\ n.table[l2][e1] = s
  BY <1>12, <1>18 DEF NewTable
<1>21. ASSUME NEW g \in Page, g < s, ENTRIES <= g PROVE n.map[g] = m.map[g]
  <2>1. g # s /\ g # l2
    BY <1>1, <1>21, Sizes
  <2> QED BY <2>1, <1>10, <1>12, <1>18 DEF Put, NewTable
<1> QED BY <1>14, <1>18, <1>19, <1>20, <1>21 DEF n, l2, t, e1, e2, v, d

-----------------------------------------------------------------------------
(* A fork, put together: the layout of one process more.                   *)

LEMMA NumbersHold ==
  ASSUME NEW m, NEW proc, NEW own, NEW n, NEW h, Ready(m, proc, own, n, h), n <= MAX_PID,
         NEW p \in 1 .. n - 1
  PROVE  Numbers(p, Dir(n), h, n + 2)
<1>1. n \in Nat /\ 2 <= n /\ n <= MAX_PID /\ p \in Nat /\ 1 <= p /\ p < n
  BY Sizes DEF Ready
<1>2. h \in Nat /\ ENTRIES <= h /\ h < ENTRIES + 4 * (n - 1)
  BY <1>1, Sizes DEF Ready
<1>3. Dir(n) = kernel_page_break + 3 * n + 1
  BY <1>1 DEF Dir
<1>4. Dir(p) \in Nat /\ KernelTable < Dir(p) /\ Dir(p) + 2 < Dir(n)
      /\ (Dir(p) + 2 < CommonTable \/ CommonTable < Dir(p))
  <2>1. CASE p = 1
    BY <1>1, <1>3, <2>1, Sizes DEF Dir, KernelTable, CommonTable
  <2>2. CASE p # 1
    BY <1>1, <1>3, <2>2, Sizes DEF Dir, KernelTable, CommonTable
  <2> QED BY <2>1, <2>2
<1>5. Dir(n) \in Nat /\ CommonTable < Dir(n) /\ Dir(n) + 2 < ENTRIES
  BY <1>1, <1>3, Sizes DEF CommonTable
<1>6. h + 3 < TEMP
  BY <1>1, <1>2, Sizes
<1>7. n + 2 \in Nat /\ 4 <= n + 2 /\ n + 2 < REFS
  BY <1>1, Sizes
<1> QED BY <1>2, <1>4, <1>5, <1>6, <1>7 DEF Numbers

LEMMA TablesApart ==
  ASSUME NEW p \in Nat \ {0}, NEW q \in Nat \ {0}
  PROVE  Dir(p) # StackTable(q) /\ UserTable(p) # StackTable(q)
BY Sizes DEF Dir, StackTable, UserTable

\* The counts of the user pages are those of m, but for one mapping of page no, which is
\* either a page of m or a new one.
OneMore(m, n, h, no) ==
  /\ \A g \in Page : ENTRIES <= g /\ g < h /\ g # no => n.map[g] = m.map[g]
  /\ n.map[no] = IF no < h THEN m.map[no] + 1 ELSE 2

\* What n has become of m by a fork of c, whose child is id: no is the user page of
\* the child and s its stack.
Forked(m, n, c, id, h, no, s, next) ==
  /\ n \in Memory
  /\ Kept(m, n, c, Dir(id), h)
  /\ Counted(n, Dir(id) + 3, next, id + 2)
  /\ Directory(n, id)
  /\ n.table[UserTable(id)][0] = no
  /\ StackPage(n, id) = s
  /\ n.table[CommonTable][h - ENTRIES] = h
  /\ n.data[h] = id
  /\ next \in Nat /\ next <= h + 4
  /\ s \in Nat /\ h < s /\ s < next
  /\ no \in Nat /\ ENTRIES <= no /\ no < next /\ no # h /\ no # s
  /\ OneMore(m, n, h, no)

\* own2 is own with one process more, id.
Joins(own, own2, id) ==
  /\ id \in Nat /\ id > 1
  /\ \A q \in 1 .. id - 1 : own2[q] = own[q] /\ own[q] # id

\* With it, those who share its page are one more, and the others as many as before.
LEMMA SharingGrows ==
  ASSUME NEW own, NEW own2, NEW id, Joins(own, own2, id)
  PROVE  /\ own2[id] = id => Cardinality(Sharing(own2, id + 1, id)) = 1
         /\ \A p \in 1 .. id - 1 :
              IF own[p] = own2[id]
              THEN /\ Cardinality(Sharing(own, id, p)) \in Nat
                   /\ Cardinality(Sharing(own2, id + 1, id)) =
                        Cardinality(Sharing(own, id, p)) + 1
                   /\ Sharing(own2, id + 1, p) = Sharing(own2, id + 1, id)
              ELSE Sharing(own2, id + 1, p) = Sharing(own, id, p)
<1> DEFINE Old == 1 .. id - 1
           S == Sharing(own2, id + 1, id)
<1>1. id \in Nat /\ id \notin Old /\ 1 .. (id + 1) - 1 = Old \cup {id}
  <2>1. id \in Nat /\ id > 1
    BY DEF Joins
  <2>2. (id + 1) - 1 = id
    BY <2>1
  <2>3. \A q : q \in 1 .. id <=> q \in Old \cup {id}
    BY <2>1
  <2>4. 1 .. id = Old \cup {id}
    BY <2>3
  <2> QED BY <2>1, <2>2, <2>4
<1>2. \A q \in Old : own2[q] = own[q] /\ own[q] # id
  BY DEF Joins
<1>3. S = {q \in Old \cup {id} : own2[q] = own2[id]}
  BY <1>1 DEF Sharing
<1>4. IsFiniteSet(Old)
  <2>1. 1 \in Int /\ id - 1 \in Int
    BY <1>1
  <2> QED BY <2>1, FS_Interval
<1> HIDE DEF Old, S
<1>5. ASSUME own2[id] = id PROVE Cardinality(S) = 1
  <2>1. S = {id}
    BY <1>2, <1>3, <1>5
  <2> QED BY <2>1, FS_Singleton
<1>6. ASSUME NEW p \in Old
      PROVE  IF own[p] = own2[id]
             THEN /\ Cardinality(Sharing(own, id, p)) \in Nat
                  /\ Cardinality(S) = Cardinality(Sharing(own, id, p)) + 1
                  /\ Sharing(own2, id + 1, p) = S
             ELSE Sharing(own2, id + 1, p) = Sharing(own, id, p)
  <2> DEFINE T == Sharing(own, id, p)
  <2>1. T = {q \in Old : own[q] = own[p]}
    BY DEF Sharing, Old
  <2>2. Sharing(own2, id + 1, p) = {q \in Old \cup {id} : own2[q] = own[p]}
    BY <1>1, <1>2 DEF Sharing
  <2> HIDE DEF T
  <2>3. CASE own[p] = own2[id]
    <3>1. S = T \cup {id}
      BY <1>2, <1>3, <2>1, <2>3
    <3>2. IsFiniteSet(T)
      BY <1>4, <2>1, FS_Subset
    <3>3. Cardinality(T) \in Nat
      BY <3>2, FS_CardinalityType
    <3>4. id \notin T
      BY <1>1, <2>1
    <3>5. Cardinality(T \cup {id}) = Cardinality(T) + 1
      BY <3>2, <3>4, FS_AddElement
    <3>6. Sharing(own2, id + 1, p) = S
      BY <1>3, <2>2, <2>3
    <3> QED BY <2>3, <3>1, <3>3, <3>5, <3>6 DEF T
  <2>4. CASE own[p] # own2[id]
    <3>1. {q \in Old \cup {id} : own2[q] = own[p]} = {q \in Old : own[q] = own[p]}
      BY <1>2, <2>4
    <3> QED BY <2>1, <2>2, <2>4, <3>1 DEF T
  <2> QED BY <2>3, <2>4
<1> QED BY <1>5, <1>6 DEF Old, S

LEMMA ForkReady ==
  ASSUME NEW m, NEW proc \in [Pid -> [page_dir : Page, page_no : Page, page : Page]],
         NEW own \in [Pid -> Pid], NEW id \in Pid, NEW h, Ready(m, proc, own, id, h),
         \A p \in 1 .. id - 1 : own[p] < id, own[id] = id,
         NEW c \in 1 .. id - 1, NEW n, NEW no, NEW s, NEW next,
         Forked(m, n, c, id, h, no, s, next),
         NEW who, \/ h < no /\ who = id
                  \/ no = proc[c].page_no /\ who = own[c]
  PROVE  Ready(n, [proc EXCEPT ![id] = [page_dir |-> Dir(id), page_no |-> no, page |-> h]],
               [own EXCEPT ![id] = who], id + 1, next)
<1> DEFINE proc2 == [proc EXCEPT ![id] = [page_dir |-> Dir(id), page_no |-> no, page |-> h]]
           own2 == [own EXCEPT ![id] = who]
           Old == 1 .. id - 1
<1>1. /\ id \in Nat /\ 2 <= id /\ id <= MAX_PID
      /\ h \in Nat /\ ENTRIES <= h /\ h < ENTRIES + 4 * (id - 1)
      /\ ENTRIES \in Nat /\ MAX_PID \in Nat
  BY Sizes DEF Ready, Pid
<1>2. /\ next \in Nat /\ h < next /\ next <= h + 4
      /\ s \in Nat /\ h < s /\ s < next
      /\ no \in Nat /\ ENTRIES <= no /\ no < next /\ no # h /\ no # s
  BY <1>1 DEF Forked
<1>3. \A p \in Old : p \in Pid /\ p # id
  <2> SUFFICES ASSUME NEW p \in 1 .. id - 1 PROVE p \in Pid /\ p # id
    OBVIOUS
  <2>1. p \in Nat /\ 1 <= p /\ p < id /\ p <= MAX_PID
    BY <1>1
  <2> QED BY <2>1 DEF Pid
<1>4. /\ \A p \in Old : proc2[p] = proc[p] /\ own2[p] = own[p]
      /\ proc2[id] = [page_dir |-> Dir(id), page_no |-> no, page |-> h]
      /\ own2[id] = who
  BY <1>3
<1>5. 1 .. (id + 1) - 1 = Old \cup {id}
  BY <1>1
<1>6. \A p \in Old : Space(m, p, proc[p], h)
  BY DEF Ready
<1>7. Kernel(m) /\ Kept(m, n, c, Dir(id), h)
  BY DEF Ready, Forked
<1> HIDE DEF proc2, own2, Old
<1>8. ASSUME NEW p \in Old
      PROVE  Space(n, p, proc2[p], next) /\ StackPage(n, p) = StackPage(m, p)
  <2>1. Numbers(p, Dir(id), h, id + 2)
    BY <1>1, NumbersHold DEF Old
  <2>2. Dir(p) # StackTable(c) /\ UserTable(p) # StackTable(c)
    <3>1. p \in Nat \ {0} /\ c \in Nat \ {0}
      BY <1>1 DEF Old
    <3> QED BY <3>1, TablesApart
  <2>3. Space(m, p, proc[p], h)
    BY <1>6
  <2>4. /\ Directory(n, p)
        /\ n.table[UserTable(p)][0] = m.table[UserTable(p)][0]
        /\ StackPage(n, p) = StackPage(m, p)
    <3>1. Directory(m, p)
      BY <2>3 DEF Space
    <3> QED BY <1>7, <2>1, <2>2, <3>1, DirectoryKept
  <2> DEFINE g == proc[p].page
  <2>5. g \in Nat /\ ENTRIES <= g /\ g < h
    BY <1>1, <2>3 DEF Space
  <2>6. m.table[CommonTable][g - ENTRIES] = g /\ m.data[g] = p
    BY <2>3 DEF Space
  <2> HIDE DEF g
  <2>7. g \in Page /\ g - ENTRIES \in Slot /\ g - ENTRIES # h - ENTRIES /\ g - ENTRIES # TEMP - ENTRIES
    BY <2>1, <2>5, Sizes DEF Numbers, Page, Slot
  <2>8. /\ CommonTable \in Page /\ CommonTable < Dir(id) /\ CommonTable # kernel_pt
        /\ CommonTable # KernelTable /\ CommonTable # StackTable(c)
    <3>1. CommonTable \in Page /\ CommonTable < Dir(id)
      BY <2>1, NumberFacts DEF Numbers
    <3>2. CommonTable # kernel_pt /\ CommonTable # KernelTable
      BY Sizes DEF CommonTable, KernelTable, kernel_pt
    <3>3. CommonTable # StackTable(c)
      <4>1. Numbers(c, Dir(id), h, id + 2)
        BY <1>1, NumbersHold
      <4> QED BY <4>1, Sizes DEF Numbers, StackTable, CommonTable
    <3> QED BY <3>1, <3>2, <3>3
  <2>9. n.table[CommonTable][g - ENTRIES] = g /\ n.data[g] = p
    BY <1>7, <2>5, <2>6, <2>7, <2>8 DEF Kept
  <2>10. proc[p].page_no \in ENTRIES .. next - 1 /\ proc[p].page \in ENTRIES .. next - 1
         /\ StackPage(n, p) \in ENTRIES .. next - 1
    BY <1>1, <1>2, <2>3, <2>4 DEF Space
  <2>11. Space(n, p, proc[p], next)
    BY <2>3, <2>4, <2>9, <2>10 DEF Space, g
  <2> QED BY <1>4, <2>4, <2>11
<1>9. Space(n, id, proc2[id], next)
  <2>1. h \in ENTRIES .. next - 1 /\ no \in ENTRIES .. next - 1 /\ s \in ENTRIES .. next - 1
    BY <1>1, <1>2
  <2> QED BY <1>4, <2>1 DEF Space, Forked
<1>10. \A p \in Old : /\ proc[p].page_no < h /\ proc[p].page < h /\ StackPage(m, p) < h
                      /\ proc[p].page_no \in Nat /\ proc[p].page \in Nat /\ StackPage(m, p) \in Nat
  <2> SUFFICES ASSUME NEW p \in Old
               PROVE  /\ proc[p].page_no < h /\ proc[p].page < h /\ StackPage(m, p) < h
                      /\ proc[p].page_no \in Nat /\ proc[p].page \in Nat /\ StackPage(m, p) \in Nat
    OBVIOUS
  <2> QED BY <1>1, <1>6 DEF Space
<1>11. Apart(m, proc, own, id)
  BY DEF Ready
<1>12. c \in Old /\ StackPage(n, id) = s /\ id \notin Old
  BY <1>1 DEF Forked, Old
<1>13. Apart(n, proc2, own2, id + 1)
  <2> SUFFICES ASSUME NEW p \in Old \cup {id}, NEW q \in Old \cup {id}
               PROVE  /\ StackPage(n, p) = StackPage(n, q) => p = q
                      /\ proc2[p].page_no = proc2[q].page_no <=> own2[p] = own2[q]
                      /\ proc2[p].page_no # proc2[q].page
                      /\ proc2[p].page_no # StackPage(n, q)
                      /\ proc2[p].page # StackPage(n, q)
    BY <1>5 DEF Apart
  <2>1. CASE p \in Old /\ q \in Old
    BY <1>4, <1>8, <1>11, <2>1 DEF Apart, Old
  <2>2. proc2[id].page_no = no /\ proc2[id].page = h /\ own2[id] = who
    BY <1>4
  <2>3. ASSUME NEW r \in Old
        PROVE  /\ StackPage(n, r) # s /\ proc2[r].page_no # h
               /\ proc2[r].page # no /\ proc2[r].page_no # s /\ no # StackPage(n, r)
               /\ proc2[r].page # s /\ h # StackPage(n, r)
               /\ proc2[r].page_no = no <=> own2[r] = who
    <3>1. proc2[r] = proc[r] /\ own2[r] = own[r] /\ StackPage(n, r) = StackPage(m, r)
      BY <1>4, <1>8
    <3>2. CASE h < no /\ who = id
      <4>1. own[r] # id
        BY <1>1 DEF Old
      <4>2. /\ proc[r].page_no < h /\ proc[r].page < h /\ StackPage(m, r) < h
            /\ proc[r].page_no \in Nat /\ proc[r].page \in Nat /\ StackPage(m, r) \in Nat
        BY <1>10
      <4>3. /\ StackPage(m, r) # s /\ proc[r].page_no # h /\ proc[r].page # no
            /\ proc[r].page_no # s /\ no # StackPage(m, r) /\ proc[r].page # s
            /\ h # StackPage(m, r) /\ proc[r].page_no # no
        BY <1>1, <1>2, <3>2, <4>2
      <4> QED BY <3>1, <3>2, <4>1, <4>3
    <3>3. CASE no = proc[c].page_no /\ who = own[c]
      <4>1. /\ proc[r].page_no = no <=> own[r] = who
            /\ proc[r].page # no /\ no # StackPage(m, r)
        BY <1>11, <1>12, <3>3 DEF Apart, Old
      <4> QED BY <1>1, <1>2, <1>10, <3>1, <4>1
    <3> QED BY <3>2, <3>3
  <2>4. CASE p \in Old /\ q = id
    BY <1>12, <2>2, <2>3, <2>4
  <2>5. CASE p = id /\ q \in Old
    BY <1>12, <2>2, <2>3, <2>5
  <2>6. CASE p = id /\ q = id
    BY <1>2, <1>12, <2>2, <2>6
  <2> QED BY <2>1, <2>4, <2>5, <2>6
<1>14. Kernel(n)
  <2>1. Numbers(c, Dir(id), h, id + 2)
    BY <1>1, NumbersHold
  <2> QED BY <1>7, <2>1, KernelKept
<1>15. Counted(n, Dir(id + 1), next, id + 1 + 1) /\ n \in Memory
  <2>1. Dir(id + 1) = Dir(id) + 3 /\ id + 1 + 1 = id + 2
    BY <1>1, Sizes DEF Dir
  <2> QED BY <2>1 DEF Forked
<1>16. id + 1 \in 2 .. MAX_PID + 1 /\ next \in ENTRIES .. ENTRIES + 4 * ((id + 1) - 1) - 1
  BY <1>1, <1>2
<1>17. \A p \in 1 .. (id + 1) - 1 : Space(n, p, proc2[p], next)
  BY <1>5, <1>8, <1>9
<1>18. /\ who = id => Cardinality(Sharing(own2, id + 1, id)) = 1
       /\ who = own[c] => /\ Cardinality(Sharing(own, id, c)) \in Nat
                          /\ Cardinality(Sharing(own2, id + 1, id)) =
                               Cardinality(Sharing(own, id, c)) + 1
       /\ \A p \in Old :
            /\ own[p] # who => Sharing(own2, id + 1, p) = Sharing(own, id, p)
            /\ own[p] = who => Sharing(own2, id + 1, p) = Sharing(own2, id + 1, id)
  <2>1. \A q \in Old : own[q] # id
    BY <1>1 DEF Old
  <2>2. Joins(own, own2, id) /\ own2[id] = who /\ c \in Old
    BY <1>1, <1>4, <2>1 DEF Joins, Old
  <2> HIDE DEF own2
  <2>3. /\ own2[id] = id => Cardinality(Sharing(own2, id + 1, id)) = 1
        /\ \A p \in Old :
             IF own[p] = own2[id]
             THEN /\ Cardinality(Sharing(own, id, p)) \in Nat
                  /\ Cardinality(Sharing(own2, id + 1, id)) =
                       Cardinality(Sharing(own, id, p)) + 1
                  /\ Sharing(own2, id + 1, p) = Sharing(own2, id + 1, id)
             ELSE Sharing(own2, id + 1, p) = Sharing(own, id, p)
    BY <2>2, SharingGrows DEF Old
  <2> HIDE DEF Old
  <2> QED BY <2>2, <2>3
<1>19. /\ OneMore(m, n, h, no)
       /\ \A p \in Old : m.map[proc[p].page_no] = 1 + Cardinality(Sharing(own, id, p))
  BY DEF Ready, Shared, Forked, Old
<1>20. n.map[no] = 1 + Cardinality(Sharing(own2, id + 1, id))
  <2>1. CASE h < no /\ who = id
    <3>1. n.map[no] = 2
      BY <1>1, <1>2, <1>19, <2>1 DEF OneMore
    <3> QED BY <1>18, <2>1, <3>1
  <2>2. CASE no = proc[c].page_no /\ who = own[c]
    <3>1. no < h /\ m.map[no] = 1 + Cardinality(Sharing(own, id, c))
      BY <1>10, <1>12, <1>19, <2>2
    <3>2. n.map[no] = 1 + Cardinality(Sharing(own, id, c)) + 1
      BY <1>19, <3>1 DEF OneMore
    <3> QED BY <1>18, <2>2, <3>2
  <2> QED BY <2>1, <2>2
<1>21. Shared(n, proc2, own2, id + 1)
  <2> SUFFICES ASSUME NEW p \in Old \cup {id}
               PROVE  n.map[proc2[p].page_no] = 1 + Cardinality(Sharing(own2, id + 1, p))
    BY <1>5 DEF Shared
  <2>1. CASE p = id
    BY <1>4, <1>20, <2>1
  <2>2. CASE p \in Old
    <3>1. /\ proc2[p].page_no = proc[p].page_no /\ own2[p] = own[p]
          /\ proc2[id].page_no = no /\ own2[id] = who
      BY <1>4, <2>2
    <3>2. proc[p].page_no = no <=> own[p] = who
      <4>1. p \in 1 .. (id + 1) - 1 /\ id \in 1 .. (id + 1) - 1
        BY <1>5
      <4> QED BY <1>13, <3>1, <4>1 DEF Apart
    <3>3. CASE own[p] = who
      BY <1>18, <1>20, <2>2, <3>1, <3>2, <3>3
    <3>4. CASE own[p] # who
      <4>1. /\ proc[p].page_no \in Nat /\ ENTRIES <= proc[p].page_no /\ proc[p].page_no < h
        BY <1>1, <1>6, <1>10, <2>2 DEF Space
      <4>2. proc[p].page_no \in Page
        <5>1. h < num_of_page
          <6>1. Numbers(c, Dir(id), h, id + 2)
            BY <1>1, NumbersHold
          <6> QED BY <6>1, Sizes DEF Numbers
        <5> QED BY <1>1, <4>1, <5>1, Sizes DEF Page
      <4>3. n.map[proc[p].page_no] = m.map[proc[p].page_no]
        BY <1>19, <3>2, <3>4, <4>1, <4>2 DEF OneMore
      <4> QED BY <1>18, <1>19, <2>2, <3>1, <3>4, <4>3
    <3> QED BY <3>3, <3>4
  <2> QED BY <2>1, <2>2
<1> QED BY <1>13, <1>14, <1>15, <1>16, <1>17, <1>21 DEF Ready, proc2, own2

\* The structure of the child, in its own directory.
LEMMA OwnStructureMapped ==
  ASSUME NEW m \in Memory, NEW c, NEW l, NEW h, NEW k, Numbers(c, l, h, k),
         NEW next, Counted(m, l + 3, next, k), m.table[l][1] = CommonTable, m.map[h] = 1,
         m.table[CommonTable][h - ENTRIES] = h
  PROVE  LET n == mm_mmap(m, l, h, h)
         IN /\ n \in Memory /\ Counted(n, l + 3, next, k) /\ n.data = m.data
            /\ \A x \in Page, y \in Slot : n.table[x][y] = m.table[x][y]
            /\ \A x \in Page : x # h => n.map[x] = m.map[x]
<1> DEFINE n == mm_mmap(m, l, h, h)
           e == h - ENTRIES
<1>1. /\ h \in Nat /\ ENTRIES <= h /\ h < 2 * ENTRIES /\ CommonTable # Absent
      /\ k \in Nat /\ 1 < k /\ 2 < REFS
  BY Sizes DEF Numbers, CommonTable, Absent
<1>2. {l, h, CommonTable} \subseteq Page /\ {1, e} \subseteq Slot
  BY NumberFacts
<1>3. h \div ENTRIES = 1 /\ h % ENTRIES = e
  BY <1>1, CommonPlace
<1>4. m.table[CommonTable][e] = h
  OBVIOUS
<1> HIDE DEF e
<1>5. Put(m, n, CommonTable, e, h)
  <2>1. m.map[h] + 1 < REFS
    BY <1>1
  <2> QED BY <1>1, <1>2, <1>3, <2>1, MapPresent
<1> HIDE DEF n
<1>6. Counted(n, l + 3, next, k)
  <2>1. m.map[h] # 0 /\ m.map[h] < k
    BY <1>1
  <2> QED BY <1>1, <1>2, <1>5, <2>1, PutUsed
<1>7. \A x \in Page, y \in Slot : n.table[x][y] = m.table[x][y]
  BY <1>4, <1>5 DEF Put
<1> QED BY <1>5, <1>6, <1>7 DEF Put, n

\* n is what BeginFork makes of m: the child id has a structure, a directory and an
\* empty table for its user page.
Begun(m, n, c, id, h) ==
  /\ n \in Memory /\ Kept(m, n, c, Dir(id), h) /\ Counted(n, Dir(id) + 2, h + 2, id + 2)
  /\ n.map[h] = 1 /\ \A g \in Page : ENTRIES <= g /\ g < h => n.map[g] = m.map[g]
  /\ n.data[h] = id
  /\ n.table[CommonTable][h - ENTRIES] = h
  /\ n.table[Dir(id)][0] = kernel_pt
  /\ n.table[Dir(id)][1] = CommonTable
  /\ n.table[Dir(id)][2] = UserTable(id)
  /\ \A y \in Slot : 2 < y => n.table[Dir(id)][y] = Absent
  /\ \A y \in Slot : y # 0 => n.table[UserTable(id)][y] = Absent

LEMMA ForkBegins ==
  ASSUME NEW h, Ready(memory, process, owner, next_pid, h), next_pid \in Pid,
         current \in 1 .. next_pid - 1
  PROVE  LET pd == process[current].page_dir
         IN /\ HighPage(memory) = h
            /\ LowPage(MapStructure(memory, pd, h)) = Dir(next_pid)
            /\ Begun(memory, BeginFork(pd, h, Dir(next_pid)), current, next_pid, h)
<1> DEFINE c == current
           id == next_pid
           l == Dir(id)
           k == id + 2
           d == Dir(c)
           s == MapStructure(memory, d, h)
           n == copy_pd_and_pts(s, d, l)
<1>1. /\ id \in Nat /\ 2 <= id /\ id <= MAX_PID
      /\ h \in Nat /\ memory \in Memory
  BY Sizes DEF Ready, Pid
<1>2. Numbers(c, l, h, k)
  BY <1>1, NumbersHold
<1>3. process[c].page_dir = d /\ Directory(memory, c)
  BY DEF Ready, Space
<1>4. memory.table[UserTable(c)][0] = process[c].page_no /\ process[c].page_no # Absent
  BY Sizes DEF Ready, Space, Absent
<1>5. Counted(memory, l, h, k) /\ Kernel(memory)
  <2>1. Counted(memory, l, h, id + 1)
    BY DEF Ready
  <2>2. \A g \in Page : memory.map[g] \in Nat
    BY <1>1, Sizes DEF Memory
  <2>3. \A g \in Page : memory.map[g] <= k
    BY <1>1, <2>1, <2>2 DEF Counted
  <2> QED BY <2>1, <2>3 DEF Counted, Ready
<1> HIDE DEF c, l, k, d
<1>6. /\ s \in Memory /\ Kept(memory, s, c, l, h) /\ Counted(s, l, h + 1, k)
      /\ s.map[h] = 1 /\ \A g \in Page : g < h => s.map[g] = memory.map[g]
      /\ s.table[CommonTable][h - ENTRIES] = h /\ s.data[h] = id
  BY <1>1, <1>2, <1>3, <1>5, StructureMapped DEF d
<1>7. HighPage(memory) = h
  <2>1. ENTRIES <= h /\ h < num_of_page
    BY <1>2, Sizes DEF Numbers
  <2> QED BY <1>1, <1>5, <2>1, HighPageIs
<1>8. LowPage(s) = l
  <2>1. l \in Nat /\ l < ENTRIES
    BY <1>2, Sizes DEF Numbers
  <2> QED BY <1>6, <2>1, LowPageIs
<1> HIDE DEF s
<1>9. /\ Kernel(s) /\ Directory(s, c)
      /\ s.table[UserTable(c)][0] # Absent
  BY <1>2, <1>3, <1>4, <1>5, <1>6, ForkerKept
<1>10. /\ n \in Memory /\ Kept(s, n, c, l, h) /\ Counted(n, l + 2, h + 2, k)
       /\ \A g \in Page : ENTRIES <= g /\ g <= h => n.map[g] = s.map[g]
       /\ n.data[h] = s.data[h]
       /\ n.table[CommonTable][h - ENTRIES] = s.table[CommonTable][h - ENTRIES]
       /\ n.table[l][0] = kernel_pt /\ n.table[l][1] = CommonTable /\ n.table[l][2] = l + 1
       /\ \A y \in Slot : 2 < y => n.table[l][y] = Absent
       /\ \A y \in Slot : y # 0 => n.table[l + 1][y] = Absent
  BY <1>2, <1>6, <1>9, SpaceCopied DEF d
<1> HIDE DEF n
<1>11. Kept(memory, n, c, l, h)
  BY <1>6, <1>10, KeptKept
<1>12. /\ n.map[h] = 1
       /\ \A g \in Page : ENTRIES <= g /\ g < h => n.map[g] = memory.map[g]
  <2>1. ENTRIES <= h /\ h \in Page /\ \A g \in Page : g \in Nat /\ (g < h => g <= h)
    <3>1. \A g \in Page : g \in Nat
      BY DEF Page
    <3>2. h \in Page
      BY <1>2, NumberFacts
    <3>3. ENTRIES <= h
      BY <1>2 DEF Numbers
    <3> QED BY <1>1, <3>1, <3>2, <3>3
  <2> QED BY <1>6, <1>10, <2>1
<1>13. Begun(memory, n, c, id, h)
  BY <1>6, <1>10, <1>11, <1>12 DEF Begun, UserTable, l, k
<1>14. BeginFork(process[c].page_dir, h, l) = n
  BY <1>3 DEF BeginFork, n, s
<1> QED BY <1>3, <1>7, <1>8, <1>13, <1>14 DEF c, l, s

\* The second half of a fork: n is m with the child's user page no, and the next free
\* high page is s.
Halfway(m, n, c, id, h, no, s) ==
  /\ n \in Memory /\ Kept(m, n, c, Dir(id), h) /\ Counted(n, Dir(id) + 2, s, id + 2)
  /\ n.map[h] = 1
  /\ n.data[h] = id
  /\ n.table[CommonTable][h - ENTRIES] = h
  /\ n.table[Dir(id)][0] = kernel_pt
  /\ n.table[Dir(id)][1] = CommonTable
  /\ n.table[Dir(id)][2] = UserTable(id)
  /\ \A y \in Slot : 2 < y => n.table[Dir(id)][y] = Absent
  /\ n.table[UserTable(id)][0] = no
  /\ \A y \in Slot : y # 0 => n.table[UserTable(id)][y] = Absent
  /\ s \in Nat /\ h < s /\ s <= h + 3
  /\ no \in Nat /\ ENTRIES <= no /\ no < s /\ no # h
  /\ OneMore(m, n, h, no)

LEMMA ForkEnds ==
  ASSUME NEW h, Ready(memory, process, owner, next_pid, h), next_pid \in Pid,
         current \in 1 .. next_pid - 1,
         NEW m, NEW no, NEW s, Halfway(memory, m, current, next_pid, h, no, s)
  PROVE  LET n == mm_mmap(CopyStack(m, process[current].page_dir, Dir(next_pid)), Dir(next_pid), h, h)
         IN /\ Forked(memory, n, current, next_pid, h, no, s, s + 1)
            /\ n.data[s] = memory.data[StackPage(memory, current)]
            /\ \A g \in Page : g # s => n.data[g] = m.data[g]
<1> DEFINE c == current
           id == next_pid
           l == Dir(id)
           k == id + 2
           d == Dir(c)
           v == StackPage(memory, c)
           o == CopyStack(m, d, l)
           n == mm_mmap(o, l, h, h)
           l1 == l + 1
           l2 == l + 2
           e1 == ENTRIES - 1
<1>1. /\ id \in Nat /\ 2 <= id /\ id <= MAX_PID
      /\ h \in Nat /\ memory \in Memory
      /\ s \in Nat /\ h < s /\ s <= h + 3 /\ no \in Nat /\ ENTRIES <= no /\ no < s /\ no # h
  BY Sizes DEF Ready, Pid, Halfway
<1>2. Numbers(c, l, h, k)
  BY <1>1, NumbersHold
<1>3. process[c].page_dir = d /\ Directory(memory, c) /\ v \in ENTRIES .. h - 1 /\ Kernel(memory)
  BY DEF Ready, Space
<1>4. UserTable(id) = l1 /\ StackTable(id) = l2
  BY DEF UserTable, StackTable
<1>5. /\ m \in Memory /\ Kept(memory, m, c, l, h) /\ Counted(m, l + 2, s, k)
      /\ m.map[h] = 1 /\ m.data[h] = id
      /\ m.table[CommonTable][h - ENTRIES] = h
      /\ m.table[l][0] = kernel_pt /\ m.table[l][1] = CommonTable /\ m.table[l][2] = l1
      /\ \A y \in Slot : 2 < y => m.table[l][y] = Absent
      /\ m.table[l1][0] = no
      /\ \A y \in Slot : y # 0 => m.table[l1][y] = Absent
  BY <1>4 DEF Halfway
<1> HIDE DEF c, l, k, d, v
<1>6. Kernel(m) /\ Directory(m, c) /\ StackPage(m, c) = v
  BY <1>2, <1>3, <1>5, ForkerKept DEF v
<1>7. e1 \in Slot /\ 2 < e1 /\ m.table[l][e1] = Absent
  <2>1. e1 \in Slot /\ 2 < e1
    BY <1>2, NumberFacts, Sizes
  <2> QED BY <2>1, <1>5
<1>8. /\ o \in Memory /\ Counted(o, l + 3, s + 1, k)
      /\ o.table[l][e1] = l2
      /\ o.table[l2][e1] = s
      /\ \A x \in Page, y \in Slot :
           /\ x # kernel_pt /\ x # l2
           /\ ~(x = StackTable(c) /\ y = ENTRIES - 2) /\ ~(x = l /\ y = e1)
           => o.table[x][y] = m.table[x][y]
      /\ o.data[s] = m.data[v]
      /\ \A g \in Page : g # s => o.data[g] = m.data[g]
      /\ \A g \in Page : g < s /\ ENTRIES <= g => o.map[g] = m.map[g]
  <2>1. h <= s
    BY <1>1
  <2>2. StackPage(m, c) \in ENTRIES .. h - 1
    BY <1>3, <1>6
  <2> QED BY <1>1, <1>2, <1>5, <1>6, <1>7, <2>1, <2>2, StackCopied DEF d
<1> HIDE DEF o, e1, l1, l2
<1>9. /\ l # kernel_pt /\ l # l2 /\ l # StackTable(c) /\ l # CommonTable
      /\ l1 # kernel_pt /\ l1 # l2 /\ l1 # StackTable(c) /\ l1 # l
      /\ CommonTable # kernel_pt /\ CommonTable # l2 /\ CommonTable # StackTable(c)
      /\ l \in Nat /\ l2 \in Nat /\ l < l2
  BY <1>2, Sizes DEF Numbers, CommonTable, KernelTable, StackTable, kernel_pt, l1, l2
<1>10. /\ {l, l1, l2, h, CommonTable} \subseteq Page
       /\ {0, 1, 2, h - ENTRIES} \subseteq Slot /\ 0 # e1 /\ 1 # e1 /\ 2 # e1
  <2>1. 0 # e1 /\ 1 # e1 /\ 2 # e1
    BY <1>7
  <2> QED BY <1>2, <2>1, NumberFacts DEF l1, l2
<1>11. /\ o.table[l][1] = CommonTable /\ o.map[h] = 1
       /\ o.table[CommonTable][h - ENTRIES] = h
  <2>1. h < s /\ ENTRIES <= h
    BY <1>1, <1>2 DEF Numbers
  <2> QED BY <1>5, <1>8, <1>9, <1>10, <2>1
<1>12. /\ n \in Memory /\ Counted(n, l + 3, s + 1, k) /\ n.data = o.data
       /\ \A x \in Page, y \in Slot : n.table[x][y] = o.table[x][y]
       /\ \A x \in Page : x # h => n.map[x] = o.map[x]
  <2> DEFINE next == s + 1
  <2>1. Counted(o, l + 3, next, k)
    BY <1>8
  <2> HIDE DEF next
  <2>2. /\ n \in Memory /\ Counted(n, l + 3, next, k) /\ n.data = o.data
        /\ \A x \in Page, y \in Slot : n.table[x][y] = o.table[x][y]
        /\ \A x \in Page : x # h => n.map[x] = o.map[x]
    BY <1>2, <1>8, <1>11, <2>1, OwnStructureMapped
  <2> QED BY <2>2 DEF next
<1> HIDE DEF n
<1>13. Kept(m, n, c, l, h)
  <2>1. ASSUME NEW x \in Page, NEW y \in Slot, x < l, x # kernel_pt,
               ~(x = StackTable(c) /\ y = ENTRIES - 2)
        PROVE  n.table[x][y] = m.table[x][y]
    <3>1. x # l /\ x # l2
      <4>1. x \in Nat
        BY DEF Page
      <4> QED BY <4>1, <1>9, <2>1
    <3> QED BY <1>8, <1>12, <2>1, <3>1
  <2>2. ASSUME NEW g \in Page, g < h PROVE n.data[g] = m.data[g]
    <3>1. g # s
      <4>1. g \in Nat
        BY DEF Page
      <4> QED BY <4>1, <1>1, <2>2
    <3> QED BY <1>8, <1>12, <3>1
  <2> QED BY <2>1, <2>2 DEF Kept
<1>14. Kept(memory, n, c, l, h)
  BY <1>5, <1>13, KeptKept
<1>15. /\ n.table[CommonTable][h - ENTRIES] = h /\ n.data[h] = id
       /\ n.table[l1][0] = no /\ n.table[l2][e1] = s
  <2>1. h # s
    BY <1>1
  <2> QED BY <1>5, <1>8, <1>9, <1>10, <1>12, <1>7, <2>1
<1>16. Directory(n, id)
  <2>1. n.table[l][0] = kernel_pt /\ n.table[l][1] = CommonTable /\ n.table[l][2] = l1
    BY <1>5, <1>8, <1>9, <1>10, <1>12
  <2>2. n.table[l][e1] = l2
    BY <1>7, <1>8, <1>10, <1>12
  <2>3. \A y \in Slot : 2 < y /\ y < e1 => n.table[l][y] = Absent
    <3> SUFFICES ASSUME NEW y \in Slot, 2 < y, y < e1 PROVE n.table[l][y] = Absent
      OBVIOUS
    <3>1. y # e1
      BY <1>7 DEF Slot
    <3> QED BY <1>5, <1>8, <1>9, <1>10, <1>12, <3>1
  <2>4. \A y \in Slot : y # 0 => n.table[l1][y] = Absent
    BY <1>5, <1>8, <1>9, <1>10, <1>12
  <2> QED BY <1>4, <2>1, <2>2, <2>3, <2>4 DEF Directory, l, e1
<1>17. n.data[s] = memory.data[v] /\ \A g \in Page : g # s => n.data[g] = m.data[g]
  <2>1. v \in Page /\ v < h
    BY <1>2, <1>3, Sizes DEF Numbers, Page
  <2>2. m.data[v] = memory.data[v]
    BY <1>5, <2>1 DEF Kept
  <2> QED BY <1>8, <1>12, <2>2
<1>c. OneMore(memory, n, h, no)
  <2>1. OneMore(memory, m, h, no)
    BY DEF Halfway
  <2>2. ASSUME NEW g \in Page, ENTRIES <= g, g < s, g # h PROVE n.map[g] = m.map[g]
    BY <1>8, <1>12, <2>2
  <2>3. \A g \in Page : g < h => g < s /\ g # h
    <3>1. \A g \in Page : g \in Nat
      BY DEF Page
    <3> QED BY <1>1, <3>1
  <2>4. no \in Page
    BY <1>1, <1>2, Sizes DEF Numbers, Page
  <2>5. n.map[no] = m.map[no]
    BY <1>1, <2>2, <2>4
  <2> QED BY <2>1, <2>2, <2>3, <2>5 DEF OneMore
<1>18. Forked(memory, n, c, id, h, no, s, s + 1)
  <2>1. s + 1 \in Nat /\ s + 1 <= h + 4 /\ s < s + 1 /\ no < s + 1 /\ no # s
    BY <1>1
  <2>2. n.table[UserTable(id)][0] = no /\ StackPage(n, id) = s
    BY <1>4, <1>15 DEF StackPage, e1
  <2> QED BY <1>1, <1>c, <1>12, <1>14, <1>15, <1>16, <2>1, <2>2 DEF Forked, l, k
<1> QED BY <1>3, <1>17, <1>18 DEF n, o, v, l, c
\* sys_fork: the child has a user page of its own.
LEMMA ForkForks ==
  ASSUME NEW h, Ready(memory, process, owner, next_pid, h), sys_fork,
         current \in 1 .. next_pid - 1
  PROVE  /\ Forked(memory, memory', current, next_pid, h, h + 2, h + 3, h + 4)
         /\ process' = [process EXCEPT ![next_pid] =
                          [page_dir |-> Dir(next_pid), page_no |-> h + 2, page |-> h]]
         /\ memory'.data[h + 2] = memory.data[process[current].page_no]
         /\ memory'.data[h + 3] = memory.data[StackPage(memory, current)]
<1> DEFINE c == current
           id == next_pid
           l == Dir(id)
           k == id + 2
           pd == process[c].page_dir
           u == process[c].page_no
           m1 == BeginFork(pd, h, l)
           no == h + 2
           s == h + 3
           m2 == CopyUserPage(m1, pd, l, no)
           n == mm_mmap(CopyStack(m2, pd, l), l, h, h)
<1>1. /\ id \in Pid /\ id \in Nat /\ 2 <= id /\ id <= MAX_PID
      /\ h \in Nat /\ memory \in Memory
  BY Sizes DEF Ready, Pid, sys_fork
<1>2. Numbers(c, l, h, k)
  BY <1>1, NumbersHold
<1>3. HighPage(memory) = h /\ LowPage(MapStructure(memory, pd, h)) = l
      /\ Begun(memory, m1, c, id, h)
  BY <1>1, ForkBegins
<1> HIDE DEF m1
<1>4. /\ pd = Dir(c) /\ Directory(memory, c) /\ Kernel(memory)
      /\ memory.table[UserTable(c)][0] = u /\ u \in ENTRIES .. h - 1
  BY DEF Ready, Space
<1>5. /\ m1 \in Memory /\ Kept(memory, m1, c, l, h) /\ Counted(m1, l + 2, h + 2, k)
      /\ m1.table[l][2] = l + 1
  BY <1>3 DEF Begun, UserTable
<1>6. /\ Directory(m1, c) /\ m1.table[UserTable(c)][0] = u
      /\ u \in Page /\ u < h
  <2>1. u \in Page /\ u < h
    BY <1>1, <1>2, <1>4, Sizes DEF Numbers, Page
  <2> QED BY <1>2, <1>4, <1>5, <2>1, ForkerKept
<1> HIDE DEF u
<1>7. /\ HighPage(m1) = no /\ m2 \in Memory /\ Counted(m2, l + 2, s, k)
      /\ m2.table[l + 1][0] = no
      /\ \A x \in Page, y \in Slot :
           ~(x = CommonTable /\ y = TEMP - ENTRIES) /\ ~(x = l + 1 /\ y = 0)
           => m2.table[x][y] = m1.table[x][y]
      /\ m2.data[no] = m1.data[u] /\ m2.map[no] = 2
      /\ \A g \in Page : g # no => m2.data[g] = m1.data[g] /\ m2.map[g] = m1.map[g]
  BY <1>2, <1>4, <1>5, <1>6, UserPageCopied
<1> HIDE DEF m2
<1>8. /\ {l, l + 1, h, CommonTable} \subseteq Page /\ {0, 1, 2, h - ENTRIES} \subseteq Slot
      /\ \A g \in Page : g \in Nat
  <2>1. \A g \in Page : g \in Nat
    BY DEF Page
  <2> QED BY <1>2, <2>1, NumberFacts
<1>9. /\ CommonTable < l /\ CommonTable \in Nat /\ l \in Nat /\ ENTRIES <= h
      /\ h - ENTRIES # TEMP - ENTRIES /\ h \in Nat
  BY <1>2, Sizes DEF Numbers, CommonTable
<1>10. m1.map[h] = 1 /\ m1.data[h] = id /\ m1.table[CommonTable][h - ENTRIES] = h
       /\ m1.table[l][0] = kernel_pt /\ m1.table[l][1] = CommonTable
       /\ (\A y \in Slot : 2 < y => m1.table[l][y] = Absent)
       /\ \A y \in Slot : y # 0 => m1.table[l + 1][y] = Absent
  BY <1>3 DEF Begun, UserTable
<1>11. Kept(memory, m2, c, l, h)
  <2>1. ASSUME NEW x \in Page, NEW y \in Slot, x < l, ~(x = CommonTable /\ y = TEMP - ENTRIES)
        PROVE  m2.table[x][y] = m1.table[x][y]
    <3>1. x # l + 1
      BY <1>8, <1>9, <2>1
    <3> QED BY <1>7, <2>1, <3>1
  <2>2. ASSUME NEW g \in Page, g < h PROVE m2.data[g] = m1.data[g]
    <3>1. g # no
      BY <1>8, <1>9, <2>2
    <3> QED BY <1>7, <3>1
  <2>3. Kept(m1, m2, c, l, h)
    BY <2>1, <2>2 DEF Kept
  <2> QED BY <1>5, <2>3, KeptKept
<1>12. /\ m2.map[h] = 1 /\ m2.data[h] = id /\ m2.table[CommonTable][h - ENTRIES] = h
       /\ m2.table[l][0] = kernel_pt /\ m2.table[l][1] = CommonTable
       /\ m2.table[l][2] = l + 1
       /\ (\A y \in Slot : 2 < y => m2.table[l][y] = Absent)
       /\ \A y \in Slot : y # 0 => m2.table[l + 1][y] = Absent
  <2>1. h # no /\ l # CommonTable /\ l # l + 1 /\ l + 1 # CommonTable
    BY <1>9
  <2> QED BY <1>5, <1>7, <1>8, <1>9, <1>10, <2>1
<1>c. OneMore(memory, m2, h, no)
  <2>1. \A g \in Page : ENTRIES <= g /\ g < h => m1.map[g] = memory.map[g]
    BY <1>3 DEF Begun
  <2>2. ~(no < h)
    BY <1>9
  <2> QED BY <1>7, <2>1, <2>2 DEF OneMore
<1>13. Halfway(memory, m2, c, id, h, no, s)
  <2>1. s \in Nat /\ h < s /\ s <= h + 3
        /\ no \in Nat /\ ENTRIES <= no /\ no < s /\ no # h
    BY <1>9, Sizes
  <2> QED BY <1>c, <1>7, <1>11, <1>12, <2>1 DEF Halfway, UserTable, l, k
<1> HIDE DEF c, id, l, pd, no, s, n
<1>14. /\ Forked(memory, n, c, id, h, no, s, s + 1)
       /\ n.data[s] = memory.data[StackPage(memory, c)]
       /\ \A g \in Page : g # s => n.data[g] = m2.data[g]
  BY <1>1, <1>13, ForkEnds DEF n, c, id, l, pd
<1>15. n.data[no] = memory.data[u]
  <2>1. no \in Page /\ no # s
    BY <1>2, <1>9, Sizes DEF no, s, Numbers, Page
  <2> QED BY <1>5, <1>6, <1>7, <1>14, <2>1 DEF Kept
<1>16. memory' = n /\ process' = [process EXCEPT ![id] = [page_dir |-> l, page_no |-> no, page |-> h]]
  BY <1>3, <1>7 DEF sys_fork, AddProcess, n, m2, m1, c, id, l, pd
<1>17. s + 1 = h + 4
  BY <1>9 DEF s
<1> QED BY <1>14, <1>15, <1>16, <1>17 DEF n, no, s, u, c, id, l
\* sys_shared_fork: the child has its parent's user page.
LEMMA SharedForkForks ==
  ASSUME NEW h, Ready(memory, process, owner, next_pid, h), sys_shared_fork,
         current \in 1 .. next_pid - 1
  PROVE  LET u == process[current].page_no
         IN /\ Forked(memory, memory', current, next_pid, h, u, h + 2, h + 3)
            /\ process' = [process EXCEPT ![next_pid] =
                             [page_dir |-> Dir(next_pid), page_no |-> u, page |-> h]]
            /\ memory'.data[h + 2] = memory.data[StackPage(memory, current)]
<1> DEFINE c == current
           id == next_pid
           l == Dir(id)
           k == id + 2
           pd == process[c].page_dir
           u == process[c].page_no
           m1 == BeginFork(pd, h, l)
           s == h + 2
           m2 == mm_mmap(m1, l, USER_PROG, u)
           n == mm_mmap(CopyStack(m2, pd, l), l, h, h)
<1>1. /\ id \in Pid /\ id \in Nat /\ 2 <= id /\ id <= MAX_PID
      /\ h \in Nat /\ memory \in Memory
  BY Sizes DEF Ready, Pid, sys_shared_fork
<1>2. Numbers(c, l, h, k)
  BY <1>1, NumbersHold
<1>3. HighPage(memory) = h /\ LowPage(MapStructure(memory, pd, h)) = l
      /\ Begun(memory, m1, c, id, h)
  BY <1>1, ForkBegins
<1> HIDE DEF m1
<1>4. u \in ENTRIES .. h - 1 /\ u \in Page /\ ENTRIES <= u /\ u < h /\ u \in Nat
  <2>1. u \in ENTRIES .. h - 1
    BY DEF Ready, Space
  <2> QED BY <1>1, <1>2, <2>1, Sizes DEF Numbers, Page
<1>5. /\ m1 \in Memory /\ Kept(memory, m1, c, l, h) /\ Counted(m1, l + 2, s, k)
      /\ m1.table[l][2] = l + 1
  BY <1>3 DEF Begun, UserTable
<1>6. m1.map[u] # 0 /\ m1.map[u] < k
  <2>1. m1.map[u] = memory.map[u]
    BY <1>3, <1>4 DEF Begun
  <2>2. memory.map[u] # 0 /\ memory.map[u] <= id + 1 /\ memory.map[u] \in Nat
    BY <1>1, <1>4, Sizes DEF Ready, Counted, Memory
  <2> QED BY <1>1, <2>1, <2>2
<1> HIDE DEF u
<1>7. /\ {l, l + 1, h, CommonTable} \subseteq Page /\ {0, 1, 2, h - ENTRIES} \subseteq Slot
      /\ \A g \in Page : g \in Nat
  <2>1. \A g \in Page : g \in Nat
    BY DEF Page
  <2> QED BY <1>2, <2>1, NumberFacts
<1>8. /\ CommonTable < l /\ CommonTable \in Nat /\ l \in Nat /\ ENTRIES <= h
      /\ h - ENTRIES # TEMP - ENTRIES /\ h \in Nat /\ h < s /\ s <= h + 3 /\ s \in Nat
      /\ k \in Nat /\ k < REFS
  BY <1>2, Sizes DEF Numbers, CommonTable
<1>9. Put(m1, m2, l + 1, 0, u)
  <2> DEFINE l1 == l + 1
  <2>1. m1.table[l][2] = l1 /\ l1 # Absent
    BY <1>5, <1>8 DEF Absent
  <2> HIDE DEF l1
  <2>2. m1.map[u] + 1 < REFS
    <3>1. m1.map[u] \in Nat
      BY <1>4, <1>5, Sizes DEF Memory
    <3> QED BY <1>6, <1>8, <3>1, Sizes
  <2>3. USER_PROG \in Nat
    BY Sizes DEF USER_PROG
  <2>4. Put(m1, m2, l1, 0, u)
    BY <1>4, <1>5, <1>7, <2>1, <2>2, <2>3, UserPlace, MapPresent
  <2> QED BY <2>4 DEF l1
<1> HIDE DEF m2
<1>10. m2 \in Memory /\ Counted(m2, l + 2, s, k) /\ m2.data = m1.data
  <2> DEFINE l1 == l + 1
  <2>1. l1 \in Page /\ Put(m1, m2, l1, 0, u)
    BY <1>7, <1>9
  <2> HIDE DEF l1
  <2>2. Counted(m2, l + 2, s, k)
    BY <1>4, <1>5, <1>6, <1>7, <1>8, <2>1, PutUsed
  <2> QED BY <2>2, <1>9 DEF Put
<1>11. m1.map[h] = 1 /\ m1.data[h] = id /\ m1.table[CommonTable][h - ENTRIES] = h
       /\ m1.table[l][0] = kernel_pt /\ m1.table[l][1] = CommonTable
       /\ (\A y \in Slot : 2 < y => m1.table[l][y] = Absent)
       /\ \A y \in Slot : y # 0 => m1.table[l + 1][y] = Absent
  BY <1>3 DEF Begun, UserTable
<1>12. /\ m2.table[l + 1][0] = u
       /\ \A x \in Page, y \in Slot : ~(x = l + 1 /\ y = 0) => m2.table[x][y] = m1.table[x][y]
       /\ m2.map[u] = m1.map[u] + 1
       /\ \A x \in Page : x # u => m2.map[x] = m1.map[x]
  BY <1>9 DEF Put
<1>13. Kept(memory, m2, c, l, h)
  <2>1. ASSUME NEW x \in Page, NEW y \in Slot, x < l
        PROVE  m2.table[x][y] = m1.table[x][y]
    <3>1. x # l + 1
      BY <1>7, <1>8, <2>1
    <3> QED BY <1>12, <3>1
  <2>2. Kept(m1, m2, c, l, h)
    BY <2>1, <1>10 DEF Kept
  <2> QED BY <1>5, <2>2, KeptKept
<1>14. /\ m2.map[h] = 1 /\ m2.data[h] = id /\ m2.table[CommonTable][h - ENTRIES] = h
       /\ m2.table[l][0] = kernel_pt /\ m2.table[l][1] = CommonTable
       /\ m2.table[l][2] = l + 1
       /\ (\A y \in Slot : 2 < y => m2.table[l][y] = Absent)
       /\ \A y \in Slot : y # 0 => m2.table[l + 1][y] = Absent
  <2>1. h # u /\ l # l + 1 /\ l + 1 # CommonTable
    BY <1>4, <1>8
  <2> QED BY <1>5, <1>7, <1>10, <1>11, <1>12, <2>1
<1>c. OneMore(memory, m2, h, u)
  <2>1. \A g \in Page : ENTRIES <= g /\ g < h => m1.map[g] = memory.map[g]
    BY <1>3 DEF Begun
  <2> QED BY <1>4, <1>12, <2>1 DEF OneMore
<1>15. Halfway(memory, m2, c, id, h, u, s)
  <2>1. u \in Nat /\ ENTRIES <= u /\ u < s /\ u # h
    BY <1>4, <1>8
  <2> QED BY <1>c, <1>8, <1>10, <1>12, <1>13, <1>14, <2>1 DEF Halfway, UserTable, l, k
<1> HIDE DEF c, id, l, pd, s, n
<1>16. /\ Forked(memory, n, c, id, h, u, s, s + 1)
       /\ n.data[s] = memory.data[StackPage(memory, c)]
  BY <1>1, <1>15, ForkEnds DEF n, c, id, l, pd
<1>17. memory' = n /\ process' = [process EXCEPT ![id] = [page_dir |-> l, page_no |-> u, page |-> h]]
  BY <1>3 DEF sys_shared_fork, AddProcess, n, m2, m1, u, c, id, l, pd
<1>18. s + 1 = h + 3
  BY <1>8 DEF s
<1> QED BY <1>16, <1>17, <1>18 DEF n, s, u, c, id, l
-----------------------------------------------------------------------------
(* The first process.                                                      *)

LEMMA BootCounted ==
  ASSUME Booted
  PROVE  /\ memory \in Memory
         /\ Counted(memory, KernelTable, ENTRIES, 3)
         /\ memory.table[kernel_pd][0] = kernel_pt
         /\ \A y \in Slot : y # 0 => memory.table[kernel_pd][y] = Absent
<1>1. PICK last \in {0, 1} : memory = [map |-> CountedPages(last), table |-> KernelTables,
                                       data |-> [g \in Page |-> NoData]]
  BY DEF Booted
<1> DEFINE Low == kernel_page_break + 1
           first == [EmptyTable EXCEPT ![0] = kernel_pt]
           second == [e \in Slot |-> IF e <= kernel_page_break THEN e ELSE Absent]
<1>2. /\ \A g \in Page : g \in Nat /\ memory.map[g] =
           (IF g = num_of_page THEN last ELSE IF g <= Low THEN 1 ELSE 0)
      /\ memory.map \in [Page -> 0 .. REFS - 1]
  <2>1. memory.map = [g \in Page |-> IF g = num_of_page THEN last ELSE IF g <= Low THEN 1 ELSE 0]
    BY <1>1 DEF CountedPages
  <2>2. {0, 1} \subseteq 0 .. REFS - 1
    BY Sizes
  <2>3. \A g \in Page : g \in Nat
    BY DEF Page
  <2> HIDE DEF Low
  <2> QED BY <2>1, <2>2, <2>3
<1>3. EmptyTable \in [Slot -> {Absent}]
  BY DEF EmptyTable, Slot
<1>4. {0, 1, 2} \subseteq Slot /\ {kernel_pd, kernel_pt, Absent} \subseteq Page /\ Slot \subseteq Page
  BY Sizes DEF Slot, Page, kernel_pd, kernel_pt, Absent
<1>5. /\ first \in [Slot -> {Absent, kernel_pt}]
      /\ first[0] = kernel_pt /\ \A y \in Slot : y # 0 => first[y] = Absent
  BY <1>3, <1>4
<1>6. second \in [Slot -> {e \in Slot : e <= kernel_page_break}]
  <2>1. Absent \in Slot /\ Absent <= kernel_page_break
    BY <1>4, Sizes DEF Absent
  <2> QED BY <2>1
<1> HIDE DEF first, second
<1>7. memory.table = [g \in Page |-> IF g = kernel_pd THEN first
                                     ELSE IF g = kernel_pt THEN second ELSE EmptyTable]
  BY <1>1 DEF KernelTables, first, second, Slot
<1>8. \A t \in Page, e \in Slot :
        memory.table[t][e] \in Page /\ memory.table[t][e] <= Low
  <2> SUFFICES ASSUME NEW t \in Page, NEW e \in Slot
               PROVE  memory.table[t][e] \in Page /\ memory.table[t][e] <= Low
    OBVIOUS
  <2>1. memory.table[t][e] \in {Absent, kernel_pt} \cup {x \in Slot : x <= kernel_page_break}
    <3>1. CASE t = kernel_pd
      BY <1>5, <1>7, <3>1
    <3>2. CASE t # kernel_pd /\ t = kernel_pt
      BY <1>6, <1>7, <3>2
    <3>3. CASE t # kernel_pd /\ t # kernel_pt
      BY <1>3, <1>7, <3>3
    <3> QED BY <3>1, <3>2, <3>3
  <2> QED BY <2>1, <1>4, Sizes DEF Absent, kernel_pt, Slot
<1>9. memory.table \in [Page -> [Slot -> Page]]
  <2>1. first \in [Slot -> Page] /\ second \in [Slot -> Page] /\ EmptyTable \in [Slot -> Page]
    <3>1. {e \in Slot : e <= kernel_page_break} \subseteq Page
          /\ {Absent} \subseteq Page /\ {Absent, kernel_pt} \subseteq Page
      BY <1>4
    <3> QED BY <1>3, <1>5, <1>6, <3>1
  <2> QED BY <1>7, <2>1
<1>10. memory \in Memory
  <2>1. [g \in Page |-> NoData] \in [Page -> Contents]
    BY DEF Contents
  <2> QED BY <1>1, <1>2, <1>9, <2>1 DEF Memory
<1>11. \A t \in Page, e \in Slot : memory.map[memory.table[t][e]] # 0
  <2> SUFFICES ASSUME NEW g \in Page, g <= Low PROVE memory.map[g] # 0
    BY <1>8
  <2>1. g # num_of_page
    BY Sizes
  <2> QED BY <1>2, <2>1
<1>12. /\ \A g \in Page : g < KernelTable => memory.map[g] # 0
       /\ \A g \in Page : KernelTable <= g /\ g < ENTRIES => memory.map[g] = 0
       /\ \A g \in Page : ENTRIES <= g /\ g < num_of_page => memory.map[g] = 0
       /\ \A g \in Page : memory.map[g] <= 3
  BY <1>2, Sizes DEF KernelTable
<1>13. Counted(memory, KernelTable, ENTRIES, 3)
  <2>1. \A g \in Page : ~(ENTRIES <= g /\ g < ENTRIES)
    BY <1>2, Sizes
  <2> QED BY <1>11, <1>12, <2>1 DEF Counted
<1>14. memory.table[kernel_pd] = first
  BY <1>4, <1>7
<1> QED BY <1>5, <1>10, <1>13, <1>14
\* exec_program up to the page directory of the shell.
LEMMA FirstDirectory ==
  ASSUME Booted
  PROVE  LET m1 == MapStructure(memory, kernel_pd, ENTRIES)
             m2 == mm_mmap(m1, kernel_pd, Dir(1), Dir(1))
             n == [m2 EXCEPT !.table[Dir(1)] = [EmptyTable EXCEPT ![0] = Entry(m2, kernel_pd, 0)]]
         IN /\ HighPage(memory) = ENTRIES /\ LowPage(m1) = Dir(1)
            /\ n \in Memory /\ Counted(n, Dir(1) + 1, ENTRIES + 1, 3) /\ Kernel(n)
            /\ n.table[Dir(1)][0] = kernel_pt
            /\ \A y \in Slot : y # 0 => n.table[Dir(1)][y] = Absent
            /\ n.map[ENTRIES] = 1 /\ n.data[ENTRIES] = 1
<1> DEFINE g == ENTRIES
           b == KernelTable
           l == Dir(1)
           j == mm_mmap(memory, kernel_pd, g, g)
           m1 == MapStructure(memory, kernel_pd, g)
           m2 == mm_mmap(m1, kernel_pd, l, l)
           dir == [EmptyTable EXCEPT ![0] = kernel_pt]
           n == [m2 EXCEPT !.table[l] = [EmptyTable EXCEPT ![0] = Entry(m2, kernel_pd, 0)]]
<1>1. /\ memory \in Memory /\ Counted(memory, b, g, 3)
      /\ memory.table[kernel_pd][0] = kernel_pt /\ next_pid = 1
      /\ \A y \in Slot : y # 0 => memory.table[kernel_pd][y] = Absent
  BY BootCounted DEF Booted
<1>2. /\ g \in Nat /\ ENTRIES <= g /\ g < num_of_page /\ g < 2 * ENTRIES /\ g - ENTRIES = 0
      /\ g + 1 \in Nat /\ ENTRIES <= g + 1 /\ g + 1 < num_of_page
      /\ b \in Nat /\ kernel_pt < b /\ b < ENTRIES /\ b # 0
      /\ l \in Nat /\ l = b + 1 /\ l < ENTRIES /\ l # kernel_pt /\ l # b /\ g # b /\ g # l
      /\ kernel_pd # b /\ kernel_pd # l /\ kernel_pd # kernel_pt /\ kernel_pt # 0
  BY Sizes DEF KernelTable, Dir, kernel_pt, kernel_pd
<1>3. {g, b, l, kernel_pd, kernel_pt, Absent} \subseteq Page /\ {0, 1, l, b} \subseteq Slot
  BY <1>2, Sizes DEF Page, Slot, kernel_pd, kernel_pt, Absent
<1>4. g \div ENTRIES = 1 /\ g % ENTRIES = 0 /\ l \div ENTRIES = 0 /\ l % ENTRIES = l
  BY <1>2, CommonPlace, LowPlace
<1> HIDE DEF g, b, l
<1>5. memory.map[g] = 0 /\ memory.map[b] = 0 /\ HighPage(memory) = g /\ LowPage(memory) = b
  BY <1>1, <1>2, FirstFree, HighPageIs, LowPageIs
<1>6. NewTable(memory, j, kernel_pd, 1, b, 0, g)
  <2>1. memory.table[kernel_pd][1] = Absent
    BY <1>1, <1>3
  <2>2. memory.map[g] + 1 < REFS
    BY <1>5, Sizes
  <2>3. 1 \in Slot /\ 0 \in Slot /\ g \in Page /\ kernel_pd \in Page
    BY <1>3
  <2> QED BY <1>1, <1>2, <1>4, <1>5, <2>1, <2>2, <2>3, MapAbsent
<1> HIDE DEF j
<1>7. j \in Memory /\ Counted(j, l, g + 1, 3) /\ j.map[g] = 1
  <2> DEFINE next == g + 1
  <2>1. g = g /\ next = g + 1 /\ 3 \in Nat \ {0} /\ 0 < b
    BY <1>2
  <2> HIDE DEF next
  <2>2. Counted(j, b + 1, next, 3)
    BY <1>1, <1>2, <1>3, <1>6, <2>1, TableCounted
  <2>3. j.map[g] = 1
    BY <1>5, <1>6 DEF NewTable
  <2> QED BY <1>2, <1>6, <2>1, <2>2, <2>3 DEF NewTable
<1>8. m1 = [j EXCEPT !.data[g] = 1]
  <2>1. j.table[kernel_pd][1] = b /\ j.table[b][0] = g
    BY <1>6 DEF NewTable
  <2>2. Translate(j, kernel_pd, g) = g
    BY <1>2, <1>4, <2>1 DEF Translate, Entry, Absent
  <2> QED BY <1>1, <2>2 DEF MapStructure, j
<1> HIDE DEF m1
<1>9. /\ m1 \in Memory /\ m1.map = j.map /\ m1.table = j.table /\ m1.data[g] = 1
  <2>1. 1 \in Contents
    BY Sizes DEF Contents, Pid
  <2> QED BY <1>3, <1>7, <1>8, <2>1 DEF Memory
<1>10. Counted(m1, l, g + 1, 3)
  BY <1>7, <1>9 DEF Counted
<1>11. m1.table[kernel_pd][0] = kernel_pt /\ m1.table[kernel_pd][1] = b
  BY <1>1, <1>2, <1>3, <1>6, <1>9 DEF NewTable
<1>12. LowPage(m1) = l /\ m1.map[l] = 0
  BY <1>2, <1>10, FirstFree, LowPageIs
<1>13. Put(m1, m2, kernel_pt, l, l)
  <2>1. m1.map[l] + 1 < REFS
    BY <1>12, Sizes
  <2>2. kernel_pt # Absent
    BY DEF kernel_pt, Absent
  <2> QED BY <1>2, <1>3, <1>4, <1>9, <1>11, <2>1, <2>2, MapPresent
<1> HIDE DEF m2
<1>14. m2 \in Memory /\ Counted(m2, l + 1, g + 1, 3)
  <2> DEFINE o == g + 1
             k == 3
  <2>1. o \in Nat /\ ENTRIES <= o /\ Counted(m1, l, o, k) /\ k \in Nat \ {0}
    BY <1>2, <1>10
  <2> HIDE DEF o, k
  <2>2. /\ kernel_pt \in Page /\ l \in Slot /\ l \in Nat /\ l < ENTRIES
        /\ m1 \in Memory
    BY <1>2, <1>3, <1>9
  <2>3. Counted(m2, l + 1, o, k)
    BY <1>13, <2>1, <2>2, PutLow
  <2> QED BY <1>13, <2>3 DEF o, k, Put
<1>15. /\ m2.table[kernel_pd][0] = kernel_pt /\ m2.table[kernel_pd][1] = b
       /\ m2.map[g] = 1 /\ m2.data[g] = 1
  <2>1. g # l
    BY <1>2
  <2> QED BY <1>2, <1>3, <1>7, <1>9, <1>11, <1>13, <2>1 DEF Put
<1>16. n = [m2 EXCEPT !.table[l] = dir]
  BY <1>15 DEF Entry
<1>17. dir \in [Slot -> Page] /\ dir[0] = kernel_pt /\ \A y \in Slot : y # 0 => dir[y] = Absent
  BY <1>3 DEF EmptyTable, Slot
<1> HIDE DEF dir, n
<1>18. /\ n \in Memory /\ n.map = m2.map /\ n.data = m2.data
       /\ n.table[l] = dir /\ \A x \in Page : x # l => n.table[x] = m2.table[x]
  BY <1>3, <1>14, <1>16, <1>17 DEF Memory
<1>19. Counted(n, l + 1, g + 1, 3)
  <2>1. \A x \in Page, y \in Slot : m2.map[m2.table[x][y]] # 0
    BY <1>14 DEF Counted
  <2>2. m2.map[kernel_pt] # 0
    BY <1>3, <1>15, <2>1
  <2>3. m2.map[Absent] # 0
    <3>1. Absent < l + 1 /\ Absent \in Page
      BY <1>2, <1>3 DEF Absent
    <3> QED BY <1>14, <3>1 DEF Counted
  <2>4. \A x \in Page, y \in Slot : m2.map[n.table[x][y]] # 0
    BY <1>17, <1>18, <2>1, <2>2, <2>3
  <2> QED BY <1>14, <1>18, <2>4 DEF Counted
<1>20. Kernel(n)
  BY <1>2, <1>3, <1>15, <1>18 DEF Kernel, b
<1> QED BY <1>5, <1>12, <1>15, <1>17, <1>18, <1>19, <1>20 DEF n, m2, m1, g, l
\* exec_program: the memory of the shell alone.
LEMMA FirstReady ==
  ASSUME Booted, exec_program, Types
  PROVE  /\ Ready(memory', process', owner, 2, ENTRIES + 3)
         /\ process' = [process EXCEPT ![1] =
                          [page_dir |-> Dir(1), page_no |-> ENTRIES + 1, page |-> ENTRIES]]
<1> DEFINE g == ENTRIES
           b == KernelTable
           l == Dir(1)
           e1 == ENTRIES - 1
           no == ENTRIES + 1
           s == ENTRIES + 2
           next == ENTRIES + 3
           t2 == l + 1
           t3 == l + 2
           t4 == l + 3
           end == l + 4
           m1 == MapStructure(memory, kernel_pd, g)
           m2 == mm_mmap(m1, kernel_pd, l, l)
           m3 == [m2 EXCEPT !.table[l] = [EmptyTable EXCEPT ![0] = Entry(m2, kernel_pd, 0)]]
           m4 == mm_mmap(m3, kernel_pd, no, no)
           m5 == mm_mmap(m4, l, USER_PROG, no)
           m6 == mm_mmap(m5, l, STACK, s)
           m7 == mm_mmap(m6, l, g, g)
<1>1. /\ HighPage(memory) = g /\ LowPage(m1) = l
      /\ m3 \in Memory /\ Counted(m3, t2, no, 3) /\ Kernel(m3)
      /\ m3.table[l][0] = kernel_pt
      /\ \A y \in Slot : y # 0 => m3.table[l][y] = Absent
      /\ m3.map[g] = 1 /\ m3.data[g] = 1
  BY FirstDirectory
<1> HIDE DEF m3
<1>2. /\ l \in Nat /\ b \in Nat /\ kernel_pt < l
      /\ t2 \in Nat /\ t3 \in Nat /\ t4 \in Nat /\ end \in Nat
      /\ 0 < t2 /\ 0 < t3 /\ 0 < t4
      /\ kernel_pt < t2 /\ kernel_pt < t3 /\ kernel_pt < t4
      /\ t2 < ENTRIES /\ t3 < ENTRIES /\ t4 < ENTRIES
      /\ t2 + 1 = t3 /\ t3 + 1 = t4 /\ t4 + 1 = end
      /\ UserTable(1) = t2 /\ StackTable(1) = t3 /\ CommonTable = t4 /\ Dir(2) = end
  BY Sizes DEF KernelTable, CommonTable, UserTable, StackTable, Dir, kernel_pt
<1>3. /\ l # kernel_pt /\ l # kernel_pd /\ l # b /\ l # t2 /\ l # t3 /\ l # t4
      /\ b # kernel_pt /\ b # kernel_pd /\ b # t2 /\ b # t3 /\ b # t4 /\ b # Absent
      /\ kernel_pd # kernel_pt /\ kernel_pd # t2 /\ kernel_pd # t3 /\ kernel_pd # t4
      /\ t2 # t3 /\ t2 # t4 /\ t3 # t4 /\ t2 # kernel_pt /\ t3 # kernel_pt /\ t4 # kernel_pt
  BY Sizes DEF KernelTable, Dir, kernel_pt, kernel_pd, Absent
<1>4. /\ g \in Nat /\ no \in Nat /\ s \in Nat /\ next \in Nat
      /\ ENTRIES <= g /\ ENTRIES <= no /\ ENTRIES <= s /\ ENTRIES <= next
      /\ g < 2 * ENTRIES /\ no < 2 * ENTRIES /\ g - ENTRIES = 0 /\ no - ENTRIES = 1
      /\ no < num_of_page /\ s < num_of_page /\ next < num_of_page
      /\ no + 1 = s /\ s + 1 = next /\ g < no /\ no < s /\ s < next
      /\ 3 \in Nat \ {0} /\ 3 < REFS
  BY Sizes
<1>5. /\ g # no /\ g # s /\ no # s
      /\ g # t2 /\ g # t3 /\ g # t4 /\ no # t2 /\ no # t3 /\ no # t4 /\ s # t2 /\ s # t3 /\ s # t4
  BY <1>2, <1>4
<1>6. /\ {g, no, s, b, l, t2, t3, t4, kernel_pd, kernel_pt, Absent} \subseteq Page
  BY <1>2, <1>4, Sizes DEF Page, KernelTable, Dir, kernel_pd, kernel_pt, Absent
<1>7. {0, 1, 2, e1, t2, t3, t4} \subseteq Slot /\ 0 # e1 /\ 1 # e1 /\ 2 # e1 /\ 2 < e1
  BY <1>2, Sizes DEF Slot
<1>8. /\ g \div ENTRIES = 1 /\ g % ENTRIES = 0 /\ no \div ENTRIES = 1 /\ no % ENTRIES = 1
      /\ USER_PROG \div ENTRIES = 2 /\ USER_PROG % ENTRIES = 0
      /\ STACK \div ENTRIES = e1 /\ STACK % ENTRIES = e1
  BY <1>4, CommonPlace, UserPlace, StackPlaces
<1>9. USER_PROG \in Nat /\ STACK \in Nat
  <2>1. ENTRIES * (ENTRIES - 1) = ENTRIES * ENTRIES - ENTRIES /\ ENTRIES * ENTRIES \in Nat
        /\ ENTRIES * (ENTRIES - 1) \in Nat
    BY Sizes
  <2> QED BY <2>1, Sizes DEF STACK, USER_PROG
<1>10. m3.table[kernel_pd][0] = kernel_pt /\ m3.table[kernel_pd][1] = b
  BY <1>1 DEF Kernel
<1> HIDE DEF g, b, l, e1, no, s, next, t2, t3, t4, end
<1>11. HighPage(m3) = no /\ m3.map[no] = 0 /\ m3.map[t2] = 0
  BY <1>1, <1>2, <1>4, HighPageIs, FirstFree
<1>12. Put(m3, m4, b, 1, no)
  <2>1. m3.map[no] + 1 < REFS
    BY <1>11, Sizes
  <2> QED BY <1>1, <1>3, <1>4, <1>6, <1>7, <1>8, <1>10, <2>1, MapPresent
<1> HIDE DEF m4
<1>13. m4 \in Memory /\ Counted(m4, t2, s, 3) /\ m4.map[no] = 1
  <2>1. Counted(m4, t2, no + 1, 3)
    BY <1>1, <1>2, <1>4, <1>6, <1>7, <1>12, PutHigh
  <2> QED BY <1>4, <1>11, <1>12, <2>1 DEF Put
<1>14. NewTable(m4, m5, l, 2, t2, 0, no)
  <2>1. m4.table[l][2] = Absent /\ m4.table[kernel_pd][0] = kernel_pt
    BY <1>1, <1>3, <1>6, <1>7, <1>10, <1>12 DEF Put
  <2>2. LowPage(m4) = t2 /\ m4.map[t2] = 0
    BY <1>2, <1>4, <1>13, LowPageIs, FirstFree
  <2>3. m4.map[no] + 1 < REFS
    BY <1>13, Sizes
  <2>4. 2 \in Slot /\ 0 \in Slot /\ l \in Page /\ no \in Page
    BY <1>6, <1>7
  <2> QED BY <1>2, <1>3, <1>5, <1>8, <1>9, <1>13, <2>1, <2>2, <2>3, <2>4, MapAbsent
<1> HIDE DEF m5
<1>15. m5 \in Memory /\ Counted(m5, t3, s, 3)
  <2>1. m4.map[no] # 0 /\ m4.map[no] < 3
    BY <1>13
  <2>2. Counted(m5, t2 + 1, s, 3)
    BY <1>2, <1>4, <1>6, <1>7, <1>13, <1>14, <2>1, TableCounted
  <2> QED BY <1>2, <1>14, <2>2 DEF NewTable
<1>16. HighPage(m5) = s /\ m5.map[s] = 0 /\ m5.map[t3] = 0 /\ LowPage(m5) = t3
  BY <1>2, <1>4, <1>15, HighPageIs, LowPageIs, FirstFree
<1>17. NewTable(m5, m6, l, e1, t3, e1, s)
  <2>1. m5.table[l][e1] = Absent /\ m5.table[kernel_pd][0] = kernel_pt
    BY <1>1, <1>3, <1>6, <1>7, <1>10, <1>12, <1>14 DEF Put, NewTable
  <2>2. m5.map[s] + 1 < REFS
    BY <1>16, Sizes
  <2>3. e1 \in Slot /\ l \in Page /\ s \in Page
    BY <1>6, <1>7
  <2> QED BY <1>2, <1>3, <1>5, <1>8, <1>9, <1>15, <1>16, <2>1, <2>2, <2>3, MapAbsent
<1> HIDE DEF m6
<1>18. m6 \in Memory /\ Counted(m6, t4, next, 3)
  <2>1. next = s + 1
    BY <1>4
  <2>2. Counted(m6, t3 + 1, next, 3)
    BY <1>2, <1>4, <1>6, <1>7, <1>15, <1>17, <2>1, TableCounted
  <2> QED BY <1>2, <1>17, <2>2 DEF NewTable
<1>19. m6.map[g] = 1
  BY <1>1, <1>5, <1>6, <1>12, <1>14, <1>17 DEF Put, NewTable
<1>20. NewTable(m6, m7, l, 1, t4, 0, g)
  <2>1. m6.table[l][1] = Absent /\ m6.table[kernel_pd][0] = kernel_pt
    BY <1>1, <1>3, <1>6, <1>7, <1>10, <1>12, <1>14, <1>17 DEF Put, NewTable
  <2>2. LowPage(m6) = t4 /\ m6.map[t4] = 0
    BY <1>2, <1>4, <1>18, LowPageIs, FirstFree
  <2>3. m6.map[g] + 1 < REFS
    BY <1>19, Sizes
  <2>4. 1 \in Slot /\ 0 \in Slot /\ l \in Page /\ g \in Page
    BY <1>6, <1>7
  <2> QED BY <1>2, <1>3, <1>4, <1>5, <1>8, <1>18, <2>1, <2>2, <2>3, <2>4, MapAbsent
<1> HIDE DEF m7
<1>21. m7 \in Memory /\ Counted(m7, end, next, 3)
  <2>1. m6.map[g] # 0 /\ m6.map[g] < 3
    BY <1>19
  <2>2. Counted(m7, t4 + 1, next, 3)
    BY <1>2, <1>4, <1>6, <1>7, <1>18, <1>20, <2>1, TableCounted
  <2> QED BY <1>2, <1>20, <2>2 DEF NewTable
<1>22. m7.data[g] = 1
  BY <1>1, <1>12, <1>14, <1>17, <1>20 DEF Put, NewTable
<1>23. /\ m7.table[kernel_pd][0] = kernel_pt /\ m7.table[kernel_pd][1] = b
       /\ m7.table[l][0] = kernel_pt /\ m7.table[l][1] = t4 /\ m7.table[l][2] = t2
       /\ m7.table[l][e1] = t3 /\ m7.table[t2][0] = no /\ m7.table[t3][e1] = s
       /\ m7.table[t4][0] = g
  <2>1. m7.table[l][0] = kernel_pt
    BY <1>1, <1>3, <1>6, <1>7, <1>12, <1>14, <1>17, <1>20 DEF Put, NewTable
  <2>2. m7.table[l][1] = t4 /\ m7.table[t4][0] = g
    BY <1>20 DEF NewTable
  <2>3. m7.table[l][2] = t2 /\ m7.table[t2][0] = no
    BY <1>3, <1>6, <1>7, <1>14, <1>17, <1>20 DEF NewTable
  <2>4. m7.table[l][e1] = t3 /\ m7.table[t3][e1] = s
    BY <1>3, <1>6, <1>7, <1>17, <1>20 DEF NewTable
  <2>5. m7.table[kernel_pd][0] = kernel_pt /\ m7.table[kernel_pd][1] = b
    BY <1>3, <1>6, <1>7, <1>10, <1>12, <1>14, <1>17, <1>20 DEF Put, NewTable
  <2> QED BY <2>1, <2>2, <2>3, <2>4, <2>5
<1>24. \A y \in Slot : 2 < y /\ y < e1 => m7.table[l][y] = Absent
  <2> SUFFICES ASSUME NEW y \in Slot, 2 < y, y < e1 PROVE m7.table[l][y] = Absent
    OBVIOUS
  <2>1. y # 0 /\ y # 1 /\ y # 2 /\ y # e1
    BY <1>7 DEF Slot
  <2> QED BY <1>1, <1>3, <1>6, <1>12, <1>14, <1>17, <1>20, <2>1 DEF Put, NewTable
<1>25. \A y \in Slot : y # 0 => m7.table[t2][y] = Absent
  BY <1>3, <1>6, <1>7, <1>14, <1>17, <1>20 DEF NewTable
<1>26. PICK d \in Data : memory' = load_program(m7, no, d)
  BY <1>1, <1>11, <1>16 DEF exec_program, m7, m6, m5, m4, m3
<1>27. memory' = [m7 EXCEPT !.data[no] = d]
  BY <1>26 DEF load_program
<1>28. /\ memory' \in Memory /\ memory'.map = m7.map /\ memory'.table = m7.table
       /\ memory'.data[g] = 1
  <2>1. d \in Contents
    BY DEF Contents
  <2> QED BY <1>5, <1>6, <1>21, <1>22, <1>27, <2>1 DEF Memory
<1>29. Counted(memory', Dir(2), next, 2 + 1)
  <2>1. Counted(memory', end, next, 3)
    BY <1>21, <1>28 DEF Counted
  <2>2. 2 + 1 = 3
    OBVIOUS
  <2> QED BY <1>2, <2>1, <2>2
<1>30. Kernel(memory')
  BY <1>23, <1>28 DEF Kernel, b
<1>31. process' = [process EXCEPT ![1] = [page_dir |-> l, page_no |-> no, page |-> g]]
  BY <1>1, <1>11 DEF exec_program, AddProcess, m3, Booted
<1>32. process'[1] = [page_dir |-> l, page_no |-> no, page |-> g]
  <2>1. 1 \in Pid
    BY Sizes DEF Pid
  <2> QED BY <1>31, <2>1 DEF Types
<1>33. StackPage(memory', 1) = s
  BY <1>2, <1>23, <1>28 DEF StackPage, e1
<1>34. Space(memory', 1, process'[1], next)
  <2>1. Directory(memory', 1)
    BY <1>2, <1>23, <1>24, <1>25, <1>28 DEF Directory, l, e1
  <2>2. no \in ENTRIES .. next - 1 /\ g \in ENTRIES .. next - 1 /\ s \in ENTRIES .. next - 1
    BY <1>4, Sizes
  <2>3. memory'.table[CommonTable][g - ENTRIES] = g
    BY <1>2, <1>4, <1>23, <1>28
  <2>4. memory'.table[UserTable(1)][0] = no
    BY <1>2, <1>23, <1>28
  <2> QED BY <1>28, <1>32, <1>33, <2>1, <2>2, <2>3, <2>4 DEF Space, l
<1>35. 1 .. 2 - 1 = {1}
  OBVIOUS
<1>36. Apart(memory', process', owner, 2)
  BY <1>5, <1>32, <1>33, <1>35 DEF Apart
<1>c. Shared(memory', process', owner, 2)
  <2>1. m5.map[no] = 2
    BY <1>13, <1>14 DEF NewTable
  <2>2. m7.map[no] = 2
    BY <1>5, <1>6, <1>17, <1>20, <2>1 DEF NewTable
  <2>3. Sharing(owner, 2, 1) = {1}
    BY <1>35 DEF Sharing
  <2>4. Cardinality(Sharing(owner, 2, 1)) = 1
    BY <2>3, FS_Singleton
  <2> QED BY <1>28, <1>32, <1>35, <2>2, <2>4 DEF Shared
<1>37. 2 \in 2 .. MAX_PID + 1 /\ next \in ENTRIES .. ENTRIES + 4 * (2 - 1) - 1
  BY <1>4, Sizes DEF next
<1> QED
  BY <1>c, <1>28, <1>29, <1>30, <1>31, <1>34, <1>35, <1>36, <1>37 DEF Ready, next, l, no, g
-----------------------------------------------------------------------------
(* The addresses of a process, and the steps.                              *)

LEMMA ReadyNumbers ==
  ASSUME NEW m, NEW proc, NEW own, NEW n, NEW h, Ready(m, proc, own, n, h),
         NEW p \in 1 .. n - 1
  PROVE  /\ n \in Nat /\ h \in Nat /\ ENTRIES <= h /\ h < 2 * ENTRIES
         /\ Dir(p) \in Page /\ UserTable(p) \in Page /\ StackTable(p) \in Page
         /\ UserTable(p) # Absent /\ StackTable(p) # Absent /\ CommonTable # Absent
         /\ Dir(p) < Dir(n)
<1>1. n \in Nat /\ 2 <= n /\ n <= MAX_PID + 1 /\ p \in Nat /\ 1 <= p /\ p < n
  BY Sizes DEF Ready
<1>2. h \in Nat /\ ENTRIES <= h /\ h < 2 * ENTRIES
  <2>1. h \in Nat /\ ENTRIES <= h /\ h <= ENTRIES + 4 * (n - 1) - 1
    BY <1>1, Sizes DEF Ready
  <2> QED BY <1>1, <2>1, Sizes
<1>3. Dir(p) \in Nat /\ 0 < Dir(p) /\ Dir(p) + 2 < ENTRIES
  BY <1>1, Sizes DEF Dir
<1>4. Dir(p) < Dir(n)
  BY <1>1, Sizes DEF Dir
<1>5. Dir(p) \in Page /\ UserTable(p) \in Page /\ StackTable(p) \in Page
  BY <1>3, Sizes DEF Page, UserTable, StackTable
<1>6. UserTable(p) # Absent /\ StackTable(p) # Absent /\ CommonTable # Absent
  BY <1>3, Sizes DEF UserTable, StackTable, CommonTable, Absent
<1> QED BY <1>1, <1>2, <1>4, <1>5, <1>6

LEMMA Addresses ==
  ASSUME NEW m, NEW proc, NEW own, NEW n, NEW h, Ready(m, proc, own, n, h),
         NEW p \in 1 .. n - 1
  PROVE  /\ Translate(m, proc[p].page_dir, USER_PROG) = proc[p].page_no
         /\ Translate(m, proc[p].page_dir, STACK) = StackPage(m, p)
<1>1. Space(m, p, proc[p], h)
  BY DEF Ready
<1>2. UserTable(p) # Absent /\ StackTable(p) # Absent
  BY ReadyNumbers
<1>3. Translate(m, proc[p].page_dir, USER_PROG) = proc[p].page_no
  BY <1>1, <1>2, UserPlace DEF Space, Directory, Translate, Entry
<1>4. Translate(m, proc[p].page_dir, STACK) = StackPage(m, p)
  BY <1>1, <1>2, StackPlaces DEF Space, Directory, Translate, Entry, StackPage
<1> QED BY <1>3, <1>4

LEMMA StructureAddress ==
  ASSUME NEW m, NEW proc, NEW own, NEW n, NEW h, Ready(m, proc, own, n, h),
         NEW p \in 1 .. n - 1, NEW q \in 1 .. n - 1
  PROVE  Translate(m, proc[q].page_dir, proc[p].page) = proc[p].page
<1>1. Space(m, p, proc[p], h) /\ Space(m, q, proc[q], h)
  BY DEF Ready
<1>2. h \in Nat /\ ENTRIES <= h /\ h < 2 * ENTRIES /\ CommonTable # Absent
  BY ReadyNumbers
<1> DEFINE g == proc[p].page
<1>3. g \in Nat /\ ENTRIES <= g /\ g < 2 * ENTRIES
  BY <1>1, <1>2, Sizes DEF Space
<1>4. m.table[CommonTable][g - ENTRIES] = g /\ m.table[Dir(q)][1] = CommonTable
  BY <1>1 DEF Space, Directory
<1>5. proc[q].page_dir = Dir(q)
  BY <1>1 DEF Space
<1> HIDE DEF g
<1>6. g \div ENTRIES = 1 /\ g % ENTRIES = g - ENTRIES
  BY <1>3, CommonPlace
<1> QED BY <1>2, <1>4, <1>5, <1>6 DEF Translate, Entry, g

\* The pages of a process are pages, and not low ones.
LEMMA OwnPages ==
  ASSUME NEW m, NEW proc, NEW own, NEW n, NEW h, Ready(m, proc, own, n, h),
         NEW p \in 1 .. n - 1
  PROVE  /\ {proc[p].page_no, proc[p].page, StackPage(m, p)} \subseteq Page
         /\ ENTRIES <= proc[p].page_no /\ ENTRIES <= StackPage(m, p)
<1>1. Space(m, p, proc[p], h)
  BY DEF Ready
<1>2. h \in Nat /\ h < 2 * ENTRIES
  BY ReadyNumbers
<1>3. ASSUME NEW g \in ENTRIES .. h - 1 PROVE g \in Page /\ ENTRIES <= g
  BY <1>2, Sizes DEF Page
<1> QED BY <1>1, <1>3 DEF Space

\* Outside of the process structures, writing is harmless.
LEMMA WriteReady ==
  ASSUME NEW h, Ready(memory, process, owner, next_pid, h), Write, Types
  PROVE  Ready(memory', process, owner, next_pid, h)
<1>1. current \in 1 .. next_pid - 1
  <2>1. next_pid \in Nat
    BY Sizes DEF Types
  <2> QED BY <2>1 DEF Write, Types
<1>2. PICK vir \in {USER_PROG, STACK}, d \in Data :
        memory' = [memory EXCEPT !.data[Translate(memory, process[current].page_dir, vir)] = d]
  BY DEF Write
<1> DEFINE g == Translate(memory, process[current].page_dir, vir)
<1>3. g = process[current].page_no \/ g = StackPage(memory, current)
  BY <1>1, Addresses
<1>4. g \in Page /\ memory \in Memory
  BY <1>1, <1>3, OwnPages DEF Ready
<1>5. \A p \in 1 .. next_pid - 1 : process[p].page # g
  BY <1>1, <1>3 DEF Ready, Apart
<1> HIDE DEF g
<1>6. /\ memory' \in Memory /\ memory'.map = memory.map /\ memory'.table = memory.table
      /\ \A x \in Page : x # g => memory'.data[x] = memory.data[x]
  <2>1. d \in Contents
    BY DEF Contents
  <2>2. memory' = [memory EXCEPT !.data[g] = d]
    BY <1>2 DEF g
  <2> QED BY <1>4, <2>1, <2>2 DEF Memory
<1>7. ASSUME NEW p \in 1 .. next_pid - 1 PROVE Space(memory', p, process[p], h)
  <2>1. Space(memory, p, process[p], h)
    BY DEF Ready
  <2>2. memory'.data[process[p].page] = p
    <3>1. process[p].page \in Page
      BY OwnPages
    <3> QED BY <1>5, <1>6, <2>1, <3>1 DEF Space
  <2>3. Directory(memory', p) /\ StackPage(memory', p) = StackPage(memory, p)
    BY <1>6, <2>1 DEF Space, Directory, StackPage
  <2> QED BY <1>6, <2>1, <2>2, <2>3 DEF Space
<1>8. Apart(memory', process, owner, next_pid)
  BY <1>6 DEF Ready, Apart, StackPage
<1>9. Counted(memory', Dir(next_pid), h, next_pid + 1) /\ Kernel(memory')
  BY <1>6 DEF Ready, Counted, Kernel
<1>10. Shared(memory', process, owner, next_pid)
  BY <1>6 DEF Ready, Shared
<1> QED BY <1>6, <1>7, <1>8, <1>9, <1>10 DEF Ready
\* What either fork makes of the processes: no is the user page of the child, s its
\* stack, and who owns its user page.
ForkMade(h, no, s, next, who) ==
  /\ Ready(memory, process, owner, next_pid, h)
  /\ Forked(memory, memory', current, next_pid, h, no, s, next)
  /\ Ready(memory', process', owner', next_pid', next)
  /\ process' = [process EXCEPT ![next_pid] =
                   [page_dir |-> Dir(next_pid), page_no |-> no, page |-> h]]
  /\ owner' = [owner EXCEPT ![next_pid] = who]
  /\ who \in 1 .. next_pid
  /\ memory'.data[no] = memory.data[process[current].page_no]
  /\ memory'.data[s] = memory.data[StackPage(memory, current)]
  /\ next_pid' = next_pid + 1
  /\ current' = current

LEMMA ForkMakes ==
  ASSUME IInv, sys_fork \/ sys_shared_fork
  PROVE  /\ current \in 1 .. next_pid - 1 /\ next_pid \in Pid
         /\ \E h, no, s, next, who : ForkMade(h, no, s, next, who)
<1> DEFINE c == current
           id == next_pid
<1>1. id \in Pid /\ id \in Nat /\ c \in 1 .. id - 1
  <2>1. id \in Pid /\ id \in Nat /\ c # 0
    BY Sizes DEF sys_fork, sys_shared_fork, Pid
  <2> QED BY <2>1 DEF IInv, Types
<1>2. PICK h \in Nat : Ready(memory, process, owner, id, h)
  <2>1. ~Booted
    BY <1>1 DEF Booted
  <2> QED BY <2>1 DEF IInv
<1>3. /\ process \in [Pid -> [page_dir : Page, page_no : Page, page : Page]]
      /\ owner \in [Pid -> Pid] /\ owner[id] = id
      /\ \A p \in 1 .. id - 1 : owner[p] < id /\ owner[p] \in Pid
  <2>1. \A p \in 1 .. id - 1 : p \in Pid /\ p < id
    BY <1>1, Sizes DEF Pid
  <2>2. ~(id < id)
    BY <1>1
  <2> QED BY <1>1, <2>1, <2>2 DEF IInv, Types
<1>4. ASSUME sys_fork PROVE ForkMade(h, h + 2, h + 3, h + 4, id)
  <2> DEFINE no == h + 2
             s == h + 3
             next == h + 4
  <2>1. /\ Forked(memory, memory', c, id, h, no, s, next)
        /\ process' = [process EXCEPT ![id] = [page_dir |-> Dir(id), page_no |-> no, page |-> h]]
        /\ memory'.data[no] = memory.data[process[c].page_no]
        /\ memory'.data[s] = memory.data[StackPage(memory, c)]
    BY <1>1, <1>2, <1>4, ForkForks
  <2>2. owner' = [owner EXCEPT ![id] = id]
    BY <1>3, <1>4 DEF sys_fork
  <2>3. h < no
    OBVIOUS
  <2> HIDE DEF no, s, next
  <2>4. Ready(memory', process', owner', id + 1, next)
    BY <1>1, <1>2, <1>3, <2>1, <2>2, <2>3, ForkReady
  <2>5. next_pid' = id + 1 /\ current' = c
    BY <1>4 DEF sys_fork, AddProcess
  <2>6. id \in 1 .. id
    BY <1>1 DEF Pid
  <2>7. ForkMade(h, no, s, next, id)
    BY <1>2, <2>1, <2>2, <2>4, <2>5, <2>6 DEF ForkMade
  <2> QED BY <2>7 DEF no, s, next
<1>5. ASSUME sys_shared_fork
      PROVE  ForkMade(h, process[c].page_no, h + 2, h + 3, owner[c])
  <2> DEFINE no == process[c].page_no
             s == h + 2
             next == h + 3
  <2>1. /\ Forked(memory, memory', c, id, h, no, s, next)
        /\ process' = [process EXCEPT ![id] = [page_dir |-> Dir(id), page_no |-> no, page |-> h]]
        /\ memory'.data[s] = memory.data[StackPage(memory, c)]
    BY <1>1, <1>2, <1>5, SharedForkForks
  <2>2. owner' = [owner EXCEPT ![id] = owner[c]]
    BY <1>5 DEF sys_shared_fork
  <2>3. memory'.data[no] = memory.data[no]
    <3>1. no \in Page
      BY <1>1, <1>2, OwnPages
    <3>2. no < h
      BY <1>1, <1>2, Sizes DEF Ready, Space
    <3> QED BY <2>1, <3>1, <3>2 DEF Forked, Kept
  <2> HIDE DEF s, next
  <2>4. Ready(memory', process', owner', id + 1, next)
    BY <1>1, <1>2, <1>3, <2>1, <2>2, ForkReady
  <2>5. next_pid' = id + 1 /\ current' = c
    BY <1>5 DEF sys_shared_fork, AddProcess
  <2>6. owner[c] \in 1 .. id
    <3>1. owner[c] \in Pid /\ owner[c] < id
      BY <1>1, <1>3
    <3> QED BY <1>1, <3>1 DEF Pid
  <2>7. ForkMade(h, no, s, next, owner[c])
    BY <1>2, <2>1, <2>2, <2>3, <2>4, <2>5, <2>6 DEF ForkMade
  <2> QED BY <2>7 DEF s, next
<1> QED BY <1>1, <1>4, <1>5

LEMMA ForkTyped ==
  ASSUME Types, next_pid \in Pid, NEW h, NEW no, NEW s, NEW next, NEW who,
         ForkMade(h, no, s, next, who)
  PROVE  Types'
<1> DEFINE id == next_pid
           Process == [page_dir : Page, page_no : Page, page : Page]
<1>1. id \in Nat /\ 1 <= id /\ id <= MAX_PID /\ MAX_PID \in Nat
  BY Sizes DEF Pid
<1>2. id \in 1 .. id' - 1
  BY <1>1 DEF ForkMade
<1>3. process'[id] = [page_dir |-> Dir(id), page_no |-> no, page |-> h]
  BY DEF ForkMade, Types
<1>4. Dir(id) \in Page /\ no \in Page /\ h \in Page
  <2>1. Ready(memory', process', owner', id', next)
    BY DEF ForkMade
  <2>2. Dir(id) \in Page
    BY <1>2, <2>1, ReadyNumbers
  <2>3. process'[id].page_no \in Page /\ process'[id].page \in Page
    BY <1>2, <2>1, OwnPages
  <2> QED BY <1>3, <2>2, <2>3
<1>5. process' \in [Pid -> Process]
  BY <1>4 DEF ForkMade, Types
<1>6. owner' \in [Pid -> Pid]
  <2>1. who \in Pid
    BY <1>1 DEF ForkMade, Pid
  <2> QED BY <2>1 DEF ForkMade, Types
<1>7. id' \in 1 .. MAX_PID + 1 /\ current' \in 0 .. id' - 1
  BY <1>1 DEF ForkMade, Types
<1>8. ASSUME NEW p \in Pid
      PROVE  IF p < id' THEN owner'[p] < id' ELSE owner'[p] = p
  <2>1. p \in Nat /\ owner[p] \in Nat
    BY Sizes DEF Types, Pid
  <2>2. CASE p = id
    <3>1. owner'[p] = who /\ who \in 1 .. id
      BY <2>2 DEF ForkMade, Types
    <3> QED BY <1>1, <2>2, <3>1 DEF ForkMade
  <2>3. CASE p # id
    <3>1. owner'[p] = owner[p]
      BY <2>3 DEF ForkMade, Types
    <3>2. IF p < id THEN owner[p] < id ELSE owner[p] = p
      BY DEF Types
    <3> QED BY <1>1, <2>1, <2>3, <3>1, <3>2 DEF ForkMade
  <2> QED BY <2>2, <2>3
<1> QED BY <1>5, <1>6, <1>7, <1>8 DEF Types

THEOREM PagingInit == Init => IInv
<1> SUFFICES ASSUME Init PROVE IInv
  OBVIOUS
<1>1. process \in [Pid -> [page_dir : Page, page_no : Page, page : Page]]
  <2>1. Absent \in Page
    BY Sizes DEF Page, Absent
  <2> QED BY <2>1 DEF Init, NoProcess
<1>2. next_pid \in 1 .. MAX_PID + 1 /\ current \in 0 .. next_pid - 1
  BY Sizes DEF Init
<1>3. owner \in [Pid -> Pid] /\ \A p \in Pid : owner[p] = p /\ ~(p < next_pid)
  BY Sizes DEF Init, Pid
<1>4. Booted
  BY DEF Init, Booted
<1> QED BY <1>1, <1>2, <1>3, <1>4 DEF IInv, Types

THEOREM PagingStep == IInv /\ [Next]_vars => IInv'
<1> SUFFICES ASSUME IInv, [Next]_vars PROVE IInv'
  OBVIOUS
<1>1. CASE exec_program
  <2>1. next_pid = 1 /\ Booted
    <3>1. next_pid = 1
      BY <1>1 DEF exec_program
    <3>2. ~(1 \in 2 .. MAX_PID + 1)
      OBVIOUS
    <3> QED BY <3>1, <3>2 DEF IInv, Ready
  <2>2. /\ Ready(memory', process', owner, 2, ENTRIES + 3)
        /\ process' = [process EXCEPT ![1] =
                         [page_dir |-> Dir(1), page_no |-> ENTRIES + 1, page |-> ENTRIES]]
    BY <1>1, <2>1, FirstReady DEF IInv
  <2>3. next_pid' = 2 /\ current' = current /\ owner' = owner
    BY <1>1, <2>1 DEF exec_program, AddProcess
  <2>4. process' \in [Pid -> [page_dir : Page, page_no : Page, page : Page]]
    <3>1. Dir(1) \in Page /\ ENTRIES + 1 \in Page /\ ENTRIES \in Page
      BY Sizes DEF Dir, Page
    <3> QED BY <2>2, <3>1 DEF IInv, Types
  <2>5. next_pid' \in 1 .. MAX_PID + 1 /\ current' \in 0 .. next_pid' - 1
    BY <2>1, <2>3, Sizes DEF IInv, Types
  <2>6. ASSUME NEW p \in Pid
        PROVE  IF p < next_pid' THEN owner'[p] < next_pid' ELSE owner'[p] = p
    <3>1. p \in Nat /\ 1 <= p
      BY Sizes DEF Pid
    <3>2. owner[p] = p
      BY <2>1, <3>1 DEF IInv, Types
    <3> QED BY <2>3, <3>1, <3>2
  <2>7. Types'
    BY <2>3, <2>4, <2>5, <2>6 DEF IInv, Types
  <2>8. ENTRIES + 3 \in Nat
    BY Sizes
  <2> QED BY <2>2, <2>3, <2>7, <2>8 DEF IInv
<1>2. CASE sys_fork \/ sys_shared_fork
  <2>1. PICK h, no, s, next, who : ForkMade(h, no, s, next, who)
    BY <1>2, ForkMakes
  <2>2. next_pid \in Pid
    BY <1>2, ForkMakes
  <2>3. Types'
    BY <2>1, <2>2, ForkTyped DEF IInv
  <2>4. next \in Nat /\ Ready(memory', process', owner', next_pid', next)
    BY <2>1 DEF ForkMade, Forked
  <2> QED BY <2>3, <2>4 DEF IInv
<1>3. CASE switch_pd
  <2>1. current' \in 0 .. next_pid - 1
    BY <1>3 DEF switch_pd
  <2>2. UNCHANGED <<memory, process, next_pid, owner>>
    BY <1>3 DEF switch_pd
  <2>3. Types'
    BY <2>1, <2>2 DEF IInv, Types
  <2> QED BY <2>2, <2>3 DEF IInv, Booted
<1>4. CASE Write
  <2>1. UNCHANGED <<process, next_pid, current, owner>>
    BY <1>4 DEF Write
  <2>2. Types'
    BY <2>1 DEF IInv, Types
  <2>3. ~Booted
    <3>1. 0 .. 1 - 1 = {0}
      OBVIOUS
    <3> QED BY <1>4, <3>1 DEF Write, IInv, Types, Booted
  <2>4. PICK h \in Nat : Ready(memory, process, owner, next_pid, h)
    BY <2>3 DEF IInv
  <2>5. Ready(memory', process, owner, next_pid, h)
    BY <1>4, <2>4, WriteReady DEF IInv
  <2> QED BY <2>1, <2>2, <2>5 DEF IInv
<1>5. CASE UNCHANGED vars
  BY <1>5 DEF vars, IInv, Types, Booted
<1> QED BY <1>1, <1>2, <1>3, <1>4, <1>5 DEF Next

THEOREM PagingInductive == Spec => []IInv
<1> QED BY PagingInit, PagingStep, PTL DEF Spec
-----------------------------------------------------------------------------
(* The properties.                                                         *)

\* The memory manager's state has its types in every reachable state.
THEOREM PagingTypeCorrect == Spec => []TypeOK
<1>1. IInv => TypeOK
  <2> SUFFICES ASSUME IInv PROVE TypeOK
    OBVIOUS
  <2>1. memory \in Memory
    BY BootCounted DEF IInv, Ready
  <2>2. current \in 0 .. MAX_PID
    BY Sizes DEF IInv, Types
  <2> QED BY <2>1, <2>2 DEF IInv, Types, TypeOK, Memory, Contents, Slot
<1> QED BY <1>1, PagingInductive, PTL

LEMMA SomeReady ==
  ASSUME IInv, NEW p \in Processes
  PROVE  \E h \in Nat : Ready(memory, process, owner, next_pid, h)
<1>1. ~Booted
  <2>1. 1 .. 1 - 1 = {}
    OBVIOUS
  <2> QED BY <2>1 DEF Booted, Processes
<1> QED BY <1>1 DEF IInv

\* As long as there are no more processes than EnoughPages allows, force_switch,
\* sys_exit and the list operations reach the structure of each in the address space
\* of any: the pages of structures are in the table that all directories share, each
\* at its own address.  Beyond, nothing in the code checks, and a structure would land
\* on the page 0x700 that forks map anew.
THEOREM StructuresStayVisible == Spec => []StructuresVisible
<1>1. IInv => StructuresVisible
  <2> SUFFICES ASSUME IInv, NEW p \in Processes, NEW q \in Processes
               PROVE  /\ PageOf(q, process[p].page) = process[p].page
                      /\ Sees(q, process[p].page) = p
    BY DEF StructuresVisible
  <2>1. PICK h \in Nat : Ready(memory, process, owner, next_pid, h)
    BY SomeReady
  <2>2. PageOf(q, process[p].page) = process[p].page
    BY <2>1, StructureAddress DEF Processes, PageOf
  <2>3. memory.data[process[p].page] = p
    BY <2>1 DEF Ready, Space, Processes
  <2> QED BY <2>2, <2>3 DEF Sees
<1> QED BY <1>1, PagingInductive, PTL

\* No process has the stack of another at the address of its stack or of its program,
\* nor its user page unless shared_fork made them share it, nor a table or a structure.
THEOREM MemoryStaysPrivate == Spec => []MemoryIsPrivate
<1>1. IInv => MemoryIsPrivate
  <2> SUFFICES ASSUME IInv, NEW p \in Processes, NEW q \in Processes
               PROVE  /\ PageOf(p, USER_PROG) = process[p].page_no
                      /\ PageOf(p, STACK) = PageOf(q, STACK) => p = q
                      /\ PageOf(p, USER_PROG) = PageOf(q, USER_PROG) <=> owner[p] = owner[q]
                      /\ PageOf(p, USER_PROG) # PageOf(q, STACK)
                      /\ \A g \in {PageOf(p, USER_PROG), PageOf(p, STACK)} :
                           g >= ENTRIES /\ g # process[q].page
    BY DEF MemoryIsPrivate
  <2>1. PICK h \in Nat : Ready(memory, process, owner, next_pid, h)
    BY SomeReady
  <2>2. p \in 1 .. next_pid - 1 /\ q \in 1 .. next_pid - 1
    BY DEF Processes
  <2>3. /\ PageOf(p, USER_PROG) = process[p].page_no /\ PageOf(p, STACK) = StackPage(memory, p)
        /\ PageOf(q, USER_PROG) = process[q].page_no /\ PageOf(q, STACK) = StackPage(memory, q)
    BY <2>1, <2>2, Addresses DEF PageOf
  <2>4. /\ StackPage(memory, p) = StackPage(memory, q) => p = q
        /\ process[p].page_no = process[q].page_no <=> owner[p] = owner[q]
        /\ process[p].page_no # process[q].page
        /\ process[p].page_no # StackPage(memory, q)
        /\ process[q].page # StackPage(memory, p)
    BY <2>1, <2>2 DEF Ready, Apart
  <2>5. process[p].page_no >= ENTRIES /\ StackPage(memory, p) >= ENTRIES
    <3>1. ENTRIES <= process[p].page_no /\ ENTRIES <= StackPage(memory, p)
      BY <2>1, <2>2, OwnPages
    <3> QED BY <3>1
  <2> QED BY <2>3, <2>4, <2>5
<1> QED BY <1>1, PagingInductive, PTL

\* No page that a process has mapped, and no table of a process, is one that
\* alloc_page would hand out again; and the count of a user page is one more than the
\* number of processes that share it, so that none has wrapped around.
THEOREM PagesStayCounted == Spec => []UsedPagesCounted
<1>1. IInv => UsedPagesCounted
  <2> SUFFICES ASSUME IInv, NEW p \in Processes
               PROVE  /\ memory.map[PageOf(p, USER_PROG)] =
                           1 + Cardinality({q \in Processes : owner[q] = owner[p]})
                      /\ memory.map[process[p].page_dir] # 0
                      /\ \A e \in 0 .. ENTRIES - 1 :
                           LET pt == Entry(memory, process[p].page_dir, e)
                           IN pt # Absent =>
                                /\ memory.map[pt] # 0
                                /\ \A k \in 0 .. ENTRIES - 1 :
                                     Entry(memory, pt, k) # Absent => memory.map[Entry(memory, pt, k)] # 0
    BY DEF UsedPagesCounted
  <2>1. PICK h \in Nat : Ready(memory, process, owner, next_pid, h)
    BY SomeReady
  <2>2. /\ Counted(memory, Dir(next_pid), h, next_pid + 1) /\ memory \in Memory
        /\ process[p].page_dir = Dir(p) /\ Dir(p) \in Page /\ Dir(p) < Dir(next_pid)
    BY <2>1, ReadyNumbers DEF Ready, Space, Processes
  <2>3. memory.map[process[p].page_dir] # 0
    BY <2>2 DEF Counted
  <2>4. \A t \in Page, e \in Slot : memory.table[t][e] \in Page /\ memory.map[memory.table[t][e]] # 0
    BY <2>2 DEF Memory, Counted
  <2>5. memory.map[PageOf(p, USER_PROG)] =
          1 + Cardinality({q \in Processes : owner[q] = owner[p]})
    <3>1. PageOf(p, USER_PROG) = process[p].page_no
      BY <2>1, Addresses DEF PageOf, Processes
    <3>2. memory.map[process[p].page_no] = 1 + Cardinality(Sharing(owner, next_pid, p))
      BY <2>1 DEF Ready, Shared, Processes
    <3>3. Sharing(owner, next_pid, p) = {q \in Processes : owner[q] = owner[p]}
      BY DEF Sharing, Processes
    <3> QED BY <3>1, <3>2, <3>3
  <2> QED BY <2>2, <2>3, <2>4, <2>5 DEF Entry, Slot
<1> QED BY <1>1, PagingInductive, PTL

LEMMA ForkKeeps ==
  ASSUME Types, next_pid \in Pid, current \in 1 .. next_pid - 1,
         NEW h, NEW no, NEW s, NEW next, NEW who, ForkMade(h, no, s, next, who),
         NEW p \in 1 .. next_pid - 1
  PROVE  /\ process'[p] = process[p]
         /\ StackPage(memory', p) = StackPage(memory, p)
         /\ memory'.data[process[p].page_no] = memory.data[process[p].page_no]
         /\ memory'.data[StackPage(memory, p)] = memory.data[StackPage(memory, p)]
<1> DEFINE c == current
           id == next_pid
<1>1. id \in Nat /\ id <= MAX_PID /\ MAX_PID \in Nat
  BY Sizes DEF Pid
<1>2. Ready(memory, process, owner, id, h) /\ Kept(memory, memory', c, Dir(id), h)
  BY DEF ForkMade, Forked
<1>3. process'[p] = process[p]
  <2>1. p \in Pid /\ p # id
    BY <1>1 DEF Pid
  <2> QED BY <2>1 DEF ForkMade, Types
<1>4. Space(memory, p, process[p], h) /\ Kernel(memory)
  BY <1>2 DEF Ready
<1>5. StackPage(memory', p) = StackPage(memory, p)
  <2>1. Numbers(p, Dir(id), h, id + 2)
    BY <1>1, <1>2, NumbersHold
  <2>2. Dir(p) # StackTable(c) /\ UserTable(p) # StackTable(c)
    <3>1. p \in Nat \ {0} /\ c \in Nat \ {0}
      BY <1>1
    <3> QED BY <3>1, TablesApart
  <2>3. Directory(memory, p)
    BY <1>4 DEF Space
  <2> QED BY <1>2, <1>4, <2>1, <2>2, <2>3, DirectoryKept
<1>6. ASSUME NEW g \in ENTRIES .. h - 1 PROVE memory'.data[g] = memory.data[g]
  <2>1. h \in Nat /\ h < 2 * ENTRIES
    BY <1>2, ReadyNumbers
  <2>2. g \in Page /\ g < h
    BY <2>1, Sizes DEF Page
  <2> QED BY <1>2, <2>2 DEF Kept
<1> QED BY <1>3, <1>4, <1>5, <1>6 DEF Space

\* A fork gives the child what its parent has in its page and on its stack, and
\* leaves that of every process as it was.
THEOREM ForksCopy == Spec => ForkCopies
<1> DEFINE Copies ==
      \A vir \in {USER_PROG, STACK}, p \in Processes :
        next_pid' # next_pid =>
          /\ Sees(p, vir)' = Sees(p, vir)
          /\ p = current => \A child \in Processes' \ Processes : Sees(child, vir)' = Sees(p, vir)
<1>1. IInv /\ IInv' /\ [Next]_vars => Copies
  <2> SUFFICES ASSUME IInv, [Next]_vars, NEW vir \in {USER_PROG, STACK}, NEW p \in Processes,
                      next_pid' # next_pid
               PROVE  /\ Sees(p, vir)' = Sees(p, vir)
                      /\ p = current =>
                           \A child \in Processes' \ Processes : Sees(child, vir)' = Sees(p, vir)
    OBVIOUS
  <2>1. ~exec_program
    <3>1. 1 .. 1 - 1 = {}
      OBVIOUS
    <3> QED BY <3>1 DEF exec_program, Processes
  <2>2. sys_fork \/ sys_shared_fork
    BY <2>1 DEF Next, switch_pd, Write, vars
  <2>3. current \in 1 .. next_pid - 1 /\ next_pid \in Pid
    BY <2>2, ForkMakes
  <2>4. PICK h, no, s, next, who : ForkMade(h, no, s, next, who)
    BY <2>2, ForkMakes
  <2>5. /\ Ready(memory, process, owner, next_pid, h)
        /\ Ready(memory', process', owner', next_pid', next)
        /\ next_pid' = next_pid + 1 /\ next_pid \in Nat
    BY <2>3, <2>4, Sizes DEF ForkMade, Pid
  <2>6. p \in 1 .. next_pid - 1 /\ p \in 1 .. next_pid' - 1
    BY <2>5 DEF Processes
  <2>7. Types
    BY DEF IInv
  <2>8. /\ Translate(memory, process[p].page_dir, USER_PROG) = process[p].page_no
        /\ Translate(memory, process[p].page_dir, STACK) = StackPage(memory, p)
    BY <2>5, <2>6, Addresses
  <2>9. /\ Translate(memory', process'[p].page_dir, USER_PROG) = process'[p].page_no
        /\ Translate(memory', process'[p].page_dir, STACK) = StackPage(memory', p)
    BY <2>5, <2>6, Addresses
  <2>10. Sees(p, vir)' = Sees(p, vir)
    <3>1. /\ process'[p] = process[p] /\ StackPage(memory', p) = StackPage(memory, p)
          /\ memory'.data[process[p].page_no] = memory.data[process[p].page_no]
          /\ memory'.data[StackPage(memory, p)] = memory.data[StackPage(memory, p)]
      BY <2>3, <2>4, <2>6, <2>7, ForkKeeps
    <3> QED BY <2>8, <2>9, <3>1 DEF Sees, PageOf
  <2>11. ASSUME p = current, NEW child \in Processes' \ Processes
         PROVE  Sees(child, vir)' = Sees(p, vir)
    <3>1. child = next_pid /\ child \in 1 .. next_pid' - 1
      <4>1. Processes' = 1 .. next_pid' - 1 /\ Processes = 1 .. next_pid - 1
        BY DEF Processes
      <4>2. child \in Nat /\ 1 <= child /\ child <= next_pid /\ ~(child <= next_pid - 1)
        BY <2>5, <2>11, <4>1
      <4> QED BY <2>5, <2>11, <4>1, <4>2
    <3>2. /\ Translate(memory', process'[child].page_dir, USER_PROG) = process'[child].page_no
          /\ Translate(memory', process'[child].page_dir, STACK) = StackPage(memory', child)
      BY <2>5, <3>1, Addresses
    <3>3. process'[child].page_no = no /\ StackPage(memory', child) = s
      BY <2>3, <2>4, <2>7, <3>1 DEF ForkMade, Forked, Types
    <3>4. memory'.data[no] = memory.data[process[p].page_no]
          /\ memory'.data[s] = memory.data[StackPage(memory, p)]
      BY <2>4, <2>11 DEF ForkMade
    <3> QED BY <2>8, <3>2, <3>3, <3>4 DEF Sees, PageOf
  <2> QED BY <2>10, <2>11
<1> HIDE DEF Copies
<1>2. Spec => [][Copies]_vars
  BY <1>1, PagingInductive, PTL DEF Spec
<1> QED BY <1>2 DEF ForkCopies, Copies

=============================================================================
