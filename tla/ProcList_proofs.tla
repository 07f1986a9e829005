-------------------------- MODULE ProcList_proofs ---------------------------
(***************************************************************************)
(* The linked lists of ProcList represent the sequences of Sched, for every *)
(* number of processes.                                                     *)
(***************************************************************************)
EXTENDS ProcList, Sched_proofs, FiniteSetTheorems

Links == [Pid -> Pid \cup {NULL}]

\* No pid is the null pointer.
LEMMA NotNull == NULL \notin Pid
  BY SchedAssumption DEF Pid

(***************************************************************************)
(* What holds of a list needs the next fields of its members only.         *)
(***************************************************************************)
LEMMA FrameLemma ==
  ASSUME NEW q \in Seq(Pid), NEW l, NEW n, NEW m, Represents(l, n, q),
         \A r \in Elems(q) : m[r] = n[r]
  PROVE  Represents(l, m, q)
<1>1. \A i \in 1 .. Len(q) : q[i] \in Elems(q)
  BY DEF Elems
<1> QED
  BY <1>1 DEF Represents

(***************************************************************************)
(* sched_enqueue links the new process behind the tail.                    *)
(***************************************************************************)
LEMMA EnqueueRepresents ==
  ASSUME NEW q \in Seq(Pid), NoDup(q), NEW p \in Pid, p \notin Elems(q),
         NEW l, NEW n \in Links, Represents(l, n, q)
  PROVE  /\ EnqueueNext(l, n, p) \in Links
         /\ Represents(EnqueueList(l, p), EnqueueNext(l, n, p), sched_enqueue(q, p))
         /\ EnqueueNext(l, n, p)[p] = NULL
         /\ \A r \in Pid \ (Elems(q) \cup {p}) : EnqueueNext(l, n, p)[r] = n[r]
<1> DEFINE m == EnqueueNext(l, n, p)
           s == sched_enqueue(q, p)
<1>1. /\ s \in Seq(Pid) /\ Len(s) = Len(q) + 1 /\ s # <<>> /\ Len(q) \in Nat
      /\ \A i \in 1 .. Len(q) : s[i] = q[i] /\ q[i] \in Pid
      /\ s[Len(q) + 1] = p
  BY DEF sched_enqueue
<1>2. \A i \in 1 .. Len(q) : q[i] # p /\ q[i] \in Elems(q)
  BY DEF Elems
<1>3. CASE q = <<>>
  <2>1. l.size = 0 /\ m = [n EXCEPT ![p] = NULL]
    BY <1>3 DEF Represents, EnqueueNext
  <2>2. m \in Links /\ m[p] = NULL /\ \A r \in Pid \ {p} : m[r] = n[r]
    BY <2>1 DEF Links
  <2>3. Represents(EnqueueList(l, p), m, s)
    BY <1>1, <1>3, <2>1, <2>2 DEF Represents, EnqueueList
  <2> QED
    BY <2>2, <2>3
<1>4. CASE q # <<>>
  <2> DEFINE t == q[Len(q)]
  <2>1. /\ Len(q) \in 1 .. Len(q) /\ l.size = Len(q) /\ l.size # 0
        /\ l.tail = t /\ l.head = q[1]
    BY <1>1, <1>4 DEF Represents
  <2>2. t \in Pid /\ t # p /\ t \in Elems(q)
    BY <1>1, <1>2, <2>1
  <2>3. m = [n EXCEPT ![t] = p, ![p] = NULL]
    BY <2>1 DEF EnqueueNext
  <2> HIDE DEF m, t
  <2>4. /\ m \in Links /\ m[p] = NULL /\ m[t] = p
        /\ \A r \in Pid \ {p, t} : m[r] = n[r]
    BY <2>2, <2>3 DEF Links
  <2>5. ASSUME NEW i \in 1 .. Len(s)
        PROVE  m[s[i]] = IF i = Len(s) THEN NULL ELSE s[i + 1]
    <3>1. CASE i = Len(q) + 1
      BY <1>1, <2>4, <3>1
    <3>2. CASE i = Len(q)
      BY <1>1, <2>1, <2>4, <3>2 DEF t
    <3>3. CASE i < Len(q)
      <4>1. i \in 1 .. Len(q) /\ i + 1 \in 1 .. Len(q)
        BY <1>1, <3>3
      <4>2. q[i] # t
        BY <2>1, <3>3, <4>1 DEF NoDup, t
      <4>3. n[q[i]] = q[i + 1]
        BY <3>3, <4>1 DEF Represents
      <4> QED
        BY <1>1, <1>2, <2>4, <3>3, <4>1, <4>2, <4>3
    <3> QED
      BY <1>1, <3>1, <3>2, <3>3
  <2>6. s[1] = q[1]
    BY <1>1, <2>1
  <2>7. Represents(EnqueueList(l, p), m, s)
    BY <1>1, <2>1, <2>5, <2>6 DEF Represents, EnqueueList
  <2> QED
    BY <2>2, <2>4, <2>7 DEF m
<1> QED
  BY <1>3, <1>4

(***************************************************************************)
(* sched_serve unlinks the head.                                           *)
(***************************************************************************)
LEMMA ServeRepresents ==
  ASSUME NEW q \in Seq(Pid), q # <<>>, NoDup(q),
         NEW l, NEW n \in Links, Represents(l, n, q)
  PROVE  /\ ServeNext(l, n) \in Links
         /\ Represents(ServeList(l, n), ServeNext(l, n), Tail(q))
         /\ ServeNext(l, n)[Head(q)] = NULL
         /\ \A r \in Pid \ {Head(q)} : ServeNext(l, n)[r] = n[r]
<1> DEFINE m == ServeNext(l, n)
           s == Tail(q)
           h == Head(q)
<1>1. /\ Len(q) \in Nat \ {0} /\ h = q[1] /\ h \in Pid
      /\ s \in Seq(Pid) /\ Len(s) = Len(q) - 1
      /\ \A i \in 1 .. Len(q) - 1 : s[i] = q[i + 1]
      /\ \A i \in 1 .. Len(q) : q[i] \in Pid
  OBVIOUS
<1>2. l.head = h /\ l.size = Len(q) /\ l.tail = q[Len(q)]
  BY <1>1 DEF Represents
<1>3. m = [n EXCEPT ![h] = NULL]
  BY <1>2 DEF ServeNext
<1> HIDE DEF m, s, h
<1>4. m \in Links /\ m[h] = NULL /\ \A r \in Pid \ {h} : m[r] = n[r]
  BY <1>1, <1>3 DEF Links
<1>5. ASSUME NEW i \in 1 .. Len(s)
      PROVE  m[s[i]] = IF i = Len(s) THEN NULL ELSE s[i + 1]
  <2>1. i + 1 \in 1 .. Len(q) /\ i \in 1 .. Len(q) - 1 /\ 1 \in 1 .. Len(q)
    BY <1>1
  <2>2. s[i] = q[i + 1] /\ q[i + 1] # h /\ q[i + 1] \in Pid
    BY <1>1, <2>1 DEF NoDup
  <2>3. n[q[i + 1]] = IF i + 1 = Len(q) THEN NULL ELSE q[(i + 1) + 1]
    BY <2>1 DEF Represents
  <2>4. m[s[i]] = n[q[i + 1]]
    BY <1>4, <2>2
  <2>5. i # Len(s) => s[i + 1] = q[(i + 1) + 1]
    BY <1>1, <2>1
  <2> QED
    BY <1>1, <2>1, <2>3, <2>4, <2>5
<1>6. n[h] = IF s = <<>> THEN NULL ELSE s[1]
  <2>1. n[q[1]] = IF 1 = Len(q) THEN NULL ELSE q[1 + 1]
    BY <1>1 DEF Represents
  <2>2. s = <<>> <=> Len(q) = 1
    BY <1>1
  <2>3. Len(q) # 1 => s[1] = q[1 + 1]
    BY <1>1
  <2> QED
    BY <1>1, <2>1, <2>2, <2>3
<1>7. s # <<>> => s[Len(s)] = q[Len(q)]
  <2>1. ASSUME s # <<>>
        PROVE  Len(s) \in 1 .. Len(q) - 1 /\ Len(s) + 1 = Len(q)
    BY <1>1, <2>1
  <2> QED
    BY <1>1, <2>1
<1>8. Represents(ServeList(l, n), m, s)
  <2>1. s = <<>> <=> l.size = 1
    BY <1>1, <1>2
  <2> QED
    BY <1>1, <1>2, <1>5, <1>6, <1>7, <2>1 DEF Represents, ServeList
<1> QED
  BY <1>1, <1>4, <1>8 DEF m, s, h

(***************************************************************************)
(* The loop of sched_remove stops behind the predecessor of p: whichever   *)
(* way along next leads to p, the process before p on it is the one that   *)
(* points to p, and only members of the list point to a member.            *)
(***************************************************************************)
LEMMA WalkLemma ==
  ASSUME NEW q \in Seq(Pid), NoDup(q), NEW l, NEW n \in Links, Represents(l, n, q),
         NEW k \in 1 .. Len(q), Len(q) < MAX_PROC_NUM,
         \A r \in Pid : n[r] = q[k] => r \in Elems(q)
  PROVE  /\ Walks(l, n, q[k]) # {}
         /\ Prev(l, n, q[k]) = IF k = 1 THEN NULL ELSE q[k - 1]
<1> DEFINE p == q[k]
           W == Walks(l, n, p)
           before == [i \in 1 .. k |-> q[i]]
<1>1. /\ Len(q) \in Nat /\ k \in Nat \ {0} /\ k <= Len(q) /\ k \in Pid
      /\ \A i \in 1 .. Len(q) : q[i] \in Pid
      /\ MAX_PROC_NUM \in Nat /\ p \in Pid
  BY SchedAssumption DEF Pid
<1>2. l.head = q[1]
  BY <1>1 DEF Represents
<1>3. before \in W
  <2>1. before \in [1 .. k -> Pid] /\ Len(before) = k
    BY <1>1
  <2>2. before \in UNION {[1 .. j -> Pid] : j \in Pid}
    BY <1>1, <2>1
  <2>3. before[1] = l.head /\ before[Len(before)] = p
    BY <1>1, <1>2, <2>1
  <2>4. ASSUME NEW i \in 1 .. Len(before) - 1
        PROVE  before[i] # p /\ before[i + 1] = n[before[i]]
    <3>1. i \in 1 .. Len(q) /\ i + 1 \in 1 .. k /\ i \in 1 .. k /\ i < k
      BY <1>1, <2>1
    <3>2. q[i] # q[k]
      BY <1>1, <3>1 DEF NoDup
    <3>3. n[q[i]] = q[i + 1]
      BY <1>1, <3>1 DEF Represents
    <3> QED
      BY <3>1, <3>2, <3>3
  <2> HIDE DEF before, p
  <2> QED
    BY <2>2, <2>3, <2>4 DEF Walks
<1>4. ASSUME NEW s \in W
      PROVE  (IF Len(s) = 1 THEN NULL ELSE s[Len(s) - 1]) = IF k = 1 THEN NULL ELSE q[k - 1]
  <2>1. PICK j \in Pid : s \in [1 .. j -> Pid]
    BY <1>4 DEF Walks
  <2>2. Len(s) = j /\ j \in Nat \ {0} /\ s \in Seq(Pid)
    BY <1>1, <2>1 DEF Pid
  <2>3. /\ s[1] = q[1] /\ s[j] = p
        /\ \A i \in 1 .. j - 1 : s[i] # p /\ s[i + 1] = n[s[i]]
    BY <1>2, <1>4, <2>2 DEF Walks
  <2>4. CASE j = 1
    <3>1. q[1] = q[k]
      BY <2>3, <2>4
    <3>2. k = 1
      BY <1>1, <3>1 DEF NoDup
    <3> QED
      BY <2>2, <2>4, <3>2
  <2>5. CASE j # 1
    <3> DEFINE r == s[j - 1]
    <3>1. j - 1 \in 1 .. j - 1 /\ (j - 1) + 1 = j /\ 1 \in 1 .. j - 1
      BY <2>2, <2>5
    <3>2. r \in Pid /\ n[r] = q[k]
      BY <2>1, <2>2, <2>3, <3>1
    <3>3. PICK i \in 1 .. Len(q) : q[i] = r
      BY <3>2 DEF Elems
    <3>4. i # Len(q) /\ n[r] = q[i + 1]
      BY <1>1, <3>2, <3>3, NotNull DEF Represents
    <3>5. i + 1 \in 1 .. Len(q) /\ q[i + 1] = q[k]
      BY <1>1, <3>2, <3>3, <3>4
    <3>6. i + 1 = k
      BY <1>1, <3>5 DEF NoDup
    <3> QED
      BY <1>1, <2>2, <2>5, <3>3, <3>6
  <2> QED
    BY <2>4, <2>5
<1> HIDE DEF W
<1> DEFINE s == CHOOSE w \in W : TRUE
<1>5. s \in W
  BY <1>3
<1>6. Prev(l, n, p) = IF Len(s) = 1 THEN NULL ELSE s[Len(s) - 1]
  BY DEF Prev, W
<1> HIDE DEF s
<1> QED
  BY <1>3, <1>4, <1>5, <1>6 DEF W

(***************************************************************************)
(* sched_remove unlinks a member wherever it is in the list.               *)
(***************************************************************************)
LEMMA RemoveRepresents ==
  ASSUME NEW q \in Seq(Pid), NoDup(q), NEW p \in Elems(q),
         NEW l, NEW n \in Links, Represents(l, n, q), Len(q) < MAX_PROC_NUM,
         \A r \in Pid : n[r] = p => r \in Elems(q)
  PROVE  /\ RemoveNext(l, n, p) \in Links
         /\ Represents(RemoveList(l, n, p), RemoveNext(l, n, p), sched_remove(q, p))
         /\ RemoveNext(l, n, p)[p] = NULL
         /\ \A r \in Pid \ Elems(q) : RemoveNext(l, n, p)[r] = n[r]
<1> DEFINE k == FirstAt(q, p)
           s == sched_remove(q, p)
           m == RemoveNext(l, n, p)
           c == RemoveList(l, n, p)
           v == Prev(l, n, p)
<1>1. k \in 1 .. Len(q) /\ q[k] = p
  <2>1. PICK i \in 1 .. Len(q) : q[i] = p
    BY DEF Elems
  <2>2. \A j \in 1 .. i - 1 : q[j] # p
    BY <2>1 DEF NoDup
  <2> QED
    BY <2>1, <2>2 DEF FirstAt
<1>2. s = [j \in 1 .. Len(q) - 1 |-> IF j < k THEN q[j] ELSE q[j + 1]]
  BY <1>1 DEF sched_remove
<1>3. Walks(l, n, p) # {} /\ v = IF k = 1 THEN NULL ELSE q[k - 1]
  BY <1>1, WalkLemma
<1> HIDE DEF k, s, v
<1>4. /\ Len(q) \in Nat \ {0} /\ k \in Nat \ {0} /\ k <= Len(q) /\ p \in Pid
      /\ \A i \in 1 .. Len(q) : q[i] \in Pid /\ q[i] # NULL
  BY <1>1, NotNull
<1>5. /\ s \in Seq(Pid) /\ Len(s) = Len(q) - 1
      /\ \A j \in 1 .. Len(s) : s[j] = IF j < k THEN q[j] ELSE q[j + 1]
  <2>1. \A j \in 1 .. Len(q) - 1 : (IF j < k THEN q[j] ELSE q[j + 1]) \in Pid
    BY <1>4
  <2> QED
    BY <1>2, <1>4, <2>1
<1>6. v = NULL <=> k = 1
  BY <1>3, <1>4
<1>7. n[p] = IF k = Len(q) THEN NULL ELSE q[k + 1]
  BY <1>1 DEF Represents
<1>8. /\ m \in Links /\ m[p] = NULL
      /\ k # 1 => m[q[k - 1]] = n[p]
      /\ \A r \in Pid \ {p} : (k # 1 => r # q[k - 1]) => m[r] = n[r]
  <2>1. CASE k = 1
    <3>1. m = [n EXCEPT ![p] = NULL]
      BY <1>3, <1>6, <2>1 DEF RemoveNext, v
    <3> HIDE DEF m
    <3> QED
      BY <1>4, <2>1, <3>1 DEF Links
  <2>2. CASE k # 1
    <3>1. m = [n EXCEPT ![v] = n[p], ![p] = NULL]
      BY <1>3, <1>6, <2>2 DEF RemoveNext, v
    <3>2. v = q[k - 1] /\ v \in Pid /\ v # p
      BY <1>1, <1>3, <1>4, <2>2 DEF NoDup
    <3> HIDE DEF m
    <3>3. m \in Links /\ m[p] = NULL /\ m[v] = n[p] /\ \A r \in Pid \ {p, v} : m[r] = n[r]
      BY <1>4, <3>1, <3>2 DEF Links
    <3> QED
      BY <2>2, <3>2, <3>3
  <2> QED
    BY <2>1, <2>2
<1> HIDE DEF m
<1>9. ASSUME NEW i \in 1 .. Len(s)
      PROVE  m[s[i]] = IF i = Len(s) THEN NULL ELSE s[i + 1]
  <2>0. /\ i \in Nat \ {0} /\ i < Len(q) /\ i \in 1 .. Len(q) /\ i + 1 \in 1 .. Len(q)
        /\ i # Len(s) => i + 1 \in 1 .. Len(s)
    BY <1>4, <1>5
  <2>1. CASE i < k - 1
    <3>1. s[i] = q[i] /\ s[i + 1] = q[i + 1] /\ i # Len(s)
      BY <1>4, <1>5, <2>0, <2>1
    <3>2. q[i] # q[k] /\ q[i] # q[k - 1] /\ q[i] \in Pid
      BY <1>4, <2>0, <2>1 DEF NoDup
    <3>3. n[q[i]] = q[i + 1]
      BY <2>0 DEF Represents
    <3> QED
      BY <1>1, <1>8, <3>1, <3>2, <3>3
  <2>2. CASE i = k - 1
    <3>1. s[i] = q[k - 1] /\ k # 1
      BY <1>4, <1>5, <2>0, <2>2
    <3>2. i # Len(s) => s[i + 1] = q[k + 1]
      BY <1>4, <1>5, <2>0, <2>2
    <3>3. i = Len(s) <=> k = Len(q)
      BY <1>4, <1>5, <2>2
    <3> QED
      BY <1>7, <1>8, <3>1, <3>2, <3>3
  <2>3. CASE i >= k
    <3>1. s[i] = q[i + 1]
      BY <1>4, <1>5, <2>0, <2>3
    <3>2. i # Len(s) => s[i + 1] = q[(i + 1) + 1]
      BY <1>4, <1>5, <2>0, <2>3
    <3>3. q[i + 1] # q[k] /\ (k # 1 => q[i + 1] # q[k - 1]) /\ q[i + 1] \in Pid
      BY <1>4, <2>0, <2>3 DEF NoDup
    <3>4. n[q[i + 1]] = IF i + 1 = Len(q) THEN NULL ELSE q[(i + 1) + 1]
      BY <2>0 DEF Represents
    <3>5. i = Len(s) <=> i + 1 = Len(q)
      BY <1>4, <1>5, <2>0
    <3> QED
      BY <1>1, <1>8, <3>1, <3>2, <3>3, <3>4, <3>5
  <2> QED
    BY <1>4, <2>0, <2>1, <2>2, <2>3
<1>10. /\ l.size = Len(q) /\ l.head = q[1] /\ l.tail = q[Len(q)]
  BY <1>4 DEF Represents
<1>11. /\ c.size = Len(s)
       /\ c.head = IF k = 1 THEN n[p] ELSE q[1]
       /\ c.tail = IF l.tail = p THEN v ELSE l.tail
  BY <1>3, <1>5, <1>6, <1>10 DEF RemoveList, v
<1> HIDE DEF c
<1> HIDE DEF s
<1>12. s = <<>> <=> Len(q) = 1
  BY <1>4, <1>5
<1>13. Len(q) = 1 => k = 1
  BY <1>1
<1>14. c.head = IF s = <<>> THEN NULL ELSE s[1]
  <2>1. CASE s = <<>>
    BY <1>7, <1>11, <1>12, <1>13, <2>1
  <2>2. CASE s # <<>>
    <3>1. 1 \in 1 .. Len(s) /\ Len(q) # 1
      BY <1>4, <1>5, <2>2
    <3> QED
      BY <1>4, <1>5, <1>7, <1>11, <2>2, <3>1
  <2> QED
    BY <2>1, <2>2
<1>15. c.tail = IF s = <<>> THEN NULL ELSE s[Len(s)]
  <2>1. l.tail = p <=> k = Len(q)
    BY <1>1, <1>4, <1>10 DEF NoDup
  <2>2. CASE s = <<>>
    BY <1>6, <1>11, <1>12, <1>13, <2>1, <2>2
  <2>3. CASE s # <<>>
    <3>1. Len(s) \in 1 .. Len(s) /\ Len(s) + 1 = Len(q) /\ Len(q) # 1
      BY <1>4, <1>5, <2>3
    <3>2. s[Len(s)] = IF k = Len(q) THEN q[k - 1] ELSE q[Len(q)]
      BY <1>4, <1>5, <3>1
    <3> QED
      BY <1>3, <1>10, <1>11, <2>1, <2>3, <3>1, <3>2
  <2> QED
    BY <2>2, <2>3
<1>16. Represents(c, m, s)
  BY <1>9, <1>11, <1>14, <1>15 DEF Represents
<1>17. ASSUME NEW r \in Pid \ Elems(q)
       PROVE  m[r] = n[r]
  <2>1. r # p /\ (k # 1 => r # q[k - 1])
    BY <1>4 DEF Elems
  <2> QED
    BY <1>8, <2>1
<1> QED
  BY <1>8, <1>16, <1>17 DEF c, m, s

\* A list without duplicates is shorter than the table of processes.
LEMMA LengthLemma ==
  ASSUME NEW q \in Seq(Pid), NoDup(q)
  PROVE  Len(q) < MAX_PROC_NUM
<1>1. Len(q) \in Nat /\ MAX_PROC_NUM - 1 \in Nat
  BY SchedAssumption
<1>2. q \in Injection(1 .. Len(q), Pid)
  BY DEF Injection, IsInjective, NoDup
<1>3. IsFiniteSet(Pid) /\ Cardinality(Pid) = MAX_PROC_NUM - 1
  BY <1>1, SchedAssumption, FS_Interval DEF Pid
<1>4. Cardinality(1 .. Len(q)) = Len(q)
  <2> DEFINE k == Len(q)
  <2>1. k \in Int
    BY <1>1
  <2> HIDE DEF k
  <2>2. Cardinality(1 .. k) = IF 1 > k THEN 0 ELSE k - 1 + 1
    BY <2>1, FS_Interval
  <2> QED
    BY <1>1, <2>2 DEF k
<1>5. Cardinality(1 .. Len(q)) <= Cardinality(Pid)
  BY <1>2, <1>3, FS_Injection
<1> QED
  BY <1>1, <1>3, <1>4, <1>5, SchedAssumption

-----------------------------------------------------------------------------
(***************************************************************************)
(* The representation holds initially and each step preserves it.          *)
(***************************************************************************)
ListInv == IInv /\ next \in Links /\ ListsRepresent

\* What ListInv says of the lists, their members apart.
LEMMA Lists ==
  ASSUME ListInv
  PROVE  /\ ready_list \in Seq(Pid) /\ NoDup(ready_list)
         /\ blocked_list \in Seq(Pid) /\ NoDup(blocked_list)
         /\ Elems(ready_list) \cap Elems(blocked_list) = {}
         /\ Elems(ready_list) \subseteq Pid /\ Elems(blocked_list) \subseteq Pid
  BY DEF ListInv, IInv, TypeOK, OnePlace, Live

LEMMA ListInitLemma == Init /\ ListInit => ListInv
<1> SUFFICES ASSUME Init, ListInit PROVE ListInv
  OBVIOUS
<1>1. /\ ready_list = <<>> /\ blocked_list = <<>> /\ boot # "idle"
      /\ ready = EmptyList /\ blocked = EmptyList /\ next = [p \in Pid |-> NULL]
  BY DEF Init, ListInit
<1>2. Represents(blocked, next, blocked_list)
  BY <1>1 DEF Represents, EmptyList
<1>3. HalfLinked
  BY <1>1 DEF HalfLinked, EmptyList
<1> QED
  BY <1>1, <1>2, <1>3, InitLemma DEF ListInv, ListsRepresent, Links

\* A step that changes neither the lists nor the pointers.
LEMMA SameLists ==
  ASSUME ListInv, IInv', UNCHANGED <<ready_list, blocked_list, pointers>>, boot' = boot
  PROVE  ListInv'
  BY DEF ListInv, ListsRepresent, Represents, HalfLinked, pointers

\* kernel_main's own steps.
LEMMA ListBoot ==
  ASSUME ListInv, IInv', ListInitProcess \/ StoreHead \/ StoreTail \/ StoreSize
  PROVE  ListInv'
<1> USE SchedAssumption, NotNull
<1>1. /\ boot # "idle" /\ ready_list = <<>> /\ blocked_list = <<>>
      /\ next_pid = IF boot = "init_process" THEN 1 ELSE 2
      /\ 1 \in Pid /\ \A p \in Pid : next[p] = NULL
  <2>1. boot # "idle"
    BY DEF ListInitProcess, init_process, StoreHead, StoreTail, StoreSize, exec_program
  <2>2. ready_list = <<>> /\ blocked_list = <<>>
    BY <2>1 DEF ListInv, IInv, Boot
  <2>3. Elems(ready_list) = {} /\ Elems(blocked_list) = {}
    BY <2>2, EmptyLemma
  <2> QED
    BY <2>1, <2>2, <2>3 DEF ListInv, IInv, Boot, ListsRepresent, Pid
<1>2. HalfLinked
  BY <1>1 DEF ListInv, ListsRepresent
<1>3. CASE ListInitProcess
  <2>1. /\ next' = next /\ UNCHANGED <<ready, blocked, ready_list, blocked_list>>
        /\ boot' # "idle"
    BY <1>1, <1>3 DEF ListInitProcess, init_process, ListInv, Links
  <2> QED
    BY <1>1, <1>2, <2>1 DEF ListInv, ListsRepresent, Represents, HalfLinked
<1>4. CASE StoreHead \/ StoreTail
  <2>1. /\ UNCHANGED <<blocked, next, ready_list, blocked_list, boot>>
        /\ next_pid - 1 = 1
        /\ \/ ready' = [ready EXCEPT !.head = 1]
           \/ ready.head # NULL /\ ready' = [ready EXCEPT !.tail = 1]
    BY <1>1, <1>4 DEF StoreHead, StoreTail, vars, listVars, cpuVars
  <2>2. HalfLinked'
    BY <1>2, <2>1 DEF HalfLinked
  <2> QED
    BY <1>1, <2>1, <2>2 DEF ListInv, ListsRepresent, Represents
<1>5. CASE StoreSize
  <2>1. /\ next_pid - 1 = 1 /\ boot' = "idle"
        /\ process_list[1] = NULL
        /\ ready.tail # NULL
    BY <1>1, <1>5 DEF StoreSize, exec_program, ListInv, IInv, Numbering
  <2>2. ready_list' = <<1>> /\ blocked_list' = <<>>
    BY <1>1, <1>5, <2>1 DEF StoreSize, exec_program, add_process, sched_enqueue
  <2>3. /\ next' = [next EXCEPT ![1] = NULL] /\ blocked' = blocked
        /\ ready'.size = 1 /\ ready'.head = 1 /\ ready'.tail = 1
    BY <1>2, <1>5, <2>1 DEF StoreSize, HalfLinked
  <2>4. next' = next
    BY <1>1, <2>3 DEF ListInv, Links
  <2>5. Represents(ready', next', ready_list')
    BY <1>1, <2>2, <2>3, <2>4 DEF Represents
  <2> QED
    BY <1>1, <2>1, <2>2, <2>3, <2>4, <2>5 DEF ListInv, ListsRepresent, Represents
<1> QED
  BY <1>3, <1>4, <1>5

\* Both lists, as the sequences q and b, and no other process points anywhere.
Linked(l, q, m, b, n) ==
  /\ Represents(l, n, q) /\ Represents(m, n, b)
  /\ \A r \in Pid : r \notin Elems(q) \cup Elems(b) => n[r] = NULL

(***************************************************************************)
(* A process in neither list is enqueued in one: the other is unaffected.  *)
(* (q and b stand for either list.)                                        *)
(***************************************************************************)
LEMMA EnqueueLinked ==
  ASSUME NEW q \in Seq(Pid), NoDup(q), NEW b \in Seq(Pid), NoDup(b),
         Elems(q) \cap Elems(b) = {}, NEW l, NEW m, NEW n \in Links,
         Linked(l, q, m, b, n), NEW p \in Pid, p \notin Elems(q) \cup Elems(b)
  PROVE  /\ EnqueueNext(l, n, p) \in Links
         /\ Linked(EnqueueList(l, p), sched_enqueue(q, p), m, b, EnqueueNext(l, n, p))
<1> DEFINE k == EnqueueNext(l, n, p)
<1>1. /\ k \in Links
      /\ Represents(EnqueueList(l, p), k, sched_enqueue(q, p))
      /\ \A r \in Pid \ (Elems(q) \cup {p}) : k[r] = n[r]
  BY EnqueueRepresents DEF Linked
<1> HIDE DEF k
<1>2. Elems(b) \subseteq Pid \ (Elems(q) \cup {p})
  BY DEF Elems
<1>3. Represents(m, k, b)
  BY <1>1, <1>2, FrameLemma DEF Linked
<1>4. Elems(sched_enqueue(q, p)) = Elems(q) \cup {p}
  BY EnqueueLemma
<1> QED
  BY <1>1, <1>3, <1>4 DEF Linked, k

LEMMA ServeLinked ==
  ASSUME NEW q \in Seq(Pid), q # <<>>, NoDup(q), NEW b \in Seq(Pid), NoDup(b),
         Elems(q) \cap Elems(b) = {}, NEW l, NEW m, NEW n \in Links,
         Linked(l, q, m, b, n)
  PROVE  /\ ServeNext(l, n) \in Links
         /\ Linked(ServeList(l, n), Tail(q), m, b, ServeNext(l, n))
<1> DEFINE k == ServeNext(l, n)
<1>1. /\ k \in Links /\ Represents(ServeList(l, n), k, Tail(q)) /\ k[Head(q)] = NULL
      /\ \A r \in Pid \ {Head(q)} : k[r] = n[r]
  BY ServeRepresents DEF Linked
<1> HIDE DEF k
<1>2. Head(q) \in Elems(q) /\ Elems(Tail(q)) = Elems(q) \ {Head(q)}
  BY ServeLemma
<1>3. Elems(b) \subseteq Pid \ {Head(q)}
  BY <1>2 DEF Elems
<1>4. Represents(m, k, b)
  BY <1>1, <1>3, FrameLemma DEF Linked
<1> QED
  BY <1>1, <1>2, <1>4 DEF Linked, k

LEMMA RemoveLinked ==
  ASSUME NEW q \in Seq(Pid), NoDup(q), NEW b \in Seq(Pid), NoDup(b),
         Elems(q) \cap Elems(b) = {}, NEW l, NEW m, NEW n \in Links,
         Linked(l, q, m, b, n), NEW p \in Elems(q)
  PROVE  /\ RemoveNext(l, n, p) \in Links
         /\ Linked(RemoveList(l, n, p), sched_remove(q, p), m, b, RemoveNext(l, n, p))
<1> DEFINE k == RemoveNext(l, n, p)
<1>1. p \in Pid /\ p # NULL
  BY NotNull DEF Elems
<1>2. ASSUME NEW r \in Pid, n[r] = p
      PROVE  r \in Elems(q)
  <2>1. r \in Elems(q) \cup Elems(b)
    BY <1>1, <1>2 DEF Linked
  <2>2. CASE r \in Elems(b)
    <3>1. PICK i \in 1 .. Len(b) : b[i] = r
      BY <2>2 DEF Elems
    <3>2. i # Len(b) /\ b[i + 1] = p
      BY <1>1, <1>2, <3>1 DEF Linked, Represents
    <3>3. i + 1 \in 1 .. Len(b)
      BY <3>1, <3>2
    <3> QED
      BY <3>2, <3>3 DEF Elems
  <2> QED
    BY <2>1, <2>2
<1>3. /\ k \in Links /\ Represents(RemoveList(l, n, p), k, sched_remove(q, p))
      /\ k[p] = NULL
      /\ \A r \in Pid \ Elems(q) : k[r] = n[r]
  BY <1>2, LengthLemma, RemoveRepresents DEF Linked
<1> HIDE DEF k
<1>4. Elems(sched_remove(q, p)) = Elems(q) \ {p}
  BY RemoveLemma
<1>5. Elems(b) \subseteq Pid \ Elems(q)
  BY DEF Elems
<1>6. Represents(m, k, b)
  BY <1>3, <1>5, FrameLemma DEF Linked
<1> QED
  BY <1>3, <1>4, <1>6 DEF Linked, k

\* Once the shell is registered.
LEMMA RunningLists ==
  ASSUME ListInv, boot = "idle"
  PROVE  /\ Linked(ready, ready_list, blocked, blocked_list, next)
         /\ Linked(blocked, blocked_list, ready, ready_list, next)
  BY DEF ListInv, ListsRepresent, Linked

LEMMA StillLinked ==
  ASSUME IInv', boot' = "idle", next' \in Links,
         Linked(ready', ready_list', blocked', blocked_list', next')
  PROVE  ListInv'
  BY DEF ListInv, ListsRepresent, Linked

\* A fork enqueues a process that is in no list yet.
LEMMA ListForkLemma ==
  ASSUME ListInv, IInv', NEW p \in Pid, ListFork(p)
  PROVE  ListInv'
<1>1. boot = "idle" /\ boot' = "idle"
  BY CurrentExecutes DEF ListFork, sys_fork, UserCode, Executes, ListInv
<1>2. next_pid \in Pid /\ process_list[next_pid] = NULL
  BY SchedAssumption DEF ListFork, sys_fork, PidBound, ListInv, IInv, Numbering, Pid
<1>3. next_pid \notin Elems(ready_list) \cup Elems(blocked_list)
  BY <1>2 DEF ListInv, IInv, OnePlace, Live
<1>4. ready_list' = sched_enqueue(ready_list, next_pid) /\ blocked_list' = blocked_list
  BY <1>2 DEF ListFork, sys_fork, add_process
<1>5. /\ ready' = EnqueueList(ready, next_pid) /\ blocked' = blocked
      /\ next' = EnqueueNext(ready, next, next_pid)
  BY DEF ListFork
<1>6. next \in Links
  BY DEF ListInv
<1>7. /\ EnqueueNext(ready, next, next_pid) \in Links
      /\ Linked(EnqueueList(ready, next_pid), sched_enqueue(ready_list, next_pid),
                blocked, blocked_list, EnqueueNext(ready, next, next_pid))
  BY <1>1, <1>2, <1>3, <1>6, Lists, RunningLists, EnqueueLinked
<1> QED
  BY <1>1, <1>4, <1>5, <1>7, StillLinked

\* An exit moves a parent that waits from one list to the other.
LEMMA ListExitLemma ==
  ASSUME ListInv, IInv', NEW p \in Pid, ListExit(p)
  PROVE  ListInv'
<1> DEFINE parent == process_list[parent_id[current_process]]
<1>1. /\ boot = "idle" /\ boot' = "idle" /\ cpu = p /\ at[p] = "user"
      /\ WakeParent(parent)
  BY CurrentExecutes DEF ListExit, sys_exit, UserCode, Executes, ListInv
<1>2. CASE Woken = {}
  <2>1. parent = NULL \/ ~(status[parent] = "BLOCKED" /\ block_event[parent] = "WCHILD")
    BY <1>2 DEF Woken
  <2>2. UNCHANGED <<ready_list, blocked_list, pointers>>
    BY <1>1, <1>2, <2>1 DEF WakeParent, ListExit
  <2> QED
    BY <1>1, <2>2, SameLists
<1>3. CASE Woken # {}
  <2>1. /\ parent # NULL /\ status[parent] = "BLOCKED" /\ block_event[parent] = "WCHILD"
        /\ Woken = {parent}
    BY <1>3 DEF Woken
  <2>2. parent \in Pid
    <3>1. current_process = p
      BY <1>1, CurrentExecutes DEF ListInv
    <3> QED
      BY <2>1, <3>1, SchedAssumption DEF ListInv, IInv, TypeOK, Pid
  <2>3. /\ blocked' = RemoveList(blocked, next, parent)
        /\ ready' = EnqueueList(ready, parent)
        /\ next' = EnqueueNext(ready, RemoveNext(blocked, next, parent), parent)
    BY <1>3, <2>1 DEF ListExit
  <2>4. /\ blocked_list' = sched_remove(blocked_list, parent)
        /\ ready_list' = sched_enqueue(ready_list, parent)
    BY <1>1, <2>1 DEF WakeParent
  <2> HIDE DEF parent
  <2>5. parent \in Elems(blocked_list)
    BY <1>1, <2>1, <2>2, WokenParent DEF ListInv
  <2>6. next \in Links
    BY DEF ListInv
  <2> DEFINE n == RemoveNext(blocked, next, parent)
             b == sched_remove(blocked_list, parent)
             m == RemoveList(blocked, next, parent)
  <2>7. n \in Links /\ Linked(m, b, ready, ready_list, n)
    BY <1>1, <2>5, <2>6, Lists, RunningLists, RemoveLinked
  <2>8. b \in Seq(Pid) /\ NoDup(b) /\ Elems(b) = Elems(blocked_list) \ {parent}
    BY <2>5, Lists, RemoveLemma
  <2> HIDE DEF n, b, m
  <2>9. Linked(ready, ready_list, m, b, n)
    BY <2>7 DEF Linked
  <2>10. Elems(ready_list) \cap Elems(b) = {} /\ parent \notin Elems(ready_list) \cup Elems(b)
    BY <2>5, <2>8, Lists
  <2>11. /\ EnqueueNext(ready, n, parent) \in Links
         /\ Linked(EnqueueList(ready, parent), sched_enqueue(ready_list, parent),
                   m, b, EnqueueNext(ready, n, parent))
    BY <2>2, <2>7, <2>8, <2>9, <2>10, Lists, EnqueueLinked
  <2> QED
    BY <1>1, <2>3, <2>4, <2>11, StillLinked DEF n, b, m
<1> QED
  BY <1>2, <1>3

(***************************************************************************)
(* A switch enqueues the current process in one of the lists, or in none,  *)
(* and serves the ready list.                                              *)
(***************************************************************************)
LEMMA ListSwitchLemma ==
  ASSUME ListInv, IInv', ListTick
  PROVE  ListInv'
<1> DEFINE cur == current_process
           waits == cur # NULL /\ status[cur] = "BLOCKED"
           goesOn == cur # NULL /\ status[cur] # "BLOCKED"
           q == IF goesOn THEN sched_enqueue(ready_list, cur) ELSE ready_list
           b == IF waits THEN sched_enqueue(blocked_list, cur) ELSE blocked_list
           l == IF goesOn THEN EnqueueList(ready, cur) ELSE ready
           m == IF waits THEN EnqueueList(blocked, cur) ELSE blocked
           n == IF goesOn THEN EnqueueNext(ready, next, cur)
                ELSE IF waits THEN EnqueueNext(blocked, next, cur) ELSE next
<1>1. boot' = boot
  BY DEF ListTick, handle_int_20_timer
<1>2. boot = "idle" => ready.size = Len(ready_list)
  BY DEF ListInv, ListsRepresent, Represents
<1>3. boot # "idle" => ready.size = 0 /\ ready_list = <<>>
  BY DEF ListInv, ListsRepresent, HalfLinked, IInv, Boot
<1>4. ready.size = 0 <=> ready_list = <<>>
  BY <1>2, <1>3, Lists
<1>5. CASE ~(count_down = 1 /\ ready_list # <<>>)
  <2>1. UNCHANGED <<ready_list, blocked_list>>
    BY <1>5 DEF ListTick, handle_int_20_timer, force_switch, listVars
  <2>2. UNCHANGED pointers
    BY <1>4, <1>5 DEF ListTick, ListSwitch
  <2> QED
    BY <1>1, <2>1, <2>2, SameLists
<1>6. CASE count_down = 1 /\ ready_list # <<>>
  <2>1. boot = "idle" /\ boot' = "idle"
    BY <1>1, <1>3, <1>6
  <2>2. /\ ready_list' = Tail(q) /\ blocked_list' = b
    BY <1>6, Zenon DEF ListTick, handle_int_20_timer, force_switch
  <2>3. /\ blocked' = m /\ ready' = ServeList(l, n) /\ next' = ServeNext(l, n)
    BY <1>4, <1>6, Zenon DEF ListTick, ListSwitch
  <2>4. cur # NULL => cur \in Pid /\ cur \notin Elems(ready_list) \cup Elems(blocked_list)
    BY DEF ListInv, IInv, TypeOK, OnePlace, Current
  <2>5. /\ q \in Seq(Pid) /\ q # <<>> /\ NoDup(q) /\ b \in Seq(Pid) /\ NoDup(b)
        /\ Elems(q) \cap Elems(b) = {} /\ n \in Links /\ Linked(l, q, m, b, n)
    <3>1. next \in Links
      BY DEF ListInv
    <3>2. CASE goesOn
      <4>1. ~waits
        BY <3>2
      <4>2. /\ EnqueueNext(ready, next, cur) \in Links
            /\ Linked(EnqueueList(ready, cur), sched_enqueue(ready_list, cur),
                      blocked, blocked_list, EnqueueNext(ready, next, cur))
        BY <2>1, <2>4, <3>1, <3>2, Lists, RunningLists, EnqueueLinked
      <4> QED
        BY <2>4, <3>2, <4>1, <4>2, Lists, EnqueueLemma
    <3>3. CASE waits
      <4>1. ~goesOn
        BY <3>3
      <4>2. /\ EnqueueNext(blocked, next, cur) \in Links
            /\ Linked(EnqueueList(blocked, cur), sched_enqueue(blocked_list, cur),
                      ready, ready_list, EnqueueNext(blocked, next, cur))
        BY <2>1, <2>4, <3>1, <3>3, Lists, RunningLists, EnqueueLinked
      <4>3. Linked(ready, ready_list, EnqueueList(blocked, cur),
                   sched_enqueue(blocked_list, cur), EnqueueNext(blocked, next, cur))
        BY <4>2 DEF Linked
      <4> QED
        BY <1>6, <2>4, <3>3, <4>1, <4>2, <4>3, Lists, EnqueueLemma
    <3>4. CASE ~goesOn /\ ~waits
      BY <1>6, <2>1, <3>1, <3>4, Lists, RunningLists
    <3> QED
      BY <3>2, <3>3, <3>4
  <2> HIDE DEF q, b, l, m, n
  <2>6. ServeNext(l, n) \in Links /\ Linked(ServeList(l, n), Tail(q), m, b, ServeNext(l, n))
    BY <2>5, ServeLinked
  <2> QED
    BY <2>1, <2>2, <2>3, <2>6, StillLinked
<1> QED
  BY <1>5, <1>6

LEMMA ListStep == ListInv /\ [ListNext]_<<vars, pointers>> => ListInv'
<1> SUFFICES ASSUME ListInv, [ListNext]_<<vars, pointers>> PROVE ListInv'
  OBVIOUS
<1>1. [Next]_vars
  BY DEF ListNext, ListInitProcess, StoreHead, StoreTail, StoreSize, ListFork, ListExit,
         ListTick, ListPlain, Next, KernelMain, Timer, Process
<1>2. IInv'
  BY <1>1, StepLemma DEF ListInv
<1>3. CASE ListInitProcess \/ StoreHead \/ StoreTail \/ StoreSize
  BY <1>2, <1>3, ListBoot
<1>4. ASSUME NEW p \in Pid, ListFork(p) \/ ListExit(p)
      PROVE  ListInv'
  BY <1>2, <1>4, ListForkLemma, ListExitLemma
<1>5. CASE ListTick
  BY <1>2, <1>5, ListSwitchLemma
<1>6. CASE ListPlain
  <2>1. UNCHANGED <<ready_list, blocked_list, pointers, boot>>
    BY <1>6 DEF ListPlain, int_20_timer, fork_return, sys_waitpid, waitpid_return, sys_read,
                read_return, sys_execve, sti, listVars
  <2> QED
    BY <1>2, <2>1, SameLists
<1>7. CASE UNCHANGED <<vars, pointers>>
  BY <1>2, <1>7, SameLists DEF vars, listVars, cpuVars
<1> QED
  BY <1>3, <1>4, <1>5, <1>6, <1>7 DEF ListNext

(***************************************************************************)
(* The pointers represent the sequences in every reachable state: the      *)
(* linked lists of sched.c are the queues that Sched takes them for.       *)
(***************************************************************************)
THEOREM ListsCorrect == ListSpec => []ListsRepresent
<1>1. ListInv => ListsRepresent
  BY DEF ListInv
<1> QED
  BY <1>1, ListInitLemma, ListStep, PTL DEF ListSpec

\* The pointers constrain nothing: what is proved of Spec holds of ListSpec.
THEOREM ListsAreSched == ListSpec => Spec
<1>1. [ListNext]_<<vars, pointers>> => [Next]_vars
  BY DEF ListNext, ListInitProcess, StoreHead, StoreTail, StoreSize, ListFork, ListExit,
         ListTick, ListPlain, Next, KernelMain, Timer, Process, vars
<1> QED
  BY <1>1, PTL DEF ListSpec, Spec

=============================================================================
