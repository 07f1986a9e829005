------------------------------- MODULE Stdio -------------------------------
(***************************************************************************)
(* What the programs of leanux compute with text: vprintf and vsscanf of   *)
(* the C library, the conversions behind the lab_ system calls, how        *)
(* execve reads the name of a program, and how a system call reaches its   *)
(* function.  A character is its code, as a signed char: that of ASCII, or *)
(* a negative number for the byte of a special key.  A string is the       *)
(* sequence of its characters without the final NUL.                       *)
(* Interrupts and other processes do not touch what is computed here: one  *)
(* program is looked at, which does one of three things (Init).            *)
(***************************************************************************)
EXTENDS Integers, FiniteSets, SequencesExt

CONSTANTS
  W,         \* bits of an int
  Calls,     \* pairs of a format and its arguments: what is printed; no
             \* format given to printf ends in a percent sign
  Lines,     \* pairs of a format and a line typed for scanf
  Texts      \* strings given to the lab_ calls and to execve

NUL == 0
Percent == 37
Minus == 45
Zero == 48
c == 99
d == 100
s == 115
Prog == <<112, 114, 111, 103>>
Digits == Zero .. Zero + 9
INT_MIN == -(2 ^ (W - 1))
Ints == INT_MIN .. -INT_MIN - 1
Wrap(x) == ((x - INT_MIN) % (2 ^ W)) + INT_MIN

VARIABLES
  pc,       \* what the program does
  fmt, f,   \* the format string, and where in it
  args,     \* arguments of printf
  buf, b,   \* the text printed, typed or converted, and where in it
  taken,    \* values stored by vsscanf
  printed, scanned,  \* item_count of vprintf and of vsscanf
  num,      \* result of the last call that returns a number
  call      \* the wrapper of the last system call, and the function it reached

vars == <<pc, fmt, f, args, buf, b, taken, printed, scanned, num, call>>

-----------------------------------------------------------------------------
(* The functions *)

CharAt(t, i) == IF i <= Len(t) THEN t[i] ELSE NUL

\* Mutant: the count is incremented after it is compared, as in i++ < n.
NcmpOneMore(sa, sb, n) ==
  LET Differ(i) == i >= n \/ CharAt(sa, i + 1) = NUL \/ CharAt(sa, i + 1) # CharAt(sb, i + 1)
      i == CHOOSE i \in 0 .. Len(sa) : Differ(i) /\ \A j \in 0 .. i - 1 : ~Differ(j)
  IN CharAt(sa, i + 1) - CharAt(sb, i + 1)

\* The loop stops at the first characters that end a string or differ, and at
\* the n-th in any case; the sign of what they differ by is the result.
string_ncmp(sa, sb, n) ==
  LET Differ(i) == i + 1 >= n \/ CharAt(sa, i + 1) = NUL \/ CharAt(sa, i + 1) # CharAt(sb, i + 1)
      i == CHOOSE i \in 0 .. Len(sa) : Differ(i) /\ \A j \in 0 .. i - 1 : ~Differ(j)
  IN CharAt(sa, i + 1) - CharAt(sb, i + 1)

\* The loops of katoi and number: every character counts as a digit.
Value(t) == FoldLeft(LAMBDA r, ch : Wrap(r * 10 + (ch - Zero)), 0, t)

Negative(t) == CharAt(t, 1) = Minus
Unsigned(t) == IF Negative(t) THEN Tail(t) ELSE t

katoi(t) == IF Negative(t) THEN Wrap(-Value(Unsigned(t))) ELSE Value(t)

\* Mutant: number does not stop at what is no digit.
AllOf(t) == t

\* What number reads of t: a sign, if there is one, and all digits behind it.
NumberIn(t) ==
  LET sign == IF Negative(t) THEN 1 ELSE 0
      n == CHOOSE n \in sign .. Len(t) :
             /\ \A i \in sign + 1 .. n : t[i] \in Digits
             /\ CharAt(t, n + 1) \notin Digits
  IN SubSeq(t, 1, n)

\* What vsscanf stores for an item of the format, with the text t to read,
\* and how many characters of it it takes.
Stored(kind, t) ==
  IF kind = c THEN <<t[1]>> ELSE IF kind = d THEN <<katoi(NumberIn(t))>> ELSE <<>>

Width(kind, t) ==
  IF kind = c THEN 1 ELSE IF kind = d THEN Len(NumberIn(t)) ELSE 0

\* Mutant: the digits are copied in the order they were found.
DigitsBackwards(i) ==
  LET dig[n \in Nat] == IF n = 0 THEN <<>> ELSE <<Zero + (n % 10)>> \o dig[n \div 10]
  IN dig[i]

DecimalDigits(i) ==
  LET dig[n \in Nat] == IF n = 0 THEN <<>> ELSE Append(dig[n \div 10], Zero + (n % 10))
  IN dig[i]

\* To base 10.  There is no -INT_MIN: the
\* negation is undefined, and the digits are those of the unsigned number or,
\* from remainders below zero, whatever lies before the table of digits.
kitoa(i) ==
  IF i = 0 THEN {<<Zero>>}
  ELSE IF i > 0 THEN {DecimalDigits(i)}
  ELSE LET t == <<Minus>> \o DecimalDigits(-i)
       IN IF i = INT_MIN THEN {t, [j \in DOMAIN t |-> IF j = 1 THEN Minus ELSE NUL]}
                         ELSE {t}

\* The C library has its own copy.
itoa(i) == kitoa(i)

InRange(ch, first, last) == first <= ch /\ ch <= last

-----------------------------------------------------------------------------
(* printf, then sscanf of what was printed; or scanf of a typed line; or   *)
(* the system calls on a text.                                             *)
Init ==
  /\ f = 1 /\ b = 1
  /\ taken = <<>> /\ printed = 0 /\ scanned = 0 /\ num = 0 /\ call = <<>>
  /\ \/ /\ pc = "vprintf" /\ buf = <<>>
        /\ \E k \in Calls : fmt = k[1] /\ args = k[2]
     \/ /\ pc = "vsscanf" /\ args = <<>>
        /\ \E k \in Lines : fmt = k[1] /\ buf = k[2]
     \/ /\ pc = "lab" /\ fmt = <<>> /\ args = <<>>
        /\ buf \in Texts

\* vprintf, a round of its loop at a time.
PrintChar ==
  /\ pc = "vprintf" /\ CharAt(fmt, f) \notin {NUL, Percent}
  /\ buf' = Append(buf, fmt[f])
  /\ f' = f + 1
  /\ UNCHANGED <<pc, fmt, args, b, taken, printed, scanned, num, call>>

\* num counts the arguments taken so far.
PrintItem ==
  /\ pc = "vprintf" /\ CharAt(fmt, f) = Percent
  /\ LET kind == CharAt(fmt, f + 1)
         arg == args[num + 1]
     IN /\ \/ kind = c /\ buf' = Append(buf, arg)
           \/ kind = d /\ \E t \in itoa(arg) : buf' = buf \o t
           \/ kind = s /\ buf' = buf \o arg
           \/ kind \notin {c, d, s} /\ buf' = buf
        /\ num' = IF kind \in {c, d, s} THEN num + 1 ELSE num
  /\ f' = f + 2
  /\ printed' = printed + 1
  /\ UNCHANGED <<pc, fmt, args, b, taken, scanned, call>>

PrintEnd ==
  /\ pc = "vprintf" /\ CharAt(fmt, f) = NUL
  /\ pc' = "vsscanf"
  /\ f' = 1
  /\ UNCHANGED <<fmt, args, buf, b, taken, printed, scanned, num, call>>

\* vsscanf, likewise: it ends with the text or the format, or where they differ.
Scanning ==
  /\ pc = "vsscanf" /\ CharAt(buf, b) # NUL /\ CharAt(fmt, f) # NUL
  /\ IF fmt[f] = Percent THEN CharAt(fmt, f + 1) # NUL ELSE fmt[f] = buf[b]

ScanChar ==
  /\ Scanning /\ fmt[f] # Percent
  /\ f' = f + 1 /\ b' = b + 1
  /\ UNCHANGED <<pc, fmt, args, buf, taken, printed, scanned, num, call>>

ScanItem ==
  /\ Scanning /\ fmt[f] = Percent
  /\ LET rest == SubSeq(buf, b, Len(buf))
     IN /\ taken' = taken \o Stored(fmt[f + 1], rest)
        /\ b' = b + Width(fmt[f + 1], rest)
  /\ f' = f + 2
  /\ scanned' = scanned + 1
  /\ UNCHANGED <<pc, fmt, args, buf, printed, num, call>>

ScanEnd ==
  /\ pc = "vsscanf" /\ ~Scanning
  /\ pc' = "end"
  /\ UNCHANGED <<fmt, f, args, buf, b, taken, printed, scanned, num, call>>

-----------------------------------------------------------------------------
(* The system calls: what those on texts do, and how they are reached.     *)

sys_lab_capitalize ==
  /\ buf' = [i \in DOMAIN buf |-> IF InRange(buf[i], 97, 122) THEN buf[i] - 32 ELSE buf[i]]
  /\ UNCHANGED <<num, pc>>

sys_lab_lower ==
  /\ buf' = [i \in DOMAIN buf |-> IF InRange(buf[i], 65, 90) THEN buf[i] + 32 ELSE buf[i]]
  /\ UNCHANGED <<num, pc>>

sys_lab_atoi == num' = katoi(buf) /\ UNCHANGED <<buf, pc>>

sys_lab_itoa == buf' \in kitoa(num) /\ UNCHANGED <<num, pc>>

\* The program whose sectors are loaded, or -1.
Named(path) ==
  LET prog_no == katoi(SubSeq(path, 5, Len(path)))
  IN IF string_ncmp(path, Prog, 4) = 0 /\ prog_no >= 1 /\ prog_no <= 9
     THEN prog_no ELSE -1

sys_execve == num' = Named(buf) /\ pc' = "execve" /\ UNCHANGED buf

\* The numbers that the wrappers put into eax.
Number ==
  [_exit |-> 1, fork |-> 2, read |-> 3, write |-> 4, wait |-> 7, execve |-> 11,
   shared_fork |-> 28, s_putchar_ntimes |-> 29, s_putchar |-> 30,
   print_with_color |-> 31, lab_ouch |-> 32, lab_capitalize |-> 33, lab_lower |-> 34,
   lab_atoi |-> 35, lab_itoa |-> 36, lab_puts_at |-> 37]

\* Mutant: one of the NULL entries before sys_shared_fork is missing.
TableShifted ==
  1 :> "sys_exit" @@ 2 :> "sys_fork" @@ 3 :> "sys_read" @@ 4 :> "sys_write"
  @@ 7 :> "sys_waitpid" @@ 11 :> "sys_execve" @@ 27 :> "sys_shared_fork"
  @@ 28 :> "sys_tty_putchar_ntimes" @@ 29 :> "sys_tty_putchar"
  @@ 30 :> "sys_print_with_color" @@ 31 :> "sys_lab_ouch"
  @@ 32 :> "sys_lab_capitalize" @@ 33 :> "sys_lab_lower"
  @@ 34 :> "sys_lab_atoi" @@ 35 :> "sys_lab_itoa" @@ 36 :> "sys_lab_puts_at" @@ 37 :> "NULL"

syscall_table ==
  1 :> "sys_exit" @@ 2 :> "sys_fork" @@ 3 :> "sys_read" @@ 4 :> "sys_write"
  @@ 7 :> "sys_waitpid" @@ 11 :> "sys_execve" @@ 28 :> "sys_shared_fork"
  @@ 29 :> "sys_tty_putchar_ntimes" @@ 30 :> "sys_tty_putchar"
  @@ 31 :> "sys_print_with_color" @@ 32 :> "sys_lab_ouch"
  @@ 33 :> "sys_lab_capitalize" @@ 34 :> "sys_lab_lower"
  @@ 35 :> "sys_lab_atoi" @@ 36 :> "sys_lab_itoa" @@ 37 :> "sys_lab_puts_at"

\* The functions that are modelled here; the others leave texts alone.
OnTexts == {"sys_lab_capitalize", "sys_lab_lower", "sys_lab_atoi", "sys_lab_itoa",
            "sys_execve"}

_syscall ==
  /\ pc = "lab"
  /\ \E w \in DOMAIN Number :
       LET function == syscall_table[Number[w]]
       IN /\ call' = <<w, function>>
          /\ \/ function = "sys_lab_capitalize" /\ sys_lab_capitalize
             \/ function = "sys_lab_lower" /\ sys_lab_lower
             \/ function = "sys_lab_atoi" /\ sys_lab_atoi
             \/ function = "sys_lab_itoa" /\ sys_lab_itoa
             \/ function = "sys_execve" /\ sys_execve
             \/ function \notin OnTexts /\ UNCHANGED <<buf, num, pc>>
  /\ UNCHANGED <<fmt, f, args, b, taken, printed, scanned>>

Next ==
  \/ PrintChar \/ PrintItem \/ PrintEnd
  \/ ScanChar \/ ScanItem \/ ScanEnd
  \/ _syscall

Spec == Init /\ [][Next]_vars

-----------------------------------------------------------------------------
\* The decimal texts, and the number a text is if each character, a digit or
\* not, counts as the distance of its code from that of 0.
Decimal(t) == Unsigned(t) # <<>> /\ \A i \in DOMAIN Unsigned(t) : Unsigned(t)[i] \in Digits
Sum10(t) == FoldLeft(LAMBDA r, ch : r * 10 + (ch - Zero), 0, t)
DecimalValue(t) == IF Negative(t) THEN -Sum10(Unsigned(t)) ELSE Sum10(t)

\* The items of the format, as positions of their percent signs.
Items == {i \in DOMAIN fmt : fmt[i] = Percent}

\* Only %c and %d, no INT_MIN, and no digit directly behind a number.
Unambiguous ==
  /\ \A i \in Items : CharAt(fmt, i + 1) \in {c, d}
  /\ \A n \in DOMAIN args : args[n] # INT_MIN
  /\ \A i \in Items : fmt[i + 1] = d =>
       /\ CharAt(fmt, i + 2) \notin Digits
       /\ CharAt(fmt, i + 2) = Percent =>
            LET n == Cardinality({j \in Items : j <= i + 2})
            IN IF fmt[i + 3] = d THEN args[n] < 0 ELSE args[n] \notin Digits

(***************************************************************************)
(* vsscanf inverts vprintf: with a format in which no digit follows a      *)
(* number, it stores what was printed, and both return the same count.     *)
(***************************************************************************)
ScanInvertsPrint ==
  pc = "end" /\ printed > 0 /\ Unambiguous => taken = args /\ scanned = printed

\* The functions that the wrappers are named for.
Meant ==
  [_exit |-> "sys_exit", fork |-> "sys_fork", read |-> "sys_read", write |-> "sys_write",
   wait |-> "sys_waitpid", execve |-> "sys_execve", shared_fork |-> "sys_shared_fork",
   s_putchar_ntimes |-> "sys_tty_putchar_ntimes", s_putchar |-> "sys_tty_putchar",
   print_with_color |-> "sys_print_with_color", lab_ouch |-> "sys_lab_ouch",
   lab_capitalize |-> "sys_lab_capitalize", lab_lower |-> "sys_lab_lower",
   lab_atoi |-> "sys_lab_atoi", lab_itoa |-> "sys_lab_itoa",
   lab_puts_at |-> "sys_lab_puts_at"]

(***************************************************************************)
(* A system call does what its wrapper is named for, and numbers survive   *)
(* it: lab_itoa gives a text of the number that lab_atoi read, whatever    *)
(* calls come between the two (prog2 prints both).                         *)
(***************************************************************************)
CallsAsNamed ==
  [][pc = "lab" =>
       LET w == call'[1]
       IN /\ call'[2] = Meant[w]
          /\ w = "lab_itoa" /\ num # INT_MIN => Decimal(buf') /\ katoi(buf') = num
          /\ w # "lab_itoa" /\ Decimal(buf) => katoi(buf') = katoi(buf)]_vars

(***************************************************************************)
(* execve loads the program that its path names: prog and a decimal number *)
(* from 1 to 9, with any leading zeros.  Any other number is refused, and  *)
(* any other name but one of another kind that the code takes for prog and *)
(* a number: katoi looks at no character it reads, and one that is no      *)
(* digit counts as the distance of its code from that of 0.  So "prog1/"   *)
(* runs prog9, and prog8 with a press of shift behind it prog5, where the  *)
(* shell means "No such command." (sh.c:44).  Only numbers that no int can *)
(* hold are left out.                                                      *)
(***************************************************************************)
ExecveRunsNamed ==
  pc = "execve" =>
    LET no == SubSeq(buf, 5, Len(buf))
    IN /\ ~IsPrefix(Prog, buf) => num = -1
       /\ IsPrefix(Prog, buf) /\ DecimalValue(no) \in Ints =>
            num = IF DecimalValue(no) \in 1 .. 9 THEN DecimalValue(no) ELSE -1

=============================================================================
