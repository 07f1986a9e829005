----------------------------- MODULE Tty_proofs -----------------------------
(***************************************************************************)
(* Proofs about Tty, for a screen of any size, every line length that      *)
(* leaves the line one row of the screen, and any set of characters: the   *)
(* echo of tty_read is the line in its buffer, and editing keeps what      *)
(* comes before it.  Rows are multiples of a width that is not known, so   *)
(* the facts about offsets come first.                                     *)
(***************************************************************************)
EXTENDS Tty, Remainders, SequenceTheorems

Place == tty_getoffset(tty_x, tty_y)

-----------------------------------------------------------------------------
(* Offsets                                                                 *)

LEMMA Screen ==
  /\ VGA_WIDTH \in Nat \ {0, 1} /\ VGA_HEIGHT \in Nat \ {0, 1}
  /\ last_row_offset \in Nat \ {0} /\ VGA_WIDTH * VGA_HEIGHT = last_row_offset + VGA_WIDTH
  /\ Corner = last_row_offset + VGA_WIDTH - 1 /\ Corner \in Offset
  /\ LEN \in Nat \ {0} /\ LEN <= last_row_offset
<1> DEFINE w == VGA_WIDTH
           h == VGA_HEIGHT
<1>1. w \in Nat \ {0, 1} /\ h \in Nat \ {0, 1} /\ LEN \in Nat \ {0} /\ LEN <= w * (h - 1)
  BY TtyAssumption
<1> HIDE DEF w, h
<1>2. (h - 1) * w = w * (h - 1) /\ w * h = (h - 1) * w + w /\ (h - 1) * w \in Nat
  BY <1>1
<1>3. (h - 1) * w # 0
  BY <1>1
<1> QED BY <1>1, <1>2, <1>3 DEF last_row_offset, Corner, tty_getoffset, Offset, w, h

\* Rows follow one another.
LEMMA Rows ==
  ASSUME NEW x \in 0 .. VGA_WIDTH - 1, NEW y \in 0 .. VGA_HEIGHT
  PROVE  /\ tty_getoffset(x, y) \in Nat
         /\ tty_getoffset(0, y + 1) = tty_getoffset(VGA_WIDTH - 1, y) + 1
         /\ tty_getoffset(VGA_WIDTH - 1, y - 1) = tty_getoffset(0, y) - 1
         /\ tty_getoffset(x, y - 1) = tty_getoffset(x, y) - VGA_WIDTH
         /\ tty_getoffset(x, VGA_HEIGHT) = VGA_WIDTH * VGA_HEIGHT + x
         /\ y < VGA_HEIGHT => tty_getoffset(x, y) \in Offset
         /\ tty_getoffset(x, y) = 0 => x = 0 /\ y = 0
         /\ tty_getoffset(0, 0) = 0
<1> DEFINE w == VGA_WIDTH
           h == VGA_HEIGHT
<1>1. w \in Nat \ {0, 1} /\ h \in Nat \ {0, 1} /\ x \in 0 .. w - 1 /\ y \in 0 .. h
  BY TtyAssumption
<1> HIDE DEF w, h
<1>2. /\ y * w \in Nat /\ h * w = w * h
      /\ (y + 1) * w = y * w + w /\ (y - 1) * w = y * w - w
  BY <1>1
<1>3. y # 0 => y * w >= w
  BY <1>1
<1>4. y < h => y * w + w <= h * w
  <2> SUFFICES ASSUME y < h PROVE w * y + w <= w * h
    BY <1>1
  <2>1. y \in Int /\ h \in Int /\ w \in Nat
    BY <1>1
  <2> QED BY <2>1, Multiples
<1>5. w * h \in Nat /\ 0 * w = 0
  BY <1>1
<1> QED BY <1>1, <1>2, <1>3, <1>4, <1>5 DEF tty_getoffset, Offset, w, h

\* The animation is in the last column.
LEMMA LastColumn ==
  /\ Corner % VGA_WIDTH = VGA_WIDTH - 1
  /\ \A o \in Int : (o - VGA_WIDTH) % VGA_WIDTH = o % VGA_WIDTH
<1> DEFINE w == VGA_WIDTH
<1>1. w \in Nat \ {0} /\ VGA_HEIGHT - 1 \in Int /\ w - 1 \in 0 .. w - 1 /\ -1 \in Int
  BY TtyAssumption
<1>2. Corner = w * (VGA_HEIGHT - 1) + (w - 1)
  BY <1>1 DEF Corner, tty_getoffset
<1>3. (w * (VGA_HEIGHT - 1) + (w - 1)) % w = w - 1
  <2> HIDE DEF w
  <2> QED BY <1>1, Remainder
<1>4. ASSUME NEW o \in Int PROVE (o - w) % w = o % w
  <2> HIDE DEF w
  <2>1. (o + w * (-1)) % w = o % w
    BY <1>1, AddMultiple
  <2>2. o + w * (-1) = o - w
    BY <1>1
  <2> QED BY <2>1, <2>2
<1> QED BY <1>2, <1>3, <1>4
-----------------------------------------------------------------------------
(***************************************************************************)
(* What the echo rests on.                                                 *)
(***************************************************************************)

\* The first n characters of the line are on the screen, d cells further up
\* than start says, but for a mark of the animation.
Shown(n, d) ==
  \A k \in 1 .. n :
    LET o == start - d + k - 1
    IN \/ screen[o] = make_vgaentry(buf[k], Grey)
       \/ o % VGA_WIDTH = VGA_WIDTH - 1 /\ screen[o] = make_vgaentry("animation", White)

\* A colour other than the terminal's own lasts as long as one system call.
OwnColor ==
  /\ pc = "write" => ori_color = Grey
  /\ pc # "write" => tty_color = Grey

\* The cursor shows the place, but in the middle of a scroll.
CursorShown == pc \notin {"copy", "clear"} => cursor = Place

WaitsForKey == Place = start + Len(buf) /\ Shown(Len(buf), 0)

\* Between the change of the buffer and the echo of it.
Echoes ==
  IF c = "nl" THEN Place = start + Len(buf)
  ELSE IF c = "bs" THEN Place = start + Len(buf) + 1 /\ Shown(Len(buf), 0)
  ELSE /\ buf # <<>> /\ buf[Len(buf)] = c
       /\ Place = start + Len(buf) - 1 /\ Shown(Len(buf) - 1, 0)

\* In the middle of a scroll, the line ends where the screen does.
InScroll(d) ==
  /\ tty_x = 0 /\ tty_y = VGA_HEIGHT /\ c # "bs"
  /\ c # "nl" => Place = start + Len(buf) /\ Shown(Len(buf), d)

EchoInv ==
  /\ TypeOK /\ OwnColor /\ CursorShown
  /\ pc = "key" => WaitsForKey
  /\ pc = "put" => Echoes
  /\ pc = "copy" => InScroll(0)
  /\ pc = "clear" => InScroll(VGA_WIDTH)
-----------------------------------------------------------------------------
(* What the functions of the terminal do to a terminal of the right type.  *)

TerminalType == [screen : [Offset -> Entry], x : 0 .. VGA_WIDTH - 1, y : 0 .. VGA_HEIGHT]

Echoed == Char \cup {" ", "$", Special}

PlaceIn(t) == tty_getoffset(t.x, t.y)

LEMMA Entries ==
  ASSUME NEW ch \in Glyph, NEW color \in Color
  PROVE  make_vgaentry(ch, color) \in Entry
BY DEF Entry

LEMMA StoreCharacter ==
  ASSUME NEW t \in TerminalType, t.y < VGA_HEIGHT, tty_color \in Color,
         NEW ch \in Echoed
  PROVE  /\ Store(t, ch) \in TerminalType
         /\ Store(t, ch).screen = [t.screen EXCEPT ![PlaceIn(t)] = make_vgaentry(ch, tty_color)]
         /\ PlaceIn(Store(t, ch)) = PlaceIn(t) + 1
         /\ Store(t, ch).y = VGA_HEIGHT => Store(t, ch).x = 0
<1> DEFINE s == Store(t, ch)
<1>1. ch \notin {"bs", "nl", "cr"}
  BY TtyAssumption DEF Echoed, Special
<1>2. s = [Forward(t) EXCEPT !.screen = [t.screen EXCEPT ![PlaceIn(t)] = make_vgaentry(ch, tty_color)]]
  BY <1>1 DEF Store, tty_put_entry_at, PlaceIn
<1>3. /\ t.x \in 0 .. VGA_WIDTH - 1 /\ t.y \in 0 .. VGA_HEIGHT - 1 /\ t.y \in 0 .. VGA_HEIGHT
      /\ t.screen \in [Offset -> Entry]
      /\ VGA_WIDTH \in Nat \ {0, 1} /\ VGA_HEIGHT \in Nat \ {0, 1}
  BY Screen DEF TerminalType
<1>4. PlaceIn(t) \in Offset /\ make_vgaentry(ch, tty_color) \in Entry
  <2>1. PlaceIn(t) \in Offset
    BY <1>3, Rows DEF PlaceIn
  <2> QED BY <2>1, Entries DEF Echoed, Glyph
<1> DEFINE e == [t.screen EXCEPT ![PlaceIn(t)] = make_vgaentry(ch, tty_color)]
           f == Forward(t)
<1>e. e \in [Offset -> Entry]
  BY <1>3, <1>4
<1> HIDE DEF e
<1>5. /\ f \in TerminalType /\ tty_getoffset(f.x, f.y) = PlaceIn(t) + 1
      /\ f.y = VGA_HEIGHT => f.x = 0
  <2>1. CASE t.x + 1 = VGA_WIDTH
    <3>1. t.x = VGA_WIDTH - 1 /\ t.y + 1 \in 0 .. VGA_HEIGHT /\ 0 \in 0 .. VGA_WIDTH - 1
      BY <1>3, <2>1
    <3>2. f.x = 0 /\ f.y = t.y + 1 /\ f \in TerminalType
      BY <2>1, <3>1 DEF Forward, TerminalType
    <3>3. tty_getoffset(0, t.y + 1) = tty_getoffset(VGA_WIDTH - 1, t.y) + 1
      BY <1>3, Rows
    <3> QED BY <3>1, <3>2, <3>3 DEF PlaceIn
  <2>2. CASE t.x + 1 # VGA_WIDTH
    <3>1. t.x + 1 \in 0 .. VGA_WIDTH - 1
      BY <1>3, <2>2
    <3>2. f.x = t.x + 1 /\ f.y = t.y /\ f \in TerminalType
      BY <2>2, <3>1 DEF Forward, TerminalType
    <3>3. tty_getoffset(t.x + 1, t.y) = tty_getoffset(t.x, t.y) + 1
      <4>1. t.y * VGA_WIDTH \in Nat
        BY <1>3
      <4> QED BY <1>3, <4>1 DEF tty_getoffset
    <3> QED BY <1>3, <3>2, <3>3 DEF PlaceIn
  <2> QED BY <2>1, <2>2
<1> HIDE DEF f
<1>6. s = [f EXCEPT !.screen = e]
  BY <1>2 DEF e, f
<1>7. s \in TerminalType /\ s.screen = e /\ s.x = f.x /\ s.y = f.y
  BY <1>e, <1>5, <1>6 DEF TerminalType
<1> QED BY <1>5, <1>7 DEF PlaceIn, e

LEMMA StoreControl ==
  ASSUME NEW t \in TerminalType, t.y < VGA_HEIGHT
  PROVE  /\ Store(t, "nl") = [t EXCEPT !.x = 0, !.y = t.y + 1] /\ Store(t, "nl") \in TerminalType
         /\ Store(t, "cr") = [t EXCEPT !.x = 0] /\ Store(t, "cr") \in TerminalType
<1>1. t.y + 1 \in 0 .. VGA_HEIGHT /\ 0 \in 0 .. VGA_WIDTH - 1
  BY Screen DEF TerminalType
<1> QED BY <1>1 DEF Store, TerminalType

LEMMA StoreBackspace ==
  ASSUME NEW t \in TerminalType, t.y < VGA_HEIGHT, tty_color \in Color,
         PlaceIn(t) # 0
  PROVE  /\ Store(t, "bs") \in TerminalType /\ Store(t, "bs").y < VGA_HEIGHT
         /\ Store(t, "bs").screen = [t.screen EXCEPT ![PlaceIn(t) - 1] = make_vgaentry(" ", tty_color)]
         /\ PlaceIn(Store(t, "bs")) = PlaceIn(t) - 1
<1> DEFINE s == Store(t, "bs")
           b == Back(t)
<1>1. /\ t.x \in 0 .. VGA_WIDTH - 1 /\ t.y \in 0 .. VGA_HEIGHT - 1 /\ t.y \in 0 .. VGA_HEIGHT
      /\ t.screen \in [Offset -> Entry]
      /\ VGA_WIDTH \in Nat \ {0, 1} /\ VGA_HEIGHT \in Nat \ {0, 1}
  BY Screen DEF TerminalType
<1>2. t.x + t.y # 0
  <2>1. t.x + t.y = 0 => t.x = 0 /\ t.y = 0
    BY <1>1
  <2>2. tty_getoffset(0, 0) = 0
    BY <1>1, Rows
  <2> QED BY <2>1, <2>2 DEF PlaceIn
<1>3. s = [b EXCEPT !.screen = [t.screen EXCEPT ![PlaceIn(b)] = make_vgaentry(" ", tty_color)]]
  BY <1>2 DEF Store, tty_put_entry_at, PlaceIn
<1>4. /\ b \in TerminalType /\ b.y < VGA_HEIGHT
      /\ PlaceIn(b) = PlaceIn(t) - 1 /\ PlaceIn(b) \in Offset
  <2>1. CASE t.x = 0
    <3>0. VGA_WIDTH - 1 \in 0 .. VGA_WIDTH - 1 /\ t.y - 1 \in 0 .. VGA_HEIGHT
          /\ t.y - 1 < VGA_HEIGHT
      BY <1>1, <1>2, <2>1
    <3>1. b.x = VGA_WIDTH - 1 /\ b.y = t.y - 1 /\ b \in TerminalType /\ b.y < VGA_HEIGHT
      BY <1>1, <2>1, <3>0 DEF Back, TerminalType
    <3>2. tty_getoffset(VGA_WIDTH - 1, t.y - 1) = tty_getoffset(0, t.y) - 1
      BY <1>1, Rows
    <3>3. tty_getoffset(VGA_WIDTH - 1, t.y - 1) \in Offset
      <4>1. VGA_WIDTH - 1 \in 0 .. VGA_WIDTH - 1 /\ t.y - 1 \in 0 .. VGA_HEIGHT /\ t.y - 1 < VGA_HEIGHT
        BY <1>1, <1>2, <2>1
      <4> QED BY <4>1, Rows
    <3> QED BY <2>1, <3>1, <3>2, <3>3 DEF PlaceIn
  <2>2. CASE t.x # 0
    <3>1. b.x = t.x - 1 /\ b.y = t.y /\ b \in TerminalType /\ b.y < VGA_HEIGHT
      BY <1>1, <2>2 DEF Back, TerminalType
    <3>2. tty_getoffset(t.x - 1, t.y) = tty_getoffset(t.x, t.y) - 1
      <4>1. t.y * VGA_WIDTH \in Nat
        BY <1>1
      <4> QED BY <1>1, <4>1 DEF tty_getoffset
    <3>3. tty_getoffset(t.x - 1, t.y) \in Offset
      <4>1. t.x - 1 \in 0 .. VGA_WIDTH - 1
        BY <1>1, <2>2
      <4> QED BY <1>1, <4>1, Rows
    <3> QED BY <3>1, <3>2, <3>3 DEF PlaceIn
  <2> QED BY <2>1, <2>2
<1>5. make_vgaentry(" ", tty_color) \in Entry
  BY Entries DEF Glyph
<1> HIDE DEF b, s
<1>6. s \in TerminalType /\ s.x = b.x /\ s.y = b.y
      /\ s.screen = [t.screen EXCEPT ![PlaceIn(b)] = make_vgaentry(" ", tty_color)]
  <2> DEFINE cleared == [t.screen EXCEPT ![PlaceIn(b)] = make_vgaentry(" ", tty_color)]
  <2>1. cleared \in [Offset -> Entry]
    BY <1>5 DEF TerminalType
  <2>2. s = [b EXCEPT !.screen = cleared] /\ b \in TerminalType
    BY <1>3, <1>4
  <2> HIDE DEF cleared
  <2>3. s \in TerminalType /\ s.x = b.x /\ s.y = b.y /\ s.screen = cleared
    BY <2>1, <2>2 DEF TerminalType
  <2> QED BY <2>3 DEF cleared
<1> QED BY <1>4, <1>6 DEF PlaceIn, s

\* The two halves of a scroll.
LEMMA Scroll ==
  ASSUME NEW t \in TerminalType, t.y = VGA_HEIGHT, tty_color \in Color
  PROVE  /\ CopyUp(t) \in TerminalType /\ CopyUp(t).x = t.x /\ CopyUp(t).y = t.y
         /\ \A o \in Offset : o < last_row_offset =>
              CopyUp(t).screen[o] = t.screen[o + VGA_WIDTH]
         /\ ClearLastRow(t) \in TerminalType
         /\ ClearLastRow(t).x = t.x /\ ClearLastRow(t).y = VGA_HEIGHT - 1
         /\ \A o \in Offset : o < last_row_offset => ClearLastRow(t).screen[o] = t.screen[o]
<1>1. \A o \in Offset : o < last_row_offset => o + VGA_WIDTH \in Offset
  BY Screen DEF Offset
<1>2. make_vgaentry(" ", tty_color) \in Entry
  BY Entries DEF Glyph
<1>3. VGA_HEIGHT - 1 \in 0 .. VGA_HEIGHT
  BY Screen
<1> QED BY <1>1, <1>2, <1>3 DEF CopyUp, ClearLastRow, TerminalType
-----------------------------------------------------------------------------
(* Consequences of the invariant.                                          *)

LEMMA OnScreen ==
  ASSUME EchoInv
  PROVE  /\ Terminal \in TerminalType /\ PlaceIn(Terminal) = Place /\ Place \in Nat
         /\ pc \notin {"copy", "clear"} =>
              tty_y \in 0 .. VGA_HEIGHT - 1 /\ tty_y < VGA_HEIGHT /\ Place \in Offset
         /\ start \in Nat /\ Len(buf) \in Nat
<1>1. /\ tty_x \in 0 .. VGA_WIDTH - 1 /\ tty_y \in 0 .. VGA_HEIGHT
      /\ pc \notin {"copy", "clear"} => tty_y \in 0 .. VGA_HEIGHT - 1 /\ tty_y < VGA_HEIGHT
  <2>1. /\ tty_x \in 0 .. VGA_WIDTH - 1 /\ tty_y \in 0 .. VGA_HEIGHT
        /\ pc \notin {"copy", "clear"} => tty_y < VGA_HEIGHT
    BY DEF EchoInv, TypeOK
  <2>2. VGA_HEIGHT \in Nat
    BY Screen
  <2> QED BY <2>1, <2>2
<1>2. Terminal \in TerminalType
  BY <1>1 DEF EchoInv, TypeOK, Terminal, TerminalType
<1>3. Place \in Nat /\ (pc \notin {"copy", "clear"} => Place \in Offset)
  BY <1>1, Rows DEF Place
<1>4. start \in Nat /\ Len(buf) \in Nat
  <2>1. start \in Offset /\ buf \in Seq(Char \cup {Special})
    BY DEF EchoInv, TypeOK
  <2>2. \A o \in Offset : o \in Nat
    BY Screen DEF Offset
  <2> QED BY <2>1, <2>2
<1> QED BY <1>1, <1>2, <1>3, <1>4 DEF PlaceIn, Place, Terminal

\* Where the cells of the line are.
LEMMA Cells ==
  ASSUME EchoInv
  PROVE  /\ pc = "key" =>
              \A k \in 1 .. Len(buf) : start + k - 1 \in Offset /\ start + k - 1 < Place
         /\ pc = "put" /\ c = "bs" =>
              \A k \in 1 .. Len(buf) : start + k - 1 \in Offset /\ start + k - 1 < Place - 1
         /\ pc = "put" /\ c \notin {"nl", "bs"} =>
              \A k \in 1 .. Len(buf) :
                start + k - 1 \in Offset /\ (k < Len(buf) => start + k - 1 < Place)
         /\ pc \in {"copy", "clear"} /\ c # "nl" =>
              /\ start >= VGA_WIDTH
              /\ \A k \in 1 .. Len(buf) :
                   /\ start + k - 1 \in Offset
                   /\ start - VGA_WIDTH + k - 1 \in Offset
                   /\ start - VGA_WIDTH + k - 1 < last_row_offset
<1>1. /\ start \in Nat /\ Len(buf) \in Nat /\ Place \in Nat /\ Len(buf) <= LEN
      /\ pc \notin {"copy", "clear"} => Place \in Offset
  BY OnScreen DEF EchoInv, TypeOK
<1>2. \A o \in Nat : o \in Offset <=> o < last_row_offset + VGA_WIDTH
  BY Screen DEF Offset
<1>3. CASE pc \in {"key", "put"}
  BY <1>1, <1>2, <1>3, Screen DEF EchoInv, WaitsForKey, Echoes
<1>4. CASE pc \in {"copy", "clear"} /\ c # "nl"
  <2>1. Place = start + Len(buf) /\ tty_x = 0 /\ tty_y = VGA_HEIGHT
    BY <1>4 DEF EchoInv, InScroll
  <2>2. tty_getoffset(0, VGA_HEIGHT) = VGA_WIDTH * VGA_HEIGHT + 0
    <3>1. 0 \in 0 .. VGA_WIDTH - 1 /\ VGA_HEIGHT \in 0 .. VGA_HEIGHT
      BY Screen
    <3> QED BY <3>1, Rows
  <2>3. start + Len(buf) = last_row_offset + VGA_WIDTH
    BY <2>1, <2>2, Screen DEF Place
  <2> QED BY <1>1, <1>2, <1>4, <2>3, Screen
<1> QED BY <1>3, <1>4

\* A step that leaves the cells of the line alone.
LEMMA LineUnchanged ==
  ASSUME UNCHANGED <<buf, start>>, Shown(Len(buf), 0), start \in Nat,
         \A k \in 1 .. Len(buf) : screen'[start + k - 1] = screen[start + k - 1]
  PROVE  Shown(Len(buf), 0)'
<1>1. \A k \in 1 .. Len(buf) : start - 0 + k - 1 = start + k - 1
  OBVIOUS
<1> QED BY <1>1 DEF Shown

-----------------------------------------------------------------------------
(* The invariant holds initially and each action preserves it.             *)

LEMMA EchoInit == Init => EchoInv
<1> SUFFICES ASSUME Init PROVE EchoInv
  OBVIOUS
<1>1. 0 \in 0 .. VGA_WIDTH - 1 /\ 0 \in 0 .. VGA_HEIGHT - 1 /\ 0 \in Offset /\ LEN >= 0
  BY Screen DEF Offset
<1>2. make_vgaentry(" ", Grey) \in Entry
  BY Entries DEF Glyph, Color
<1>3. <<>> \in Seq(Char \cup {Special}) /\ Len(<<>>) = 0
  OBVIOUS
<1>4. TypeOK
  <2>1. VGA_WIDTH \in Nat /\ VGA_HEIGHT \in Nat /\ 0 < VGA_HEIGHT /\ 0 \in 0 .. VGA_HEIGHT
    BY Screen
  <2> QED BY <1>1, <1>2, <1>3, <2>1 DEF Init, TypeOK, Color
<1>5. Place = 0
  <2>1. 0 \in 0 .. VGA_HEIGHT
    BY Screen
  <2> QED BY <1>1, <2>1, Rows DEF Init, Place
<1> QED BY <1>4, <1>5 DEF Init, EchoInv, OwnColor, CursorShown

LEMMA WriteEcho ==
  ASSUME EchoInv, WriteBegins \/ WriteChar \/ WriteEnds \/ tty_writestring_at
  PROVE  EchoInv'
<1>1. CASE WriteBegins \/ WriteEnds
  BY <1>1 DEF WriteBegins, WriteEnds, EchoInv, TypeOK, OwnColor, CursorShown, Place, Color
<1>2. CASE tty_writestring_at
  <2>1. make_vgaentry("$", White) \in Entry
    BY Entries DEF Glyph, Color
  <2> QED
    BY <1>2, <2>1
    DEF tty_writestring_at, EchoInv, TypeOK, OwnColor, CursorShown, Place
<1>3. CASE WriteChar
  <2>1. PICK ch \in {"$", "nl", "cr"} : SetTerminal(tty_putchar(Terminal, ch))
    BY <1>3 DEF WriteChar
  <2> DEFINE s == Store(Terminal, ch)
             t == tty_putchar(Terminal, ch)
  <2>2. /\ Terminal \in TerminalType /\ Terminal.y < VGA_HEIGHT /\ tty_color \in Color
        /\ pc = "write" /\ Terminal.y \in 0 .. VGA_HEIGHT - 1
    BY <1>3, OnScreen DEF WriteChar, EchoInv, TypeOK, Terminal
  <2>3. s \in TerminalType
    BY <2>2, StoreCharacter, StoreControl DEF Echoed
  <2> HIDE DEF s
  <2>4. s.y \in 0 .. VGA_HEIGHT
    BY <2>3 DEF TerminalType
  <2>5. t \in TerminalType /\ t.y < VGA_HEIGHT
    <3>1. CASE Scrolls(s)
      <4>1. s.y = VGA_HEIGHT
        BY <2>4, <3>1, Screen DEF Scrolls
      <4> DEFINE u == CopyUp(s)
      <4>2. u \in TerminalType /\ u.y = VGA_HEIGHT
        BY <2>2, <2>3, <4>1, Scroll
      <4>3. t = ClearLastRow(u)
        BY <3>1 DEF tty_putchar, s
      <4> HIDE DEF u, t
      <4> QED BY <2>2, <4>2, <4>3, Scroll, Screen
    <3>2. CASE ~Scrolls(s)
      <4>1. t = s
        BY <3>2 DEF tty_putchar, s
      <4> QED BY <2>3, <2>4, <3>2, <4>1, Screen DEF Scrolls
    <3> QED BY <3>1, <3>2
  <2> HIDE DEF t
  <2>6. /\ screen' \in [Offset -> Entry] /\ tty_x' \in 0 .. VGA_WIDTH - 1
        /\ tty_y' \in 0 .. VGA_HEIGHT /\ tty_y' \in 0 .. VGA_HEIGHT - 1 /\ tty_y' < VGA_HEIGHT
    BY <2>1, <2>5, Screen DEF SetTerminal, TerminalType, t
  <2>7. cursor' = Place' /\ cursor' \in Offset
    BY <1>3, <2>6, Rows DEF WriteChar, tty_updatecursor, Place
  <2> QED
    BY <1>3, <2>1, <2>6, <2>7
    DEF WriteChar, SetTerminal, EchoInv, TypeOK, OwnColor, CursorShown
<1> QED BY <1>1, <1>2, <1>3
LEMMA ReadEcho ==
  ASSUME EchoInv, tty_read \/ LineFull
  PROVE  EchoInv'
<1>1. Place \in Nat /\ (pc = "idle" => Place \in Offset) /\ LEN \in Nat
  BY OnScreen, Screen
<1>2. CASE tty_read
  <2>1. <<>> \in Seq(Char \cup {Special}) /\ Len(<<>>) = 0
    OBVIOUS
  <2>2. /\ pc = "idle" /\ pc' = "key" /\ buf' = <<>> /\ start' = Place
        /\ UNCHANGED <<screen, tty_x, tty_y, tty_color, cursor, ori_color, c>>
    BY <1>2 DEF tty_read, termVars, Place
  <2>3. Place' = Place
    BY <2>2 DEF Place
  <2>4. TypeOK'
    <3>1. /\ buf' \in Seq(Char \cup {Special}) /\ Len(buf') <= LEN /\ start' \in Offset
      BY <1>1, <2>1, <2>2, Screen
    <3>2. tty_y < VGA_HEIGHT
      BY <2>2 DEF EchoInv, TypeOK
    <3> QED BY <2>2, <3>1, <3>2 DEF EchoInv, TypeOK
  <2>5. OwnColor' /\ CursorShown'
    BY <2>2, <2>3 DEF EchoInv, OwnColor, CursorShown
  <2>6. WaitsForKey'
    BY <1>1, <2>1, <2>2, <2>3 DEF WaitsForKey, Shown
  <2> QED BY <2>2, <2>4, <2>5, <2>6 DEF EchoInv
<1>3. CASE LineFull
  BY <1>3 DEF LineFull, termVars, EchoInv, TypeOK, OwnColor, CursorShown, Place
<1> QED BY <1>2, <1>3

\* A key changes the buffer, and says what is to be echoed.
LEMMA KeyEcho ==
  ASSUME EchoInv, GetKey
  PROVE  EchoInv'
<1>1. PICK k \in Keys : Edit(k)
  BY DEF GetKey
<1>2. /\ pc = "key" /\ pc' = "put" /\ Len(buf) # LEN
      /\ UNCHANGED <<screen, tty_x, tty_y, tty_color, cursor, ori_color, start>>
  BY DEF GetKey, termVars
<1>3. /\ buf \in Seq(Char \cup {Special}) /\ Len(buf) \in Nat /\ Len(buf) <= LEN /\ LEN \in Nat
      /\ Place = start + Len(buf) /\ Shown(Len(buf), 0) /\ start \in Nat
  BY <1>2, OnScreen, Screen DEF EchoInv, TypeOK, WaitsForKey
<1>4. Place' = Place
  BY <1>2 DEF Place
<1>5. /\ buf' \in Seq(Char \cup {Special}) /\ Len(buf') <= LEN
      /\ c' \in Char \cup {"bs", "nl", Special}
      /\ Echoes'
  <2>1. CASE k = "KB_ENTER"
    BY <1>1, <1>3, <1>4, <1>2, <2>1 DEF Edit, Echoes
  <2>2. CASE k = "KB_BACKSPACE"
    <3>1. buf # <<>> /\ c' = "bs" /\ buf' = SubSeq(buf, 1, Len(buf) - 1)
      BY <1>1, <2>2 DEF Edit
    <3>2. Len(buf) >= 1
      BY <1>3, <3>1
    <3>3. /\ buf' \in Seq(Char \cup {Special}) /\ Len(buf') = Len(buf) - 1
          /\ \A j \in 1 .. Len(buf') : buf'[j] = buf[j]
      <4>1. /\ 1 \in Int /\ Len(buf) - 1 \in Int
            /\ \A j \in 1 .. Len(buf) - 1 : buf[j] \in Char \cup {Special}
        BY <1>3, <3>2
      <4>2. /\ buf' \in Seq(Char \cup {Special})
            /\ Len(buf') = IF 1 <= Len(buf) - 1 THEN Len(buf) - 1 - 1 + 1 ELSE 0
            /\ \A j \in 1 .. Len(buf) - 1 - 1 + 1 : buf'[j] = buf[1 + j - 1]
        BY <3>1, <4>1, SubSeqProperties
      <4>3. Len(buf') = Len(buf) - 1
        <5>1. ASSUME NEW n \in Nat, n >= 1
              PROVE  (IF 1 <= n - 1 THEN n - 1 - 1 + 1 ELSE 0) = n - 1
          BY <5>1
        <5> QED BY <1>3, <3>2, <4>2, <5>1
      <4>4. ASSUME NEW j \in 1 .. Len(buf') PROVE buf'[j] = buf[j]
        <5>1. j \in 1 .. Len(buf) - 1 - 1 + 1 /\ 1 + j - 1 = j
          BY <1>3, <4>3
        <5> QED BY <4>2, <5>1
      <4> QED BY <4>2, <4>3, <4>4
    <3>4. Place' = start' + Len(buf') + 1
      BY <1>2, <1>3, <1>4, <3>3
    <3>5. Shown(Len(buf), 0)'
      BY <1>2, <1>3, <3>3 DEF Shown
    <3> QED BY <1>3, <3>1, <3>3, <3>4, <3>5 DEF Echoes
  <2>3. CASE k \notin {"KB_ENTER", "KB_BACKSPACE"}
    <3>1. c' \in Char \cup {Special} /\ buf' = Append(buf, c')
      BY <1>1, <2>3 DEF Edit
    <3>2. c' \notin {"nl", "bs"}
      BY <3>1, TtyAssumption DEF Special
    <3>3. /\ buf' \in Seq(Char \cup {Special}) /\ Len(buf') = Len(buf) + 1
          /\ buf' # <<>> /\ buf'[Len(buf')] = c'
          /\ \A j \in 1 .. Len(buf) : buf'[j] = buf[j]
      BY <1>3, <3>1
    <3>4. Place' = start' + Len(buf') - 1
      BY <1>2, <1>3, <1>4, <3>3
    <3>5. Shown(Len(buf) - 1, 0)'
      BY <1>2, <1>3, <3>3 DEF Shown
    <3>6. Len(buf') <= LEN
      BY <1>2, <1>3, <3>3
    <3> QED BY <3>1, <3>2, <3>3, <3>4, <3>5, <3>6 DEF Echoes
  <2> QED BY <2>1, <2>2, <2>3
<1>6. TypeOK'
  BY <1>2, <1>5 DEF EchoInv, TypeOK
<1>7. OwnColor' /\ CursorShown'
  BY <1>2, <1>4 DEF EchoInv, OwnColor, CursorShown
<1> QED BY <1>2, <1>5, <1>6, <1>7 DEF EchoInv
\* The echo: the character is stored, and the place moves after it.
LEMMA PutEcho ==
  ASSUME EchoInv, Put
  PROVE  EchoInv'
<1> DEFINE s == Store(Terminal, c)
<1>1. /\ pc = "put" /\ SetTerminal(s)
      /\ IF Scrolls(s) THEN pc' = "copy" /\ UNCHANGED cursor
                       ELSE pc' = AfterEcho /\ tty_updatecursor
      /\ UNCHANGED <<ori_color, c, buf, start>>
  BY DEF Put
<1>2. /\ Terminal \in TerminalType /\ Terminal.y < VGA_HEIGHT /\ PlaceIn(Terminal) = Place
      /\ Terminal.y = tty_y /\ tty_y \in 0 .. VGA_HEIGHT - 1 /\ Terminal.screen = screen
      /\ tty_color = Grey /\ tty_color \in Color /\ screen \in [Offset -> Entry]
      /\ c \in Char \cup {" ", "bs", "nl", Special} /\ Echoes
  BY <1>1, OnScreen DEF EchoInv, TypeOK, OwnColor, Terminal
<1>n. start \in Nat /\ Len(buf) \in Nat /\ Place \in Nat
  BY OnScreen
<1>3. c = "bs" => Place # 0
  BY <1>n, <1>2 DEF Echoes
<1>4. s \in TerminalType /\ (s.y = VGA_HEIGHT => s.x = 0)
  <2>1. CASE c = "nl"
    <3>1. s = [Terminal EXCEPT !.x = 0, !.y = Terminal.y + 1] /\ s \in TerminalType
      BY <1>2, <2>1, StoreControl
    <3> QED BY <1>2, <3>1 DEF TerminalType
  <2>2. CASE c = "bs"
    <3>1. s \in TerminalType /\ s.y < VGA_HEIGHT
      BY <1>2, <1>3, <2>2, StoreBackspace
    <3> HIDE DEF s
    <3>2. s.y # VGA_HEIGHT
      BY <3>1, Screen DEF TerminalType
    <3> QED BY <3>1, <3>2
  <2>3. CASE c \notin {"nl", "bs"}
    BY <1>2, <2>3, StoreCharacter DEF Echoed
  <2> QED BY <2>1, <2>2, <2>3
<1>5. /\ screen' = s.screen /\ tty_x' = s.x /\ tty_y' = s.y /\ tty_color' = tty_color
      /\ Place' = PlaceIn(s)
  BY <1>1 DEF SetTerminal, Place, PlaceIn
<1>6. /\ c # "nl" => Place' = start + Len(buf) /\ Shown(Len(buf), 0)'
      /\ c = "bs" => ~Scrolls(s)
  <2>1. CASE c = "bs"
    <3>1. /\ s.screen = [screen EXCEPT ![Place - 1] = make_vgaentry(" ", tty_color)]
          /\ PlaceIn(s) = Place - 1 /\ s.y < VGA_HEIGHT
      BY <1>2, <1>3, <2>1, StoreBackspace
    <3>2. Place = start + Len(buf) + 1 /\ Shown(Len(buf), 0)
      BY <1>2, <2>1 DEF Echoes
    <3>3. \A k \in 1 .. Len(buf) : start + k - 1 \in Offset /\ start + k - 1 < Place - 1
      BY <1>1, <2>1, Cells
    <3> HIDE DEF s
    <3>4. ~Scrolls(s)
      <4>1. s.y \in Nat /\ VGA_HEIGHT \in Nat
        BY <1>4, Screen DEF TerminalType
      <4>2. s.y < VGA_HEIGHT
        BY <3>1
      <4>3. ~(s.y >= VGA_HEIGHT)
        BY <4>1, <4>2
      <4> QED BY <4>3 DEF Scrolls
    <3>5. ASSUME NEW k \in 1 .. Len(buf)
          PROVE  screen'[start + k - 1] = screen[start + k - 1]
      <4>1. start + k - 1 \in Offset /\ start + k - 1 # Place - 1
        BY <1>n, <3>3
      <4>2. screen' = [screen EXCEPT ![Place - 1] = make_vgaentry(" ", tty_color)]
        BY <1>5, <3>1
      <4> QED BY <1>2, <4>1, <4>2
    <3>6. Shown(Len(buf), 0)'
      BY <1>1, <1>n, <3>2, <3>5, LineUnchanged
    <3>7. Place' = start + Len(buf)
      <4>1. Place - 1 = start + Len(buf)
        BY <1>n, <3>2
      <4> QED BY <1>5, <3>1, <4>1
    <3> QED BY <2>1, <3>4, <3>6, <3>7
  <2>2. CASE c \notin {"nl", "bs"}
    <3>1. /\ s.screen = [screen EXCEPT ![Place] = make_vgaentry(c, tty_color)]
          /\ PlaceIn(s) = Place + 1
      BY <1>2, <2>2, StoreCharacter DEF Echoed
    <3>2. /\ buf # <<>> /\ buf[Len(buf)] = c
          /\ Place = start + Len(buf) - 1 /\ Shown(Len(buf) - 1, 0)
      BY <1>2, <2>2 DEF Echoes
    <3>3. \A k \in 1 .. Len(buf) :
            start + k - 1 \in Offset /\ (k < Len(buf) => start + k - 1 < Place)
      BY <1>1, <2>2, Cells
    <3> HIDE DEF s
    <3>4. screen' = [screen EXCEPT ![Place] = make_vgaentry(c, tty_color)]
      BY <1>5, <3>1
    <3>5. ASSUME NEW k \in 1 .. Len(buf)
          PROVE  \/ screen'[start - 0 + k - 1] = make_vgaentry(buf[k], Grey)
                 \/ /\ (start - 0 + k - 1) % VGA_WIDTH = VGA_WIDTH - 1
                    /\ screen'[start - 0 + k - 1] = make_vgaentry("animation", White)
      <4>1. start - 0 + k - 1 = start + k - 1 /\ start + k - 1 \in Offset
        BY <1>n, <3>3
      <4>2. CASE k = Len(buf)
        <5>1. start + k - 1 = Place
          BY <1>n, <3>2, <4>2
        <5>2. screen'[start + k - 1] = make_vgaentry(c, tty_color)
          BY <1>2, <3>4, <4>1, <5>1
        <5> QED BY <1>2, <3>2, <4>1, <4>2, <5>2
      <4>3. CASE k # Len(buf)
        <5>1. k \in 1 .. Len(buf) - 1 /\ k < Len(buf)
          BY <1>n, <4>3
        <5>2. start + k - 1 # Place
          BY <1>n, <3>3, <5>1
        <5>3. screen'[start + k - 1] = screen[start + k - 1]
          BY <1>2, <3>4, <4>1, <5>2
        <5>4. \/ screen[start - 0 + k - 1] = make_vgaentry(buf[k], Grey)
              \/ /\ (start - 0 + k - 1) % VGA_WIDTH = VGA_WIDTH - 1
                 /\ screen[start - 0 + k - 1] = make_vgaentry("animation", White)
          BY <3>2, <5>1 DEF Shown
        <5> QED BY <4>1, <5>3, <5>4
      <4> QED BY <4>2, <4>3
    <3>6. Place' = start + Len(buf)
      BY <1>n, <1>5, <3>1, <3>2
    <3>7. Shown(Len(buf), 0)'
      BY <1>1, <3>5 DEF Shown
    <3> QED BY <2>2, <3>6, <3>7
  <2> QED BY <2>1, <2>2
<1> HIDE DEF s
<1>7. s.screen \in [Offset -> Entry] /\ s.x \in 0 .. VGA_WIDTH - 1 /\ s.y \in 0 .. VGA_HEIGHT
  BY <1>4 DEF TerminalType
<1>8. CASE Scrolls(s)
  <2>1. pc' = "copy" /\ cursor' = cursor /\ s.y = VGA_HEIGHT
    BY <1>1, <1>7, <1>8, Screen DEF Scrolls
  <2>2. TypeOK'
    BY <1>1, <1>5, <1>7, <2>1 DEF EchoInv, TypeOK
  <2>3. InScroll(0)'
    BY <1>1, <1>4, <1>5, <1>6, <1>8, <2>1 DEF InScroll
  <2> QED BY <1>1, <1>2, <1>5, <2>1, <2>2, <2>3 DEF EchoInv, OwnColor, CursorShown
<1>9. CASE ~Scrolls(s)
  <2>1. /\ pc' = IF c = "nl" THEN "idle" ELSE "key"
        /\ cursor' = Place' /\ s.y < VGA_HEIGHT /\ s.y \in 0 .. VGA_HEIGHT - 1
    BY <1>1, <1>7, <1>9, Screen DEF Scrolls, AfterEcho, tty_updatecursor, Place
  <2>2. Place' \in Offset
    BY <1>5, <1>7, <2>1, Rows DEF PlaceIn
  <2>3. TypeOK'
    BY <1>1, <1>5, <1>7, <2>1, <2>2 DEF EchoInv, TypeOK
  <2>4. pc' = "key" => WaitsForKey'
    BY <1>1, <1>6, <2>1 DEF WaitsForKey
  <2> QED BY <1>1, <1>2, <1>5, <2>1, <2>3, <2>4 DEF EchoInv, OwnColor, CursorShown
<1> QED BY <1>8, <1>9

\* The copy moves the line up by one row; start still says where it was.
LEMMA CopyEcho ==
  ASSUME EchoInv, ScrollCopy
  PROVE  EchoInv'
<1> DEFINE t == CopyUp(Terminal)
<1>1. /\ pc = "copy" /\ pc' = "clear" /\ SetTerminal(t)
      /\ UNCHANGED <<cursor, ori_color, c, buf, start>>
  BY DEF ScrollCopy
<1>2. /\ Terminal \in TerminalType /\ Terminal.screen = screen
      /\ Terminal.x = tty_x /\ Terminal.y = tty_y
      /\ start \in Nat /\ Len(buf) \in Nat
      /\ InScroll(0) /\ tty_color = Grey /\ tty_color \in Color
  BY <1>1, OnScreen DEF EchoInv, OwnColor, Terminal, Color
<1>3. Terminal.y = VGA_HEIGHT
  BY <1>2 DEF InScroll
<1>4. /\ t \in TerminalType /\ t.x = tty_x /\ t.y = tty_y
      /\ \A o \in Offset : o < last_row_offset => t.screen[o] = screen[o + VGA_WIDTH]
  BY <1>2, <1>3, Scroll
<1> HIDE DEF t
<1>5. /\ screen' = t.screen /\ screen' \in [Offset -> Entry]
      /\ tty_x' = tty_x /\ tty_y' = tty_y /\ tty_color' = tty_color
  BY <1>1, <1>4 DEF SetTerminal, TerminalType
<1>6. Place' = Place
  BY <1>5 DEF Place
<1>7. TypeOK'
  BY <1>1, <1>5 DEF EchoInv, TypeOK
<1>8. ASSUME c # "nl" PROVE Shown(Len(buf), VGA_WIDTH)'
  <2>1. \A k \in 1 .. Len(buf) :
          /\ start + k - 1 \in Offset
          /\ start - VGA_WIDTH + k - 1 \in Offset
          /\ start - VGA_WIDTH + k - 1 < last_row_offset
    BY <1>1, <1>8, Cells
  <2>2. ASSUME NEW k \in 1 .. Len(buf)
        PROVE  \/ screen'[start - VGA_WIDTH + k - 1] = make_vgaentry(buf[k], Grey)
               \/ /\ (start - VGA_WIDTH + k - 1) % VGA_WIDTH = VGA_WIDTH - 1
                  /\ screen'[start - VGA_WIDTH + k - 1] = make_vgaentry("animation", White)
    <3> DEFINE o == start - 0 + k - 1
               p == start - VGA_WIDTH + k - 1
    <3>1. o \in Int /\ p + VGA_WIDTH = o /\ o - VGA_WIDTH = p
      BY <1>2, Screen
    <3>2. \/ screen[o] = make_vgaentry(buf[k], Grey)
          \/ o % VGA_WIDTH = VGA_WIDTH - 1 /\ screen[o] = make_vgaentry("animation", White)
      BY <1>2, <1>8 DEF InScroll, Shown
    <3>3. p \in Offset /\ p < last_row_offset
      BY <2>1
    <3> HIDE DEF o, p
    <3>4. screen'[p] = screen[o]
      BY <1>4, <1>5, <3>1, <3>3
    <3>5. p % VGA_WIDTH = o % VGA_WIDTH
      BY <3>1, LastColumn
    <3>6. \/ screen'[p] = make_vgaentry(buf[k], Grey)
          \/ p % VGA_WIDTH = VGA_WIDTH - 1 /\ screen'[p] = make_vgaentry("animation", White)
      BY <3>2, <3>4, <3>5
    <3> QED BY <3>6 DEF p
  <2> QED BY <1>1, <2>2 DEF Shown
<1>9. InScroll(VGA_WIDTH)'
  BY <1>1, <1>2, <1>5, <1>6, <1>8 DEF InScroll
<1> QED BY <1>1, <1>2, <1>5, <1>7, <1>9 DEF EchoInv, OwnColor, CursorShown

\* The end of the scroll: start follows the line.
LEMMA ClearEcho ==
  ASSUME EchoInv, ScrollClear
  PROVE  EchoInv'
<1> DEFINE t == ClearLastRow(Terminal)
<1>1. /\ pc = "clear" /\ SetTerminal(t) /\ tty_updatecursor
      /\ pc' = IF c = "nl" THEN "idle" ELSE "key"
      /\ start' = IF start >= VGA_WIDTH THEN start - VGA_WIDTH ELSE 0
      /\ UNCHANGED <<ori_color, c, buf>>
  BY DEF ScrollClear, AfterEcho
<1>2. /\ Terminal \in TerminalType /\ Terminal.screen = screen
      /\ Terminal.x = tty_x /\ Terminal.y = tty_y
      /\ tty_x \in 0 .. VGA_WIDTH - 1 /\ tty_y \in 0 .. VGA_HEIGHT
      /\ start \in Nat /\ Len(buf) \in Nat /\ Place \in Nat
      /\ InScroll(VGA_WIDTH) /\ tty_color = Grey /\ tty_color \in Color
  BY <1>1, OnScreen DEF EchoInv, TypeOK, OwnColor, Terminal, Color
<1>3. Terminal.y = VGA_HEIGHT /\ tty_y = VGA_HEIGHT
  BY <1>2 DEF InScroll
<1>4. /\ t \in TerminalType /\ t.x = tty_x /\ t.y = VGA_HEIGHT - 1
      /\ \A o \in Offset : o < last_row_offset => t.screen[o] = screen[o]
  BY <1>2, <1>3, Scroll
<1> HIDE DEF t
<1>5. /\ screen' = t.screen /\ screen' \in [Offset -> Entry]
      /\ tty_x' = tty_x /\ tty_y' = VGA_HEIGHT - 1 /\ tty_color' = tty_color
  BY <1>1, <1>4 DEF SetTerminal, TerminalType
<1>6. /\ VGA_WIDTH \in Nat /\ VGA_HEIGHT \in Nat /\ VGA_HEIGHT - 1 \in 0 .. VGA_HEIGHT
      /\ VGA_HEIGHT - 1 < VGA_HEIGHT
  BY Screen
<1>7. cursor' = Place' /\ Place' = Place - VGA_WIDTH /\ Place' \in Offset
  <2>1. tty_getoffset(tty_x, VGA_HEIGHT - 1) = tty_getoffset(tty_x, VGA_HEIGHT) - VGA_WIDTH
    BY <1>2, <1>3, Rows
  <2>2. tty_getoffset(tty_x, VGA_HEIGHT - 1) \in Offset
    BY <1>2, <1>6, Rows
  <2> QED BY <1>1, <1>3, <1>5, <2>1, <2>2 DEF tty_updatecursor, Place
<1>8. start' \in Offset
  <2>1. \A o \in Nat : o \in Offset <=> o < last_row_offset + VGA_WIDTH
    BY Screen DEF Offset
  <2>2. start \in Offset /\ last_row_offset \in Nat \ {0}
    BY Screen DEF EchoInv, TypeOK
  <2> QED BY <1>1, <1>2, <1>6, <2>1, <2>2
<1>9. TypeOK'
  BY <1>1, <1>2, <1>5, <1>6, <1>7, <1>8 DEF EchoInv, TypeOK
<1>10. ASSUME c # "nl" PROVE WaitsForKey'
  <2>1. /\ start >= VGA_WIDTH
        /\ \A k \in 1 .. Len(buf) :
             /\ start - VGA_WIDTH + k - 1 \in Offset
             /\ start - VGA_WIDTH + k - 1 < last_row_offset
    BY <1>1, <1>10, Cells
  <2>2. start' = start - VGA_WIDTH
    BY <1>1, <2>1
  <2>3. Place = start + Len(buf) /\ Shown(Len(buf), VGA_WIDTH)
    BY <1>2, <1>10 DEF InScroll
  <2>4. Place' = start' + Len(buf')
    BY <1>1, <1>2, <1>6, <1>7, <2>2, <2>3
  <2>5. ASSUME NEW k \in 1 .. Len(buf)
        PROVE  \/ screen'[start' - 0 + k - 1] = make_vgaentry(buf[k], Grey)
               \/ /\ (start' - 0 + k - 1) % VGA_WIDTH = VGA_WIDTH - 1
                  /\ screen'[start' - 0 + k - 1] = make_vgaentry("animation", White)
    <3> DEFINE p == start - VGA_WIDTH + k - 1
    <3>1. start' - 0 + k - 1 = p
      BY <1>2, <1>6, <2>2
    <3>2. p \in Offset /\ p < last_row_offset
      BY <2>1
    <3>3. \/ screen[p] = make_vgaentry(buf[k], Grey)
          \/ p % VGA_WIDTH = VGA_WIDTH - 1 /\ screen[p] = make_vgaentry("animation", White)
      BY <2>3 DEF Shown
    <3> HIDE DEF p
    <3>4. screen'[p] = screen[p]
      BY <1>4, <1>5, <3>2
    <3> QED BY <3>1, <3>3, <3>4
  <2>6. Shown(Len(buf), 0)'
    BY <1>1, <2>5 DEF Shown
  <2> QED BY <1>1, <2>4, <2>6 DEF WaitsForKey
<1> QED BY <1>1, <1>2, <1>5, <1>7, <1>9, <1>10 DEF EchoInv, OwnColor, CursorShown

\* A mark of the animation is in the last column, wherever the line is.
LEMMA AnimationEcho ==
  ASSUME EchoInv, animation
  PROVE  EchoInv'
<1>1. /\ pc # "write" /\ screen' = [screen EXCEPT ![Corner] = make_vgaentry("animation", White)]
      /\ UNCHANGED <<tty_x, tty_y, tty_color, cursor, pc, ori_color, c, buf, start>>
  BY DEF animation
<1>2. make_vgaentry("animation", White) \in Entry
  BY DEF Entry
<1>3. TypeOK'
  BY <1>1, <1>2 DEF EchoInv, TypeOK
<1>4. Place' = Place
  BY <1>1 DEF Place
<1>5. screen \in [Offset -> Entry] /\ Corner \in Offset /\ Corner % VGA_WIDTH = VGA_WIDTH - 1
  BY Screen, LastColumn DEF EchoInv, TypeOK
<1>6. start \in Nat /\ Len(buf) \in Nat /\ VGA_WIDTH \in Nat
  BY OnScreen, Screen
<1>7. ASSUME NEW n \in Int, NEW d \in Int, Shown(n, d),
             NEW k \in 1 .. n, start - d + k - 1 \in Offset
      PROVE  \/ screen'[start - d + k - 1] = make_vgaentry(buf[k], Grey)
             \/ /\ (start - d + k - 1) % VGA_WIDTH = VGA_WIDTH - 1
                /\ screen'[start - d + k - 1] = make_vgaentry("animation", White)
  <2> DEFINE o == start - d + k - 1
  <2>1. o \in Offset
    BY <1>7
  <2>2. \/ screen[o] = make_vgaentry(buf[k], Grey)
        \/ o % VGA_WIDTH = VGA_WIDTH - 1 /\ screen[o] = make_vgaentry("animation", White)
    BY <1>7 DEF Shown
  <2> HIDE DEF o
  <2>3. \/ screen'[o] = make_vgaentry(buf[k], Grey)
        \/ o % VGA_WIDTH = VGA_WIDTH - 1 /\ screen'[o] = make_vgaentry("animation", White)
    BY <1>1, <1>5, <2>1, <2>2
  <2> QED BY <2>3 DEF o
<1>s. ASSUME NEW d \in {0, VGA_WIDTH}, Shown(Len(buf), d),
             \A k \in 1 .. Len(buf) : start - d + k - 1 \in Offset
      PROVE  Shown(Len(buf), d)'
  <2> DEFINE n == Len(buf)
  <2>1. n \in Int /\ d \in Int /\ Shown(n, d) /\ \A k \in 1 .. n : start - d + k - 1 \in Offset
    BY <1>6, <1>s
  <2> HIDE DEF n
  <2>2. \A k \in 1 .. n :
          \/ screen'[start - d + k - 1] = make_vgaentry(buf[k], Grey)
          \/ /\ (start - d + k - 1) % VGA_WIDTH = VGA_WIDTH - 1
             /\ screen'[start - d + k - 1] = make_vgaentry("animation", White)
    BY <1>7, <2>1
  <2> QED BY <1>1, <2>2 DEF Shown, n
<1>8. CASE pc \in {"idle", "write"}
  BY <1>1, <1>3, <1>4, <1>8 DEF EchoInv, OwnColor, CursorShown
<1>9. CASE pc = "key"
  <2>1. \A k \in 1 .. Len(buf) : start - 0 + k - 1 \in Offset
    <3>1. \A k \in 1 .. Len(buf) : start - 0 + k - 1 = start + k - 1
      BY <1>6
    <3> QED BY <1>9, <3>1, Cells
  <2>2. Shown(Len(buf), 0)'
    BY <1>s, <1>9, <2>1 DEF EchoInv, WaitsForKey
  <2> QED BY <1>1, <1>3, <1>4, <1>9, <2>2 DEF EchoInv, OwnColor, CursorShown, WaitsForKey
<1>10. CASE pc = "put"
  <2>1. c # "nl" => \A k \in 1 .. Len(buf) : start - 0 + k - 1 \in Offset
    <3>1. \A k \in 1 .. Len(buf) : start - 0 + k - 1 = start + k - 1
      BY <1>6
    <3> QED BY <1>10, <3>1, Cells
  <2>2. c = "bs" /\ Shown(Len(buf), 0) => Shown(Len(buf), 0)'
    BY <1>s, <2>1
  <2>3. c \notin {"nl", "bs"} /\ Shown(Len(buf) - 1, 0) => Shown(Len(buf) - 1, 0)'
    <3> SUFFICES ASSUME c \notin {"nl", "bs"}, Shown(Len(buf) - 1, 0)
                 PROVE  Shown(Len(buf) - 1, 0)'
      OBVIOUS
    <3> DEFINE n == Len(buf) - 1
    <3>1. n \in Int /\ \A k \in 1 .. n : start - 0 + k - 1 \in Offset
      BY <1>6, <2>1
    <3>2. 0 \in Int /\ Shown(n, 0)
      OBVIOUS
    <3> HIDE DEF n
    <3>3. \A k \in 1 .. n :
            \/ screen'[start - 0 + k - 1] = make_vgaentry(buf[k], Grey)
            \/ /\ (start - 0 + k - 1) % VGA_WIDTH = VGA_WIDTH - 1
               /\ screen'[start - 0 + k - 1] = make_vgaentry("animation", White)
      BY <1>7, <3>1, <3>2
    <3> QED BY <1>1, <3>3 DEF Shown, n
  <2>4. Echoes'
    BY <1>1, <1>4, <1>10, <2>2, <2>3 DEF EchoInv, Echoes
  <2> QED BY <1>1, <1>3, <1>4, <1>10, <2>4 DEF EchoInv, OwnColor, CursorShown
<1>11. ASSUME NEW d \in {0, VGA_WIDTH}, pc \in {"copy", "clear"}, InScroll(d)
       PROVE  InScroll(d)'
  <2>1. c # "nl" => \A k \in 1 .. Len(buf) : start - d + k - 1 \in Offset
    <3>1. \A k \in 1 .. Len(buf) : start - 0 + k - 1 = start + k - 1
      BY <1>6
    <3> QED BY <1>11, <3>1, Cells
  <2>2. c # "nl" /\ Shown(Len(buf), d) => Shown(Len(buf), d)'
    BY <1>s, <2>1
  <2> QED BY <1>1, <1>4, <1>11, <2>2 DEF InScroll
<1>12. CASE pc \in {"copy", "clear"}
  BY <1>1, <1>3, <1>4, <1>11, <1>12 DEF EchoInv, OwnColor, CursorShown
<1> QED BY <1>8, <1>9, <1>10, <1>12 DEF EchoInv, TypeOK

LEMMA StutterEcho ==
  ASSUME EchoInv, UNCHANGED vars
  PROVE  EchoInv'
BY DEF vars, termVars, EchoInv, TypeOK, OwnColor, CursorShown, WaitsForKey, Echoes, InScroll,
       Shown, Place

LEMMA EchoStep == EchoInv /\ [Next]_vars => EchoInv'
<1> SUFFICES ASSUME EchoInv, [Next]_vars PROVE EchoInv'
  OBVIOUS
<1> QED
  BY WriteEcho, ReadEcho, KeyEcho, PutEcho, CopyEcho, ClearEcho, AnimationEcho, StutterEcho
  DEF Next
-----------------------------------------------------------------------------
(***************************************************************************)
(* The invariant holds in every reachable state.                           *)
(***************************************************************************)
THEOREM EchoInductive == Spec => []EchoInv
<1>1. Init => EchoInv
  BY EchoInit
<1>2. EchoInv /\ [Next]_vars => EchoInv'
  BY EchoStep
<1> QED BY <1>1, <1>2, PTL DEF Spec

(***************************************************************************)
(* Every store of tty_putchar, tty_handle_scroll and the animation is on   *)
(* the screen, whatever its size: the place of the next character leaves   *)
(* the last row only until the scroll that follows ends.                   *)
(***************************************************************************)
THEOREM TtyTypeCorrect == Spec => []TypeOK
<1>1. EchoInv => TypeOK
  BY DEF EchoInv
<1> QED BY <1>1, EchoInductive, PTL

(***************************************************************************)
(* While tty_read waits for a key, its buffer is what the screen shows     *)
(* between the place where the line began and the cursor: in the colour of *)
(* the terminal, but for the bytes of special keys, which make_vgaentry    *)
(* turns white on white.                                                   *)
(***************************************************************************)
THEOREM EchoCorrect == Spec => []EchoIsTheLine
<1>1. EchoInv => EchoIsTheLine
  <2> SUFFICES ASSUME EchoInv, pc = "key"
               PROVE  /\ cursor = start + Len(buf) /\ Place = cursor
                      /\ \A k \in 1 .. Len(buf) :
                           \/ screen[start + k - 1] = make_vgaentry(buf[k], Grey)
                           \/ /\ (start + k - 1) % VGA_WIDTH = VGA_WIDTH - 1
                              /\ screen[start + k - 1] = make_vgaentry("animation", White)
    <3>1. \A ch : make_vgaentry(ch, Grey) = <<ch, IF ch = Special THEN WhiteOnWhite ELSE Grey>>
      BY DEF make_vgaentry
    <3> QED BY <3>1 DEF EchoIsTheLine, Place
  <2>1. start \in Nat /\ \A k \in 1 .. Len(buf) : start - 0 + k - 1 = start + k - 1
    <3>1. start \in Nat /\ Len(buf) \in Nat
      BY OnScreen
    <3> QED BY <3>1
  <2>2. WaitsForKey /\ cursor = Place
    BY DEF EchoInv, CursorShown
  <2> QED BY <2>1, <2>2 DEF WaitsForKey, Shown
<1> QED BY <1>1, EchoInductive, PTL

(***************************************************************************)
(* Editing keeps what is before the line: tty_read lets a backspace        *)
(* through only while its buffer is not empty, and the rows that a scroll  *)
(* moves are moved after the store.                                        *)
(***************************************************************************)
THEOREM PromptStays == Spec => PromptKept
<1>1. ASSUME EchoInv, Next, pc = "put", NEW o \in 0 .. start - 1
      PROVE  screen'[o] = screen[o]
  <2>1. /\ screen \in [Offset -> Entry] /\ start \in Offset /\ start \in Nat /\ Len(buf) \in Nat
        /\ tty_color \in Color
    BY <1>1, OnScreen DEF EchoInv, TypeOK
  <2>2. o \in Offset /\ o < start /\ start <= Corner
    BY <2>1, Screen DEF Offset
  <2>3. Put \/ animation
    BY <1>1 DEF Next, WriteBegins, WriteChar, WriteEnds, tty_writestring_at, tty_read, GetKey,
                LineFull, ScrollCopy, ScrollClear
  <2>4. CASE animation
    BY <2>1, <2>2, <2>4, Screen DEF animation
  <2>5. CASE Put
    <3>1. /\ Terminal \in TerminalType /\ Terminal.y < VGA_HEIGHT /\ PlaceIn(Terminal) = Place
          /\ Terminal.screen = screen
          /\ screen' = Store(Terminal, c).screen /\ Echoes
          /\ c \in Char \cup {" ", "bs", "nl", Special} /\ Place \in Nat
      BY <1>1, <2>5, OnScreen DEF EchoInv, TypeOK, Put, SetTerminal, Terminal
    <3>2. CASE c = "nl"
      <4>1. Store(Terminal, c) = [Terminal EXCEPT !.x = 0, !.y = Terminal.y + 1]
        BY <3>1, <3>2, StoreControl
      <4> QED BY <3>1, <4>1 DEF Terminal
    <3>3. CASE c = "bs"
      <4>1. Place = start + Len(buf) + 1
        BY <3>1, <3>3 DEF Echoes
      <4>2. Place # 0 /\ o # Place - 1
        BY <2>1, <2>2, <4>1
      <4>3. screen' = [screen EXCEPT ![Place - 1] = make_vgaentry(" ", tty_color)]
        BY <2>1, <3>1, <3>3, <4>2, StoreBackspace
      <4> QED BY <2>1, <2>2, <4>2, <4>3
    <3>4. CASE c \notin {"nl", "bs"}
      <4>1. Place = start + Len(buf) - 1 /\ buf # <<>>
        BY <3>1, <3>4 DEF Echoes
      <4>2. Len(buf) >= 1
        <5>1. buf \in Seq(Char \cup {Special})
          BY <1>1 DEF EchoInv, TypeOK
        <5> QED BY <4>1, <5>1
      <4>3. o # Place
        BY <2>1, <2>2, <4>1, <4>2
      <4>4. screen' = [screen EXCEPT ![Place] = make_vgaentry(c, tty_color)]
        BY <2>1, <3>1, <3>4, StoreCharacter DEF Echoed
      <4> QED BY <2>1, <2>2, <4>3, <4>4
    <3> QED BY <3>2, <3>3, <3>4
  <2> QED BY <2>3, <2>4, <2>5
<1>2. EchoInv /\ [Next]_vars => [pc = "put" => \A o \in 0 .. start - 1 : screen'[o] = screen[o]]_vars
  BY <1>1
<1> QED BY <1>2, EchoInductive, PTL DEF Spec, PromptKept

=============================================================================
