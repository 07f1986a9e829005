-------------------------------- MODULE Tty --------------------------------
(***************************************************************************)
(* The terminal of leanux (drivers/tty.c): system calls write to the       *)
(* screen, tty_read edits a line and echoes it, and the timer event        *)
(* animation (init/main.c) writes to the corner of the screen.             *)
(*                                                                         *)
(* Writing system calls have interrupts off: no animation comes between    *)
(* two of their characters.  tty_read has them on: animation comes between *)
(* any two of its stores.  TerminalIsTheReaders of Shell shows that no     *)
(* other process writes while one reads.  The copy of a scroll is one      *)
(* step, since it reads the cell of the animation once.                    *)
(***************************************************************************)
EXTENDS Naturals, Sequences

CONSTANTS
  VGA_WIDTH, VGA_HEIGHT,  \* 80 and 25
  LEN,                    \* the longest line a program reads; 128 at most
  Char                    \* what the keys of characters stand for

\* KEYMAP has no line feed, carriage return or backspace character.
ASSUME TtyAssumption ==
  /\ VGA_WIDTH \in Nat \ {0, 1} /\ VGA_HEIGHT \in Nat \ {0, 1}
  /\ LEN \in Nat \ {0} /\ LEN <= VGA_WIDTH * (VGA_HEIGHT - 1)
  /\ Char \cap {"nl", "cr", "bs"} = {}

Keys == Char \cup {"KB_ENTER", "KB_BACKSPACE", "KB_LEFT_SHIFT"}

\* The low byte of the code of a special key, taken for a character.
Special == "low byte"

\* tty_init's colour, and the one of whoever asks for a colour.
Grey == "grey"
White == "white"

Color == {Grey, White}

\* The attribute 0xFF.
WhiteOnWhite == "white on white"

\* What a cell of the screen shows; "$" stands for what a program writes.
Glyph == Char \cup {" ", "bs", "$", Special}

\* A char is signed: the low byte of a special key, 0xE0 or above, is negative
\* and fills the attribute with the bits of its sign, whatever the colour.
make_vgaentry(ch, color) == <<ch, IF ch = Special THEN WhiteOnWhite ELSE color>>

Entry == {make_vgaentry(ch, color) : ch \in Glyph, color \in Color}
         \cup {make_vgaentry("animation", White)}

VARIABLES
  screen,        \* tty_buffer, by offset
  tty_x, tty_y,  \* where the next character goes
  tty_color,     \* its colour
  cursor,        \* the cursor that the screen controller shows
  pc,            \* where the system call executes; "idle" when there is none
  ori_color,     \* the variable of tty_write_colored
  c,             \* the argument of tty_putchar
  buf,           \* buf[0 .. i - 1] of tty_read
  start          \* history: offset at which the line being read began

termVars == <<screen, tty_x, tty_y, tty_color, cursor>>
vars == <<termVars, pc, ori_color, c, buf, start>>

Offset == 0 .. VGA_WIDTH * VGA_HEIGHT - 1

tty_getoffset(x, y) == y * VGA_WIDTH + x

last_row_offset == (VGA_HEIGHT - 1) * VGA_WIDTH

Corner == tty_getoffset(VGA_WIDTH - 1, VGA_HEIGHT - 1)

\* tty_init and tty_clear
Init ==
  /\ screen = [o \in Offset |-> make_vgaentry(" ", Grey)]
  /\ tty_x = 0 /\ tty_y = 0 /\ tty_color = Grey /\ cursor = 0
  /\ pc = "idle"
  /\ ori_color = Grey
  /\ c = " "
  /\ buf = <<>>
  /\ start = 0

-----------------------------------------------------------------------------
(* tty_putchar, as a function of the terminal t: the store, with the move  *)
(* of the place, and the two halves of tty_handle_scroll.  "bs" is the     *)
(* backspace character, "nl" the new line, "cr" the carriage return.       *)

Terminal == [screen |-> screen, x |-> tty_x, y |-> tty_y]

\* tty_updatecursor ends tty_putchar; an offset is written in two bytes.
tty_updatecursor == cursor' = tty_getoffset(tty_x', tty_y')

SetTerminal(t) == screen' = t.screen /\ tty_x' = t.x /\ tty_y' = t.y /\ UNCHANGED tty_color

tty_put_entry_at(t, ch, x, y) ==
  [t.screen EXCEPT ![tty_getoffset(x, y)] = make_vgaentry(ch, tty_color)]

Forward(t) == IF t.x + 1 = VGA_WIDTH THEN [t EXCEPT !.x = 0, !.y = @ + 1]
                                     ELSE [t EXCEPT !.x = @ + 1]

\* Mutant: a backspace in the first column stays in its row.
BackInRow(t) == IF t.x = 0 THEN [t EXCEPT !.x = VGA_WIDTH - 1]
                           ELSE [t EXCEPT !.x = @ - 1]

Back(t) == IF t.x = 0 THEN [t EXCEPT !.x = VGA_WIDTH - 1, !.y = @ - 1]
                      ELSE [t EXCEPT !.x = @ - 1]

Store(t, ch) ==
  IF ch = "bs" /\ t.x + t.y # 0
  THEN [Back(t) EXCEPT !.screen = tty_put_entry_at(t, " ", Back(t).x, Back(t).y)]
  ELSE IF ch = "cr" THEN [t EXCEPT !.x = 0]
  ELSE IF ch = "nl" THEN [t EXCEPT !.x = 0, !.y = @ + 1]
  ELSE [Forward(t) EXCEPT !.screen = tty_put_entry_at(t, ch, t.x, t.y)]

CopyUp(t) ==
  [t EXCEPT !.screen = [o \in Offset |-> IF o < last_row_offset
                                         THEN t.screen[o + VGA_WIDTH] ELSE t.screen[o]]]

ClearLastRow(t) ==
  [t EXCEPT !.screen = [o \in Offset |-> IF o < last_row_offset THEN t.screen[o]
                                         ELSE make_vgaentry(" ", tty_color)],
            !.y = @ - 1]

\* Mutant: > in place of >=.
ScrollsLate(t) == t.y > VGA_HEIGHT

Scrolls(t) == t.y >= VGA_HEIGHT

tty_putchar(t, ch) ==
  LET s == Store(t, ch) IN IF Scrolls(s) THEN ClearLastRow(CopyUp(s)) ELSE s

-----------------------------------------------------------------------------
(* The writing system calls: tty_write and, with a colour of their own,    *)
(* tty_write_colored and tty_putchar_ntimes; tty_writestring_at.           *)

WriteBegins ==
  /\ pc = "idle"
  /\ pc' = "write"
  /\ ori_color' = tty_color
  /\ tty_color' \in {tty_color, White}
  /\ UNCHANGED <<screen, tty_x, tty_y, cursor, c, buf, start>>

WriteChar ==
  /\ pc = "write"
  /\ \E ch \in {"$", "nl", "cr"} : SetTerminal(tty_putchar(Terminal, ch))
  /\ tty_updatecursor
  /\ UNCHANGED <<pc, ori_color, c, buf, start>>

\* Mutant: the colour is not restored.
WriteEndsColored ==
  /\ pc = "write"
  /\ pc' = "idle"
  /\ UNCHANGED <<termVars, ori_color, c, buf, start>>

WriteEnds ==
  /\ pc = "write"
  /\ pc' = "idle"
  /\ tty_color' = ori_color
  /\ UNCHANGED <<screen, tty_x, tty_y, cursor, ori_color, c, buf, start>>

\* A character of the string, anywhere on the screen.
tty_writestring_at ==
  /\ pc = "idle"
  /\ \E o \in Offset : screen' = [screen EXCEPT ![o] = make_vgaentry("$", White)]
  /\ UNCHANGED <<tty_x, tty_y, tty_color, cursor, pc, ori_color, c, buf, start>>

-----------------------------------------------------------------------------
tty_read ==
  /\ pc = "idle"
  /\ pc' = "key"
  /\ buf' = <<>>
  /\ start' = tty_getoffset(tty_x, tty_y)
  /\ UNCHANGED <<termVars, ori_color, c>>

\* Mutant: a backspace erases whatever is before the cursor.
EditAlways(k) ==
  IF k = "KB_ENTER" THEN c' = "nl" /\ UNCHANGED buf
  ELSE IF k = "KB_BACKSPACE"
  THEN /\ c' = "bs"
       /\ buf' = SubSeq(buf, 1, Len(buf) - 1)
  ELSE /\ c' = IF k \in Char THEN k ELSE Special
       /\ buf' = Append(buf, c')

\* What a key does to the line, and the character that is echoed.
Edit(k) ==
  IF k = "KB_ENTER" THEN c' = "nl" /\ UNCHANGED buf
  ELSE IF k = "KB_BACKSPACE"
  THEN /\ buf # <<>>
       /\ c' = "bs"
       /\ buf' = SubSeq(buf, 1, Len(buf) - 1)
  ELSE /\ c' = IF k \in Char THEN k ELSE Special
       /\ buf' = Append(buf, c')

GetKey ==
  /\ pc = "key" /\ Len(buf) # LEN
  /\ \E k \in Keys : Edit(k)
  /\ pc' = "put"
  /\ UNCHANGED <<termVars, ori_color, start>>

LineFull ==
  /\ pc = "key" /\ Len(buf) = LEN
  /\ pc' = "idle"
  /\ UNCHANGED <<termVars, ori_color, c, buf, start>>

\* Where tty_read goes on after tty_putchar.
AfterEcho == IF c = "nl" THEN "idle" ELSE "key"

Put ==
  /\ pc = "put"
  /\ LET t == Store(Terminal, c)
     IN /\ SetTerminal(t)
        /\ IF Scrolls(t) THEN pc' = "copy" /\ UNCHANGED cursor
                         ELSE pc' = AfterEcho /\ tty_updatecursor
  /\ UNCHANGED <<ori_color, c, buf, start>>

ScrollCopy ==
  /\ pc = "copy"
  /\ SetTerminal(CopyUp(Terminal))
  /\ pc' = "clear"
  /\ UNCHANGED <<cursor, ori_color, c, buf, start>>

ScrollClear ==
  /\ pc = "clear"
  /\ SetTerminal(ClearLastRow(Terminal))
  /\ tty_updatecursor
  /\ pc' = AfterEcho
  /\ start' = IF start >= VGA_WIDTH THEN start - VGA_WIDTH ELSE 0
  /\ UNCHANGED <<ori_color, c, buf>>

\* The handler of the timer event.
animation ==
  /\ pc # "write"
  /\ screen' = [screen EXCEPT ![Corner] = make_vgaentry("animation", White)]
  /\ UNCHANGED <<tty_x, tty_y, tty_color, cursor, pc, ori_color, c, buf, start>>

-----------------------------------------------------------------------------
Next ==
  \/ WriteBegins \/ WriteChar \/ WriteEnds \/ tty_writestring_at
  \/ tty_read \/ GetKey \/ LineFull \/ Put \/ ScrollCopy \/ ScrollClear
  \/ animation

Spec == Init /\ [][Next]_vars

-----------------------------------------------------------------------------
(***************************************************************************)
(* The types of the terminal's state; the next character goes on the       *)
(* screen but for the row below it until a scroll ends.                    *)
(***************************************************************************)
TypeOK ==
  /\ screen \in [Offset -> Entry]
  /\ tty_x \in 0 .. VGA_WIDTH - 1
  /\ tty_y \in 0 .. VGA_HEIGHT /\ (pc \notin {"copy", "clear"} => tty_y < VGA_HEIGHT)
  /\ tty_color \in Color /\ ori_color \in Color /\ cursor \in Offset
  /\ pc \in {"idle", "write", "key", "put", "copy", "clear"}
  /\ c \in Char \cup {" ", "bs", "nl", Special}
  /\ buf \in Seq(Char \cup {Special}) /\ Len(buf) <= LEN
  /\ start \in Offset

(***************************************************************************)
(* The echo is the line: while a process waits for a key, the characters   *)
(* in its buffer are those on the screen, from the place where the line    *)
(* began to the cursor that the screen shows, over line ends, scrolls and  *)
(* backspaces.  They have the terminal's own colour, whatever was written  *)
(* in colour before; but the byte of a special key is white on white, and  *)
(* so takes its place unseen.  The animation may have left its mark in the *)
(* last column.                                                            *)
(***************************************************************************)
EchoIsTheLine ==
  pc = "key" =>
    /\ cursor = start + Len(buf)
    /\ tty_getoffset(tty_x, tty_y) = cursor
    /\ \A k \in 1 .. Len(buf) :
         LET o == start + k - 1
         IN \/ screen[o] = <<buf[k], IF buf[k] = Special THEN WhiteOnWhite ELSE Grey>>
            \/ o % VGA_WIDTH = VGA_WIDTH - 1 /\ screen[o] = make_vgaentry("animation", White)

(***************************************************************************)
(* Editing a line never touches what is on the screen before it: a         *)
(* backspace stops at the place where the line began.                      *)
(***************************************************************************)
PromptKept ==
  [][pc = "put" => \A o \in 0 .. start - 1 : screen'[o] = screen[o]]_vars

(***************************************************************************)
(* "it's a normal key", says drivers/tty.c at line 111 of the branch that  *)
(* stores a key in the buffer: so no special key is ever stored.           *)
(***************************************************************************)
OnlyNormalKeys == \A k \in 1 .. Len(buf) : buf[k] # Special

=============================================================================
