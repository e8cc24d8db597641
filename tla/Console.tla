------------------------------- MODULE Console -------------------------------
(***************************************************************************)
(* The console (cio.c): the screen with its scrolling region, the keyboard *)
(* with its ring of characters, and reads of both by system calls.         *)
(*                                                                         *)
(* A step is what the kernel does with interrupts off: one interrupt, or   *)
(* one call that prints.  A read that finds the ring empty after its first *)
(* character polls the keyboard itself, with interrupts still off: nothing *)
(* but keys happens until it ends.  The colours of characters are left out.*)
(*                                                                         *)
(* The kernel is built with TRACE_CX and without STATUS, as by the Makefile*)
(* there is: the region is not the whole screen, and every interrupt and   *)
(* system call ends by showing, above it, the context that is restored.    *)
(***************************************************************************)
EXTENDS Text

CONSTANTS
    Width, Height,  \* SCREEN_X_SIZE, SCREEN_Y_SIZE
    Top,            \* the first line of the scrolling region
    Pinwheel,       \* the characters of the pinwheel
    Traces,         \* what contexts look like: lines of characters
    Table,          \* scan_code: [BOOLEAN -> [keys -> characters]], by shift
    BufSize,        \* C_BUFSIZE
    Strings,        \* what is written to the console
    Formats,        \* conversions of numbers that are printed
    Numbers,        \* those numbers
    Lengths,        \* the lengths passed to read()
    MaxText         \* bound on the characters that are put on the screen

Keys      == DOMAIN Table[FALSE]
EOT       == 4

ASSUME ConsoleAssumption ==
    /\ Width \in Nat \ {0} /\ Height \in Nat /\ Top \in 2 .. Height - 1
    /\ Traces \subseteq [1 .. Top - 2 -> Seq(0 .. 255)]
    /\ Table \in [BOOLEAN -> [Keys -> 0 .. 255]]
    /\ BufSize \in Nat \ {0, 1} /\ MaxText \in Nat
    /\ Strings \subseteq Seq(0 .. 255)
    /\ Numbers \subseteq Word
    /\ Pinwheel \in Seq(0 .. 255)
    /\ \A f \in Formats : /\ f.conv \in {"d", "x", "o"} /\ f.width \in Nat
                          /\ f.left \in BOOLEAN /\ f.fill \in 0 .. 255
    /\ Lengths \subseteq Nat \ {0}

Columns == 0 .. Width - 1        \* min_x .. max_x
Lines   == Top .. Height - 1     \* scroll_min_y .. scroll_max_y
Corner  == <<0, 0>>              \* where the clock draws its pinwheel
Old     == 0                     \* what was on the screen before

VARIABLES
    screen,      \* [cell, x, y, ret]: video memory, curr_x, curr_y, _cio_last_ret
    text,        \* history: the characters that were put on the screen
    printed,     \* history: what number the last step printed, and how
    ring,        \* __c_input_buffer
    next_char,   \* __c_next_char, as an index
    next_space,  \* __c_next_space, as an index
    shift, ctrl, \* the state of __c_input_scan_code
    left,        \* the characters a read still has room for, or 0
    taken        \* the characters the last step took from the ring

output   == <<screen, text>>
keyboard == <<ring, next_char, next_space, shift, ctrl>>
returned == <<printed, taken>>
vars     == <<output, keyboard, left, returned>>

Printing == [by |-> "none", n |-> 0, format |-> [conv |-> "none"], text |-> <<>>]

TypeOK ==
    /\ screen.cell \in [Columns \X (0 .. Height - 1) -> 0 .. 255]
    /\ screen.x \in Columns /\ screen.y \in Top .. Height
    /\ screen.ret \in BOOLEAN
    /\ text \in Seq(0 .. 255)
    /\ ring \in [0 .. BufSize - 1 -> 0 .. 255]
    /\ next_char \in 0 .. BufSize - 1 /\ next_space \in 0 .. BufSize - 1
    /\ shift \in BOOLEAN /\ ctrl \in BOOLEAN
    /\ left \in Nat
    /\ taken \in Seq(0 .. 255)

-----------------------------------------------------------------------------
(* The screen.                                                             *)

(* __cio_scroll(lines): the lines of the region move up, or all are blank  *)
(* and the cursor goes home.                                               *)
ScrolledShort(s, lines) ==               \* mutant: the last line stays as it was
    [s EXCEPT !.cell = [p \in DOMAIN s.cell |->
        IF p[2] \in Lines /\ p[2] + lines <= Height - 1
        THEN s.cell[<<p[1], p[2] + lines>>] ELSE s.cell[p]], !.y = Height - 1]

Scrolled(s, lines) ==
    IF lines > Height - 1 - Top
    THEN [s EXCEPT !.cell = [p \in DOMAIN s.cell |->
                               IF p[2] \in Lines THEN Blank ELSE s.cell[p]],
                   !.x = 0, !.y = Height - 1]
    ELSE [s EXCEPT !.cell = [p \in DOMAIN s.cell |->
             IF p[2] \notin Lines THEN s.cell[p]
             ELSE IF p[2] + lines <= Height - 1 THEN s.cell[<<p[1], p[2] + lines>>]
             ELSE Blank], !.y = Height - 1]

(* Scrolling waits for the next character.                                 *)
InRegion(s) == IF s.y > Height - 1 THEN Scrolled(s, s.y - (Height - 1)) ELSE s

(* LF erases the rest of its line, but not behind a CR.                    *)
NewLine(s) ==
    [s EXCEPT !.cell = [p \in DOMAIN s.cell |->
                          IF ~s.ret /\ p[2] = s.y /\ p[1] >= s.x THEN Blank ELSE s.cell[p]],
              !.x = 0, !.y = @ + 1]

Glyph(s, c) ==
    LET next == IF s.x = Width - 1 THEN <<0, s.y + 1>> ELSE <<s.x + 1, s.y>>
    IN  [s EXCEPT !.cell[<<s.x, s.y>>] = c, !.x = next[1], !.y = next[2]]

(* __cio_putchar                                                           *)
Putchar(s, c) ==
    LET t == InRegion(s)
    IN  [(IF c = LF THEN NewLine(t) ELSE IF c = CR THEN [t EXCEPT !.x = 0] ELSE Glyph(t, c))
         EXCEPT !.ret = c = CR]

Fits(n) == Len(text) + n <= MaxText      \* the bound on texts

(* __cio_write and __cio_puts: one character after the other.              *)
PutAll(s, chars) ==
    LET after[n \in 0 .. Len(chars)] ==
          IF n = 0 THEN s ELSE Putchar(after[n - 1], chars[n])
    IN  after[Len(chars)]

(* __isr_restore: the context is shown below the line of the clock, where  *)
(* each line feed blanks the rest of its line.                             *)
Traced(s, t) ==
    [s EXCEPT !.cell = [p \in DOMAIN s.cell |->
        IF p[2] \notin DOMAIN t THEN s.cell[p]
        ELSE IF p[1] < Len(t[p[2]]) THEN t[p[2]][p[1] + 1] ELSE Blank]]

(* A handler returns, with s on the screen.                                *)
Returns(s) == \E t \in Traces : screen' = Traced(s, t)

-----------------------------------------------------------------------------
(* The keyboard.                                                           *)

Increment(i) == IF i + 1 >= BufSize THEN 0 ELSE i + 1

(* __cio_input_queue, and the characters it counts.                        *)
InputQueue ==
    IF next_space < next_char THEN next_space - next_char + BufSize
    ELSE next_space - next_char

Pending == [k \in 1 .. InputQueue |->
                  ring[(next_char + (k - 1)) % BufSize]]

(* What a key stands for: & ctrl_mask keeps five bits.                     *)
Masked(control, c) == IF control THEN c % 32 ELSE c

(* A character is stored if there is room.  scan_code is unsigned and      *)
(* '\377' is not, so that undefined keys are like any other.               *)
StoreAlways(c) ==                        \* mutant: stored without a look at next_char
    /\ ring' = [ring EXCEPT ![next_space] = c]
    /\ next_space' = Increment(next_space)

Store(c) ==
    IF Increment(next_space) # next_char
    THEN /\ ring' = [ring EXCEPT ![next_space] = c]
         /\ next_space' = Increment(next_space)
    ELSE UNCHANGED <<ring, next_space>>

(* __c_input_scan_code, of a press or release of shift or control, or of   *)
(* the press of another key; the release of that changes nothing.          *)
ScanCode(code) ==
    /\ \/ /\ code \in {"shift", "shift up"}
          /\ shift' = (code = "shift")
          /\ UNCHANGED <<ctrl, ring, next_space>>
       \/ /\ code \in {"control", "control up"}
          /\ ctrl' = (code = "control")
          /\ UNCHANGED <<shift, ring, next_space>>
       \/ /\ code \in Keys
          /\ Store(Masked(ctrl, Table[shift][code]))
          /\ UNCHANGED <<shift, ctrl>>
    /\ UNCHANGED next_char

Codes == Keys \cup {"shift", "shift up", "control", "control up"}

-----------------------------------------------------------------------------
(* The screen when the region has been set, with a line above it: _init.   *)
FirstImage ==
    [cell |-> [p \in Columns \X (0 .. Height - 1) |-> IF p[2] = Top - 1 THEN 61 ELSE Old],
     x |-> 0, y |-> Top, ret |-> FALSE]

Init ==
    /\ screen = FirstImage
    /\ text = <<>> /\ printed = Printing
    /\ ring = [i \in 0 .. BufSize - 1 |-> 0]
    /\ next_char = 0 /\ next_space = 0
    /\ shift = FALSE /\ ctrl = FALSE
    /\ left = 0
    /\ taken = <<>>

(* _sys_write to the console.                                              *)
Put(s) ==
    /\ left = 0 /\ Fits(Len(s))
    /\ Returns(PutAll(screen, s))
    /\ text' = text \o s
    /\ taken' = <<>>
    /\ UNCHANGED <<keyboard, left>>

Write(s) == Put(s) /\ printed' = Printing

(* The same of a number that sprint has converted.                         *)
WriteNumber(format, n) ==
    LET s == Sprinted(format, n)
    IN  Put(s) /\ printed' = [by |-> "sprint", n |-> n, format |-> format, text |-> s]

(* __cio_printf of one number, after which the kernel goes on or returns.  *)
Printf(format, n) ==
    LET s == Formatted(format, n)
    IN  /\ left = 0 /\ Fits(Len(s))
        /\ screen' = PutAll(screen, s) \/ Returns(PutAll(screen, s))
        /\ text' = text \o s
        /\ printed' = [by |-> "printf", n |-> n, format |-> format, text |-> s]
        /\ taken' = <<>>
        /\ UNCHANGED <<keyboard, left>>

(* The clock's interrupt, which moves the pinwheel now and then.           *)
Spun(i) == [screen EXCEPT !.cell[Corner] = Pinwheel[(i % Len(Pinwheel)) + 1]]

Spin ==
    /\ left = 0
    /\ \/ Returns(screen)
       \/ \E i \in 1 .. Len(Pinwheel) :
             /\ \/ screen.cell[Corner] = Pinwheel[i]
                \/ screen.cell[Corner] = Old /\ i = 1
             /\ Returns(Spun(i))
    /\ printed' = Printing /\ taken' = <<>>
    /\ UNCHANGED <<text, keyboard, left>>

(* The keyboard's interrupt: __c_keyboard_isr.                             *)
KeyboardIsr(code) ==
    /\ left = 0
    /\ ScanCode(code)
    /\ Returns(screen)
    /\ printed' = Printing /\ taken' = <<>>
    /\ UNCHANGED <<text, left>>

(* _sys_read of the console, which returns E_NO_DATA if no character waits *)
(* (its process is put on the queue of SIO readers, and another one goes   *)
(* on); __cio_gets keeps room for the NUL.                                 *)
Read(length) ==
    /\ left = 0 /\ Fits(length - 1)
    /\ left' = IF InputQueue > 0 THEN length - 1 ELSE 0
    /\ IF left' = 0 THEN Returns(screen) ELSE UNCHANGED screen
    /\ printed' = Printing /\ taken' = <<>>
    /\ UNCHANGED <<text, keyboard>>

(* __cio_getchar with a character in the ring: it is shown, unless it is   *)
(* EOT, and ends the read if it is EOT or LF.                              *)
GetChar ==
    LET c == ring[next_char]
        echo == IF c = EOT THEN <<>> ELSE <<c>>
    IN  /\ left > 0
        /\ InputQueue > 0
        /\ next_char' = Increment(next_char)
        /\ left' = IF c \in {EOT, LF} THEN 0 ELSE left - 1
        /\ IF left' = 0 THEN Returns(PutAll(screen, echo)) ELSE screen' = PutAll(screen, echo)
        /\ text' = text \o echo
        /\ printed' = Printing /\ taken' = <<c>>
        /\ UNCHANGED <<ring, next_space, shift, ctrl>>

(* __cio_getchar with an empty ring and interrupts off.                    *)
Poll(code) ==
    /\ left > 0
    /\ InputQueue = 0
    /\ ScanCode(code)
    /\ printed' = Printing /\ taken' = <<>>
    /\ UNCHANGED <<output, left>>

Next ==
    \/ \E s \in Strings : Write(s)
    \/ \E f \in Formats, n \in Numbers : Printf(f, n) \/ WriteNumber(f, n)
    \/ Spin
    \/ \E code \in Codes : KeyboardIsr(code) \/ Poll(code)
    \/ \E length \in Lengths : Read(length)
    \/ GetChar

Spec == Init /\ [][Next]_vars

-----------------------------------------------------------------------------
(* Properties.                                                             *)

(* A sheet of paper long enough for every text, and a pen on it: what was  *)
(* put on the screen, without scrolling.  The last line begun is noted.    *)
Rows == Height - Top

EmptySheet ==
    [ink |-> [q \in Columns \X (1 .. Rows + MaxText) |-> IF q[2] > Rows THEN Blank ELSE Old],
     last |-> Rows, row |-> 1, x |-> 0, ret |-> FALSE]

Drawn(w, c) ==
    LET last == Max({w.last, w.row})
        blanked == [q \in DOMAIN w.ink |->
                      IF q[2] = w.row /\ q[1] >= w.x THEN Blank ELSE w.ink[q]]
    IN  IF c = CR THEN [w EXCEPT !.x = 0, !.last = last, !.ret = TRUE]
        ELSE IF c = LF
        THEN [ink |-> IF w.ret THEN w.ink ELSE blanked, last |-> last,
              row |-> w.row + 1, x |-> 0, ret |-> FALSE]
        ELSE [ink |-> [w.ink EXCEPT ![<<w.x, w.row>>] = c], last |-> last,
              row |-> w.row + ((w.x + 1) \div Width),
              x |-> (w.x + 1) % Width, ret |-> FALSE]

SheetOf(chars) ==
    LET drawn[n \in 0 .. Len(chars)] ==
          IF n = 0 THEN EmptySheet ELSE Drawn(drawn[n - 1], chars[n])
    IN  drawn[Len(chars)]

(* What is at (x, y) above the region when t is the context shown last.    *)
Heading(t, x, y) ==
    IF y = Top - 1 THEN 61 ELSE IF y = 0 THEN Old
    ELSE IF x < Len(t[y]) THEN t[y][x + 1] ELSE Blank

Untouched == [y \in 1 .. Top - 2 |-> Repeat(Old, Width)]

(* The region shows the last lines of the paper, whatever was printed in   *)
(* it and in between.  Above it is one context, the whole of it, or what   *)
(* was there before the first one; the line under it stays; and the rest   *)
(* changes only where the clock's pinwheel is.                             *)
ScreenShowsText ==
    LET sheet == SheetOf(text)
    IN  /\ \A x \in Columns, y \in Lines :
              screen.cell[<<x, y>>] = sheet.ink[<<x, sheet.last - (Height - 1 - y)>>]
        /\ \E t \in Traces \cup {Untouched} :
              \A x \in Columns, y \in 0 .. Top - 1 :
                 screen.cell[<<x, y>>] = Heading(t, x, y) \/ <<x, y>> = Corner

(* The region shows the text, the cursor stays in it, and the pointers of  *)
(* the ring stay in its buffer.                                            *)
ScreenConsistent == TypeOK /\ ScreenShowsText

(* A printed number is read back by str2int, if it was filled with blanks; *)
(* octal numbers, if their first bit is not set.  It has its width, but for*)
(* the hexadecimal ones of sprint.                                         *)
PrintedIsNumber ==
    LET base == [d |-> 10, x |-> 16, o |-> 8]
        conv == printed.format.conv
    IN  printed # Printing =>
           /\ printed.format.fill = Blank /\ (conv = "o" => printed.n >= 0)
                 => Str2Int(StrTrim(printed.text), base[conv]) = printed.n
           /\ printed.by = "printf" \/ conv # "x" => Len(printed.text) >= printed.format.width

(* The ring, its two pointers and the two places that store keys are a     *)
(* queue of BufSize - 1 characters.                                        *)
Ahead == INSTANCE TypeAhead WITH
    Chars <- {Masked(control, Table[s][k]) : control, s \in BOOLEAN, k \in Keys}, Room <- BufSize - 1,
    pending <- Pending, delivered <- taken

ImplementsTypeAhead == Ahead!Spec

-----------------------------------------------------------------------------
(* What the documents say and the code does not do.                        *)

(* klibc.c:238: the width is the desired final length of the string.       *)
SprintHasWidth == printed.by = "sprint" => Len(printed.text) >= printed.format.width
=============================================================================
