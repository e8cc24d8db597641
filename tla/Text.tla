-------------------------------- MODULE Text ---------------------------------
(***************************************************************************)
(* Strings of the kernel (klibc.c) and of user programs (ulibc.c): what    *)
(* their functions compute.  Characters are their codes, a string is the   *)
(* sequence of characters before its NUL.                                  *)
(*                                                                         *)
(* The two libraries convert numbers in the same way.  A word has 32 bits; *)
(* the number is a parameter that leaves 2 bits for the first octal digit, *)
(* like 32.                                                                *)
(***************************************************************************)
EXTENDS Integers, Sequences, SequencesExt, FiniteSetsExt

CONSTANT WordBits

ASSUME TextAssumption == WordBits \in Nat /\ WordBits % 12 = 8

Half == 2 ^ (WordBits - 1)
Word == -Half .. Half - 1

(* What 32 bits keep of a number that overflows.                           *)
Signed(n) == ((n + Half) % (2 * Half)) - Half

Backspace == 8
Tab       == 9
LF        == 10
CR        == 13
Blank     == 32
Minus     == 45
Colon     == 58
Spaces    == {7, Tab, LF, CR, Blank}     \* chIsWS

-----------------------------------------------------------------------------
(* Numbers to text.                                                        *)

(* __hexdigits                                                             *)
HexDigit(v) == IF v < 10 THEN 48 + v ELSE 55 + v

(* __cvtdec0 of a number that is not negative.                             *)
Decimal[v \in 0 .. Half - 1] ==
    (IF v < 10 THEN <<>> ELSE Decimal[v \div 10]) \o <<HexDigit(v % 10)>>

(* __cvtdec: the least number stays negative when its sign is changed, and *)
(* __cvtdec0 puts its digits in by hand.                                   *)
CvtDecPlain(v) ==                        \* mutant: the least number like any other
    IF v < 0 THEN <<Minus>> \o Decimal[Signed(-v) % Half] ELSE Decimal[v]

CvtDec(v) ==
    IF v = -Half THEN <<Minus>> \o Decimal[Half \div 10] \o <<HexDigit(Half % 10)>>
    ELSE IF v < 0 THEN <<Minus>> \o Decimal[-v]
    ELSE Decimal[v]

(* Digits from the first one on that is not 0, or the last one.            *)
Significant(s) ==
    SubSeq(s, Min({i \in 1 .. Len(s) : s[i] # HexDigit(0) \/ i = Len(s)}), Len(s))

(* __cvthex: four bits at a time from the left.                            *)
CvtHex(v) ==
    LET n == WordBits \div 4
    IN  Significant([i \in 1 .. n |-> HexDigit((v \div 16 ^ (n - i)) % 16)])

(* __cvtoct: two bits, then three at a time.  The shift of the first two   *)
(* brings in the sign, and three of its bits are kept.                     *)
CvtOct(v) ==
    LET n == (WordBits + 1) \div 3
    IN  Significant([i \in 1 .. n |-> HexDigit((v \div 8 ^ (n - i)) % 8)])

Convert(conv, v) ==
    CASE conv = "d" -> CvtDec(v) [] conv = "x" -> CvtHex(v) [] conv = "o" -> CvtOct(v)

Repeat(c, n) == [i \in 1 .. n |-> c]

(* padstr, with len for the length of s: extra characters go to the left   *)
(* unless the text is adjusted to the left, and a text that is too wide    *)
(* stays whole.                                                            *)
Extra(len, format) == Repeat(format.fill, Max({format.width - len, 0}))

(* __cio_printf of one number.                                             *)
Formatted(format, v) ==
    LET s == Convert(format.conv, v)
    IN  IF format.left THEN s \o Extra(Len(s), format) ELSE Extra(Len(s), format) \o s

(* __sprint and sprint of one number.  Of a hexadecimal one they count two *)
(* characters more and copy them too: the NUL behind its digits, which ends*)
(* the string there, and what the buffer has after it.                     *)
Sprinted(format, v) ==
    LET s == Convert(format.conv, v)
        len == Len(s) + IF format.conv = "x" THEN 2 ELSE 0
    IN  IF ~format.left THEN Extra(len, format) \o s
        ELSE IF format.conv = "x" THEN s
        ELSE s \o Extra(len, format)

-----------------------------------------------------------------------------
(* Text to numbers, and the tests on strings that programs use.            *)

(* Every character from '0' on is a digit of str2int in a base large enough*)
Digit(c) ==
    IF c \in 97 .. 122 THEN c - 87 ELSE IF c \in 65 .. 90 THEN c - 55 ELSE c - 48

Digits(s, base) ==
    LET Stop == {i \in 1 .. Len(s) : Digit(s[i]) \notin 0 .. base - 1}
    IN  IF Stop = {} THEN s ELSE SubSeq(s, 1, Min(Stop) - 1)

Str2Int(s, base) ==
    LET negative == s # <<>> /\ s[1] = Minus
        Add(n, c) == Signed(n * base + Digit(c))
        n == FoldLeft(Add, 0, Digits(IF negative THEN Tail(s) ELSE s, base))
    IN  IF negative THEN Signed(-n) ELSE n

(* strTrim, of a string that has more than white space.                    *)
StrTrim(s) ==
    LET Text == {i \in 1 .. Len(s) : s[i] \notin Spaces}
    IN  IF Text = {} THEN <<>> ELSE SubSeq(s, Min(Text), Max(Text))

(* strLower of a string onto itself.                                       *)
StrLower(s) == [i \in 1 .. Len(s) |-> IF s[i] \in 65 .. 90 THEN s[i] + 32 ELSE s[i]]

(* strncmp(s, t, n) = 0                                                    *)
SameStart(s, t, n) ==
    LET Start(u) == SubSeq(u, 1, Min({n, Len(u)})) IN Start(s) = Start(t)

-----------------------------------------------------------------------------
(* Lines of a file.                                                        *)

(* fReadLn into a buffer of length characters, until the end of the file:  *)
(* a line that is too long is cut, and one without its LF is not returned. *)
FReadLines(file, length) ==
    LET Next(r, c) ==
          IF c = LF THEN [lines |-> Append(r.lines, r.line), line |-> <<>>]
          ELSE IF c \in {Backspace, 0, CR} THEN r
          ELSE IF Len(r.line) = length - 2
               THEN [lines |-> Append(r.lines, Append(r.line, c)), line |-> <<>>]
          ELSE [r EXCEPT !.line = Append(@, c)]
        Read[i \in 0 .. Len(file)] ==
          IF i = 0 THEN [lines |-> <<>>, line |-> <<>>]
          ELSE LET before == Read[i - 1] IN Next(before, file[i])
    IN  Read[Len(file)].lines

(* getShadowField into a buffer of size characters: what is before the next*)
(* colon, as far as it fits.                                               *)
Field(s, size) ==
    LET Ends == {i \in 1 .. Len(s) : s[i] = Colon \/ i > size}
    IN  IF Ends = {} THEN s ELSE SubSeq(s, 1, Min(Ends) - 1)

(* Whether the copy has a NUL: it keeps the colon, and a field that fills  *)
(* the buffer has no end.                                                  *)
Ended(s, size) == Field(s, size) = s /\ Len(s) < size

(* What is behind the character after the field.                           *)
Rest(s, size) == SubSeq(s, Len(Field(s, size)) + 2, Len(s))
=============================================================================
