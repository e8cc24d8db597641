--------------------------- MODULE TerminalProofs ---------------------------
(***************************************************************************)
(* Proofs about the two ways to the system.                                *)
(*                                                                         *)
(* The keyboard of the console, for every table of keys, every size of the *)
(* ring and every order of keys, interrupts and reads: the ring, its two   *)
(* pointers, and the two places that store keys are the queue of module    *)
(* TypeAhead.                                                              *)
(*                                                                         *)
(* The screen, of any size and for every text: the screen and the sheet    *)
(* that its text is drawn on are followed character by character.          *)
(*                                                                         *)
(* Logins, for every number of processes, every size of the line, every    *)
(* /.shadow and every order of characters, wake-ups, exits and tests left  *)
(* behind: init knows the one login that goes on, and the terminal shows   *)
(* what its buffer holds.                                                  *)
(***************************************************************************)
EXTENDS Console, Login, QueueLemmas

-----------------------------------------------------------------------------
(* The keyboard.  The inductive invariant: the pointers stay in the ring.  *)

Char == 0 .. 255

KeyboardInv ==
    /\ ring \in [0 .. BufSize - 1 -> Char]
    /\ next_char \in 0 .. BufSize - 1 /\ next_space \in 0 .. BufSize - 1
    /\ ctrl \in BOOLEAN /\ shift \in BOOLEAN

LEMMA KeyboardConstants ==
    BufSize \in Nat \ {0, 1} /\ Table \in [BOOLEAN -> [Keys -> 0 .. 255]]
  BY ConsoleAssumption

-----------------------------------------------------------------------------
(* The ring as a sequence.                                                 *)

PendingFacts ==
    /\ InputQueue \in 0 .. BufSize - 1
    /\ next_space = (next_char + InputQueue) % BufSize
    /\ Pending \in Seq(Char)
    /\ Len(Pending) = InputQueue
    /\ \A k \in 1 .. InputQueue : Pending[k] = ring[(next_char + (k - 1)) % BufSize]

LEMMA PendingIs == KeyboardInv => PendingFacts
  <1> SUFFICES ASSUME KeyboardInv PROVE PendingFacts
    OBVIOUS
  <1>1. BufSize \in Nat \ {0}
    BY KeyboardConstants
  <1>2. InputQueue \in 0 .. BufSize - 1
    BY <1>1 DEF InputQueue, KeyboardInv
  <1>3. next_space = (next_char + InputQueue) % BufSize
    <2>1. (next_char + InputQueue) % BufSize =
             IF next_char + InputQueue < BufSize THEN next_char + InputQueue
             ELSE next_char + InputQueue - BufSize
      <3>1. next_char \in 0 .. BufSize - 1 /\ InputQueue \in 0 .. BufSize
        BY <1>1, <1>2 DEF KeyboardInv
      <3> QED  BY <1>1, <3>1, RingStep
    <2> QED  BY <1>1, <2>1 DEF InputQueue, KeyboardInv
  <1>4. \A k \in 1 .. InputQueue : (next_char + (k - 1)) % BufSize \in 0 .. BufSize - 1
    <2> SUFFICES ASSUME NEW k \in 1 .. InputQueue
                 PROVE  (next_char + (k - 1)) % BufSize \in 0 .. BufSize - 1
      OBVIOUS
    <2>1. next_char \in 0 .. BufSize - 1
      BY DEF KeyboardInv
    <2>2. k - 1 \in 0 .. BufSize
      BY <1>1, <1>2
    <2> QED  BY <1>1, <2>1, <2>2, RingStep
  <1>5. Pending \in [1 .. InputQueue -> Char]
    BY <1>4 DEF Pending, KeyboardInv
  <1>6. Pending \in Seq(Char) /\ Len(Pending) = InputQueue
    BY <1>2, <1>5
  <1> QED  BY <1>2, <1>3, <1>6 DEF Pending, PendingFacts

LEMMA PendingNext == KeyboardInv' => PendingFacts'
  BY PendingIs, PTL

(* A key that finds room goes behind the others; one that finds none is    *)
(* dropped, and only then (__cio_input_queue holds BufSize - 1).           *)
LEMMA StoreTypes ==
    ASSUME KeyboardInv, NEW c \in Char, Store(c), next_char' = next_char,
           ctrl' \in BOOLEAN, shift' \in BOOLEAN
    PROVE  /\ KeyboardInv'
           /\ Pending' = IF Len(Pending) < BufSize - 1 THEN Append(Pending, c) ELSE Pending
  <1> DEFINE n == InputQueue
             cell(k) == (next_char + k) % BufSize
  <1>1. BufSize \in Nat \ {0, 1} /\ BufSize \in Nat \ {0}
    BY KeyboardConstants
  <1>2. /\ n \in 0 .. BufSize - 1 /\ next_space = cell(n)
        /\ Pending \in Seq(Char) /\ Len(Pending) = n
        /\ \A k \in 1 .. n : Pending[k] = ring[cell(k - 1)]
    BY PendingIs DEF PendingFacts
  <1>3. /\ next_char \in 0 .. BufSize - 1 /\ next_space \in 0 .. BufSize - 1
        /\ ring \in [0 .. BufSize - 1 -> Char]
    BY DEF KeyboardInv
  <1>4. Increment(next_space) # next_char <=> n < BufSize - 1
    BY <1>1, <1>3 DEF Increment, InputQueue
  <1>5. CASE n = BufSize - 1
    <2>1. UNCHANGED <<ring, next_space, next_char>>
      BY <1>1, <1>4, <1>5 DEF Store
    <2>2. Pending' = Pending
      BY <2>1 DEF Pending, InputQueue
    <2>3. ~(Len(Pending) < BufSize - 1)
      BY <1>1, <1>2, <1>5
    <2> QED  BY <1>3, <2>1, <2>2, <2>3 DEF KeyboardInv
  <1>6. CASE n < BufSize - 1
    <2>1. ring' = [ring EXCEPT ![next_space] = c] /\ next_space' = Increment(next_space)
      BY <1>4, <1>6 DEF Store
    <2>2. KeyboardInv'
      BY <1>1, <1>3, <2>1 DEF KeyboardInv, Increment
    <2>3. InputQueue' = n + 1
      BY <1>1, <1>3, <1>4, <1>6, <2>1 DEF InputQueue, Increment
    <2>4. /\ Pending' \in Seq(Char) /\ Len(Pending') = n + 1
          /\ \A k \in 1 .. n + 1 : Pending'[k] = ring'[cell(k - 1)]
      <3>1. /\ Pending' \in Seq(Char) /\ Len(Pending') = InputQueue'
            /\ \A k \in 1 .. InputQueue' :
                  Pending'[k] = ring'[(next_char' + (k - 1)) % BufSize]
        BY <2>2, PendingNext DEF PendingFacts
      <3> QED  BY <2>2, <2>3, <3>1
    <2>5. \A k \in 1 .. n : cell(k - 1) # next_space /\ cell(k - 1) \in 0 .. BufSize - 1
      <3> SUFFICES ASSUME NEW k \in 1 .. n
                   PROVE  cell(k - 1) # next_space /\ cell(k - 1) \in 0 .. BufSize - 1
        OBVIOUS
      <3>1. k - 1 \in 0 .. BufSize - 1 /\ n \in 0 .. BufSize - 1 /\ k - 1 # n /\ k - 1 \in 0 .. BufSize
        BY <1>1, <1>2
      <3>2. cell(k - 1) # cell(n)
        BY <1>1, <1>3, <3>1, RingCells
      <3>3. cell(k - 1) \in 0 .. BufSize - 1
        BY <1>1, <1>3, <3>1, RingStep
      <3> QED  BY <1>2, <3>2, <3>3
    <2>6. \A k \in 1 .. n : Pending'[k] = Pending[k]
      <3> SUFFICES ASSUME NEW k \in 1 .. n  PROVE Pending'[k] = Pending[k]
        OBVIOUS
      <3>1. k \in 1 .. n + 1
        BY <1>2
      <3>2. ring'[cell(k - 1)] = ring[cell(k - 1)]
        BY <1>3, <2>1, <2>5
      <3> QED  BY <1>2, <2>4, <3>1, <3>2
    <2>7. Pending'[n + 1] = c
      <3>1. n + 1 \in 1 .. n + 1 /\ (n + 1) - 1 = n
        BY <1>2
      <3>2. Pending'[n + 1] = ring'[cell(n)]
        BY <2>4, <3>1
      <3> QED  BY <1>2, <1>3, <2>1, <3>2
    <2>8. /\ Append(Pending, c) \in Seq(Char)
          /\ Len(Append(Pending, c)) = n + 1
          /\ \A k \in 1 .. n : Append(Pending, c)[k] = Pending[k]
          /\ Append(Pending, c)[n + 1] = c
      BY <1>2, AppendProperties
    <2>9. Pending' = Append(Pending, c)
      <3>1. \A k \in 1 .. n + 1 : Pending'[k] = Append(Pending, c)[k]
        <4>1. \A k \in 1 .. n + 1 : k \in 1 .. n \/ k = n + 1
          BY <1>2
        <4> QED  BY <2>6, <2>7, <2>8, <4>1
      <3> QED  BY <2>4, <2>8, <3>1, SeqEqual
    <2>10. Len(Pending) < BufSize - 1
      BY <1>2, <1>6
    <2> QED  BY <2>2, <2>9, <2>10
  <1> QED  BY <1>1, <1>2, <1>5, <1>6

(* A character that is taken is the oldest.                                *)
LEMMA GetCharTakes ==
    ASSUME KeyboardInv, GetChar
    PROVE  /\ KeyboardInv'
           /\ Pending # <<>>
           /\ Pending' = Tail(Pending)
           /\ taken' = <<Head(Pending)>>
  <1> DEFINE n == InputQueue
             cell(k) == (next_char + k) % BufSize
  <1>1. BufSize \in Nat \ {0, 1} /\ BufSize \in Nat \ {0}
    BY KeyboardConstants
  <1>2. /\ n \in 0 .. BufSize - 1 /\ next_space = cell(n)
        /\ Pending \in Seq(Char) /\ Len(Pending) = n
        /\ \A k \in 1 .. n : Pending[k] = ring[cell(k - 1)]
    BY PendingIs DEF PendingFacts
  <1>3. /\ next_char \in 0 .. BufSize - 1 /\ next_space \in 0 .. BufSize - 1
        /\ ring \in [0 .. BufSize - 1 -> Char]
    BY DEF KeyboardInv
  <1>4. /\ n > 0 /\ next_char' = Increment(next_char)
        /\ taken' = <<ring[next_char]>>
        /\ UNCHANGED <<ring, next_space, shift, ctrl>>
    BY DEF GetChar
  <1>5. KeyboardInv'
    BY <1>1, <1>3, <1>4 DEF KeyboardInv, Increment
  <1>6. InputQueue' = n - 1
    BY <1>1, <1>3, <1>4 DEF InputQueue, Increment
  <1>7. next_char' = cell(1)
    <2>1. 1 \in 0 .. BufSize
      BY <1>1
    <2>2. cell(1) = IF next_char + 1 < BufSize THEN next_char + 1 ELSE next_char + 1 - BufSize
      BY <1>1, <1>3, <2>1, RingStep
    <2> QED  BY <1>1, <1>3, <1>4, <2>2 DEF Increment
  <1>8. /\ Pending' \in Seq(Char) /\ Len(Pending') = n - 1
        /\ \A k \in 1 .. n - 1 : Pending'[k] = ring[(cell(1) + (k - 1)) % BufSize]
    <2>1. /\ Pending' \in Seq(Char) /\ Len(Pending') = InputQueue'
          /\ \A k \in 1 .. InputQueue' :
                Pending'[k] = ring'[(next_char' + (k - 1)) % BufSize]
      BY <1>5, PendingNext DEF PendingFacts
    <2> QED  BY <1>4, <1>5, <1>6, <1>7, <2>1
  <1>9. Pending # <<>>
    BY <1>2, <1>4
  <1>10. /\ Tail(Pending) \in Seq(Char) /\ Len(Tail(Pending)) = n - 1
         /\ \A k \in 1 .. n - 1 : Tail(Pending)[k] = Pending[k + 1]
    BY <1>2, <1>9, HeadTailProperties
  <1>11. \A k \in 1 .. n - 1 : Pending'[k] = Tail(Pending)[k]
    <2> SUFFICES ASSUME NEW k \in 1 .. n - 1  PROVE Pending'[k] = Tail(Pending)[k]
      OBVIOUS
    <2>1. k + 1 \in 1 .. n /\ (k + 1) - 1 = k /\ 1 + (k - 1) = k
      BY <1>2
    <2>2. (cell(1) + (k - 1)) % BufSize = (next_char + (1 + (k - 1))) % BufSize
      <3>1. 1 \in 0 .. BufSize /\ k - 1 \in 0 .. BufSize /\ 1 + (k - 1) <= BufSize
        BY <1>1, <1>2
      <3> QED  BY Zenon, <1>1, <1>3, <3>1, RingSum
    <2>3. Pending[k + 1] = ring[cell(k)]
      BY <1>2, <2>1
    <2> QED  BY <1>8, <1>10, <2>1, <2>2, <2>3
  <1>12. Pending' = Tail(Pending)
    BY <1>8, <1>10, <1>11, SeqEqual
  <1>13. Head(Pending) = ring[next_char]
    <2>1. Head(Pending) = Pending[1]
      OBVIOUS
    <2>2. 1 \in 1 .. n /\ 1 - 1 = 0
      BY <1>2, <1>4
    <2>3. cell(0) = next_char
      <3>1. 0 \in 0 .. BufSize
        BY <1>1
      <3>2. cell(0) = IF next_char + 0 < BufSize THEN next_char + 0 ELSE next_char + 0 - BufSize
        BY <1>1, <1>3, <3>1, RingStep
      <3> QED  BY <1>1, <1>3, <3>2
    <2> QED  BY <1>2, <2>1, <2>2, <2>3
  <1> QED  BY <1>4, <1>5, <1>9, <1>12, <1>13

-----------------------------------------------------------------------------
(* The steps.                                                              *)

LEMMA KeyboardInit == Init => KeyboardInv
  <1> SUFFICES ASSUME Init PROVE KeyboardInv
    OBVIOUS
  <1>1. BufSize \in Nat \ {0, 1}
    BY KeyboardConstants
  <1>2. 0 \in 0 .. BufSize - 1 /\ 0 \in Char
    BY <1>1 DEF Char
  <1>3. [i \in 0 .. BufSize - 1 |-> 0] \in [0 .. BufSize - 1 -> Char]
    BY <1>2
  <1> QED  BY <1>2, <1>3 DEF Init, KeyboardInv

(* What leaves the keyboard alone leaves its characters alone.             *)
LEMMA KeyboardKept ==
    ASSUME KeyboardInv, UNCHANGED keyboard
    PROVE  KeyboardInv' /\ Pending' = Pending
  BY DEF keyboard, KeyboardInv, Pending, InputQueue

Typed == {Masked(control, Table[s][k]) : control, s \in BOOLEAN, k \in Keys}

LEMMA KeyIsTyped ==
    ASSUME KeyboardInv, NEW code \in Keys
    PROVE  /\ Masked(ctrl, Table[shift][code]) \in Char
           /\ Masked(ctrl, Table[shift][code]) \in Typed
  <1>1. ctrl \in BOOLEAN /\ shift \in BOOLEAN
    BY DEF KeyboardInv
  <1>2. Table[shift][code] \in 0 .. 255
    BY <1>1, KeyboardConstants
  <1>3. Masked(ctrl, Table[shift][code]) \in Char
    BY <1>2 DEF Masked, Char
  <1> QED  BY <1>1, <1>3 DEF Typed

(* A scan code types a character or none.                                  *)
LEMMA ScanCodeTypes ==
    ASSUME KeyboardInv, NEW code, ScanCode(code)
    PROVE  /\ KeyboardInv'
           /\ \/ Pending' = Pending
              \/ \E c \in Typed :
                    Pending' = IF Len(Pending) < BufSize - 1 THEN Append(Pending, c) ELSE Pending
  <1>0. next_char' = next_char /\ ctrl \in BOOLEAN /\ shift \in BOOLEAN
    BY DEF ScanCode, KeyboardInv
  <1>1. CASE code \in Keys /\ Store(Masked(ctrl, Table[shift][code])) /\ UNCHANGED <<shift, ctrl>>
    <2> DEFINE c == Masked(ctrl, Table[shift][code])
    <2>1. c \in Char /\ c \in Typed
      BY <1>1, KeyIsTyped
    <2>2. /\ KeyboardInv'
          /\ Pending' = IF Len(Pending) < BufSize - 1 THEN Append(Pending, c) ELSE Pending
      <3> HIDE DEF c
      <3>1. Store(c)
        BY <1>1 DEF c
      <3>2. ctrl' \in BOOLEAN /\ shift' \in BOOLEAN
        BY <1>0, <1>1
      <3> QED  BY <1>0, <2>1, <3>1, <3>2, StoreTypes
    <2> QED  BY <2>1, <2>2
  <1>2. CASE /\ code \in {"shift", "shift up"} /\ shift' = (code = "shift")
             /\ UNCHANGED <<ctrl, ring, next_space>>
    <2>1. shift' \in BOOLEAN
      BY <1>2
    <2> QED  BY <1>0, <1>2, <2>1 DEF KeyboardInv, Pending, InputQueue
  <1>3. CASE /\ code \in {"control", "control up"} /\ ctrl' = (code = "control")
             /\ UNCHANGED <<shift, ring, next_space>>
    <2>1. ctrl' \in BOOLEAN
      BY <1>3
    <2> QED  BY <1>0, <1>3, <2>1 DEF KeyboardInv, Pending, InputQueue
  <1> QED  BY <1>1, <1>2, <1>3 DEF ScanCode

(* Every step is a step of the queue, and keeps the invariant.             *)
LEMMA KeyStep ==
    ASSUME KeyboardInv, [Next]_vars
    PROVE  KeyboardInv' /\ [Ahead!Next]_<<Pending, taken>>
  <1>1. ASSUME UNCHANGED keyboard, taken' = <<>>
        PROVE  KeyboardInv' /\ [Ahead!Next]_<<Pending, taken>>
    <2>1. KeyboardInv' /\ Pending' = Pending
      BY <1>1, KeyboardKept
    <2> QED  BY <1>1, <2>1 DEF Ahead!Next, Ahead!Other
  <1>2. ASSUME NEW code, ScanCode(code), taken' = <<>>
        PROVE  KeyboardInv' /\ [Ahead!Next]_<<Pending, taken>>
    <2>1. KeyboardInv'
      BY <1>2, ScanCodeTypes
    <2>2. \/ Pending' = Pending
          \/ \E c \in Typed :
                Pending' = IF Len(Pending) < BufSize - 1 THEN Append(Pending, c) ELSE Pending
      BY <1>2, ScanCodeTypes
    <2>3. CASE Pending' = Pending
      BY <1>2, <2>1, <2>3 DEF Ahead!Next, Ahead!Other
    <2>4. CASE \E c \in Typed :
                  Pending' = IF Len(Pending) < BufSize - 1 THEN Append(Pending, c) ELSE Pending
      BY <1>2, <2>1, <2>4 DEF Ahead!Next, Ahead!Type, Typed
    <2> QED  BY <2>2, <2>3, <2>4
  <1>3. ASSUME NEW s \in Strings, Write(s)
        PROVE  KeyboardInv' /\ [Ahead!Next]_<<Pending, taken>>
    BY <1>1, <1>3 DEF Write, Put
  <1>4. ASSUME NEW f \in Formats, NEW n \in Numbers, Printf(f, n) \/ WriteNumber(f, n)
        PROVE  KeyboardInv' /\ [Ahead!Next]_<<Pending, taken>>
    BY <1>1, <1>4 DEF Printf, WriteNumber, Put
  <1>5. CASE Spin
    BY <1>1, <1>5 DEF Spin
  <1>6. ASSUME NEW code \in Codes, KeyboardIsr(code) \/ Poll(code)
        PROVE  KeyboardInv' /\ [Ahead!Next]_<<Pending, taken>>
    BY <1>2, <1>6 DEF KeyboardIsr, Poll
  <1>7. ASSUME NEW length \in Lengths, Read(length)
        PROVE  KeyboardInv' /\ [Ahead!Next]_<<Pending, taken>>
    BY <1>1, <1>7 DEF Read
  <1>8. CASE GetChar
    BY <1>8, GetCharTakes DEF Ahead!Next, Ahead!Take
  <1>9. CASE UNCHANGED vars
    <2>1. UNCHANGED keyboard /\ taken' = taken
      BY <1>9 DEF vars, returned
    <2>2. KeyboardInv' /\ Pending' = Pending
      BY <2>1, KeyboardKept
    <2> QED  BY <2>1, <2>2
  <1> QED  BY <1>3, <1>4, <1>5, <1>6, <1>7, <1>8, <1>9 DEF Next

LEMMA KeyboardEmpty == Init => Ahead!Init
  <1> SUFFICES ASSUME Init PROVE Ahead!Init
    OBVIOUS
  <1>1. KeyboardInv
    BY KeyboardInit
  <1>2. InputQueue = 0 /\ taken = <<>>
    BY DEF Init, InputQueue
  <1>3. Pending = <<>>
    BY <1>1, <1>2, PendingIs DEF PendingFacts
  <1> QED  BY <1>2, <1>3 DEF Ahead!Init

LEMMA KeyboardInvariance == Spec => []KeyboardInv
  <1>1. KeyboardInv /\ [Next]_vars => KeyboardInv'
    BY KeyStep
  <1> QED  BY KeyboardInit, <1>1, PTL DEF Spec

(***************************************************************************)
(* The keyboard is a queue of BufSize - 1 characters: every key, of an     *)
(* interrupt or of a read that polls, is stored behind the others or, if   *)
(* there is no room, dropped; reads take each character once, in order.    *)
(***************************************************************************)
THEOREM KeyboardIsTypeAhead == Spec => ImplementsTypeAhead
  <1>1. KeyboardInv /\ [Next]_vars => [Ahead!Next]_<<Pending, taken>>
    BY KeyStep
  <1> QED  BY KeyboardEmpty, KeyboardInvariance, <1>1, PTL DEF Spec, ImplementsTypeAhead, Ahead!Spec

-----------------------------------------------------------------------------
(* The screen.  Both of what writing does: character after character on    *)
(* the screen, from s, and on the sheet, from w.                           *)

OneMore(b, c) == [s |-> Putchar(b.s, c), w |-> Drawn(b.w, c)]

LEMMA OneMoreIs ==
    ASSUME NEW b, NEW c
    PROVE  OneMore(b, c).s = Putchar(b.s, c) /\ OneMore(b, c).w = Drawn(b.w, c)
  BY DEF OneMore

Writes(f, s, w, chars, k) ==
    f = [n \in 0 .. k |-> IF n = 0 THEN [s |-> s, w |-> w] ELSE OneMore(f[n - 1], chars[n])]

LEMMA WritesExist ==
    ASSUME NEW s, NEW w, NEW chars, NEW k \in Nat
    PROVE  \E f : Writes(f, s, w, chars, k)
  <1> DEFINE S == {i \in Nat : ~ \E f : Writes(f, s, w, chars, i)}
  <1> SUFFICES ASSUME S # {} PROVE FALSE
    OBVIOUS
  <1>1. PICK m \in S : \A i \in S : m <= i
    <2> HIDE DEF S
    <2>1. S \in SUBSET Nat
      BY DEF S
    <2> QED  BY <2>1, LeastOf
  <1>2. m \in Nat /\ ~ \E f : Writes(f, s, w, chars, m)
    OBVIOUS
  <1> DEFINE none == [s |-> s, w |-> w]
  <1>3. m # 0
    <2> SUFFICES ASSUME m = 0 PROVE FALSE
      OBVIOUS
    <2> DEFINE f == [i \in 0 .. m |-> none]
    <2> HIDE DEF none
    <2>1. \A i \in 0 .. m : i = 0
      OBVIOUS
    <2>2. f = [i \in 0 .. m |-> IF i = 0 THEN none ELSE OneMore(f[i - 1], chars[i])]
      BY <2>1
    <2> HIDE DEF f
    <2> QED  BY <1>2, <2>2 DEF Writes, none
  <1>4. m - 1 \in Nat /\ m - 1 \notin S
    BY <1>1, <1>2, <1>3
  <1>5. PICK f : Writes(f, s, w, chars, m - 1)
    BY <1>4
  <1> DEFINE next == OneMore(f[m - 1], chars[m])
             g == [i \in 0 .. m |-> IF i = m THEN next ELSE f[i]]
  <1> HIDE DEF none
  <1>6. \A i \in 0 .. m : g[i] = IF i = 0 THEN none ELSE OneMore(g[i - 1], chars[i])
    <2> TAKE i \in 0 .. m
    <2>1. \A j \in 0 .. m - 1 : j \in 0 .. m /\ j # m
      BY <1>2
    <2>2. \A j \in 0 .. m - 1 : g[j] = f[j]
      BY <2>1
    <2>3. \A j \in 0 .. m - 1 : f[j] = IF j = 0 THEN none ELSE OneMore(f[j - 1], chars[j])
      BY <1>5 DEF Writes, none
    <2>4. CASE i = m
      <3>1. g[i] = next /\ m - 1 \in 0 .. m - 1
        BY <1>2, <1>3, <2>4
      <3> QED  BY <1>3, <2>2, <2>4, <3>1
    <2>5. CASE i # m
      <3>1. i \in 0 .. m - 1 /\ (i # 0 => i - 1 \in 0 .. m - 1)
        BY <1>2, <2>5
      <3> HIDE DEF g
      <3> QED  BY <2>2, <2>3, <3>1
    <2> QED  BY <2>4, <2>5
  <1>7. g = [i \in 0 .. m |-> g[i]]
    OBVIOUS
  <1> HIDE DEF g
  <1>8. Writes(g, s, w, chars, m)
    BY <1>6, <1>7 DEF Writes, none
  <1> QED  BY <1>2, <1>8

LEMMA WritesIs ==
    ASSUME NEW s, NEW w, NEW chars, NEW k \in Nat, NEW f, Writes(f, s, w, chars, k)
    PROVE  /\ f[0] = [s |-> s, w |-> w]
           /\ \A n \in 1 .. k : f[n] = OneMore(f[n - 1], chars[n])
  <1> DEFINE none == [s |-> s, w |-> w]
  <1> HIDE DEF none
  <1>1. \A n \in 0 .. k : f[n] = IF n = 0 THEN none ELSE OneMore(f[n - 1], chars[n])
    BY DEF Writes, none
  <1>2. 0 \in 0 .. k /\ \A n \in 1 .. k : n \in 0 .. k /\ n # 0
    OBVIOUS
  <1> QED  BY <1>1, <1>2 DEF none

(* What is put on the screen is what the steps put there.                  *)
LEMMA PutAllIs ==
    ASSUME NEW s, NEW chars, Len(chars) \in Nat
    PROVE  \E f : /\ f[0] = s
                  /\ \A n \in 1 .. Len(chars) : f[n] = Putchar(f[n - 1], chars[n])
                  /\ PutAll(s, chars) = f[Len(chars)]
  <1> DEFINE k == Len(chars)
             Step(f) == [n \in 0 .. k |-> IF n = 0 THEN s ELSE Putchar(f[n - 1], chars[n])]
             after == CHOOSE f : f = Step(f)
  <1>1. \E f : f = Step(f)
    <2>1. PICK b : Writes(b, s, EmptySheet, chars, k)
      BY WritesExist
    <2>2. b[0] = [s |-> s, w |-> EmptySheet]
          /\ \A n \in 1 .. k : b[n] = OneMore(b[n - 1], chars[n])
      BY <2>1, WritesIs
    <2> DEFINE f == [n \in 0 .. k |-> b[n].s]
    <2>3. b[0].s = s /\ \A n \in 1 .. k : b[n].s = Putchar(b[n - 1].s, chars[n])
      BY <2>2, OneMoreIs
    <2>4. \A n \in 1 .. k : n - 1 \in 0 .. k
      OBVIOUS
    <2>5. \A n \in 0 .. k : f[n] = IF n = 0 THEN s ELSE Putchar(f[n - 1], chars[n])
      <3> TAKE n \in 0 .. k
      <3>1. CASE n = 0
        BY <2>3, <3>1
      <3>2. CASE n # 0
        <4>1. n \in 1 .. k
          BY <3>2
        <4> QED  BY <2>3, <2>4, <3>2, <4>1
      <3> QED  BY <3>1, <3>2
    <2>6. f = [n \in 0 .. k |-> f[n]]
      OBVIOUS
    <2> HIDE DEF f, k
    <2>7. f = Step(f)
      BY <2>5, <2>6
    <2> QED  BY <2>7
  <1>2. after = Step(after)
    BY <1>1
  <1>3. PutAll(s, chars) = after[k]
    BY DEF PutAll
  <1> HIDE DEF after
  <1>4. after[0] = s /\ \A n \in 1 .. k : after[n] = Putchar(after[n - 1], chars[n])
    <2>1. \A n \in 0 .. k : after[n] = IF n = 0 THEN s ELSE Putchar(after[n - 1], chars[n])
      BY <1>2
    <2>2. 0 \in 0 .. k /\ \A n \in 1 .. k : n \in 0 .. k /\ n # 0
      OBVIOUS
    <2> QED  BY <2>1, <2>2
  <1> QED  BY <1>3, <1>4

SheetSteps(f, chars, k) ==
    f[0] = EmptySheet /\ \A n \in 1 .. k : f[n] = Drawn(f[n - 1], chars[n])

LEMMA SheetIs ==
    ASSUME NEW chars, Len(chars) \in Nat
    PROVE  \E f : SheetSteps(f, chars, Len(chars)) /\ SheetOf(chars) = f[Len(chars)]
  <1> DEFINE k == Len(chars)
             Step(f) == [n \in 0 .. k |-> IF n = 0 THEN EmptySheet ELSE Drawn(f[n - 1], chars[n])]
             drawn == CHOOSE f : f = Step(f)
  <1>1. \E f : f = Step(f)
    <2>1. PICK b : Writes(b, screen, EmptySheet, chars, k)
      BY WritesExist
    <2>2. b[0] = [s |-> screen, w |-> EmptySheet]
          /\ \A n \in 1 .. k : b[n] = OneMore(b[n - 1], chars[n])
      BY <2>1, WritesIs
    <2> DEFINE f == [n \in 0 .. k |-> b[n].w]
    <2>3. b[0].w = EmptySheet /\ \A n \in 1 .. k : b[n].w = Drawn(b[n - 1].w, chars[n])
      BY <2>2, OneMoreIs
    <2>4. \A n \in 1 .. k : n - 1 \in 0 .. k
      OBVIOUS
    <2>5. \A n \in 0 .. k : f[n] = IF n = 0 THEN EmptySheet ELSE Drawn(f[n - 1], chars[n])
      <3> TAKE n \in 0 .. k
      <3>1. CASE n = 0
        BY <2>3, <3>1
      <3>2. CASE n # 0
        <4>1. n \in 1 .. k
          BY <3>2
        <4> QED  BY <2>3, <2>4, <3>2, <4>1
      <3> QED  BY <3>1, <3>2
    <2>6. f = [n \in 0 .. k |-> f[n]]
      OBVIOUS
    <2> HIDE DEF f, k
    <2>7. f = Step(f)
      BY <2>5, <2>6
    <2> QED  BY <2>7
  <1>2. drawn = Step(drawn)
    BY <1>1
  <1>3. SheetOf(chars) = drawn[k]
    BY DEF SheetOf
  <1> HIDE DEF drawn
  <1>4. SheetSteps(drawn, chars, k)
    <2>1. \A n \in 0 .. k : drawn[n] = IF n = 0 THEN EmptySheet ELSE Drawn(drawn[n - 1], chars[n])
      BY <1>2
    <2>2. 0 \in 0 .. k /\ \A n \in 1 .. k : n \in 0 .. k /\ n # 0
      OBVIOUS
    <2> QED  BY <2>1, <2>2 DEF SheetSteps
  <1> QED  BY <1>3, <1>4

(* A text is drawn in one way, whatever follows it.                        *)
StartsWith(more, chars, k) == \A n \in 1 .. k : more[n] = chars[n]

LEMMA OneSheet ==
    ASSUME NEW chars, NEW more, NEW k \in Nat, StartsWith(more, chars, k),
           NEW f, SheetSteps(f, chars, k), NEW g, SheetSteps(g, more, k)
    PROVE  f[k] = g[k]
  <1> DEFINE S == {i \in 0 .. k : f[i] # g[i]}
  <1> SUFFICES ASSUME S # {} PROVE FALSE
    <2>1. k \in 0 .. k
      OBVIOUS
    <2> QED  BY <2>1
  <1>1. PICK m \in S : \A i \in S : m <= i
    <2> HIDE DEF S
    <2>1. S \in SUBSET Nat
      BY DEF S
    <2> QED  BY <2>1, LeastOf
  <1>2. m \in 0 .. k /\ f[m] # g[m]
    OBVIOUS
  <1>3. m # 0
    BY <1>2 DEF SheetSteps
  <1>4. m \in 1 .. k /\ m - 1 \in 0 .. k /\ ~(m <= m - 1)
    BY <1>2, <1>3
  <1>5. f[m - 1] = g[m - 1]
    BY <1>1, <1>4
  <1>6. f[m] = Drawn(f[m - 1], chars[m]) /\ g[m] = Drawn(g[m - 1], more[m])
    BY <1>4 DEF SheetSteps
  <1>7. more[m] = chars[m]
    BY <1>4 DEF StartsWith
  <1> QED  BY <1>2, <1>5, <1>6, <1>7

-----------------------------------------------------------------------------
(* What the screen shows of the sheet, after n characters.                 *)

Papers ==
    [ink : [Columns \X (1 .. Rows + MaxText) -> Char], last : Nat, row : Nat, x : Columns,
     ret : BOOLEAN]
Screens ==
    [cell : [Columns \X (0 .. Height - 1) -> Char], x : Columns, y : Top .. Height, ret : BOOLEAN]

(* The pen is on one of the last lines, or at the start of a new one, and  *)
(* nothing is written below.                                               *)
SheetFits(w, n) ==
    /\ w \in Papers
    /\ w.row \in 1 .. n + 1 /\ w.last \in Rows .. Rows + n
    /\ w.row <= w.last + 1 /\ w.last - w.row < Rows
    /\ w.row = w.last + 1 => w.x = 0
    /\ \A x \in Columns, y \in w.last + 1 .. Rows + MaxText : w.ink[<<x, y>>] = Blank

Heads(s, t) ==
    \A x \in Columns, y \in 0 .. Top - 1 :
        s.cell[<<x, y>>] = Heading(t, x, y) \/ <<x, y>> = Corner
LeftAlone(s) == \E t \in Traces \cup {Untouched} : Heads(s, t)
Shows(s, w) ==
    \A x \in Columns, y \in Lines : s.cell[<<x, y>>] = w.ink[<<x, w.last - (Height - 1 - y)>>]

ScreenFits(s, w, n) ==
    /\ s \in Screens /\ LeftAlone(s) /\ SheetFits(w, n) /\ Shows(s, w)
    /\ s.x = w.x /\ s.ret = w.ret /\ s.y = Height - 1 - (w.last - w.row)

LEMMA ScreenConstants ==
    /\ Width \in Nat \ {0} /\ Height \in Nat /\ MaxText \in Nat
    /\ Top \in 1 .. Height - 1 /\ Top \in 2 .. Height - 1
    /\ Rows \in 1 .. Height - 1 /\ Rows = Height - Top
    /\ Blank \in Char /\ Old \in Char /\ Columns = 0 .. Width - 1 /\ Lines = Top .. Height - 1
  BY ConsoleAssumption DEF Rows, Blank, Old, Char, Columns, Lines

(* The sheet with a new line begun, if the pen is there.                   *)
Turned(w) == [w EXCEPT !.last = IF w.row > w.last THEN w.row ELSE w.last]
Moved(w)  == [w EXCEPT !.row = IF w.x = Width - 1 THEN w.row + 1 ELSE w.row,
                       !.x = IF w.x = Width - 1 THEN 0 ELSE w.x + 1, !.ret = FALSE]

LEMMA NextColumn ==
    ASSUME NEW x \in Columns, NEW row \in Nat
    PROVE  /\ (x + 1) % Width = IF x = Width - 1 THEN 0 ELSE x + 1
           /\ row + ((x + 1) \div Width) = IF x = Width - 1 THEN row + 1 ELSE row
  <1>1. Width \in Nat \ {0} /\ x \in 0 .. Width - 1
    BY ScreenConstants
  <1>2. CASE x = Width - 1
    <2>1. x + 1 = Width
      BY <1>1, <1>2
    <2>2. Width % Width = 0 /\ Width \div Width = 1
      BY <1>1
    <2> QED  BY <1>2, <2>1, <2>2
  <1>3. CASE x # Width - 1
    <2>1. x + 1 \in 1 .. Width - 1
      BY <1>1, <1>3
    <2>2. (x + 1) % Width = x + 1 /\ (x + 1) \div Width = 0
      BY <1>1, <2>1
    <2> QED  BY <1>3, <2>2
  <1> QED  BY <1>2, <1>3

LEMMA DrawnIs ==
    ASSUME NEW w \in Papers, NEW c
    PROVE  LET v == Turned(w)
           IN  Drawn(w, c) =
                 IF c = CR THEN [v EXCEPT !.x = 0, !.ret = TRUE]
                 ELSE IF c = LF
                 THEN [v EXCEPT !.ink = IF v.ret THEN @
                                        ELSE [q \in DOMAIN v.ink |->
                                                IF q[2] = v.row /\ q[1] >= v.x THEN Blank ELSE v.ink[q]],
                                !.row = @ + 1, !.x = 0, !.ret = FALSE]
                 ELSE Moved([v EXCEPT !.ink = [@ EXCEPT ![<<v.x, v.row>>] = c]])
  <1>1. w.last \in Nat /\ w.row \in Nat /\ w.x \in Columns
    BY DEF Papers
  <1>2. Max({w.last, w.row}) = IF w.row > w.last THEN w.row ELSE w.last
    BY <1>1, MaxOfTwo
  <1>3. w = [ink |-> w.ink, last |-> w.last, row |-> w.row, x |-> w.x, ret |-> w.ret]
    BY DEF Papers
  <1>4. CASE c = CR
    BY <1>2, <1>3, <1>4 DEF Drawn, Turned
  <1>5. CASE c = LF
    BY <1>2, <1>3, <1>5 DEF Drawn, Turned, CR, LF
  <1>6. CASE c # CR /\ c # LF
    <2>1. /\ (w.x + 1) % Width = IF w.x = Width - 1 THEN 0 ELSE w.x + 1
          /\ w.row + ((w.x + 1) \div Width) = IF w.x = Width - 1 THEN w.row + 1 ELSE w.row
      BY <1>1, NextColumn
    <2> QED  BY <1>2, <1>3, <1>6, <2>1 DEF Drawn, Turned, Moved
  <1> QED  BY <1>4, <1>5, <1>6

OnLine(s, w, n) == ScreenFits(s, w, n) /\ w.row <= w.last

LEMMA PaperIs ==
    ASSUME NEW w \in Papers
    PROVE  /\ w.ink \in [Columns \X (1 .. Rows + MaxText) -> Char]
           /\ w.last \in Nat /\ w.row \in Nat /\ w.x \in Columns /\ w.ret \in BOOLEAN
  BY DEF Papers

LEMMA ScreenIs ==
    ASSUME NEW s \in Screens
    PROVE  /\ s.cell \in [Columns \X (0 .. Height - 1) -> Char]
           /\ s.x \in Columns /\ s.y \in Top .. Height /\ s.ret \in BOOLEAN
  BY DEF Screens

(* Scrolling waits for the next character: then a new line is begun.       *)
LEMMA LineBegins ==
    ASSUME NEW s, NEW w, NEW n \in Nat, n < MaxText, ScreenFits(s, w, n)
    PROVE  OnLine(InRegion(s), Turned(w), n)
  <1>1. /\ Width \in Nat \ {0} /\ Height \in Nat /\ Top \in 1 .. Height - 1 /\ MaxText \in Nat
        /\ Rows = Height - Top /\ Rows \in 1 .. Height - 1
        /\ Columns = 0 .. Width - 1 /\ Lines = Top .. Height - 1 /\ Blank \in Char
    BY ScreenConstants
  <1>2. /\ s \in Screens /\ LeftAlone(s) /\ w \in Papers /\ Shows(s, w)
        /\ s.x = w.x /\ s.ret = w.ret /\ s.y = Height - 1 - (w.last - w.row)
        /\ w.row \in 1 .. n + 1 /\ w.last \in Rows .. Rows + n
        /\ w.row <= w.last + 1 /\ w.last - w.row < Rows
        /\ (w.row = w.last + 1 => w.x = 0)
        /\ \A x \in Columns, y \in w.last + 1 .. Rows + MaxText : w.ink[<<x, y>>] = Blank
    BY DEF ScreenFits, SheetFits
  <1>5. /\ w.last \in Nat /\ w.row \in Nat /\ w.x \in Columns /\ w.ret \in BOOLEAN
        /\ w = [ink |-> w.ink, last |-> w.last, row |-> w.row, x |-> w.x, ret |-> w.ret]
        /\ w.ink \in [Columns \X (1 .. Rows + MaxText) -> Char]
    BY <1>2 DEF Papers
  <1>6. /\ Rows \in Nat \ {0} /\ MaxText \in Nat /\ n < MaxText
        /\ w.row <= n + 1 /\ Rows <= w.last /\ w.last <= Rows + n
    BY SMTT(30), <1>1, <1>2
  <1>3. CASE w.row <= w.last
    <2>1. Turned(w) = w
      BY <1>2, <1>3, <1>5 DEF Turned, Papers
    <2>2. InRegion(s) = s
      BY SMTT(30), <1>1, <1>2, <1>3, <1>5 DEF InRegion
    <2> QED  BY <1>3, <2>1, <2>2 DEF OnLine
  <1>4. CASE w.row = w.last + 1
    <2>1. s.y = Height /\ s.x = 0 /\ w.x = 0 /\ s.y - (Height - 1) = 1
      BY SMTT(30), <1>1, <1>2, <1>4, <1>5
    <2> DEFINE t == InRegion(s)
               v == Turned(w)
    <2>2. t = Scrolled(s, 1)
      BY <1>1, <2>1 DEF InRegion
    <2>3. /\ v \in Papers /\ v.row = w.row /\ v.last = w.row /\ v.ink = w.ink /\ v.x = 0
          /\ v.ret = w.ret
      <3>1. v = [ink |-> w.ink, last |-> w.row, row |-> w.row, x |-> w.x, ret |-> w.ret]
        BY <1>4, <1>5 DEF Turned
      <3> HIDE DEF v
      <3>2. v \in Papers
        BY <1>5, <3>1 DEF Papers
      <3> QED  BY <2>1, <3>1, <3>2
    <2>4. /\ t \in Screens /\ t.x = 0 /\ t.y = Height - 1 /\ t.ret = s.ret
          /\ \A x \in Columns, y \in 0 .. Top - 1 : t.cell[<<x, y>>] = s.cell[<<x, y>>]
          /\ \A x \in Columns, y \in Top .. Height - 2 : t.cell[<<x, y>>] = s.cell[<<x, y + 1>>]
          /\ \A x \in Columns : t.cell[<<x, Height - 1>>] = Blank
      <3>1. s.cell \in [Columns \X (0 .. Height - 1) -> Char] /\ s.ret \in BOOLEAN
            /\ DOMAIN s.cell = Columns \X (0 .. Height - 1)
        BY <1>2, ScreenIs
      <3> DEFINE moved == [p \in Columns \X (0 .. Height - 1) |->
                             IF p[2] \notin Lines THEN s.cell[p]
                             ELSE IF p[2] + 1 <= Height - 1 THEN s.cell[<<p[1], p[2] + 1>>]
                             ELSE Blank]
      <3>2. t = [cell |-> moved, x |-> 0, y |-> Height - 1, ret |-> s.ret]
        <4>1. s = [cell |-> s.cell, x |-> 0, y |-> s.y, ret |-> s.ret]
          BY <1>2, <2>1 DEF Screens
        <4>2. CASE 1 > Height - 1 - Top
          <5>1. Lines = {Height - 1}
            BY <1>1, <4>2
          <5>2. moved = [p \in DOMAIN s.cell |-> IF p[2] \in Lines THEN Blank ELSE s.cell[p]]
            BY <1>1, <3>1, <5>1
          <5> HIDE DEF moved
          <5>3. t = [s EXCEPT !.cell = moved, !.x = 0, !.y = Height - 1]
            BY <2>2, <4>2, <5>2 DEF Scrolled
          <5> QED  BY <4>1, <5>3
        <4>3. CASE ~(1 > Height - 1 - Top)
          <5>1. moved = [p \in DOMAIN s.cell |->
                             IF p[2] \notin Lines THEN s.cell[p]
                             ELSE IF p[2] + 1 <= Height - 1 THEN s.cell[<<p[1], p[2] + 1>>]
                             ELSE Blank]
            BY <3>1
          <5> HIDE DEF moved
          <5>2. t = [s EXCEPT !.cell = moved, !.y = Height - 1]
            BY <2>2, <4>3, <5>1 DEF Scrolled
          <5>3. s.x = 0
            BY <2>1
          <5> QED  BY <4>1, <5>2, <5>3
        <4> QED  BY <4>2, <4>3
      <3>3. /\ moved \in [Columns \X (0 .. Height - 1) -> Char]
            /\ \A x \in Columns, y \in 0 .. Top - 1 : moved[<<x, y>>] = s.cell[<<x, y>>]
            /\ \A x \in Columns, y \in Top .. Height - 2 : moved[<<x, y>>] = s.cell[<<x, y + 1>>]
            /\ \A x \in Columns : moved[<<x, Height - 1>>] = Blank
        <4>1. ASSUME NEW p \in Columns \X (0 .. Height - 1)
              PROVE  moved[p] \in Char
          <5>1. p[2] \in Lines /\ p[2] + 1 <= Height - 1 =>
                   <<p[1], p[2] + 1>> \in Columns \X (0 .. Height - 1)
            BY <1>1
          <5> QED  BY <1>1, <3>1, <5>1
        <4>2. ASSUME NEW x \in Columns, NEW y \in 0 .. Height - 1
              PROVE  moved[<<x, y>>] = IF y \notin Lines THEN s.cell[<<x, y>>]
                             ELSE IF y + 1 <= Height - 1 THEN s.cell[<<x, y + 1>>]
                             ELSE Blank
          OBVIOUS
        <4>4. 0 .. Top - 1 \subseteq 0 .. Height - 1 /\ Top .. Height - 2 \subseteq 0 .. Height - 1
              /\ Height - 1 \in 0 .. Height - 1
          BY <1>1
        <4>5. /\ \A y \in 0 .. Top - 1 : y \notin Lines
              /\ \A y \in Top .. Height - 2 : y \in Lines /\ y + 1 <= Height - 1
              /\ Height - 1 \in Lines /\ ~((Height - 1) + 1 <= Height - 1)
          BY <1>1
        <4>3. moved \in [Columns \X (0 .. Height - 1) -> Char]
          BY <4>1
        <4> HIDE DEF moved
        <4> QED  BY <4>2, <4>3, <4>4, <4>5
      <3> HIDE DEF moved, t
      <3>4. t.cell = moved /\ t.x = 0 /\ t.y = Height - 1 /\ t.ret = s.ret
        BY <3>2
      <3>5. t \in Screens
        BY <1>1, <3>1, <3>2, <3>3 DEF Screens
      <3> QED  BY <3>3, <3>4, <3>5
    <2> HIDE DEF t, v
    <2>5. LeftAlone(t)
      <3>1. \A x \in Columns, y \in 0 .. Top - 1 : t.cell[<<x, y>>] = s.cell[<<x, y>>]
        BY <2>4
      <3>2. LeftAlone(s)
        BY <1>2
      <3> QED  BY <3>1, <3>2 DEF LeftAlone, Heads
    <2>6. SheetFits(v, n)
      <3>1. v.row \in 1 .. n + 1 /\ v.last \in Rows .. Rows + n
        BY <1>4, <1>5, <1>6, <2>3
      <3>2. v.row <= v.last + 1 /\ v.last - v.row < Rows /\ (v.row = v.last + 1 => v.x = 0)
        BY SMTT(30), <1>1, <1>2, <2>3, <1>5
      <3>3. \A x \in Columns, y \in v.last + 1 .. Rows + MaxText : v.ink[<<x, y>>] = Blank
        <4>1. v.last + 1 .. Rows + MaxText \subseteq w.last + 1 .. Rows + MaxText
          BY SMTT(30), <1>1, <1>4, <1>5, <2>3
        <4> QED  BY <1>2, <2>3, <4>1
      <3> QED  BY <2>3, <3>1, <3>2, <3>3 DEF SheetFits
    <2>7. Shows(t, v)
      <3> SUFFICES ASSUME NEW x \in Columns, NEW y \in Lines
                   PROVE  t.cell[<<x, y>>] = v.ink[<<x, v.last - (Height - 1 - y)>>]
        BY DEF Shows
      <3>1. CASE y = Height - 1
        <4>1. v.last - (Height - 1 - y) = w.last + 1 /\ w.last + 1 \in w.last + 1 .. Rows + MaxText
          <5>1. v.last - (Height - 1 - y) = w.last + 1
            BY SMTT(30), <1>1, <1>4, <1>5, <2>3, <3>1
          <5>2. w.last + 1 \in w.last + 1 .. Rows + MaxText
            BY <1>5, <1>6
          <5> QED  BY <5>1, <5>2
        <4> QED  BY <1>2, <2>3, <2>4, <3>1, <4>1
      <3>2. CASE y # Height - 1
        <4>1. y \in Top .. Height - 2 /\ y + 1 \in Lines
          BY <1>1, <3>2
        <4>2. v.last - (Height - 1 - y) = w.last - (Height - 1 - (y + 1))
          BY SMTT(30), <1>1, <1>4, <1>5, <2>3, <4>1
        <4> QED  BY <1>2, <2>3, <2>4, <4>1, <4>2 DEF Shows
      <3> QED  BY <3>1, <3>2
    <2>8. t.y = Height - 1 - (v.last - v.row)
      BY <1>1, <1>2, <2>3, <2>4, <1>5
    <2>9. ScreenFits(t, v, n) /\ v.row <= v.last
      BY <1>2, <2>3, <2>4, <2>5, <2>6, <2>7, <2>8, PaperIs DEF ScreenFits
    <2> QED  BY <2>9 DEF OnLine, t, v
  <1> QED  BY <1>2, <1>3, <1>4, <1>5

(* A character changes the line of the pen, the same here and there.       *)
SameLine(s, w, cell, ink) ==
    /\ cell \in [Columns \X (0 .. Height - 1) -> Char]
    /\ ink \in [Columns \X (1 .. Rows + MaxText) -> Char]
    /\ \A x \in Columns, y \in 0 .. Height - 1 : y # s.y => cell[<<x, y>>] = s.cell[<<x, y>>]
    /\ \A x \in Columns, y \in 1 .. Rows + MaxText : y # w.row => ink[<<x, y>>] = w.ink[<<x, y>>]
    /\ \A x \in Columns : cell[<<x, s.y>>] = ink[<<x, w.row>>]

LineFacts(s, w, n) ==
    /\ s \in Screens /\ LeftAlone(s) /\ w \in Papers /\ Shows(s, w)
    /\ s = [cell |-> s.cell, x |-> w.x, y |-> s.y, ret |-> w.ret]
    /\ w = [ink |-> w.ink, last |-> w.last, row |-> w.row, x |-> w.x, ret |-> w.ret]
    /\ s.cell \in [Columns \X (0 .. Height - 1) -> Char]
    /\ w.ink \in [Columns \X (1 .. Rows + MaxText) -> Char]
    /\ w.x \in Columns /\ w.ret \in BOOLEAN
    /\ s.y = Height - 1 - (w.last - w.row) /\ s.y \in Lines /\ s.y \in 0 .. Height - 1
    /\ w.row \in 1 .. n + 1 /\ w.row \in 1 .. Rows + MaxText
    /\ w.last \in Rows .. Rows + n /\ w.row <= w.last /\ w.last - w.row < Rows
    /\ \A x \in Columns, y \in w.last + 1 .. Rows + MaxText : w.ink[<<x, y>>] = Blank
    /\ \A x \in Columns : s.cell[<<x, s.y>>] = w.ink[<<x, w.row>>]

LEMMA OnLineIs ==
    ASSUME NEW s, NEW w, NEW n \in Nat, n < MaxText, OnLine(s, w, n)
    PROVE  LineFacts(s, w, n)
  <1>1. /\ Height \in Nat /\ Top \in 1 .. Height - 1 /\ MaxText \in Nat
        /\ Rows = Height - Top /\ Rows \in 1 .. Height - 1 /\ Lines = Top .. Height - 1
    BY ScreenConstants
  <1>2. /\ s \in Screens /\ LeftAlone(s) /\ w \in Papers /\ Shows(s, w)
        /\ s.x = w.x /\ s.ret = w.ret /\ s.y = Height - 1 - (w.last - w.row)
        /\ w.row \in 1 .. n + 1 /\ w.last \in Rows .. Rows + n
        /\ w.row <= w.last /\ w.last - w.row < Rows
        /\ \A x \in Columns, y \in w.last + 1 .. Rows + MaxText : w.ink[<<x, y>>] = Blank
    BY DEF OnLine, ScreenFits, SheetFits
  <1>3. /\ s = [cell |-> s.cell, x |-> w.x, y |-> s.y, ret |-> w.ret]
        /\ s.cell \in [Columns \X (0 .. Height - 1) -> Char]
    BY <1>2 DEF Screens
  <1>4. /\ w = [ink |-> w.ink, last |-> w.last, row |-> w.row, x |-> w.x, ret |-> w.ret]
        /\ w.ink \in [Columns \X (1 .. Rows + MaxText) -> Char]
        /\ w.x \in Columns /\ w.ret \in BOOLEAN
    BY <1>2 DEF Papers
  <1>5. s.y \in Lines /\ s.y \in 0 .. Height - 1 /\ w.row \in 1 .. Rows + MaxText
    BY SMTT(30), <1>1, <1>2
  <1>6. w.last - (Height - 1 - s.y) = w.row
    BY <1>1, <1>2
  <1>7. \A x \in Columns : s.cell[<<x, s.y>>] = w.ink[<<x, w.row>>]
    BY <1>2, <1>5, <1>6 DEF Shows
  <1> QED  BY <1>2, <1>3, <1>4, <1>5, <1>7 DEF LineFacts

LEMMA CharacterFits ==
    ASSUME NEW s, NEW w, NEW n \in Nat, n < MaxText, OnLine(s, w, n),
           NEW cell, NEW ink, SameLine(s, w, cell, ink),
           NEW x2 \in Columns, NEW down \in {0, 1}, down = 1 => x2 = 0, NEW ret \in BOOLEAN
    PROVE  ScreenFits([cell |-> cell, x |-> x2, y |-> s.y + down, ret |-> ret],
                      [ink |-> ink, last |-> w.last, row |-> w.row + down, x |-> x2, ret |-> ret],
                      n + 1)
  <1> DEFINE t == [cell |-> cell, x |-> x2, y |-> s.y + down, ret |-> ret]
             v == [ink |-> ink, last |-> w.last, row |-> w.row + down, x |-> x2, ret |-> ret]
  <1>1. /\ Height \in Nat /\ Top \in 1 .. Height - 1 /\ MaxText \in Nat
        /\ Rows = Height - Top /\ Rows \in 1 .. Height - 1 /\ Lines = Top .. Height - 1
    BY ScreenConstants
  <1>2. /\ LeftAlone(s) /\ Shows(s, w)
        /\ s.y = Height - 1 - (w.last - w.row) /\ s.y \in Lines
        /\ w.row \in 1 .. n + 1 /\ w.last \in Rows .. Rows + n
        /\ w.row <= w.last /\ w.last - w.row < Rows
        /\ \A x \in Columns, y \in w.last + 1 .. Rows + MaxText : w.ink[<<x, y>>] = Blank
    BY OnLineIs DEF LineFacts
  <1>3. /\ t.cell = cell /\ t.x = x2 /\ t.y = s.y + down /\ t.ret = ret
        /\ v.ink = ink /\ v.last = w.last /\ v.row = w.row + down /\ v.x = x2 /\ v.ret = ret
    OBVIOUS
  <1>4. t \in Screens
    <2>1. s.y + down \in Top .. Height
      BY SMTT(30), <1>1, <1>2
    <2> QED  BY <2>1 DEF Screens, SameLine
  <1>5. v \in Papers
    <2>1. w.row + down \in Nat /\ w.last \in Nat
      BY SMTT(30), <1>1, <1>2
    <2> QED  BY <2>1 DEF Papers, SameLine
  <1> HIDE DEF t, v
  <1>6. LeftAlone(t)
    <2>1. \A y \in 0 .. Top - 1 : y \in 0 .. Height - 1 /\ y # s.y
      BY <1>1, <1>2
    <2>2. \A x \in Columns, y \in 0 .. Top - 1 : t.cell[<<x, y>>] = s.cell[<<x, y>>]
      BY <1>3, <2>1 DEF SameLine
    <2>3. LeftAlone(s)
      BY <1>2
    <2> QED  BY <2>2, <2>3 DEF LeftAlone, Heads
  <1>7. SheetFits(v, n + 1)
    <2> DEFINE a == w.row
               z == w.last
    <2>4. /\ a \in Nat /\ z \in Nat /\ Rows \in Nat /\ 1 <= a /\ a <= n + 1
          /\ Rows <= z /\ z <= Rows + n /\ a <= z /\ z - a < Rows
      BY <1>1, <1>2
    <2>5. v.row = a + down /\ v.last = z /\ v.x = x2
      BY <1>3
    <2> HIDE DEF a, z
    <2>1. v.row \in 1 .. (n + 1) + 1 /\ v.last \in Rows .. Rows + (n + 1)
      <3>1. CASE down = 0
        BY <2>4, <2>5, <3>1
      <3>2. CASE down = 1
        BY <2>4, <2>5, <3>2
      <3> QED  BY <3>1, <3>2
    <2>2. v.row <= v.last + 1 /\ v.last - v.row < Rows /\ (v.row = v.last + 1 => v.x = 0)
      <3>1. CASE down = 0
        BY <2>4, <2>5, <3>1
      <3>2. CASE down = 1
        BY <2>4, <2>5, <3>2
      <3> QED  BY <3>1, <3>2
    <2>3. \A x \in Columns, y \in v.last + 1 .. Rows + MaxText : v.ink[<<x, y>>] = Blank
      <3>1. \A y \in v.last + 1 .. Rows + MaxText :
               y \in 1 .. Rows + MaxText /\ y # w.row /\ y \in w.last + 1 .. Rows + MaxText
        BY SMTT(30), <1>1, <1>2, <1>3
      <3>2. \A x \in Columns, y \in w.last + 1 .. Rows + MaxText : w.ink[<<x, y>>] = Blank
        BY <1>2
      <3>3. \A x \in Columns, y \in 1 .. Rows + MaxText : y # w.row => ink[<<x, y>>] = w.ink[<<x, y>>]
        BY DEF SameLine
      <3>4. v.ink = ink
        BY <1>3
      <3> TAKE x \in Columns, y \in v.last + 1 .. Rows + MaxText
      <3>5. ink[<<x, y>>] = w.ink[<<x, y>>]
        BY <3>1, <3>3
      <3>6. w.ink[<<x, y>>] = Blank
        BY <3>1, <3>2
      <3> QED  BY <3>4, <3>5, <3>6
    <2> QED  BY <1>5, <2>1, <2>2, <2>3 DEF SheetFits
  <1>8. Shows(t, v)
    <2> SUFFICES ASSUME NEW x \in Columns, NEW y \in Lines
                 PROVE  t.cell[<<x, y>>] = v.ink[<<x, v.last - (Height - 1 - y)>>]
      BY DEF Shows
    <2>1. CASE y = s.y
      <3>1. v.last - (Height - 1 - y) = w.row
        BY SMTT(30), <1>1, <1>2, <1>3, <2>1
      <3> QED  BY <1>3, <2>1, <3>1 DEF SameLine
    <2>2. CASE y # s.y
      <3> DEFINE z == w.last - (Height - 1 - y)
      <3>1. z # w.row /\ z \in 1 .. Rows + MaxText /\ y \in 0 .. Height - 1
        BY SMTT(30), <1>1, <1>2, <2>2
      <3>2. s.cell[<<x, y>>] = w.ink[<<x, z>>]
        BY <1>2 DEF Shows
      <3>3. v.last - (Height - 1 - y) = z
        BY <1>3
      <3> HIDE DEF z
      <3>4. cell[<<x, y>>] = s.cell[<<x, y>>] /\ ink[<<x, z>>] = w.ink[<<x, z>>]
        BY <2>2, <3>1 DEF SameLine
      <3> QED  BY <1>3, <3>2, <3>3, <3>4
    <2> QED  BY <2>1, <2>2
  <1>9. t.x = v.x /\ t.ret = v.ret /\ t.y = Height - 1 - (v.last - v.row)
    BY SMTT(30), <1>1, <1>2, <1>3
  <1>10. ScreenFits(t, v, n + 1)
    BY <1>4, <1>6, <1>7, <1>8, <1>9 DEF ScreenFits
  <1> QED  BY <1>10 DEF t, v

LEMMA CharacterStays ==
    ASSUME NEW s, NEW w, NEW n \in Nat, n < MaxText, OnLine(s, w, n),
           NEW cell, NEW ink, SameLine(s, w, cell, ink), NEW x2 \in Columns, NEW ret \in BOOLEAN
    PROVE  ScreenFits([cell |-> cell, x |-> x2, y |-> s.y, ret |-> ret],
                      [ink |-> ink, last |-> w.last, row |-> w.row, x |-> x2, ret |-> ret], n + 1)
  <1>1. s.y \in Int /\ w.row \in Int
    BY OnLineIs, ScreenConstants DEF LineFacts
  <1> DEFINE down == 0
  <1>2. down \in {0, 1} /\ (down = 1 => x2 = 0) /\ s.y + down = s.y /\ w.row + down = w.row
    BY <1>1
  <1> HIDE DEF down
  <1>3. ScreenFits([cell |-> cell, x |-> x2, y |-> s.y + down, ret |-> ret],
                   [ink |-> ink, last |-> w.last, row |-> w.row + down, x |-> x2, ret |-> ret], n + 1)
    BY <1>2, CharacterFits
  <1> QED  BY <1>2, <1>3

LEMMA CharacterEnds ==
    ASSUME NEW s, NEW w, NEW n \in Nat, n < MaxText, OnLine(s, w, n),
           NEW cell, NEW ink, SameLine(s, w, cell, ink)
    PROVE  ScreenFits([cell |-> cell, x |-> 0, y |-> s.y + 1, ret |-> FALSE],
                      [ink |-> ink, last |-> w.last, row |-> w.row + 1, x |-> 0, ret |-> FALSE], n + 1)
  <1>1. 0 \in Columns /\ 1 \in {0, 1} /\ FALSE \in BOOLEAN
    BY ScreenConstants
  <1> QED  BY <1>1, CharacterFits

LEMMA PutcharFits ==
    ASSUME NEW s, NEW w, NEW n \in Nat, n < MaxText, ScreenFits(s, w, n), NEW c \in Char
    PROVE  ScreenFits(Putchar(s, c), Drawn(w, c), n + 1)
  <1> DEFINE t == InRegion(s)
             v == Turned(w)
             ends == c = CR
  <1>1. OnLine(t, v, n) /\ w \in Papers
    BY LineBegins DEF ScreenFits, SheetFits
  <1>2. Putchar(s, c) = [(IF c = LF THEN NewLine(t) ELSE IF c = CR THEN [t EXCEPT !.x = 0] ELSE Glyph(t, c))
                         EXCEPT !.ret = ends]
    BY DEF Putchar
  <1>3. Drawn(w, c) =
                 IF c = CR THEN [v EXCEPT !.x = 0, !.ret = TRUE]
                 ELSE IF c = LF
                 THEN [v EXCEPT !.ink = IF v.ret THEN @
                                        ELSE [q \in DOMAIN v.ink |->
                                                IF q[2] = v.row /\ q[1] >= v.x THEN Blank ELSE v.ink[q]],
                                !.row = @ + 1, !.x = 0, !.ret = FALSE]
                 ELSE Moved([v EXCEPT !.ink = [@ EXCEPT ![<<v.x, v.row>>] = c]])
    BY <1>1, DrawnIs
  <1>10. /\ c = CR => ends = TRUE
         /\ c # CR => ends = FALSE
    OBVIOUS
  <1> HIDE DEF t, v, ends
  <1>4. /\ t = [cell |-> t.cell, x |-> v.x, y |-> t.y, ret |-> v.ret]
        /\ v = [ink |-> v.ink, last |-> v.last, row |-> v.row, x |-> v.x, ret |-> v.ret]
        /\ t.cell \in [Columns \X (0 .. Height - 1) -> Char]
        /\ v.ink \in [Columns \X (1 .. Rows + MaxText) -> Char]
        /\ v.x \in Columns /\ v.ret \in BOOLEAN /\ t.y \in 0 .. Height - 1
        /\ v.row \in 1 .. Rows + MaxText
        /\ \A x \in Columns : t.cell[<<x, t.y>>] = v.ink[<<x, v.row>>]
    <2>1. LineFacts(t, v, n)
      BY <1>1, OnLineIs
    <2> QED  BY <2>1 DEF LineFacts
  <1>6. /\ Width \in Nat \ {0} /\ Columns = 0 .. Width - 1 /\ 0 \in Columns /\ Blank \in Char
    BY ScreenConstants
  <1>7. CASE c = CR
    <2>1. SameLine(t, v, t.cell, v.ink)
      BY <1>4 DEF SameLine
    <2>2. ScreenFits([cell |-> t.cell, x |-> 0, y |-> t.y, ret |-> TRUE],
                     [ink |-> v.ink, last |-> v.last, row |-> v.row, x |-> 0, ret |-> TRUE], n + 1)
      BY <1>1, <1>6, <2>1, CharacterStays
    <2>3. Putchar(s, c) = [cell |-> t.cell, x |-> 0, y |-> t.y, ret |-> TRUE]
      <3>1. Putchar(s, c) = [[t EXCEPT !.x = 0] EXCEPT !.ret = TRUE]
        BY <1>2, <1>7, <1>10 DEF CR, LF
      <3> QED  BY <1>4, <3>1
    <2>4. Drawn(w, c) = [ink |-> v.ink, last |-> v.last, row |-> v.row, x |-> 0, ret |-> TRUE]
      BY <1>3, <1>4, <1>7
    <2> QED  BY <2>2, <2>3, <2>4
  <1>8. CASE c = LF
    <2> DEFINE cell == [p \in DOMAIN t.cell |->
                          IF ~t.ret /\ p[2] = t.y /\ p[1] >= t.x THEN Blank ELSE t.cell[p]]
               ink == IF v.ret THEN v.ink
                      ELSE [q \in DOMAIN v.ink |->
                              IF q[2] = v.row /\ q[1] >= v.x THEN Blank ELSE v.ink[q]]
    <2>1. t.ret = v.ret /\ t.x = v.x
      BY <1>4
    <2>2. SameLine(t, v, cell, ink)
      <3>1. \A x \in Columns, y \in 0 .. Height - 1 :
               cell[<<x, y>>] = IF ~v.ret /\ y = t.y /\ x >= v.x THEN Blank ELSE t.cell[<<x, y>>]
        BY <1>4, <2>1
      <3>2. \A x \in Columns, y \in 1 .. Rows + MaxText :
               ink[<<x, y>>] = IF ~v.ret /\ y = v.row /\ x >= v.x THEN Blank ELSE v.ink[<<x, y>>]
        BY <1>4
      <3>3. cell \in [Columns \X (0 .. Height - 1) -> Char]
        BY <1>4, <1>6
      <3>4. ink \in [Columns \X (1 .. Rows + MaxText) -> Char]
        BY <1>4, <1>6
      <3> HIDE DEF cell, ink
      <3>5. \A x \in Columns : cell[<<x, t.y>>] = ink[<<x, v.row>>]
        BY <1>4, <3>1, <3>2
      <3> QED  BY <3>1, <3>2, <3>3, <3>4, <3>5 DEF SameLine
    <2>3. Putchar(s, c) = [cell |-> cell, x |-> 0, y |-> t.y + 1, ret |-> FALSE]
      <3>1. NewLine(t) = [t EXCEPT !.cell = cell, !.x = 0, !.y = t.y + 1]
        BY <1>4 DEF NewLine
      <3>2. c = LF /\ ends = FALSE
        BY <1>8, <1>10 DEF CR, LF
      <3>3. Putchar(s, c) = [NewLine(t) EXCEPT !.ret = FALSE]
        BY <1>2, <3>2
      <3> DEFINE y3 == t.y + 1
      <3> HIDE DEF cell, y3
      <3>4. NewLine(t) = [cell |-> cell, x |-> 0, y |-> y3, ret |-> t.ret]
        BY <1>4, <3>1 DEF y3
      <3>5. Putchar(s, c) = [[cell |-> cell, x |-> 0, y |-> y3, ret |-> t.ret] EXCEPT !.ret = FALSE]
        BY <3>3, <3>4
      <3>6. Putchar(s, c) = [cell |-> cell, x |-> 0, y |-> y3, ret |-> FALSE]
        BY <3>5
      <3> QED  BY <3>6 DEF y3
    <2>4. Drawn(w, c) = [ink |-> ink, last |-> v.last, row |-> v.row + 1, x |-> 0, ret |-> FALSE]
      <3>1. Drawn(w, c) = [v EXCEPT !.ink = ink, !.row = v.row + 1, !.x = 0, !.ret = FALSE]
        BY <1>3, <1>4, <1>8 DEF CR, LF
      <3> HIDE DEF ink
      <3> QED  BY <1>4, <3>1
    <2> HIDE DEF cell, ink
    <2>5. ScreenFits([cell |-> cell, x |-> 0, y |-> t.y + 1, ret |-> FALSE],
                     [ink |-> ink, last |-> v.last, row |-> v.row + 1, x |-> 0, ret |-> FALSE], n + 1)
      BY <1>1, <2>2, CharacterEnds
    <2> QED  BY <2>3, <2>4, <2>5
  <1>9. CASE c # CR /\ c # LF
    <2> DEFINE cell == [t.cell EXCEPT ![<<v.x, t.y>>] = c]
               ink == [v.ink EXCEPT ![<<v.x, v.row>>] = c]
    <2>1. t.ret = v.ret /\ t.x = v.x
      BY <1>4
    <2>2. SameLine(t, v, cell, ink)
      <3>1. \A x \in Columns, y \in 0 .. Height - 1 :
               cell[<<x, y>>] = IF y = t.y /\ x = v.x THEN c ELSE t.cell[<<x, y>>]
        BY <1>4
      <3>2. \A x \in Columns, y \in 1 .. Rows + MaxText :
               ink[<<x, y>>] = IF y = v.row /\ x = v.x THEN c ELSE v.ink[<<x, y>>]
        BY <1>4
      <3>3. cell \in [Columns \X (0 .. Height - 1) -> Char]
        BY <1>4
      <3>4. ink \in [Columns \X (1 .. Rows + MaxText) -> Char]
        BY <1>4
      <3> HIDE DEF cell, ink
      <3>5. \A x \in Columns : cell[<<x, t.y>>] = ink[<<x, v.row>>]
        BY <1>4, <3>1, <3>2
      <3> QED  BY <3>1, <3>2, <3>3, <3>4, <3>5 DEF SameLine
    <2>3. Putchar(s, c) = [cell |-> cell, x |-> IF v.x = Width - 1 THEN 0 ELSE v.x + 1,
                           y |-> IF v.x = Width - 1 THEN t.y + 1 ELSE t.y, ret |-> FALSE]
      <3>1. Glyph(t, c) = [t EXCEPT !.cell = cell, !.x = IF v.x = Width - 1 THEN 0 ELSE v.x + 1,
                                    !.y = IF v.x = Width - 1 THEN t.y + 1 ELSE t.y]
        BY <2>1 DEF Glyph
      <3>2. Putchar(s, c) = [Glyph(t, c) EXCEPT !.ret = FALSE]
        BY <1>2, <1>9, <1>10
      <3> DEFINE x3 == IF v.x = Width - 1 THEN 0 ELSE v.x + 1
                 y3 == IF v.x = Width - 1 THEN t.y + 1 ELSE t.y
      <3> HIDE DEF cell, x3, y3
      <3>3. Glyph(t, c) = [cell |-> cell, x |-> x3, y |-> y3, ret |-> t.ret]
        BY <1>4, <3>1 DEF x3, y3
      <3>4. Putchar(s, c) = [cell |-> cell, x |-> x3, y |-> y3, ret |-> FALSE]
        <4>1. Putchar(s, c) = [[cell |-> cell, x |-> x3, y |-> y3, ret |-> t.ret] EXCEPT !.ret = FALSE]
          BY <3>2, <3>3
        <4> QED  BY <4>1
      <3> QED  BY <3>4 DEF x3, y3
    <2>4. Drawn(w, c) = [ink |-> ink, last |-> v.last,
                         row |-> IF v.x = Width - 1 THEN v.row + 1 ELSE v.row,
                         x |-> IF v.x = Width - 1 THEN 0 ELSE v.x + 1, ret |-> FALSE]
      <3>1. Drawn(w, c) = Moved([v EXCEPT !.ink = ink])
        BY <1>3, <1>9
      <3> HIDE DEF ink
      <3>2. [v EXCEPT !.ink = ink]
              = [ink |-> ink, last |-> v.last, row |-> v.row, x |-> v.x, ret |-> v.ret]
        BY <1>4
      <3> QED  BY ZenonT(30), <3>1, <3>2 DEF Moved
    <2> HIDE DEF cell, ink
    <2>5. CASE v.x = Width - 1
      <3>1. ScreenFits([cell |-> cell, x |-> 0, y |-> t.y + 1, ret |-> FALSE],
                     [ink |-> ink, last |-> v.last, row |-> v.row + 1, x |-> 0, ret |-> FALSE], n + 1)
        BY <1>1, <2>2, CharacterEnds
      <3> QED  BY <2>3, <2>4, <2>5, <3>1
    <2>6. CASE v.x # Width - 1
      <3>1. v.x + 1 \in Columns
        BY <1>4, <1>6, <2>6
      <3>2. ScreenFits([cell |-> cell, x |-> v.x + 1, y |-> t.y, ret |-> FALSE],
                     [ink |-> ink, last |-> v.last, row |-> v.row, x |-> v.x + 1, ret |-> FALSE], n + 1)
        <4> DEFINE x3 == v.x + 1
        <4> HIDE DEF x3
        <4>1. x3 \in Columns
          BY <3>1 DEF x3
        <4>2. ScreenFits([cell |-> cell, x |-> x3, y |-> t.y, ret |-> FALSE],
                     [ink |-> ink, last |-> v.last, row |-> v.row, x |-> x3, ret |-> FALSE], n + 1)
          BY <1>1, <2>2, <4>1, CharacterStays
        <4> QED  BY <4>2 DEF x3
      <3> QED  BY <2>3, <2>4, <2>6, <3>2
    <2> QED  BY <2>5, <2>6
  <1> QED  BY <1>7, <1>8, <1>9

(* A text on the screen and the sheet.                                     *)
LEMMA WrittenFits ==
    ASSUME NEW before \in Seq(Char), NEW chars \in Seq(Char), NEW s,
           ScreenFits(s, SheetOf(before), Len(before)), Len(before) + Len(chars) <= MaxText
    PROVE  ScreenFits(PutAll(s, chars), SheetOf(before \o chars), Len(before \o chars))
  <1> DEFINE a == Len(before)
             k == Len(chars)
             both == before \o chars
  <1>1. /\ a \in Nat /\ k \in Nat /\ Len(both) = a + k /\ MaxText \in Nat
        /\ \A n \in 1 .. a : both[n] = before[n]
        /\ \A n \in 1 .. k : both[a + n] = chars[n] /\ chars[n] \in Char
    BY ScreenConstants
  <1> HIDE DEF a, k, both
  <1>2. PICK f : /\ f[0] = s /\ \A n \in 1 .. k : f[n] = Putchar(f[n - 1], chars[n])
                 /\ PutAll(s, chars) = f[k]
    BY <1>1, PutAllIs DEF k
  <1>3. PICK h : SheetSteps(h, before, a) /\ SheetOf(before) = h[a]
    BY <1>1, SheetIs DEF a
  <1>4. PICK g : SheetSteps(g, both, a + k) /\ SheetOf(both) = g[a + k]
    <2>1. Len(both) \in Nat /\ Len(both) = a + k
      BY <1>1
    <2>2. \E q : SheetSteps(q, both, Len(both)) /\ SheetOf(both) = q[Len(both)]
      BY <2>1, SheetIs
    <2> QED  BY <2>1, <2>2
  <1>5. g[a] = h[a]
    <2>1. SheetSteps(g, both, a)
      <3>1. 1 .. a \subseteq 1 .. a + k
        BY <1>1
      <3> QED  BY <1>4, <3>1 DEF SheetSteps
    <2>2. a \in Nat /\ StartsWith(both, before, a)
      BY <1>1 DEF StartsWith
    <2>3. SheetSteps(h, before, a)
      BY <1>3
    <2> QED  BY <2>1, <2>2, <2>3, OneSheet
  <1> DEFINE S == {i \in 0 .. k : ~ScreenFits(f[i], g[a + i], a + i)}
  <1>6. S = {}
    <2> SUFFICES ASSUME S # {} PROVE FALSE
      OBVIOUS
    <2>1. PICK m \in S : \A i \in S : m <= i
      <3> HIDE DEF S
      <3>1. S \in SUBSET Nat
        BY DEF S
      <3> QED  BY <3>1, LeastOf
    <2>2. m \in 0 .. k /\ ~ScreenFits(f[m], g[a + m], a + m)
      OBVIOUS
    <2>3. m # 0
      <3>1. a + 0 = a
        BY <1>1
      <3>2. ScreenFits(f[0], g[a + 0], a + 0)
        BY <1>2, <1>3, <1>5, <3>1 DEF a
      <3> QED  BY <2>2, <3>2
    <2>4. m \in 1 .. k /\ m - 1 \in 0 .. k /\ ~(m <= m - 1)
      BY <1>1, <2>2, <2>3
    <2>5. ScreenFits(f[m - 1], g[a + (m - 1)], a + (m - 1))
      BY <2>1, <2>4
    <2>6. /\ a + (m - 1) \in Nat /\ a + (m - 1) < MaxText /\ (a + (m - 1)) + 1 = a + m
          /\ (a + m) - 1 = a + (m - 1) /\ a + m \in 1 .. a + k
      <3>1. a + k <= MaxText
        BY DEF a, k
      <3> QED  BY <1>1, <2>4, <3>1
    <2>7. f[m] = Putchar(f[m - 1], chars[m]) /\ chars[m] \in Char
      BY <1>1, <1>2, <2>4
    <2>8. g[a + m] = Drawn(g[a + (m - 1)], chars[m])
      BY <1>1, <1>4, <2>4, <2>6 DEF SheetSteps
    <2> HIDE DEF S
    <2>9. ScreenFits(Putchar(f[m - 1], chars[m]), Drawn(g[a + (m - 1)], chars[m]), (a + (m - 1)) + 1)
      BY <2>5, <2>6, <2>7, PutcharFits
    <2> QED  BY <2>2, <2>6, <2>7, <2>8, <2>9
  <1>7. k \in 0 .. k /\ k \notin S
    BY SMTT(30), <1>1, <1>6
  <1>8. ScreenFits(f[k], g[a + k], a + k)
    BY <1>7
  <1>9. ScreenFits(PutAll(s, chars), SheetOf(both), Len(both))
    BY <1>1, <1>2, <1>4, <1>8
  <1> QED  BY <1>9 DEF both

-----------------------------------------------------------------------------
(* Printed numbers are characters.                                         *)

LastDigit(v) == <<HexDigit(v % 10)>>
Decimals(f, k) ==
    f = [v \in 0 .. k |-> (IF v < 10 THEN <<>> ELSE f[v \div 10]) \o LastDigit(v)]

LEMMA Tenths ==
    ASSUME NEW v \in Nat
    PROVE  /\ v % 10 \in 0 .. 9 /\ v \div 10 \in Nat /\ v \div 10 <= v
           /\ v >= 1 => v \div 10 < v
  OBVIOUS

LEMMA DecimalsExist ==
    ASSUME NEW k \in Nat
    PROVE  \E f : Decimals(f, k)
  <1> DEFINE S == {i \in Nat : ~ \E f : Decimals(f, i)}
  <1> SUFFICES ASSUME S # {} PROVE FALSE
    OBVIOUS
  <1>1. PICK m \in S : \A i \in S : m <= i
    <2> HIDE DEF S
    <2>1. S \in SUBSET Nat
      BY DEF S
    <2> QED  BY <2>1, LeastOf
  <1>2. m \in Nat /\ ~ \E f : Decimals(f, m)
    OBVIOUS
  <1>3. \E f : m # 0 => Decimals(f, m - 1)
    <2>1. CASE m # 0
      <3>1. m - 1 \in Nat /\ ~(m <= m - 1)
        BY <1>2, <2>1
      <3> QED  BY <1>1, <3>1
    <2> QED  BY <2>1
  <1>4. PICK f : m # 0 => Decimals(f, m - 1)
    BY <1>3
  <1> DEFINE next == (IF m < 10 THEN <<>> ELSE f[m \div 10]) \o LastDigit(m)
             g == [v \in 0 .. m |-> IF v = m THEN next ELSE f[v]]
  <1>5. \A v \in 0 .. m : g[v] = (IF v < 10 THEN <<>> ELSE g[v \div 10]) \o LastDigit(v)
    <2> TAKE v \in 0 .. m
    <2> DEFINE t == v \div 10
    <2>1. v \in Nat /\ (v < 10 \/ (v >= 10 /\ t \in 0 .. m /\ t # m))
      BY <1>2, Tenths
    <2>2. v = m => g[v] = (IF v < 10 THEN <<>> ELSE f[t]) \o LastDigit(v)
      OBVIOUS
    <2>3. v # m => g[v] = (IF v < 10 THEN <<>> ELSE f[t]) \o LastDigit(v)
      <3> SUFFICES ASSUME v # m PROVE g[v] = (IF v < 10 THEN <<>> ELSE f[t]) \o LastDigit(v)
        OBVIOUS
      <3>1. m # 0 /\ v \in 0 .. m - 1
        BY <1>2
      <3>2. f[v] = (IF v < 10 THEN <<>> ELSE f[t]) \o LastDigit(v)
        BY <1>4, <3>1 DEF Decimals
      <3> QED  BY <3>2
    <2>4. v >= 10 => g[t] = f[t]
      <3> HIDE DEF t
      <3> QED  BY <2>1
    <2> HIDE DEF t, g
    <2>5. g[v] = (IF v < 10 THEN <<>> ELSE g[t]) \o LastDigit(v)
      <3>1. CASE v < 10
        BY <2>2, <2>3, <3>1
      <3>2. CASE v >= 10
        <4>1. ~(v < 10)
          BY <2>1, <3>2
        <4> QED  BY <2>2, <2>3, <2>4, <3>2, <4>1
      <3> QED  BY <2>1, <3>1, <3>2
    <2> QED  BY <2>5 DEF t
  <1>6. g = [v \in 0 .. m |-> g[v]]
    OBVIOUS
  <1> HIDE DEF g
  <1>7. Decimals(g, m)
    BY <1>5, <1>6 DEF Decimals
  <1> QED  BY <1>2, <1>7

LEMMA DecimalIs ==
    ASSUME NEW k \in Nat, k = Half - 1, NEW v \in 0 .. k
    PROVE  Decimal[v] \in Seq(Char)
  <1>1. PICK f : Decimals(f, k)
    BY DecimalsExist
  <1>2. Decimal = [u \in 0 .. k |-> (IF u < 10 THEN <<>> ELSE Decimal[u \div 10]) \o LastDigit(u)]
    <2>1. f = [u \in 0 .. Half - 1 |-> (IF u < 10 THEN <<>> ELSE f[u \div 10]) \o <<HexDigit(u % 10)>>]
      BY <1>1 DEF Decimals, LastDigit
    <2>2. Decimal = [u \in 0 .. Half - 1 |-> (IF u < 10 THEN <<>> ELSE Decimal[u \div 10]) \o <<HexDigit(u % 10)>>]
      BY <2>1 DEF Decimal
    <2> QED  BY <2>2 DEF LastDigit
  <1>3. \A u \in 0 .. k : Decimal[u] = (IF u < 10 THEN <<>> ELSE Decimal[u \div 10]) \o LastDigit(u)
    BY <1>2
  <1> DEFINE S == {i \in 0 .. k : Decimal[i] \notin Seq(Char)}
  <1> SUFFICES ASSUME S # {} PROVE FALSE
    OBVIOUS
  <1>4. PICK m \in S : \A i \in S : m <= i
    <2> HIDE DEF S
    <2>1. S \in SUBSET Nat
      BY DEF S
    <2> QED  BY <2>1, LeastOf
  <1>5. m \in 0 .. k /\ Decimal[m] \notin Seq(Char)
    OBVIOUS
  <1>6. LastDigit(m) \in Seq(Char)
    <2>1. HexDigit(m % 10) \in Char
      BY <1>5, Tenths DEF HexDigit, Char
    <2> QED  BY <2>1 DEF LastDigit
  <1>7. m >= 10 => Decimal[m \div 10] \in Seq(Char)
    <2> SUFFICES ASSUME m >= 10 PROVE Decimal[m \div 10] \in Seq(Char)
      OBVIOUS
    <2>1. m \div 10 \in 0 .. k /\ ~(m <= m \div 10)
      BY <1>5, Tenths
    <2> QED  BY <1>4, <2>1
  <1>8. m >= 10 \/ m < 10
    BY <1>5
  <1>9. Decimal[m] = (IF m < 10 THEN <<>> ELSE Decimal[m \div 10]) \o LastDigit(m)
    BY <1>3, <1>5
  <1>10. <<>> \in Seq(Char)
    OBVIOUS
  <1> HIDE DEF S
  <1>11. ASSUME NEW x \in Seq(Char), NEW y \in Seq(Char)
         PROVE  x \o y \in Seq(Char)
    OBVIOUS
  <1> QED  BY <1>5, <1>6, <1>7, <1>8, <1>9, <1>10, <1>11

LEMMA SignificantIs ==
    ASSUME NEW n \in Nat \ {0}, NEW s \in [1 .. n -> Char]
    PROVE  Significant(s) \in Seq(Char)
  <1>1. s \in Seq(Char) /\ Len(s) = n
    OBVIOUS
  <1> DEFINE S == {i \in 1 .. Len(s) : s[i] # HexDigit(0) \/ i = Len(s)}
  <1>2. S \in SUBSET Nat /\ n \in S /\ S \subseteq 1 .. n
    BY <1>1
  <1> HIDE DEF S
  <1>3. \E x \in S : \A y \in S : x <= y
    BY <1>2, LeastOf
  <1>4. Min(S) \in S
    BY <1>3 DEF Min
  <1>5. Min(S) \in Int /\ \A i \in Min(S) .. n : s[i] \in Char
    <2>1. Min(S) \in 1 .. n
      BY <1>2, <1>4
    <2> QED  BY <2>1
  <1>6. SubSeq(s, Min(S), n) \in Seq(Char)
    BY <1>5, SubSeqProperties
  <1> QED  BY <1>1, <1>6 DEF Significant, S

LEMMA HexDigitIs ==
    ASSUME NEW v \in 0 .. 15
    PROVE  HexDigit(v) \in Char
  BY DEF HexDigit, Char

LEMMA ConvertIs ==
    ASSUME NEW v \in Numbers, NEW conv \in {"d", "x", "o"}
    PROVE  Convert(conv, v) \in Seq(Char)
  <1>1. Half \in Int /\ v \in -Half .. Half - 1
    <2>1. Half \in Int
      BY TextAssumption DEF Half
    <2> QED  BY <2>1, ConsoleAssumption DEF Word
  <1>2. WordBits \in Nat /\ WordBits >= 8
    BY TextAssumption
  <1>3. v \in Int
    BY <1>1
  <1>4. CASE conv = "d"
    <2> DEFINE k == Half - 1
    <2>1. k \in Nat /\ k = Half - 1
      BY <1>1
    <2> HIDE DEF k
    <2>2. \A u \in 0 .. k : Decimal[u] \in Seq(Char)
      BY <2>1, DecimalIs
    <2>3. <<Minus>> \in Seq(Char)
      BY DEF Minus, Char
    <2>4. CASE v = -Half
      <3>1. Half \div 10 \in 0 .. k /\ Half % 10 \in 0 .. 15
        BY <1>1, <2>1, Tenths
      <3>2. Decimal[Half \div 10] \in Seq(Char) /\ <<HexDigit(Half % 10)>> \in Seq(Char)
        BY SMTT(30), <2>2, <3>1, HexDigitIs
      <3>3. CvtDec(v) = <<Minus>> \o Decimal[Half \div 10] \o <<HexDigit(Half % 10)>>
        BY <2>4 DEF CvtDec
      <3> QED  BY <1>4, <2>3, <3>2, <3>3, ConcatProperties DEF Convert
    <2>5. CASE v # -Half /\ v < 0
      <3>1. -v \in 0 .. k
        BY <1>1, <2>1, <2>5
      <3>2. CvtDec(v) = <<Minus>> \o Decimal[-v]
        BY <2>5 DEF CvtDec
      <3> QED  BY <1>4, <2>2, <2>3, <3>1, <3>2, ConcatProperties DEF Convert
    <2>6. CASE v # -Half /\ ~(v < 0)
      <3>1. v \in 0 .. k
        BY <1>1, <2>1, <2>6
      <3>2. CvtDec(v) = Decimal[v]
        BY <2>6 DEF CvtDec
      <3> QED  BY <1>4, <2>2, <3>1, <3>2 DEF Convert
    <2> QED  BY <2>4, <2>5, <2>6
  <1>5. CASE conv = "x"
    <2> DEFINE n == WordBits \div 4
               s == [i \in 1 .. n |-> HexDigit((v \div 16 ^ (n - i)) % 16)]
    <2>1. n \in Nat \ {0}
      BY <1>2
    <2>2. \A i \in 1 .. n : HexDigit((v \div 16 ^ (n - i)) % 16) \in Char
      <3> TAKE i \in 1 .. n
      <3> HIDE DEF n
      <3>1. (v \div 16 ^ (n - i)) % 16 \in 0 .. 15
        BY <1>3, <2>1
      <3> QED  BY <3>1, HexDigitIs
    <2>3. s \in [1 .. n -> Char]
      BY <2>2
    <2>4. Convert(conv, v) = Significant(s)
      BY <1>5 DEF Convert, CvtHex
    <2> HIDE DEF n, s
    <2> QED  BY <2>1, <2>3, <2>4, SignificantIs
  <1>6. CASE conv = "o"
    <2> DEFINE n == (WordBits + 1) \div 3
               s == [i \in 1 .. n |-> HexDigit((v \div 8 ^ (n - i)) % 8)]
    <2>1. n \in Nat \ {0}
      BY <1>2
    <2>2. \A i \in 1 .. n : HexDigit((v \div 8 ^ (n - i)) % 8) \in Char
      <3> TAKE i \in 1 .. n
      <3> HIDE DEF n
      <3>1. (v \div 8 ^ (n - i)) % 8 \in 0 .. 15
        BY <1>3, <2>1
      <3> QED  BY <3>1, HexDigitIs
    <2>3. s \in [1 .. n -> Char]
      BY <2>2
    <2>4. Convert(conv, v) = Significant(s)
      BY <1>6 DEF Convert, CvtOct
    <2> HIDE DEF n, s
    <2> QED  BY <2>1, <2>3, <2>4, SignificantIs
  <1> QED  BY <1>4, <1>5, <1>6

LEMMA ExtraIs ==
    ASSUME NEW f \in Formats, NEW len \in Nat
    PROVE  Extra(len, f) \in Seq(Char)
  <1>1. f.width \in Nat /\ f.fill \in Char
    BY ConsoleAssumption DEF Char
  <1> DEFINE d == f.width - len
             wide == Max({d, 0})
  <1>2. wide \in Nat
    <2>1. d \in Int
      BY <1>1
    <2> HIDE DEF d
    <2>2. CASE d \in Nat
      BY <2>2, MaxOfTwo
    <2>3. CASE d < 0
      <3>1. \A x \in {d, 0} : (\A y \in {d, 0} : x >= y) => x = 0
        BY <2>1, <2>3
      <3>2. \E x \in {d, 0} : \A y \in {d, 0} : x >= y
        BY <2>1, <2>3
      <3> QED  BY <3>1, <3>2 DEF Max
    <2> QED  BY <2>1, <2>2, <2>3
  <1>3. Extra(len, f) = [i \in 1 .. wide |-> f.fill]
    BY DEF Extra, Repeat
  <1> HIDE DEF wide
  <1> QED  BY <1>1, <1>2, <1>3

LEMMA NumberIs ==
    ASSUME NEW f \in Formats, NEW n \in Numbers
    PROVE  Formatted(f, n) \in Seq(Char) /\ Sprinted(f, n) \in Seq(Char)
  <1> DEFINE s == Convert(f.conv, n)
             len == Len(s) + IF f.conv = "x" THEN 2 ELSE 0
  <1>1. s \in Seq(Char)
    BY ConvertIs, ConsoleAssumption
  <1> HIDE DEF s
  <1>2. Len(s) \in Nat /\ len \in Nat
    BY <1>1, LenProperties
  <1> HIDE DEF len
  <1>3. Extra(Len(s), f) \in Seq(Char) /\ Extra(len, f) \in Seq(Char)
    BY <1>2, ExtraIs
  <1>4. /\ Formatted(f, n) \in {s \o Extra(Len(s), f), Extra(Len(s), f) \o s}
        /\ Sprinted(f, n) \in {s, s \o Extra(len, f), Extra(len, f) \o s}
    BY DEF Formatted, Sprinted, s, len
  <1> QED  BY <1>1, <1>3, <1>4, ConcatProperties

-----------------------------------------------------------------------------
(* The screen in every state.                                              *)

ScreenInv ==
    /\ text \in Seq(Char) /\ left \in Nat /\ Len(text) + left <= MaxText
    /\ taken \in Seq(Char)
    /\ ScreenFits(screen, SheetOf(text), Len(text))

LEMMA ScreenStarts == Init => ScreenInv
  <1> SUFFICES ASSUME Init PROVE ScreenInv
    OBVIOUS
  <1>1. /\ Width \in Nat \ {0} /\ Height \in Nat /\ Top \in 1 .. Height - 1 /\ MaxText \in Nat
        /\ Rows = Height - Top /\ Rows \in 1 .. Height - 1
        /\ Columns = 0 .. Width - 1 /\ Lines = Top .. Height - 1 /\ Blank \in Char /\ Old \in Char
        /\ 61 \in Char
    BY ScreenConstants DEF Char
  <1>2. /\ screen = [cell |-> [p \in Columns \X (0 .. Height - 1) |->
                                 IF p[2] = Top - 1 THEN 61 ELSE Old],
                     x |-> 0, y |-> Top, ret |-> FALSE]
        /\ text = <<>> /\ left = 0 /\ taken = <<>>
    BY DEF Init, FirstImage
  <1>3. text \in Seq(Char) /\ Len(text) = 0 /\ left \in Nat /\ taken \in Seq(Char)
        /\ Len(text) + left <= MaxText
    BY <1>1, <1>2
  <1> DEFINE w == EmptySheet
             cell == [p \in Columns \X (0 .. Height - 1) |-> IF p[2] = Top - 1 THEN 61 ELSE Old]
             ink == [q \in Columns \X (1 .. Rows + MaxText) |-> IF q[2] > Rows THEN Blank ELSE Old]
  <1>4. SheetOf(text) = w
    <2>1. PICK f : SheetSteps(f, text, Len(text)) /\ SheetOf(text) = f[Len(text)]
      BY <1>3, SheetIs
    <2> QED  BY <1>3, <2>1 DEF SheetSteps
  <1>5. /\ screen.cell = cell /\ screen.x = 0 /\ screen.y = Top /\ screen.ret = FALSE
        /\ w.ink = ink /\ w.last = Rows /\ w.row = 1 /\ w.x = 0 /\ w.ret = FALSE
    BY <1>2 DEF EmptySheet
  <1>6. cell \in [Columns \X (0 .. Height - 1) -> Char]
        /\ ink \in [Columns \X (1 .. Rows + MaxText) -> Char]
    BY <1>1
  <1>7. /\ \A x \in Columns, y \in 0 .. Height - 1 : cell[<<x, y>>] = IF y = Top - 1 THEN 61 ELSE Old
        /\ \A x \in Columns, y \in 1 .. Rows + MaxText : ink[<<x, y>>] = IF y > Rows THEN Blank ELSE Old
    OBVIOUS
  <1>8. screen \in Screens /\ w \in Papers
    <2>1. 0 \in Columns /\ Top \in Top .. Height /\ Rows \in Nat
      BY <1>1
    <2>2. screen = [cell |-> cell, x |-> 0, y |-> Top, ret |-> FALSE]
          /\ w = [ink |-> ink, last |-> Rows, row |-> 1, x |-> 0, ret |-> FALSE]
      BY <1>2 DEF EmptySheet
    <2> HIDE DEF cell, ink, w
    <2> QED  BY <1>6, <2>1, <2>2 DEF Screens, Papers
  <1> HIDE DEF cell, ink, w
  <1>9. LeftAlone(screen)
    <2> SUFFICES ASSUME NEW x \in Columns, NEW y \in 0 .. Top - 1
                 PROVE  screen.cell[<<x, y>>] = Heading(Untouched, x, y)
      BY DEF LeftAlone, Heads
    <2>1. y \in 0 .. Height - 1
      BY <1>1
    <2>2. screen.cell[<<x, y>>] = IF y = Top - 1 THEN 61 ELSE Old
      BY <1>5, <1>7, <2>1
    <2>3. CASE y \in 1 .. Top - 2
      <3>1. Untouched[y] = [i \in 1 .. Width |-> Old] /\ Width \in Nat
        BY <1>1, <2>3 DEF Untouched, Repeat
      <3>2. Len(Untouched[y]) = Width /\ x + 1 \in 1 .. Width /\ x < Width
        BY <1>1, <3>1
      <3>3. Untouched[y][x + 1] = Old
        BY <3>1, <3>2
      <3>4. y # Top - 1 /\ y # 0
        BY <1>1, <2>3
      <3> QED  BY <2>2, <3>2, <3>3, <3>4 DEF Heading
    <2>4. CASE y \notin 1 .. Top - 2
      <3>1. y = Top - 1 \/ y = 0
        BY <1>1, <2>4
      <3> QED  BY <2>2, <3>1 DEF Heading
    <2> QED  BY <2>3, <2>4
  <1>10. SheetFits(w, 0)
    <2>1. w.row \in 1 .. 0 + 1 /\ w.last \in Rows .. Rows + 0 /\ w.row <= w.last + 1
          /\ w.last - w.row < Rows /\ (w.row = w.last + 1 => w.x = 0)
      BY <1>1, <1>5
    <2>2. \A x \in Columns, y \in w.last + 1 .. Rows + MaxText : w.ink[<<x, y>>] = Blank
      <3> SUFFICES ASSUME NEW x \in Columns, NEW y \in Rows + 1 .. Rows + MaxText
                   PROVE  ink[<<x, y>>] = Blank
        BY <1>5
      <3>1. y \in 1 .. Rows + MaxText /\ y > Rows
        BY <1>1
      <3> QED  BY <1>7, <3>1
    <2> QED  BY <1>8, <2>1, <2>2 DEF SheetFits
  <1>11. Shows(screen, w)
    <2> SUFFICES ASSUME NEW x \in Columns, NEW y \in Lines
                 PROVE  screen.cell[<<x, y>>] = w.ink[<<x, w.last - (Height - 1 - y)>>]
      BY DEF Shows
    <2> DEFINE z == w.last - (Height - 1 - y)
    <2>1. z \in 1 .. Rows /\ z \in 1 .. Rows + MaxText /\ y \in 0 .. Height - 1 /\ y # Top - 1
      BY <1>1, <1>5
    <2> HIDE DEF z
    <2>2. cell[<<x, y>>] = Old /\ ink[<<x, z>>] = Old
      BY <1>1, <1>7, <2>1
    <2> QED  BY <1>5, <2>2 DEF z
  <1>12. screen.y = Height - 1 - (w.last - w.row)
    BY <1>1, <1>5
  <1>13. ScreenFits(screen, w, 0)
    BY <1>5, <1>8, <1>9, <1>10, <1>11, <1>12 DEF ScreenFits
  <1> QED  BY <1>3, <1>4, <1>13 DEF ScreenInv

(* The cells above the region may change, if they still show a context.    *)
LEMMA HeadChanges ==
    ASSUME NEW s, NEW w, NEW n, ScreenFits(s, w, n),
           NEW cell \in [Columns \X (0 .. Height - 1) -> Char],
           LeftAlone([s EXCEPT !.cell = cell]),
           \A x \in Columns, y \in Lines : cell[<<x, y>>] = s.cell[<<x, y>>]
    PROVE  ScreenFits([s EXCEPT !.cell = cell], w, n)
  <1> DEFINE t == [s EXCEPT !.cell = cell]
  <1>1. s \in Screens /\ SheetFits(w, n) /\ Shows(s, w)
        /\ s.x = w.x /\ s.ret = w.ret /\ s.y = Height - 1 - (w.last - w.row)
    BY DEF ScreenFits
  <1>2. t \in Screens /\ t.cell = cell /\ t.x = s.x /\ t.y = s.y /\ t.ret = s.ret
    BY <1>1 DEF Screens
  <1>3. LeftAlone(t)
    OBVIOUS
  <1> HIDE DEF t
  <1>4. Shows(t, w)
    BY <1>1, <1>2 DEF Shows
  <1>5. ScreenFits(t, w, n)
    BY <1>1, <1>2, <1>3, <1>4 DEF ScreenFits
  <1> QED  BY <1>5 DEF t

LEMMA TracedFits ==
    ASSUME NEW s, NEW w, NEW n, ScreenFits(s, w, n), NEW t \in Traces
    PROVE  ScreenFits(Traced(s, t), w, n)
  <1> DEFINE cell == [p \in DOMAIN s.cell |->
                        IF p[2] \notin DOMAIN t THEN s.cell[p]
                        ELSE IF p[1] < Len(t[p[2]]) THEN t[p[2]][p[1] + 1] ELSE Blank]
  <1>1. /\ Width \in Nat \ {0} /\ Height \in Nat /\ Top \in 2 .. Height - 1
        /\ Columns = 0 .. Width - 1 /\ Lines = Top .. Height - 1 /\ Blank \in Char
    BY ScreenConstants
  <1>2. DOMAIN t = 1 .. Top - 2 /\ \A y \in 1 .. Top - 2 : t[y] \in Seq(Char)
    BY ConsoleAssumption DEF Char
  <1>3. s \in Screens /\ LeftAlone(s) /\ s.cell \in [Columns \X (0 .. Height - 1) -> Char]
    BY ScreenIs DEF ScreenFits
  <1>4. \A x \in Columns, y \in 0 .. Height - 1 :
           cell[<<x, y>>] = IF y \notin 1 .. Top - 2 THEN s.cell[<<x, y>>]
                            ELSE IF x < Len(t[y]) THEN t[y][x + 1] ELSE Blank
    BY <1>2, <1>3
  <1>5. cell \in [Columns \X (0 .. Height - 1) -> Char]
    <2> SUFFICES ASSUME NEW p \in Columns \X (0 .. Height - 1)
                 PROVE  (IF p[2] \notin DOMAIN t THEN s.cell[p]
                         ELSE IF p[1] < Len(t[p[2]]) THEN t[p[2]][p[1] + 1] ELSE Blank) \in Char
      BY <1>3
    <2>1. p[2] \in DOMAIN t /\ p[1] < Len(t[p[2]]) => p[1] + 1 \in 1 .. Len(t[p[2]])
      BY <1>1, <1>2, LenProperties
    <2>2. p[2] \in DOMAIN t => \A k \in 1 .. Len(t[p[2]]) : t[p[2]][k] \in Char
      BY <1>2, ElementOfSeq
    <2> QED  BY <1>1, <1>3, <2>1, <2>2
  <1>6. Traced(s, t) = [s EXCEPT !.cell = cell]
    BY DEF Traced
  <1> HIDE DEF cell
  <1> DEFINE r == [s EXCEPT !.cell = cell]
  <1>7. r.cell = cell
    BY <1>3 DEF Screens
  <1> HIDE DEF r
  <1>8. LeftAlone(r)
    <2>1. PICK old \in Traces \cup {Untouched} : Heads(s, old)
      BY <1>3 DEF LeftAlone
    <2> SUFFICES ASSUME NEW x \in Columns, NEW y \in 0 .. Top - 1, <<x, y>> # Corner
                 PROVE  cell[<<x, y>>] = Heading(t, x, y)
      BY <1>7 DEF LeftAlone, Heads
    <2>2. y \in 0 .. Height - 1
      BY <1>1
    <2>3. CASE y \in 1 .. Top - 2
      <3>1. y # Top - 1 /\ y # 0
        BY <1>1, <2>3
      <3> QED  BY <1>4, <2>2, <2>3, <3>1 DEF Heading
    <2>4. CASE y \notin 1 .. Top - 2
      <3>1. y = Top - 1 \/ y = 0
        BY <1>1, <2>4
      <3>2. cell[<<x, y>>] = s.cell[<<x, y>>] /\ s.cell[<<x, y>>] = Heading(old, x, y)
        BY <1>4, <2>1, <2>2, <2>4 DEF Heads
      <3> QED  BY <3>1, <3>2 DEF Heading
    <2> QED  BY <2>3, <2>4
  <1>9. \A x \in Columns, y \in Lines : cell[<<x, y>>] = s.cell[<<x, y>>]
    <2>1. \A y \in Lines : y \in 0 .. Height - 1 /\ y \notin 1 .. Top - 2
      BY <1>1
    <2> QED  BY <1>4, <2>1
  <1>10. LeftAlone([s EXCEPT !.cell = cell])
    BY <1>8 DEF r
  <1>11. ScreenFits([s EXCEPT !.cell = cell], w, n)
    BY <1>5, <1>9, <1>10, HeadChanges
  <1> QED  BY <1>6, <1>11

(* The screen of a step that goes on, or that returns.                     *)
LEMMA StepKeeps ==
    ASSUME ScreenInv, NEW s, NEW chars \in Seq(Char), text' = text \o chars,
           ScreenFits(s, SheetOf(text \o chars), Len(text \o chars)),
           screen' = s \/ Returns(s), left' \in Nat, Len(text) + Len(chars) + left' <= MaxText,
           taken' \in Seq(Char)
    PROVE  ScreenInv'
  <1>1. ScreenFits(screen', SheetOf(text \o chars), Len(text \o chars))
    BY TracedFits DEF Returns
  <1>2. text \in Seq(Char)
    BY DEF ScreenInv
  <1>3. text \o chars \in Seq(Char) /\ Len(text \o chars) = Len(text) + Len(chars)
    BY <1>2, ConcatProperties
  <1> QED  BY <1>1, <1>3 DEF ScreenInv

LEMMA PutKeeps ==
    ASSUME ScreenInv, NEW chars \in Seq(Char), text' = text \o chars,
           screen' = PutAll(screen, chars) \/ Returns(PutAll(screen, chars)),
           left' \in Nat, Len(text) + Len(chars) + left' <= MaxText, taken' \in Seq(Char)
    PROVE  ScreenInv'
  <1>1. /\ text \in Seq(Char) /\ ScreenFits(screen, SheetOf(text), Len(text)) /\ MaxText \in Nat
    BY ScreenConstants DEF ScreenInv
  <1>2. Len(text) + Len(chars) <= MaxText
    BY <1>1
  <1>3. ScreenFits(PutAll(screen, chars), SheetOf(text \o chars), Len(text \o chars))
    BY <1>1, <1>2, WrittenFits
  <1> QED  BY <1>3, StepKeeps

(* Nothing is printed.                                                     *)
LEMMA QuietKeeps ==
    ASSUME ScreenInv, text' = text, NEW s, ScreenFits(s, SheetOf(text), Len(text)),
           screen' = s \/ Returns(s), left' \in Nat, Len(text) + left' <= MaxText,
           taken' \in Seq(Char)
    PROVE  ScreenInv'
  <1>1. text \in Seq(Char) /\ <<>> \in Seq(Char) /\ Len(<<>>) = 0 /\ text \o <<>> = text
    BY EmptySeq DEF ScreenInv
  <1>2. Len(text) + Len(<<>>) + left' <= MaxText
    BY <1>1, ScreenConstants
  <1> QED  BY <1>1, <1>2, StepKeeps

LEMMA SpunFits ==
    ASSUME NEW w, NEW n, ScreenFits(screen, w, n), NEW i \in 1 .. Len(Pinwheel)
    PROVE  ScreenFits(Spun(i), w, n)
  <1>1. /\ Width \in Nat \ {0} /\ Height \in Nat /\ Top \in 1 .. Height - 1
        /\ Columns = 0 .. Width - 1 /\ Lines = Top .. Height - 1
    BY ScreenConstants
  <1>2. PICK c \in Char : Spun(i) = [screen EXCEPT !.cell[Corner] = c]
    <2>1. Pinwheel \in Seq(Char)
      BY ConsoleAssumption DEF Char
    <2> DEFINE m == Len(Pinwheel)
    <2>2. m \in Nat /\ i \in 1 .. m /\ \A k \in 1 .. m : Pinwheel[k] \in Char
      BY <2>1
    <2> HIDE DEF m
    <2>3. (i % m) + 1 \in 1 .. m
      BY <2>2
    <2> QED  BY <2>2, <2>3 DEF Spun, m
  <1>3. screen \in Screens /\ LeftAlone(screen)
        /\ screen.cell \in [Columns \X (0 .. Height - 1) -> Char]
    BY ScreenIs DEF ScreenFits
  <1> DEFINE cell == [screen.cell EXCEPT ![Corner] = c]
             r == [screen EXCEPT !.cell = cell]
  <1>4. \A x \in Columns, y \in 0 .. Height - 1 :
           <<x, y>> # Corner => cell[<<x, y>>] = screen.cell[<<x, y>>]
    BY <1>3
  <1>5. cell \in [Columns \X (0 .. Height - 1) -> Char]
    BY <1>3
  <1>6. Spun(i) = r
    BY <1>2
  <1> HIDE DEF cell
  <1>7. r.cell = cell
    BY <1>3 DEF Screens
  <1> HIDE DEF r
  <1>8. LeftAlone(r)
    <2>1. PICK t \in Traces \cup {Untouched} : Heads(screen, t)
      BY <1>3 DEF LeftAlone
    <2>2. 0 .. Top - 1 \subseteq 0 .. Height - 1
      BY <1>1
    <2>3. Heads(r, t)
      BY <1>4, <1>7, <2>1, <2>2 DEF Heads
    <2> QED  BY <2>3 DEF LeftAlone
  <1>9. \A x \in Columns, y \in Lines : cell[<<x, y>>] = screen.cell[<<x, y>>]
    <2>1. \A y \in Lines : y \in 0 .. Height - 1 /\ y # 0
      BY <1>1
    <2> QED  BY <1>4, <2>1 DEF Corner
  <1>10. LeftAlone([screen EXCEPT !.cell = cell])
    BY <1>8 DEF r
  <1>11. ScreenFits([screen EXCEPT !.cell = cell], w, n)
    BY <1>5, <1>9, <1>10, HeadChanges
  <1> QED  BY <1>6, <1>11 DEF r

LEMMA ScreenStep ==
    ASSUME KeyboardInv, ScreenInv, [Next]_vars
    PROVE  ScreenInv'
  <1>1. /\ text \in Seq(Char) /\ left \in Nat /\ Len(text) + left <= MaxText /\ MaxText \in Nat
        /\ <<>> \in Seq(Char) /\ Len(text) \in Nat
        /\ ScreenFits(screen, SheetOf(text), Len(text))
    BY ScreenConstants, LenProperties DEF ScreenInv
  <1>2. ASSUME NEW s \in Seq(Char), left = 0, left' = left, taken' = <<>>, Fits(Len(s)),
               text' = text \o s, screen' = PutAll(screen, s) \/ Returns(PutAll(screen, s))
        PROVE  ScreenInv'
    <2>1. Len(s) \in Nat /\ Len(text) + Len(s) <= MaxText
      BY <1>1, <1>2, LenProperties DEF Fits
    <2>2. left' \in Nat /\ Len(text) + Len(s) + left' <= MaxText /\ taken' \in Seq(Char)
      BY <1>1, <1>2, <2>1
    <2> QED  BY <1>2, <2>2, PutKeeps
  <1>3. ASSUME UNCHANGED <<text, left>>, screen' = screen \/ Returns(screen), taken' \in Seq(Char)
        PROVE  ScreenInv'
    BY <1>1, <1>3, QuietKeeps
  <1>4. ASSUME NEW s \in Strings, Write(s)
        PROVE  ScreenInv'
    <2>1. s \in Seq(Char)
      BY ConsoleAssumption DEF Char
    <2> QED  BY <1>2, <1>4, <2>1 DEF Write, Put
  <1>5. ASSUME NEW f \in Formats, NEW n \in Numbers, Printf(f, n) \/ WriteNumber(f, n)
        PROVE  ScreenInv'
    <2>1. Formatted(f, n) \in Seq(Char) /\ Sprinted(f, n) \in Seq(Char)
      BY NumberIs
    <2>2. CASE Printf(f, n)
      BY <1>2, <2>1, <2>2 DEF Printf
    <2>3. CASE WriteNumber(f, n)
      BY <1>2, <2>1, <2>3 DEF WriteNumber, Put
    <2> QED  BY <1>5, <2>2, <2>3
  <1>6. CASE Spin
    <2>1. UNCHANGED <<text, left>> /\ taken' = <<>>
      BY <1>6 DEF Spin
    <2>2. CASE Returns(screen)
      BY <1>1, <1>3, <2>1, <2>2
    <2>3. CASE \E i \in 1 .. Len(Pinwheel) : Returns(Spun(i))
      <3>1. PICK i \in 1 .. Len(Pinwheel) : Returns(Spun(i))
        BY <2>3
      <3>2. ScreenFits(Spun(i), SheetOf(text), Len(text))
        BY <1>1, SpunFits
      <3> QED  BY <1>1, <2>1, <3>1, <3>2, QuietKeeps
    <2> QED  BY <1>6, <2>2, <2>3 DEF Spin
  <1>7. ASSUME NEW code \in Codes, KeyboardIsr(code) \/ Poll(code)
        PROVE  ScreenInv'
    BY <1>1, <1>3, <1>7 DEF KeyboardIsr, Poll, output
  <1>8. ASSUME NEW length \in Lengths, Read(length)
        PROVE  ScreenInv'
    <2>1. length \in Nat \ {0}
      BY ConsoleAssumption
    <2>2. /\ left' \in {0, length - 1} /\ Len(text) + (length - 1) <= MaxText /\ taken' = <<>>
          /\ text' = text /\ (screen' = screen \/ Returns(screen))
      BY <1>8 DEF Read, Fits
    <2>3. left' \in Nat /\ Len(text) + left' <= MaxText
      BY <1>1, <2>1, <2>2
    <2> QED  BY <1>1, <2>2, <2>3, QuietKeeps
  <1>9. CASE GetChar
    <2> DEFINE c == ring[next_char]
               echo == IF c = EOT THEN <<>> ELSE <<c>>
    <2>1. c \in Char
      BY DEF KeyboardInv
    <2>2. /\ left > 0 /\ taken' = <<c>> /\ text' = text \o echo
          /\ left' = IF c \in {EOT, LF} THEN 0 ELSE left - 1
          /\ screen' = PutAll(screen, echo) \/ Returns(PutAll(screen, echo))
      BY <1>9 DEF GetChar
    <2>3. echo \in Seq(Char) /\ Len(echo) <= 1 /\ Len(echo) \in Nat /\ <<c>> \in Seq(Char)
      <3> HIDE DEF c
      <3>1. <<c>> \in Seq(Char) /\ Len(<<c>>) = 1 /\ <<>> \in Seq(Char) /\ Len(<<>>) = 0
        BY <2>1, EmptySeq
      <3> QED  BY <3>1
    <2> HIDE DEF c, echo
    <2>4. left' \in Nat /\ left' <= left - 1
      BY <1>1, <2>2
    <2>5. Len(text) + Len(echo) + left' <= MaxText
      BY <1>1, <2>3, <2>4
    <2> QED  BY <2>2, <2>3, <2>4, <2>5, PutKeeps
  <1>10. CASE UNCHANGED vars
    BY <1>10 DEF vars, output, returned, ScreenInv
  <1> QED  BY <1>4, <1>5, <1>6, <1>7, <1>8, <1>9, <1>10 DEF Next

LEMMA ScreenIsConsistent ==
    ASSUME KeyboardInv, ScreenInv
    PROVE  ScreenConsistent
  <1>1. /\ screen \in Screens /\ LeftAlone(screen) /\ Shows(screen, SheetOf(text))
    BY DEF ScreenInv, ScreenFits
  <1>2. TypeOK
    <2>1. /\ screen.cell \in [Columns \X (0 .. Height - 1) -> 0 .. 255]
          /\ screen.x \in Columns /\ screen.y \in Top .. Height /\ screen.ret \in BOOLEAN
      BY <1>1 DEF Screens, Char
    <2> QED  BY <2>1 DEF TypeOK, KeyboardInv, ScreenInv, Char
  <1>3. ScreenShowsText
    BY <1>1 DEF ScreenShowsText, Shows, LeftAlone, Heads
  <1> QED  BY <1>2, <1>3 DEF ScreenConsistent

(***************************************************************************)
(* The screen shows the end of what was printed, as on a sheet of paper    *)
(* that never scrolls: writes, numbers, echoed keys, line feeds, returns,  *)
(* lines that are full and lines that scroll, in every order, on a screen  *)
(* of any size.  The cursor stays in its region; above it is, at any time, *)
(* the context that was shown last, whole, with its line below it; and     *)
(* nothing else changes there but the pinwheel.                            *)
(***************************************************************************)
THEOREM ScreenShowsTheText == Spec => []ScreenConsistent
  <1>1. Init => ScreenInv
    BY ScreenStarts
  <1>2. KeyboardInv /\ ScreenInv /\ [Next]_vars => ScreenInv'
    BY ScreenStep
  <1>3. KeyboardInv /\ ScreenInv => ScreenConsistent
    BY ScreenIsConsistent
  <1> QED  BY KeyboardInvariance, <1>1, <1>2, <1>3, PTL DEF Spec

-----------------------------------------------------------------------------
(* Logins.  What a process holds.                                          *)

Programs == {"none", "init", "signIn", "shell", "test"}
States   == {"unused", "ready", "sleeping", "reading", "waiting", "zombie"}
PCs      == {"none", "start", "name", "password", "setuid", "exit", "command", "test",
             "wait", "collected", "run"}
Statuses == Pids \cup {0, EFailure, ENoProcs}
Reading  == {"name", "password", "command"}

(* The users and passwords that Named can take from /.shadow.              *)
Searches == (SUBSET DOMAIN Entries) \ {{}}
Users   == {0} \cup UNION {Entries[Min(S)].ids \ {EFailure} : S \in Searches}
Secrets == {<<>>} \cup {Entries[Min(S)].pass : S \in Searches}

Records ==
    [prog : Programs, st : States, parent : Pids \cup {0}, pc : PCs, uid : Users,
     buf : Seq(Typeable), pass : Secrets, key : Typeable \cup {0}, child : Pids \cup {0},
     whom : Pids \cup {0}, status : Statuses]

(* Where each program may be, and in which state.                          *)
PlaceFits(r) ==
    /\ r.prog = "none" => r.pc = "none"
    /\ r.prog = "init" => r.pc \in {"start", "wait", "collected"}
    /\ r.prog = "signIn" => r.pc \in {"start", "name", "password", "setuid", "exit"}
    /\ r.prog = "shell" => r.pc \in {"command", "test", "wait", "collected", "exit"}
    /\ r.prog = "test" => r.pc \in {"run", "exit"}

StateFits(r) ==
    /\ (r.prog = "none") <=> (r.st = "unused")
    /\ r.st = "waiting" => r.pc = "wait"
    /\ r.st = "sleeping" => r.prog = "signIn" /\ r.pc = "name"
    /\ r.st = "reading" => r.pc \in Reading
    /\ r.st = "zombie" => r.pc = "exit"
    /\ r.prog = "test" /\ r.pc = "exit" => r.st = "zombie"

FieldsFit(r) ==
    /\ r.prog = "shell" /\ r.pc # "collected" => r.status = 0
    /\ r.pc = "collected" => r.whom \in Pids
    /\ r.buf = <<>> \/ (r.pc \in Reading /\ Len(r.buf) < Length(r.pc) - 1)

RecordFits(r) == r \in Records /\ PlaceFits(r) /\ StateFits(r) /\ FieldsFit(r)

(* Process q lives and is not over.                                        *)
Runs(pr, q) == pr[q].st \notin {"unused", "zombie"}

ProcessesFit(pr) ==
    /\ pr \in [Pids -> Records]
    /\ \A p \in Pids : RecordFits(pr[p])
    /\ \A p \in Pids : (pr[p].prog = "init") <=> (p = InitPid)
    /\ \A p \in Pids : pr[p].st # "unused" => pr[p].parent \in Pids /\ Runs(pr, pr[p].parent)
    /\ pr[InitPid].parent = InitPid

(* The queues hold who is ready, but for process c.                        *)
OnReady(pr, c, i) == {p \in Pids : pr[p].st = "ready" /\ p # c /\ Prio(pr[p].prog) = i}

ReadyFits(queues, pr, c) ==
    /\ queues \in [1 .. 2 -> Seq(Pids)]
    /\ \A i \in 1 .. 2 : IsInjective(queues[i]) /\ ToSet(queues[i]) = OnReady(pr, c, i)

ReadersFit ==
    /\ readers \in Seq(Pids) /\ IsInjective(readers)
    /\ ToSet(readers) = {p \in Pids : proc[p].st = "reading"}
    /\ input \in Seq(Typeable) /\ Len(input) <= MaxAhead

QueuesFit ==
    /\ ReadyFits(ready, proc, cur) /\ ReadersFit
    /\ cur \in Pids \cup {0} /\ (cur # 0 => proc[cur].st = "ready")

-----------------------------------------------------------------------------
(* The one login.                                                          *)

(* init has collected p and not looked at it.                              *)
Collected(p) == proc[InitPid].pc = "collected" /\ proc[InitPid].whom = p

Signing(q) == logonShell /\ shellID = q /\ proc[q].parent = InitPid /\ ~Collected(q)
Known(p)   == ~logonShell /\ shellID = p /\ proc[p].parent = InitPid /\ ~Collected(p)

(* A shell that init does not know of has not begun, for only init and the *)
(* signIn that started it run before: they go first.                       *)
Fresh(p) == proc[p].st = "ready" /\ proc[p].pc = "command"
HandedOver(p, q) ==
    /\ proc[q].prog = "signIn" /\ proc[q].pc = "exit" /\ proc[q].status = p
    /\ proc[p].parent \in {q, InitPid}
    /\ cur \in {q, InitPid} /\ Fresh(p)
Reported(p) ==
    /\ logonShell /\ Collected(shellID) /\ proc[InitPid].status = p
    /\ proc[p].parent = InitPid
    /\ cur = InitPid /\ Fresh(p)

IsShell(p) == p \in Pids /\ proc[p].prog = "shell"

SignersKnown == \A q \in Pids : proc[q].prog = "signIn" => Signing(q)
ShellsKnown ==
    \A p \in Pids : proc[p].prog = "shell" =>
        Known(p) \/ Reported(p) \/ \E q \in Pids : HandedOver(p, q)
ResultsRight ==
    \A q \in Pids : proc[q].prog = "signIn" /\ proc[q].pc = "exit" =>
        proc[q].status < 0 \/ IsShell(proc[q].status)

(* What init has in hand, or waits for.                                    *)
ReportRight ==
    /\ logonShell /\ Collected(shellID) =>
          proc[InitPid].status < 0 \/ IsShell(proc[InitPid].status)
    /\ ~logonShell /\ Collected(shellID) => proc[InitPid].status >= 0
    /\ ~logonShell => shellID \in Pids
    /\ shellID \in Pids =>
          Collected(shellID) \/ proc[shellID].prog = IF logonShell THEN "signIn" ELSE "shell"
    /\ proc[InitPid].pc = "start" => shellID = 0 /\ logonShell

LoginsFit ==
    /\ shellID \in Statuses /\ logonShell \in BOOLEAN
    /\ SignersKnown /\ ShellsKnown /\ ResultsRight /\ ReportRight

(* The line of the terminal is that of the login.                          *)
LineFits ==
    \A p \in Sessions :
        /\ proc[p].pc \in {"name", "command"} => shown = <<Prompt>> \o proc[p].buf
        /\ proc[p].pc \in {"password", "test"} => shown = <<Prompt>>

LoginInv == ProcessesFit(proc) /\ QueuesFit /\ LoginsFit /\ LineFits

-----------------------------------------------------------------------------
(* Constants, records and queues.                                          *)

LEMMA LoginConstants ==
    /\ NProcs \in Nat /\ InitPid \in Pids /\ 0 \notin Pids /\ Pids \subseteq Nat
    /\ EFailure < 0 /\ ENoProcs < 0 /\ EFailure \notin Pids /\ ENoProcs \notin Pids
    /\ Statuses \subseteq Int /\ \A s \in Statuses : s >= 0 <=> s \in Pids \cup {0}
    /\ \A pc : Length(pc) \in Nat /\ Length(pc) >= 2
  BY LoginAssumption DEF Pids, InitPid, EFailure, ENoProcs, Statuses, Length

LEMMA NoneFits == RecordFits(None)
  <1>1. <<>> \in Seq(Typeable) /\ Len(<<>>) = 0
    BY EmptySeq
  <1>2. None \in Records
    BY <1>1 DEF None, Records, Programs, States, PCs, Users, Secrets, Statuses
  <1> QED  BY <1>1, <1>2, LoginConstants
           DEF None, RecordFits, PlaceFits, StateFits, FieldsFit, Reading

(* A new process.                                                          *)
LEMMA NewFits ==
    ASSUME NEW prog \in {"signIn", "shell", "test"}, NEW parent \in Pids, NEW uid \in Users, NEW pc,
           pc = IF prog = "signIn" THEN "start" ELSE IF prog = "shell" THEN "command" ELSE "run"
    PROVE  /\ RecordFits(Process(prog, parent, pc, uid))
           /\ Process(prog, parent, pc, uid).prog = prog
           /\ Process(prog, parent, pc, uid).st = "ready"
           /\ Process(prog, parent, pc, uid).pc = pc
           /\ Process(prog, parent, pc, uid).parent = parent
           /\ Process(prog, parent, pc, uid).buf = <<>>
           /\ Process(prog, parent, pc, uid).status = 0
  <1> DEFINE r == Process(prog, parent, pc, uid)
  <1>1. r = [prog |-> prog, st |-> "ready", parent |-> parent, pc |-> pc, uid |-> uid,
             buf |-> <<>>, pass |-> <<>>, key |-> 0, child |-> 0, whom |-> 0, status |-> 0]
    BY DEF Process
  <1>2. <<>> \in Seq(Typeable) /\ Len(<<>>) = 0
    BY EmptySeq
  <1>3. r \in Records
    <2>1. pc \in PCs /\ prog \in Programs
      BY DEF PCs, Programs
    <2>2. {0} \subseteq Statuses /\ "ready" \in States /\ <<>> \in Secrets
      BY DEF States, Secrets, Statuses
    <2> HIDE DEF r
    <2> QED  BY <1>1, <1>2, <2>1, <2>2 DEF Records
  <1>4. PlaceFits(r)
    BY <1>1 DEF PlaceFits
  <1>5. StateFits(r)
    BY <1>1 DEF StateFits
  <1>6. FieldsFit(r)
    BY <1>1, <1>2, LoginConstants DEF FieldsFit, Reading
  <1> QED  BY <1>1, <1>3, <1>4, <1>5, <1>6 DEF RecordFits

LEMMA ChildIs ==
    ASSUME Unused # {}
    PROVE  Child \in Unused /\ Child \in Pids
  <1>1. Unused \in SUBSET Nat /\ Unused \subseteq Pids
    BY LoginConstants DEF Unused
  <1>2. PICK x \in Unused : \A y \in Unused : x <= y
    BY <1>1, LeastOf
  <1> QED  BY <1>1, <1>2 DEF Child, Min

(* A process that is ready, and on no queue, joins its own.                *)
LEMMA QueuedFits ==
    ASSUME NEW queues, NEW pr, NEW pr2, NEW c, NEW c2, NEW p \in Pids, NEW prog,
           ReadyFits(queues, pr, c), p \notin OnReady(pr, c, 1), p \notin OnReady(pr, c, 2),
           prog = pr2[p].prog, pr2[p].st = "ready", p # c2,
           \A r \in Pids \ {p} : \A i \in 1 .. 2 : r \in OnReady(pr2, c2, i) <=> r \in OnReady(pr, c, i)
    PROVE  ReadyFits(Queued(queues, p, prog), pr2, c2)
  <1> DEFINE k == Prio(prog)
             s == queues[k]
             new == Queued(queues, p, prog)
  <1>1. k \in 1 .. 2
    BY DEF Prio
  <1>2. /\ queues \in [1 .. 2 -> Seq(Pids)] /\ s \in Seq(Pids) /\ IsInjective(s)
        /\ ToSet(s) = OnReady(pr, c, k)
    BY <1>1 DEF ReadyFits
  <1>3. /\ Append(s, p) \in Seq(Pids) /\ ToSet(Append(s, p)) = ToSet(s) \cup {p}
        /\ IsInjective(Append(s, p))
    <2>1. p \notin ToSet(s)
      BY <1>1, <1>2
    <2> QED  BY <1>2, <2>1, AppendMembers
  <1>4. new = [queues EXCEPT ![k] = Append(s, p)]
    BY DEF Queued
  <1> HIDE DEF new, s
  <1>5. new \in [1 .. 2 -> Seq(Pids)] /\ new[k] = Append(s, p)
        /\ \A i \in 1 .. 2 : i # k => new[i] = queues[i]
    BY <1>1, <1>2, <1>3, <1>4
  <1>6. p \in OnReady(pr2, c2, k) /\ \A i \in 1 .. 2 : i # k => p \notin OnReady(pr2, c2, i)
    BY <1>1 DEF OnReady
  <1> HIDE DEF k
  <1>7. \A i \in 1 .. 2 : IsInjective(new[i]) /\ ToSet(new[i]) = OnReady(pr2, c2, i)
    <2> TAKE i \in 1 .. 2
    <2>1. OnReady(pr2, c2, i) \subseteq Pids /\ OnReady(pr, c, i) \subseteq Pids
      BY DEF OnReady
    <2>2. CASE i = k
      <3>1. OnReady(pr2, c2, k) = OnReady(pr, c, k) \cup {p}
        BY <1>1, <1>6, <2>1, <2>2
      <3> QED  BY <1>2, <1>3, <1>5, <2>2, <3>1
    <2>3. CASE i # k
      <3>1. OnReady(pr2, c2, i) = OnReady(pr, c, i)
        <4>1. p \notin OnReady(pr, c, i) /\ p \notin OnReady(pr2, c2, i)
          BY <1>6, <2>3
        <4> QED  BY <2>1, <4>1
      <3> QED  BY <1>5, <2>3, <3>1 DEF ReadyFits
    <2> QED  BY <2>2, <2>3
  <1> QED  BY <1>5, <1>7 DEF ReadyFits, new

LEMMA ReadyKept ==
    ASSUME NEW queues, NEW pr, NEW pr2, NEW c, NEW c2, ReadyFits(queues, pr, c),
           \A r \in Pids : \A i \in 1 .. 2 : r \in OnReady(pr2, c2, i) <=> r \in OnReady(pr, c, i)
    PROVE  ReadyFits(queues, pr2, c2)
  <1>1. \A i \in 1 .. 2 : OnReady(pr2, c2, i) = OnReady(pr, c, i)
    BY DEF OnReady
  <1> QED  BY <1>1 DEF ReadyFits

LEMMA Dispatched ==
    ASSUME NEW queues, NEW pr, ReadyFits(queues, pr, 0), Dispatch(queues)
    PROVE  /\ ReadyFits(ready', pr, cur')
           /\ cur' \in Pids \cup {0}
           /\ cur' # 0 => pr[cur'].st = "ready"
           /\ OnReady(pr, 0, 1) # {} => cur' \in OnReady(pr, 0, 1)
  <1>1. /\ queues \in [1 .. 2 -> Seq(Pids)]
        /\ \A i \in 1 .. 2 : IsInjective(queues[i]) /\ ToSet(queues[i]) = OnReady(pr, 0, i)
    BY DEF ReadyFits
  <1>2. ASSUME NEW k \in 1 .. 2, queues[k] # <<>>, cur' = Head(queues[k]),
               ready' = [queues EXCEPT ![k] = Tail(queues[k])]
        PROVE  /\ ReadyFits(ready', pr, cur')
               /\ cur' \in Pids /\ pr[cur'].st = "ready"
               /\ cur' \in OnReady(pr, 0, k)
    <2> DEFINE s == queues[k]
               h == Head(s)
    <2>1. s \in Seq(Pids) /\ IsInjective(s) /\ ToSet(s) = OnReady(pr, 0, k)
      BY <1>1
    <2>2. /\ h \in Pids /\ h \in ToSet(s) /\ Tail(s) \in Seq(Pids)
          /\ ToSet(Tail(s)) = ToSet(s) \ {h} /\ IsInjective(Tail(s))
      BY <1>2, <2>1, TailMembers
    <2>3. cur' = h /\ ready' = [queues EXCEPT ![k] = Tail(s)]
      BY <1>2
    <2> HIDE DEF s, h
    <2>4. /\ ready' \in [1 .. 2 -> Seq(Pids)] /\ ready'[k] = Tail(s)
          /\ \A i \in 1 .. 2 : i # k => ready'[i] = queues[i]
      BY <1>1, <2>2, <2>3
    <2>5. h \in OnReady(pr, 0, k) /\ OnReady(pr, h, k) = OnReady(pr, 0, k) \ {h}
      BY <2>1, <2>2, LoginConstants DEF OnReady
    <2>6. \A i \in 1 .. 2 : i # k => OnReady(pr, h, i) = OnReady(pr, 0, i)
      BY <2>5, LoginConstants DEF OnReady
    <2>7. \A i \in 1 .. 2 : IsInjective(ready'[i]) /\ ToSet(ready'[i]) = OnReady(pr, h, i)
      BY <1>1, <2>1, <2>2, <2>4, <2>5, <2>6
    <2>8. pr[h].st = "ready"
      BY <2>5 DEF OnReady
    <2> QED  BY <2>2, <2>3, <2>4, <2>5, <2>7, <2>8 DEF ReadyFits
  <1>3. CASE queues[1] # <<>>
    <2>1. cur' = Head(queues[1]) /\ ready' = [queues EXCEPT ![1] = Tail(queues[1])]
      BY <1>3 DEF Dispatch
    <2> QED  BY <1>2, <1>3, <2>1
  <1>4. CASE queues[1] = <<>> /\ queues[2] # <<>>
    <2>1. cur' = Head(queues[2]) /\ ready' = [queues EXCEPT ![2] = Tail(queues[2])]
      BY <1>4 DEF Dispatch
    <2>2. OnReady(pr, 0, 1) = {}
      BY <1>1, <1>4 DEF ToSet
    <2> QED  BY <1>2, <1>4, <2>1, <2>2
  <1>5. CASE queues[1] = <<>> /\ queues[2] = <<>>
    <2>1. cur' = 0 /\ ready' = queues
      BY <1>5 DEF Dispatch
    <2>2. OnReady(pr, 0, 1) = {}
      BY <1>1, <1>5 DEF ToSet
    <2> QED  BY <2>1, <2>2
  <1> QED  BY <1>3, <1>4, <1>5

(* The running process is on no queue; when it stops it is no longer ready.*)
LEMMA CurStops ==
    ASSUME NEW pr, NEW pr2, NEW c, c \in Pids => pr2[c].st # "ready",
           \A r \in Pids : r # c => pr2[r].st = pr[r].st /\ pr2[r].prog = pr[r].prog
    PROVE  \A r \in Pids : \A i \in 1 .. 2 : r \in OnReady(pr2, 0, i) <=> r \in OnReady(pr, c, i)
  BY LoginConstants DEF OnReady
-----------------------------------------------------------------------------
(* Processes.                                                              *)

LEMMA RecordIs ==
    ASSUME NEW pr, ProcessesFit(pr), NEW p \in Pids
    PROVE  /\ pr[p] \in Records /\ PlaceFits(pr[p]) /\ StateFits(pr[p]) /\ FieldsFit(pr[p])
           /\ (pr[p].prog = "init") <=> (p = InitPid)
           /\ pr[p].st # "unused" => pr[p].parent \in Pids /\ Runs(pr, pr[p].parent)
  BY DEF ProcessesFit, RecordFits

(* A process goes on.                                                      *)
LEMMA SetRecord ==
    ASSUME NEW pr, ProcessesFit(pr), NEW p \in Pids, NEW r, RecordFits(r),
           Runs(pr, p), r.st \notin {"unused", "zombie"},
           r.prog = pr[p].prog, r.parent = pr[p].parent
    PROVE  ProcessesFit([pr EXCEPT ![p] = r])
  <1> DEFINE pr2 == [pr EXCEPT ![p] = r]
  <1>1. /\ pr2 \in [Pids -> Records] /\ pr2[p] = r
        /\ \A q \in Pids : q # p => pr2[q] = pr[q]
    BY DEF ProcessesFit, RecordFits
  <1> HIDE DEF pr2
  <1>2. \A q \in Pids : Runs(pr, q) => Runs(pr2, q)
    BY <1>1 DEF Runs
  <1>3. \A q \in Pids : pr2[q].prog = pr[q].prog /\ pr2[q].parent = pr[q].parent
                        /\ (pr2[q].st # "unused" => pr[q].st # "unused")
    BY <1>1 DEF Runs
  <1>4. \A q \in Pids : RecordFits(pr2[q])
    BY <1>1 DEF ProcessesFit
  <1> QED  BY <1>1, <1>2, <1>3, <1>4, LoginConstants DEF ProcessesFit, pr2

(* A process is spawned.                                                   *)
LEMMA SpawnRecord ==
    ASSUME NEW pr, ProcessesFit(pr), NEW c \in Pids, pr[c].st = "unused", NEW r, RecordFits(r),
           r.prog \notin {"none", "init"}, r.parent \in Pids, Runs(pr, r.parent), r.st = "ready"
    PROVE  ProcessesFit([pr EXCEPT ![c] = r])
  <1> DEFINE pr2 == [pr EXCEPT ![c] = r]
  <1>1. /\ pr2 \in [Pids -> Records] /\ pr2[c] = r
        /\ \A q \in Pids : q # c => pr2[q] = pr[q]
    BY DEF ProcessesFit, RecordFits
  <1>2. c # InitPid
    BY RecordIs DEF StateFits
  <1> HIDE DEF pr2
  <1>3. \A q \in Pids : Runs(pr, q) => Runs(pr2, q)
    BY <1>1 DEF Runs
  <1>4. \A q \in Pids : RecordFits(pr2[q])
    BY <1>1 DEF ProcessesFit
  <1>5. \A q \in Pids : (pr2[q].prog = "init") <=> (q = InitPid)
    BY <1>1, <1>2 DEF ProcessesFit
  <1>6. \A q \in Pids : pr2[q].st # "unused" => pr2[q].parent \in Pids /\ Runs(pr2, pr2[q].parent)
    BY <1>1, <1>3 DEF ProcessesFit
  <1>7. pr2[InitPid].parent = InitPid
    BY <1>1, <1>2, LoginConstants DEF ProcessesFit
  <1> QED  BY <1>1, <1>4, <1>5, <1>6, <1>7 DEF ProcessesFit, pr2

(* Its children are init's when a process ends.                            *)
Heirs(pr, p) ==
    [q \in Pids |-> IF pr[q].st # "unused" /\ pr[q].parent = p
                    THEN [pr[q] EXCEPT !.parent = InitPid] ELSE pr[q]]

Orphaned(pr, p) == \A q \in Pids : pr[q].st # "unused" => pr[q].parent # p

LEMMA InitRuns ==
    ASSUME NEW pr, ProcessesFit(pr)
    PROVE  /\ Runs(pr, InitPid) /\ pr[InitPid].prog = "init" /\ pr[InitPid].parent = InitPid
           /\ pr[InitPid].st \in {"ready", "waiting"}
           /\ pr[InitPid].pc \in {"start", "wait", "collected"}
  <1>1. pr[InitPid].prog = "init" /\ pr[InitPid].parent = InitPid
    BY LoginConstants DEF ProcessesFit
  <1>2. pr[InitPid].pc \in {"start", "wait", "collected"}
    BY <1>1, RecordIs, LoginConstants DEF PlaceFits
  <1>3. pr[InitPid].st \in States
    BY LoginConstants DEF ProcessesFit, Records
  <1> QED  BY <1>1, <1>2, <1>3, RecordIs, LoginConstants DEF StateFits, Runs, States, Reading

LEMMA HeirsFit ==
    ASSUME NEW pr, ProcessesFit(pr), NEW p \in Pids, p # InitPid
    PROVE  /\ ProcessesFit(Heirs(pr, p)) /\ Orphaned(Heirs(pr, p), p)
           /\ \A q \in Pids :
                 /\ Heirs(pr, p)[q].prog = pr[q].prog /\ Heirs(pr, p)[q].st = pr[q].st
                 /\ Heirs(pr, p)[q].pc = pr[q].pc /\ Heirs(pr, p)[q].status = pr[q].status
                 /\ Heirs(pr, p)[q].whom = pr[q].whom /\ Heirs(pr, p)[q].buf = pr[q].buf
                 /\ Heirs(pr, p)[q].child = pr[q].child
                 /\ Heirs(pr, p)[q].parent = IF pr[q].st # "unused" /\ pr[q].parent = p
                                             THEN InitPid ELSE pr[q].parent
  <1> DEFINE pr2 == Heirs(pr, p)
  <1>1. \A q \in Pids : pr2[q] = IF pr[q].st # "unused" /\ pr[q].parent = p
                                 THEN [pr[q] EXCEPT !.parent = InitPid] ELSE pr[q]
    BY DEF Heirs
  <1>2. \A q \in Pids : pr[q] \in Records
    BY DEF ProcessesFit
  <1>3. ASSUME NEW q \in Pids
        PROVE  /\ pr2[q].prog = pr[q].prog /\ pr2[q].st = pr[q].st
               /\ pr2[q].pc = pr[q].pc /\ pr2[q].status = pr[q].status
               /\ pr2[q].whom = pr[q].whom /\ pr2[q].buf = pr[q].buf
               /\ pr2[q].child = pr[q].child
               /\ pr2[q].parent = (IF pr[q].st # "unused" /\ pr[q].parent = p
                                   THEN InitPid ELSE pr[q].parent)
    <2> HIDE DEF pr2
    <2>1. pr[q] \in Records
      BY <1>2
    <2> QED  BY <1>1, <2>1 DEF Records
  <1>4. ASSUME NEW q \in Pids
        PROVE  pr2[q] \in Records
    <2>1. ASSUME NEW r \in Records
          PROVE  [r EXCEPT !.parent = InitPid] \in Records
      BY LoginConstants DEF Records
    <2> QED  BY <1>1, <1>2, <2>1
  <1>5. pr2 \in [Pids -> Records]
    BY <1>4 DEF Heirs
  <1> HIDE DEF pr2
  <1>6. \A q \in Pids : RecordFits(pr2[q])
    <2> TAKE q \in Pids
    <2>1. PlaceFits(pr[q]) /\ StateFits(pr[q]) /\ FieldsFit(pr[q])
      BY DEF ProcessesFit, RecordFits
    <2> QED  BY <1>3, <1>4, <2>1 DEF RecordFits, PlaceFits, StateFits, FieldsFit
  <1>7. \A q \in Pids : Runs(pr, q) <=> Runs(pr2, q)
    BY <1>3 DEF Runs
  <1>8. Runs(pr, InitPid) /\ pr[InitPid].parent = InitPid
    BY InitRuns
  <1>9. \A q \in Pids : pr2[q].st # "unused" => pr2[q].parent \in Pids /\ Runs(pr2, pr2[q].parent)
    BY ZenonT(30), <1>3, <1>7, <1>8, LoginConstants DEF ProcessesFit
  <1>10. pr2[InitPid].parent = InitPid
    BY <1>3, <1>8, LoginConstants
  <1>11. \A q \in Pids : (pr2[q].prog = "init") <=> (q = InitPid)
    BY <1>3 DEF ProcessesFit
  <1>12. ProcessesFit(pr2)
    BY <1>5, <1>6, <1>9, <1>10, <1>11 DEF ProcessesFit
  <1>13. Orphaned(pr2, p)
    BY <1>3 DEF Orphaned
  <1> QED  BY <1>3, <1>12, <1>13 DEF pr2

(* Nobody is the child of a process that is over.                          *)
LEMMA ZombieOrphaned ==
    ASSUME NEW pr, ProcessesFit(pr), NEW z \in Pids, pr[z].st = "zombie"
    PROVE  Orphaned(pr, z)
  BY DEF ProcessesFit, Orphaned, Runs

(* A process that nobody is the child of ends.                             *)
LEMMA BuryRecord ==
    ASSUME NEW pr, ProcessesFit(pr), NEW p \in Pids, p # InitPid, Orphaned(pr, p),
           NEW r, RecordFits(r), r.prog # "init",
           r = None \/ (r.parent = pr[p].parent /\ pr[p].st # "unused" /\ r.st = "zombie")
    PROVE  /\ ProcessesFit([pr EXCEPT ![p] = r]) /\ Orphaned([pr EXCEPT ![p] = r], p)
  <1> DEFINE pr2 == [pr EXCEPT ![p] = r]
  <1>1. /\ pr2 \in [Pids -> Records] /\ pr2[p] = r
        /\ \A q \in Pids : q # p => pr2[q] = pr[q]
    BY DEF ProcessesFit, RecordFits
  <1> HIDE DEF pr2
  <1>2. r = None => r.st = "unused"
    BY DEF None
  <1>3. \A q \in Pids : pr2[q].st # "unused" =>
            pr[q].st # "unused" /\ pr2[q].parent = pr[q].parent /\ pr[q].parent # p
    BY <1>1, <1>2 DEF Orphaned
  <1>4. \A q \in Pids : q # p /\ Runs(pr, q) => Runs(pr2, q)
    BY <1>1 DEF Runs
  <1>5. \A q \in Pids : pr2[q].st # "unused" => pr2[q].parent \in Pids /\ Runs(pr2, pr2[q].parent)
    BY <1>3, <1>4 DEF ProcessesFit
  <1>6. \A q \in Pids : RecordFits(pr2[q])
    BY <1>1 DEF ProcessesFit
  <1>7. \A q \in Pids : (pr2[q].prog = "init") <=> (q = InitPid)
    BY <1>1 DEF ProcessesFit
  <1>8. pr2[InitPid].parent = InitPid
    BY <1>1, LoginConstants DEF ProcessesFit
  <1>9. Orphaned(pr2, p)
    BY <1>3 DEF Orphaned
  <1> QED  BY <1>1, <1>5, <1>6, <1>7, <1>8, <1>9 DEF ProcessesFit, pr2
-----------------------------------------------------------------------------
(* What reading a line does to a process.                                  *)

LineUser(r) == RecordFits(r) /\ r.st = "ready" /\ r.pc \in Reading

(* h is r after its line, at one of these places.                          *)
ReadOver(r, h, pcs) ==
    /\ RecordFits(h) /\ h.st = "ready" /\ h.prog = r.prog /\ h.parent = r.parent
    /\ h.pc \in pcs /\ h.buf = <<>>

SignInPCs == {"name", "password", "setuid"}
ShellPCs  == {"command", "test", "exit"}

LEMMA PromptsFit ==
    ASSUME NEW r, LineUser(r), NEW pc,
           \/ r.prog = "signIn" /\ pc \in SignInPCs \cup {"exit"}
           \/ r.prog = "shell" /\ pc \in ShellPCs
    PROVE  ReadOver(r, Prompts(r, pc), {pc})
  <1> DEFINE h == Prompts(r, pc)
  <1>1. r \in Records
    BY DEF LineUser, RecordFits
  <1>2. pc \in PCs /\ pc # "collected" /\ pc # "wait"
    BY DEF PCs, SignInPCs, ShellPCs
  <1>3. <<>> \in Seq(Typeable) /\ Len(<<>>) = 0 /\ <<>> \in Secrets
    BY EmptySeq DEF Secrets
  <1>4. h \in Records
    BY <1>1, <1>2, <1>3 DEF Prompts, Records
  <1>5. /\ h.prog = r.prog /\ h.parent = r.parent /\ h.st = r.st /\ h.pc = pc /\ h.buf = <<>>
        /\ h.status = r.status /\ h.whom = r.whom
    BY <1>1 DEF Prompts, Records
  <1> HIDE DEF h
  <1>6. r.st = "ready" /\ r.prog # "none" /\ PlaceFits(r) /\ FieldsFit(r) /\ StateFits(r)
    BY DEF LineUser, RecordFits, StateFits
  <1>7. PlaceFits(h) /\ StateFits(h)
    BY <1>5, <1>6 DEF PlaceFits, StateFits, SignInPCs, ShellPCs
  <1>8. FieldsFit(h)
    <2>1. r.pc # "collected"
      BY DEF LineUser, Reading
    <2> QED  BY <1>2, <1>3, <1>5, <1>6, <2>1, LoginConstants DEF FieldsFit
  <1> QED  BY <1>2, <1>4, <1>5, <1>6, <1>7, <1>8 DEF ReadOver, RecordFits, h

LEMMA UserSet ==
    ASSUME NEW r, NEW h, NEW pcs, ReadOver(r, h, pcs), NEW uid \in Users
    PROVE  ReadOver(r, [h EXCEPT !.uid = uid], pcs)
  <1> DEFINE g == [h EXCEPT !.uid = uid]
  <1>1. h \in Records
    BY DEF ReadOver, RecordFits
  <1>2. g \in Records
    BY <1>1 DEF Records
  <1>3. /\ g.prog = h.prog /\ g.parent = h.parent /\ g.st = h.st /\ g.pc = h.pc /\ g.buf = h.buf
        /\ g.status = h.status /\ g.whom = h.whom
    BY <1>1 DEF Records
  <1> HIDE DEF g
  <1> QED  BY <1>2, <1>3 DEF ReadOver, RecordFits, PlaceFits, StateFits, FieldsFit, g

LEMMA SecretSet ==
    ASSUME NEW r, NEW h, NEW pcs, ReadOver(r, h, pcs), NEW pass \in Secrets
    PROVE  ReadOver(r, [h EXCEPT !.pass = pass], pcs)
  <1> DEFINE g == [h EXCEPT !.pass = pass]
  <1>1. h \in Records
    BY DEF ReadOver, RecordFits
  <1>2. g \in Records
    BY <1>1 DEF Records
  <1>3. /\ g.prog = h.prog /\ g.parent = h.parent /\ g.st = h.st /\ g.pc = h.pc /\ g.buf = h.buf
        /\ g.status = h.status /\ g.whom = h.whom
    BY <1>1 DEF Records
  <1> HIDE DEF g
  <1> QED  BY <1>2, <1>3 DEF ReadOver, RecordFits, PlaceFits, StateFits, FieldsFit, g

LEMMA StatusSet ==
    ASSUME NEW r, NEW h, NEW pcs, ReadOver(r, h, pcs), r.prog = "signIn"
    PROVE  /\ ReadOver(r, [h EXCEPT !.status = EFailure], pcs)
           /\ [h EXCEPT !.status = EFailure].status = EFailure
  <1> DEFINE g == [h EXCEPT !.status = EFailure]
  <1>1. h \in Records
    BY DEF ReadOver, RecordFits
  <1>2. g \in Records
    <2>1. EFailure \in Statuses
      BY DEF Statuses
    <2> QED  BY <1>1, <2>1 DEF Records
  <1>3. /\ g.prog = h.prog /\ g.parent = h.parent /\ g.st = h.st /\ g.pc = h.pc /\ g.buf = h.buf
        /\ g.status = EFailure /\ g.whom = h.whom
    BY <1>1 DEF Records
  <1> HIDE DEF g
  <1> QED  BY <1>2, <1>3 DEF ReadOver, RecordFits, PlaceFits, StateFits, FieldsFit, g

(* A sign-in ends only without success.                                    *)
EndsBadly(r, h) == r.prog = "signIn" /\ h.pc = "exit" => h.status < 0

LEMMA HandledIs ==
    ASSUME NEW r, LineUser(r), NEW line, NEW h \in Handled(r, line)
    PROVE  ReadOver(r, h, PCs) /\ EndsBadly(r, h)
  <1>1. PlaceFits(r) /\ StateFits(r)
    BY DEF LineUser, RecordFits
  <1>2. r.pc \in {"name", "password"} => r.prog = "signIn"
    BY <1>1 DEF PlaceFits, StateFits, LineUser, Programs, RecordFits, Records
  <1>3. r.pc = "command" => r.prog = "shell"
    BY <1>1 DEF PlaceFits, StateFits, LineUser, Programs, RecordFits, Records
  <1>4. \A g, pcs : ReadOver(r, g, pcs) /\ pcs \subseteq PCs => ReadOver(r, g, PCs)
    BY DEF ReadOver
  <1>5. SignInPCs \cup {"exit"} \subseteq PCs /\ ShellPCs \subseteq PCs
    BY DEF SignInPCs, ShellPCs, PCs
  <1>6. ASSUME NEW pc \in SignInPCs, ReadOver(r, h, {pc})
        PROVE  ReadOver(r, h, PCs) /\ EndsBadly(r, h)
    <2>1. h.pc = pc /\ pc # "exit"
      BY <1>6 DEF ReadOver, SignInPCs
    <2> QED  BY <1>4, <1>5, <1>6, <2>1 DEF EndsBadly
  <1>7. CASE r.pc = "name"
    <2> DEFINE name  == StrLower(StrTrim(line))
               Found == {i \in DOMAIN Entries : SameStart(Entries[i].name, name, NameSize)}
               entry == Entries[Min(Found)]
    <2>1. \/ h = Prompts(r, "name")
          \/ /\ Found # {}
             /\ \E id \in entry.ids, pc \in GoesTo(entry) : h = Entered(r, entry, id, pc)
      BY <1>7 DEF Handled, Named
    <2>2. \A pc \in SignInPCs \cup {"exit"} : ReadOver(r, Prompts(r, pc), {pc})
      BY <1>2, <1>7, PromptsFit
    <2>3. CASE h = Prompts(r, "name")
      BY <1>6, <2>2, <2>3 DEF SignInPCs
    <2>4. CASE /\ Found # {}
               /\ \E id \in entry.ids, pc \in GoesTo(entry) : h = Entered(r, entry, id, pc)
      <3>1. Found \in Searches
        BY <2>4 DEF Searches
      <3>2. PICK id \in entry.ids, pc \in GoesTo(entry) : h = Entered(r, entry, id, pc)
        BY <2>4
      <3> HIDE DEF Found
      <3>3. entry.pass \in Secrets /\ (id # EFailure => id \in Users)
        BY <3>1 DEF Users, Secrets
      <3>4. pc \in SignInPCs
        BY DEF GoesTo, SignInPCs
      <3> HIDE DEF entry
      <3>5. CASE id = EFailure
        <4>1. h = [Prompts(r, "exit") EXCEPT !.status = EFailure]
          BY <3>2, <3>5 DEF Entered
        <4>2. ReadOver(r, Prompts(r, "exit"), {"exit"})
          BY <2>2
        <4>3. ReadOver(r, h, {"exit"}) /\ h.status = EFailure
          BY <1>2, <1>7, <4>1, <4>2, StatusSet
        <4> QED  BY <1>4, <4>3, LoginConstants DEF EndsBadly, PCs
      <3>6. CASE id # EFailure
        <4> DEFINE g == [Prompts(r, pc) EXCEPT !.pass = entry.pass]
        <4>1. h = [g EXCEPT !.uid = id]
          BY <3>2, <3>6 DEF Entered
        <4>2. ReadOver(r, g, {pc})
          BY <2>2, <3>3, <3>4, SecretSet
        <4> HIDE DEF g
        <4>3. ReadOver(r, h, {pc})
          BY <3>3, <3>6, <4>1, <4>2, UserSet
        <4> QED  BY <1>6, <3>4, <4>3
      <3> QED  BY <3>5, <3>6
    <2> QED  BY <2>1, <2>3, <2>4
  <1>8. CASE r.pc = "password"
    <2>1. \A pc \in SignInPCs : ReadOver(r, Prompts(r, pc), {pc})
      BY <1>2, <1>8, PromptsFit
    <2>2. h = Prompts(r, "setuid") \/ h = [Prompts(r, "name") EXCEPT !.uid = 0]
      BY <1>8 DEF Handled, Proved
    <2>3. CASE h = Prompts(r, "setuid")
      BY <1>6, <2>1, <2>3 DEF SignInPCs
    <2>4. CASE h = [Prompts(r, "name") EXCEPT !.uid = 0]
      <3>1. 0 \in Users /\ ReadOver(r, Prompts(r, "name"), {"name"})
        BY <2>1 DEF Users, SignInPCs
      <3>2. ReadOver(r, h, {"name"})
        BY <2>4, <3>1, UserSet
      <3> QED  BY <1>6, <3>2 DEF SignInPCs
    <2> QED  BY <2>2, <2>3, <2>4
  <1>9. CASE r.pc = "command"
    <2>1. PICK pc \in ShellPCs : h = Prompts(r, pc)
      BY <1>9 DEF Handled, Commanded, ShellPCs
    <2>2. ReadOver(r, h, {pc})
      BY <1>3, <1>9, <2>1, PromptsFit
    <2> QED  BY <1>3, <1>4, <1>5, <1>9, <2>2 DEF EndsBadly
  <1> QED  BY <1>7, <1>8, <1>9 DEF LineUser, Reading
-----------------------------------------------------------------------------
(* Logins.                                                                 *)

LEMMA SignersAre ==
    ASSUME LoginsFit, NEW q \in Pids, proc[q].prog = "signIn"
    PROVE  logonShell /\ shellID = q /\ proc[q].parent = InitPid /\ ~Collected(q)
  BY DEF LoginsFit, SignersKnown, Signing

LEMMA ShellsAre ==
    ASSUME LoginsFit, NEW p \in Pids, proc[p].prog = "shell"
    PROVE  Known(p) \/ Reported(p) \/ \E q \in Pids : HandedOver(p, q)
  BY DEF LoginsFit, ShellsKnown

(* Two logins that have not ended are one.                                 *)
LEMMA OneLogin ==
    ASSUME LoginsFit, NEW p \in Sessions, NEW s \in Sessions
    PROVE  p = s
  <1>1. p \in Pids /\ s \in Pids /\ proc[p].pc # "exit" /\ proc[s].pc # "exit"
        /\ proc[p].prog \in {"signIn", "shell"} /\ proc[s].prog \in {"signIn", "shell"}
    BY DEF Sessions
  <1>2. CASE proc[p].prog = "signIn" /\ proc[s].prog = "signIn"
    BY <1>1, <1>2, SignersAre
  <1>3. ASSUME NEW q \in Pids, NEW t \in Pids, proc[q].prog = "signIn", proc[q].pc # "exit",
               proc[t].prog = "shell"
        PROVE  FALSE
    <2>1. logonShell /\ shellID = q /\ ~Collected(q)
      BY <1>3, SignersAre
    <2>2. ~Known(t) /\ ~Reported(t)
      BY <2>1 DEF Known, Reported
    <2>3. PICK r \in Pids : HandedOver(t, r)
      BY <1>3, <2>2, ShellsAre
    <2>4. r = q
      BY <2>1, <2>3, SignersAre DEF HandedOver
    <2> QED  BY <1>3, <2>3, <2>4 DEF HandedOver
  <1>4. CASE proc[p].prog = "shell" /\ proc[s].prog = "shell"
    <2>1. ASSUME NEW t \in Pids, NEW r \in Pids, HandedOver(t, r)
          PROVE  logonShell /\ shellID = r /\ ~Collected(shellID) /\ proc[shellID].status = t
      BY <2>1, SignersAre DEF HandedOver
    <2>2. ASSUME NEW t \in Pids, proc[t].prog = "shell"
          PROVE  t = IF ~logonShell THEN shellID
                     ELSE IF Collected(shellID) THEN proc[InitPid].status ELSE proc[shellID].status
      BY <2>1, <2>2, ShellsAre DEF Known, Reported
    <2> QED  BY <1>1, <1>4, <2>2
  <1> QED  BY <1>1, <1>2, <1>3, <1>4

LEMMA LoginTracked ==
    ASSUME LoginsFit
    PROVE  SessionTracked
  <1>1. Cardinality(Sessions) <= 1
    <2>1. CASE Sessions = {}
      <3>1. Cardinality(Sessions) = 0
        BY <2>1, FS_EmptySet
      <3> QED  BY <3>1
    <2>2. CASE Sessions # {}
      <3>1. PICK p \in Sessions : TRUE
        BY <2>2
      <3>2. Sessions = {p}
        BY <3>1, OneLogin
      <3>3. Cardinality({p}) = 1
        BY FS_Singleton
      <3> QED  BY <3>2, <3>3
    <2> QED  BY <2>1, <2>2
  <1>2. ASSUME NEW p \in Sessions, proc[p].prog = "signIn"
        PROVE  shellID = p /\ logonShell
    BY <1>2, SignersAre DEF Sessions
  <1>3. ASSUME NEW p \in Sessions, proc[p].prog # "signIn"
        PROVE  \/ shellID = p /\ ~logonShell /\ proc[p].parent = InitPid
               \/ \E q \in Pids : /\ shellID = q /\ logonShell
                                  /\ proc[q].prog = "signIn" /\ proc[q].pc = "exit"
                                  /\ proc[q].status = p
               \/ /\ shellID = proc[InitPid].whom /\ logonShell
                  /\ proc[InitPid].pc = "collected" /\ proc[InitPid].status = p
    <2>1. p \in Pids /\ proc[p].prog = "shell"
      BY <1>3 DEF Sessions
    <2>2. CASE Known(p)
      BY <2>2 DEF Known
    <2>3. CASE Reported(p)
      BY <2>3 DEF Reported, Collected
    <2>4. CASE \E q \in Pids : HandedOver(p, q)
      BY <2>4, SignersAre DEF HandedOver
    <2> QED  BY <2>1, <2>2, <2>3, <2>4, ShellsAre
  <1> QED  BY <1>1, <1>2, <1>3 DEF SessionTracked

(* While a shell waits to be known, only init and sign-in run.             *)
LEMMA NobodyWaits ==
    ASSUME cur # InitPid, ~(proc[cur].prog = "signIn" /\ proc[cur].pc = "exit")
    PROVE  \A p, q \in Pids : ~HandedOver(p, q) /\ ~Reported(p)
  BY DEF HandedOver, Reported

(* Steps that are nothing to init's knowledge.                             *)
Logs == {"signIn", "shell"}

LoginsSame ==
    /\ shellID' = shellID /\ logonShell' = logonShell
    /\ \A p \in Pids : proc[p].prog \in Logs \/ proc'[p].prog \in Logs =>
          proc'[p].prog = proc[p].prog /\ proc'[p].parent \in {proc[p].parent, InitPid}
    /\ \A p \in Pids : proc[p].prog = "signIn" /\ proc[p].pc = "exit" =>
          proc'[p].pc = "exit" /\ proc'[p].status = proc[p].status
    /\ \A p \in Pids : proc[p].prog = "signIn" /\ proc[p].pc # "exit" /\ proc'[p].pc = "exit" =>
          proc'[p].status < 0

InitSame ==
    /\ (proc'[InitPid].pc = "collected" /\ proc'[InitPid].whom = shellID) <=> Collected(shellID)
    /\ Collected(shellID) => proc'[InitPid].status = proc[InitPid].status
    /\ proc'[InitPid].pc = "start" => proc[InitPid].pc = "start"

FreshSame(p) == proc'[p].st = "ready" /\ proc'[p].pc = "command"
TheyGoFirst ==
    /\ \A p, q \in Pids : HandedOver(p, q) => cur' \in {q, InitPid} /\ FreshSame(p)
    /\ \A p \in Pids : Reported(p) => cur' = InitPid /\ FreshSame(p)

LEMMA LoginsKept ==
    ASSUME LoginsFit, LoginsSame, InitSame, TheyGoFirst
    PROVE  LoginsFit'
  <1>1. shellID' = shellID /\ logonShell' = logonShell
    BY DEF LoginsSame
  <1>2. Collected(shellID)' <=> Collected(shellID)
    BY <1>1 DEF InitSame, Collected
  <1>3. \A q \in Pids : proc'[q].prog \in Logs =>
            proc[q].prog = proc'[q].prog /\ proc'[q].parent \in {proc[q].parent, InitPid}
    BY DEF LoginsSame
  <1>4. SignersKnown'
    <2> SUFFICES ASSUME NEW q \in Pids, proc'[q].prog = "signIn"
                 PROVE  /\ logonShell' /\ shellID' = q /\ proc'[q].parent = InitPid
                        /\ ~(proc'[InitPid].pc = "collected" /\ proc'[InitPid].whom = q)
      BY DEF SignersKnown, Signing, Collected
    <2>1. proc[q].prog = "signIn" /\ proc'[q].parent \in {proc[q].parent, InitPid}
      BY <1>3 DEF Logs
    <2> QED  BY <1>1, <2>1, SignersAre DEF InitSame
  <1>5. ShellsKnown'
    <2> SUFFICES ASSUME NEW p \in Pids, proc'[p].prog = "shell"
                 PROVE  Known(p)' \/ Reported(p)' \/ \E q \in Pids : HandedOver(p, q)'
      BY DEF ShellsKnown
    <2>1. proc[p].prog = "shell" /\ proc'[p].parent \in {proc[p].parent, InitPid}
      BY <1>3 DEF Logs
    <2>2. CASE Known(p)
      BY <1>1, <1>2, <2>1, <2>2 DEF Known, Collected
    <2>3. CASE Reported(p)
      BY <1>1, <1>2, <2>1, <2>3 DEF Reported, Collected, InitSame, TheyGoFirst, Fresh, FreshSame
    <2>4. ASSUME NEW q \in Pids, HandedOver(p, q)
          PROVE  HandedOver(p, q)'
      <3>1. proc[q].prog = "signIn" /\ proc[q].pc = "exit" /\ proc[q].status = p
            /\ proc[p].parent \in {q, InitPid}
        BY <2>4 DEF HandedOver
      <3>2. proc'[q].prog = "signIn" /\ proc'[q].pc = "exit" /\ proc'[q].status = p
        BY <3>1 DEF LoginsSame, Logs
      <3> QED  BY <2>1, <2>4, <3>1, <3>2 DEF HandedOver, TheyGoFirst, Fresh, FreshSame
    <2> QED  BY <2>1, <2>2, <2>3, <2>4, ShellsAre
  <1> DEFINE Shell2(p) == p \in Pids /\ proc'[p].prog = "shell"
  <1>6. \A p : IsShell(p) => Shell2(p)
    BY DEF IsShell, LoginsSame, Logs
  <1>7. ResultsRight'
    <2> SUFFICES ASSUME NEW q \in Pids, proc'[q].prog = "signIn", proc'[q].pc = "exit"
                 PROVE  proc'[q].status < 0 \/ Shell2(proc'[q].status)
      BY DEF ResultsRight, IsShell
    <2>1. proc[q].prog = "signIn"
      BY <1>3 DEF Logs
    <2>2. CASE proc[q].pc = "exit"
      <3>1. proc'[q].status = proc[q].status
        BY <2>1, <2>2 DEF LoginsSame
      <3>2. proc[q].status < 0 \/ IsShell(proc[q].status)
        BY <2>1, <2>2 DEF LoginsFit, ResultsRight
      <3> QED  BY <1>6, <3>1, <3>2
    <2>3. CASE proc[q].pc # "exit"
      BY <2>1, <2>3 DEF LoginsSame
    <2> QED  BY <2>2, <2>3
  <1>8. ReportRight'
    <2> DEFINE init2 == proc'[InitPid]
    <2>1. Collected(shellID) => init2.status = proc[InitPid].status
      BY DEF InitSame
    <2>2. logonShell' /\ Collected(shellID)' => init2.status < 0 \/ Shell2(init2.status)
      BY <1>1, <1>2, <1>6, <2>1 DEF LoginsFit, ReportRight
    <2>3. ~logonShell' /\ Collected(shellID)' => init2.status >= 0
      BY <1>1, <1>2, <2>1 DEF LoginsFit, ReportRight
    <2>4. ~logonShell' => shellID' \in Pids
      BY <1>1 DEF LoginsFit, ReportRight
    <2>5. shellID' \in Pids =>
             Collected(shellID)' \/ proc'[shellID'].prog = IF logonShell' THEN "signIn" ELSE "shell"
      BY <1>1, <1>2 DEF LoginsFit, ReportRight, LoginsSame, Logs
    <2>6. init2.pc = "start" => shellID' = 0 /\ logonShell'
      BY <1>1 DEF LoginsFit, ReportRight, InitSame
    <2> QED  BY <2>2, <2>3, <2>4, <2>5, <2>6 DEF ReportRight, IsShell
  <1>9. shellID' \in Statuses /\ logonShell' \in BOOLEAN
    BY <1>1 DEF LoginsFit
  <1> QED  BY <1>4, <1>5, <1>7, <1>8, <1>9 DEF LoginsFit

(* The line of the terminal, when no login has moved.                      *)
LEMMA LineKept ==
    ASSUME LineFits, shown' = shown,
           \A p \in Pids : proc'[p].prog \in Logs /\ proc'[p].pc \in Reading \cup {"test"} =>
               /\ proc[p].prog = proc'[p].prog /\ proc[p].pc = proc'[p].pc
               /\ proc[p].buf = proc'[p].buf
    PROVE  LineFits'
  <1> SUFFICES ASSUME NEW p \in Pids, proc'[p].prog \in Logs
               PROVE  /\ proc'[p].pc \in {"name", "command"} =>
                            shown' = <<Prompt>> \o proc'[p].buf
                      /\ proc'[p].pc \in {"password", "test"} => shown' = <<Prompt>>
    BY DEF LineFits, Sessions, Logs
  <1>1. CASE proc'[p].pc \in Reading \cup {"test"}
    <2>1. p \in Sessions /\ proc[p].pc = proc'[p].pc /\ proc[p].buf = proc'[p].buf
      BY <1>1 DEF Sessions, Logs, Reading
    <2> QED  BY <2>1 DEF LineFits
  <1> QED  BY <1>1 DEF Reading
-----------------------------------------------------------------------------
(* Who runs.                                                               *)

RunFits(pr, queues, c) ==
    /\ ProcessesFit(pr) /\ ReadyFits(queues, pr, c)
    /\ c \in Pids \cup {0} /\ (c # 0 => pr[c].st = "ready")

LEMMA GoesOn ==
    ASSUME NEW pr, NEW queues, NEW c \in Pids, RunFits(pr, queues, c), NEW r, RecordFits(r),
           r.st = "ready", r.prog = pr[c].prog, r.parent = pr[c].parent
    PROVE  RunFits([pr EXCEPT ![c] = r], queues, c)
  <1> DEFINE pr2 == [pr EXCEPT ![c] = r]
  <1>1. pr[c].st = "ready" /\ ProcessesFit(pr) /\ ReadyFits(queues, pr, c)
    BY LoginConstants DEF RunFits
  <1>2. ProcessesFit(pr2)
    BY <1>1, SetRecord DEF Runs
  <1>3. pr2[c] = r /\ \A q \in Pids : q # c => pr2[q] = pr[q]
    BY <1>1 DEF ProcessesFit
  <1> HIDE DEF pr2
  <1>4. ReadyFits(queues, pr2, c)
    <2>1. \A q \in Pids : \A i \in 1 .. 2 : q \in OnReady(pr2, c, i) <=> q \in OnReady(pr, c, i)
      BY <1>3 DEF OnReady
    <2> QED  BY <1>1, <2>1, ReadyKept
  <1> QED  BY <1>2, <1>3, <1>4 DEF RunFits, pr2

LEMMA Stops ==
    ASSUME NEW pr, NEW queues, NEW c, ReadyFits(queues, pr, c), NEW pr2, ProcessesFit(pr2),
           c \in Pids => pr2[c].st # "ready",
           \A q \in Pids : q # c => pr2[q].st = pr[q].st /\ pr2[q].prog = pr[q].prog,
           Dispatch(queues)
    PROVE  /\ RunFits(pr2, ready', cur')
           /\ OnReady(pr2, 0, 1) # {} => cur' \in OnReady(pr2, 0, 1)
  <1>1. ReadyFits(queues, pr2, 0)
    <2>1. \A r \in Pids : \A i \in 1 .. 2 : r \in OnReady(pr2, 0, i) <=> r \in OnReady(pr, c, i)
      BY CurStops
    <2> QED  BY <2>1, ReadyKept
  <1> QED  BY <1>1, Dispatched DEF RunFits

LEMMA Spawns ==
    ASSUME NEW pr, NEW queues, NEW c, RunFits(pr, queues, c), NEW ch \in Pids,
           pr[ch].st = "unused", NEW r, RecordFits(r), r.prog \notin {"none", "init"},
           r.parent \in Pids, Runs(pr, r.parent), r.st = "ready"
    PROVE  RunFits([pr EXCEPT ![ch] = r], Queued(queues, ch, r.prog), c)
  <1> DEFINE pr2 == [pr EXCEPT ![ch] = r]
             prog == r.prog
  <1>1. ProcessesFit(pr) /\ ReadyFits(queues, pr, c) /\ ch # c
    BY LoginConstants DEF RunFits
  <1>2. ProcessesFit(pr2)
    BY <1>1, SpawnRecord
  <1>3. pr2[ch] = r /\ \A q \in Pids : q # ch => pr2[q] = pr[q]
    BY <1>1 DEF ProcessesFit
  <1> HIDE DEF pr2
  <1>4. \A i \in 1 .. 2 : ch \notin OnReady(pr, c, i)
    BY DEF OnReady
  <1>5. \A q \in Pids \ {ch} : \A i \in 1 .. 2 : q \in OnReady(pr2, c, i) <=> q \in OnReady(pr, c, i)
    BY <1>3 DEF OnReady
  <1>6. prog = pr2[ch].prog /\ pr2[ch].st = "ready"
    BY <1>3
  <1> HIDE DEF prog
  <1>7. ReadyFits(Queued(queues, ch, prog), pr2, c)
    BY <1>1, <1>4, <1>5, <1>6, QueuedFits
  <1>8. c \in Pids \cup {0} /\ (c # 0 => pr2[c].st = "ready")
    BY <1>1, <1>3 DEF RunFits
  <1> QED  BY <1>2, <1>7, <1>8 DEF RunFits, pr2, prog

(* Somebody who slept, read or waited is ready.                            *)
LEMMA Joins ==
    ASSUME NEW pr, NEW queues, NEW c, RunFits(pr, queues, c), NEW p \in Pids, NEW r, RecordFits(r),
           pr[p].st \notin {"unused", "zombie", "ready"},
           r.st = "ready", r.prog = pr[p].prog, r.parent = pr[p].parent
    PROVE  RunFits([pr EXCEPT ![p] = r], Queued(queues, p, pr[p].prog), c)
  <1> DEFINE pr2 == [pr EXCEPT ![p] = r]
             prog == pr[p].prog
  <1>1. ProcessesFit(pr) /\ ReadyFits(queues, pr, c) /\ p # c
    BY LoginConstants DEF RunFits
  <1>2. ProcessesFit(pr2)
    BY <1>1, SetRecord DEF Runs
  <1>3. pr2[p] = r /\ \A q \in Pids : q # p => pr2[q] = pr[q]
    BY <1>1 DEF ProcessesFit
  <1> HIDE DEF pr2
  <1>4. \A i \in 1 .. 2 : p \notin OnReady(pr, c, i)
    BY DEF OnReady
  <1>5. \A q \in Pids \ {p} : \A i \in 1 .. 2 : q \in OnReady(pr2, c, i) <=> q \in OnReady(pr, c, i)
    BY <1>3 DEF OnReady
  <1>6. prog = pr2[p].prog /\ pr2[p].st = "ready"
    BY <1>3
  <1> HIDE DEF prog
  <1>7. ReadyFits(Queued(queues, p, prog), pr2, c)
    BY <1>1, <1>4, <1>5, <1>6, QueuedFits
  <1>8. c \in Pids \cup {0} /\ (c # 0 => pr2[c].st = "ready")
    BY <1>1, <1>3 DEF RunFits
  <1> QED  BY <1>2, <1>7, <1>8 DEF RunFits, pr2, prog

LEMMA ReadersKept ==
    ASSUME ReadersFit, readers' = readers, input' = input,
           \A p \in Pids : proc'[p].st = "reading" <=> proc[p].st = "reading"
    PROVE  ReadersFit'
  <1>1. {p \in Pids : proc'[p].st = "reading"} = {p \in Pids : proc[p].st = "reading"}
    OBVIOUS
  <1> QED  BY <1>1 DEF ReadersFit

LEMMA LoginParts ==
    LoginInv <=> RunFits(proc, ready, cur) /\ ReadersFit /\ LoginsFit /\ LineFits
  BY DEF LoginInv, RunFits, QueuesFit

LEMMA LoginPartsNext ==
    ASSUME RunFits(proc', ready', cur'), ReadersFit', LoginsFit', LineFits'
    PROVE  LoginInv'
  <1>1. ProcessesFit(proc') /\ ReadyFits(ready', proc', cur')
        /\ cur' \in Pids \cup {0} /\ (cur' # 0 => proc'[cur'].st = "ready")
    BY DEF RunFits
  <1> QED  BY <1>1 DEF LoginInv, QueuesFit, ProcessesFit, ReadyFits

(* What a program does that no login hears of.                             *)
Others == {"none", "test"}

LEMMA QuietByCur ==
    ASSUME ProcessesFit(proc), LoginsFit, cur \in Pids, cur # InitPid,
           ~(proc[cur].prog = "signIn" /\ proc[cur].pc = "exit"),
           shellID' = shellID, logonShell' = logonShell,
           proc'[cur].prog = proc[cur].prog, proc'[cur].parent = proc[cur].parent,
           proc[cur].prog = "signIn" /\ proc'[cur].pc = "exit" => proc'[cur].status < 0,
           \A q \in Pids : q = cur \/ proc'[q] = proc[q]
                           \/ (proc[q].prog \in Others /\ proc'[q].prog \in Others)
    PROVE  LoginsFit'
  <1>1. proc'[InitPid] = proc[InitPid]
    BY LoginConstants, InitRuns DEF Others
  <1>2. LoginsSame
    BY DEF LoginsSame, Others, Logs
  <1>3. InitSame
    BY <1>1 DEF InitSame, Collected
  <1>4. TheyGoFirst
    BY NobodyWaits DEF TheyGoFirst
  <1> QED  BY <1>2, <1>3, <1>4, LoginsKept
-----------------------------------------------------------------------------
(* The clock and the terminal.                                             *)

LEMMA TickStep ==
    ASSUME LoginInv, Tick
    PROVE  LoginInv'
  <1>1. RunFits(proc, ready, cur) /\ ReadersFit /\ LoginsFit /\ LineFits
    BY LoginParts
  <1>2. UNCHANGED <<proc, readers, input, shown, shellID, logonShell>>
    BY DEF Tick
  <1> DEFINE queues == IF cur = 0 THEN ready ELSE Queued(ready, cur, proc[cur].prog)
  <1>3. ReadyFits(queues, proc, 0)
    <2>1. CASE cur = 0
      BY <1>1, <2>1 DEF RunFits
    <2>2. CASE cur # 0
      <3>1. cur \in Pids /\ proc[cur].st = "ready" /\ ReadyFits(ready, proc, cur)
        BY <1>1, <2>2 DEF RunFits
      <3>2. \A i \in 1 .. 2 : cur \notin OnReady(proc, cur, i)
        BY DEF OnReady
      <3>3. \A r \in Pids \ {cur} : \A i \in 1 .. 2 : r \in OnReady(proc, 0, i) <=> r \in OnReady(proc, cur, i)
        BY LoginConstants DEF OnReady
      <3> DEFINE prog == proc[cur].prog
      <3>4. prog = proc[cur].prog
        OBVIOUS
      <3> HIDE DEF prog
      <3>5. ReadyFits(Queued(ready, cur, prog), proc, 0)
        BY <2>2, <3>1, <3>2, <3>3, <3>4, QueuedFits
      <3> QED  BY <2>2, <3>4, <3>5
    <2> QED  BY <2>1, <2>2
  <1>4. Dispatch(queues)
    BY DEF Tick
  <1> HIDE DEF queues
  <1>5. /\ ReadyFits(ready', proc, cur') /\ cur' \in Pids \cup {0}
        /\ cur' # 0 => proc[cur'].st = "ready"
        /\ OnReady(proc, 0, 1) # {} => cur' \in OnReady(proc, 0, 1)
    BY <1>3, <1>4, Dispatched
  <1>6. RunFits(proc', ready', cur')
    BY <1>1, <1>2, <1>5 DEF RunFits
  <1>7. ASSUME cur \in Pids, proc[cur].prog \in {"init", "signIn"}
        PROVE  cur' \in Pids /\ proc[cur'].prog \in {"init", "signIn"}
    <2>1. cur \in OnReady(proc, 0, 1)
      BY <1>1, <1>7, LoginConstants DEF OnReady, RunFits, Prio
    <2>2. cur' \in OnReady(proc, 0, 1)
      BY <1>5, <2>1
    <2> QED  BY <2>2 DEF OnReady, Prio
  <1>8. \A p \in Pids : proc[p].prog = "init" => p = InitPid
    BY <1>1 DEF RunFits, ProcessesFit
  <1>9. TheyGoFirst
    <2>1. ASSUME NEW p \in Pids, NEW q \in Pids, HandedOver(p, q)
          PROVE  cur' \in {q, InitPid} /\ FreshSame(p)
      <3>1. cur \in Pids /\ proc[cur].prog \in {"init", "signIn"} /\ proc[q].prog = "signIn"
        BY <1>1, <2>1, InitRuns, LoginConstants DEF HandedOver, RunFits
      <3>2. cur' \in {q, InitPid}
        BY <1>1, <1>7, <1>8, <3>1, SignersAre
      <3> QED  BY <1>2, <2>1, <3>2 DEF HandedOver, Fresh, FreshSame
    <2>2. ASSUME NEW p \in Pids, Reported(p)
          PROVE  cur' = InitPid /\ FreshSame(p)
      <3>1. cur = InitPid /\ Collected(shellID) /\ proc[InitPid].prog = "init"
        BY <1>1, <2>2, InitRuns DEF Reported, RunFits
      <3>2. cur' = InitPid
        BY <1>1, <1>7, <1>8, <3>1, SignersAre, LoginConstants
      <3> QED  BY <1>2, <2>2, <3>2 DEF Reported, Fresh, FreshSame
    <2> QED  BY <2>1, <2>2 DEF TheyGoFirst
  <1>10. LoginsFit'
    <2>1. LoginsSame /\ InitSame
      BY <1>2 DEF LoginsSame, InitSame, Collected
    <2> QED  BY <1>1, <1>9, <2>1, LoginsKept
  <1>11. ReadersFit'
    BY <1>1, <1>2, ReadersKept
  <1>12. LineFits'
    BY <1>1, <1>2, LineKept
  <1> QED  BY <1>6, <1>10, <1>11, <1>12, LoginPartsNext

(* A process becomes ready, and stands where it stood.                     *)
LEMMA JoinsQuietly ==
    ASSUME ProcessesFit(proc), LoginsFit, LineFits, NEW p \in Pids,
           proc[p].st # "ready", proc[p].st \notin {"unused", "zombie"},
           \A q \in Pids : q # p => proc'[q] = proc[q],
           proc'[p].prog = proc[p].prog, proc'[p].parent = proc[p].parent,
           proc'[p].pc = proc[p].pc, proc'[p].status = proc[p].status,
           proc'[p].whom = proc[p].whom, proc'[p].buf = proc[p].buf,
           UNCHANGED <<cur, shown, shellID, logonShell>>
    PROVE  LoginsFit' /\ LineFits'
  <1>1. LoginsSame
    BY DEF LoginsSame
  <1>2. InitSame
    BY LoginConstants DEF InitSame, Collected
  <1>3. TheyGoFirst
    BY DEF TheyGoFirst, HandedOver, Reported, Fresh, FreshSame
  <1>4. LoginsFit'
    BY <1>1, <1>2, <1>3, LoginsKept
  <1>5. LineFits'
    BY LineKept
  <1> QED  BY <1>4, <1>5

LEMMA WakeStep ==
    ASSUME LoginInv, NEW p \in Pids, Wake(p)
    PROVE  LoginInv'
  <1>1. RunFits(proc, ready, cur) /\ ReadersFit /\ LoginsFit /\ LineFits /\ ProcessesFit(proc)
    BY LoginParts DEF RunFits
  <1> DEFINE r == [proc[p] EXCEPT !.st = "ready"]
  <1>2. /\ proc[p].st = "sleeping" /\ proc' = [proc EXCEPT ![p] = r]
        /\ ready' = Queued(ready, p, proc[p].prog)
        /\ UNCHANGED <<cur, readers, input, shown, shellID, logonShell>>
    BY DEF Wake
  <1>3. /\ r \in Records
        /\ r.prog = proc[p].prog /\ r.parent = proc[p].parent /\ r.st = "ready" /\ r.pc = proc[p].pc
        /\ r.status = proc[p].status /\ r.whom = proc[p].whom /\ r.buf = proc[p].buf
    <2>1. proc[p] \in Records
      BY <1>1, RecordIs
    <2>2. "ready" \in States
      BY DEF States
    <2> QED  BY <2>1, <2>2 DEF Records
  <1> HIDE DEF r
  <1>4. RecordFits(r)
    BY <1>1, <1>2, <1>3, RecordIs DEF RecordFits, PlaceFits, StateFits, FieldsFit
  <1>5. RunFits(proc', ready', cur')
    BY <1>1, <1>2, <1>3, <1>4, Joins
  <1>6. proc'[p] = r /\ \A q \in Pids : q # p => proc'[q] = proc[q]
    BY <1>1, <1>2 DEF ProcessesFit
  <1>7. LoginsFit' /\ LineFits'
    BY <1>1, <1>2, <1>3, <1>6, JoinsQuietly
  <1>8. ReadersFit'
    BY <1>1, <1>2, <1>3, <1>6, ReadersKept
  <1> QED  BY <1>5, <1>7, <1>8, LoginPartsNext

LEMMA TypeStep ==
    ASSUME LoginInv, NEW c \in Typeable, Type(c)
    PROVE  LoginInv'
  <1>1. RunFits(proc, ready, cur) /\ ReadersFit /\ LoginsFit /\ LineFits /\ ProcessesFit(proc)
    BY LoginParts DEF RunFits
  <1>2. CASE readers # <<>>
    <2> DEFINE p == Head(readers)
               r == [proc[p] EXCEPT !.st = "ready", !.key = c]
    <2>1. /\ proc' = [proc EXCEPT ![p] = r] /\ ready' = Queued(ready, p, proc[p].prog)
          /\ readers' = Tail(readers)
          /\ UNCHANGED <<cur, input, shown, shellID, logonShell>>
      BY <1>2 DEF Type
    <2>2. /\ p \in Pids /\ p \in ToSet(readers) /\ Tail(readers) \in Seq(Pids)
          /\ ToSet(Tail(readers)) = ToSet(readers) \ {p} /\ IsInjective(Tail(readers))
      BY <1>1, <1>2, TailMembers DEF ReadersFit
    <2> HIDE DEF p
    <2>3. proc[p].st = "reading"
      BY <1>1, <2>2 DEF ReadersFit
    <2>4. /\ r \in Records
          /\ r.prog = proc[p].prog /\ r.parent = proc[p].parent /\ r.st = "ready"
          /\ r.pc = proc[p].pc
          /\ r.status = proc[p].status /\ r.whom = proc[p].whom /\ r.buf = proc[p].buf
      <3>1. proc[p] \in Records
        BY <1>1, <2>2, RecordIs
      <3>2. "ready" \in States
        BY DEF States
      <3> QED  BY <3>1, <3>2 DEF Records
    <2> HIDE DEF r
    <2>5. RecordFits(r)
      BY <1>1, <2>2, <2>3, <2>4, RecordIs DEF RecordFits, PlaceFits, StateFits, FieldsFit
    <2>6. RunFits(proc', ready', cur')
      BY <1>1, <2>1, <2>2, <2>3, <2>4, <2>5, Joins
    <2>7. proc'[p] = r /\ \A q \in Pids : q # p => proc'[q] = proc[q]
      BY <1>1, <2>1, <2>2 DEF ProcessesFit
    <2>8. LoginsFit' /\ LineFits'
      BY <1>1, <2>1, <2>2, <2>3, <2>4, <2>7, JoinsQuietly
    <2>9. ReadersFit'
      <3>1. {q \in Pids : proc'[q].st = "reading"} = {q \in Pids : proc[q].st = "reading"} \ {p}
        BY <2>2, <2>4, <2>7
      <3> QED  BY <1>1, <2>1, <2>2, <3>1 DEF ReadersFit
    <2> QED  BY <2>6, <2>8, <2>9, LoginPartsNext
  <1>3. CASE readers = <<>>
    <2>1. /\ Len(input) < MaxAhead /\ input' = Append(input, c)
          /\ UNCHANGED <<proc, ready, readers, cur, shown, shellID, logonShell>>
      BY <1>3 DEF Type
    <2>2. RunFits(proc', ready', cur')
      BY <1>1, <2>1
    <2>3. ReadersFit'
      <3>1. input \in Seq(Typeable)
        BY <1>1 DEF ReadersFit
      <3>2. input' \in Seq(Typeable) /\ Len(input') = Len(input) + 1
        BY <2>1, <3>1, AppendProperties
      <3>3. Len(input') <= MaxAhead
        BY <2>1, <3>1, <3>2, LenProperties, LoginAssumption
      <3> QED  BY <1>1, <2>1, <3>2, <3>3 DEF ReadersFit
    <2>4. LoginsFit'
      <3>1. LoginsSame /\ InitSame /\ TheyGoFirst
        BY <2>1 DEF LoginsSame, InitSame, TheyGoFirst, Collected, HandedOver, Reported, Fresh,
                    FreshSame
      <3> QED  BY <1>1, <3>1, LoginsKept
    <2>5. LineFits'
      BY <1>1, <2>1, LineKept
    <2> QED  BY <2>2, <2>3, <2>4, <2>5, LoginPartsNext
  <1> QED  BY <1>2, <1>3
-----------------------------------------------------------------------------
(* The line that is typed.                                                 *)

LEMMA FrontIs ==
    ASSUME NEW S, NEW s \in Seq(S), s # <<>>
    PROVE  /\ Front(s) \in Seq(S) /\ Len(Front(s)) = Len(s) - 1
           /\ \A k \in 1 .. Len(s) - 1 : Front(s)[k] = s[k]
  <1>1. Len(s) \in Nat \ {0}
    BY EmptySeq, LenProperties
  <1>2. Front(s) = SubSeq(s, 1, Len(s) - 1)
    BY DEF Front
  <1>3. SubSeq(s, 1, Len(s) - 1) = [k \in 1 .. Len(s) - 1 |-> s[k]]
    BY <1>1
  <1>4. Front(s) = [k \in 1 .. Len(s) - 1 |-> s[k]]
    BY <1>2, <1>3
  <1> QED  BY <1>1, <1>4

LEMMA SameSeq ==
    ASSUME NEW S, NEW s \in Seq(S), NEW t \in Seq(S), Len(s) = Len(t),
           \A k \in 1 .. Len(s) : s[k] = t[k]
    PROVE  s = t
  <1>1. s = [k \in 1 .. Len(s) |-> s[k]] /\ t = [k \in 1 .. Len(t) |-> t[k]]
    BY LenProperties
  <1> QED  BY <1>1

LEMMA PromptedIs ==
    ASSUME NEW S, NEW a \in S, NEW s \in Seq(S)
    PROVE  /\ <<a>> \o s \in Seq(S) /\ Len(<<a>> \o s) = Len(s) + 1
           /\ \A k \in 1 .. Len(s) + 1 : (<<a>> \o s)[k] = IF k = 1 THEN a ELSE s[k - 1]
  <1>1. <<a>> \in Seq(S) /\ Len(<<a>>) = 1 /\ <<a>>[1] = a
    OBVIOUS
  <1>2. Len(s) \in Nat
    BY LenProperties
  <1> QED  BY <1>1, <1>2

(* A character is added to the line, or taken from it, behind the prompt.  *)
LEMMA ShownAppended ==
    ASSUME NEW S, NEW a \in S, NEW s \in Seq(S), NEW c \in S
    PROVE  Append(<<a>> \o s, c) = <<a>> \o Append(s, c)
  <1> DEFINE x == <<a>> \o s
             y == Append(s, c)
  <1>1. /\ x \in Seq(S) /\ Len(x) = Len(s) + 1 /\ Len(s) \in Nat
        /\ \A k \in 1 .. Len(s) + 1 : x[k] = IF k = 1 THEN a ELSE s[k - 1]
    BY PromptedIs, LenProperties
  <1>2. /\ y \in Seq(S) /\ Len(y) = Len(s) + 1
        /\ \A k \in 1 .. Len(s) : y[k] = s[k]
        /\ y[Len(s) + 1] = c
    BY AppendProperties
  <1> HIDE DEF x, y
  <1>3. /\ <<a>> \o y \in Seq(S) /\ Len(<<a>> \o y) = Len(s) + 2
        /\ \A k \in 1 .. Len(s) + 2 : (<<a>> \o y)[k] = IF k = 1 THEN a ELSE y[k - 1]
    BY <1>1, <1>2, PromptedIs
  <1>4. /\ Append(x, c) \in Seq(S) /\ Len(Append(x, c)) = Len(s) + 2
        /\ \A k \in 1 .. Len(s) + 1 : Append(x, c)[k] = x[k]
        /\ Append(x, c)[Len(s) + 2] = c
    BY <1>1, AppendProperties
  <1>5. ASSUME NEW k \in 1 .. Len(s) + 2
        PROVE  Append(x, c)[k] = (<<a>> \o y)[k]
    <2>1. CASE k = 1
      BY <1>1, <1>3, <1>4, <2>1
    <2>2. CASE k \in 2 .. Len(s) + 1
      <3>1. k - 1 \in 1 .. Len(s) /\ k \in 1 .. Len(s) + 1 /\ k \in 1 .. Len(s) + 2 /\ k # 1
        BY <1>1, <2>2
      <3>2. Append(x, c)[k] = x[k] /\ x[k] = s[k - 1]
        BY <1>1, <1>4, <3>1
      <3>3. (<<a>> \o y)[k] = y[k - 1] /\ y[k - 1] = s[k - 1]
        BY <1>2, <1>3, <3>1
      <3> QED  BY <3>2, <3>3
    <2>3. CASE k = Len(s) + 2
      BY <1>1, <1>2, <1>3, <1>4, <2>3
    <2>4. Len(s) \in Nat
      BY <1>1
    <2>5. k = 1 \/ k \in 2 .. Len(s) + 1 \/ k = Len(s) + 2
      BY <2>4
    <2> QED  BY <2>1, <2>2, <2>3, <2>5
  <1>6. Append(x, c) = <<a>> \o y
    BY ZenonT(30), <1>3, <1>4, <1>5, SameSeq
  <1> QED  BY <1>6 DEF x, y

LEMMA ShownErased ==
    ASSUME NEW S, NEW a \in S, NEW s \in Seq(S), s # <<>>
    PROVE  Front(<<a>> \o s) = <<a>> \o Front(s)
  <1> DEFINE x == <<a>> \o s
             y == Front(s)
  <1>1. /\ x \in Seq(S) /\ Len(x) = Len(s) + 1 /\ Len(s) \in Nat \ {0}
        /\ \A k \in 1 .. Len(s) + 1 : x[k] = IF k = 1 THEN a ELSE s[k - 1]
    BY PromptedIs, LenProperties, EmptySeq
  <1>2. y \in Seq(S) /\ Len(y) = Len(s) - 1 /\ \A k \in 1 .. Len(s) - 1 : y[k] = s[k]
    BY FrontIs
  <1> HIDE DEF x, y
  <1>3. /\ <<a>> \o y \in Seq(S) /\ Len(<<a>> \o y) = Len(s)
        /\ \A k \in 1 .. Len(s) : (<<a>> \o y)[k] = IF k = 1 THEN a ELSE y[k - 1]
    BY <1>1, <1>2, PromptedIs
  <1>4. x # <<>>
    BY <1>1, EmptySeq
  <1>5. /\ Front(x) \in Seq(S) /\ Len(Front(x)) = Len(s)
        /\ \A k \in 1 .. Len(s) : Front(x)[k] = x[k]
    BY <1>1, <1>4, FrontIs
  <1>6. ASSUME NEW k \in 1 .. Len(s)
        PROVE  Front(x)[k] = (<<a>> \o y)[k]
    <2>1. CASE k = 1
      BY <1>1, <1>3, <1>5, <2>1
    <2>2. CASE k # 1
      <3>1. k - 1 \in 1 .. Len(s) - 1
        BY <1>1, <2>2
      <3> QED  BY <1>1, <1>2, <1>3, <1>5, <2>2, <3>1
    <2> QED  BY <2>1, <2>2
  <1>7. Front(x) = <<a>> \o y
    BY <1>3, <1>5, <1>6, SameSeq
  <1> QED  BY <1>7 DEF x, y

(* The terminal shows the line of a process that stands at pc.             *)
ShowsLine(line, r) ==
    /\ r.pc \in {"name", "command"} => line = <<Prompt>> \o r.buf
    /\ r.pc \in {"password", "test"} => line = <<Prompt>>

LEMMA PromptAlone == <<Prompt>> \o <<>> = <<Prompt>>
  <1>1. <<Prompt>> \in Seq(Nat)
    BY DEF Prompt
  <1> QED  BY <1>1, EmptySeq

LEMMA LineOfOne ==
    ASSUME LoginsFit, NEW p \in Sessions, ShowsLine(shown', proc'[p]),
           \A q \in Pids : q = p \/ proc'[q] = proc[q] \/ proc'[q].prog \in Others
    PROVE  LineFits'
  <1> SUFFICES ASSUME NEW q \in Pids, proc'[q].prog \in Logs, proc'[q].pc # "exit"
               PROVE  ShowsLine(shown', proc'[q])
    BY DEF LineFits, Sessions, Logs, ShowsLine
  <1>1. CASE q = p
    BY <1>1
  <1>2. CASE q # p
    <2>1. proc'[q] = proc[q]
      BY <1>2 DEF Logs, Others
    <2>2. q \in Sessions
      BY <2>1 DEF Sessions, Logs
    <2> QED  BY <1>2, <2>2, OneLogin
  <1> QED  BY <1>1, <1>2
-----------------------------------------------------------------------------
(* readLn.                                                                 *)

(* What r becomes when it goes on.                                         *)
Follows(r, h) ==
    /\ RecordFits(h) /\ h.st = "ready" /\ h.prog = r.prog /\ h.parent = r.parent
    /\ EndsBadly(r, h)

LEMMA BufSet ==
    ASSUME NEW r, LineUser(r), NEW buf \in Seq(Typeable), Len(buf) < Length(r.pc) - 1
    PROVE  /\ Follows(r, [r EXCEPT !.key = 0, !.buf = buf])
           /\ [r EXCEPT !.key = 0, !.buf = buf].pc = r.pc
           /\ [r EXCEPT !.key = 0, !.buf = buf].buf = buf
  <1> DEFINE h == [r EXCEPT !.key = 0, !.buf = buf]
  <1>1. r \in Records /\ PlaceFits(r) /\ StateFits(r) /\ FieldsFit(r) /\ r.st = "ready"
        /\ r.pc \in Reading
    BY DEF LineUser, RecordFits
  <1>2. h \in Records
    BY <1>1 DEF Records
  <1>3. /\ h.prog = r.prog /\ h.parent = r.parent /\ h.st = r.st /\ h.pc = r.pc /\ h.buf = buf
        /\ h.status = r.status /\ h.whom = r.whom
    BY <1>1 DEF Records
  <1> HIDE DEF h
  <1>4. RecordFits(h)
    BY <1>1, <1>2, <1>3 DEF RecordFits, PlaceFits, StateFits, FieldsFit
  <1>5. EndsBadly(r, h)
    BY <1>1, <1>3 DEF EndsBadly, Reading
  <1> QED  BY <1>1, <1>3, <1>4, <1>5 DEF Follows, h

LEMMA TakenIs ==
    ASSUME ProcessesFit(proc), NEW p \in Pids, LineUser(proc[p]), ShowsLine(shown, proc[p]),
           NEW c \in Typeable, Taken(p, c)
    PROVE  \E h : /\ proc' = [proc EXCEPT ![p] = h] /\ Follows(proc[p], h)
                  /\ ShowsLine(shown', h)
  <1> DEFINE r == proc[p]
             line == r.buf
             more == Append(line, c)
  <1>1. /\ r \in Records /\ FieldsFit(r) /\ r.pc \in Reading /\ line \in Seq(Typeable)
        /\ Len(line) < Length(r.pc) - 1 /\ Len(line) \in Nat
    <2>1. r \in Records /\ FieldsFit(r) /\ r.pc \in Reading
      BY DEF LineUser, RecordFits
    <2>2. line \in Seq(Typeable)
      BY <2>1 DEF Records
    <2>3. Len(<<>>) = 0 /\ 0 < Length(r.pc) - 1
      BY EmptySeq, LoginConstants
    <2> QED  BY <2>1, <2>2, <2>3, LenProperties DEF FieldsFit
  <1>2. /\ more \in Seq(Typeable) /\ Len(more) = Len(line) + 1
    BY <1>1, AppendProperties
  <1>3. CASE /\ \E h \in Handled(r, IF c = LF THEN line ELSE more) :
                     proc' = [proc EXCEPT ![p] = h]
             /\ shown' = <<Prompt>>
    <2>1. PICK h \in Handled(r, IF c = LF THEN line ELSE more) :
             proc' = [proc EXCEPT ![p] = h]
      BY <1>3
    <2>2. ReadOver(r, h, PCs) /\ EndsBadly(r, h)
      BY HandledIs
    <2>3. ShowsLine(shown', h)
      BY <1>3, <2>2, PromptAlone DEF ReadOver, ShowsLine
    <2>4. Follows(r, h)
      BY <2>2 DEF ReadOver, Follows
    <2> QED  BY <2>1, <2>3, <2>4
  <1>4. CASE /\ c = Backspace
             /\ proc' = [proc EXCEPT ![p].key = 0,
                                     ![p].buf = IF line = <<>> THEN line ELSE Front(line)]
             /\ shown' = Erased(line, Echoes(p))
    <2> DEFINE buf == IF line = <<>> THEN line ELSE Front(line)
               h == [r EXCEPT !.key = 0, !.buf = buf]
    <2>1. proc' = [proc EXCEPT ![p] = h]
      BY <1>4
    <2>2. buf \in Seq(Typeable) /\ Len(buf) < Length(r.pc) - 1
      BY <1>1, FrontIs, LoginConstants
    <2>3. shown' = IF line # <<>> /\ r.pc # "password" THEN Front(shown) ELSE shown
      BY <1>4 DEF Erased, Echoes
    <2>4. r.pc \in {"name", "command"} => shown' = <<Prompt>> \o buf
      <3>1. CASE line = <<>> \/ r.pc \notin {"name", "command"}
        BY <2>3, <3>1 DEF ShowsLine
      <3>2. CASE line # <<>> /\ r.pc \in {"name", "command"}
        <4>1. shown' = Front(shown) /\ shown = <<Prompt>> \o line /\ buf = Front(line)
          BY <2>3, <3>2 DEF ShowsLine
        <4> DEFINE S == Typeable \cup {Prompt}
        <4>2. line \in Seq(S) /\ Prompt \in S
          BY <1>1
        <4> HIDE DEF S
        <4>3. Front(<<Prompt>> \o line) = <<Prompt>> \o Front(line)
          BY <3>2, <4>2, ShownErased
        <4> QED  BY <4>1, <4>3
      <3> QED  BY <3>1, <3>2
    <2>5. r.pc \in {"password", "test"} => shown' = <<Prompt>>
      BY <1>1, <2>3 DEF ShowsLine, Reading
    <2> HIDE DEF buf
    <2>6. Follows(r, h) /\ h.pc = r.pc /\ h.buf = buf
      BY <2>2, BufSet
    <2> HIDE DEF h
    <2>7. ShowsLine(shown', h)
      BY <2>4, <2>5, <2>6 DEF ShowsLine
    <2> QED  BY <2>1, <2>6, <2>7
  <1>5. CASE c \in {CR, 0} /\ proc' = [proc EXCEPT ![p].key = 0] /\ UNCHANGED shown
    <2> DEFINE h == [r EXCEPT !.key = 0, !.buf = line]
    <2>1. proc' = [proc EXCEPT ![p] = h]
      BY <1>1, <1>5 DEF Records
    <2>2. Follows(r, h) /\ h.pc = r.pc /\ h.buf = line
      BY <1>1, BufSet
    <2> HIDE DEF h
    <2>3. ShowsLine(shown', h)
      BY <1>5, <2>2 DEF ShowsLine
    <2> QED  BY <2>1, <2>2, <2>3
  <1>6. CASE /\ c \notin {LF, Backspace, CR, 0} /\ ~Full(r.pc, more)
             /\ proc' = [proc EXCEPT ![p].key = 0, ![p].buf = more]
             /\ shown' = IF Echoes(p) THEN Append(shown, c) ELSE shown
    <2> DEFINE h == [r EXCEPT !.key = 0, !.buf = more]
    <2>1. proc' = [proc EXCEPT ![p] = h]
      BY <1>6
    <2>2. Len(more) < Length(r.pc) - 1
      BY <1>1, <1>2, <1>6, LoginConstants DEF Full
    <2>3. shown' = IF r.pc # "password" THEN Append(shown, c) ELSE shown
      BY <1>6 DEF Echoes
    <2>4. r.pc \in {"name", "command"} => shown' = <<Prompt>> \o more
      <3> SUFFICES ASSUME r.pc \in {"name", "command"}
                   PROVE  shown' = <<Prompt>> \o more
        OBVIOUS
      <3>1. shown' = Append(shown, c) /\ shown = <<Prompt>> \o line
        BY <2>3 DEF ShowsLine
      <3> DEFINE S == Typeable \cup {Prompt}
      <3>2. line \in Seq(S) /\ Prompt \in S /\ c \in S
        BY <1>1
      <3> HIDE DEF S
      <3>3. Append(<<Prompt>> \o line, c) = <<Prompt>> \o more
        BY <3>2, ShownAppended
      <3> QED  BY <3>1, <3>3
    <2>5. r.pc \in {"password", "test"} => shown' = <<Prompt>>
      BY <1>1, <2>3 DEF ShowsLine, Reading
    <2> HIDE DEF more
    <2>6. Follows(r, h) /\ h.pc = r.pc /\ h.buf = more
      BY <1>2, <2>2, BufSet
    <2> HIDE DEF h
    <2>7. ShowsLine(shown', h)
      BY <2>4, <2>5, <2>6 DEF ShowsLine
    <2> QED  BY <2>1, <2>6, <2>7
  <1> QED  BY <1>3, <1>4, <1>5, <1>6 DEF Taken

LEMMA ReaderIs ==
    ASSUME LoginInv, cur \in Pids, cur # InitPid, Reads(cur)
    PROVE  LineUser(proc[cur]) /\ cur \in Sessions /\ ShowsLine(shown, proc[cur])
  <1>1. RecordFits(proc[cur]) /\ proc[cur].st = "ready"
    BY LoginConstants DEF LoginInv, QueuesFit, ProcessesFit
  <1>2. LineUser(proc[cur])
    BY <1>1 DEF LineUser, Reads, Reading
  <1>3. proc[cur].prog \in Programs
    BY <1>1 DEF RecordFits, Records
  <1>4. cur \in Sessions
    BY <1>1, <1>2, <1>3 DEF Sessions, LineUser, Reading, RecordFits, PlaceFits, Programs
  <1>5. ShowsLine(shown, proc[cur])
    BY <1>4 DEF LoginInv, LineFits, ShowsLine
  <1> QED  BY <1>2, <1>4, <1>5

LEMMA ReadLnStep ==
    ASSUME LoginInv, NEW p \in Pids \ {InitPid}, ReadLn(p)
    PROVE  LoginInv'
  <1>1. RunFits(proc, ready, cur) /\ ReadersFit /\ LoginsFit /\ LineFits /\ ProcessesFit(proc)
    BY LoginParts DEF RunFits
  <1>2. p = cur /\ cur \in Pids /\ cur # InitPid /\ Reads(cur)
        /\ shellID' = shellID /\ logonShell' = logonShell
    BY DEF ReadLn
  <1>3. LineUser(proc[p]) /\ p \in Sessions /\ ShowsLine(shown, proc[p])
    BY <1>2, ReaderIs
  <1>4. proc[p].key \in Typeable \cup {0} /\ input \in Seq(Typeable) /\ Len(input) <= MaxAhead
        /\ proc[p] \in Records /\ proc[p].st = "ready" /\ proc[p].pc \in Reading
    BY <1>1, <1>3 DEF LineUser, RecordFits, Records, ReadersFit
  <1>5. ASSUME NEW c \in Typeable, Taken(p, c), cur' = cur, ready' = ready, readers' = readers,
               input' \in Seq(Typeable), Len(input') <= MaxAhead
        PROVE  LoginInv'
    <2>1. PICK h : /\ proc' = [proc EXCEPT ![p] = h] /\ Follows(proc[p], h) /\ ShowsLine(shown', h)
      BY <1>1, <1>3, <1>5, TakenIs
    <2>2. proc'[p] = h /\ \A q \in Pids : q # p => proc'[q] = proc[q]
      BY <1>1, <2>1 DEF ProcessesFit
    <2>3. RunFits(proc', ready', cur')
      BY <1>1, <1>2, <1>5, <2>1, GoesOn DEF Follows
    <2>4. LoginsFit'
      BY <1>1, <1>2, <1>4, <2>1, <2>2, QuietByCur DEF Follows, EndsBadly, Reading
    <2>5. LineFits'
      BY <1>1, <1>3, <2>1, <2>2, LineOfOne
    <2>6. ReadersFit'
      <3>1. {q \in Pids : proc'[q].st = "reading"} = {q \in Pids : proc[q].st = "reading"}
        BY <1>4, <2>1, <2>2 DEF Follows
      <3> QED  BY <1>1, <1>5, <3>1 DEF ReadersFit
    <2> QED  BY <2>3, <2>4, <2>5, <2>6, LoginPartsNext
  <1>6. CASE proc[p].key # 0 /\ Taken(p, proc[p].key) /\ UNCHANGED <<cur, ready, readers, input>>
    BY <1>4, <1>5, <1>6
  <1>7. CASE /\ input # <<>> /\ Taken(p, Head(input)) /\ input' = Tail(input)
             /\ UNCHANGED <<cur, ready, readers>>
    <2>1. Head(input) \in Typeable /\ Tail(input) \in Seq(Typeable)
          /\ Len(Tail(input)) = Len(input) - 1 /\ Len(input) \in Nat
      BY <1>4, <1>7, HeadTailProperties, LenProperties
    <2>2. Len(input') <= MaxAhead
      BY <1>4, <1>7, <2>1, LoginAssumption
    <2> QED  BY <1>5, <1>7, <2>1, <2>2
  <1>8. CASE /\ proc' = [proc EXCEPT ![p].st = "reading"] /\ readers' = Append(readers, p)
             /\ Dispatch(ready) /\ UNCHANGED <<input, shown>>
    <2> DEFINE h == [proc[p] EXCEPT !.st = "reading"]
    <2>1. proc' = [proc EXCEPT ![p] = h]
      BY <1>8
    <2>2. /\ h \in Records
          /\ h.prog = proc[p].prog /\ h.parent = proc[p].parent /\ h.st = "reading"
          /\ h.pc = proc[p].pc
          /\ h.status = proc[p].status /\ h.whom = proc[p].whom /\ h.buf = proc[p].buf
      <3>1. "reading" \in States
        BY DEF States
      <3> QED  BY <1>4, <3>1 DEF Records
    <2> HIDE DEF h
    <2>3. RecordFits(h)
      BY <1>3, <1>4, <2>2 DEF LineUser, RecordFits, PlaceFits, StateFits, FieldsFit
    <2>4. proc'[p] = h /\ \A q \in Pids : q # p => proc'[q] = proc[q]
      BY <1>1, <2>1 DEF ProcessesFit
    <2>5. ProcessesFit(proc')
      BY <1>1, <1>4, <2>1, <2>2, <2>3, SetRecord DEF Runs
    <2>6. RunFits(proc', ready', cur')
      <3>1. ReadyFits(ready, proc, p) /\ Dispatch(ready)
        BY <1>1, <1>2, <1>8 DEF RunFits
      <3>2. proc'[p].st # "ready"
        BY <2>2, <2>4
      <3>3. \A q \in Pids : q # p => proc'[q].st = proc[q].st /\ proc'[q].prog = proc[q].prog
        BY <2>4
      <3> QED  BY <2>5, <3>1, <3>2, <3>3, Stops
    <2>7. LoginsFit'
      BY <1>1, <1>2, <1>4, <2>2, <2>4, QuietByCur DEF Reading
    <2>8. ShowsLine(shown', proc'[p])
      BY <1>3, <1>8, <2>2, <2>4 DEF ShowsLine
    <2>9. LineFits'
      BY <1>1, <1>3, <2>4, <2>8, LineOfOne
    <2>10. ReadersFit'
      <3>1. p \notin ToSet(readers)
        BY <1>1, <1>4 DEF ReadersFit
      <3>2. /\ readers' \in Seq(Pids) /\ IsInjective(readers')
            /\ ToSet(readers') = ToSet(readers) \cup {p}
        BY <1>1, <1>8, <3>1, AppendMembers DEF ReadersFit
      <3>3. {q \in Pids : proc'[q].st = "reading"} = {q \in Pids : proc[q].st = "reading"} \cup {p}
        BY <2>2, <2>4
      <3> QED  BY <1>1, <1>8, <3>2, <3>3 DEF ReadersFit
    <2> QED  BY <2>6, <2>7, <2>9, <2>10, LoginPartsNext
  <1> QED  BY <1>6, <1>7, <1>8 DEF ReadLn
-----------------------------------------------------------------------------
(* Sign-in, the shell and its tests.                                       *)

LEMMA CurIs ==
    ASSUME LoginInv, cur \in Pids
    PROVE  /\ proc[cur] \in Records /\ proc[cur].st = "ready"
           /\ PlaceFits(proc[cur]) /\ StateFits(proc[cur]) /\ FieldsFit(proc[cur])
           /\ Runs(proc, cur)
  <1>1. RecordFits(proc[cur]) /\ proc[cur].st = "ready"
    BY LoginConstants DEF LoginInv, QueuesFit, ProcessesFit
  <1> QED  BY <1>1 DEF RecordFits, Runs

LEMMA SignInSleepsStep ==
    ASSUME LoginInv, NEW p \in Pids \ {InitPid}, SignInSleeps(p)
    PROVE  LoginInv'
  <1>1. RunFits(proc, ready, cur) /\ ReadersFit /\ LoginsFit /\ LineFits /\ ProcessesFit(proc)
    BY LoginParts DEF RunFits
  <1> DEFINE h == [proc[p] EXCEPT !.st = "sleeping", !.pc = "name"]
  <1>2. /\ p = cur /\ p \in Pids /\ p # InitPid /\ proc[p].pc = "start" /\ proc[p].prog = "signIn"
        /\ proc' = [proc EXCEPT ![p] = h] /\ shown' = <<Prompt>> /\ Dispatch(ready)
        /\ UNCHANGED <<readers, input, shellID, logonShell>>
    BY DEF SignInSleeps, At
  <1>3. /\ proc[p] \in Records /\ proc[p].st = "ready"
        /\ PlaceFits(proc[p]) /\ StateFits(proc[p]) /\ FieldsFit(proc[p]) /\ Runs(proc, p)
    BY <1>2, CurIs
  <1>4. /\ h \in Records
        /\ h.prog = proc[p].prog /\ h.parent = proc[p].parent /\ h.st = "sleeping"
        /\ h.pc = "name"
        /\ h.status = proc[p].status /\ h.whom = proc[p].whom /\ h.buf = proc[p].buf
    <2>1. "sleeping" \in States /\ "name" \in PCs
      BY DEF States, PCs
    <2> QED  BY <1>3, <2>1 DEF Records
  <1> HIDE DEF h
  <1>5. RecordFits(h)
    BY <1>2, <1>3, <1>4 DEF RecordFits, PlaceFits, StateFits, FieldsFit, Reading
  <1>6. proc'[p] = h /\ \A q \in Pids : q # p => proc'[q] = proc[q]
    BY <1>1, <1>2 DEF ProcessesFit
  <1>7. ProcessesFit(proc')
    BY <1>1, <1>2, <1>3, <1>4, <1>5, SetRecord
  <1>8. RunFits(proc', ready', cur')
    <2>1. ReadyFits(ready, proc, p) /\ Dispatch(ready)
      BY <1>1, <1>2 DEF RunFits
    <2>2. proc'[p].st # "ready"
      BY <1>4, <1>6
    <2>3. \A q \in Pids : q # p => proc'[q].st = proc[q].st /\ proc'[q].prog = proc[q].prog
      BY <1>6
    <2> QED  BY <1>7, <2>1, <2>2, <2>3, Stops
  <1>9. LoginsFit'
    BY <1>1, <1>2, <1>4, <1>6, QuietByCur
  <1>10. LineFits'
    <2>1. proc[p].buf = <<>>
      BY <1>2, <1>3 DEF FieldsFit, Reading
    <2>2. ShowsLine(shown', proc'[p])
      BY <1>2, <1>4, <1>6, <2>1, PromptAlone DEF ShowsLine
    <2>3. p \in Sessions
      BY <1>2 DEF Sessions
    <2> QED  BY <1>1, <1>6, <2>2, <2>3, LineOfOne
  <1>11. ReadersFit'
    BY <1>1, <1>2, <1>3, <1>4, <1>6, ReadersKept
  <1> QED  BY <1>8, <1>9, <1>10, <1>11, LoginPartsNext

LEMMA ShellCollectedStep ==
    ASSUME LoginInv, NEW p \in Pids \ {InitPid}, ShellCollected(p)
    PROVE  LoginInv'
  <1>1. RunFits(proc, ready, cur) /\ ReadersFit /\ LoginsFit /\ LineFits /\ ProcessesFit(proc)
    BY LoginParts DEF RunFits
  <1>2. /\ p = cur /\ p \in Pids /\ p # InitPid /\ proc[p].pc = "collected" /\ proc[p].prog = "shell"
        /\ UNCHANGED <<cur, ready, readers, input, shellID, logonShell>>
    BY DEF ShellCollected, At
  <1>3. /\ proc[p] \in Records /\ proc[p].st = "ready"
        /\ PlaceFits(proc[p]) /\ StateFits(proc[p]) /\ FieldsFit(proc[p]) /\ Runs(proc, p)
    BY <1>2, CurIs
  <1>4. /\ \/ proc' = [proc EXCEPT ![p] = [proc[p] EXCEPT !.whom = 0, !.status = 0,
                                                        !.pc = "command", !.child = 0]]
              /\ shown' = <<Prompt>>
           \/ proc' = [proc EXCEPT ![p] = [proc[p] EXCEPT !.whom = 0, !.status = 0, !.pc = "wait"]]
    BY <1>1, <1>2 DEF ShellCollected, ProcessesFit
  <1>5. \E h : /\ proc' = [proc EXCEPT ![p] = h] /\ h \in Records
               /\ h.prog = "shell" /\ h.parent = proc[p].parent /\ h.st = "ready"
               /\ h.pc = "wait" \/ (h.pc = "command" /\ shown' = <<Prompt>>)
               /\ h.status = 0 /\ h.buf = proc[p].buf
    <2>1. "command" \in PCs /\ "wait" \in PCs /\ 0 \in Statuses
      BY DEF PCs, Statuses
    <2>2. CASE /\ proc' = [proc EXCEPT ![p] = [proc[p] EXCEPT !.whom = 0, !.status = 0,
                                                           !.pc = "command", !.child = 0]]
               /\ shown' = <<Prompt>>
      <3> DEFINE h == [proc[p] EXCEPT !.whom = 0, !.status = 0, !.pc = "command", !.child = 0]
      <3>1. /\ h \in Records /\ h.prog = proc[p].prog /\ h.parent = proc[p].parent
            /\ h.st = proc[p].st /\ h.pc = "command" /\ h.status = 0 /\ h.buf = proc[p].buf
        BY <1>3, <2>1 DEF Records
      <3> HIDE DEF h
      <3>2. proc' = [proc EXCEPT ![p] = h]
        BY <2>2 DEF h
      <3>3. h.prog = "shell" /\ h.st = "ready" /\ shown' = <<Prompt>>
        BY <1>2, <1>3, <2>2, <3>1
      <3> QED  BY <3>1, <3>2, <3>3
    <2>3. CASE proc' = [proc EXCEPT ![p] = [proc[p] EXCEPT !.whom = 0, !.status = 0, !.pc = "wait"]]
      <3> DEFINE h == [proc[p] EXCEPT !.whom = 0, !.status = 0, !.pc = "wait"]
      <3>1. /\ h \in Records /\ h.prog = proc[p].prog /\ h.parent = proc[p].parent
            /\ h.st = proc[p].st /\ h.pc = "wait" /\ h.status = 0 /\ h.buf = proc[p].buf
        BY <1>3, <2>1 DEF Records
      <3> HIDE DEF h
      <3>2. proc' = [proc EXCEPT ![p] = h]
        BY <2>3 DEF h
      <3> QED  BY <1>2, <1>3, <3>1, <3>2
    <2> QED  BY <1>4, <2>2, <2>3
  <1>6. PICK h : /\ proc' = [proc EXCEPT ![p] = h] /\ h \in Records
                 /\ h.prog = "shell" /\ h.parent = proc[p].parent /\ h.st = "ready"
                 /\ h.pc = "wait" \/ (h.pc = "command" /\ shown' = <<Prompt>>)
                 /\ h.status = 0 /\ h.buf = proc[p].buf
    BY <1>5
  <1>7. proc[p].buf = <<>>
    BY <1>2, <1>3 DEF FieldsFit, Reading
  <1>8. RecordFits(h)
    BY <1>3, <1>6, <1>7 DEF RecordFits, PlaceFits, StateFits, FieldsFit, Reading
  <1>9. proc'[p] = h /\ \A q \in Pids : q # p => proc'[q] = proc[q]
    BY <1>1, <1>6 DEF ProcessesFit
  <1>10. RunFits(proc', ready', cur')
    BY <1>1, <1>2, <1>6, <1>8, GoesOn
  <1>11. LoginsFit'
    BY <1>1, <1>2, <1>6, <1>9, QuietByCur
  <1>12. LineFits'
    <2>1. ShowsLine(shown', proc'[p])
      BY <1>6, <1>7, <1>9, PromptAlone DEF ShowsLine
    <2>2. p \in Sessions
      BY <1>2 DEF Sessions
    <2> QED  BY <1>1, <1>9, <2>1, <2>2, LineOfOne
  <1>13. ReadersFit'
    BY <1>1, <1>2, <1>3, <1>6, <1>9, ReadersKept
  <1> QED  BY <1>10, <1>11, <1>12, <1>13, LoginPartsNext

-----------------------------------------------------------------------------
(* Spawning.                                                               *)

LEMMA ChildFits ==
    ASSUME ProcessesFit(proc), Unused # {}
    PROVE  /\ Child \in Pids /\ proc[Child].st = "unused" /\ proc[Child].prog = "none"
           /\ Child # InitPid
  <1>1. Child \in Unused /\ Child \in Pids
    BY ChildIs
  <1>2. proc[Child].st = "unused"
    BY <1>1 DEF Unused, Alive
  <1>3. StateFits(proc[Child])
    BY <1>1, RecordIs
  <1> QED  BY <1>1, <1>2, <1>3, InitRuns DEF StateFits, Runs

LEMMA ForkStep ==
    ASSUME LoginInv, NEW p \in Pids, Fork(p)
    PROVE  LoginInv'
  <1>1. RunFits(proc, ready, cur) /\ ReadersFit /\ LoginsFit /\ LineFits /\ ProcessesFit(proc)
    BY LoginParts DEF RunFits
  <1> DEFINE ch == Child
             x == Process("test", p, "run", proc[p].uid)
  <1>2. /\ p = cur /\ proc[p].pc = "run" /\ Unused # {}
        /\ proc' = [proc EXCEPT ![ch] = x] /\ ready' = Queued(ready, ch, "test")
        /\ UNCHANGED <<cur, readers, input, shown, shellID, logonShell>>
    BY DEF Fork, At, Spawned
  <1>3. ch \in Pids /\ proc[ch].st = "unused" /\ proc[ch].prog = "none" /\ ch # InitPid
    BY <1>1, <1>2, ChildFits
  <1> HIDE DEF ch
  <1>4. /\ proc[p] \in Records /\ proc[p].st = "ready" /\ PlaceFits(proc[p]) /\ Runs(proc, p)
        /\ proc[p].prog \in Programs
    BY <1>2, CurIs DEF Records
  <1>5. proc[p].prog = "test" /\ p # InitPid /\ ch # p
    <2>1. proc[p].prog = "test"
      BY <1>2, <1>4 DEF PlaceFits, Programs
    <2> QED  BY <1>1, <1>3, <1>4, <2>1, InitRuns
  <1>6. proc[p].uid \in Users
    BY <1>4 DEF Records
  <1>7. /\ RecordFits(x) /\ x.prog = "test" /\ x.st = "ready" /\ x.pc = "run" /\ x.parent = p
    BY <1>6, NewFits
  <1> HIDE DEF x
  <1>8. proc'[ch] = x /\ \A q \in Pids : q # ch => proc'[q] = proc[q]
    BY <1>1, <1>2, <1>3 DEF ProcessesFit
  <1>9. RunFits(proc', ready', cur')
    BY <1>1, <1>2, <1>3, <1>4, <1>7, Spawns
  <1>10. LoginsFit'
    BY <1>1, <1>2, <1>3, <1>5, <1>7, <1>8, QuietByCur DEF Others
  <1>11. LineFits'
    BY <1>1, <1>2, <1>7, <1>8, LineKept DEF Logs
  <1>12. ReadersFit'
    BY <1>1, <1>2, <1>3, <1>7, <1>8, ReadersKept
  <1> QED  BY <1>9, <1>10, <1>11, <1>12, LoginPartsNext

LEMMA SpawnTestStep ==
    ASSUME LoginInv, NEW p \in Pids \ {InitPid}, SpawnTest(p)
    PROVE  LoginInv'
  <1>1. RunFits(proc, ready, cur) /\ ReadersFit /\ LoginsFit /\ LineFits /\ ProcessesFit(proc)
    BY LoginParts DEF RunFits
  <1>2. /\ p = cur /\ p \in Pids /\ p # InitPid /\ proc[p].pc = "test" /\ proc[p].prog = "shell"
        /\ UNCHANGED <<cur, readers, input, shown, shellID, logonShell>>
    BY DEF SpawnTest, At
  <1>3. /\ proc[p] \in Records /\ proc[p].st = "ready"
        /\ PlaceFits(proc[p]) /\ StateFits(proc[p]) /\ FieldsFit(proc[p]) /\ Runs(proc, p)
    BY <1>2, CurIs
  <1>4. p \in Sessions /\ proc[p].buf = <<>> /\ proc[p].uid \in Users /\ proc[p].status = 0
    BY <1>2, <1>3 DEF Sessions, FieldsFit, Reading, Records
  <1>5. shown' = <<Prompt>>
    BY <1>1, <1>2, <1>4 DEF LineFits
  <1>6. CASE Unused = {}
    <2> DEFINE h == [proc[p] EXCEPT !.pc = "command"]
    <2>1. proc' = [proc EXCEPT ![p] = h] /\ ready' = ready
      BY <1>6 DEF SpawnTest
    <2>2. /\ h \in Records /\ h.prog = proc[p].prog /\ h.parent = proc[p].parent
          /\ h.st = proc[p].st /\ h.pc = "command" /\ h.status = proc[p].status
          /\ h.buf = proc[p].buf
      <3>1. "command" \in PCs
        BY DEF PCs
      <3> QED  BY <1>3, <3>1 DEF Records
    <2> HIDE DEF h
    <2>3. RecordFits(h)
      BY <1>2, <1>3, <1>4, <2>2 DEF RecordFits, PlaceFits, StateFits, FieldsFit, Reading
    <2>4. proc'[p] = h /\ \A q \in Pids : q # p => proc'[q] = proc[q]
      BY <1>1, <2>1 DEF ProcessesFit
    <2>5. RunFits(proc', ready', cur')
      BY <1>1, <1>2, <1>3, <2>1, <2>2, <2>3, GoesOn
    <2>6. LoginsFit'
      BY <1>1, <1>2, <2>2, <2>4, QuietByCur
    <2>7. ShowsLine(shown', proc'[p])
      BY <1>4, <1>5, <2>2, <2>4, PromptAlone DEF ShowsLine
    <2>8. LineFits'
      BY <1>1, <1>4, <2>4, <2>7, LineOfOne
    <2>9. ReadersFit'
      BY <1>1, <1>2, <1>3, <2>2, <2>4, ReadersKept
    <2> QED  BY <2>5, <2>6, <2>8, <2>9, LoginPartsNext
  <1>7. CASE Unused # {}
    <2> DEFINE ch == Child
               x == Process("test", p, "run", proc[p].uid)
               h == [proc[p] EXCEPT !.pc = "wait", !.child = ch]
    <2>1. ch \in Pids /\ proc[ch].st = "unused" /\ proc[ch].prog = "none" /\ ch # InitPid
      BY <1>1, <1>7, ChildFits
    <2>2. proc' = [[proc EXCEPT ![ch] = x] EXCEPT ![p].pc = "wait", ![p].child = ch]
          /\ ready' = Queued(ready, ch, "test")
      BY <1>7 DEF SpawnTest, Spawned
    <2>3. /\ RecordFits(x) /\ x.prog = "test" /\ x.st = "ready" /\ x.pc = "run" /\ x.parent = p
      BY <1>2, <1>4, NewFits
    <2> HIDE DEF x, ch
    <2>4. /\ h \in Records /\ h.prog = proc[p].prog /\ h.parent = proc[p].parent
          /\ h.st = proc[p].st /\ h.pc = "wait" /\ h.status = proc[p].status
          /\ h.buf = proc[p].buf
      <3>1. "wait" \in PCs
        BY DEF PCs
      <3> QED  BY <1>3, <2>1, <3>1 DEF Records
    <2>5. ch # p /\ proc \in [Pids -> Records]
      BY <1>1, <1>3, <2>1 DEF ProcessesFit
    <2> DEFINE mid == [proc EXCEPT ![p] = h]
    <2>6. proc' = [mid EXCEPT ![ch] = x]
      BY <1>2, <2>1, <2>2, <2>5
    <2> HIDE DEF h
    <2>7. RecordFits(h)
      BY <1>2, <1>3, <1>4, <2>4 DEF RecordFits, PlaceFits, StateFits, FieldsFit, Reading
    <2>8. RunFits(mid, ready, cur)
      BY <1>1, <1>2, <1>3, <2>4, <2>7, GoesOn
    <2>9. mid[p] = h /\ \A q \in Pids : q # p => mid[q] = proc[q]
      BY <2>5
    <2>10. proc'[p] = h /\ proc'[ch] = x /\ \A q \in Pids : q # p /\ q # ch => proc'[q] = proc[q]
      BY <1>2, <2>1, <2>5, <2>6
    <2> HIDE DEF mid
    <2>11. RunFits(proc', ready', cur')
      <3>1. mid[ch].st = "unused" /\ Runs(mid, p)
        BY <1>2, <1>3, <2>1, <2>4, <2>5, <2>9 DEF Runs
      <3>2. RunFits([mid EXCEPT ![ch] = x], Queued(ready, ch, x.prog), cur)
        BY <2>1, <2>3, <2>8, <3>1, Spawns
      <3> QED  BY <1>2, <2>2, <2>3, <2>6, <3>2
    <2>12. LoginsFit'
      BY <1>1, <1>2, <2>1, <2>3, <2>4, <2>10, QuietByCur DEF Others
    <2>13. LineFits'
      BY <1>1, <1>2, <2>3, <2>4, <2>10, LineKept DEF Logs, Reading
    <2>14. ReadersFit'
      BY <1>1, <1>2, <1>3, <2>1, <2>3, <2>4, <2>10, ReadersKept
    <2> QED  BY <2>11, <2>12, <2>13, <2>14, LoginPartsNext
  <1> QED  BY <1>6, <1>7
(* setuid and spawn(testShell): the shell is handed over to init.          *)
LEMMA SpawnShellStep ==
    ASSUME LoginInv, NEW p \in Pids \ {InitPid}, SpawnShell(p)
    PROVE  LoginInv'
  <1>1. RunFits(proc, ready, cur) /\ ReadersFit /\ LoginsFit /\ LineFits /\ ProcessesFit(proc)
    BY LoginParts DEF RunFits
  <1>2. /\ p = cur /\ p \in Pids /\ p # InitPid /\ proc[p].pc = "setuid"
        /\ shown' = <<Prompt>>
        /\ UNCHANGED <<cur, readers, input, shellID, logonShell>>
    BY DEF SpawnShell, At
  <1>3. /\ proc[p] \in Records /\ proc[p].st = "ready"
        /\ PlaceFits(proc[p]) /\ StateFits(proc[p]) /\ FieldsFit(proc[p]) /\ Runs(proc, p)
    BY <1>2, CurIs
  <1>4. proc[p].buf = <<>> /\ proc[p].uid \in Users /\ proc[p].prog \in Programs
    BY <1>2, <1>3 DEF FieldsFit, Reading, Records
  <1>5. proc[p].prog = "signIn" /\ p \in Sessions
    BY <1>2, <1>3, <1>4 DEF PlaceFits, Programs, Sessions
  <1>6. logonShell /\ shellID = p /\ proc[p].parent = InitPid /\ ~Collected(p)
    BY <1>1, <1>5, SignersAre
  <1>7. CASE Unused = {}
    <2> DEFINE h == [proc[p] EXCEPT !.pc = "exit", !.status = ENoProcs]
    <2>1. proc' = [proc EXCEPT ![p] = h] /\ ready' = ready
      BY <1>7 DEF SpawnShell
    <2>2. /\ h \in Records /\ h.prog = proc[p].prog /\ h.parent = proc[p].parent
          /\ h.st = proc[p].st /\ h.pc = "exit" /\ h.status = ENoProcs
          /\ h.buf = proc[p].buf
      <3>1. "exit" \in PCs /\ ENoProcs \in Statuses
        BY DEF PCs, Statuses
      <3> QED  BY <1>3, <3>1 DEF Records
    <2> HIDE DEF h
    <2>3. RecordFits(h)
      BY <1>3, <1>4, <1>5, <2>2 DEF RecordFits, PlaceFits, StateFits, FieldsFit, Reading
    <2>4. proc'[p] = h /\ \A q \in Pids : q # p => proc'[q] = proc[q]
      BY <1>1, <2>1 DEF ProcessesFit
    <2>5. RunFits(proc', ready', cur')
      BY <1>1, <1>2, <1>3, <2>1, <2>2, <2>3, GoesOn
    <2>6. LoginsFit'
      BY <1>1, <1>2, <2>2, <2>4, QuietByCur, LoginConstants
    <2>7. ShowsLine(shown', proc'[p])
      BY <2>2, <2>4 DEF ShowsLine
    <2>8. LineFits'
      BY <1>1, <1>5, <2>4, <2>7, LineOfOne
    <2>9. ReadersFit'
      BY <1>1, <1>2, <1>3, <2>2, <2>4, ReadersKept
    <2> QED  BY <2>5, <2>6, <2>8, <2>9, LoginPartsNext
  <1>8. CASE Unused # {}
    <2> DEFINE ch == Child
               x == Process("shell", p, "command", proc[p].uid)
               h == [proc[p] EXCEPT !.pc = "exit", !.status = ch]
    <2>1. ch \in Pids /\ proc[ch].st = "unused" /\ proc[ch].prog = "none" /\ ch # InitPid
      BY <1>1, <1>8, ChildFits
    <2>2. proc' = [[proc EXCEPT ![ch] = x] EXCEPT ![p].pc = "exit", ![p].status = ch]
          /\ ready' = Queued(ready, ch, "shell")
      BY <1>8 DEF SpawnShell, Spawned
    <2>3. /\ RecordFits(x) /\ x.prog = "shell" /\ x.st = "ready" /\ x.pc = "command"
          /\ x.parent = p /\ x.buf = <<>>
      BY <1>2, <1>4, NewFits
    <2> HIDE DEF x, ch
    <2>4. /\ h \in Records /\ h.prog = proc[p].prog /\ h.parent = proc[p].parent
          /\ h.st = proc[p].st /\ h.pc = "exit" /\ h.status = ch
          /\ h.buf = proc[p].buf
      <3>1. "exit" \in PCs /\ ch \in Statuses
        BY <2>1 DEF PCs, Statuses
      <3> QED  BY <1>3, <3>1 DEF Records
    <2>5. ch # p /\ proc \in [Pids -> Records]
      BY <1>1, <1>3, <2>1 DEF ProcessesFit
    <2> DEFINE mid == [proc EXCEPT ![p] = h]
    <2>6. proc' = [mid EXCEPT ![ch] = x]
      BY <1>2, <2>1, <2>2, <2>5
    <2> HIDE DEF h
    <2>7. RecordFits(h)
      BY <1>3, <1>4, <1>5, <2>4 DEF RecordFits, PlaceFits, StateFits, FieldsFit, Reading
    <2>8. RunFits(mid, ready, cur)
      BY <1>1, <1>2, <1>3, <2>4, <2>7, GoesOn
    <2>9. mid[p] = h /\ \A q \in Pids : q # p => mid[q] = proc[q]
      BY <2>5
    <2>10. proc'[p] = h /\ proc'[ch] = x /\ \A q \in Pids : q # p /\ q # ch => proc'[q] = proc[q]
      BY <1>2, <2>1, <2>5, <2>6
    <2> HIDE DEF mid
    <2>11. RunFits(proc', ready', cur')
      <3>1. mid[ch].st = "unused" /\ Runs(mid, p)
        BY <1>2, <1>3, <2>1, <2>4, <2>5, <2>9 DEF Runs
      <3>2. RunFits([mid EXCEPT ![ch] = x], Queued(ready, ch, x.prog), cur)
        BY <2>1, <2>3, <2>8, <3>1, Spawns
      <3> QED  BY <1>2, <2>2, <2>3, <2>6, <3>2
    <2>12. proc'[InitPid] = proc[InitPid]
      BY <1>2, <2>1, <2>10, LoginConstants
    <2>13. \A q \in Pids : proc'[q].prog = "signIn" => q = p
      <3>1. \A q \in Pids : proc[q].prog = "signIn" => q = p
        BY <1>1, <1>6, SignersAre
      <3> QED  BY <2>3, <2>10, <3>1
    <2>14. \A q \in Pids : proc'[q].prog = "shell" => q = ch
      <3>1. ASSUME NEW q \in Pids, proc[q].prog = "shell"
            PROVE  FALSE
        <4>1. ~Known(q) /\ ~Reported(q)
          BY <1>6 DEF Known, Reported
        <4>2. PICK r \in Pids : HandedOver(q, r)
          BY <1>1, <3>1, <4>1, ShellsAre
        <4>3. r = p
          BY <1>1, <1>6, <4>2, SignersAre DEF HandedOver
        <4> QED  BY <1>2, <4>2, <4>3 DEF HandedOver
      <3> QED  BY <1>5, <2>4, <2>10, <3>1
    <2>15. ~Collected(shellID)' /\ shellID' = p /\ logonShell'
      BY <1>2, <1>6, <2>12 DEF Collected
    <2>16. SignersKnown'
      BY <1>6, <2>4, <2>10, <2>13, <2>15 DEF SignersKnown, Signing, Collected
    <2>17. ShellsKnown'
      <3>1. ASSUME NEW t \in Pids, t = ch
            PROVE  HandedOver(t, p)'
        BY <1>2, <1>5, <2>1, <2>3, <2>4, <2>10, <3>1 DEF HandedOver, Fresh
      <3> QED  BY <1>2, <2>14, <3>1 DEF ShellsKnown
    <2>18. ResultsRight'
      BY <2>1, <2>3, <2>4, <2>10, <2>13 DEF ResultsRight, IsShell
    <2>19. ReportRight'
      <3>1. proc'[InitPid].pc # "start"
        BY <1>1, <1>2, <1>6, <2>12, LoginConstants DEF LoginsFit, ReportRight
      <3> QED  BY <1>2, <1>5, <2>4, <2>10, <2>15, <3>1 DEF ReportRight
    <2>20. LoginsFit'
      BY <1>1, <1>2, <2>16, <2>17, <2>18, <2>19 DEF LoginsFit
    <2>21. LineFits'
      <3>1. \A q \in Pids : proc'[q].prog \in {"signIn", "shell"} => q = p \/ q = ch
        BY <2>13, <2>14
      <3>2. ShowsLine(shown', proc'[p]) /\ ShowsLine(shown', proc'[ch])
        BY <1>2, <2>3, <2>4, <2>10, PromptAlone DEF ShowsLine
      <3> QED  BY <3>1, <3>2 DEF LineFits, Sessions, ShowsLine
    <2>22. ReadersFit'
      BY <1>1, <1>2, <1>3, <2>1, <2>3, <2>4, <2>10, ReadersKept
    <2> QED  BY <2>11, <2>20, <2>21, <2>22, LoginPartsNext
  <1> QED  BY <1>7, <1>8

-----------------------------------------------------------------------------
(* wait() and exit().                                                      *)

LEMMA Buries ==
    ASSUME NEW pr, NEW queues, NEW c, RunFits(pr, queues, c), NEW z \in Pids, pr[z].st = "zombie"
    PROVE  RunFits([pr EXCEPT ![z] = None], queues, c)
  <1> DEFINE pr2 == [pr EXCEPT ![z] = None]
  <1>1. ProcessesFit(pr) /\ ReadyFits(queues, pr, c) /\ z # c /\ z # InitPid
    BY LoginConstants, InitRuns DEF RunFits, Runs
  <1>2. RecordFits(None) /\ None.prog = "none" /\ None.st = "unused"
    BY NoneFits DEF None
  <1>3. ProcessesFit(pr2)
    BY <1>1, <1>2, ZombieOrphaned, BuryRecord
  <1>4. pr2[z] = None /\ \A q \in Pids : q # z => pr2[q] = pr[q]
    BY <1>1 DEF ProcessesFit
  <1> HIDE DEF pr2
  <1>5. \A q \in Pids : \A i \in 1 .. 2 : q \in OnReady(pr2, c, i) <=> q \in OnReady(pr, c, i)
    BY <1>2, <1>4 DEF OnReady
  <1>6. ReadyFits(queues, pr2, c)
    BY <1>1, <1>5, ReadyKept
  <1>7. c \in Pids \cup {0} /\ (c # 0 => pr2[c].st = "ready")
    BY <1>1, <1>4 DEF RunFits
  <1> QED  BY <1>3, <1>6, <1>7 DEF RunFits, pr2

(* What wait() does to the processes: a zombie is collected, or p waits.   *)
Collects(p, z) ==
    /\ proc[z].st = "zombie" /\ proc[z].parent = p /\ z # p
    /\ proc'[z] = None
    /\ proc'[p].prog = proc[p].prog /\ proc'[p].parent = proc[p].parent
    /\ proc'[p].st = "ready" /\ proc'[p].pc = "collected"
    /\ proc'[p].whom = z /\ proc'[p].status = proc[z].status
    /\ \A q \in Pids : q # p /\ q # z => proc'[q] = proc[q]
    /\ cur' = cur

StartsWaiting(p) ==
    /\ \A q \in Pids : q # p => ~(proc[q].st = "zombie" /\ proc[q].parent = p)
    /\ proc'[p].prog = proc[p].prog /\ proc'[p].parent = proc[p].parent
    /\ proc'[p].st = "waiting" /\ proc'[p].pc = "wait"
    /\ proc'[p].whom = proc[p].whom /\ proc'[p].status = proc[p].status
    /\ \A q \in Pids : q # p => proc'[q] = proc[q]
    /\ OnReady(proc', 0, 1) # {} => cur' \in OnReady(proc', 0, 1)

LEMMA WaitRuns ==
    ASSUME LoginInv, NEW p \in Pids, Wait(p)
    PROVE  /\ RunFits(proc', ready', cur') /\ ReadersFit' /\ LineFits'
           /\ cur = p /\ proc[p].pc = "wait" /\ proc[p].prog \in {"init", "shell"}
           /\ StartsWaiting(p) \/ \E z \in Pids : Collects(p, z)
           /\ UNCHANGED <<shown, shellID, logonShell>>
  <1>1. RunFits(proc, ready, cur) /\ ReadersFit /\ LoginsFit /\ LineFits /\ ProcessesFit(proc)
    BY LoginParts DEF RunFits
  <1>2. /\ p = cur /\ proc[p].pc = "wait"
        /\ UNCHANGED <<readers, input, shown, shellID, logonShell>>
    BY DEF Wait, At
  <1>3. /\ proc[p] \in Records /\ proc[p].st = "ready"
        /\ PlaceFits(proc[p]) /\ StateFits(proc[p]) /\ FieldsFit(proc[p]) /\ Runs(proc, p)
    BY <1>2, CurIs
  <1>4. proc[p].buf = <<>> /\ proc[p].prog \in {"init", "shell"}
    <2>1. proc[p].prog \in Programs
      BY <1>3 DEF Records
    <2> QED  BY <1>2, <1>3, <2>1 DEF FieldsFit, Reading, PlaceFits, Programs
  <1>5. ASSUME NEW z \in Pids, z # p, proc[z].st = "zombie", proc[z].parent = p,
               proc' = [proc EXCEPT ![z] = None, ![p].whom = z, ![p].pc = "collected",
                                    ![p].status = proc[z].status],
               cur' = cur, ready' = ready
        PROVE  RunFits(proc', ready', cur') /\ ReadersFit' /\ LineFits' /\ Collects(p, z)
    <2> DEFINE h == [proc[p] EXCEPT !.whom = z, !.pc = "collected", !.status = proc[z].status]
               mid == [proc EXCEPT ![z] = None]
    <2>1. proc \in [Pids -> Records]
      BY <1>1 DEF ProcessesFit
    <2>2. proc' = [mid EXCEPT ![p] = h]
      BY <1>5, <2>1
    <2>3. /\ h \in Records /\ h.prog = proc[p].prog /\ h.parent = proc[p].parent
          /\ h.st = proc[p].st /\ h.pc = "collected" /\ h.status = proc[z].status
          /\ h.whom = z /\ h.buf = proc[p].buf
      <3>1. "collected" \in PCs /\ proc[z].status \in Statuses
        BY <2>1 DEF PCs, Records
      <3> QED  BY <1>3, <3>1 DEF Records
    <2> HIDE DEF h
    <2>4. RecordFits(h)
      BY <1>3, <1>4, <2>3 DEF RecordFits, PlaceFits, StateFits, FieldsFit, Reading
    <2>5. RunFits(mid, ready, cur)
      BY <1>1, <1>5, Buries
    <2>6. mid[p] = proc[p] /\ mid[z] = None /\ \A q \in Pids : q # z => mid[q] = proc[q]
      BY <1>5, <2>1
    <2>7. proc'[p] = h /\ proc'[z] = None /\ \A q \in Pids : q # p /\ q # z => proc'[q] = proc[q]
      BY <1>5, <2>1, <2>2
    <2> HIDE DEF mid
    <2>8. RunFits([mid EXCEPT ![p] = h], ready, cur)
      BY <1>2, <1>3, <2>3, <2>4, <2>5, <2>6, GoesOn
    <2>9. Collects(p, z)
      BY <1>3, <1>5, <2>3, <2>7 DEF Collects
    <2>10. None.st = "unused" /\ None.prog = "none"
      BY DEF None
    <2>11. ReadersFit'
      BY ZenonT(30), <1>1, <1>2, <1>3, <1>5, <2>3, <2>7, <2>10, ReadersKept
    <2>12. LineFits'
      BY <1>1, <1>2, <2>3, <2>7, <2>10, LineKept DEF Logs, Reading
    <2> QED  BY <1>5, <2>2, <2>8, <2>9, <2>11, <2>12
  <1>6. ASSUME \A q \in Pids \ {p} : ~(proc[q].st = "zombie" /\ proc[q].parent = p),
               proc' = [proc EXCEPT ![p].st = "waiting"], Dispatch(ready)
        PROVE  RunFits(proc', ready', cur') /\ ReadersFit' /\ LineFits' /\ StartsWaiting(p)
    <2> DEFINE h == [proc[p] EXCEPT !.st = "waiting"]
    <2>1. proc' = [proc EXCEPT ![p] = h]
      BY <1>6
    <2>2. /\ h \in Records /\ h.prog = proc[p].prog /\ h.parent = proc[p].parent
          /\ h.st = "waiting" /\ h.pc = proc[p].pc /\ h.status = proc[p].status
          /\ h.whom = proc[p].whom /\ h.buf = proc[p].buf
      <3>1. "waiting" \in States
        BY DEF States
      <3> QED  BY <1>3, <3>1 DEF Records
    <2> HIDE DEF h
    <2>3. RecordFits(h)
      BY <1>2, <1>3, <1>4, <2>2 DEF RecordFits, PlaceFits, StateFits, FieldsFit, Reading
    <2>4. proc'[p] = h /\ \A q \in Pids : q # p => proc'[q] = proc[q]
      BY <1>1, <2>1 DEF ProcessesFit
    <2>5. ProcessesFit(proc')
      BY <1>1, <1>3, <2>1, <2>2, <2>3, SetRecord
    <2>6. /\ RunFits(proc', ready', cur')
          /\ OnReady(proc', 0, 1) # {} => cur' \in OnReady(proc', 0, 1)
      <3>1. ReadyFits(ready, proc, p) /\ Dispatch(ready)
        BY <1>1, <1>2, <1>6 DEF RunFits
      <3>2. proc'[p].st # "ready"
        BY <2>2, <2>4
      <3>3. \A q \in Pids : q # p => proc'[q].st = proc[q].st /\ proc'[q].prog = proc[q].prog
        BY <2>4
      <3> QED  BY <2>5, <3>1, <3>2, <3>3, Stops
    <2>7. StartsWaiting(p)
      BY <1>2, <1>6, <2>2, <2>4, <2>6 DEF StartsWaiting
    <2>8. ReadersFit'
      BY <1>1, <1>2, <1>3, <2>2, <2>4, ReadersKept
    <2>9. LineFits'
      BY <1>1, <1>2, <2>2, <2>4, LineKept DEF Logs, Reading
    <2> QED  BY <2>6, <2>7, <2>8, <2>9
  <1> DEFINE zombies == {q \in Pids \ {p} : proc[q].st = "zombie" /\ proc[q].parent = p}
  <1>7. CASE \E z \in zombies :
                /\ proc' = [proc EXCEPT ![z] = None, ![p].whom = z, ![p].pc = "collected",
                                        ![p].status = proc[z].status]
                /\ UNCHANGED <<cur, ready>>
    BY <1>2, <1>4, <1>5, <1>7
  <1>8. CASE zombies = {} /\ proc' = [proc EXCEPT ![p].st = "waiting"] /\ Dispatch(ready)
    BY <1>2, <1>4, <1>6, <1>8
  <1> QED  BY <1>7, <1>8 DEF Wait

(* A zombie that a shell collects is a test.                               *)
LEMMA ShellWaits ==
    ASSUME LoginInv, NEW p \in Pids \ {InitPid}, Wait(p)
    PROVE  LoginInv'
  <1>1. ProcessesFit(proc) /\ LoginsFit
    BY LoginParts DEF RunFits
  <1>2. /\ RunFits(proc', ready', cur') /\ ReadersFit' /\ LineFits'
        /\ cur = p /\ proc[p].pc = "wait" /\ proc[p].prog \in {"init", "shell"}
        /\ StartsWaiting(p) \/ \E z \in Pids : Collects(p, z)
        /\ UNCHANGED <<shown, shellID, logonShell>>
    BY WaitRuns
  <1>3. ASSUME NEW z \in Pids, Collects(p, z)
        PROVE  LoginsFit'
    <2>1. proc[z].st = "zombie" /\ proc[z].parent = p
      BY <1>3 DEF Collects
    <2>2. proc[z].prog # "signIn"
      BY <1>1, <2>1, SignersAre
    <2>3. proc[z].prog # "shell"
      BY <1>1, <2>1, ShellsAre DEF Known, Reported, HandedOver, Fresh
    <2>4. proc[z].prog \in Others
      <3>1. proc[z].prog \in Programs /\ proc[z].prog # "init"
        BY <1>1, <2>1, InitRuns DEF ProcessesFit, Records, Runs
      <3> QED  BY <2>2, <2>3, <3>1 DEF Programs, Others
    <2>5. None.prog \in Others
      BY DEF None, Others
    <2> QED  BY <1>1, <1>2, <1>3, <2>4, <2>5, QuietByCur DEF Collects
  <1>4. ASSUME StartsWaiting(p)
        PROVE  LoginsFit'
    BY <1>1, <1>2, <1>4, QuietByCur DEF StartsWaiting
  <1> QED  BY <1>2, <1>3, <1>4, LoginPartsNext
-----------------------------------------------------------------------------
(* init.                                                                   *)

LEMMA NoShell ==
    ASSUME LoginsFit, NEW s \in Pids, proc[s].prog = "shell", ~logonShell, shellID # s
    PROVE  FALSE
  <1>1. \A r \in Pids : proc[r].prog # "signIn"
    BY SignersAre
  <1> QED  BY <1>1, ShellsAre DEF Known, Reported, HandedOver

(* The shell that a sign-in has handed over.                               *)
LEMMA ItsShell ==
    ASSUME LoginsFit, NEW z \in Pids, proc[z].prog = "signIn", NEW s \in Pids,
           proc[s].prog = "shell"
    PROVE  HandedOver(s, z)
  <1>1. logonShell /\ shellID = z /\ ~Collected(shellID)
    BY SignersAre
  <1>2. ~Known(s) /\ ~Reported(s)
    BY <1>1 DEF Known, Reported
  <1>3. PICK r \in Pids : HandedOver(s, r)
    BY <1>2, ShellsAre
  <1>4. r = z
    BY <1>1, <1>3, SignersAre DEF HandedOver
  <1> QED  BY <1>3, <1>4

LEMMA InitWaitStep ==
    ASSUME LoginInv, Wait(InitPid)
    PROVE  LoginInv'
  <1>1. ProcessesFit(proc) /\ LoginsFit
    BY LoginParts DEF RunFits
  <1>2. /\ RunFits(proc', ready', cur') /\ ReadersFit' /\ LineFits'
        /\ cur = InitPid /\ proc[InitPid].pc = "wait"
        /\ StartsWaiting(InitPid) \/ \E z \in Pids : Collects(InitPid, z)
        /\ shellID' = shellID /\ logonShell' = logonShell
    BY WaitRuns, LoginConstants
  <1>3. InitPid \in Pids /\ proc[InitPid].prog = "init" /\ ~Collected(shellID)
    BY <1>1, <1>2, InitRuns, LoginConstants DEF Collected
  <1>4. ASSUME NEW z \in Pids, Collects(InitPid, z)
        PROVE  LoginsFit'
    <2>1. /\ proc[z].st = "zombie" /\ proc[z].parent = InitPid /\ z # InitPid
          /\ proc'[z] = None /\ None.prog = "none"
          /\ proc'[InitPid].prog = "init"
          /\ proc'[InitPid].pc = "collected" /\ proc'[InitPid].whom = z
          /\ proc'[InitPid].status = proc[z].status
          /\ \A q \in Pids : q # InitPid /\ q # z => proc'[q] = proc[q]
          /\ cur' = InitPid
      BY <1>2, <1>3, <1>4 DEF Collects, None
    <2>2. proc[z].pc = "exit" /\ proc[z].prog \in Programs \ {"init", "none"}
          /\ FieldsFit(proc[z])
      BY <1>1, <2>1, RecordIs DEF StateFits, Records
    <2>3. \A q \in Pids : proc'[q].prog \in Logs => q # z /\ q # InitPid /\ proc'[q] = proc[q]
      BY <2>1 DEF Logs
    <2>4. CASE z = shellID /\ logonShell
      <3>1. proc[z].prog = "signIn"
        BY <1>1, <1>3, <2>4 DEF LoginsFit, ReportRight
      <3>2. \A q \in Pids : proc'[q].prog # "signIn"
        BY <1>1, <2>3, <2>4, SignersAre DEF Logs
      <3>3. Collected(shellID)' /\ logonShell' /\ shellID' = z
        BY <1>2, <2>1, <2>4 DEF Collected
      <3>4. ShellsKnown'
        <4>1. ASSUME NEW s \in Pids, proc'[s].prog = "shell"
              PROVE  Reported(s)'
          <5>1. s # z /\ s # InitPid /\ proc'[s] = proc[s] /\ proc[s].prog = "shell"
            BY <2>3, <4>1 DEF Logs
          <5>2. HandedOver(s, z)
            BY <1>1, <3>1, <5>1, ItsShell
          <5>3. proc[s].parent # z
            BY <1>1, <2>1, <5>2, ZombieOrphaned DEF Orphaned, HandedOver, Fresh
          <5> QED  BY <1>2, <2>1, <3>3, <5>1, <5>2, <5>3 DEF HandedOver, Reported, Fresh
        <4> QED  BY <4>1 DEF ShellsKnown
      <3>5. ReportRight'
        <4>1. proc[z].status < 0 \/ IsShell(proc[z].status)
          BY <1>1, <2>2, <3>1 DEF LoginsFit, ResultsRight
        <4> DEFINE Shell2(s) == s \in Pids /\ proc'[s].prog = "shell"
        <4>2. \A s : IsShell(s) => Shell2(s)
          BY <1>3, <2>1, <3>1 DEF IsShell
        <4>3. proc'[InitPid].status < 0 \/ Shell2(proc'[InitPid].status)
          BY <2>1, <4>1, <4>2
        <4> QED  BY <2>1, <3>3, <4>3 DEF ReportRight, IsShell
      <3>6. SignersKnown' /\ ResultsRight'
        BY <3>2 DEF SignersKnown, ResultsRight
      <3> QED  BY <1>1, <1>2, <3>4, <3>5, <3>6 DEF LoginsFit
    <2>5. CASE z = shellID /\ ~logonShell
      <3>1. proc[z].prog = "shell"
        BY <1>1, <1>3, <2>5 DEF LoginsFit, ReportRight
      <3>2. \A q \in Pids : proc'[q].prog # "signIn" /\ proc'[q].prog # "shell"
        BY <1>1, <2>3, <2>5, SignersAre, NoShell DEF Logs
      <3>3. Collected(shellID)' /\ ~logonShell' /\ shellID' = z
        BY <1>2, <2>1, <2>5 DEF Collected
      <3>4. proc'[InitPid].status = 0
        BY <2>1, <2>2, <3>1 DEF FieldsFit
      <3>5. ReportRight'
        BY <2>1, <3>3, <3>4 DEF ReportRight
      <3>6. SignersKnown' /\ ResultsRight' /\ ShellsKnown'
        BY <3>2 DEF SignersKnown, ResultsRight, ShellsKnown
      <3> QED  BY <1>1, <1>2, <3>5, <3>6 DEF LoginsFit
    <2>6. CASE z # shellID
      <3>1. proc[z].prog \in Others
        <4>1. proc[z].prog # "signIn"
          BY <1>1, <2>6, SignersAre
        <4>2. proc[z].prog # "shell"
          BY <1>1, <2>1, <2>6, ShellsAre DEF Known, Reported, HandedOver, Fresh
        <4> QED  BY <2>2, <4>1, <4>2 DEF Programs, Others
      <3>2. LoginsSame
        <4>1. ASSUME NEW q \in Pids, proc[q].prog \in Logs \/ proc'[q].prog \in Logs
              PROVE  proc'[q] = proc[q]
          BY <1>3, <2>1, <2>3, <3>1, <4>1 DEF Logs, Others
        <4> QED  BY <1>2, <4>1 DEF LoginsSame, Logs
      <3>3. InitSame
        BY <1>3, <2>1, <2>6 DEF InitSame
      <3>4. TheyGoFirst
        BY <1>2, <1>3, <2>1 DEF TheyGoFirst, HandedOver, Reported, Fresh, FreshSame
      <3> QED  BY <1>1, <3>2, <3>3, <3>4, LoginsKept
    <2> QED  BY <2>4, <2>5, <2>6
  <1>5. ASSUME StartsWaiting(InitPid)
        PROVE  LoginsFit'
    <2>1. /\ proc'[InitPid].prog = proc[InitPid].prog /\ proc'[InitPid].st = "waiting"
          /\ proc'[InitPid].pc = "wait"
          /\ \A q \in Pids : q # InitPid => proc'[q] = proc[q]
          /\ \A q \in Pids : q # InitPid => ~(proc[q].st = "zombie" /\ proc[q].parent = InitPid)
          /\ OnReady(proc', 0, 1) # {} => cur' \in OnReady(proc', 0, 1)
      BY <1>5 DEF StartsWaiting
    <2>2. LoginsSame
      BY <1>2, <1>3, <2>1 DEF LoginsSame, Logs
    <2>3. InitSame
      BY <1>3, <2>1 DEF InitSame
    <2>4. ASSUME NEW p \in Pids, NEW q \in Pids, HandedOver(p, q)
          PROVE  cur' = q /\ FreshSame(p)
      <3>1. proc[q].prog = "signIn" /\ proc[q].pc = "exit" /\ Fresh(p) /\ q # InitPid
        BY <1>3, <2>4 DEF HandedOver
      <3>2. proc[q].parent = InitPid /\ shellID = q
        BY <1>1, <3>1, SignersAre
      <3>3. proc[q].st = "ready"
        <4>1. StateFits(proc[q]) /\ proc[q].st \in States
          BY <1>1, RecordIs DEF Records
        <4>2. proc[q].st # "zombie"
          BY <2>1, <3>1, <3>2
        <4> QED  BY <3>1, <4>1, <4>2 DEF StateFits, States, Reading
      <3>4. q \in OnReady(proc', 0, 1)
        BY <2>1, <3>1, <3>3, LoginConstants DEF OnReady, Prio
      <3>5. cur' \in OnReady(proc', 0, 1)
        BY <2>1, <3>4
      <3>6. cur' \in Pids /\ proc'[cur'].st = "ready" /\ proc'[cur'].prog \in {"init", "signIn"}
        BY <3>5 DEF OnReady, Prio
      <3>7. cur' # InitPid /\ proc[cur'].prog \in {"init", "signIn"}
        BY <2>1, <3>6
      <3>8. proc[cur'].prog = "signIn"
        BY <1>1, <3>6, <3>7, RecordIs
      <3>9. cur' = q
        BY <1>1, <3>2, <3>6, <3>8, SignersAre
      <3>10. p # InitPid
        BY <1>2, <3>1 DEF Fresh
      <3> QED  BY <2>1, <3>1, <3>9, <3>10 DEF Fresh, FreshSame
    <2>5. TheyGoFirst
      BY <1>3, <2>4 DEF TheyGoFirst, Reported
    <2> QED  BY <1>1, <2>2, <2>3, <2>5, LoginsKept
  <1> QED  BY <1>2, <1>4, <1>5, LoginPartsNext

LEMMA InitWaitsIs ==
    ASSUME LoginInv, cur = InitPid
    PROVE  /\ RunFits(InitWaits, ready, cur)
           /\ \A q \in Pids : q # InitPid => InitWaits[q] = proc[q]
           /\ InitWaits[InitPid].pc = "wait" /\ InitWaits[InitPid].st = "ready"
           /\ InitWaits[InitPid].prog = "init"
           /\ InitWaits[InitPid].whom = 0 /\ InitWaits[InitPid].status = 0
  <1>1. RunFits(proc, ready, cur) /\ ProcessesFit(proc) /\ InitPid \in Pids
    BY LoginParts, LoginConstants DEF RunFits
  <1> DEFINE h == [proc[InitPid] EXCEPT !.pc = "wait", !.whom = 0, !.status = 0]
  <1>2. InitWaits = [proc EXCEPT ![InitPid] = h]
    BY <1>1 DEF InitWaits, ProcessesFit
  <1>3. /\ proc[InitPid] \in Records /\ proc[InitPid].st = "ready"
        /\ PlaceFits(proc[InitPid]) /\ StateFits(proc[InitPid]) /\ FieldsFit(proc[InitPid])
        /\ proc[InitPid].prog = "init" /\ proc[InitPid].pc \in {"start", "wait", "collected"}
    BY <1>1, CurIs, InitRuns
  <1>4. /\ h \in Records /\ h.prog = "init" /\ h.parent = proc[InitPid].parent
        /\ h.st = "ready" /\ h.pc = "wait" /\ h.status = 0 /\ h.whom = 0
        /\ h.buf = proc[InitPid].buf
    <2>1. "wait" \in PCs /\ 0 \in Statuses
      BY DEF PCs, Statuses
    <2> QED  BY <1>3, <2>1 DEF Records
  <1> HIDE DEF h
  <1>5. RecordFits(h)
    BY <1>3, <1>4 DEF RecordFits, PlaceFits, StateFits, FieldsFit, Reading
  <1>6. RunFits(InitWaits, ready, cur)
    BY <1>1, <1>2, <1>3, <1>4, <1>5, GoesOn
  <1>7. InitWaits[InitPid] = h /\ \A q \in Pids : q # InitPid => InitWaits[q] = proc[q]
    BY <1>1, <1>2 DEF ProcessesFit
  <1> QED  BY <1>4, <1>6, <1>7
LEMMA SpawnSignInStep ==
    ASSUME LoginInv, cur = InitPid, SpawnSignIn, logonShell' = TRUE,
           UNCHANGED <<cur, readers, input, shown>>,
           \A q \in Pids : proc[q].prog \notin Logs
    PROVE  LoginInv'
  <1>1. RunFits(proc, ready, cur) /\ ReadersFit /\ LoginsFit /\ LineFits /\ ProcessesFit(proc)
    BY LoginParts DEF RunFits
  <1>2. /\ RunFits(InitWaits, ready, cur)
        /\ \A q \in Pids : q # InitPid => InitWaits[q] = proc[q]
        /\ InitWaits[InitPid].pc = "wait" /\ InitWaits[InitPid].st = "ready"
        /\ InitWaits[InitPid].prog = "init" /\ InitPid \in Pids
        /\ InitWaits[InitPid].whom = 0 /\ InitWaits[InitPid].status = 0
        /\ proc[InitPid].st = "ready"
    BY InitWaitsIs, LoginConstants, CurIs
  <1>3. CASE Unused = {}
    <2>1. shellID' = ENoProcs /\ proc' = InitWaits /\ ready' = ready
      BY <1>3 DEF SpawnSignIn
    <2>2. \A q \in Pids : proc'[q].prog \notin Logs
      BY <1>2, <2>1 DEF Logs
    <2>3. LoginsFit'
      <3>1. SignersKnown' /\ ShellsKnown' /\ ResultsRight'
        BY <2>2 DEF SignersKnown, ShellsKnown, ResultsRight, Logs
      <3>2. ReportRight'
        BY <1>2, <2>1, LoginConstants DEF ReportRight, Collected
      <3> QED  BY <2>1, <3>1, <3>2 DEF LoginsFit, Statuses
    <2>4. LineFits'
      BY <2>2 DEF LineFits, Sessions, Logs
    <2>5. ReadersFit'
      BY <1>1, <1>2, <2>1, ReadersKept
    <2> QED  BY <1>2, <2>1, <2>3, <2>4, <2>5, LoginPartsNext
  <1>4. CASE Unused # {}
    <2> DEFINE ch == Child
               x == Process("signIn", InitPid, "start", 0)
    <2>1. ch \in Pids /\ proc[ch].st = "unused" /\ proc[ch].prog = "none" /\ ch # InitPid
      BY <1>1, <1>4, ChildFits
    <2>2. shellID' = ch /\ proc' = [InitWaits EXCEPT ![ch] = x]
          /\ ready' = Queued(ready, ch, "signIn")
      BY <1>4 DEF SpawnSignIn
    <2> HIDE DEF ch
    <2>3. /\ RecordFits(x) /\ x.prog = "signIn" /\ x.st = "ready" /\ x.pc = "start"
          /\ x.parent = InitPid
      <3>1. 0 \in Users
        BY DEF Users
      <3> QED  BY <1>2, <3>1, NewFits
    <2> HIDE DEF x
    <2>4. RunFits(proc', ready', cur')
      <3>1. InitWaits[ch].st = "unused" /\ Runs(InitWaits, InitPid)
        BY <1>2, <2>1 DEF Runs
      <3>2. RunFits([InitWaits EXCEPT ![ch] = x], Queued(ready, ch, x.prog), cur)
        BY <1>2, <2>1, <2>3, <3>1, Spawns
      <3> QED  BY <2>2, <2>3, <3>2
    <2>5. /\ proc'[ch] = x /\ \A q \in Pids : q # ch => proc'[q] = InitWaits[q]
      BY <1>2, <2>1, <2>2 DEF RunFits, ProcessesFit
    <2>6. \A q \in Pids : q # ch => proc'[q].prog \notin Logs
      BY <1>2, <2>5 DEF Logs
    <2>7. proc'[InitPid] = InitWaits[InitPid]
      BY <1>2, <2>1, <2>5
    <2>8. LoginsFit'
      <3>1. ~Collected(shellID)' /\ logonShell' /\ shellID' = ch
        BY <1>2, <2>2, <2>7 DEF Collected
      <3>2. SignersKnown'
        BY <1>2, <2>3, <2>5, <2>6, <2>7, <3>1 DEF SignersKnown, Signing, Collected, Logs
      <3>3. ShellsKnown' /\ ResultsRight'
        BY <2>3, <2>5, <2>6 DEF ShellsKnown, ResultsRight, Logs
      <3>4. ReportRight'
        BY <1>2, <2>3, <2>5, <2>7, <3>1 DEF ReportRight
      <3> QED  BY <2>1, <2>2, <3>1, <3>2, <3>3, <3>4 DEF LoginsFit, Statuses
    <2>9. LineFits'
      BY <2>3, <2>5, <2>6 DEF LineFits, Sessions, Logs
    <2>10. ReadersFit'
      BY <1>1, <1>2, <2>1, <2>3, <2>5, <2>7, ReadersKept
    <2> QED  BY <2>4, <2>8, <2>9, <2>10, LoginPartsNext
  <1> QED  BY <1>3, <1>4

LEMMA InitStartsStep ==
    ASSUME LoginInv, InitStarts
    PROVE  LoginInv'
  <1>1. /\ cur = InitPid /\ proc[InitPid].pc = "start" /\ SpawnSignIn
        /\ UNCHANGED <<cur, readers, input, shown, logonShell>>
    BY DEF InitStarts, At
  <1>2. LoginsFit
    BY LoginParts
  <1>3. shellID = 0 /\ logonShell
    BY <1>1, <1>2 DEF LoginsFit, ReportRight
  <1>4. \A q \in Pids : proc[q].prog # "signIn"
    BY <1>2, <1>3, SignersAre, LoginConstants
  <1>5. \A q \in Pids : proc[q].prog # "shell"
    BY <1>1, <1>2, <1>3, <1>4, ShellsAre DEF Known, Reported, HandedOver, Collected
  <1>6. logonShell' = TRUE
    BY <1>1, <1>2, <1>3 DEF LoginsFit
  <1> QED  BY <1>1, <1>4, <1>5, <1>6, SpawnSignInStep DEF Logs

LEMMA ShellReported ==
    ASSUME ~logonShell', shellID' \in Pids, proc'[shellID'].prog = "shell",
           proc'[InitPid].pc = "wait"
    PROVE  ReportRight'
  <1>1. ~Collected(shellID)'
    BY DEF Collected
  <1>2. shellID' \in Pids =>
           Collected(shellID)' \/ proc'[shellID'].prog = IF logonShell' THEN "signIn" ELSE "shell"
    OBVIOUS
  <1>3. proc'[InitPid].pc = "start" => shellID' = 0 /\ logonShell'
    OBVIOUS
  <1> QED  BY <1>1, <1>2, <1>3 DEF ReportRight

LEMMA InitCollectedStep ==
    ASSUME LoginInv, InitCollected
    PROVE  LoginInv'
  <1>1. RunFits(proc, ready, cur) /\ ReadersFit /\ LoginsFit /\ LineFits /\ ProcessesFit(proc)
    BY LoginParts DEF RunFits
  <1> DEFINE whom == proc[InitPid].whom
             status == proc[InitPid].status
  <1>2. /\ cur = InitPid /\ proc[InitPid].pc = "collected"
        /\ UNCHANGED <<cur, readers, input, shown>>
    BY DEF InitCollected, At
  <1>3. /\ RunFits(InitWaits, ready, cur)
        /\ \A q \in Pids : q # InitPid => InitWaits[q] = proc[q]
        /\ InitWaits[InitPid].pc = "wait" /\ InitWaits[InitPid].st = "ready"
        /\ InitWaits[InitPid].prog = "init" /\ InitPid \in Pids
        /\ proc[InitPid].st = "ready" /\ proc[InitPid].prog = "init"
    BY <1>1, <1>2, InitWaitsIs, LoginConstants, CurIs, InitRuns
  <1>4. CASE whom = shellID
    <2>1. Collected(shellID)
      BY <1>2, <1>4 DEF Collected
    <2>2. \A q \in Pids : proc[q].prog # "signIn"
      BY <1>1, <2>1, SignersAre
    <2>3. \A q \in Pids : proc[q].prog = "shell" => Reported(q)
      BY <1>1, <2>1, <2>2, ShellsAre DEF Known, HandedOver
    <2>4. CASE /\ LoginOver(status) /\ SpawnSignIn /\ logonShell' = LogonNext(status)
      <3>1. status < 0 \/ ~logonShell
        BY <2>4 DEF LoginOver
      <3>2. logonShell' = TRUE
        <4>1. status \in Int /\ logonShell \in BOOLEAN
          BY <1>1, <1>3, RecordIs, LoginConstants DEF Records, LoginsFit
        <4>2. ~logonShell => status >= 0
          BY <1>1, <2>1 DEF LoginsFit, ReportRight
        <4> HIDE DEF status
        <4>3. status < 0 => logonShell
          BY <4>1, <4>2
        <4> QED  BY <2>4, <4>1, <4>3 DEF LogonNext
      <3>3. \A q \in Pids : proc[q].prog # "shell"
        BY <2>3, <3>1, LoginConstants DEF Reported, Pids
      <3> QED  BY <1>2, <2>2, <2>4, <3>2, <3>3, SpawnSignInStep DEF Logs
    <2>5. CASE /\ ~LoginOver(status) /\ shellID' = status /\ logonShell' = FALSE
               /\ proc' = InitWaits /\ ready' = ready
      <3>1. ~(status < 0) /\ logonShell
        BY <1>1, <2>5 DEF LoginOver, LoginsFit
      <3>2. status \in Pids /\ proc[status].prog = "shell"
        BY <1>1, <2>1, <3>1 DEF LoginsFit, ReportRight, IsShell
      <3> HIDE DEF status
      <3>3. \A q \in Pids : proc'[q].prog = proc[q].prog
        BY <1>3, <2>5
      <3>4. \A q \in Pids : q # InitPid => proc'[q] = proc[q]
        BY <1>3, <2>5
      <3>5. proc'[InitPid].pc = "wait" /\ shellID' = status /\ ~logonShell'
        BY <1>3, <2>5
      <3>6. SignersKnown' /\ ResultsRight'
        BY <2>2, <3>3 DEF SignersKnown, ResultsRight
      <3>7. ShellsKnown'
        <4>1. ASSUME NEW s \in Pids, proc'[s].prog = "shell"
              PROVE  Known(s)'
          <5>1. Reported(s) /\ s # InitPid
            BY <1>3, <2>3, <3>3, <4>1
          <5> QED  BY <3>4, <3>5, <5>1 DEF Reported, Known, Collected, status
        <4> QED  BY <4>1 DEF ShellsKnown
      <3>8. ReportRight'
        <4>1. shellID' \in Pids /\ proc'[shellID'].prog = "shell"
          BY <3>2, <3>3, <3>5
        <4> QED  BY <3>5, <4>1, ShellReported
      <3>9. LoginsFit'
        BY <2>5, <3>2, <3>5, <3>6, <3>7, <3>8 DEF LoginsFit, Statuses
      <3>10. LineFits'
        BY <1>1, <1>2, <1>3, <3>4, <2>5, LineKept DEF Logs
      <3>11. ReadersFit'
        BY <1>1, <1>2, <1>3, <2>5, ReadersKept
      <3> QED  BY <1>2, <1>3, <2>5, <3>9, <3>10, <3>11, LoginPartsNext
    <2> QED  BY <1>4, <2>4, <2>5 DEF InitCollected
  <1>5. CASE whom # shellID
    <2>1. proc' = InitWaits /\ UNCHANGED <<ready, shellID, logonShell>>
      BY <1>5 DEF InitCollected
    <2>2. /\ \A q \in Pids : q # InitPid => proc'[q] = proc[q]
          /\ proc'[InitPid].pc = "wait" /\ proc'[InitPid].prog = "init"
      BY <1>3, <2>1
    <2>3. ~Collected(shellID)
      BY <1>5 DEF Collected
    <2>4. LoginsSame /\ InitSame
      BY <1>3, <2>1, <2>2, <2>3 DEF LoginsSame, InitSame, Logs
    <2>5. TheyGoFirst
      BY <1>2, <2>2, <2>3 DEF TheyGoFirst, HandedOver, Reported, Fresh, FreshSame
    <2>6. LoginsFit'
      BY <1>1, <2>4, <2>5, LoginsKept
    <2>7. LineFits'
      BY <1>1, <1>2, <1>3, <2>2, LineKept DEF Logs
    <2>8. ReadersFit'
      BY <1>1, <1>2, <1>3, <2>1, ReadersKept
    <2> QED  BY <1>2, <1>3, <2>1, <2>6, <2>7, <2>8, LoginPartsNext
  <1> QED  BY <1>4, <1>5
-----------------------------------------------------------------------------
(* exit().                                                                 *)

(* What an exit does: the parent is told, or finds a zombie; the children  *)
(* are init's.                                                             *)
Told(p, q) == proc[proc[p].parent].st = "waiting" /\ q = proc[p].parent

ExitDone(p, status) ==
    /\ \A q \in Pids : q # p =>
          /\ proc'[q].prog = proc[q].prog /\ proc'[q].buf = proc[q].buf
          /\ proc'[q].parent = IF proc[q].st # "unused" /\ proc[q].parent = p
                               THEN InitPid ELSE proc[q].parent
          /\ Told(p, q) => /\ proc'[q].st = "ready" /\ proc'[q].pc = "collected"
                           /\ proc'[q].whom = p /\ proc'[q].status = status
          /\ ~Told(p, q) => /\ proc'[q].st = proc[q].st /\ proc'[q].pc = proc[q].pc
                            /\ proc'[q].whom = proc[q].whom
                            /\ proc'[q].status = proc[q].status
    /\ IF proc[proc[p].parent].st = "waiting"
       THEN proc'[p].prog = "none" /\ proc'[p].st = "unused"
       ELSE /\ proc'[p].prog = proc[p].prog /\ proc'[p].st = "zombie"
            /\ proc'[p].pc = "exit" /\ proc'[p].status = status
            /\ proc'[p].parent \in {proc[p].parent, InitPid}
    /\ OnReady(proc', 0, 1) # {} => cur' \in OnReady(proc', 0, 1)

LEMMA ExitRuns ==
    ASSUME LoginInv, NEW p \in Pids, p # InitPid, NEW status \in Statuses, Exit(p, status),
           proc[p].prog = "shell" => status = 0,
           proc[p].pc \notin Reading, proc[p].prog \in {"signIn", "shell", "test"}
    PROVE  /\ RunFits(proc', ready', cur') /\ ReadersFit' /\ LineFits' /\ ExitDone(p, status)
           /\ cur = p /\ shellID' = shellID /\ logonShell' = logonShell
           /\ proc[p].parent \in Pids /\ proc[p].st = "ready"
           /\ proc[proc[p].parent].st = "waiting" => proc[proc[p].parent].pc = "wait"
  <1>1. RunFits(proc, ready, cur) /\ ReadersFit /\ LoginsFit /\ LineFits /\ ProcessesFit(proc)
    BY LoginParts DEF RunFits
  <1> DEFINE hs == Heirs(proc, p)
             par == proc[p].parent
  <1>2. /\ cur = p /\ UNCHANGED <<readers, input, shown, shellID, logonShell>>
        /\ IF proc[par].st = "waiting"
           THEN /\ proc' = [hs EXCEPT ![p] = None, ![par].st = "ready",
                                      ![par].whom = p, ![par].status = status,
                                      ![par].pc = "collected"]
                /\ Dispatch(Queued(ready, par, proc[par].prog))
           ELSE /\ proc' = [hs EXCEPT ![p].st = "zombie", ![p].status = status,
                                      ![p].pc = "exit"]
                /\ Dispatch(ready)
    BY DEF Exit, Heirs, Alive
  <1>3. /\ proc[p] \in Records /\ proc[p].st = "ready"
        /\ PlaceFits(proc[p]) /\ StateFits(proc[p]) /\ FieldsFit(proc[p])
    BY <1>2, CurIs
  <1>4. proc[p].buf = <<>>
    BY <1>3 DEF FieldsFit
  <1>5. par \in Pids /\ RecordFits(proc[par])
    BY <1>1, <1>3 DEF ProcessesFit
  <1>6. proc[par].st = "waiting" => par # p /\ proc[par].pc = "wait"
    BY <1>3, <1>5 DEF RecordFits, StateFits
  <1>7. /\ ProcessesFit(hs) /\ Orphaned(hs, p)
        /\ \A q \in Pids :
              /\ hs[q].prog = proc[q].prog /\ hs[q].st = proc[q].st
              /\ hs[q].pc = proc[q].pc /\ hs[q].status = proc[q].status
              /\ hs[q].whom = proc[q].whom /\ hs[q].buf = proc[q].buf
              /\ hs[q].child = proc[q].child
              /\ hs[q].parent = IF proc[q].st # "unused" /\ proc[q].parent = p
                                THEN InitPid ELSE proc[q].parent
    BY <1>1, HeirsFit
  <1> HIDE DEF hs, par
  <1>8. hs \in [Pids -> Records]
    BY <1>7 DEF ProcessesFit
  <1>9. RecordFits(None) /\ None.prog = "none" /\ None.st = "unused"
    BY NoneFits DEF None
  <1>10. ReadyFits(ready, proc, p)
    BY <1>1, <1>2 DEF RunFits
  <1>11. CASE proc[par].st = "waiting"
    <2> DEFINE h == [hs[par] EXCEPT !.st = "ready", !.whom = p, !.status = status,
                                    !.pc = "collected"]
               mid == [hs EXCEPT ![p] = None]
    <2>1. proc' = [mid EXCEPT ![par] = h]
      BY <1>2, <1>5, <1>6, <1>8, <1>11
    <2>2. par # p /\ hs[par] \in Records /\ hs[par].st = "waiting" /\ FieldsFit(hs[par])
          /\ PlaceFits(hs[par]) /\ StateFits(hs[par]) /\ hs[par].pc = "wait"
      BY <1>5, <1>6, <1>7, <1>11, RecordIs
    <2>3. /\ h \in Records /\ h.prog = hs[par].prog /\ h.parent = hs[par].parent
          /\ h.st = "ready" /\ h.pc = "collected" /\ h.status = status
          /\ h.whom = p /\ h.buf = hs[par].buf
      <3>1. "collected" \in PCs /\ "ready" \in States
        BY DEF PCs, States
      <3> QED  BY <2>2, <3>1 DEF Records
    <2> HIDE DEF h
    <2>4. RecordFits(h)
      <3>1. hs[par].buf = <<>>
        BY <2>2 DEF FieldsFit, Reading
      <3>2. hs[par].prog \in {"init", "shell"}
        BY <2>2 DEF PlaceFits, StateFits, Records, Programs
      <3> QED  BY <2>2, <2>3, <3>1, <3>2 DEF RecordFits, PlaceFits, StateFits, FieldsFit, Reading
    <2>5. ProcessesFit(mid)
      BY <1>7, <1>9, BuryRecord
    <2>6. mid[par] = hs[par] /\ mid[p] = None /\ \A q \in Pids : q # p => mid[q] = hs[q]
      BY <1>5, <1>8, <2>2
    <2>7. proc'[par] = h /\ proc'[p] = None /\ \A q \in Pids : q # p /\ q # par => proc'[q] = hs[q]
      BY <1>5, <1>8, <2>1, <2>2
    <2> HIDE DEF mid
    <2>8. RunFits(mid, ready, 0)
      <3>1. mid[p].st # "ready" /\ \A q \in Pids : q # p => mid[q].st = proc[q].st
                                                            /\ mid[q].prog = proc[q].prog
        BY <1>7, <1>9, <2>6
      <3>2. \A r \in Pids : \A i \in 1 .. 2 : r \in OnReady(mid, 0, i) <=> r \in OnReady(proc, p, i)
        BY <3>1, CurStops
      <3>3. ReadyFits(ready, mid, 0)
        BY <1>10, <3>2, ReadyKept
      <3> QED  BY <2>5, <3>3 DEF RunFits
    <2>9. RunFits([mid EXCEPT ![par] = h], Queued(ready, par, mid[par].prog), 0)
      BY <1>5, <2>2, <2>3, <2>4, <2>6, <2>8, Joins
    <2>10. RunFits(proc', Queued(ready, par, proc[par].prog), 0)
           /\ Dispatch(Queued(ready, par, proc[par].prog))
      BY <1>2, <1>5, <1>7, <1>11, <2>1, <2>6, <2>9
    <2>11. /\ RunFits(proc', ready', cur')
           /\ OnReady(proc', 0, 1) # {} => cur' \in OnReady(proc', 0, 1)
      <3> DEFINE queues == Queued(ready, par, proc[par].prog)
      <3>1. ReadyFits(queues, proc', 0) /\ Dispatch(queues) /\ ProcessesFit(proc')
        BY <2>10 DEF RunFits
      <3> HIDE DEF queues
      <3> QED  BY <3>1, Dispatched DEF RunFits
    <2>12. ExitDone(p, status)
      <3>1. Told(p, par) /\ \A q \in Pids : q # par => ~Told(p, q)
        BY <1>11 DEF Told, par
      <3>2. ASSUME NEW q \in Pids, q # p, q # par
            PROVE  proc'[q] = hs[q] /\ ~Told(p, q)
        BY <2>7, <3>1, <3>2
      <3>3. ASSUME NEW q \in Pids, q # p
            PROVE  /\ proc'[q].prog = proc[q].prog /\ proc'[q].buf = proc[q].buf
                   /\ proc'[q].parent = IF proc[q].st # "unused" /\ proc[q].parent = p
                                        THEN InitPid ELSE proc[q].parent
                   /\ Told(p, q) => /\ proc'[q].st = "ready" /\ proc'[q].pc = "collected"
                                    /\ proc'[q].whom = p /\ proc'[q].status = status
                   /\ ~Told(p, q) => /\ proc'[q].st = proc[q].st /\ proc'[q].pc = proc[q].pc
                                     /\ proc'[q].whom = proc[q].whom
                                     /\ proc'[q].status = proc[q].status
        <4>1. CASE q = par
          BY <1>5, <1>7, <2>3, <2>7, <3>1, <4>1
        <4>2. CASE q # par
          BY <1>7, <3>2, <3>3, <4>2
        <4> QED  BY <4>1, <4>2
      <3>4. proc'[p].prog = "none" /\ proc'[p].st = "unused"
        BY <1>9, <2>7
      <3> QED  BY <1>11, <2>11, <3>3, <3>4 DEF ExitDone, par
    <2>13. ReadersFit'
      BY <1>1, <1>2, <1>3, <1>7, <1>9, <1>11, <2>3, <2>7, ReadersKept
    <2>14. LineFits'
      BY <1>1, <1>2, <1>7, <1>9, <2>3, <2>7, LineKept DEF Logs, Reading
    <2> QED  BY <1>2, <1>3, <1>5, <1>6, <2>11, <2>12, <2>13, <2>14 DEF par
  <1>12. CASE proc[par].st # "waiting"
    <2> DEFINE h == [hs[p] EXCEPT !.st = "zombie", !.status = status, !.pc = "exit"]
    <2>1. proc' = [hs EXCEPT ![p] = h] /\ Dispatch(ready)
      BY <1>2, <1>12
    <2>2. hs[p] \in Records /\ hs[p].st = "ready" /\ PlaceFits(hs[p]) /\ StateFits(hs[p])
          /\ FieldsFit(hs[p]) /\ hs[p].buf = <<>> /\ hs[p].prog = proc[p].prog
      BY <1>3, <1>4, <1>7, RecordIs
    <2>3. /\ h \in Records /\ h.prog = hs[p].prog /\ h.parent = hs[p].parent
          /\ h.st = "zombie" /\ h.pc = "exit" /\ h.status = status /\ h.buf = hs[p].buf
      <3>1. "exit" \in PCs /\ "zombie" \in States
        BY DEF PCs, States
      <3> QED  BY <2>2, <3>1 DEF Records
    <2> HIDE DEF h
    <2>4. RecordFits(h)
      BY <2>2, <2>3 DEF RecordFits, PlaceFits, StateFits, FieldsFit, Reading
    <2>5. proc'[p] = h /\ \A q \in Pids : q # p => proc'[q] = hs[q]
      BY <1>8, <2>1
    <2>6. ProcessesFit(proc')
      <3>1. h.prog # "init" /\ hs[p].st # "unused"
        BY <2>2, <2>3
      <3> QED  BY <1>7, <2>1, <2>3, <2>4, <3>1, BuryRecord
    <2>7. /\ RunFits(proc', ready', cur')
          /\ OnReady(proc', 0, 1) # {} => cur' \in OnReady(proc', 0, 1)
      <3>1. proc'[p].st # "ready"
        BY <2>3, <2>5
      <3>2. \A q \in Pids : q # p => proc'[q].st = proc[q].st /\ proc'[q].prog = proc[q].prog
        BY <1>7, <2>5
      <3>3. Dispatch(ready)
        BY <2>1
      <3> QED  BY <1>10, <2>6, <3>1, <3>2, <3>3, Stops
    <2>8. ExitDone(p, status)
      <3>1. \A q \in Pids : ~Told(p, q)
        BY <1>12 DEF Told, par
      <3>2. proc'[p].parent \in {proc[p].parent, InitPid}
        BY <1>7, <2>3, <2>5
      <3>3. proc'[p].prog = proc[p].prog /\ proc'[p].st = "zombie"
            /\ proc'[p].pc = "exit" /\ proc'[p].status = status
        BY <2>2, <2>3, <2>5
      <3> QED  BY <1>7, <1>12, <2>5, <2>7, <3>1, <3>2, <3>3 DEF ExitDone, par
    <2>9. ReadersFit'
      BY <1>1, <1>2, <1>3, <1>7, <2>3, <2>5, ReadersKept
    <2>10. LineFits'
      BY <1>1, <1>2, <1>7, <2>3, <2>5, LineKept DEF Logs, Reading
    <2> QED  BY <1>2, <1>3, <1>5, <1>6, <2>7, <2>8, <2>9, <2>10 DEF par
  <1> QED  BY <1>11, <1>12

(* The end of a sign-in, of a shell and of a test.                         *)
LEMMA SignInLeaves ==
    ASSUME LoginInv, NEW p \in Pids, p # InitPid, Leaves(p), proc[p].prog = "signIn"
    PROVE  LoginInv'
  <1> DEFINE status == proc[p].status
  <1>1. LoginsFit /\ ProcessesFit(proc) /\ proc[p].pc = "exit" /\ Exit(p, status)
    BY LoginParts DEF RunFits, Leaves, At
  <1>2. status \in Statuses /\ (status < 0 \/ IsShell(status))
    BY <1>1 DEF ProcessesFit, Records, LoginsFit, ResultsRight
  <1>3. /\ RunFits(proc', ready', cur') /\ ReadersFit' /\ LineFits' /\ ExitDone(p, status)
        /\ cur = p /\ shellID' = shellID /\ logonShell' = logonShell
    <2>1. proc[p].pc \notin Reading
      BY <1>1 DEF Reading
    <2> QED  BY <1>1, <1>2, <2>1, ExitRuns
  <1>4. logonShell /\ shellID = p /\ proc[p].parent = InitPid /\ ~Collected(shellID)
    BY <1>1, SignersAre
  <1>5. \A q \in Pids : proc[q].prog = "signIn" => q = p
    BY <1>1, <1>4, SignersAre
  <1> HIDE DEF status
  <1>6. /\ \A q \in Pids : q # p =>
              /\ proc'[q].prog = proc[q].prog
              /\ proc'[q].parent = IF proc[q].st # "unused" /\ proc[q].parent = p
                                   THEN InitPid ELSE proc[q].parent
              /\ q # InitPid => proc'[q].st = proc[q].st /\ proc'[q].pc = proc[q].pc
        /\ OnReady(proc', 0, 1) # {} => cur' \in OnReady(proc', 0, 1)
    BY <1>3, <1>4 DEF ExitDone, Told
  <1>7. InitPid \in Pids /\ proc[InitPid].prog = "init" /\ proc[InitPid].st \in {"ready", "waiting"}
        /\ proc[InitPid].pc \in {"start", "wait", "collected"}
    BY <1>1, InitRuns, LoginConstants
  <1>8. ASSUME proc'[InitPid].st = "ready", proc'[p].prog # "signIn" \/ proc'[p].st # "ready"
        PROVE  cur' = InitPid
    <2>1. InitPid \in OnReady(proc', 0, 1)
      BY <1>3, <1>6, <1>7, <1>8, LoginConstants DEF OnReady, Prio
    <2>2. cur' \in Pids /\ proc'[cur'].st = "ready" /\ proc'[cur'].prog \in {"init", "signIn"}
      BY <1>6, <2>1 DEF OnReady, Prio
    <2>3. CASE cur' = p
      <3>1. proc'[p].prog = "init"
        BY <1>8, <2>2, <2>3
      <3> QED  BY <2>3, <3>1, <1>3 DEF RunFits, ProcessesFit
    <2>4. CASE cur' # p
      <3>1. proc[cur'].prog \in {"init", "signIn"}
        BY <1>6, <2>2, <2>4
      <3> QED  BY <1>1, <1>5, <2>2, <2>4, <3>1, RecordIs
    <2> QED  BY <2>3, <2>4
  <1>9. ASSUME NEW s \in Pids, proc[s].prog = "shell"
        PROVE  /\ HandedOver(s, p) /\ s # p /\ s # InitPid
               /\ proc'[s].parent = InitPid /\ FreshSame(s)
    <2>1. HandedOver(s, p)
      BY <1>1, <1>9, ItsShell
    <2>2. s # p /\ s # InitPid
      BY <1>7, <1>9
    <2> QED  BY <1>6, <2>1, <2>2 DEF HandedOver, Fresh, FreshSame
  <1>10. CASE proc[InitPid].st = "waiting"
    <2>1. /\ proc'[InitPid].st = "ready" /\ proc'[InitPid].pc = "collected"
          /\ proc'[InitPid].whom = p /\ proc'[InitPid].status = status
          /\ proc'[p].prog = "none"
      BY <1>3, <1>4, <1>7, <1>10 DEF ExitDone, Told
    <2>2. cur' = InitPid
      BY <1>8, <2>1
    <2>3. Collected(shellID)' /\ logonShell' /\ shellID' = p
      BY <1>3, <1>4, <2>1 DEF Collected
    <2>4. \A q \in Pids : proc'[q].prog # "signIn"
      BY <1>5, <1>6, <2>1
    <2>5. SignersKnown' /\ ResultsRight'
      BY <2>4 DEF SignersKnown, ResultsRight
    <2>6. ShellsKnown'
      <3>1. ASSUME NEW s \in Pids, proc'[s].prog = "shell"
            PROVE  Reported(s)'
        <4>1. proc[s].prog = "shell"
          BY <1>6, <2>1, <3>1
        <4>2. HandedOver(s, p) /\ proc'[s].parent = InitPid /\ FreshSame(s)
          BY <1>9, <4>1
        <4>3. proc'[InitPid].status = s
          BY <2>1, <4>2 DEF HandedOver, status
        <4> QED  BY <2>2, <2>3, <4>2, <4>3 DEF Reported, Fresh, FreshSame
      <3> QED  BY <3>1 DEF ShellsKnown
    <2>7. ReportRight'
      <3> DEFINE Shell2(s) == s \in Pids /\ proc'[s].prog = "shell"
      <3>1. \A s : IsShell(s) => Shell2(s)
        BY <1>6, <1>9 DEF IsShell
      <3>2. proc'[InitPid].status < 0 \/ Shell2(proc'[InitPid].status)
        BY <1>2, <2>1, <3>1
      <3> QED  BY <2>1, <2>3, <3>2 DEF ReportRight, IsShell
    <2>8. LoginsFit'
      BY <1>1, <1>3, <2>5, <2>6, <2>7 DEF LoginsFit
    <2> QED  BY <1>3, <2>8, LoginPartsNext
  <1>11. CASE proc[InitPid].st # "waiting"
    <2>1. /\ proc'[p].prog = "signIn" /\ proc'[p].st = "zombie" /\ proc'[p].pc = "exit"
          /\ proc'[p].status = status /\ proc'[p].parent = InitPid
          /\ proc'[InitPid].st = proc[InitPid].st /\ proc'[InitPid].pc = proc[InitPid].pc
          /\ proc'[InitPid].whom = proc[InitPid].whom
          /\ proc'[InitPid].status = proc[InitPid].status
      BY <1>3, <1>4, <1>7, <1>11 DEF ExitDone, Told
    <2>2. cur' = InitPid
      BY <1>7, <1>8, <1>11, <2>1
    <2>3. LoginsSame
      <3>1. \A q \in Pids : proc'[q].prog = proc[q].prog
                            /\ proc'[q].parent \in {proc[q].parent, InitPid}
        BY <1>4, <1>6, <2>1
      <3> QED  BY <1>1, <1>3, <1>5, <2>1, <3>1 DEF LoginsSame, status
    <2>4. InitSame
      BY <2>1 DEF InitSame, Collected
    <2>5. TheyGoFirst
      <3>1. ASSUME NEW s \in Pids, NEW q \in Pids, HandedOver(s, q)
            PROVE  FreshSame(s)
        <4>1. s # p /\ s # InitPid
          BY <1>1, <1>7, <3>1 DEF HandedOver, Fresh
        <4> QED  BY <1>6, <3>1, <4>1 DEF HandedOver, Fresh, FreshSame
      <3> QED  BY <1>4, <2>2, <3>1 DEF TheyGoFirst, Reported
    <2>6. LoginsFit'
      BY <1>1, <2>3, <2>4, <2>5, LoginsKept
    <2> QED  BY <1>3, <2>6, LoginPartsNext
  <1> QED  BY <1>10, <1>11

LEMMA ShellLeaves ==
    ASSUME LoginInv, NEW p \in Pids, p # InitPid, Leaves(p), proc[p].prog = "shell"
    PROVE  LoginInv'
  <1> DEFINE status == proc[p].status
  <1>1. LoginsFit /\ ProcessesFit(proc) /\ proc[p].pc = "exit" /\ Exit(p, status)
    BY LoginParts DEF RunFits, Leaves, At
  <1>2. status = 0 /\ status \in Statuses
    <2>1. FieldsFit(proc[p])
      BY <1>1, RecordIs
    <2> QED  BY <1>1, <2>1 DEF FieldsFit, Statuses
  <1>3. /\ RunFits(proc', ready', cur') /\ ReadersFit' /\ LineFits' /\ ExitDone(p, 0)
        /\ cur = p /\ shellID' = shellID /\ logonShell' = logonShell
    <2>1. proc[p].pc \notin Reading
      BY <1>1 DEF Reading
    <2>2. Exit(p, 0) /\ 0 \in Statuses
      BY <1>1, <1>2
    <2> QED  BY <2>1, <2>2, ExitRuns
  <1>4. Known(p)
    BY <1>1, ShellsAre DEF Reported, HandedOver, Fresh
  <1>5. ~logonShell /\ shellID = p /\ proc[p].parent = InitPid /\ ~Collected(shellID)
    BY <1>4 DEF Known
  <1>6. /\ \A q \in Pids : proc[q].prog # "signIn"
        /\ \A q \in Pids : proc[q].prog = "shell" => q = p
    BY <1>1, <1>5, SignersAre, NoShell
  <1>7. InitPid \in Pids /\ proc[InitPid].prog = "init"
        /\ proc[InitPid].pc \in {"start", "wait", "collected"}
    BY <1>1, InitRuns, LoginConstants
  <1>8. \A q \in Pids : q # p => proc'[q].prog = proc[q].prog
    BY <1>3 DEF ExitDone
  <1>9. CASE proc[InitPid].st = "waiting"
    <2>1. /\ proc'[InitPid].pc = "collected" /\ proc'[InitPid].whom = p
          /\ proc'[InitPid].status = 0 /\ proc'[p].prog = "none"
      BY <1>3, <1>5, <1>7, <1>9 DEF ExitDone, Told
    <2>2. Collected(shellID)' /\ ~logonShell' /\ shellID' = p
      BY <1>3, <1>5, <2>1 DEF Collected
    <2>3. \A q \in Pids : proc'[q].prog # "signIn" /\ proc'[q].prog # "shell"
      BY <1>6, <1>8, <2>1
    <2>4. SignersKnown' /\ ResultsRight' /\ ShellsKnown'
      BY <2>3 DEF SignersKnown, ResultsRight, ShellsKnown
    <2>5. ReportRight'
      BY <2>1, <2>2 DEF ReportRight
    <2>6. LoginsFit'
      BY <1>1, <1>3, <2>4, <2>5 DEF LoginsFit
    <2> QED  BY <1>3, <2>6, LoginPartsNext
  <1>10. CASE proc[InitPid].st # "waiting"
    <2>1. /\ proc'[p].prog = "shell" /\ proc'[p].parent = InitPid
          /\ proc'[InitPid].pc = proc[InitPid].pc
          /\ proc'[InitPid].whom = proc[InitPid].whom
          /\ proc'[InitPid].status = proc[InitPid].status
      BY <1>3, <1>5, <1>7, <1>10 DEF ExitDone, Told
    <2>2. LoginsSame
      <3>1. ASSUME NEW q \in Pids, proc[q].prog \in Logs \/ proc'[q].prog \in Logs
            PROVE  q = p
        BY <1>6, <1>8, <3>1 DEF Logs
      <3> QED  BY <1>3, <1>5, <1>6, <2>1, <3>1 DEF LoginsSame
    <2>3. InitSame
      BY <2>1 DEF InitSame, Collected
    <2>4. TheyGoFirst
      BY <1>5, <1>6 DEF TheyGoFirst, HandedOver, Reported
    <2>5. LoginsFit'
      BY <1>1, <2>2, <2>3, <2>4, LoginsKept
    <2> QED  BY <1>3, <2>5, LoginPartsNext
  <1> QED  BY <1>9, <1>10

LEMMA TestExitsStep ==
    ASSUME LoginInv, NEW p \in Pids, TestExits(p)
    PROVE  LoginInv'
  <1>1. LoginsFit /\ ProcessesFit(proc) /\ proc[p].pc = "run" /\ Exit(p, EFailure) /\ cur = p
    BY LoginParts DEF RunFits, TestExits, At
  <1>2. proc[p].prog = "test" /\ p # InitPid
    <2>1. PlaceFits(proc[p]) /\ proc[p].prog \in Programs
      BY <1>1, RecordIs DEF Records
    <2>2. proc[p].prog = "test"
      BY <1>1, <2>1 DEF PlaceFits, Programs
    <2> QED  BY <1>1, <2>2, InitRuns
  <1>3. /\ RunFits(proc', ready', cur') /\ ReadersFit' /\ LineFits' /\ ExitDone(p, EFailure)
        /\ shellID' = shellID /\ logonShell' = logonShell
        /\ proc[proc[p].parent].st = "waiting" => proc[proc[p].parent].pc = "wait"
    <2>1. proc[p].pc \notin Reading /\ EFailure \in Statuses
      BY <1>1 DEF Reading, Statuses
    <2> QED  BY <1>1, <1>2, <2>1, ExitRuns
  <1>4. \A q \in Pids : Told(p, q) => proc[q].pc = "wait" /\ proc[q].prog # "signIn"
    <2>1. \A q \in Pids : Told(p, q) => proc[q].pc = "wait"
      BY <1>3 DEF Told
    <2>2. \A q \in Pids : PlaceFits(proc[q])
      BY <1>1, RecordIs
    <2> QED  BY <2>1, <2>2 DEF PlaceFits
  <1>5. LoginsSame
    <2>1. \A q \in Pids : q # p => proc'[q].prog = proc[q].prog
                                   /\ proc'[q].parent \in {proc[q].parent, InitPid}
      BY <1>3 DEF ExitDone
    <2>2. proc'[p].prog \notin Logs
      BY <1>2, <1>3 DEF ExitDone, Logs
    <2>3. \A q \in Pids : proc[q].prog = "signIn" => proc'[q].pc = proc[q].pc
                                                     /\ proc'[q].status = proc[q].status
      BY <1>2, <1>3, <1>4 DEF ExitDone
    <2> QED  BY <1>2, <1>3, <2>1, <2>2, <2>3 DEF LoginsSame, Logs
  <1>6. InitPid \in Pids
    BY LoginConstants
  <1>7. InitSame
    <2>1. CASE Told(p, InitPid)
      <3>1. proc'[InitPid].pc = "collected" /\ proc'[InitPid].whom = p
        BY <1>2, <1>3, <1>6, <2>1 DEF ExitDone
      <3>2. ~Collected(shellID)
        BY <1>4, <1>6, <2>1 DEF Collected
      <3>3. shellID # p
        BY <1>1, <1>2, <3>2 DEF LoginsFit, ReportRight
      <3> QED  BY <3>1, <3>2, <3>3 DEF InitSame
    <2>2. CASE ~Told(p, InitPid)
      BY <1>2, <1>3, <1>6, <2>2 DEF ExitDone, InitSame, Collected
    <2> QED  BY <2>1, <2>2
  <1>8. TheyGoFirst
    BY <1>1, <1>2, NobodyWaits DEF TheyGoFirst
  <1>9. LoginsFit'
    BY <1>1, <1>5, <1>7, <1>8, LoginsKept
  <1> QED  BY <1>3, <1>9, LoginPartsNext

-----------------------------------------------------------------------------
(* The theorems.                                                           *)

LEMMA LoginStarts ==
    ASSUME LoginInit
    PROVE  LoginInv
  <1> DEFINE x == Process("init", InitPid, "start", 0)
  <1>1. /\ proc = [p \in Pids |-> IF p = InitPid THEN x ELSE None]
        /\ cur = InitPid /\ ready = [i \in 1 .. 2 |-> <<>>]
        /\ readers = <<>> /\ input = <<>> /\ shown = <<>>
        /\ shellID = 0 /\ logonShell = TRUE
    BY DEF LoginInit
  <1>2. /\ x.prog = "init" /\ x.st = "ready" /\ x.parent = InitPid /\ x.pc = "start"
        /\ x.buf = <<>> /\ x.status = 0 /\ x.whom = 0
    BY DEF Process
  <1>3. x \in Records
    <2>1. <<>> \in Seq(Typeable) /\ 0 \in Users /\ <<>> \in Secrets /\ 0 \in Statuses
          /\ "init" \in Programs /\ "ready" \in States /\ "start" \in PCs
      BY EmptySeq DEF Users, Secrets, Statuses, Programs, States, PCs
    <2> QED  BY <2>1, LoginConstants DEF Process, Records
  <1> HIDE DEF x
  <1>5. RecordFits(x)
    BY <1>2, <1>3 DEF RecordFits, PlaceFits, StateFits, FieldsFit
  <1>6. RecordFits(None) /\ None.prog = "none" /\ None.st = "unused"
    BY NoneFits DEF None
  <1>7. InitPid \in Pids /\ proc[InitPid] = x /\ \A p \in Pids : p # InitPid => proc[p] = None
    BY <1>1, LoginConstants
  <1>8. ProcessesFit(proc)
    <2>1. proc \in [Pids -> Records]
      BY <1>1, <1>3, <1>6 DEF RecordFits
    <2> QED  BY <1>2, <1>5, <1>6, <1>7, <2>1 DEF ProcessesFit, Runs
  <1>9. RunFits(proc, ready, cur)
    <2>1. <<>> \in Seq(Pids) /\ IsInjective(<<>>) /\ ToSet(<<>>) = {}
      BY EmptySeq DEF IsInjective, ToSet
    <2>2. \A i \in 1 .. 2 : OnReady(proc, cur, i) = {}
      BY <1>1, <1>6, <1>7 DEF OnReady
    <2> QED  BY <1>1, <1>2, <1>7, <1>8, <2>1, <2>2, LoginConstants DEF RunFits, ReadyFits
  <1>10. ReadersFit
    <2>1. <<>> \in Seq(Pids) /\ IsInjective(<<>>) /\ ToSet(<<>>) = {}
      BY EmptySeq DEF IsInjective, ToSet
    <2>2. {p \in Pids : proc[p].st = "reading"} = {}
      BY <1>2, <1>6, <1>7
    <2>3. <<>> \in Seq(Typeable) /\ Len(<<>>) <= MaxAhead
      BY SMTT(30), LoginAssumption
    <2> QED  BY SMTT(30), <1>1, <2>1, <2>2, <2>3 DEF ReadersFit
  <1>11. \A p \in Pids : proc[p].prog \notin Logs
    BY <1>2, <1>6, <1>7 DEF Logs
  <1>12. LoginsFit
    <2>1. SignersKnown /\ ShellsKnown /\ ResultsRight
      BY <1>11 DEF SignersKnown, ShellsKnown, ResultsRight, Logs
    <2>2. ReportRight
      BY <1>1, <1>2, <1>7, LoginConstants DEF ReportRight, Collected
    <2> QED  BY <1>1, <2>1, <2>2 DEF LoginsFit, Statuses
  <1>13. LineFits
    BY <1>11 DEF LineFits, Sessions, Logs
  <1> QED  BY <1>9, <1>10, <1>12, <1>13, LoginParts

LEMMA NextKeepsLoginInv ==
    ASSUME LoginInv, [LoginNext]_loginVars
    PROVE  LoginInv'
  <1>1. CASE UNCHANGED loginVars
    BY <1>1 DEF loginVars, LoginInv, ProcessesFit, RecordFits, Runs, QueuesFit, ReadyFits, OnReady,
                ReadersFit, LoginsFit, SignersKnown, Signing, ShellsKnown, Known, Reported,
                HandedOver, Fresh, ResultsRight, IsShell, ReportRight, Collected, LineFits, Sessions
  <1>2. CASE Tick
    BY <1>2, TickStep
  <1>3. CASE Inits
    BY <1>3, InitStartsStep, InitCollectedStep, InitWaitStep DEF Inits
  <1>4. ASSUME NEW p \in Pids \ {InitPid}, Program(p)
        PROVE  LoginInv'
    <2>1. CASE Leaves(p)
      <3>1. p \in Pids /\ p # InitPid /\ cur = p /\ proc[p].pc = "exit"
        BY <2>1 DEF Leaves, At
      <3>2. PlaceFits(proc[p]) /\ StateFits(proc[p]) /\ proc[p].prog \in Programs
            /\ proc[p].st = "ready"
        BY <3>1, CurIs DEF Records
      <3>3. proc[p].prog \in {"signIn", "shell"}
        BY <3>1, <3>2 DEF PlaceFits, StateFits, Programs
      <3> QED  BY <2>1, <3>1, <3>3, SignInLeaves, ShellLeaves
    <2> QED  BY <1>4, <2>1, ShellWaits, ReadLnStep, SignInSleepsStep, SpawnShellStep,
                SpawnTestStep, ShellCollectedStep DEF Program
  <1>5. ASSUME NEW p \in Pids, Wake(p) \/ Fork(p) \/ TestExits(p)
        PROVE  LoginInv'
    BY <1>5, WakeStep, ForkStep, TestExitsStep
  <1>6. ASSUME NEW c \in Typeable, Type(c)
        PROVE  LoginInv'
    BY <1>6, TypeStep
  <1> QED  BY <1>1, <1>2, <1>3, <1>4, <1>5, <1>6 DEF LoginNext, Logins

-----------------------------------------------------------------------------
(* The login as a whole.                                                   *)

LEMMA LoginInvariance == FairSpec => []LoginInv
  <1>1. LoginInit => LoginInv
    BY LoginStarts
  <1>2. LoginInv /\ [LoginNext]_loginVars => LoginInv'
    BY NextKeepsLoginInv
  <1> QED  BY <1>1, <1>2, PTL DEF FairSpec

LEMMA TypesOfLogin ==
    ASSUME LoginInv
    PROVE  LoginTypes
  <1>1. ProcessesFit(proc) /\ ReadyFits(ready, proc, cur) /\ ReadersFit
    BY DEF LoginInv, QueuesFit
  <1>2. ASSUME NEW p \in Pids
        PROVE  /\ proc[p].prog \in Programs /\ proc[p].st \in States
               /\ proc[p].st \in {"unused", "zombie"} \/ Alive(proc[p].parent)
               /\ Len(proc[p].buf) < Length(proc[p].pc) - 1
    <2>1. proc[p] \in Records /\ FieldsFit(proc[p])
      BY <1>1 DEF ProcessesFit, RecordFits
    <2>2. proc[p].prog \in Programs /\ proc[p].st \in States
      BY <2>1 DEF Records
    <2>3. proc[p].st # "unused" => Alive(proc[p].parent)
      BY <1>1 DEF ProcessesFit, Runs, Alive
    <2>4. Len(<<>>) = 0 /\ 0 < Length(proc[p].pc) - 1
      BY EmptySeq, LoginConstants
    <2> QED  BY <2>1, <2>2, <2>3, <2>4 DEF FieldsFit
  <1>3. /\ ready \in [1 .. 2 -> Seq(Pids)]
        /\ ToSet(ready[1]) = OnReady(proc, cur, 1) /\ ToSet(ready[2]) = OnReady(proc, cur, 2)
    BY <1>1 DEF ReadyFits
  <1>4. OnReady(proc, cur, 1) \cup OnReady(proc, cur, 2)
            = {p \in Pids : proc[p].st = "ready"} \ {cur}
    BY DEF OnReady, Prio
  <1>5. cur \in Pids \cup {0} /\ shellID \in Pids \cup {0, EFailure, ENoProcs}
        /\ logonShell \in BOOLEAN
    BY DEF LoginInv, QueuesFit, LoginsFit, Statuses
  <1>6. ToSet(readers) = {p \in Pids : proc[p].st = "reading"} /\ Len(input) <= MaxAhead
    BY <1>1 DEF ReadersFit
  <1> QED  BY <1>2, <1>3, <1>4, <1>5, <1>6 DEF LoginTypes, Programs, States

(***************************************************************************)
(* At most one login goes on, and init knows it, is about to be told of    *)
(* it, or holds the result it has collected and not yet looked at;         *)
(* processes have parents that live, the queues hold exactly who waits on  *)
(* them, and a line stays shorter than the length that readLn is told: for *)
(* every number of processes, every such lengths, every /.shadow and every *)
(* order of characters, wake-ups and tests left behind.  Whether the buffer*)
(* is that long is another matter: LengthIsCapacity.                       *)
(***************************************************************************)
THEOREM LoginIsConsistent == FairSpec => []LoginConsistent
  <1>1. LoginInv => LoginConsistent
    BY TypesOfLogin, LoginTracked DEF LoginInv, LoginConsistent
  <1> QED  BY <1>1, LoginInvariance, PTL

(***************************************************************************)
(* The terminal shows, behind the prompt, the characters that readLn has   *)
(* kept and no others; of a password it shows nothing.                     *)
(***************************************************************************)
THEOREM LineIsShown == FairSpec => []ShownIsKept
  <1>1. LoginInv => ShownIsKept
    BY DEF LoginInv, LineFits, ShownIsKept
  <1> QED  BY <1>1, LoginInvariance, PTL
=============================================================================
