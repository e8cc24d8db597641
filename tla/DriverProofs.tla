---------------------------- MODULE DriverProofs ----------------------------
(***************************************************************************)
(* Proofs about the two drivers of devices that work by themselves.        *)
(*                                                                         *)
(* Serial I/O, for every size of its buffers, alphabet, length of a read   *)
(* or write and number of readers: pointers, counters and flags agree, no  *)
(* character is put in the UART too early, and the two buffers are the two *)
(* queues of SerialLine.                                                   *)
(*                                                                         *)
(* IDE, for every PCI bus, every set of drives and geometry, every file    *)
(* system on them and every sequence of operations and failures: a write   *)
(* changes the block it was asked for and no other, what was transferred   *)
(* without an error is right, and the table of file systems is.            *)
(***************************************************************************)
EXTENDS Sio, Disk, QueueLemmas, FiniteSetTheorems

-----------------------------------------------------------------------------
(* The serial I/O driver.                                                  *)


(* The input buffer is emptied before BUF_SIZE characters were stored since*)
(* it last was; else _inlast leaves it (StoredInBuffer).                   *)
ReadersKeepUp == MaxRun = BufSize

(* No write starts with a line feed and fills the buffer: the line feed    *)
(* that _sio_writec adds would go behind the end of it (LineFeedFollows).  *)
LineFeedsFit == LF \notin Text \/ MaxWrite < BufSize

(* Without line feeds the driver sends what it is given.                   *)
NoLineFeeds == LF \notin Text

-----------------------------------------------------------------------------
(* The inductive invariant.  It has three parts that need each other: a    *)
(* reader waits only for an empty buffer, _outlast is always wrapped, and a*)
(* transmitter that rests has been reset.                                  *)

TypesOK ==
    /\ inbuffer \in [0 .. BufSize -> Received \cup {NUL}]
    /\ inlast \in 0 .. BufSize /\ innext \in 0 .. BufSize /\ incount \in 0 .. BufSize
    /\ waiting \in 0 .. MaxWaiting /\ Len(got) \in 0 .. BufSize
    /\ outbuffer \in [0 .. BufSize -> Line]
    /\ outlast \in 0 .. BufSize - 1 /\ outnext \in 0 .. BufSize - 1
    /\ outcount \in 0 .. BufSize
    /\ sending \in BOOLEAN /\ tx_enabled \in BOOLEAN
    /\ busy \in BOOLEAN /\ out \in Line

InputAgrees ==
    /\ inlast = innext + incount
    /\ waiting > 0 => incount = 0

OutputAgrees ==
    /\ outlast = (outnext + outcount) % BufSize
    /\ ~sending => outcount = 0 /\ outnext = 0

IInv == TypesOK /\ InputAgrees /\ OutputAgrees /\ TransmitterArmed

-----------------------------------------------------------------------------
(* The operators of the output buffer.                                     *)

(* The loop of _sio_write takes what there is room for, and all of it if   *)
(* there is.                                                               *)
LEMMA FitsIs ==
    ASSUME TypesOK, NEW S, NEW s \in Seq(S)
    PROVE  /\ Fits(s) \in 0 .. BufSize - outcount
           /\ Fits(s) \in 0 .. Len(s)
           /\ Fits(s) < Len(s) => outcount + Fits(s) = BufSize
  <1>1. Len(s) \in Nat /\ outcount \in 0 .. BufSize /\ BufSize \in Nat
    BY SioAssumption, LenProperties DEF TypesOK
  <1>2. CASE outcount >= BufSize
    BY <1>1, <1>2 DEF Fits
  <1>3. CASE outcount < BufSize
    <2>1. Min({Len(s), BufSize - outcount}) =
             IF Len(s) <= BufSize - outcount THEN Len(s) ELSE BufSize - outcount
      BY <1>1, <1>3, MinOfTwo
    <2> QED  BY <1>1, <1>3, <2>1 DEF Fits
  <1> QED  BY <1>1, <1>2, <1>3

(* Each character gets a cell of its own, and every other cell is left as  *)
(* it was; _outlast is then the next free cell.                            *)
LEMMA PutIs ==
    ASSUME TypesOK, NEW S, NEW s \in Seq(S)
    PROVE  /\ \A k \in 1 .. Fits(s) : Put(s)[(outlast + k - 1) % BufSize] = s[k]
           /\ \A i \in 0 .. BufSize :
                 (\A k \in 1 .. Fits(s) : (outlast + k - 1) % BufSize # i)
                    => Put(s)[i] = outbuffer[i]
           /\ LastAfter(s) = (outlast + Fits(s)) % BufSize
  <1>1. /\ BufSize \in Nat \ {0} /\ outlast \in 0 .. BufSize - 1
        /\ outcount \in 0 .. BufSize
    BY SioAssumption DEF TypesOK
  <1>2. Fits(s) \in 0 .. BufSize /\ Fits(s) \in Nat
    BY <1>1, FitsIs
  <1> DEFINE n == Fits(s)
  <1>3. \A k \in 1 .. n : OutCell(k) = (outlast + (k - 1)) % BufSize
    BY <1>1, <1>2 DEF OutCell
  <1>4. \A k \in 1 .. n : OutCell(k) \in 0 .. BufSize - 1
    <2> SUFFICES ASSUME NEW k \in 1 .. n PROVE OutCell(k) \in 0 .. BufSize - 1
      OBVIOUS
    <2>1. k - 1 \in 0 .. BufSize
      BY <1>1, <1>2
    <2> QED  BY <1>1, <1>3, <2>1, RingStep
  <1>5. \A j, k \in 1 .. n : OutCell(j) = OutCell(k) => j = k
    <2> SUFFICES ASSUME NEW j \in 1 .. n, NEW k \in 1 .. n, j # k
                 PROVE  OutCell(j) # OutCell(k)
      OBVIOUS
    <2>1. j - 1 \in 0 .. BufSize - 1 /\ k - 1 \in 0 .. BufSize - 1 /\ j - 1 # k - 1
      BY <1>1, <1>2
    <2> QED  BY <1>1, <1>3, <2>1, RingCells
  <1> HIDE DEF n
  <1>6. ASSUME NEW k \in 1 .. n
        PROVE  Put(s)[OutCell(k)] = s[k]
    <2>1. (CHOOSE j \in 1 .. n : OutCell(j) = OutCell(k)) = k
      BY <1>5
    <2>2. OutCell(k) \in 0 .. BufSize
      BY <1>1, <1>4
    <2> QED  BY <2>1, <2>2 DEF Put, n
  <1>7. ASSUME NEW i \in 0 .. BufSize, \A k \in 1 .. n : OutCell(k) # i
        PROVE  Put(s)[i] = outbuffer[i]
    BY <1>7 DEF Put, n
  <1>8. LastAfter(s) = (outlast + n) % BufSize
    <2>1. CASE n = 0
      <3>1. outlast % BufSize = outlast
        BY <1>1
      <3> QED  BY <1>1, <2>1, <3>1 DEF LastAfter, n
    <2>2. CASE n # 0
      <3>1. n \in 1 .. n /\ n - 1 \in 0 .. BufSize /\ (n - 1) + 1 <= BufSize
        BY <1>1, <1>2, <2>2 DEF n
      <3>2. (((outlast + (n - 1)) % BufSize) + 1) % BufSize
               = (outlast + ((n - 1) + 1)) % BufSize
        BY <1>1, <3>1, RingSum
      <3>3. (n - 1) + 1 = n
        BY <3>1
      <3> DEFINE x == OutCell(n)
      <3>4. x \in 0 .. BufSize - 1 /\ (x + 1) % BufSize = (outlast + n) % BufSize
        BY <1>3, <1>4, <3>1, <3>2, <3>3
      <3>5. LastAfter(s) = IF x + 1 >= BufSize THEN 0 ELSE x + 1
        BY <2>2 DEF LastAfter, n
      <3> HIDE DEF x
      <3>6. (x + 1) % BufSize = IF x + 1 >= BufSize THEN 0 ELSE x + 1
        BY <1>1, <3>4
      <3> QED  BY <3>4, <3>5, <3>6
    <2> QED  BY <2>1, <2>2
  <1>9. \A k \in 1 .. n : (outlast + k - 1) % BufSize = OutCell(k)
    BY <1>1, <1>2, <1>3 DEF n
  <1> QED  BY <1>6, <1>7, <1>8, <1>9 DEF n

(* What a write puts in the buffer are characters of a line.               *)
LEMMA PutType ==
    ASSUME TypesOK, NEW s \in Seq(Line)
    PROVE  Put(s) \in [0 .. BufSize -> Line]
  <1>1. \A i \in 0 .. BufSize :
           \/ Put(s)[i] = outbuffer[i]
           \/ \E k \in 1 .. Fits(s) : Put(s)[i] = s[k]
    BY PutIs
  <1>2. \A k \in 1 .. Fits(s) : s[k] \in Line
    <2>1. Fits(s) \in 0 .. Len(s) /\ Len(s) \in Nat
      BY FitsIs, LenProperties
    <2> QED  BY <2>1, LenProperties
  <1>3. \A i \in 0 .. BufSize : outbuffer[i] \in Line
    BY DEF TypesOK
  <1>4. \A i \in 0 .. BufSize : Put(s)[i] \in Line
    BY <1>1, <1>2, <1>3
  <1>5. Put(s) = [i \in 0 .. BufSize |-> Put(s)[i]]
    BY DEF Put
  <1> QED  BY <1>4, <1>5

-----------------------------------------------------------------------------
(* What each operation does to the part of the invariant it can disturb.   *)

(* What a program writes, and what is left of it behind its first          *)
(* character, are characters of a line.                                    *)
LEMMA StringsAre ==
    ASSUME NEW s \in Strings
    PROVE  /\ s \in Seq(Text) /\ s \in Seq(Line)
           /\ Len(s) \in 1 .. MaxWrite
           /\ Head(s) \in Text /\ Head(s) = s[1]
           /\ Tail(s) \in Seq(Line)
           /\ Len(Tail(s)) = Len(s) - 1
           /\ \A k \in 1 .. Len(s) - 1 : Tail(s)[k] = s[k + 1]
  <1>1. PICK n \in 1 .. MaxWrite : s \in [1 .. n -> Text]
    BY DEF Strings
  <1>2. n \in Nat /\ MaxWrite \in Nat
    BY SioAssumption
  <1>3. s \in Seq(Text) /\ s \in Seq(Line)
    <2>1. s \in [1 .. n -> Line]
      BY <1>1 DEF Line
    <2> QED  BY <1>1, <1>2, <2>1, SeqDef
  <1>4. Len(s) = n
    BY <1>1, <1>2, <1>3, LenProperties
  <1>5. s # <<>>
    BY <1>2, <1>3, <1>4, EmptySeq
  <1>6. /\ Head(s) \in Text /\ Head(s) = s[1]
        /\ Tail(s) \in Seq(Line)
        /\ Len(Tail(s)) = Len(s) - 1
        /\ \A k \in 1 .. Len(Tail(s)) : Tail(s)[k] = s[k + 1]
    BY <1>3, <1>5, HeadTailProperties
  <1> QED  BY <1>3, <1>4, <1>6

LEMMA InitIsArmed == Init => TransmitterArmed
  <1> SUFFICES ASSUME Init PROVE TransmitterArmed
    OBVIOUS
  <1>1. sending = tx_enabled /\ ~busy
    BY Zenon DEF Init
  <1>2. ~(outcount > 0)
    BY DEF Init
  <1> QED  BY <1>1, <1>2 DEF TransmitterArmed

LEMMA InitIsOK ==
    ASSUME ReadersKeepUp
    PROVE  Init => IInv
  <1> SUFFICES ASSUME Init PROVE IInv
    OBVIOUS
  <1>1. BufSize \in Nat \ {0} /\ MaxWaiting \in Nat
    BY SioAssumption
  <1>2. TypesOK
    BY <1>1 DEF Init, TypesOK, ReadersKeepUp, Received, Line
  <1>3. InputAgrees /\ OutputAgrees
    BY <1>1 DEF Init, InputAgrees, OutputAgrees
  <1> QED  BY <1>2, <1>3, InitIsArmed DEF IInv

(* A character received goes to a reader only from an empty buffer.        *)
LEMMA ReceiveKeeps ==
    ASSUME ReadersKeepUp, IInv, NEW c \in Keys, Receive(c)
    PROVE  IInv'
  <1>1. BufSize \in Nat \ {0} /\ MaxWaiting \in Nat
    BY SioAssumption
  <1>2. Mapped(c) \in Received
    BY DEF Mapped, Received
  <1>3. UNCHANGED <<innext, outVars, uartVars>>
    BY DEF Receive
  <1>4. CASE waiting > 0 /\ waiting' = waiting - 1 /\ got' = <<Mapped(c)>>
             /\ UNCHANGED <<inbuffer, inlast, incount>>
    <2>1. Len(got') = 1
      BY <1>4
    <2> QED  BY <1>1, <1>3, <1>4, <2>1
             DEF IInv, TypesOK, InputAgrees, OutputAgrees, TransmitterArmed, outVars, uartVars
  <1>5. CASE /\ waiting = 0 /\ Room /\ inlast < MaxRun
             /\ inbuffer' = [inbuffer EXCEPT ![inlast] = Mapped(c)]
             /\ inlast' = inlast + 1 /\ incount' = incount + 1
             /\ UNCHANGED <<waiting, got>>
    <2>1. inbuffer' \in [0 .. BufSize -> Received \cup {NUL}]
      BY <1>2, <1>5 DEF IInv, TypesOK
    <2>2. InputAgrees' /\ inlast' \in 0 .. BufSize /\ incount' \in 0 .. BufSize
      BY <1>1, <1>3, <1>5 DEF IInv, TypesOK, InputAgrees, ReadersKeepUp, Room
    <2> QED  BY <1>3, <1>5, <2>1, <2>2
             DEF IInv, TypesOK, OutputAgrees, TransmitterArmed, outVars, uartVars
  <1>6. CASE UNCHANGED <<inbuffer, inlast, incount, waiting, got>>
    BY <1>3, <1>6
       DEF IInv, TypesOK, InputAgrees, OutputAgrees, TransmitterArmed, outVars, uartVars
  <1> QED  BY <1>4, <1>5, <1>6 DEF Receive

(* A reader gets the oldest characters, from cells that do not wrap, or    *)
(* waits when there is none.                                               *)
LEMMA ReadKeeps ==
    ASSUME ReadersKeepUp, IInv, NEW length \in Lengths, Read(length)
    PROVE  IInv'
  <1>1. BufSize \in Nat \ {0} /\ MaxWaiting \in Nat /\ length \in Nat \ {0}
    BY SioAssumption
  <1>2. UNCHANGED <<outVars, uartVars>>
    BY DEF Read
  <1>3. CASE Reads(length)
    <2> DEFINE copied == IF length < incount THEN length ELSE incount
    <2>1. /\ copied \in 1 .. incount /\ incount \in 1 .. BufSize
          /\ innext + copied \in 0 .. BufSize
      BY <1>1, <1>3 DEF IInv, TypesOK, InputAgrees, Reads
    <2>2. Len(got') = copied
      BY <1>3, <2>1 DEF Reads
    <2>3. (innext + copied) % (BufSize + 1) = innext + copied
      BY <1>1, <2>1
    <2>4. /\ incount' = incount - copied
          /\ copied = incount => innext' = 0 /\ inlast' = 0
          /\ copied # incount =>
                innext' = (innext + copied) % (BufSize + 1) /\ inlast' = inlast
          /\ UNCHANGED <<inbuffer, waiting>>
      BY <1>3 DEF Reads
    <2> HIDE DEF copied
    <2> QED  BY <1>1, <1>2, <2>1, <2>2, <2>3, <2>4
             DEF IInv, TypesOK, InputAgrees, OutputAgrees, TransmitterArmed, outVars, uartVars
  <1>4. CASE /\ incount = 0 /\ waiting < MaxWaiting /\ waiting' = waiting + 1
             /\ UNCHANGED <<inbuffer, inlast, innext, incount, got>>
    BY <1>1, <1>2, <1>4
       DEF IInv, TypesOK, InputAgrees, OutputAgrees, TransmitterArmed, outVars, uartVars
  <1> QED  BY <1>3, <1>4 DEF Read

(* What is written is behind what waits.                                   *)
LEMMA PutAgrees ==
    ASSUME IInv, NEW s \in Seq(Line)
    PROVE  /\ LastAfter(s) = (outnext + (outcount + Fits(s))) % BufSize
           /\ LastAfter(s) \in 0 .. BufSize - 1
           /\ outcount + Fits(s) \in 0 .. BufSize
  <1>1. /\ BufSize \in Nat \ {0} /\ outnext \in 0 .. BufSize - 1
        /\ outcount \in 0 .. BufSize /\ TypesOK
        /\ outlast = (outnext + outcount) % BufSize
    BY SioAssumption DEF IInv, TypesOK, OutputAgrees
  <1>2. Fits(s) \in 0 .. BufSize - outcount
    BY <1>1, FitsIs
  <1>3. Fits(s) \in 0 .. BufSize /\ outcount + Fits(s) \in 0 .. BufSize
    BY <1>1, <1>2
  <1>4. LastAfter(s) = (((outnext + outcount) % BufSize) + Fits(s)) % BufSize
    BY <1>1, PutIs
  <1>5. LastAfter(s) = (outnext + (outcount + Fits(s))) % BufSize
    <2>1. outcount + Fits(s) <= BufSize
      BY <1>1, <1>3
    <2>2. (((outnext + outcount) % BufSize) + Fits(s)) % BufSize
             = (outnext + (outcount + Fits(s))) % BufSize
      BY <1>1, <1>3, <2>1, RingSum
    <2> QED  BY <1>4, <2>2
  <1>6. (outnext + (outcount + Fits(s))) % BufSize \in 0 .. BufSize - 1
    BY <1>1, <1>3, RingStep
  <1> QED  BY <1>3, <1>5, <1>6

(* A write to an idle line starts the transmitter on an empty buffer; a    *)
(* line feed that is sent after its carriage return finds a free cell.     *)
LEMMA WriteKeeps ==
    ASSUME LineFeedsFit, IInv, NEW s \in Strings, Write(s)
    PROVE  IInv'
  <1>1. BufSize \in Nat \ {0} /\ MaxWrite \in Nat
    BY SioAssumption
  <1>2. UNCHANGED <<outnext, inVars>>
    BY DEF Write
  <1>3. CASE ~sending /\ Start(Head(s), Tail(s))
    <2> DEFINE rest == Tail(s)
               n    == Fits(rest)
    <2>1. /\ Head(s) \in Text /\ rest \in Seq(Line)
          /\ Len(rest) = Len(s) - 1 /\ Len(s) \in 1 .. MaxWrite
      BY StringsAre
    <2>2. outcount = 0 /\ outnext = 0 /\ TypesOK
      BY <1>3 DEF IInv, OutputAgrees
    <2>3. n \in 0 .. BufSize /\ n \in 0 .. Len(rest)
      <3>1. n \in 0 .. BufSize - outcount /\ n \in 0 .. Len(rest)
        BY <2>1, <2>2, FitsIs
      <3> QED  BY <1>1, <2>2, <3>1
    <2>4. /\ LastAfter(rest) = (0 + (0 + n)) % BufSize
          /\ LastAfter(rest) \in 0 .. BufSize - 1
      BY <2>1, <2>2, PutAgrees
    <2>5. Put(rest) \in [0 .. BufSize -> Line]
      BY <2>1, <2>2, PutType
    <2>6. busy' = TRUE /\ sending' = TRUE /\ tx_enabled' = TRUE
      BY <1>3 DEF Start
    <2> HIDE DEF rest, n
    <2>7. CASE Head(s) = LF
      <3>1. /\ out' = CR
            /\ outbuffer' = [Put(rest) EXCEPT ![LastAfter(rest)] = LF]
            /\ outlast' = LastAfter(rest) + 1
            /\ outcount' = outcount + n + 1
        BY <1>3, <2>7 DEF Start, rest, n
      <3>2. MaxWrite < BufSize /\ LF \in Line /\ CR \in Line
        BY <2>1, <2>7 DEF LineFeedsFit, Line
      <3>3. n + 1 < BufSize
        BY <1>1, <2>1, <2>3, <3>2
      <3>4. LastAfter(rest) = n
        BY <1>1, <2>3, <2>4, <3>3
      <3>5. outbuffer' \in [0 .. BufSize -> Line]
        BY <2>5, <3>1, <3>2
      <3>6. (0 + (n + 1)) % BufSize = n + 1
        BY <1>1, <2>3, <3>3
      <3>7. OutputAgrees' /\ outlast' \in 0 .. BufSize - 1 /\ outcount' \in 0 .. BufSize
        BY <1>1, <1>2, <2>2, <2>3, <2>6, <3>1, <3>3, <3>4, <3>6 DEF OutputAgrees
      <3> QED  BY <1>2, <2>2, <2>6, <3>1, <3>2, <3>5, <3>7
               DEF IInv, TypesOK, InputAgrees, TransmitterArmed, inVars
    <2>8. CASE Head(s) # LF
      <3>1. /\ out' = Head(s) /\ outbuffer' = Put(rest)
            /\ outlast' = LastAfter(rest) /\ outcount' = outcount + n
        BY <1>3, <2>8 DEF Start, rest, n
      <3>2. OutputAgrees' /\ outlast' \in 0 .. BufSize - 1 /\ outcount' \in 0 .. BufSize
        BY <1>1, <1>2, <2>2, <2>3, <2>4, <2>6, <3>1 DEF OutputAgrees
      <3>3. out' \in Line
        BY <2>1, <3>1 DEF Line
      <3> QED  BY <1>2, <2>2, <2>5, <2>6, <3>1, <3>2, <3>3
               DEF IInv, TypesOK, InputAgrees, TransmitterArmed, inVars
    <2> QED  BY <2>7, <2>8
  <1>4. CASE /\ sending
             /\ outbuffer' = Put(s)
             /\ outlast' = LastAfter(s)
             /\ outcount' = outcount + Fits(s)
             /\ UNCHANGED <<sending, tx_enabled, uartVars>>
    <2>1. s \in Seq(Line) /\ TypesOK
      BY StringsAre DEF IInv
    <2>2. OutputAgrees' /\ outlast' \in 0 .. BufSize - 1 /\ outcount' \in 0 .. BufSize
      BY <1>2, <1>4, <2>1, PutAgrees DEF IInv, OutputAgrees
    <2>3. Put(s) \in [0 .. BufSize -> Line]
      BY <2>1, PutType
    <2> QED  BY <1>2, <1>4, <2>2, <2>3
             DEF IInv, TypesOK, InputAgrees, TransmitterArmed, inVars, uartVars
  <1> QED  BY <1>3, <1>4 DEF Write

(* The transmitter is stopped only when nothing is left, and reset then.   *)
LEMMA TransmitKeeps ==
    ASSUME IInv, Transmit
    PROVE  IInv'
  <1>1. /\ BufSize \in Nat \ {0} /\ outnext \in 0 .. BufSize - 1
        /\ outcount \in 0 .. BufSize /\ outlast = (outnext + outcount) % BufSize
    BY SioAssumption DEF IInv, TypesOK, OutputAgrees
  <1>2. UNCHANGED inVars /\ ~busy
    BY DEF Transmit
  <1>3. CASE /\ sending /\ outcount > 0
             /\ out' = outbuffer[outnext]
             /\ busy' = TRUE
             /\ outnext' = (outnext + 1) % BufSize
             /\ outcount' = outcount - 1
             /\ UNCHANGED <<outbuffer, outlast, sending, tx_enabled>>
    <2>1. outnext' \in 0 .. BufSize - 1
      BY <1>1, <1>3, RingStep
    <2>2. /\ 1 \in 0 .. BufSize /\ outcount - 1 \in 0 .. BufSize
          /\ 1 + (outcount - 1) = outcount /\ 1 + (outcount - 1) <= BufSize
      BY <1>1, <1>3
    <2>3. (((outnext + 1) % BufSize) + (outcount - 1)) % BufSize
             = (outnext + (1 + (outcount - 1))) % BufSize
      BY <1>1, <2>2, RingSum
    <2>4. outlast' = (outnext' + outcount') % BufSize
      BY <1>1, <1>3, <2>2, <2>3
    <2>5. out' \in Line
      BY <1>1, <1>3 DEF IInv, TypesOK
    <2> QED  BY <1>1, <1>2, <1>3, <2>1, <2>2, <2>4, <2>5
             DEF IInv, TypesOK, InputAgrees, OutputAgrees, TransmitterArmed, inVars
  <1>4. CASE /\ ~(sending /\ outcount > 0)
             /\ outcount' = 0 /\ outlast' = 0 /\ outnext' = 0
             /\ sending' = FALSE
             /\ tx_enabled' = FALSE
             /\ UNCHANGED <<outbuffer, uartVars>>
    <2>1. 0 = (0 + 0) % BufSize
      BY <1>1
    <2> QED  BY SMTT(30), <1>1, <1>2, <1>4, <2>1
             DEF IInv, TypesOK, InputAgrees, OutputAgrees, TransmitterArmed, inVars, uartVars
  <1> QED  BY <1>3, <1>4 DEF Transmit

LEMMA NextKeepsIInv ==
    ASSUME ReadersKeepUp, LineFeedsFit, IInv, [Next]_vars
    PROVE  IInv'
  <1>1. CASE Shifted
    BY <1>1 DEF Shifted, IInv, TypesOK, InputAgrees, OutputAgrees, TransmitterArmed,
                inVars, outVars
  <1>2. CASE UNCHANGED vars
    BY <1>2 DEF IInv, TypesOK, InputAgrees, OutputAgrees, TransmitterArmed,
                vars, inVars, outVars, uartVars
  <1> QED  BY <1>1, <1>2, ReceiveKeeps, ReadKeeps, WriteKeeps, TransmitKeeps DEF Next

LEMMA Invariance ==
    ASSUME ReadersKeepUp, LineFeedsFit
    PROVE  Spec => []IInv
  <1> QED  BY InitIsOK, NextKeepsIInv, PTL DEF Spec

-----------------------------------------------------------------------------
(* The theorems.                                                           *)

(* Between any two interrupts, reads and writes the pointers, counters and *)
(* flags of both buffers agree, and the transmitter is armed exactly while *)
(* there is output: no write leaves characters behind that wait for an     *)
(* interrupt that does not come.                                           *)
THEOREM DriverAgrees ==
    ASSUME ReadersKeepUp, LineFeedsFit
    PROVE  Spec => []DriverConsistent
  <1>1. IInv => DriverConsistent
    <2> SUFFICES ASSUME IInv PROVE DriverConsistent
      OBVIOUS
    <2>1. BufSize \in Nat \ {0}
      BY SioAssumption
    <2>2. TypeOK
      BY <2>1 DEF IInv, TypesOK, TypeOK, ReadersKeepUp
    <2>3. RingsAgree
      BY <2>1 DEF IInv, TypesOK, InputAgrees, OutputAgrees, RingsAgree
    <2> QED  BY <2>2, <2>3 DEF IInv, DriverConsistent
  <1> QED  BY Invariance, <1>1, PTL

(* No character is put in the UART before the last one has left it: a      *)
(* write finds the transmitter busy, and waits for its interrupt.  This    *)
(* holds for any readers and any text.                                     *)
THEOREM UartNotOverrun == Spec => NoOverrun
  <1>1. ASSUME TransmitterArmed, [Next]_vars
        PROVE  TransmitterArmed' /\ (busy => UNCHANGED out)
    <2>1. ASSUME NEW s \in Strings, Write(s)
          PROVE  TransmitterArmed' /\ (busy => UNCHANGED out)
      <3>1. CASE ~sending /\ Start(Head(s), Tail(s))
        BY <1>1, <3>1 DEF TransmitterArmed, Start
      <3>2. CASE sending /\ UNCHANGED <<sending, tx_enabled, uartVars>>
        BY <1>1, <3>2 DEF TransmitterArmed, uartVars
      <3> QED  BY <2>1, <3>1, <3>2 DEF Write
    <2>2. CASE Transmit
      <3>1. CASE /\ sending
                 /\ busy' = TRUE
                 /\ UNCHANGED <<sending, tx_enabled>>
        BY <1>1, <2>2, <3>1 DEF TransmitterArmed, Transmit
      <3>2. CASE /\ outcount' = 0
                 /\ sending' = FALSE
                 /\ tx_enabled' = FALSE
                 /\ UNCHANGED uartVars
        <4>1. sending' = tx_enabled' /\ ~busy'
          BY <2>2, <3>2, Zenon DEF Transmit, uartVars
        <4>2. ~(outcount' > 0)
          BY <3>2
        <4> QED  BY <2>2, <4>1, <4>2 DEF TransmitterArmed, Transmit
      <3> QED  BY <2>2, <3>1, <3>2 DEF Transmit
    <2>3. CASE Shifted
      BY <1>1, <2>3 DEF TransmitterArmed, Shifted, outVars
    <2>4. CASE UNCHANGED <<outVars, uartVars>>
      BY <1>1, <2>4 DEF TransmitterArmed, outVars, uartVars
    <2>5. \A c : Receive(c) => UNCHANGED <<outVars, uartVars>>
      BY DEF Receive
    <2>6. \A length : Read(length) => UNCHANGED <<outVars, uartVars>>
      BY DEF Read
    <2>7. UNCHANGED vars => UNCHANGED <<outVars, uartVars>>
      BY DEF vars
    <2> QED  BY <1>1, <2>1, <2>2, <2>3, <2>4, <2>5, <2>6, <2>7 DEF Next
  <1> QED  BY InitIsArmed, <1>1, PTL DEF Spec, NoOverrun

-----------------------------------------------------------------------------
(* The refinement: each buffer read from its next position on, as far as   *)
(* it is filled, is a queue of the line.                                   *)

CellsIn(b, n, S) == \A i \in 0 .. n - 1 : b[i] \in S

WindowIs(w, b, from, count, n) ==
    /\ Len(w) = count
    /\ \A k \in 1 .. count : w[k] = b[(from + (k - 1)) % n]

LEMMA WindowCells ==
    ASSUME NEW n, NEW from \in Int, NEW count \in Nat, NEW b
    PROVE  WindowIs(Window(b, from, count, n), b, from, count, n)
  <1> DEFINE w == Window(b, from, count, n)
             S == {w[k] : k \in 1 .. count}
  <1>1. w = [k \in 1 .. count |-> b[(from + k - 1) % n]]
    BY DEF Window
  <1>2. \A k \in 1 .. count : from + k - 1 = from + (k - 1)
    OBVIOUS
  <1>3. w \in [1 .. count -> S]
    BY <1>1
  <1> HIDE DEF S
  <1>4. Len(w) = count
    <2>1. w \in Seq(S)
      BY <1>3, SeqDef
    <2>2. DOMAIN w = 1 .. count /\ DOMAIN w = 1 .. Len(w) /\ Len(w) \in Nat
      BY <1>3, <2>1, LenProperties
    <2> QED  BY <2>2
  <1> QED  BY <1>1, <1>2, <1>4 DEF WindowIs

LEMMA WindowType ==
    ASSUME NEW S, NEW n \in Nat \ {0}, NEW from \in 0 .. n - 1,
           NEW count \in 0 .. n, NEW b, CellsIn(b, n, S)
    PROVE  Window(b, from, count, n) \in Seq(S)
  <1>1. \A k \in 1 .. count : (from + (k - 1)) % n \in 0 .. n - 1
    <2> SUFFICES ASSUME NEW k \in 1 .. count
                 PROVE  (from + (k - 1)) % n \in 0 .. n - 1
      OBVIOUS
    <2>1. k - 1 \in 0 .. n
      OBVIOUS
    <2> QED  BY <2>1, RingStep
  <1>2. \A k \in 1 .. count : from + k - 1 = from + (k - 1)
    OBVIOUS
  <1>3. Window(b, from, count, n) \in [1 .. count -> S]
    BY <1>1, <1>2 DEF Window, CellsIn
  <1> QED  BY <1>3, SeqDef

(* Without its first cell it is the window from the next cell on.          *)
LEMMA WindowMoves ==
    ASSUME NEW n \in Nat \ {0}, NEW from \in 0 .. n - 1,
           NEW count \in 1 .. n, NEW b
    PROVE  /\ Window(b, from, count, n) # <<>>
           /\ Head(Window(b, from, count, n)) = b[from]
           /\ Tail(Window(b, from, count, n))
                 = Window(b, (from + 1) % n, count - 1, n)
  <1> DEFINE w == Window(b, from, count, n)
             v == Window(b, (from + 1) % n, count - 1, n)
             S == {b[i] : i \in 0 .. n - 1}
  <1>0. CellsIn(b, n, S)
    BY DEF CellsIn
  <1> HIDE DEF S
  <1>1. /\ w \in Seq(S) /\ Len(w) = count
        /\ \A k \in 1 .. count : w[k] = b[(from + (k - 1)) % n]
    <2>1. count \in 0 .. n /\ count \in Nat /\ from \in Int
      OBVIOUS
    <2>2. w \in Seq(S)
      BY <1>0, <2>1, WindowType
    <2>3. WindowIs(w, b, from, count, n)
      BY <2>1, WindowCells
    <2> QED  BY <2>2, <2>3 DEF WindowIs
  <1>2. 1 \in 0 .. n /\ count - 1 \in 0 .. n
    OBVIOUS
  <1>3. (from + 1) % n \in 0 .. n - 1
    BY <1>2, RingStep
  <1>4. /\ v \in Seq(S) /\ Len(v) = count - 1
        /\ \A k \in 1 .. count - 1 : v[k] = b[(((from + 1) % n) + (k - 1)) % n]
    <2>1. count - 1 \in Nat /\ (from + 1) % n \in Int
      BY <1>3
    <2>2. v \in Seq(S)
      BY <1>0, <1>2, <1>3, <2>1, WindowType
    <2>3. WindowIs(v, b, (from + 1) % n, count - 1, n)
      BY <2>1, WindowCells
    <2> QED  BY <2>2, <2>3 DEF WindowIs
  <1> HIDE DEF w, v
  <1>5. w # <<>>
    BY <1>1, EmptySeq
  <1>6. Head(w) = b[from]
    <2>1. Head(w) = w[1] /\ 1 \in 1 .. count
      BY <1>1, <1>5
    <2>2. (from + (1 - 1)) % n = from
      OBVIOUS
    <2> QED  BY <1>1, <2>1, <2>2
  <1>7. /\ Tail(w) \in Seq(S) /\ Len(Tail(w)) = count - 1
        /\ \A k \in 1 .. count - 1 : Tail(w)[k] = w[k + 1]
    BY <1>1, <1>5, HeadTailProperties
  <1>8. ASSUME NEW k \in 1 .. count - 1
        PROVE  Tail(w)[k] = v[k]
    <2>1. /\ k - 1 \in 0 .. n /\ 1 + (k - 1) <= n
          /\ k + 1 \in 1 .. count /\ (k + 1) - 1 = 1 + (k - 1)
      OBVIOUS
    <2>2. (((from + 1) % n) + (k - 1)) % n = (from + (1 + (k - 1))) % n
      BY <1>2, <2>1, RingSum
    <2>3. w[k + 1] = b[(from + (1 + (k - 1))) % n]
      BY <1>1, <2>1
    <2> QED  BY <1>4, <1>7, <2>2, <2>3
  <1>9. Tail(w) = v
    BY <1>4, <1>7, <1>8, SeqEqual
  <1> QED  BY <1>5, <1>6, <1>9 DEF w, v

SameCells(c, b, from, count, n) ==
    \A k \in 1 .. count : c[(from + (k - 1)) % n] = b[(from + (k - 1)) % n]

FilledWith(c, t, from, count, m, n) ==
    \A k \in 1 .. m : c[(from + (count + (k - 1))) % n] = t[k]

(* A buffer that is filled on behind its window holds that much more.      *)
LEMMA WindowGrows ==
    ASSUME NEW S, NEW n \in Nat \ {0}, NEW from \in 0 .. n - 1,
           NEW count \in 0 .. n, NEW m \in 0 .. n - count,
           NEW b, CellsIn(b, n, S), NEW c, CellsIn(c, n, S),
           NEW t \in Seq(S), m <= Len(t),
           SameCells(c, b, from, count, n), FilledWith(c, t, from, count, m, n)
    PROVE  Window(c, from, count + m, n) = Window(b, from, count, n) \o SubSeq(t, 1, m)
  <1> DEFINE w == Window(b, from, count, n)
             v == Window(c, from, count + m, n)
             u == SubSeq(t, 1, m)
  <1>1. /\ w \in Seq(S) /\ Len(w) = count
        /\ \A k \in 1 .. count : w[k] = b[(from + (k - 1)) % n]
    <2>1. count \in Nat /\ from \in Int
      OBVIOUS
    <2>2. w \in Seq(S)
      BY <2>1, WindowType
    <2>3. WindowIs(w, b, from, count, n)
      BY <2>1, WindowCells
    <2> QED  BY <2>2, <2>3 DEF WindowIs
  <1>2. count + m \in 0 .. n
    OBVIOUS
  <1>3. /\ v \in Seq(S) /\ Len(v) = count + m
        /\ \A k \in 1 .. count + m : v[k] = c[(from + (k - 1)) % n]
    <2>1. count + m \in Nat /\ from \in Int
      OBVIOUS
    <2>2. v \in Seq(S)
      BY <1>2, <2>1, WindowType
    <2>3. WindowIs(v, c, from, count + m, n)
      BY <2>1, WindowCells
    <2> QED  BY <2>2, <2>3 DEF WindowIs
  <1>4. u \in Seq(S) /\ Len(u) = m /\ \A k \in 1 .. m : u[k] = t[k]
    <2>1. Len(t) \in Nat /\ \A i \in 1 .. m : t[i] \in S
      BY LenProperties
    <2> QED  BY <2>1, SubSeqProperties
  <1> HIDE DEF w, v, u
  <1>5. /\ w \o u \in Seq(S) /\ Len(w \o u) = count + m
        /\ \A k \in 1 .. count + m :
              (w \o u)[k] = IF k <= count THEN w[k] ELSE u[k - count]
    <2>1. /\ w \o u \in Seq(S) /\ Len(w \o u) = Len(w) + Len(u)
          /\ \A k \in 1 .. Len(w) + Len(u) :
                (w \o u)[k] = IF k <= Len(w) THEN w[k] ELSE u[k - Len(w)]
      BY Zenon, <1>1, <1>4, ConcatProperties
    <2> QED  BY <1>1, <1>4, <2>1
  <1>6. ASSUME NEW k \in 1 .. count + m
        PROVE  v[k] = (w \o u)[k]
    <2>1. CASE k \in 1 .. count
      <3>1. k \in 1 .. count /\ v[k] = c[(from + (k - 1)) % n]
        BY <1>3, <2>1
      <3>2. (w \o u)[k] = w[k]
        BY <1>5, <2>1
      <3> QED  BY <1>1, <3>1, <3>2 DEF SameCells
    <2>2. CASE k \notin 1 .. count
      <3>1. /\ k - count \in 1 .. m
            /\ count + ((k - count) - 1) = k - 1
        BY <2>2
      <3>2. c[(from + (k - 1)) % n] = t[k - count]
        BY <3>1 DEF FilledWith
      <3>3. (w \o u)[k] = u[k - count]
        BY SMTT(30), <1>5, <2>2
      <3> QED  BY <1>3, <1>4, <3>1, <3>2, <3>3
    <2> QED  BY <2>1, <2>2
  <1> QED  BY <1>3, <1>5, <1>6, SeqEqual DEF w, v, u

LEMMA WindowNone ==
    ASSUME NEW n, NEW from, NEW b
    PROVE  Window(b, from, 0, n) = <<>>
  BY DEF Window

(* The two queues.                                                         *)
Typed   == Window(inbuffer, innext, incount, BufSize + 1)
Pending == Window(outbuffer, outnext, outcount, BufSize)

TypedSays ==
    /\ Typed \in Seq(Received \cup {NUL})
    /\ Len(Typed) = incount
    /\ \A k \in 1 .. incount : Typed[k] = inbuffer[(innext + k - 1) % (BufSize + 1)]

LEMMA TypedIs == IInv => TypedSays
  <1> SUFFICES ASSUME IInv PROVE TypedSays
    OBVIOUS
  <1> DEFINE n == BufSize + 1
  <1>1. /\ n \in Nat \ {0} /\ innext \in 0 .. n - 1 /\ incount \in 0 .. n
        /\ CellsIn(inbuffer, n, Received \cup {NUL})
    BY SioAssumption DEF IInv, TypesOK, CellsIn
  <1> HIDE DEF n
  <1>2. /\ Window(inbuffer, innext, incount, n) \in Seq(Received \cup {NUL})
        /\ Len(Window(inbuffer, innext, incount, n)) = incount
    <2>1. incount \in Nat /\ innext \in Int
      BY <1>1
    <2> QED  BY <1>1, <2>1, WindowType, WindowCells DEF WindowIs
  <1> QED  BY <1>2 DEF TypedSays, Typed, Window, n

LEMMA TypedStays == IInv' => TypedSays'
  BY TypedIs, PTL

LEMMA PendingIs ==
    ASSUME IInv
    PROVE  Pending \in Seq(Line) /\ Len(Pending) = outcount
  <1>1. /\ BufSize \in Nat \ {0} /\ outnext \in 0 .. BufSize - 1
        /\ outcount \in 0 .. BufSize
        /\ CellsIn(outbuffer, BufSize, Line)
    BY SioAssumption DEF IInv, TypesOK, CellsIn
  <1>2. outcount \in Nat /\ outnext \in Int
    BY <1>1
  <1> QED  BY <1>1, <1>2, WindowType, WindowCells DEF WindowIs, Pending

LineFrame == <<Typed, got, Pending, busy, out>>

LEMMA LineFrameIs == UNCHANGED LineFrame => UNCHANGED (Serial!lineVars)
  BY DEF Serial!lineVars, LineFrame, Typed, Pending

(* A received character is typed, or lost when the buffer is full.         *)
LEMMA ReceiveTypes ==
    ASSUME ReadersKeepUp, IInv, IInv', NEW c \in Keys, Receive(c)
    PROVE  Serial!LineNext \/ UNCHANGED LineFrame
  <1>1. BufSize \in Nat \ {0} /\ innext \in 0 .. BufSize /\ incount \in 0 .. BufSize
    BY SioAssumption DEF IInv, TypesOK
  <1>2. Mapped(c) \in Received
    BY DEF Mapped, Received
  <1>3. UNCHANGED <<innext, Pending, busy, out>>
    BY DEF Receive, outVars, uartVars, Pending
  <1>4. CASE waiting > 0 /\ got' = <<Mapped(c)>> /\ UNCHANGED <<inbuffer, incount>>
    <2>1. incount = 0
      BY <1>4 DEF IInv, InputAgrees
    <2>2. Typed = <<>> /\ Typed' = <<>>
      BY <1>4, <2>1, WindowNone DEF Typed
    <2>3. Serial!Type(Mapped(c))
      BY <1>3, <1>4, <2>2 DEF Serial!Type, Typed, Pending
    <2> QED  BY <1>2, <2>3 DEF Serial!LineNext
  <1>5. CASE /\ waiting = 0 /\ Room
             /\ inbuffer' = [inbuffer EXCEPT ![inlast] = Mapped(c)]
             /\ incount' = incount + 1
             /\ UNCHANGED got
    <2> DEFINE n == BufSize + 1
               S == Received \cup {NUL}
               t == <<Mapped(c)>>
    <2>1. /\ n \in Nat \ {0} /\ innext \in 0 .. n - 1
          /\ incount \in 0 .. n /\ 1 \in 0 .. n - incount
          /\ inlast = innext + incount /\ inlast \in 0 .. n - 1
      BY <1>1, <1>5 DEF IInv, TypesOK, InputAgrees, Room
    <2>2. /\ \A i \in 0 .. n - 1 : inbuffer[i] \in S
          /\ \A i \in 0 .. n - 1 : inbuffer'[i] \in S
      BY SMTT(30), <1>1 DEF IInv, TypesOK
    <2>3. t \in Seq(S) /\ 1 <= Len(t) /\ t[1] = Mapped(c) /\ SubSeq(t, 1, 1) = t
      <3>1. t \in Seq(S) /\ Len(t) = 1 /\ t[1] = Mapped(c)
        BY <1>2
      <3> HIDE DEF t, S
      <3>2. SubSeq(t, 1, Len(t)) = t
        BY <3>1, SubSeqFull
      <3> QED  BY <3>1, <3>2
    <2>4. \A k \in 1 .. incount :
             /\ innext + (k - 1) \in 0 .. n - 1
             /\ innext + (k - 1) # inlast
      BY <2>1
    <2>5. \A k \in 1 .. incount : (innext + (k - 1)) % n = innext + (k - 1)
      BY <2>1, <2>4
    <2>a. \A i \in 0 .. n - 1 : i # inlast => inbuffer'[i] = inbuffer[i]
      BY <1>1, <1>5 DEF IInv, TypesOK
    <2> HIDE DEF n, S, t
    <2>6. SameCells(inbuffer', inbuffer, innext, incount, n)
      BY <2>4, <2>5, <2>a DEF SameCells
    <2>7. FilledWith(inbuffer', t, innext, incount, 1, n)
      <3>1. (innext + (incount + (1 - 1))) % n = inlast
        BY <2>1
      <3>2. inbuffer'[inlast] = Mapped(c)
        BY <1>5 DEF IInv, TypesOK
      <3> QED  BY <2>3, <3>1, <3>2 DEF FilledWith
    <2>b. CellsIn(inbuffer, n, S) /\ CellsIn(inbuffer', n, S)
      BY <2>2 DEF CellsIn
    <2>8. Window(inbuffer', innext, incount + 1, n) = Window(inbuffer, innext, incount, n) \o t
      <3>1. Window(inbuffer', innext, incount + 1, n)
               = Window(inbuffer, innext, incount, n) \o SubSeq(t, 1, 1)
        BY <2>1, <2>b, <2>3, <2>6, <2>7, WindowGrows
      <3> QED  BY <2>3, <3>1
    <2>9. Typed' = Typed \o <<Mapped(c)>>
      BY <1>3, <1>5, <2>8 DEF Typed, n, t
    <2>10. Typed' = Append(Typed, Mapped(c))
      BY <1>2, <2>9, TypedIs, AppendIsConcat DEF TypedSays
    <2>11. Len(Typed) < BufSize
      BY <1>5, TypedIs DEF Room, TypedSays
    <2>12. Serial!Type(Mapped(c))
      BY <1>3, <1>5, <2>10, <2>11 DEF Serial!Type, Typed, Pending
    <2> QED  BY <1>2, <2>12 DEF Serial!LineNext
  <1>6. CASE UNCHANGED <<inbuffer, inlast, incount, waiting, got>>
    BY <1>3, <1>6 DEF LineFrame, Typed
  <1> QED  BY <1>4, <1>5, <1>6 DEF Receive

(* A reader that gets characters gets the oldest.                          *)
LEMMA ReadTakes ==
    ASSUME ReadersKeepUp, IInv, IInv', NEW length \in Lengths, Read(length)
    PROVE  Serial!LineNext \/ UNCHANGED LineFrame
  <1>1. /\ BufSize \in Nat \ {0} /\ length \in Nat \ {0}
        /\ innext \in 0 .. BufSize /\ incount \in 0 .. BufSize
        /\ innext + incount <= BufSize
    BY SioAssumption DEF IInv, TypesOK, InputAgrees
  <1>2. UNCHANGED <<Pending, busy, out>>
    BY DEF Read, outVars, uartVars, Pending
  <1>3. CASE Reads(length)
    <2> DEFINE copied == IF length < incount THEN length ELSE incount
    <2>1. copied \in 1 .. incount /\ incount > 0
      BY <1>1, <1>3 DEF Reads
    <2>2. /\ got' = [k \in 1 .. copied |-> inbuffer[(innext + k - 1) % (BufSize + 1)]]
          /\ incount' = incount - copied
          /\ copied # incount => innext' = (innext + copied) % (BufSize + 1)
          /\ UNCHANGED inbuffer
      BY <1>3 DEF Reads
    <2> HIDE DEF copied
    <2> DEFINE S == Received \cup {NUL}
    <2>3. /\ Typed \in Seq(S) /\ Len(Typed) = incount
          /\ \A k \in 1 .. incount : Typed[k] = inbuffer[(innext + k - 1) % (BufSize + 1)]
          /\ Typed' \in Seq(S) /\ Len(Typed') = incount'
          /\ \A k \in 1 .. incount' :
                Typed'[k] = inbuffer'[(innext' + k - 1) % (BufSize + 1)]
      <3> QED  BY TypedIs, TypedStays DEF TypedSays
    <2> HIDE DEF S
    <2>4. got' = SubSeq(Typed, 1, copied)
      <3>1. /\ SubSeq(Typed, 1, copied) \in Seq(S)
            /\ Len(SubSeq(Typed, 1, copied)) = copied
            /\ \A k \in 1 .. copied : SubSeq(Typed, 1, copied)[k] = Typed[k]
        <4>1. \A i \in 1 .. copied : Typed[i] \in S
          BY <1>1, <2>1, <2>3, ElementOfSeq
        <4> QED  BY <1>1, <2>1, <4>1, SubSeqProperties
      <3>2. got' \in [1 .. copied -> S]
        <4>1. \A k \in 1 .. copied : k \in 1 .. incount /\ Typed[k] \in S
          BY <1>1, <2>1, <2>3, ElementOfSeq
        <4> QED  BY <2>2, <2>3, <4>1
      <3>3. got' \in Seq(S) /\ Len(got') = copied
        BY <1>1, <2>1, <3>2, SeqDef, LenProperties
      <3>4. \A k \in 1 .. copied : got'[k] = Typed[k]
        BY SMTT(30), <1>1, <2>1, <2>2, <2>3
      <3> QED  BY <3>1, <3>3, <3>4, SeqEqual
    <2>5. Typed' = SubSeq(Typed, copied + 1, incount)
      <3>1. /\ SubSeq(Typed, copied + 1, incount) \in Seq(S)
            /\ Len(SubSeq(Typed, copied + 1, incount)) = incount - copied
            /\ \A k \in 1 .. incount - copied :
                  SubSeq(Typed, copied + 1, incount)[k] = Typed[copied + k]
        <4>1. \A i \in copied + 1 .. incount : Typed[i] \in S
          BY <1>1, <2>1, <2>3, ElementOfSeq
        <4>2. \A k \in 1 .. incount - copied : (copied + 1) + k - 1 = copied + k
          BY <1>1, <2>1
        <4> QED  BY <1>1, <2>1, <4>1, <4>2, SubSeqProperties
      <3>2. ASSUME NEW k \in 1 .. incount - copied
            PROVE  Typed'[k] = Typed[copied + k]
        <4>1. copied # incount /\ copied + k \in 1 .. incount
          BY <1>1, <2>1
        <4>2. /\ innext + copied \in 0 .. (BufSize + 1) - 1
              /\ innext + (copied + k) - 1 = (innext + copied) + k - 1
          BY <1>1, <2>1
        <4>3. innext' = innext + copied
          <5>1. (innext + copied) % (BufSize + 1) = innext + copied
            BY <1>1, <4>2
          <5> QED  BY <2>2, <4>1, <5>1
        <4>4. innext' + k - 1 = innext + (copied + k) - 1
          BY <4>2, <4>3
        <4> QED  BY <2>2, <2>3, <4>1, <4>4
      <3> QED  BY Zenon, <1>1, <2>1, <2>2, <2>3, <3>1, <3>2, SeqEqual
    <2>6. Serial!Take(copied)
      BY <1>2, <2>1, <2>3, <2>4, <2>5 DEF Serial!Take, Typed, Pending
    <2>7. copied \in 1 .. BufSize
      BY <1>1, <2>1
    <2> QED  BY <2>6, <2>7 DEF Serial!LineNext
  <1>4. CASE UNCHANGED <<inbuffer, inlast, innext, incount, got>>
    BY <1>2, <1>4 DEF LineFrame, Typed
  <1> QED  BY <1>3, <1>4 DEF Read

(* What a write puts in the buffer is behind what waits there.             *)
LEMMA PutExtends ==
    ASSUME IInv, NEW s \in Seq(Line)
    PROVE  Window(Put(s), outnext, outcount + Fits(s), BufSize)
              = Pending \o SubSeq(s, 1, Fits(s))
  <1> DEFINE n == BufSize
             m == Fits(s)
             c == Put(s)
  <1>1. /\ n \in Nat \ {0} /\ outnext \in 0 .. n - 1 /\ outcount \in 0 .. n
        /\ TypesOK /\ outlast = (outnext + outcount) % n
    BY SioAssumption DEF IInv, TypesOK, OutputAgrees
  <1>2. m \in 0 .. n - outcount /\ m \in 0 .. Len(s) /\ Len(s) \in Nat
    BY <1>1, FitsIs, LenProperties
  <1>3. CellsIn(outbuffer, n, Line) /\ CellsIn(c, n, Line)
    BY <1>1, PutType DEF TypesOK, CellsIn
  <1>4. /\ \A k \in 1 .. m : c[(outlast + k - 1) % n] = s[k]
        /\ \A i \in 0 .. n :
              (\A k \in 1 .. m : (outlast + k - 1) % n # i) => c[i] = outbuffer[i]
    BY <1>1, PutIs
  <1> HIDE DEF n, m, c
  <1>5. \A k \in 1 .. m : (outlast + k - 1) % n = (outnext + (outcount + (k - 1))) % n
    <2> SUFFICES ASSUME NEW k \in 1 .. m
                 PROVE  (outlast + k - 1) % n = (outnext + (outcount + (k - 1))) % n
      OBVIOUS
    <2>1. k - 1 \in 0 .. n /\ outcount + (k - 1) <= n
      BY <1>1, <1>2
    <2>2. (outlast + (k - 1)) % n = (outnext + (outcount + (k - 1))) % n
      BY <1>1, <2>1, RingSum
    <2>3. outlast + k - 1 = outlast + (k - 1)
      BY <1>1, RingStep
    <2> QED  BY <2>2, <2>3
  <1>6. FilledWith(c, s, outnext, outcount, m, n)
    BY <1>4, <1>5 DEF FilledWith
  <1>7. SameCells(c, outbuffer, outnext, outcount, n)
    <2> SUFFICES ASSUME NEW j \in 1 .. outcount
                 PROVE  c[(outnext + (j - 1)) % n] = outbuffer[(outnext + (j - 1)) % n]
      BY DEF SameCells
    <2>1. j - 1 \in 0 .. n
      BY <1>1
    <2>2. (outnext + (j - 1)) % n \in 0 .. n
      BY <1>1, <2>1, RingStep
    <2>3. ASSUME NEW k \in 1 .. m
          PROVE  (outlast + k - 1) % n # (outnext + (j - 1)) % n
      <3>1. /\ outcount + (k - 1) \in 0 .. n - 1 /\ j - 1 \in 0 .. n - 1
            /\ outcount + (k - 1) # j - 1
        BY <1>1, <1>2
      <3>2. (outnext + (outcount + (k - 1))) % n # (outnext + (j - 1)) % n
        BY <1>1, <3>1, RingCells
      <3> QED  BY <1>5, <3>2
    <2> QED  BY <1>4, <2>2, <2>3
  <1>8. Window(c, outnext, outcount + m, n)
           = Window(outbuffer, outnext, outcount, n) \o SubSeq(s, 1, m)
    <2>1. m <= Len(s)
      BY <1>2
    <2> QED  BY <1>1, <1>2, <1>3, <1>6, <1>7, <2>1, WindowGrows
  <1> QED  BY <1>8 DEF Pending, n, m, c

(* A write is accepted as far as there is room; on an idle line its first  *)
(* character is sent at once.                                              *)
LEMMA WriteAccepts ==
    ASSUME NoLineFeeds, IInv, NEW s \in Strings, Write(s)
    PROVE  Serial!LineNext
  <1>1. /\ BufSize \in Nat \ {0} /\ TypesOK
        /\ outcount \in 0 .. BufSize
    BY SioAssumption DEF IInv, TypesOK
  <1>2. UNCHANGED <<Typed, got, outnext>>
    BY DEF Write, inVars, Typed
  <1>3. /\ s \in Seq(Line) /\ Len(s) \in Nat \ {0} /\ Head(s) = s[1] /\ Head(s) # LF
        /\ Tail(s) \in Seq(Line) /\ Len(Tail(s)) = Len(s) - 1
        /\ \A k \in 1 .. Len(s) - 1 : Tail(s)[k] = s[k + 1]
    <2>1. MaxWrite \in Nat
      BY SioAssumption
    <2> QED  BY <2>1, StringsAre DEF NoLineFeeds
  <1>4. Pending \in Seq(Line) /\ Len(Pending) = outcount
    BY PendingIs
  <1>5. SUFFICES Serial!Accept(s)
    BY DEF Serial!LineNext, Serial!Strings, Strings
  <1>6. CASE ~sending /\ Start(Head(s), Tail(s))
    <2> DEFINE rest == Tail(s)
               m    == Fits(rest)
               all  == Pending \o SubSeq(s, 1, m + 1)
    <2>1. outcount = 0 /\ Pending = <<>> /\ ~busy
      BY <1>6, WindowNone DEF IInv, OutputAgrees, TransmitterArmed, Pending
    <2>2. /\ out' = Head(s) /\ busy' = TRUE
          /\ outbuffer' = Put(rest) /\ outcount' = outcount + m
      BY <1>3, <1>6 DEF Start
    <2>3. m \in 0 .. Len(rest) /\ (m < Len(rest) => m = BufSize)
      <3>1. /\ m \in 0 .. BufSize - outcount /\ m \in 0 .. Len(rest)
            /\ m < Len(rest) => outcount + m = BufSize
        BY <1>1, <1>3, FitsIs
      <3> QED  BY <2>1, <3>1
    <2>4. Pending' = SubSeq(rest, 1, m)
      <3>1. Window(Put(rest), outnext, outcount + m, BufSize)
               = Pending \o SubSeq(rest, 1, m)
        BY <1>3, PutExtends
      <3>2. \A k \in 1 .. m : rest[k] \in Line
        BY <1>3, <2>3, ElementOfSeq
      <3>3. SubSeq(rest, 1, m) \in Seq(Line)
        BY <1>3, <2>3, <3>2, SubSeqProperties
      <3> QED  BY <1>2, <2>1, <2>2, <3>1, <3>3, ConcatEmptySeq DEF Pending
    <2> HIDE DEF m, rest
    <2>5. /\ SubSeq(s, 1, m + 1) \in Seq(Line)
          /\ Head(SubSeq(s, 1, m + 1)) = s[1]
          /\ Tail(SubSeq(s, 1, m + 1)) = SubSeq(rest, 1, m)
      <3> DEFINE u == SubSeq(s, 1, m + 1)
                 v == SubSeq(rest, 1, m)
      <3>1. m + 1 \in 1 .. Len(s) /\ m \in Nat /\ Len(rest) \in Nat
        BY <1>3, <2>3 DEF rest
      <3>2. \A k \in 1 .. m + 1 : s[k] \in Line
        BY <1>3, <3>1, ElementOfSeq
      <3>3. /\ u \in Seq(Line) /\ Len(u) = m + 1
            /\ \A k \in 1 .. m + 1 : u[k] = s[k]
        BY <3>1, <3>2, SubSeqProperties
      <3>4. \A k \in 1 .. m : rest[k] \in Line
        BY <1>3, <2>3, ElementOfSeq DEF rest
      <3>5. /\ v \in Seq(Line) /\ Len(v) = m
            /\ \A k \in 1 .. m : v[k] = rest[k]
        BY <3>1, <3>4, SubSeqProperties
      <3> HIDE DEF u, v
      <3>6. u # <<>>
        BY <3>1, <3>3, EmptySeq
      <3>7. Head(u) = u[1] /\ u[1] = s[1]
        BY <3>1, <3>3, <3>6
      <3>8. /\ Tail(u) \in Seq(Line) /\ Len(Tail(u)) = m
            /\ \A k \in 1 .. m : Tail(u)[k] = u[k + 1]
        BY <3>1, <3>3, <3>6, HeadTailProperties
      <3>9. \A k \in 1 .. m : Tail(u)[k] = v[k]
        BY <1>3, <3>1, <3>3, <3>5, <3>8 DEF rest
      <3>10. Tail(u) = v
        BY <3>5, <3>8, <3>9, SeqEqual
      <3> QED  BY <3>3, <3>7, <3>10 DEF u, v
    <2>6. all = SubSeq(s, 1, m + 1)
      BY <2>1, <2>5, ConcatEmptySeq
    <2>7. m + 1 \in 0 .. Len(s) /\ m + 1 >= 1
      BY <1>3, <2>3 DEF rest
    <2>8. m + 1 < Len(s) => m + 1 > BufSize
      BY <1>1, <1>3, <2>3 DEF rest
    <2>9. out' = Head(all) /\ Pending' = Tail(all)
      BY <1>3, <2>2, <2>4, <2>5, <2>6
    <2> QED  BY <1>2, <2>1, <2>2, <2>7, <2>8, <2>9 DEF Serial!Accept, Typed, Pending
  <1>7. CASE /\ outbuffer' = Put(s)
             /\ outcount' = outcount + Fits(s)
             /\ UNCHANGED uartVars
    <2> DEFINE m   == Fits(s)
               all == Pending \o SubSeq(s, 1, m)
    <2>1. m \in 0 .. Len(s) /\ (m < Len(s) => outcount + m = BufSize)
      BY <1>1, <1>3, FitsIs
    <2>2. Pending' = all
      BY <1>2, <1>3, <1>7, PutExtends DEF Pending
    <2> HIDE DEF m
    <2>3. Len(all) = outcount + m
      <3>1. \A k \in 1 .. m : s[k] \in Line
        BY <1>3, <2>1, ElementOfSeq
      <3>2. SubSeq(s, 1, m) \in Seq(Line) /\ Len(SubSeq(s, 1, m)) = m
        BY <1>3, <2>1, <3>1, SubSeqProperties
      <3> QED  BY <1>4, <3>2, ConcatProperties
    <2>4. m < Len(s) => Len(all) >= BufSize
      BY <1>1, <2>1, <2>3
    <2>5. UNCHANGED <<busy, out>>
      BY <1>7 DEF uartVars
    <2> QED  BY <1>2, <2>1, <2>2, <2>4, <2>5 DEF Serial!Accept, Typed, Pending
  <1> QED  BY <1>6, <1>7 DEF Write

(* The interrupt sends the oldest character.                               *)
LEMMA TransmitSends ==
    ASSUME IInv, Transmit
    PROVE  Serial!LineNext \/ UNCHANGED LineFrame
  <1>1. /\ BufSize \in Nat \ {0} /\ outnext \in 0 .. BufSize - 1
        /\ outcount \in 0 .. BufSize
    BY SioAssumption DEF IInv, TypesOK
  <1>2. UNCHANGED <<Typed, got>> /\ ~busy
    BY DEF Transmit, inVars, Typed
  <1>3. CASE /\ outcount > 0
             /\ out' = outbuffer[outnext]
             /\ busy' = TRUE
             /\ outnext' = (outnext + 1) % BufSize
             /\ outcount' = outcount - 1
             /\ UNCHANGED outbuffer
    <2>1. outcount \in 1 .. BufSize
      BY <1>1, <1>3
    <2>2. /\ Pending # <<>> /\ Head(Pending) = outbuffer[outnext]
          /\ Tail(Pending) = Window(outbuffer, (outnext + 1) % BufSize, outcount - 1, BufSize)
      BY <1>1, <2>1, WindowMoves DEF Pending
    <2>3. Pending' = Tail(Pending)
      BY <1>3, <2>2 DEF Pending
    <2>4. Serial!Send
      BY <1>2, <1>3, <2>2, <2>3 DEF Serial!Send, Typed, Pending
    <2> QED  BY <2>4 DEF Serial!LineNext
  <1>4. CASE ~(sending /\ outcount > 0) /\ outcount' = 0 /\ UNCHANGED uartVars
    <2>1. outcount = 0
      BY <1>1, <1>4 DEF IInv, TransmitterArmed
    <2>2. Pending = <<>> /\ Pending' = <<>>
      BY <1>4, <2>1, WindowNone DEF Pending
    <2> QED  BY <1>2, <1>4, <2>2 DEF LineFrame, uartVars
  <1> QED  BY <1>3, <1>4 DEF Transmit

(* Whatever the driver does is something the line does, or is not seen: no *)
(* character is lost after it was taken, doubled or put out of order, on   *)
(* its way from a key to a reader or from a write to the UART.             *)
THEOREM LineIsImplemented ==
    ASSUME ReadersKeepUp, NoLineFeeds
    PROVE  Spec => Serial!LineSafe
  <1>1. Init => Serial!LineInit
    <2> SUFFICES ASSUME Init PROVE Serial!LineInit
      OBVIOUS
    <2>1. incount = 0 /\ outcount = 0
      BY DEF Init
    <2>2. Typed = <<>> /\ Pending = <<>>
      BY <2>1, WindowNone DEF Typed, Pending
    <2>3. got = <<>> /\ ~busy /\ out = "none"
      BY Zenon DEF Init, NUL
    <2> QED  BY <2>2, <2>3 DEF Serial!LineInit, Typed, Pending
  <1>2. ASSUME IInv, IInv', [Next]_vars
        PROVE  [Serial!LineNext]_(Serial!lineVars)
    <2>1. CASE Shifted
      <3>1. Serial!Sent
        BY <2>1 DEF Shifted, inVars, outVars, Serial!Sent
      <3> QED  BY <3>1 DEF Serial!LineNext
    <2>2. CASE UNCHANGED vars
      BY <2>2 DEF vars, inVars, outVars, uartVars, Serial!lineVars
    <2>3. ASSUME NEW c \in Keys, Receive(c)
          PROVE  Serial!LineNext \/ UNCHANGED LineFrame
      BY <1>2, <2>3, ReceiveTypes
    <2>4. ASSUME NEW length \in Lengths, Read(length)
          PROVE  Serial!LineNext \/ UNCHANGED LineFrame
      BY <1>2, <2>4, ReadTakes
    <2>5. ASSUME NEW s \in Strings, Write(s)
          PROVE  Serial!LineNext
      BY <1>2, <2>5, WriteAccepts
    <2>6. CASE Transmit
      <3>1. Serial!LineNext \/ UNCHANGED LineFrame
        BY <1>2, <2>6, TransmitSends
      <3> QED  BY <3>1, LineFrameIs
    <2> QED  BY <1>2, <2>1, <2>2, <2>3, <2>4, <2>5, <2>6, LineFrameIs DEF Next
  <1>3. LineFeedsFit
    BY DEF LineFeedsFit, NoLineFeeds
  <1> QED  BY Invariance, <1>1, <1>2, <1>3, PTL DEF Spec, Serial!LineSafe

-----------------------------------------------------------------------------
(* The IDE driver.                                                         *)


(* No drive has more blocks than 28 bits of address tell apart, for the    *)
(* driver never gives an extended address.                                 *)
AddressesFit == \A x \in Attached : Drives[x].mode # "chs" => Drives[x].size <= Lba

-----------------------------------------------------------------------------
(* The inductive invariant.                                                *)

Working == pc \in {"command", "poll", "transfer", "flush", "flushed"}
Acting  == pc \in {"poll", "transfer", "flush", "flushed"}

(* The block that the drive reaches with the address it is given.          *)
Reached == Found(Drives[Place], Address(Drives[Place], op.block))

(* The places that were looked at: with the one whose drive is registered. *)
Registering == Booting /\ (Working \/ pc \in {"done", "panic"})
LookedAt    == IF Registering THEN probe ELSE probe - 1
Seen        == {Order[k] : k \in 1 .. LookedAt} \cap Attached

DiskTypesOK ==
    /\ ide \in Controllers
    /\ fs \in [Attached -> Numbers]
    /\ marked \subseteq Attached \X Nat
    /\ drive \in [doing : {"idle", "reading", "writing", "storing", "flushing"},
                  drq : BOOLEAN, error : {Ok, "err", "df"},
                  address : {drive.address}, place : Places]
    /\ failed \in BOOLEAN
    /\ itr \in (0 .. NBuses) \X (0 .. NDevices) \X (0 .. Byte - 1)
    /\ pc \in {"scan", "identify", "command", "poll", "transfer", "flush", "flushed",
               "done", "ready", "panic"}
    /\ probe \in 1 .. 5
    /\ devices \in Seq(Attached)
    /\ disks \in Seq([fsNr : Numbers \ {0}, place : Attached \cup {<<>>}])
    /\ Len(disks) \in 1 .. MaxDisks
    /\ op \in [dir : {"read", "write"}, device : 0 .. 3, block : Blocks \cup {0}]
    /\ buffer \in Numbers \cup {0, 1}
    /\ result \in {-1} \cup 0 .. Byte - 1

(* Each drive that is there is identified once, in the order of places.    *)
BootAgrees ==
    /\ pc = "scan" => probe = 1
    /\ Cardinality(Seen) = Len(devices)
    /\ Len(devices) <= LookedAt
    /\ Registering =>
          op = [dir |-> "read", device |-> Len(devices) - 1, block |-> 0]

(* While a drive is identified the buffer holds the number of a file system*)
(* that is in the table, until the block was read.                         *)
BufferRegistered ==
    Booting /\ (pc \in {"scan", "identify", "command", "poll"} \/ (pc = "done" /\ failed))
       => \E i \in DOMAIN disks : disks[i].fsNr = buffer

(* A write is not of the first block.  What is asked is on the drive, but  *)
(* for the first block, which the registration reads unchecked.            *)
OpAgrees ==
    /\ op.dir = "write" => op.block # 0 /\ buffer \in {0, 1}
    /\ Working \/ (pc = "done" /\ result # -1) =>
          /\ op.device < Len(devices)
          /\ op.block = 0 \/ op.block < Drives[Place].size

(* What a write should have done, when the drive got to its first block    *)
(* only if it was told to.                                                 *)
Stored == Reached # 0 => buffer = Held(Place, Reached)

DriveAgrees ==
    /\ ~Acting => drive.doing = "idle"
    /\ Acting => drive.place = Place /\ drive.address = Address(Drives[Place], op.block)
    /\ pc = "command" => ~failed
    /\ pc = "poll" =>
          /\ drive.doing \in {"idle", IF op.dir = "read" THEN "reading" ELSE "writing"}
          /\ failed <=> drive.error # Ok
          /\ IF drive.doing = "idle" THEN ~failed => drive.drq ELSE ~failed
    /\ pc = "transfer" => drive.doing = "idle" /\ ~failed /\ result = 0
    /\ pc \in {"flush", "flushed"} => op.dir = "write"
    /\ pc = "flush" => drive.doing \in {"idle", "storing"}
    /\ pc = "flushed" => drive.doing \in {"idle", "storing", "flushing"}
    /\ pc \in {"flush", "flushed"} /\ drive.doing # "storing" /\ ~failed => Stored

(* Transferred, of the block the drive reached.                            *)
DoneAgrees ==
    pc = "done" /\ result # -1 =>
       /\ ~failed => IF op.dir = "read" THEN buffer = Held(Place, Reached) ELSE Stored
       /\ op.dir = "read" /\ result = 0 => ~failed

DiskInv ==
    DiskTypesOK /\ BootAgrees /\ BufferRegistered /\ OpAgrees /\ DriveAgrees
            /\ DoneAgrees /\ TableAgrees

-----------------------------------------------------------------------------
(* Addresses.                                                              *)

(* base is the first block of a track of per_track blocks: cylinder and    *)
(* head of _disk_ide_ata_io count the tracks before it.                    *)
LEMMA TracksBefore ==
    ASSUME NEW p \in Nat \ {0}, NEW h \in Nat \ {0}, NEW q \in Nat
    PROVE  ((((q * p) \div (h * p)) * h) + (((q * p) % (h * p)) \div p)) * p = q * p
  <1> DEFINE n == h * p
             a == q * p
             c == a \div n
             m == a % n
             k == q - (c * h)
  <1>1. n \in Nat \ {0} /\ a \in Nat
    OBVIOUS
  <1> HIDE DEF n, a
  <1>2. c \in Int /\ m \in Nat /\ a = (n * c) + m
    BY <1>1
  <1> HIDE DEF c, m
  <1>3. k \in Int
    BY <1>2
  <1>4. m = k * p
    <2>1. n * c = (c * h) * p
      BY <1>2 DEF n
    <2>2. (q * p) - ((c * h) * p) = (q - (c * h)) * p
      BY <1>2
    <2> QED  BY <1>2, <2>1, <2>2 DEF a
  <1> HIDE DEF k
  <1>5. k >= 0
    BY <1>2, <1>3, <1>4
  <1>6. m \div p = k
    BY <1>3, <1>4, <1>5
  <1>7. (c * h) + k = q
    BY <1>2 DEF k
  <1> QED  BY <1>6, <1>7 DEF c, m, a, n

(* The drive finds the block that was asked for.                           *)
LEMMA FoundIs ==
    ASSUME NEW x \in Attached, NEW b \in Nat,
           Drives[x].mode # "chs" => b < Lba
    PROVE  Found(Drives[x], Address(Drives[x], b)) = b
  <1>1. CASE Drives[x].mode # "chs"
    <2>1. b % Lba = b
      BY <1>1, DiskAssumption
    <2> QED  BY <1>1, <2>1 DEF Found, Address
  <1>2. CASE Drives[x].mode = "chs"
    <2> DEFINE p == Drives[x].per_track
               h == Drives[x].heads
               q == b \div p
    <2>1. p \in Nat \ {0} /\ h \in Nat \ {0}
      BY <1>2, DiskAssumption
    <2> HIDE DEF p, h
    <2>2. q \in Nat /\ b = (p * q) + (b % p) /\ b % p \in Nat
      BY <2>1
    <2> HIDE DEF q
    <2>3. b + 1 - ((b % p) + 1) = q * p
      BY <2>1, <2>2
    <2>4. ((((q * p) \div (h * p)) * h) + (((q * p) % (h * p)) \div p)) * p = q * p
      BY <2>1, <2>2, TracksBefore
    <2>5. Found(Drives[x], Address(Drives[x], b)) =
             (((((q * p) \div (h * p)) * h) + (((q * p) % (h * p)) \div p)) * p)
                + ((b % p) + 1) - 1
      BY <1>2, <2>3 DEF Found, Address, p, h
    <2> QED  BY <2>1, <2>2, <2>4, <2>5
  <1> QED  BY <1>1, <1>2

-----------------------------------------------------------------------------
(* What several steps need.                                                *)

LEMMA AttachedFinite == IsFiniteSet(Attached) /\ Cardinality(Attached) \in Nat
  <1>1. IsFiniteSet({0, 1})
    <2>1. IsFiniteSet({0}) /\ {0} \cup {1} = {0, 1}
      BY FS_Singleton
    <2>2. IsFiniteSet({0} \cup {1})
      BY <2>1, FS_AddElement
    <2> QED  BY <2>1, <2>2
  <1>2. IsFiniteSet(Places)
    BY <1>1, FS_Product DEF Places
  <1>3. Attached \in SUBSET Places
    BY DEF Attached
  <1> QED  BY <1>2, <1>3, FS_Subset, FS_CardinalityType

LEMMA ConstantsAre ==
    /\ Blocks \subseteq Nat /\ Numbers \subseteq Nat /\ RamFs \in Numbers \ {0}
    /\ MaxDisks \in Nat /\ MaxDisks > Cardinality(Attached)
  BY DiskAssumption

(* Whatever is asked of a drive is of a drive that is there.               *)
LEMMA PlaceIs ==
    ASSUME DiskTypesOK, OpAgrees, Working \/ (pc = "done" /\ result # -1)
    PROVE  /\ Place \in Attached /\ Place \in Places
           /\ op.block \in Nat
           /\ Reached \in Nat
  <1>1. op.device \in 0 .. 3 /\ op.block \in Nat /\ op.device < Len(devices)
    <2>1. op \in [dir : {"read", "write"}, device : 0 .. 3, block : Blocks \cup {0}]
      BY DEF DiskTypesOK
    <2>2. op.device \in 0 .. 3 /\ op.block \in Blocks \cup {0}
      BY <2>1
    <2>3. op.block \in Nat
      <3>1. \A b \in Blocks \cup {0} : b \in Nat
        BY ConstantsAre
      <3> QED  BY <2>2, <3>1
    <2>4. op.device < Len(devices)
      BY DEF OpAgrees
    <2> QED  BY <2>2, <2>3, <2>4
  <1>2. Len(devices) \in Nat
    BY LenProperties DEF DiskTypesOK
  <1>3. op.device + 1 \in 1 .. Len(devices)
    BY <1>1, <1>2
  <1>4. Place \in Attached
    BY <1>3, ElementOfSeq DEF DiskTypesOK, Place
  <1>5. Reached \in Nat
    <2>1. CASE Drives[Place].mode = "chs"
      BY <1>1, <1>4, <2>1, FoundIs DEF Reached
    <2>2. CASE Drives[Place].mode # "chs"
      BY <1>1, <2>2, DiskAssumption DEF Reached, Found, Address
    <2> QED  BY <2>1, <2>2
  <1> QED  BY <1>1, <1>4, <1>5 DEF Attached

(* Between two steps of an operation the places stay as they are.          *)
LEMMA BootStays ==
    ASSUME BootAgrees, UNCHANGED <<probe, devices, op>>,
           Registering' <=> Registering, pc' = "scan" => pc = "scan"
    PROVE  BootAgrees'
  BY DEF BootAgrees, Seen, LookedAt

LEMMA TableStays ==
    ASSUME TableAgrees, UNCHANGED <<disks, fs>>
    PROVE  TableAgrees'
  BY DEF TableAgrees

LEMMA DiskInitOK == DiskInit => DiskInv
  <1> SUFFICES ASSUME DiskInit PROVE DiskInv
    OBVIOUS
  <1>1. DiskTypesOK
    <2>1. drive \in [doing : {"idle", "reading", "writing", "storing", "flushing"},
                     drq : BOOLEAN, error : {Ok, "err", "df"},
                     address : {drive.address}, place : Places]
      BY DEF DiskInit, Idle, Places
    <2>2. itr \in (0 .. NBuses) \X (0 .. NDevices) \X (0 .. Byte - 1)
      BY DiskAssumption DEF DiskInit, Byte
    <2>3. /\ disks \in Seq([fsNr : Numbers \ {0}, place : Attached \cup {<<>>}])
          /\ Len(disks) = 1
      BY DiskAssumption DEF DiskInit
    <2>4. MaxDisks >= 1
      BY AttachedFinite, ConstantsAre
    <2>5. op \in [dir : {"read", "write"}, device : 0 .. 3, block : Blocks \cup {0}]
      BY DEF DiskInit
    <2>6. devices \in Seq(Attached)
      BY DEF DiskInit
    <2>7. Len(disks) \in 1 .. MaxDisks /\ RamFs \in Numbers /\ 0 \in 0 .. Byte - 1
      BY <2>3, <2>4, DiskAssumption DEF Byte
    <2>8. /\ ide \in Controllers /\ fs \in [Attached -> Numbers] /\ marked = {}
          /\ failed \in BOOLEAN /\ pc = "scan" /\ buffer = RamFs
      BY Zenon DEF DiskInit
    <2>9. probe \in 1 .. 5 /\ result \in 0 .. Byte - 1
      BY <2>7 DEF DiskInit
    <2> QED  BY <2>1, <2>2, <2>3, <2>5, <2>6, <2>7, <2>8, <2>9 DEF DiskTypesOK
  <1>2. BootAgrees
    <2>1. LookedAt = 0 /\ ~Registering
      BY DEF DiskInit, LookedAt, Registering, Working
    <2>2. Seen = {}
      BY <2>1 DEF Seen
    <2> QED  BY <2>1, <2>2, FS_EmptySet DEF DiskInit, BootAgrees
  <1>3. BufferRegistered /\ TableAgrees
    BY DEF DiskInit, BufferRegistered, TableAgrees
  <1>4. OpAgrees /\ DriveAgrees /\ DoneAgrees
    BY DEF DiskInit, OpAgrees, DriveAgrees, DoneAgrees, Working, Acting, Idle
  <1> QED  BY <1>1, <1>2, <1>3, <1>4 DEF DiskInv

-----------------------------------------------------------------------------
(* One lemma for each action.                                              *)

LEMMA ScanKeeps ==
    ASSUME DiskInv, Scan
    PROVE  DiskInv'
  <1>1. UNCHANGED <<extVars, probe, devices, disks, op, buffer, result>>
    BY DEF Scan
  <1>2. pc = "scan" /\ pc' \in {"scan", "identify"} /\ itr[1] < NBuses
    BY DEF Scan
  <1>3. itr' \in (0 .. NBuses) \X (0 .. NDevices) \X (0 .. Byte - 1)
    <2>1. /\ itr[1] \in 0 .. NBuses /\ itr[2] \in 0 .. NDevices
          /\ itr[3] \in 0 .. Byte - 1
          /\ NBuses \in Nat /\ NDevices \in Nat /\ Byte = 256
      BY DiskAssumption DEF DiskInv, DiskTypesOK, Byte
    <2>2. NextDevice \in (0 .. NBuses) \X (0 .. NDevices) \X (0 .. Byte - 1)
      BY <1>2, <2>1 DEF NextDevice
    <2>3. <<itr[1], itr[2], NextFunc>> \in (0 .. NBuses) \X (0 .. NDevices) \X (0 .. Byte - 1)
      BY <2>1 DEF NextFunc
    <2> QED  BY <2>2, <2>3 DEF Scan
  <1>4. DiskTypesOK'
    BY <1>1, <1>2, <1>3 DEF DiskInv, DiskTypesOK, extVars
  <1>5. BootAgrees'
    <2>1. ~Registering /\ ~Registering'
      BY <1>2 DEF Registering, Working
    <2> QED  BY <1>1, <1>2, <2>1, BootStays DEF DiskInv
  <1>6. BufferRegistered' /\ TableAgrees'
    BY <1>1, <1>2, TableStays DEF DiskInv, BufferRegistered, extVars, Booting
  <1>7. OpAgrees' /\ DriveAgrees' /\ DoneAgrees'
    BY <1>1, <1>2 DEF DiskInv, OpAgrees, DriveAgrees, DoneAgrees, Working, Acting, extVars
  <1> QED  BY <1>4, <1>5, <1>6, <1>7 DEF DiskInv

LEMMA NoControllerKeeps ==
    ASSUME DiskInv, NoController
    PROVE  DiskInv'
  <1>1. UNCHANGED <<extVars, bootVars, op, buffer, result>> /\ pc = "scan" /\ pc' = "ready"
    BY DEF NoController
  <1>2. BootAgrees'
    <2>1. ~Registering /\ ~Registering'
      BY <1>1 DEF Registering, Working
    <2> QED  BY <1>1, <2>1, BootStays DEF DiskInv, bootVars
  <1>3. DiskTypesOK'
    BY <1>1 DEF DiskInv, DiskTypesOK, extVars, bootVars
  <1>4. BufferRegistered' /\ TableAgrees'
    BY <1>1, TableStays DEF DiskInv, BufferRegistered, extVars, bootVars
  <1>5. OpAgrees' /\ DriveAgrees' /\ DoneAgrees'
    BY <1>1 DEF DiskInv, OpAgrees, DriveAgrees, DoneAgrees, Working, Acting, extVars
  <1> QED  BY <1>2, <1>3, <1>4, <1>5 DEF DiskInv

(* _disk_ide_ata_io gives the address of the block to a drive at rest.     *)
LEMMA CommandKeeps ==
    ASSUME DiskInv, Command
    PROVE  DiskInv'
  <1>1. /\ UNCHANGED <<ide, fs, marked, failed, bootVars, op, buffer, result>>
        /\ pc = "command" /\ pc' = "poll" /\ Working
    BY DEF Command, Working
  <1>2. /\ drive'.doing = IF op.dir = "read" THEN "reading" ELSE "writing"
        /\ drive'.drq = FALSE /\ drive'.error = Ok
        /\ drive'.address = Address(Drives[Place], op.block) /\ drive'.place = Place
        /\ drive' = [doing |-> drive'.doing, drq |-> FALSE, error |-> Ok,
                     address |-> drive'.address, place |-> drive'.place]
    BY DEF Command
  <1>3. Place \in Places
    BY <1>1, PlaceIs DEF DiskInv
  <1>4. DiskTypesOK'
    <2>1. drive' \in [doing : {"idle", "reading", "writing", "storing", "flushing"},
                      drq : BOOLEAN, error : {Ok, "err", "df"},
                      address : {drive'.address}, place : Places]
      BY <1>2, <1>3
    <2> QED  BY <1>1, <2>1 DEF DiskInv, DiskTypesOK, bootVars
  <1>5. BootAgrees'
    <2>1. Registering' <=> Registering
      BY <1>1 DEF Registering, Working, Booting, bootVars
    <2> QED  BY <1>1, <2>1, BootStays DEF DiskInv, bootVars
  <1>6. BufferRegistered' /\ TableAgrees' /\ OpAgrees' /\ DoneAgrees'
    BY <1>1, TableStays
       DEF DiskInv, BufferRegistered, OpAgrees, DoneAgrees, Working, Booting, Place, bootVars
  <1>7. DriveAgrees'
    <2>1. Place' = Place /\ ~failed /\ op' = op /\ failed' = failed
      BY <1>1 DEF DiskInv, DriveAgrees, Place, bootVars
    <2> QED  BY <1>1, <1>2, <2>1 DEF DriveAgrees, Acting
  <1> QED  BY <1>4, <1>5, <1>6, <1>7 DEF DiskInv

(* The codes of _disk_ide_poll_wait are zero only for a drive that has its *)
(* data and no error.                                                      *)
LEMMA StatusIs ==
    ASSUME DiskTypesOK
    PROVE  /\ Status \in 0 .. Byte - 1
           /\ Status = 0 <=> drive.error = Ok /\ drive.drq
  <1>1. (-2) % 256 = 254 /\ (-3) % 256 = 253 /\ (-4) % 256 = 252
    <2>1. \A a \in -256 .. -1 : a % 256 = a + 256
      OBVIOUS
    <2>2. -2 \in -256 .. -1 /\ -3 \in -256 .. -1 /\ -4 \in -256 .. -1
      OBVIOUS
    <2>3. (-2) % 256 = -2 + 256 /\ (-3) % 256 = -3 + 256 /\ (-4) % 256 = -4 + 256
      BY <2>1, <2>2
    <2>4. -2 + 256 = 254 /\ -3 + 256 = 253 /\ -4 + 256 = 252
      OBVIOUS
    <2> QED  BY <2>3, <2>4
  <1>2. drive.error \in {Ok, "err", "df"} /\ drive.drq \in BOOLEAN
    BY DEF DiskTypesOK
  <1>3. CASE drive.error = "err"
    BY <1>1, <1>3 DEF Status, Byte, Ok
  <1>4. CASE drive.error = "df"
    BY <1>1, <1>4 DEF Status, Byte, Ok
  <1>5. CASE drive.error = Ok /\ ~drive.drq
    BY <1>1, <1>5 DEF Status, Byte, Ok
  <1>6. CASE drive.error = Ok /\ drive.drq
    BY <1>6 DEF Status, Byte, Ok
  <1> QED  BY <1>2, <1>3, <1>4, <1>5, <1>6

(* The status of an error ends the operation, and an error only does.      *)
LEMMA PollKeeps ==
    ASSUME DiskInv, Poll
    PROVE  DiskInv'
  <1>1. /\ UNCHANGED <<ide, fs, marked, drive, failed, itr, probe, devices, disks, op, buffer>>
        /\ pc = "poll" /\ Working /\ drive.doing = "idle"
        /\ result' = Status
        /\ pc' = IF Status = 0 THEN "transfer" ELSE "done"
    BY DEF Poll, Working, extVars, bootVars
  <1>2. Status \in 0 .. Byte - 1 /\ (Status = 0 <=> ~failed)
    <2>1. /\ Status \in 0 .. Byte - 1
          /\ Status = 0 <=> drive.error = Ok /\ drive.drq
      BY StatusIs DEF DiskInv
    <2>2. (failed <=> drive.error # Ok) /\ (~failed => drive.drq)
      BY <1>1 DEF DiskInv, DriveAgrees
    <2> QED  BY <2>1, <2>2
  <1>3. DiskTypesOK'
    BY <1>1, <1>2 DEF DiskInv, DiskTypesOK
  <1>4. BootAgrees'
    <2>1. Registering' <=> Registering
      BY <1>1 DEF Registering, Working, Booting
    <2> QED  BY <1>1, <2>1, BootStays DEF DiskInv
  <1>5. BufferRegistered' /\ TableAgrees' /\ OpAgrees'
    BY <1>1, <1>2, TableStays
       DEF DiskInv, BufferRegistered, OpAgrees, Working, Booting, Place
  <1>6. DriveAgrees'
    <2>1. Place' = Place
      BY <1>1 DEF Place
    <2> QED  BY <1>1, <1>2, <2>1 DEF DiskInv, DriveAgrees, Acting
  <1>7. DoneAgrees'
    BY <1>1, <1>2 DEF DoneAgrees
  <1> QED  BY <1>3, <1>4, <1>5, <1>6, <1>7 DEF DiskInv

(* A read takes the block that the drive reached.                          *)
LEMMA TransferKeeps ==
    ASSUME DiskInv, Transfer
    PROVE  DiskInv'
  <1>1. /\ UNCHANGED <<ide, fs, marked, failed, itr, probe, devices, disks, op, result>>
        /\ pc = "transfer" /\ Working /\ pc' \in {"done", "flush"}
        /\ drive.doing = "idle" /\ ~failed /\ result = 0
        /\ drive.place = Place /\ drive.address = Address(Drives[Place], op.block)
    BY DEF Transfer, Working, bootVars, DiskInv, DriveAgrees, Acting
  <1>2. Place' = Place /\ Reached' = Reached /\ Place \in Attached /\ Reached \in Nat
    BY <1>1, PlaceIs DEF Place, Reached, DiskInv
  <1>3. \A b : Held(Place, b)' = Held(Place, b)
    BY <1>1, <1>2 DEF Held
  <1>4. /\ drive' \in [doing : {"idle", "reading", "writing", "storing", "flushing"},
                       drq : BOOLEAN, error : {Ok, "err", "df"},
                       address : {drive'.address}, place : Places]
        /\ drive'.address = drive.address /\ drive'.place = drive.place
        /\ drive'.doing = IF op.dir = "read" THEN "idle" ELSE "storing"
    BY Zenon, <1>1 DEF Transfer, DiskInv, DiskTypesOK
  <1>5. /\ op.dir = "read" => buffer' = Held(Place, Reached) /\ pc' = "done"
        /\ op.dir = "write" => buffer' = buffer /\ pc' = "flush"
        /\ op.dir \in {"read", "write"}
    BY <1>1 DEF Transfer, Reached, DiskInv, DiskTypesOK
  <1>6. buffer' \in Numbers \cup {0, 1}
    <2>1. Held(Place, Reached) \in Numbers \cup {0, 1}
      BY <1>2 DEF Held, DiskInv, DiskTypesOK
    <2> QED  BY <1>5, <2>1 DEF DiskInv, DiskTypesOK
  <1>7. DiskTypesOK'
    BY <1>1, <1>4, <1>6 DEF DiskInv, DiskTypesOK
  <1>8. BootAgrees'
    <2>1. Registering' <=> Registering
      BY <1>1 DEF Registering, Working, Booting
    <2> QED  BY <1>1, <2>1, BootStays DEF DiskInv
  <1>9. BufferRegistered' /\ TableAgrees' /\ OpAgrees'
    BY <1>1, <1>5, TableStays
       DEF DiskInv, BufferRegistered, OpAgrees, Working, Booting, Place
  <1>10. DriveAgrees' /\ DoneAgrees'
    <2>1. DriveAgrees'
      BY <1>1, <1>2, <1>4, <1>5 DEF DriveAgrees, Acting
    <2>2. DoneAgrees'
      BY <1>1, <1>2, <1>3, <1>5 DEF DoneAgrees
    <2> QED  BY <2>1, <2>2
  <1> QED  BY <1>7, <1>8, <1>9, <1>10 DEF DiskInv

(* The flush does not disturb what is stored.                              *)
LEMMA FlushKeeps ==
    ASSUME DiskInv, Flush
    PROVE  DiskInv'
  <1>1. /\ UNCHANGED <<ide, fs, marked, failed, itr, probe, devices, disks, op, buffer, result>>
        /\ pc = "flush" /\ Working /\ pc' = "flushed"
        /\ op.dir = "write" /\ drive.doing \in {"idle", "storing"}
        /\ drive.place = Place /\ drive.address = Address(Drives[Place], op.block)
        /\ drive.doing # "storing" /\ ~failed => Stored
    BY DEF Flush, Working, bootVars, DiskInv, DriveAgrees, Acting
  <1>2. Place' = Place /\ Reached' = Reached /\ (Stored => Stored')
    BY <1>1 DEF Place, Reached, Stored, Held
  <1>3. /\ drive' \in [doing : {"idle", "reading", "writing", "storing", "flushing"},
                       drq : BOOLEAN, error : {Ok, "err", "df"},
                       address : {drive'.address}, place : Places]
        /\ drive'.address = drive.address /\ drive'.place = drive.place
        /\ drive'.doing = IF drive.doing = "idle" THEN "flushing" ELSE drive.doing
    BY <1>1 DEF Flush, DiskInv, DiskTypesOK
  <1>4. DiskTypesOK'
    BY <1>1, <1>3 DEF DiskInv, DiskTypesOK
  <1>5. BootAgrees'
    <2>1. Registering' <=> Registering
      BY <1>1 DEF Registering, Working, Booting
    <2> QED  BY <1>1, <2>1, BootStays DEF DiskInv
  <1>6. BufferRegistered' /\ TableAgrees' /\ OpAgrees' /\ DoneAgrees'
    BY <1>1, TableStays
       DEF DiskInv, BufferRegistered, OpAgrees, DoneAgrees, Working, Booting, Place
  <1>7. DriveAgrees'
    BY <1>1, <1>2, <1>3 DEF DriveAgrees, Acting
  <1> QED  BY <1>4, <1>5, <1>6, <1>7 DEF DiskInv

LEMMA PollFlushKeeps ==
    ASSUME DiskInv, PollFlush
    PROVE  DiskInv'
  <1>1. /\ UNCHANGED <<ide, fs, marked, drive, failed, itr, probe, devices, disks, op, buffer>>
        /\ pc = "flushed" /\ Working /\ pc' = "done" /\ result' = Status
        /\ drive.doing = "idle" /\ op.dir = "write" /\ (~failed => Stored)
    BY DEF PollFlush, Working, extVars, bootVars, DiskInv, DriveAgrees
  <1>2. Status \in 0 .. Byte - 1
    BY StatusIs DEF DiskInv
  <1>3. Stored => Stored'
    BY <1>1 DEF Stored, Held, Reached, Place
  <1>4. DiskTypesOK'
    BY <1>1, <1>2 DEF DiskInv, DiskTypesOK
  <1>5. BootAgrees'
    <2>1. Registering' <=> Registering
      BY <1>1 DEF Registering, Working, Booting
    <2> QED  BY <1>1, <2>1, BootStays DEF DiskInv
  <1>6. BufferRegistered'
    <2>1. ~Booting
      BY <1>1 DEF DiskInv, BootAgrees, Registering
    <2> QED  BY <1>1, <2>1 DEF BufferRegistered, Booting
  <1>7. TableAgrees' /\ OpAgrees' /\ DriveAgrees'
    BY <1>1, TableStays DEF DiskInv, OpAgrees, DriveAgrees, Working, Acting, Place
  <1>8. DoneAgrees'
    BY <1>1, <1>3 DEF DoneAgrees
  <1> QED  BY <1>4, <1>5, <1>6, <1>7, <1>8 DEF DiskInv

(* The drive stores what it was given in the block it was told to reach,   *)
(* or says that it failed.                                                 *)
LEMMA DriveDoneIs ==
    ASSUME DiskInv, DriveDone
    PROVE  /\ UNCHANGED <<ide, fs, itr, pc, probe, devices, disks, op, buffer, result>>
           /\ Acting /\ Working /\ pc # "transfer"
           /\ drive'.doing = "idle"
           /\ drive'.place = Place /\ drive'.address = Address(Drives[Place], op.block)
           /\ drive'.error \in {Ok, "err", "df"} /\ drive'.drq \in BOOLEAN
           /\ drive' = [doing |-> "idle", drq |-> drive'.drq, error |-> drive'.error,
                        address |-> drive'.address, place |-> drive'.place]
           /\ \/ /\ failed' = failed /\ drive'.error = drive.error
                 /\ drive'.drq = (drive.doing \in {"reading", "writing"})
                 /\ marked' = IF drive.doing # "storing" THEN marked
                              ELSE IF buffer = 1 THEN marked \cup {<<Place, Reached>>}
                              ELSE marked \ {<<Place, Reached>>}
              \/ failed' = TRUE /\ drive'.error # Ok /\ marked' = marked
  <1>1. /\ UNCHANGED <<ide, fs, bootVars, pc, op, buffer, result>>
        /\ drive.doing # "idle"
    BY DEF DriveDone
  <1>2. Acting /\ Working /\ pc # "transfer"
    BY <1>1 DEF DiskInv, DriveAgrees, Acting, Working
  <1>3. /\ drive.place = Place /\ drive.address = Address(Drives[Place], op.block)
        /\ drive \in [doing : {"idle", "reading", "writing", "storing", "flushing"},
                      drq : BOOLEAN, error : {Ok, "err", "df"},
                      address : {drive.address}, place : Places]
    BY <1>2 DEF DiskInv, DriveAgrees, DiskTypesOK
  <1>4. CASE /\ drive' = [drive EXCEPT !.doing = "idle",
                                       !.drq = drive.doing \in {"reading", "writing"}]
             /\ IF drive.doing = "storing"
                THEN LET at == <<drive.place, Found(Drives[drive.place], drive.address)>>
                     IN  marked' = IF buffer = 1 THEN marked \cup {at} ELSE marked \ {at}
                ELSE UNCHANGED marked
             /\ UNCHANGED failed
    <2>1. /\ drive'.doing = "idle" /\ drive'.error = drive.error
          /\ drive'.drq = (drive.doing \in {"reading", "writing"})
          /\ drive'.place = Place /\ drive'.address = Address(Drives[Place], op.block)
          /\ drive'.error \in {Ok, "err", "df"} /\ drive'.drq \in BOOLEAN
          /\ drive' = [doing |-> "idle", drq |-> drive'.drq, error |-> drive'.error,
                       address |-> drive'.address, place |-> drive'.place]
      <3> DEFINE moves == drive.doing \in {"reading", "writing"}
      <3>1. moves \in BOOLEAN
        OBVIOUS
      <3> HIDE DEF moves
      <3>2. drive' = [drive EXCEPT !.doing = "idle", !.drq = moves]
        BY <1>4 DEF moves
      <3>3. drive' = [doing |-> "idle", drq |-> moves, error |-> drive.error,
                      address |-> drive.address, place |-> drive.place]
        BY <1>3, <3>2
      <3> QED  BY <1>3, <3>1, <3>3 DEF moves
    <2>2. <<drive.place, Found(Drives[drive.place], drive.address)>> = <<Place, Reached>>
      BY <1>3 DEF Reached
    <2>3. marked' = IF drive.doing # "storing" THEN marked
                    ELSE IF buffer = 1 THEN marked \cup {<<Place, Reached>>}
                    ELSE marked \ {<<Place, Reached>>}
      BY <1>4, <2>2
    <2> QED  BY <1>1, <1>2, <1>4, <2>1, <2>3 DEF bootVars
  <1>5. ASSUME NEW error \in {"err", "df"},
               drive' = [drive EXCEPT !.doing = "idle", !.drq = FALSE, !.error = error],
               failed' = TRUE, UNCHANGED marked
        PROVE  /\ drive'.doing = "idle" /\ drive'.error # Ok
               /\ drive'.place = Place /\ drive'.address = Address(Drives[Place], op.block)
               /\ drive'.error \in {Ok, "err", "df"} /\ drive'.drq \in BOOLEAN
               /\ drive' = [doing |-> "idle", drq |-> drive'.drq, error |-> drive'.error,
                            address |-> drive'.address, place |-> drive'.place]
    BY <1>3, <1>5 DEF Ok
  <1> QED  BY <1>1, <1>2, <1>4, <1>5 DEF DriveDone, bootVars

LEMMA DriveDoneKeeps ==
    ASSUME DiskInv, DriveDone
    PROVE  DiskInv'
  <1>1. /\ UNCHANGED <<ide, fs, itr, pc, probe, devices, disks, op, buffer, result>>
        /\ Acting /\ Working /\ pc # "transfer"
        /\ drive'.doing = "idle"
        /\ drive'.place = Place /\ drive'.address = Address(Drives[Place], op.block)
        /\ drive'.error \in {Ok, "err", "df"} /\ drive'.drq \in BOOLEAN
        /\ drive' = [doing |-> "idle", drq |-> drive'.drq, error |-> drive'.error,
                     address |-> drive'.address, place |-> drive'.place]
        /\ \/ /\ failed' = failed /\ drive'.error = drive.error
              /\ drive'.drq = (drive.doing \in {"reading", "writing"})
              /\ marked' = IF drive.doing # "storing" THEN marked
                           ELSE IF buffer = 1 THEN marked \cup {<<Place, Reached>>}
                           ELSE marked \ {<<Place, Reached>>}
           \/ failed' = TRUE /\ drive'.error # Ok /\ marked' = marked
    BY DriveDoneIs
  <1>2. /\ Place' = Place /\ Reached' = Reached /\ Place \in Attached /\ Place \in Places
        /\ Reached \in Nat
    BY <1>1, PlaceIs DEF Place, Reached, DiskInv
  <1>3. DiskTypesOK'
    <2>1. marked' \subseteq Attached \X Nat
      <3>1. marked \subseteq Attached \X Nat /\ <<Place, Reached>> \in Attached \X Nat
        BY <1>2 DEF DiskInv, DiskTypesOK
      <3>2. \/ marked' = marked \/ marked' = marked \cup {<<Place, Reached>>}
            \/ marked' = marked \ {<<Place, Reached>>}
        BY <1>1
      <3> QED  BY <3>1, <3>2
    <2>3. failed' \in BOOLEAN
      BY <1>1 DEF DiskInv, DiskTypesOK
    <2>2. drive' \in [doing : {"idle", "reading", "writing", "storing", "flushing"},
                      drq : BOOLEAN, error : {Ok, "err", "df"},
                      address : {drive'.address}, place : Places]
      BY <1>1, <1>2
    <2> QED  BY <1>1, <2>1, <2>2, <2>3 DEF DiskInv, DiskTypesOK
  <1>4. BootAgrees'
    <2>1. Registering' <=> Registering
      BY <1>1 DEF Registering, Working, Booting
    <2> QED  BY <1>1, <2>1, BootStays DEF DiskInv
  <1>5. BufferRegistered' /\ TableAgrees' /\ OpAgrees' /\ DoneAgrees'
    BY <1>1, TableStays
       DEF DiskInv, BufferRegistered, OpAgrees, DoneAgrees, Working, Booting, Place
  <1>6. DriveAgrees'
    <2>1. pc = "poll" =>
             /\ failed' <=> drive'.error # Ok
             /\ ~failed' => drive'.drq
      BY <1>1 DEF DriveDone, DiskInv, DriveAgrees
    <2>2. pc \in {"flush", "flushed"} /\ ~failed' => Stored'
      <3> SUFFICES ASSUME pc \in {"flush", "flushed"}, ~failed', Reached # 0
                   PROVE  buffer = Held(Place, Reached)'
        BY <1>1, <1>2 DEF Stored
      <3>1. op.dir = "write" /\ buffer \in {0, 1}
        BY DEF DiskInv, DriveAgrees, OpAgrees
      <3>2. CASE drive.doing = "storing"
        BY <1>1, <1>2, <3>1, <3>2 DEF Held
      <3>3. CASE drive.doing # "storing"
        <4>1. marked' = marked /\ Stored
          BY <1>1, <3>3 DEF DiskInv, DriveAgrees
        <4> QED  BY <1>1, <1>2, <4>1 DEF Stored, Held
      <3> QED  BY <3>2, <3>3
    <2> QED  BY <1>1, <1>2, <2>1, <2>2 DEF DiskInv, DriveAgrees, Acting
  <1> QED  BY <1>3, <1>4, <1>5, <1>6 DEF DiskInv

(* Only drives that are there are counted, and each place once.            *)
LEMMA OrderIs == \A j, k \in 1 .. 4 : Order[j] \in Places /\ (Order[j] = Order[k] => j = k)
  <1> SUFFICES ASSUME NEW j \in 1 .. 4, NEW k \in 1 .. 4
               PROVE  Order[j] \in Places /\ (Order[j] = Order[k] => j = k)
    OBVIOUS
  <1>1. /\ Order[1] = <<0, 0>> /\ Order[2] = <<0, 1>>
        /\ Order[3] = <<1, 0>> /\ Order[4] = <<1, 1>>
    BY DEF Order
  <1>2. j \in {1, 2, 3, 4} /\ k \in {1, 2, 3, 4}
    OBVIOUS
  <1>3. Order[j] \in Places
    BY <1>1, <1>2 DEF Places
  <1>4. Order[j] = Order[k] => j = k
    BY <1>1, <1>2
  <1> QED  BY <1>3, <1>4

LEMMA SeenFinite == IsFiniteSet(Seen) /\ Cardinality(Seen) \in Nat
                       /\ Cardinality(Seen) <= Cardinality(Attached)
  <1>1. Seen \in SUBSET Attached
    BY DEF Seen
  <1> QED  BY <1>1, AttachedFinite, FS_Subset, FS_CardinalityType

(* The next place: passed over, or its drive counted and read.             *)
LEMMA IdentifyKeeps ==
    ASSUME DiskInv, Identify
    PROVE  DiskInv'
  <1>1. /\ UNCHANGED <<ide, fs, marked, drive, itr, disks, buffer, result>>
        /\ pc = "identify" /\ ~Registering
        /\ drive.doing = "idle"
    BY DEF Identify, Registering, Working, DiskInv, DriveAgrees, Acting
  <1>2. /\ probe \in 1 .. 5 /\ devices \in Seq(Attached) /\ Len(devices) \in Nat
        /\ LookedAt = probe - 1 /\ Len(devices) < probe
        /\ Cardinality(Seen) = Len(devices)
    BY <1>1, LenProperties DEF DiskInv, DiskTypesOK, BootAgrees, LookedAt
  <1>3. CASE ~Booting /\ pc' = "ready" /\ UNCHANGED <<probe, devices, op, failed>>
    <2>1. ~Registering'
      BY <1>3 DEF Registering, Booting
    <2>2. BootAgrees'
      BY <1>1, <1>3, <2>1, BootStays DEF DiskInv
    <2>3. DiskTypesOK'
      BY <1>1, <1>3 DEF DiskInv, DiskTypesOK
    <2>4. BufferRegistered' /\ TableAgrees' /\ OpAgrees' /\ DriveAgrees' /\ DoneAgrees'
      BY <1>1, <1>3, TableStays
         DEF DiskInv, BufferRegistered, OpAgrees, DriveAgrees, DoneAgrees, Working, Acting
    <2> QED  BY <2>2, <2>3, <2>4 DEF DiskInv
  <1>4. CASE /\ Booting /\ Order[probe] \notin Attached /\ probe' = probe + 1
             /\ UNCHANGED <<pc, devices, op, failed>>
    <2>1. probe \in 1 .. 4 /\ ~Registering'
      BY <1>1, <1>2, <1>4 DEF Booting, Registering, Working
    <2>2. LookedAt' = probe
      BY <1>2, <1>4, <2>1 DEF LookedAt
    <2>3. Seen' = Seen
      BY <1>2, <1>4, <2>1, <2>2 DEF Seen
    <2>4. BootAgrees'
      BY <1>1, <1>2, <1>4, <2>1, <2>2, <2>3 DEF BootAgrees
    <2>5. DiskTypesOK'
      BY <1>1, <1>4, <2>1 DEF DiskInv, DiskTypesOK
    <2>6. BufferRegistered'
      BY <1>1, <1>4 DEF DiskInv, BufferRegistered
    <2>7. TableAgrees' /\ OpAgrees' /\ DriveAgrees' /\ DoneAgrees'
      BY <1>1, <1>4, TableStays
         DEF DiskInv, OpAgrees, DriveAgrees, DoneAgrees, Working, Acting
    <2> QED  BY <2>4, <2>5, <2>6, <2>7 DEF DiskInv
  <1>5. CASE /\ Booting /\ Order[probe] \in Attached
             /\ devices' = Append(devices, Order[probe])
             /\ op' = [dir |-> "read", device |-> Len(devices), block |-> 0]
             /\ failed' = FALSE /\ pc' = "command"
             /\ UNCHANGED probe
    <2>1. probe \in 1 .. 4 /\ Booting' /\ Registering' /\ Working'
      BY <1>1, <1>2, <1>5 DEF Booting, Registering, Working
    <2>2. LookedAt' = probe
      BY <1>5, <2>1 DEF LookedAt
    <2>3. /\ devices' \in Seq(Attached) /\ Len(devices') = Len(devices) + 1
          /\ devices'[Len(devices) + 1] = Order[probe]
      BY <1>2, <1>5, AppendProperties
    <2>4. Cardinality(Seen') = Len(devices')
      <3>1. Seen' = Seen \cup {Order[probe]}
        BY <1>2, <1>5, <2>1, <2>2 DEF Seen
      <3>2. Order[probe] \notin Seen
        BY <1>2, <2>1, OrderIs DEF Seen
      <3>3. Cardinality(Seen \cup {Order[probe]}) = Cardinality(Seen) + 1
        BY <3>2, SeenFinite, FS_AddElement
      <3> QED  BY <1>2, <2>3, <3>1, <3>3
    <2>5. op'.dir = "read" /\ op'.device = Len(devices) /\ op'.block = 0
      BY <1>5
    <2>6. BootAgrees'
      BY <1>2, <1>5, <2>1, <2>2, <2>3, <2>4 DEF BootAgrees
    <2>7. DiskTypesOK'
      <3>1. op' \in [dir : {"read", "write"}, device : 0 .. 3, block : Blocks \cup {0}]
        BY <1>2, <1>5, <2>1
      <3>2. failed' \in BOOLEAN
        BY <1>5
      <3> QED  BY <1>1, <1>5, <2>3, <3>1, <3>2 DEF DiskInv, DiskTypesOK
    <2>8. BufferRegistered'
      BY <1>1, <1>5 DEF DiskInv, BufferRegistered
    <2>9. TableAgrees' /\ OpAgrees'
      BY <1>1, <1>2, <1>5, <2>3, <2>5, TableStays DEF DiskInv, OpAgrees
    <2>10. DriveAgrees' /\ DoneAgrees'
      BY <1>1, <1>5 DEF DriveAgrees, DoneAgrees, Acting
    <2> QED  BY <2>6, <2>7, <2>8, <2>9, <2>10 DEF DiskInv
  <1> QED  BY <1>3, <1>4, <1>5 DEF Identify

(* A file system is registered only if its first block was read: else the  *)
(* buffer holds a number that is in the table already.                     *)
LEMMA RegisterDevKeeps ==
    ASSUME DiskInv, RegisterDev
    PROVE  DiskInv'
  <1>1. /\ UNCHANGED <<ide, fs, marked, drive, failed, itr, devices, op, buffer, result>>
        /\ pc = "done" /\ Booting /\ Registering
        /\ drive.doing = "idle"
    BY DEF RegisterDev, extVars, Registering, DiskInv, DriveAgrees, Acting
  <1>2. /\ probe \in 1 .. 4 /\ LookedAt = probe
        /\ devices \in Seq(Attached) /\ Len(devices) \in Nat
        /\ op.dir = "read" /\ op.block = 0
    BY <1>1, LenProperties DEF DiskInv, DiskTypesOK, BootAgrees, LookedAt, Booting
  <1>3. CASE pc' = "panic" /\ UNCHANGED <<disks, probe>>
    <2>1. Registering'
      BY <1>1, <1>3 DEF Registering, Booting
    <2>2. BootAgrees'
      BY <1>1, <1>3, <2>1, BootStays DEF DiskInv
    <2>3. DiskTypesOK'
      BY <1>1, <1>3 DEF DiskInv, DiskTypesOK
    <2>4. BufferRegistered' /\ TableAgrees' /\ OpAgrees' /\ DriveAgrees' /\ DoneAgrees'
      BY <1>1, <1>3, TableStays
         DEF DiskInv, BufferRegistered, OpAgrees, DriveAgrees, DoneAgrees, Working, Acting
    <2> QED  BY <2>2, <2>3, <2>4 DEF DiskInv
  <1>4. CASE /\ ~(result < 0 \/ Len(disks) = MaxDisks \/ Registered(buffer))
             /\ disks' = Append(disks, [fsNr |-> buffer, place |-> Place])
             /\ probe' = probe + 1
             /\ pc' = "identify"
    <2>1. /\ result # -1 /\ ~failed
          /\ buffer # 0 /\ \A i \in DOMAIN disks : disks[i].fsNr # buffer
      BY <1>1, <1>4 DEF Registered, DiskInv, DiskTypesOK, BufferRegistered
    <2>2. Place \in Attached
      BY <1>1, <2>1, PlaceIs DEF DiskInv
    <2>3. Reached = 0
      <3>1. Drives[Place].mode # "chs" => 0 < Lba
        BY DiskAssumption
      <3> QED  BY <1>2, <2>2, <3>1, FoundIs DEF Reached
    <2>4. buffer = fs[Place] /\ buffer \in Numbers \ {0}
      BY <1>1, <1>2, <2>1, <2>2, <2>3 DEF DiskInv, DoneAgrees, Held, DiskTypesOK
    <2> DEFINE new == [fsNr |-> buffer, place |-> Place]
               S   == [fsNr : Numbers \ {0}, place : Attached \cup {<<>>}]
    <2>5. new \in S /\ new.fsNr = buffer /\ new.place = Place
      BY <2>2, <2>4
    <2> HIDE DEF new, S
    <2> DEFINE n == Len(disks)
    <2>6. /\ disks \in Seq(S) /\ n \in 1 .. MaxDisks /\ MaxDisks \in Nat
          /\ n # MaxDisks /\ DOMAIN disks = 1 .. n
      BY <1>4, ConstantsAre, LenProperties DEF DiskInv, DiskTypesOK, S
    <2>7. /\ disks' \in Seq(S) /\ Len(disks') = n + 1
          /\ \A i \in 1 .. n : disks'[i] = disks[i]
          /\ disks'[n + 1] = new
          /\ DOMAIN disks' = 1 .. n + 1
      <3>1. disks' = Append(disks, new)
        BY <1>4 DEF new
      <3>2. /\ disks' \in Seq(S) /\ Len(disks') = Len(disks) + 1
            /\ \A i \in 1 .. Len(disks) : disks'[i] = disks[i]
            /\ disks'[Len(disks) + 1] = new
        <4> HIDE DEF n
        <4>1. /\ Append(disks, new) \in Seq(S)
              /\ Len(Append(disks, new)) = Len(disks) + 1
              /\ \A i \in 1 .. Len(disks) : Append(disks, new)[i] = disks[i]
              /\ Append(disks, new)[Len(disks) + 1] = new
          BY <2>5, <2>6, AppendProperties
        <4> QED  BY Zenon, <3>1, <4>1
      <3>3. DOMAIN disks' = 1 .. Len(disks')
        BY <3>2, LenProperties
      <3> QED  BY <3>2, <3>3
    <2>a. \A i \in 2 .. n : disks[i].fsNr = fs[disks[i].place]
      BY DEF DiskInv, TableAgrees
    <2> HIDE DEF n
    <2>8. DiskTypesOK'
      <3>1. Len(disks') \in 1 .. MaxDisks /\ probe' \in 1 .. 5
        BY <1>2, <1>4, <2>6, <2>7
      <3> QED  BY <1>1, <1>4, <2>7, <3>1 DEF DiskInv, DiskTypesOK, S
    <2>9. TableAgrees'
      <3>1. ASSUME NEW i \in 1 .. n + 1, NEW j \in 1 .. n + 1, i # j
            PROVE  disks'[i].fsNr # disks'[j].fsNr
        <4>1. CASE i \in 1 .. n /\ j \in 1 .. n
          BY <2>6, <2>7, <3>1, <4>1 DEF DiskInv, TableAgrees
        <4>2. CASE i = n + 1
          <5>1. j \in 1 .. n
            BY <2>6, <3>1, <4>2
          <5> QED  BY <2>1, <2>5, <2>6, <2>7, <4>2, <5>1
        <4>3. CASE j = n + 1
          <5>1. i \in 1 .. n
            BY <2>6, <3>1, <4>3
          <5> QED  BY <2>1, <2>5, <2>6, <2>7, <4>3, <5>1
        <4> QED  BY <2>6, <4>1, <4>2, <4>3
      <3>2. ASSUME NEW i \in 2 .. n + 1
            PROVE  disks'[i].fsNr = fs[disks'[i].place]
        <4>1. CASE i = n + 1
          BY <2>4, <2>5, <2>7, <4>1
        <4>2. CASE i \in 2 .. n
          <5>1. i \in 1 .. n /\ disks[i].fsNr = fs[disks[i].place]
            BY <2>6, <2>a, <4>2
          <5> QED  BY <2>7, <5>1
        <4> QED  BY <2>6, <4>1, <4>2
      <3> QED  BY <1>1, <2>7, <3>1, <3>2 DEF TableAgrees
    <2>10. ~Registering' /\ LookedAt' = probe
      BY <1>2, <1>4 DEF Registering, Working, LookedAt
    <2>11. BootAgrees'
      <3>1. Seen' = Seen
        BY <1>2, <2>10 DEF Seen
      <3> QED  BY <1>1, <1>2, <1>4, <2>10, <3>1 DEF DiskInv, BootAgrees
    <2>12. BufferRegistered'
      <3>1. n + 1 \in DOMAIN disks' /\ disks'[n + 1].fsNr = buffer'
        BY <1>1, <2>5, <2>6, <2>7
      <3> QED  BY <3>1 DEF BufferRegistered
    <2>13. OpAgrees' /\ DriveAgrees' /\ DoneAgrees'
      BY <1>1, <1>4 DEF DiskInv, OpAgrees, DriveAgrees, DoneAgrees, Working, Acting
    <2> QED  BY <2>8, <2>9, <2>11, <2>12, <2>13 DEF DiskInv
  <1> QED  BY <1>3, <1>4 DEF RegisterDev

(* _disk_read_block and _disk_write_block refuse what is not on the drive. *)
LEMMA AskKeeps ==
    ASSUME DiskInv, NEW dir \in {"read", "write"}, NEW device \in 0 .. Len(devices) - 1,
           NEW block \in Blocks, NEW value \in {0, 1}, Ask(dir, device, block, value)
    PROVE  DiskInv'
  <1>1. /\ UNCHANGED <<ide, fs, marked, drive, itr, probe, devices, disks>>
        /\ ~Booting /\ drive.doing = "idle" /\ failed' = FALSE /\ buffer' = value
        /\ op' = [dir |-> dir, device |-> device, block |-> block]
        /\ op'.dir = dir /\ op'.device = device /\ op'.block = block
        /\ dir = "write" => block # 0
        /\ pc' \in {"done", "command"}
        /\ pc' = "done" => result' = -1
        /\ pc' = "command" => block < Drives[devices[device + 1]].size /\ result' = result
    <2>1. pc \in {"ready", "done"} => drive.doing = "idle"
      BY DEF DiskInv, DriveAgrees, Acting
    <2>2. device < Len(devices)
      BY LenProperties DEF DiskInv, DiskTypesOK
    <2>3. block < Drives[devices[device + 1]].size
             \/ block >= Drives[devices[device + 1]].size
      <3>1. device + 1 \in 1 .. Len(devices)
        BY LenProperties DEF DiskInv, DiskTypesOK
      <3>2. devices[device + 1] \in Attached
        BY <3>1, ElementOfSeq DEF DiskInv, DiskTypesOK
      <3>3. Drives[devices[device + 1]].size \in Nat /\ block \in Nat
        BY <3>2, DiskAssumption
      <3> QED  BY <3>3
    <2> QED  BY <2>1, <2>2, <2>3 DEF Ask, Started, bootVars
  <1>2. ~Registering /\ ~Registering' /\ Len(devices) \in Nat
    BY <1>1, LenProperties DEF Registering, Booting, DiskInv, DiskTypesOK
  <1>3. Len(devices) <= LookedAt /\ LookedAt \in 0 .. 4
    BY <1>2 DEF DiskInv, BootAgrees, DiskTypesOK, LookedAt
  <1>4. DiskTypesOK'
    <2>1. op' \in [dir : {"read", "write"}, device : 0 .. 3, block : Blocks \cup {0}]
      BY <1>1, <1>2, <1>3
    <2>2. /\ failed' \in BOOLEAN /\ buffer' \in Numbers \cup {0, 1}
          /\ result' \in {-1} \cup 0 .. Byte - 1
      BY <1>1 DEF DiskInv, DiskTypesOK
    <2> QED  BY <1>1, <2>1, <2>2 DEF DiskInv, DiskTypesOK
  <1>5. BootAgrees'
    <2>1. LookedAt' = LookedAt
      BY <1>1, <1>2 DEF LookedAt
    <2>2. Seen' = Seen
      BY <2>1 DEF Seen
    <2> QED  BY <1>1, <1>2, <2>1, <2>2 DEF DiskInv, BootAgrees
  <1>6. BufferRegistered' /\ TableAgrees' /\ DriveAgrees' /\ DoneAgrees'
    BY <1>1, TableStays
       DEF DiskInv, BufferRegistered, DriveAgrees, DoneAgrees, Booting, Acting
  <1>7. OpAgrees'
    <2>1. device < Len(devices) /\ Place' = devices[device + 1]
      BY <1>1, <1>2 DEF Place
    <2> QED  BY <1>1, <2>1 DEF OpAgrees, Working
  <1> QED  BY <1>4, <1>5, <1>6, <1>7 DEF DiskInv

LEMMA NextKeepsDiskInv ==
    ASSUME DiskInv, [DiskNext]_diskVars
    PROVE  DiskInv'
  <1>1. CASE UNCHANGED diskVars
    <2>1. UNCHANGED <<ide, fs, marked, drive, failed, itr, probe, devices, disks,
                      pc, op, buffer, result>>
      BY <1>1 DEF diskVars, extVars, bootVars
    <2>2. DiskTypesOK' /\ BufferRegistered' /\ TableAgrees'
      BY <2>1, TableStays DEF DiskInv, DiskTypesOK, BufferRegistered, Booting
    <2>3. BootAgrees'
      BY <2>1, BootStays DEF DiskInv, Registering, Booting, Working
    <2>4. OpAgrees' /\ DriveAgrees' /\ DoneAgrees'
      BY <2>1 DEF DiskInv, OpAgrees, DriveAgrees, DoneAgrees, Working, Acting, Stored,
                  Reached, Held, Place
    <2> QED  BY <2>2, <2>3, <2>4 DEF DiskInv
  <1> QED  BY <1>1, ScanKeeps, NoControllerKeeps, CommandKeeps, PollKeeps, TransferKeeps,
              FlushKeeps, PollFlushKeeps, DriveDoneKeeps, IdentifyKeeps, RegisterDevKeeps,
              AskKeeps DEF DiskNext, Kernel

LEMMA DiskInvariance == DiskSpec => []DiskInv
  <1> QED  BY DiskInitOK, NextKeepsDiskInv, PTL DEF DiskSpec

-----------------------------------------------------------------------------
(* The theorems.                                                           *)

(* On drives of at most 2^28 blocks: when an operation is over and the     *)
(* drive reported no error, the caller's buffer and the block hold the     *)
(* same, and a read that returns 0 had no error; the statuses stay in the  *)
(* range of the bytes they are compared in.                                *)
THEOREM TransfersAreRight ==
    ASSUME AddressesFit
    PROVE  DiskSpec => []DiskConsistent
  <1>1. DiskInv => DiskConsistent
    <2> SUFFICES ASSUME DiskInv PROVE DiskConsistent
      OBVIOUS
    <2>1. DiskTypes
      <3>1. Len(devices) <= Cardinality(Attached)
        BY SeenFinite, AttachedFinite DEF DiskInv, BootAgrees
      <3>2. \A i \in DOMAIN disks : disks[i].fsNr \in Numbers \ {0}
        <4>1. /\ disks \in Seq([fsNr : Numbers \ {0}, place : Attached \cup {<<>>}])
              /\ DOMAIN disks = 1 .. Len(disks)
          BY LenProperties DEF DiskInv, DiskTypesOK
        <4>2. \A i \in 1 .. Len(disks) :
                 disks[i] \in [fsNr : Numbers \ {0}, place : Attached \cup {<<>>}]
          BY <4>1, ElementOfSeq
        <4> QED  BY <4>1, <4>2
      <3>3. Len(disks) <= MaxDisks
        BY ConstantsAre DEF DiskInv, DiskTypesOK
      <3> QED  BY <3>1, <3>2, <3>3 DEF DiskInv, DiskTypesOK, DiskTypes
    <2>2. Transferred
      <3> SUFFICES ASSUME pc = "done", result # -1
                   PROVE  /\ drive.doing = "idle"
                          /\ ~failed => buffer = Held(Place, op.block)
                          /\ op.dir = "read" /\ result = 0 => ~failed
        BY DEF Transferred
      <3>1. Place \in Attached /\ op.block \in Nat
        BY PlaceIs DEF DiskInv
      <3>2. Reached = op.block
        <4>1. /\ Drives[Place].mode # "chs" => Drives[Place].size <= Lba
              /\ Drives[Place].size \in Nat /\ Lba \in Nat \ {0}
          BY <3>1, DiskAssumption DEF AddressesFit
        <4>2. op.block = 0 \/ op.block < Drives[Place].size
          BY DEF DiskInv, OpAgrees
        <4>3. Drives[Place].mode # "chs" => op.block < Lba
          BY <3>1, <4>1, <4>2
        <4> QED  BY <3>1, <4>3, FoundIs DEF Reached
      <3> QED  BY <3>2 DEF DiskInv, DriveAgrees, DoneAgrees, OpAgrees, Stored, Acting, DiskTypesOK
    <2> QED  BY <2>1, <2>2 DEF DiskConsistent
  <1> QED  BY DiskInvariance, <1>1, PTL

(* Whatever the drives hold and however often they fail: the table of file *)
(* systems has each number once, and each drive's own.                     *)
THEOREM TableIsRight == DiskSpec => []TableAgrees
  <1>1. DiskInv => TableAgrees
    BY DEF DiskInv
  <1> QED  BY DiskInvariance, <1>1, PTL

(* On drives of at most 2^28 blocks, of any geometry: a write changes no   *)
(* block of any drive but the one it was asked for.                        *)
THEOREM WritesHitTheirBlock ==
    ASSUME AddressesFit
    PROVE  DiskSpec => RightBlock
  <1>1. ASSUME DiskInv, [DiskNext]_diskVars
        PROVE  \A at \in (marked \cup marked') \ (marked \cap marked') :
                  op.dir = "write" /\ at = <<Place, op.block>>
    <2>1. CASE DriveDone
      <3>1. /\ Working
            /\ \/ marked' = marked
               \/ /\ drive.doing = "storing"
                  /\ marked' \in {marked \cup {<<Place, Reached>>}, marked \ {<<Place, Reached>>}}
        BY <1>1, <2>1, DriveDoneIs
      <3>2. Place \in Attached /\ op.block \in Nat
        BY <1>1, <3>1, PlaceIs DEF DiskInv
      <3>3. Reached = op.block
        <4>1. /\ Drives[Place].mode # "chs" => Drives[Place].size <= Lba
              /\ Drives[Place].size \in Nat /\ Lba \in Nat \ {0}
          BY <3>2, DiskAssumption DEF AddressesFit
        <4>2. op.block = 0 \/ op.block < Drives[Place].size
          BY <1>1, <3>1 DEF DiskInv, OpAgrees
        <4>3. Drives[Place].mode # "chs" => op.block < Lba
          BY <3>2, <4>1, <4>2
        <4> QED  BY <3>2, <4>3, FoundIs DEF Reached
      <3>4. drive.doing = "storing" => op.dir = "write"
        BY <1>1 DEF DiskInv, DriveAgrees, DiskTypesOK, Acting
      <3> QED  BY <3>1, <3>3, <3>4
    <2>2. CASE UNCHANGED marked
      BY <2>2
    <2>3. DiskNext => DriveDone \/ UNCHANGED marked
      BY DEF DiskNext, Kernel, Scan, NoController, Command, Poll, Transfer, Flush, PollFlush,
             Identify, RegisterDev, Ask, extVars
    <2>4. UNCHANGED diskVars => UNCHANGED marked
      BY DEF diskVars, extVars
    <2> QED  BY <1>1, <2>1, <2>2, <2>3, <2>4
  <1> QED  BY DiskInvariance, <1>1, PTL DEF DiskSpec, RightBlock
=============================================================================
