-------------------------------- MODULE Sio ---------------------------------
(***************************************************************************)
(* The serial I/O driver (sio.c): the input buffer between the receive     *)
(* interrupt and read(), the output buffer between write() and the         *)
(* transmit interrupt, and the flags that start and stop the transmitter.  *)
(* Pointers are offsets from the start of their buffers.                   *)
(*                                                                         *)
(* _inlast moves on until the buffer is empty and never wraps, and _innext *)
(* wraps one character too late; the cells from BufSize on stand for the   *)
(* memory behind the buffers.  MaxRun bounds the characters stored from    *)
(* one time the input buffer is empty to the next.                         *)
(***************************************************************************)
EXTENDS Naturals, Sequences, FiniteSetsExt

CONSTANTS
    BufSize,     \* BUF_SIZE
    MaxRun,      \* bound on the characters stored between empty buffers
    Keys,        \* characters typed
    Text,        \* characters written
    Lengths,     \* lengths asked of read()
    MaxWrite,    \* bound on the length of a write(), at least 1
    MaxWaiting   \* bound on the blocked readers

NUL == "none"                    \* what __memset leaves in the buffers
CR  == "cr"
LF  == "lf"

ASSUME SioAssumption ==
    /\ BufSize \in Nat /\ BufSize >= 1
    /\ MaxRun \in Nat /\ MaxRun >= BufSize
    /\ Lengths \subseteq Nat \ {0}
    /\ MaxWrite \in Nat /\ MaxWrite >= 1
    /\ MaxWaiting \in Nat

VARIABLES
    inbuffer, inlast, innext, incount,        \* _inbuffer, _inlast, ...
    outbuffer, outlast, outnext, outcount,    \* _outbuffer, _outlast, ...
    sending,     \* _sending
    tx_enabled,  \* the SIO_TX bit of _ier
    waiting,     \* length of _reading
    got,         \* the characters the last reader to get any got
    busy,        \* the UART is shifting a character out
    out          \* the last character put in the UART

inVars   == <<inbuffer, inlast, innext, incount, waiting, got>>
outVars  == <<outbuffer, outlast, outnext, outcount, sending, tx_enabled>>
uartVars == <<busy, out>>
vars     == <<inVars, outVars, uartVars>>

Received == (Keys \ {CR}) \cup {LF}
Line     == Text \cup {CR, NUL}

TypeOK ==
    /\ inbuffer \in [0 .. MaxRun -> Received \cup {NUL}]
    /\ inlast \in 0 .. MaxRun /\ innext \in 0 .. MaxRun /\ incount \in 0 .. BufSize
    /\ outbuffer \in [0 .. BufSize -> Line]
    /\ outlast \in 0 .. BufSize /\ outnext \in 0 .. BufSize - 1
    /\ outcount \in 0 .. BufSize
    /\ sending \in BOOLEAN /\ tx_enabled \in BOOLEAN
    /\ waiting \in 0 .. MaxWaiting /\ Len(got) \in 0 .. BufSize
    /\ busy \in BOOLEAN /\ out \in Line

(* _sio_init                                                               *)
Init ==
    /\ inbuffer = [i \in 0 .. MaxRun |-> NUL]
    /\ inlast = 0 /\ innext = 0 /\ incount = 0
    /\ outbuffer = [i \in 0 .. BufSize |-> NUL]
    /\ outlast = 0 /\ outnext = 0 /\ outcount = 0
    /\ sending = FALSE /\ tx_enabled = FALSE
    /\ waiting = 0 /\ got = <<>>
    /\ busy = FALSE /\ out = NUL

-----------------------------------------------------------------------------
(* Input.                                                                  *)

Mapped(c) == IF c = CR THEN LF ELSE c

Room == incount < BufSize

(* _sio_isr, a received character: to the first reader that waits, or to   *)
(* the buffer if there is room, or nowhere.                                *)
ReceiveStoresFirst(c) ==                 \* mutant: readers are not looked at
    /\ inlast < MaxRun
    /\ Room
    /\ inbuffer' = [inbuffer EXCEPT ![inlast] = Mapped(c)]
    /\ inlast' = inlast + 1
    /\ incount' = incount + 1
    /\ waiting' = 0
    /\ got' = IF waiting > 0 THEN <<Mapped(c)>> ELSE got
    /\ UNCHANGED <<innext, outVars, uartVars>>

Receive(c) ==
    /\ \/ /\ waiting > 0
          /\ waiting' = waiting - 1
          /\ got' = <<Mapped(c)>>
          /\ UNCHANGED <<inbuffer, inlast, incount>>
       \/ /\ waiting = 0
          /\ Room
          /\ inlast < MaxRun
          /\ inbuffer' = [inbuffer EXCEPT ![inlast] = Mapped(c)]
          /\ inlast' = inlast + 1
          /\ incount' = incount + 1
          /\ UNCHANGED <<waiting, got>>
       \/ /\ waiting = 0
          /\ ~Room
          /\ UNCHANGED <<inbuffer, inlast, incount, waiting, got>>
    /\ UNCHANGED <<innext, outVars, uartVars>>

(* _sio_reads                                                              *)
ReadsHalfReset(length) ==                \* mutant: _inlast is not reset
    LET copied == IF length < incount THEN length ELSE incount
    IN  /\ incount > 0
        /\ got' = [k \in 1 .. copied |-> inbuffer[(innext + k - 1) % (BufSize + 1)]]
        /\ incount' = incount - copied
        /\ innext' = IF copied = incount THEN 0 ELSE (innext + copied) % (BufSize + 1)
        /\ UNCHANGED <<inbuffer, inlast, waiting>>

Reads(length) ==
    LET copied == IF length < incount THEN length ELSE incount
    IN  /\ incount > 0
        /\ got' = [k \in 1 .. copied |-> inbuffer[(innext + k - 1) % (BufSize + 1)]]
        /\ incount' = incount - copied
        /\ IF copied = incount
           THEN innext' = 0 /\ inlast' = 0
           ELSE innext' = (innext + copied) % (BufSize + 1) /\ inlast' = inlast
        /\ UNCHANGED <<inbuffer, waiting>>

(* read() on CHAN_SIO: a reader that gets nothing waits.                   *)
Read(length) ==
    /\ \/ Reads(length)
       \/ /\ incount = 0
          /\ waiting < MaxWaiting
          /\ waiting' = waiting + 1
          /\ UNCHANGED <<inbuffer, inlast, innext, incount, got>>
    /\ UNCHANGED <<outVars, uartVars>>

-----------------------------------------------------------------------------
(* Output.                                                                 *)

(* Where the loop of _sio_write puts its k-th character.                   *)
OutCell(k) ==
    IF outlast < BufSize THEN (outlast + k - 1) % BufSize
    ELSE IF k = 1 THEN outlast ELSE k - 2

(* The loop of _sio_write: the characters of s as far as there is room, in *)
(* the buffer and in count.                                                *)
Fits(s) == IF outcount >= BufSize THEN 0 ELSE Min({Len(s), BufSize - outcount})

Put(s) ==
    [i \in 0 .. BufSize |->
       IF \E k \in 1 .. Fits(s) : OutCell(k) = i
       THEN s[CHOOSE k \in 1 .. Fits(s) : OutCell(k) = i] ELSE outbuffer[i]]

(* _outlast behind the last of them; past the end it wraps, from wherever. *)
LastAfter(s) ==
    LET next == OutCell(Fits(s)) + 1
    IN  IF Fits(s) = 0 THEN outlast ELSE IF next >= BufSize THEN 0 ELSE next

(* _sio_writec of the first character when nothing is being sent: the      *)
(* transmitter is started.  A line feed follows the carriage return it     *)
(* starts with to the end of the buffer, where _outlast is not wrapped.    *)
Start(c, rest) ==
    /\ IF c = LF
       THEN /\ out' = CR
            /\ outbuffer' = [Put(rest) EXCEPT ![LastAfter(rest)] = LF]
            /\ outlast' = LastAfter(rest) + 1
            /\ outcount' = outcount + Fits(rest) + 1
       ELSE /\ out' = c
            /\ outbuffer' = Put(rest)
            /\ outlast' = LastAfter(rest)
            /\ outcount' = outcount + Fits(rest)
    /\ busy' = TRUE
    /\ sending' = TRUE
    /\ tx_enabled' = TRUE

(* write() on CHAN_SIO                                                     *)
Write(s) ==
    /\ \/ /\ ~sending
          /\ Start(Head(s), Tail(s))
       \/ /\ sending
          /\ outbuffer' = Put(s)
          /\ outlast' = LastAfter(s)
          /\ outcount' = outcount + Fits(s)
          /\ UNCHANGED <<sending, tx_enabled, uartVars>>
    /\ UNCHANGED <<outnext, inVars>>

(* _sio_isr, the transmitter is empty: the next character, or the end of   *)
(* the transmission.                                                       *)
TransmitEndsEarly ==                     \* mutant: stops with the last character
    /\ tx_enabled /\ ~busy
    /\ \/ /\ sending /\ outcount > 0
          /\ out' = outbuffer[outnext]
          /\ busy' = TRUE
          /\ outnext' = (outnext + 1) % BufSize
          /\ outcount' = outcount - 1
          /\ sending' = (outcount > 1)
          /\ UNCHANGED <<outbuffer, outlast, tx_enabled>>
       \/ /\ ~(sending /\ outcount > 0)
          /\ outcount' = 0 /\ outlast' = 0 /\ outnext' = 0
          /\ sending' = FALSE
          /\ tx_enabled' = FALSE
          /\ UNCHANGED <<outbuffer, uartVars>>
    /\ UNCHANGED inVars

Transmit ==
    /\ tx_enabled /\ ~busy
    /\ \/ /\ sending /\ outcount > 0
          /\ out' = outbuffer[outnext]
          /\ busy' = TRUE
          /\ outnext' = (outnext + 1) % BufSize
          /\ outcount' = outcount - 1
          /\ UNCHANGED <<outbuffer, outlast, sending, tx_enabled>>
       \/ /\ ~(sending /\ outcount > 0)
          /\ outcount' = 0 /\ outlast' = 0 /\ outnext' = 0
          /\ sending' = FALSE
          /\ tx_enabled' = FALSE
          /\ UNCHANGED <<outbuffer, uartVars>>
    /\ UNCHANGED inVars

(* The UART has shifted a character out.                                   *)
Shifted == busy /\ busy' = FALSE /\ UNCHANGED <<out, inVars, outVars>>

-----------------------------------------------------------------------------
Strings == UNION {[1 .. n -> Text] : n \in 1 .. MaxWrite}

Next ==
    \/ \E c \in Keys : Receive(c)
    \/ \E length \in Lengths : Read(length)
    \/ \E s \in Strings : Write(s)
    \/ Transmit
    \/ Shifted

Spec == Init /\ [][Next]_vars

(* The UART works, and its interrupt is held until it is taken.            *)
FairSpec == Spec /\ WF_vars(Transmit) /\ WF_vars(Shifted)

-----------------------------------------------------------------------------
(* Properties.                                                             *)

(* The pointers and the counters tell the same story, and no pointer has   *)
(* left its buffer, for readers that empty the buffer often enough.        *)
RingsAgree ==
    /\ inlast = innext + incount /\ inlast <= BufSize
    /\ (outnext + outcount) % BufSize = outlast

(* Output that waits has an interrupt coming: the transmitter is never     *)
(* stopped while characters are in the buffer, nor armed for nothing.      *)
TransmitterArmed ==
    /\ sending = tx_enabled
    /\ outcount > 0 => sending
    /\ busy => sending

(* Between any two operations pointers, counters and flags of both buffers *)
(* agree, and the transmitter is armed exactly while there is output.      *)
DriverConsistent == TypeOK /\ RingsAgree /\ TransmitterArmed

(* No character is put in the UART before the last one has left it.        *)
NoOverrun == [][busy => UNCHANGED out]_vars

(* The buffers implement the line: nothing is lost, doubled or reordered,  *)
(* and what was accepted is sent.                                          *)
Window(buffer, from, count, size) ==
    [k \in 1 .. count |-> buffer[(from + k - 1) % size]]

Serial == INSTANCE SerialLine
    WITH Capacity <- BufSize, Keys <- Received,
         typed <- Window(inbuffer, innext, incount, BufSize + 1),
         pending <- Window(outbuffer, outnext, outcount, BufSize)

ImplementsLine == Serial!LineSpec

-----------------------------------------------------------------------------
(* What comments of the code say and the code does not do.                 *)

(* sio.c:166: the character is added to the input buffer if there is room. *)
StoredInBuffer == [][incount' = incount + 1 => inlast < BufSize]_vars

(* sio.c:512: _sio_writec maps LF to CR LF.                                *)
LineFeedFollows == [][busy' /\ ~busy /\ out = CR => out' = LF]_vars
=============================================================================
