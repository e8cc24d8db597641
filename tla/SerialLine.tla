----------------------------- MODULE SerialLine -----------------------------
(***************************************************************************)
(* What the serial line promises its users, buffers and interrupts aside:  *)
(* the characters typed reach readers in the order they were typed, each   *)
(* once, and the characters a write accepts go out in order, each once.    *)
(* Either side may refuse characters when Capacity of them wait.           *)
(***************************************************************************)
EXTENDS Naturals, Sequences

CONSTANTS Capacity, Keys, Text, MaxWrite

VARIABLES
    typed,     \* typed and not yet read
    got,       \* what the last reader to get anything got
    pending,   \* accepted and not yet sent
    busy,      \* a character is on its way out
    out        \* the last character sent

lineVars == <<typed, got, pending, busy, out>>

Strings == UNION {[1 .. n -> Text] : n \in 1 .. MaxWrite}

LineInit ==
    /\ typed = <<>> /\ got = <<>>
    /\ pending = <<>> /\ ~busy /\ out = "none"

(* A key goes to a reader that waits, or waits for one, or is lost.        *)
Type(c) ==
    /\ UNCHANGED <<pending, busy, out>>
    /\ \/ typed = <<>> /\ got' = <<c>> /\ typed' = <<>>
       \/ Len(typed) < Capacity /\ typed' = Append(typed, c) /\ got' = got

(* A reader takes the oldest characters.                                   *)
Take(n) ==
    /\ n \in 1 .. Len(typed)
    /\ got' = SubSeq(typed, 1, n)
    /\ typed' = SubSeq(typed, n + 1, Len(typed))
    /\ UNCHANGED <<pending, busy, out>>

(* A write is accepted as far as there is room; the first character of an  *)
(* idle line is sent at once.                                              *)
Accept(s) ==
    /\ UNCHANGED <<typed, got>>
    /\ \E n \in 0 .. Len(s) :
          LET all == pending \o SubSeq(s, 1, n)
          IN  \/ /\ n < Len(s) => Len(all) >= Capacity
                 /\ pending' = all
                 /\ UNCHANGED <<busy, out>>
              \/ /\ ~busy /\ pending = <<>> /\ n >= 1
                 /\ n < Len(s) => n > Capacity
                 /\ out' = Head(all)
                 /\ pending' = Tail(all)
                 /\ busy' = TRUE

Send ==
    /\ ~busy /\ pending # <<>>
    /\ out' = Head(pending)
    /\ pending' = Tail(pending)
    /\ busy' = TRUE
    /\ UNCHANGED <<typed, got>>

Sent == busy /\ busy' = FALSE /\ UNCHANGED <<typed, got, pending, out>>

LineNext ==
    \/ \E c \in Keys : Type(c)
    \/ \E n \in 1 .. Capacity : Take(n)
    \/ \E s \in Strings : Accept(s)
    \/ Send
    \/ Sent

(* What may happen, and that whatever was accepted goes out in the end.    *)
LineSafe == LineInit /\ [][LineNext]_lineVars

LineSpec == LineSafe /\ WF_lineVars(Send) /\ WF_lineVars(Sent)
=============================================================================
