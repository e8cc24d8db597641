------------------------------ MODULE TypeAhead ------------------------------
(***************************************************************************)
(* What the console promises of typing: characters are handed out once, in *)
(* the order of their keys; a key that finds Room characters waiting is    *)
(* ignored, and no other is.                                               *)
(***************************************************************************)
EXTENDS Naturals, Sequences

CONSTANTS Chars, Room

VARIABLES
    pending,      \* characters that wait to be read
    delivered     \* what the last step handed out

Init ==
    /\ pending = <<>>
    /\ delivered = <<>>

Type(c) ==
    /\ pending' = IF Len(pending) < Room THEN Append(pending, c) ELSE pending
    /\ delivered' = <<>>

Take ==
    /\ pending # <<>>
    /\ pending' = Tail(pending)
    /\ delivered' = <<Head(pending)>>

Other ==
    /\ delivered' = <<>>
    /\ UNCHANGED pending

Next == Take \/ Other \/ \E c \in Chars : Type(c)

Spec == Init /\ [][Next]_<<pending, delivered>>
=============================================================================
