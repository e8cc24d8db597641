------------------------------ MODULE FileStore ------------------------------
(***************************************************************************)
(* What the file system promises of the contents of files: a file is a     *)
(* text that grows at its end, is read in part, and goes as a whole; a     *)
(* call does one of these to one file, or leaves every text alone.         *)
(*                                                                         *)
(* A new file has one byte already, which nobody has chosen; no text at    *)
(* all stands for a file that does not exist.                              *)
(***************************************************************************)
EXTENDS Naturals, Sequences

CONSTANTS
    Files, Bytes,
    Texts,        \* what is written by one call
    MaxLen        \* the length of the longest text

VARIABLES
    text,         \* the text of each file
    reply         \* what the last call copied, or said it wrote

Exists(f) == text[f] # <<>>

Init ==
    /\ text \in [Files -> Seq(Bytes)]
    /\ reply = <<>>

Create(f) ==
    /\ ~Exists(f)
    /\ \E b \in Bytes : text' = [text EXCEPT ![f] = <<b>>]
    /\ reply' = <<>>

Remove(f) ==
    /\ Exists(f)
    /\ text' = [text EXCEPT ![f] = <<>>]
    /\ reply' = <<>>

(* The byte nobody has chosen can change until something is behind it.     *)
Extend(f, s) ==
    /\ Exists(f)
    /\ \E b \in Bytes :
          /\ b = text[f][1] \/ Len(text[f]) = 1
          /\ text' = [text EXCEPT ![f] = <<b>> \o Tail(@) \o s]
    /\ reply' = s

(* A text that would become too long may be lost, and reported as written. *)
Lose(f, s) ==
    /\ Len(text[f]) + Len(s) = MaxLen
    /\ reply' = s
    /\ UNCHANGED text

Read(f, from, to) ==
    /\ Exists(f)
    /\ to <= Len(text[f])
    /\ reply' = SubSeq(text[f], from, to)
    /\ UNCHANGED text

Fail ==
    /\ reply' = <<>>
    /\ UNCHANGED text

Next ==
    \/ Fail
    \/ \E f \in Files :
          \/ Create(f) \/ Remove(f)
          \/ \E s \in Texts : Extend(f, s) \/ Lose(f, s)
          \/ \E from, to \in 1 .. MaxLen : Read(f, from, to)

Spec == Init /\ [][Next]_<<text, reply>>
=============================================================================
