------------------------------- MODULE MCKmem -------------------------------
(* A memory map in which three pages and, behind a hole, one page are      *)
(* left: below the system, over its end, reserved, without a whole page,   *)
(* non-volatile, to be ignored, over the end of the addresses and behind.  *)
EXTENDS Kmem

Region(base, length) ==
    [valid |-> TRUE, nonvol |-> FALSE, type |-> "usable", base |-> base, length |-> length]

MCMap == {Region(0, 2), Region(2, 9), [Region(11, 1) EXCEPT !.type = "reserved"],
          Region(12, 1), [Region(13, 2) EXCEPT !.nonvol = TRUE],
          [Region(15, 1) EXCEPT !.valid = FALSE], Region(16, 4), Region(20, 2)}
=============================================================================
