------------------------------ MODULE MCConsole ------------------------------
(* A screen, a keyboard of one key (d, or Enter with shift), two contexts of*)
(* two lines, and texts for model checking.                                 *)
EXTENDS Console

MCPinwheel == <<124>>
MCTraces   == {<<<<c>>, <<c, c>>>> : c \in {49, 50}}
MCTable    == [s \in BOOLEAN |-> [d |-> IF s THEN LF ELSE 100]]
MCStrings  == {<<100>>, <<CR, LF>>}
MCFormats  == {[conv |-> "d", width |-> 0, left |-> FALSE, fill |-> Blank],
               [conv |-> "x", width |-> 3, left |-> FALSE, fill |-> Blank],
               [conv |-> "o", width |-> 3, left |-> TRUE, fill |-> Blank]}
MCNumbers  == {-128, 10}
=============================================================================
