------------------------------- MODULE MCLogin -------------------------------
(* User a has number 1 and password t, user ` the same number and no       *)
(* password, and the number of user t is none.  A line is two characters;  *)
(* ` leaves the shell, and t starts a test.                                *)
EXTENDS Login

ConstShadow   == <<97, 58, 49, 58, 116, 10,  96, 58, 49, 10,  116, 58, 120, 58, 10>>
ConstTypeable == {97, 116, 96, 0, Backspace, LF}
ConstExits    == {<<96>>}
ConstTests    == {<<116>>}
=============================================================================
