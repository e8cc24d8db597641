------------------------------- MODULE MCFiles -------------------------------
(* Texts for model checking.                                               *)
EXTENDS Files

MCStrings == {<<"a">>, <<"a", "b">>}
MCAdded   == <<<<"a">>>>
=============================================================================
