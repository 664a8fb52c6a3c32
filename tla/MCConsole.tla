------------------------------ MODULE MCConsole ------------------------------
(***************************************************************************)
(* A page of three rows of five cells, two characters and two files.       *)
(***************************************************************************)
EXTENDS Console

MCTyped    == {"c", Blank}
MCSpots    == {0, Cells - 2}
MCCommands == <<<<"c", "c", "c", "c", "c", "c">>>>
MCListings == {<<>>, <<<<"x">>, <<"o">>>>}
MCEditLine == <<"c">>
MCTexts    == {<<>>, <<"c", Newline, "c">>}
=============================================================================
