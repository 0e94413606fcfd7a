---------------------------- MODULE MCLineEditor ----------------------------
(* A character and a blank to type. As the first word b has two ways to go   *)
(* on, as a later one it is a directory, whose two names begin alike.        *)
EXTENDS LineEditor

MCCommands == {<<"b", "a">>}
MCTree     == [d \in {<<".">>, <<"b">>} |->
                 IF d = <<".">> THEN {<<"b">>, <<".">>} ELSE {<<"a", "a">>, <<"a", "b">>}]
MCHome     == <<"b">>
=============================================================================
