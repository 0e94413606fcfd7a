--------------------------- MODULE MCFlexScanner ----------------------------
(* Every text of up to three characters, one of each class that the automaton*)
(* tells apart, and longer ones, each read a few characters at a time.       *)
EXTENDS FlexScanner

MCCharOrder == << "*", ".", "/", "?", "a", "b", "h" >>

MCTree == (<<".">> :> {<<"a">>, <<"b">>, <<".", "a">>, <<"h">>}) @@
          (<<"h">> :> {<<"a", "b">>, <<"b">>}) @@
          (<<"/">> :> {<<"a">>, <<"h">>}) @@
          (<<"/", "h">> :> {<<"b">>})
MCUsers == (<<"b">> :> <<"/", "h">>)

MCValues  == {<<>>, <<"a", " ", "b">>, <<"$", "{", "a", "}">>}
MCOutputs == {<<"a", "\n">>, <<"\n", "b", " ", "a", "\n", "\n">>}

Alphabet == {"a", " ", "\n", "\"", "$", "&", "'", "(", ")", "2", "<", ">", "\\",
             "{", "|", "}", "~"}

Longer == {
  <<"$", "{", "a", "}">>, <<"a", "$", "{", "a", "}", "b", "\n">>,
  <<"$", "(", "a", ")", "b">>, <<"$", "(", "a", "(", ")", "\n", "b", ")", "a", "\n">>,
  <<"<", "(", "a", " ", "b", " ", "b", "a", ")", "\n">>, <<"<", "(", "a", "\n", "a">>,
  <<"$", "(", "a", "\n", "a", "\n">>,
  <<"~", "b", "/", "a", "\n">>, <<"~", "/", "a", "|", "~">>, <<"~", "a", "\n">>,
  <<"*", "\n", "a">>, <<"a", " ", "h", "/", "*", "b">>, <<"h", "/", "?", "\n">>,
  <<"?", "/", "?", "\n">>, <<".", "*", "\n">>, <<"h", "/", "?", ".", "\n">>, <<"/", "*", "/", "b">>,
  <<"/", "h", "/", "*">>, <<"/", "?", "\n">>, <<"\\", "*", "a">>, <<"*", "h", "h", "\n">>,
  <<"2", ">", ">", "&", "a", "\n">>, <<"2", ">", "&", "2", "a", ">", ">", "&", "\n">>,
  <<"a", "\n", "b", "\n", "a", "\n">>, <<"a", "b", "a", "b", "\n">>,
  <<"a", "b", "a", "b", "a", "b", "\n">>, <<"a", " ", "b", " ", "a", " ", "b", " ", "a">>,
  <<"\"", "a", "\n", "b", "\"">>, <<"'", "a", "\n", "\n", "b", "a", "\n">>,
  <<"\"", "\\", "\"", "\"", "\n">>, <<"a", "\\", "\n", "b", "\n">>,
  <<"$", "{", "\n", "a", "}", "\n">> }

MCTexts == {<<>>} \cup UNION {[1 .. n -> Alphabet] : n \in 1 .. 3} \cup Longer
=============================================================================
