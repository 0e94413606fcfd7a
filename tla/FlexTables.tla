----------------------------- MODULE FlexTables -----------------------------
(* The automaton that flex made of the rules of shell.l (lab3/lex.yy.cc): its*)
(* compressed tables and the steps it takes over the characters of a buffer. *)
EXTENDS Integers, Sequences

EOB == "EOB"                 \* YY_END_OF_BUFFER_CHAR
YY_END_OF_BUFFER == 24
YY_START == 1
Jam == 107                   \* yy_base of the states that have no way on

Entry(t, i) == t[i + 1]

yy_accept == <<
  0, 0, 0, 24, 22, 2, 1, 22, 23, 12, 22, 15, 16, 22, 14, 10, 23, 11, 19, 22, 0,
  22, 0, 20, 0, 18, 0, 22, 0, 21, 0, 6, 13, 8, 9, 19, 20, 0, 0, 21, 0,
  4, 5, 7, 17, 3, 0 >>

(* yy_ec: the classes of the characters the rules tell apart; every other is 1. *)
yy_ec == [c \in {EOB, " ", "\n", "\"", "$", "&", "'", "(", ")", "2", "<", ">", "\\",
                 "{", "|", "}", "~"} |->
  CASE c = EOB -> 0 [] c = " " -> 2 [] c = "\n" -> 3 [] c = "\"" -> 4 [] c = "$" -> 5
    [] c = "&" -> 6 [] c = "'" -> 7 [] c = "(" -> 8 [] c = ")" -> 9 [] c = "2" -> 10
    [] c = "<" -> 11 [] c = ">" -> 12 [] c = "\\" -> 13 [] c = "{" -> 14
    [] c = "|" -> 15 [] c = "}" -> 16 [] c = "~" -> 17]
Class(c) == IF c \in DOMAIN yy_ec THEN yy_ec[c] ELSE 1

yy_meta == << 0, 1, 2, 3, 1, 2, 2, 1, 1, 1, 1, 2, 2, 1, 1, 2, 4, 1 >>

yy_base == <<
  0, 0, 0, 94, 73, 107, 107, 17, 27, 107, 41, 72, 69, 24, 73, 53, 64, 107, 65, 64, 0,
  0, 58, 60, 0, 107, 0, 0, 54, 59, 0, 62, 107, 107, 58, 50, 107, 57, 24, 107, 36,
  107, 32, 107, 107, 107, 107, 79, 83, 87, 91, 95, 98, 102 >>

yy_def == <<
  0, 46, 1, 46, 47, 46, 46, 46, 46, 46, 46, 47, 47, 47, 46, 46, 47, 46, 48, 47, 16,
  7, 49, 47, 50, 46, 51, 10, 52, 47, 53, 46, 46, 46, 46, 48, 46, 49, 51, 46, 52,
  46, 46, 46, 46, 46, 0, 46, 46, 46, 46, 46, 46, 46 >>

yy_nxt == <<
  0, 4, 5, 6, 7, 8, 9, 10, 11, 12, 13, 14, 15, 16, 4, 17, 4, 18, 21, 22, 22,
  23, 22, 22, 21, 21, 21, 21, 22, 22, 24, 21, 22, 21, 21, 25, 31, 20, 45, 46, 44,
  26, 27, 28, 28, 27, 28, 28, 29, 27, 27, 27, 28, 28, 30, 27, 28, 27, 27, 33, 46,
  39, 36, 20, 43, 34, 19, 40, 41, 19, 19, 37, 20, 20, 42, 19, 19, 20, 20, 19, 19,
  32, 20, 19, 35, 20, 20, 35, 22, 22, 22, 22, 21, 21, 46, 21, 38, 38, 38, 28, 28,
  28, 28, 27, 27, 46, 27, 3, 46, 46, 46, 46, 46, 46, 46, 46, 46, 46, 46, 46, 46,
  46, 46, 46, 46 >>

yy_chk == <<
  0, 1, 1, 1, 1, 1, 1, 1, 1, 1, 1, 1, 1, 1, 1, 1, 1, 1, 7, 7, 7,
  7, 7, 7, 7, 7, 7, 7, 7, 7, 7, 7, 7, 7, 7, 8, 13, 13, 42, 40, 38,
  8, 10, 10, 10, 10, 10, 10, 10, 10, 10, 10, 10, 10, 10, 10, 10, 10, 10, 15, 37,
  28, 22, 35, 34, 15, 16, 28, 31, 16, 16, 22, 29, 23, 31, 16, 16, 19, 18, 16, 47,
  14, 12, 47, 48, 11, 4, 48, 49, 49, 49, 49, 50, 50, 3, 50, 51, 51, 51, 52, 52,
  52, 52, 53, 53, 0, 53, 46, 46, 46, 46, 46, 46, 46, 46, 46, 46, 46, 46, 46, 46,
  46, 46, 46, 46 >>

(* The transition of a state on a class: follow yy_def until yy_chk agrees.  *)
Step[s \in 0 .. 53, c \in 0 .. 17] ==
  IF Entry(yy_chk, Entry(yy_base, s) + c) = s THEN Entry(yy_nxt, Entry(yy_base, s) + c)
  ELSE Step[Entry(yy_def, s), IF Entry(yy_def, s) >= 47 THEN Entry(yy_meta, c) ELSE c]

Transition == [s \in 1 .. 46, c \in 0 .. 17 |-> Step[s, c]]

(* The last accepting state seen, and where: yy_last_accepting_state, _cpos. *)
Seen(s, p, last) == IF Entry(yy_accept, s) # 0 THEN [state |-> s, cp |-> p] ELSE last
NoneSeen == [state |-> 0, cp |-> 0]

(* yy_find_action: accept here, or back up to the last accepting state.      *)
FindAction(s, p, last) ==
  IF Entry(yy_accept, s) # 0 THEN [act |-> Entry(yy_accept, s), cp |-> p]
  ELSE [act |-> Entry(yy_accept, last.state), cp |-> last.cp]

RECURSIVE Match(_, _, _, _), MatchTo(_, _, _, _, _), MatchOn(_, _, _, _)

\* Mutant: the automaton always looks at one more character.
MatchOn(ch, s, p, last) ==
  LET t    == Transition[s, Class(ch[p])]
      seen == Seen(s, p, last)
  IN  IF t # 46 /\ p + 1 \in DOMAIN ch
      THEN MatchOn(ch, t, p + 1, seen) ELSE FindAction(t, p + 1, seen)

(* yy_match, from state s and position p on, until there is no way on. The   *)
(* buffer ends in two EOB: the first is matched as a token, YY_END_OF_BUFFER.*)
Match(ch, s, p, last) ==
  LET t    == Transition[s, Class(ch[p])]
      seen == Seen(s, p, last)
  IN  IF Entry(yy_base, t) # Jam
      THEN Match(ch, t, p + 1, seen) ELSE FindAction(t, p + 1, seen)

(* yy_get_previous_state and then yy_find_action: the match of what lies     *)
(* before position n, when nothing comes after it.                           *)
MatchTo(ch, s, p, n, last) ==
  IF p = n THEN FindAction(s, p, last)
  ELSE MatchTo(ch, Transition[s, Class(ch[p])], p + 1, n, Seen(s, p, last))
=============================================================================
