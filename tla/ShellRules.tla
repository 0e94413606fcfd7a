----------------------------- MODULE ShellRules -----------------------------
(* The rules of lab3's shell.l, each as the set of texts it matches, and the *)
(* text that some of them put in place of what they matched. A character is a*)
(* string of one; a blank stands for the tab as well.                        *)
EXTENDS Integers, FiniteSets, SequencesExt

CONSTANTS Tree,      \* directories and their entries, as texts; other names are files
          Users,     \* the home directories of the known users
          CharOrder  \* the characters of file names in their order

Blank == " "
NL    == "\n"
Wild  == {"*", "?"}

-----------------------------------------------------------------------------
(* A text of characters other than some and of pairs \x, x being no newline. *)
Escapable(w, Special) ==
  LET ok[i \in 1 .. Len(w) + 1] ==
        \/ i > Len(w)
        \/ w[i] \notin Special \cup {"\\"} /\ ok[i + 1]
        \/ w[i] = "\\" /\ i < Len(w) /\ w[i + 1] # NL /\ ok[i + 2]
  IN  ok[1]

Operators == { << <<"\n">>, 1 >>, << <<"2", ">", ">", "&">>, 3 >>, << <<"2", ">", "&">>, 4 >>,
               << <<"2", ">", ">">>, 5 >>, << <<"2", ">">>, 6 >>, << <<">", ">", "&">>, 7 >>,
               << <<">", "&">>, 8 >>, << <<">", ">">>, 9 >>, << <<">">>, 10 >>,
               << <<"|">>, 11 >>, << <<"&">>, 12 >>, << <<"<", "(">>, 13 >>,
               << <<"<">>, 14 >>, << <<"(">>, 15 >>, << <<")">>, 16 >>, << <<"$", "(">>, 18 >> }

WordEnds     == {Blank, NL, "|", "&", "<", ">", "$"}
WordChar(c)  == c \notin WordEnds \cup {"\\"}
Quoted(w, q) == /\ Len(w) >= 2 /\ w[1] = q /\ Last(w) = q
                /\ Escapable(SubSeq(w, 2, Len(w) - 1), {q})

(* The numbers of the rules that match the whole of a text.                  *)
Rules(w) ==
  {o[2] : o \in {p \in Operators : p[1] = w}}
    \cup (IF w = <<Blank>> THEN {2} ELSE {})
    \cup (IF Len(w) >= 4 /\ w[1] = "$" /\ w[2] = "{" /\ Last(w) = "}"
             /\ \A i \in 3 .. Len(w) - 1 : w[i] # "}" THEN {17} ELSE {})
    \cup (IF w[1] = "~" /\ \A i \in 2 .. Len(w) : WordChar(w[i]) THEN {19} ELSE {})
    \cup (IF Quoted(w, "\"") THEN {20} ELSE {})
    \cup (IF Quoted(w, "'") THEN {21} ELSE {})
    \cup (IF Escapable(w, WordEnds) THEN {22} ELSE {})
    \cup (IF Len(w) = 1 THEN {23} ELSE {})

(* The longest match at the head of a text, and the first of its rules.      *)
Longest(s) ==
  LET lengths == {n \in 1 .. Len(s) : Rules(SubSeq(s, 1, n)) # {}}
      n       == CHOOSE m \in lengths : \A k \in lengths : k <= m
      rules   == Rules(SubSeq(s, 1, n))
  IN  [act |-> CHOOSE r \in rules : \A q \in rules : r <= q, len |-> n]

-----------------------------------------------------------------------------
(* What the actions of the quotes and of a word make of their text: a        *)
(* backslash goes, unless it is the last character.                          *)
Unescape(w) ==
  LET from[i \in 1 .. Len(w) + 2] ==
        IF i > Len(w) THEN <<>>
        ELSE IF w[i] = "\\" /\ i < Len(w) THEN <<w[i + 1]>> \o from[i + 2]
        ELSE <<w[i]>> \o from[i + 1]
  IN  from[1]
Inside(w) == SubSeq(w, 2, Len(w) - 1)

HasWildcard(w) ==
  LET from[i \in 1 .. Len(w) + 2] ==
        IF i > Len(w) THEN FALSE
        ELSE IF w[i] = "\\" /\ i < Len(w) THEN from[i + 2]
        ELSE w[i] \in Wild \/ from[i + 1]
  IN  from[1]

(* ~, ~/x and ~user/x; what is not known stands for itself. home is <<>> when*)
(* HOME is not set.                                                          *)
Tilde(w, home) ==
  IF Len(w) = 1 \/ w[2] = "/"
  THEN IF home = <<>> THEN w ELSE home \o Tail(w)
  ELSE LET name == SelectInSeq(w, LAMBDA c : c = "/")
           k    == IF name = 0 THEN Len(w) ELSE name - 1
           user == SubSeq(w, 2, k)
       IN  IF user \in DOMAIN Users THEN Users[user] \o SubSeq(w, k + 1, Len(w)) ELSE w

(* The output of $( ) as words of the line: newlines are blanks, and none is *)
(* left at the end.                                                          *)
Flatten(s) ==
  LET flat == [i \in DOMAIN s |-> IF s[i] = NL THEN Blank ELSE s[i]]
      kept == {i \in DOMAIN flat : flat[i] # Blank}
  IN  SubSeq(flat, 1, IF kept = {} THEN 0 ELSE CHOOSE k \in kept : \A i \in kept : i <= k)

-----------------------------------------------------------------------------
(* Wildcards, by what they promise: the names that match component by        *)
(* component, hidden ones only where the pattern says so. A backslash in the *)
(* word itself (typed as two) is not covered: the code drops it there and    *)
(* takes the next character as a regular expression's (shell.l:183).         *)
Before(a, b) ==
  LET rank(c) == CHOOSE i \in DOMAIN CharOrder : CharOrder[i] = c
      d == {i \in 1 .. Len(a) : i > Len(b) \/ a[i] # b[i]}
      k == CHOOSE i \in d : \A j \in d : i <= j
  IN  IF d = {} THEN Len(a) < Len(b) ELSE k <= Len(b) /\ rank(a[k]) < rank(b[k])
Sorted(S) == SetToSortSeq(S, Before)

Covers(p, name) ==    \* * any text, ? any character, every other itself
  LET m[i \in 1 .. Len(p) + 1, j \in 1 .. Len(name) + 1] ==
        IF i > Len(p) THEN j > Len(name)
        ELSE IF p[i] = "*" THEN m[i + 1, j] \/ (j <= Len(name) /\ m[i, j + 1])
        ELSE j <= Len(name) /\ (p[i] = "?" \/ p[i] = name[j]) /\ m[i + 1, j + 1]
  IN  m[1, 1]

Dots == {<<".">>, <<".", ".">>}
(* What readdir gives; nothing where opendir fails.                          *)
Entries(dir) == (IF dir \in DOMAIN Tree THEN Tree[dir] \cup Dots ELSE {})
Shown(p, name) == /\ name[1] = "." => p[1] = "."
                  /\ name \in Dots => Len(p) > 1

Components(w) ==
  LET cut == {0, Len(w) + 1} \cup {i \in DOMAIN w : w[i] = "/"}
      s   == SetToSortSeq(cut, <)
      all == [i \in 1 .. Len(s) - 1 |-> SubSeq(w, s[i] + 1, s[i + 1] - 1)]
  IN  IF Last(all) = <<>> THEN Front(all) ELSE all

InDir(dir, name) == IF dir = <<>> THEN name
                    ELSE IF dir = <<"/">> THEN <<"/">> \o name ELSE dir \o <<"/">> \o name
Directory(dir) == IF dir = <<>> THEN <<".">> ELSE dir

(* The paths a word with wildcards stands for.                               *)
Paths(w) ==
  LET absolute == w[1] = "/"
      parts    == Components(IF absolute THEN Tail(w) ELSE w)
      start    == IF absolute THEN <<"/">> ELSE <<>>
      names(dir, p) == IF \E i \in DOMAIN p : p[i] \in Wild
                       THEN {e \in Entries(Directory(dir)) : Shown(p, e) /\ Covers(p, e)}
                       ELSE {p}
      below[i \in 0 .. Len(parts)] ==
        IF i = 0 THEN {start}
        ELSE UNION {{InDir(d, e) : e \in names(d, parts[i])} : d \in below[i - 1]}
  IN  below[Len(parts)]

Joined(ws) == IF ws = <<>> THEN <<>>
              ELSE FoldLeft(LAMBDA r, w : r \o <<Blank>> \o w, ws[1], Tail(ws))

=============================================================================
