---------------------------- MODULE FlexScanner -----------------------------
(* The lexer that flex made of shell.l (lab3/lex.yy.cc), with the actions of *)
(* its rules: it reads its input in pieces into a buffer, runs the automaton *)
(* over it, and pushes expansions back in front of what it has read.         *)
(*                                                                           *)
(* b.at is yytext_ptr's place in yy_ch_buf and b.rest the characters from    *)
(* there to the end of what was read, of which yyinput has taken b.taken.    *)
EXTENDS FlexTables, ShellRules

CONSTANTS Texts,             \* the inputs
          Values, Outputs,   \* of a variable, and of a substituted command
          YY_BUF_SIZE, YY_READ_BUF_SIZE, YYLMAX

ASSUME LimitsAssumption == /\ YY_READ_BUF_SIZE \in Nat \ {0}
                           /\ YY_READ_BUF_SIZE < YYLMAX + 1
                           /\ YYLMAX <= YY_BUF_SIZE

VARIABLES file,   \* the input not yet read
          tty,    \* yy_is_interactive
          b,      \* YY_CURRENT_BUFFER
          pc,     \* scan, refill, last, paren (in yyinput's loop), eof, fatal, lost
          paren,  \* the rule whose text yyinput collects, and paren_count
          token,  \* the last token, with its text
          again   \* history: some expansion may expand once more

vars == <<file, tty, b, pc, paren, token, again>>

NoToken == << 0, <<>> >>
NoParen == [act |-> 0, count |-> 0]
Homes   == {Users[u] : u \in DOMAIN Users} \cup {<<>>}

(* yyrestart, yy_init_buffer and yy_flush_buffer: the buffer keeps its size. *)
Flushed(size) == [at |-> 0, rest |-> <<>>, taken |-> 0, size |-> size,
                  pending |-> FALSE, full |-> FALSE]

Init == /\ file \in Texts
        /\ tty \in BOOLEAN
        /\ b = Flushed(YY_BUF_SIZE)
        /\ pc = "scan" /\ paren = NoParen /\ token = NoToken /\ again = FALSE

-----------------------------------------------------------------------------
(* yy_get_next_buffer: what is kept moves to the front, then as much is read *)
(* as fits; a terminal gives no more than a line.                            *)
RECURSIVE Grow(_, _)
Grow(size, kept) == IF size - kept - 1 > 0 THEN size ELSE Grow(2 * size, kept)

Room == LET free == Grow(b.size, Len(b.rest)) - Len(b.rest) - 1
        IN  IF free > YY_READ_BUF_SIZE THEN YY_READ_BUF_SIZE ELSE free

EndOfLine == SelectInSeq(file, LAMBDA c : c = NL)
Least(i, j) == IF i < j THEN i ELSE j

Amount == IF b.pending THEN 0
          ELSE IF tty /\ EndOfLine # 0 THEN Least(Room, EndOfLine)
          ELSE Least(Room, Len(file))

(* Its terminal has not given a whole line, and has no end.                  *)
Blocked == tty /\ ~b.pending /\ EndOfLine = 0

Moved == [b EXCEPT !.at = 0, !.size = IF b.pending THEN @ ELSE Grow(@, Len(b.rest))]

Read == /\ ~Blocked /\ Amount > 0
        /\ \E n \in {Amount} :
             /\ b' = [Moved EXCEPT !.rest = @ \o SubSeq(file, 1, n)]
             /\ file' = SubSeq(file, n + 1, Len(file))
        /\ UNCHANGED <<tty, paren, token, again>>

AtEndOfFile == ~Blocked /\ Amount = 0

-----------------------------------------------------------------------------
\* Mutant: the shift leaves what was read where the next read will go.
UnputNoShift(c, x) ==
  IF x.full THEN x
  ELSE IF x.at < 2 THEN [x EXCEPT !.at = x.size, !.rest = <<c>>]
  ELSE [x EXCEPT !.at = @ - 1, !.rest = <<c>> \o @]

(* yyunput, with the shift to the buffer's end when there is no room in front*)
Unput(c, x) ==
  LET at == IF x.at < 2 THEN x.size - Len(x.rest) ELSE x.at
  IN  IF x.full \/ at < 2 THEN [x EXCEPT !.full = TRUE]
      ELSE [x EXCEPT !.at = at - 1, !.rest = <<c>> \o @]

After(n) == [b EXCEPT !.at = @ + n, !.rest = SubSeq(@, n + 1, Len(@)), !.taken = 0]

Deliver(t, n) == /\ token' = t
                 /\ b' = After(n)
                 /\ pc' = "scan" /\ paren' = NoParen
                 /\ UNCHANGED again

PushBack(text, n) ==
  \E x \in {FoldRight(Unput, text, After(n))} :
    /\ b' = x
    /\ pc' = IF x.full THEN "fatal" ELSE "scan"
    /\ paren' = NoParen
    /\ again' = (again \/ \E i \in DOMAIN text : text[i] \in {"$", "~", "*", "?"})
    /\ UNCHANGED token

-----------------------------------------------------------------------------
(* wildcardToRegex: a regular expression, character by character. A backslash*)
(* that is left in the word goes, and the character after it stays bare.     *)
WildcardToRegex(p) ==
  LET from[k \in 1 .. Len(p) + 1] ==
        IF k > Len(p) THEN <<"$">>
        ELSE CASE p[k] = "*" -> <<".", "*">> \o from[k + 1]
               [] p[k] = "?" -> <<".">> \o from[k + 1]
               [] p[k] = "\\" /\ k < Len(p) -> <<p[k + 1]>> \o from[k + 2]
               [] p[k] \in {".", "^", "$", "[", "]", "(", ")", "{", "}", "+", "|"} ->
                    <<"\\", p[k]>> \o from[k + 1]
               [] OTHER -> <<p[k]>> \o from[k + 1]
  IN  <<"^">> \o from[1]

(* regexec: ^ and $ hold the ends, . is any character, * repeats what is     *)
(* before it, \ takes a character for itself, and the rest are themselves.   *)
Regexec(re, name) ==
  LET atom(k) == IF re[k] = "\\" THEN 2 ELSE 1
      one(k, c) == IF re[k] = "\\" THEN re[k + 1] = c ELSE re[k] \in {".", c}
      repeated(k) == k + atom(k) <= Len(re) /\ re[k + atom(k)] = "*"
      m[k \in 1 .. Len(re) + 1, j \in 1 .. Len(name) + 1] ==
        IF k > Len(re) THEN TRUE
        ELSE IF re[k] = "$" THEN j > Len(name)
        ELSE LET more == j <= Len(name) /\ one(k, name[j])
             IN  IF repeated(k) THEN m[k + atom(k) + 1, j] \/ (more /\ m[k, j + 1])
                 ELSE more /\ m[k + atom(k), j + 1]
  IN  m[2, 1]

IsWild(w) == \E i \in DOMAIN w : w[i] \in Wild

(* regcomp takes every expression made of the characters of Texts, and a     *)
(* directory that cannot be opened has no entries.                           *)
MatchesIn(prefix, component) ==
  Sorted({e \in Entries(Directory(prefix)) :
            /\ e \in Dots => component[1] = "." /\ Len(component) # 1
            /\ e[1] = "." => component[1] = "."
            /\ Regexec(WildcardToRegex(component), e)})

RECURSIVE ExpandWildcard(_, _)
ExpandWildcard(prefix, suffix) ==
  IF suffix = <<>> THEN <<prefix>>
  ELSE LET slash     == SelectInSeq(suffix, LAMBDA c : c = "/")
           component == IF slash = 0 THEN suffix ELSE SubSeq(suffix, 1, slash - 1)
           rest      == IF slash = 0 THEN <<>> ELSE SubSeq(suffix, slash + 1, Len(suffix))
       IN  IF ~IsWild(component) THEN ExpandWildcard(InDir(prefix, component), rest)
           ELSE FoldLeft(LAMBDA r, e : r \o ExpandWildcard(InDir(prefix, e), rest),
                         <<>>, MatchesIn(prefix, component))

(* The word rule's results: an absolute path starts with its first component.*)
Results(text) ==
  LET slash == SelectInSubSeq(text, 2, Len(text), LAMBDA c : c = "/")
      first == SubSeq(text, 2, slash - 1)
      all   == IF text[1] # "/" THEN ExpandWildcard(<<>>, text)
               ELSE IF slash = 0 \/ IsWild(first) THEN ExpandWildcard(<<"/">>, Tail(text))
               ELSE ExpandWildcard(<<"/">> \o first, SubSeq(text, slash + 1, Len(text)))
  IN  Sorted({all[i] : i \in DOMAIN all})

-----------------------------------------------------------------------------
(* The actions of the rules, on a match of n characters.                     *)
Skip(r, n) == r \in {2, 23} /\ PushBack(<<>>, n)

Operator(r, n) == /\ r \in {1, 3, 4, 5, 6, 7, 8, 9, 10, 11, 12, 14, 15, 16}
                  /\ Deliver(<<r, SubSeq(b.rest, 1, n)>>, n)

QuotedWord(r, n) == r \in {20, 21} /\ Deliver(<<r, Unescape(SubSeq(b.rest, 2, n - 1))>>, n)

PlainWord(r, n) ==
  /\ r = 22
  /\ \E w \in {SubSeq(b.rest, 1, n)} :
     \E results \in {IF HasWildcard(w) THEN Results(Unescape(w)) ELSE <<>>} :
       \/ results = <<>> /\ Deliver(<<r, Unescape(w)>>, n)
       \/ results # <<>> /\ PushBack(Joined(results), n)

Variable(r, n) == r = 17 /\ \E v \in Values : PushBack(v, n)

HomeDirectory(r, n) == r = 19 /\ \E h \in Homes : PushBack(Tilde(SubSeq(b.rest, 1, n), h), n)

Substitution(r, n) == /\ r \in {13, 18}
                      /\ paren' = [act |-> r, count |-> 1]
                      /\ b' = [b EXCEPT !.taken = n]
                      /\ pc' = "paren"
                      /\ UNCHANGED <<token, again>>

Fatal == pc' = "fatal" /\ UNCHANGED <<b, paren, token, again>>

(* YY_DO_BEFORE_ACTION copies the text to yytext, whatever the action is.    *)
Rule(r, n) ==
  IF n >= YYLMAX THEN Fatal
  ELSE \/ Skip(r, n) \/ Operator(r, n) \/ QuotedWord(r, n) \/ PlainWord(r, n)
       \/ Variable(r, n) \/ HomeDirectory(r, n) \/ Substitution(r, n)

Scan ==
  /\ pc = "scan"
  /\ \E m \in {Match(b.rest \o <<EOB, EOB>>, YY_START, 1, NoneSeen)} :
       \/ m.act # YY_END_OF_BUFFER /\ Rule(m.act, m.cp - 1)
       \/ /\ m.act = YY_END_OF_BUFFER
          /\ IF m.cp - 1 >= YYLMAX THEN Fatal
             ELSE pc' = "refill" /\ UNCHANGED <<b, paren, token, again>>
  /\ UNCHANGED <<file, tty>>

(* EOB_ACT_CONTINUE_SCAN: the automaton starts over what it has and what came*)
ContinueScan == pc = "refill" /\ Read /\ pc' = "scan"

\* Mutant: the automaton starts over what it has, with nothing new.
EofScans ==
  /\ pc = "refill" /\ AtEndOfFile /\ b.rest # <<>>
  /\ b' = [Moved EXCEPT !.pending = TRUE] /\ pc' = "scan"
  /\ UNCHANGED <<file, tty, paren, token, again>>

(* EOB_ACT_LAST_MATCH                                                        *)
EofPending ==
  /\ pc = "refill" /\ AtEndOfFile /\ b.rest # <<>>
  /\ b' = [Moved EXCEPT !.pending = TRUE] /\ pc' = "last"
  /\ UNCHANGED <<file, tty, paren, token, again>>

LastMatch ==
  /\ pc = "last"
  /\ \E m \in {MatchTo(b.rest, YY_START, 1, Len(b.rest) + 1, NoneSeen)} :
       Rule(m.act, m.cp - 1)
  /\ UNCHANGED <<file, tty>>

(* EOB_ACT_END_OF_FILE                                                       *)
EndOfFile ==
  /\ pc = "refill" /\ AtEndOfFile /\ b.rest = <<>>
  /\ b' = Flushed(b.size) /\ pc' = "eof"
  /\ UNCHANGED <<file, tty, paren, token, again>>

-----------------------------------------------------------------------------
(* yyinput in the loop of "<(" and "$(": the next character, a read when the *)
(* buffer is used up, and 0 at the end of the input, which the loop takes for*)
(* one more character.                                                       *)
Close(n) ==
  \/ paren.act = 13 /\ Deliver(<<13, <<>>>>, n)
  \/ paren.act = 18 /\ \E o \in Outputs : PushBack(Flatten(o), n)

InputCharacter ==
  /\ pc = "paren" /\ b.taken < Len(b.rest)
  /\ \E c \in {b.rest[b.taken + 1]} :
     \E count \in {paren.count + (IF c = "(" THEN 1 ELSE IF c = ")" THEN -1 ELSE 0)} :
       \/ count = 0 /\ Close(b.taken + 1)
       \/ /\ count # 0
          /\ b' = [b EXCEPT !.taken = @ + 1]
          /\ paren' = [paren EXCEPT !.count = count]
          /\ UNCHANGED <<pc, token, again>>
  /\ UNCHANGED <<file, tty>>

InputRead == pc = "paren" /\ b.taken = Len(b.rest) /\ Read /\ UNCHANGED pc

InputEnd ==
  /\ pc = "paren" /\ b.taken = Len(b.rest) /\ AtEndOfFile
  /\ b' = Flushed(Moved.size) /\ pc' = "lost"
  /\ UNCHANGED <<file, tty, paren, token, again>>

InputForEver == pc = "lost" /\ UNCHANGED vars

Next == \/ Scan \/ ContinueScan \/ EofPending \/ LastMatch \/ EndOfFile
        \/ InputCharacter \/ InputRead \/ InputEnd \/ InputForEver

Spec == Init /\ [][Next]_vars /\ WF_vars(Next)

-----------------------------------------------------------------------------
(* Wherever the input is cut by reads, by the buffer's end or by what was    *)
(* pushed back, the tokens are those of the longest matches of one stream.   *)
Words == INSTANCE ShellWords WITH
           stream <- b.rest \o file,
           state  <- IF pc \in {"fatal", "lost"} THEN "stopped"
                     ELSE IF pc = "eof" THEN "eof" ELSE "open"
ImplementsShellWords == Words!Spec

(* The lexer gets to the end of its input, or waits for its terminal: no text*)
(* is scanned twice for ever. Three things are left out. A text it pushes    *)
(* back that may expand again (it may, for ever: shell.l:436, 513) counts as *)
(* reached; so do an expansion that does not fit the buffer, which ends the  *)
(* shell, and a parenthesis open at the end, where the code goes on asking   *)
(* for a character that never comes ("lost").                                *)
Waiting  == Blocked /\ (pc = "refill" \/ (pc = "paren" /\ b.taken = Len(b.rest)))
ScanEnds == <>(pc \in {"eof", "fatal", "lost"} \/ Waiting \/ again)

(* A terminal is not asked for another line while a whole one is unread, so  *)
(* that a command runs when it is entered; only an open quote, brace or      *)
(* parenthesis spans lines.                                                  *)
OpenText == \/ pc = "paren"
            \/ b.rest[1] \in {"\"", "'"}
            \/ Len(b.rest) > 1 /\ SubSeq(b.rest, 1, 2) = <<"$", "{">>
LineBeforeRead ==
  [][tty /\ file' # file => NL \notin Range(b.rest) \/ OpenText]_vars
=============================================================================
