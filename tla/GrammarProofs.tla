--------------------------- MODULE GrammarProofs ---------------------------
(* Proofs about the parser and the session. For a line of any length, and for*)
(* any number of yyparse inside one another, Bison's tables do what the      *)
(* grammar says: the invariant says for each state of the automaton how the  *)
(* command table and the simple command compare with what the grammar makes  *)
(* of the lexemes that are shifted. And what a session executes is what its  *)
(* line says, for any script and any depth of source.                        *)
EXTENDS YyParse, ShellSession, TLAPS, WellFoundedInduction, FiniteSetTheorems, SequenceTheorems

\* A nonempty set of natural numbers has a least element.
LEMMA LeastExists ==
    ASSUME NEW S \in SUBSET Nat, S # {}
    PROVE  \E x \in S : \A y \in S : x <= y
<1> DEFINE T == {0..x : x \in S}
<1>1. \A x \in S : 0..x \in FiniteSubsetsOf(Nat)
  BY FS_Interval DEF FiniteSubsetsOf
<1>2. T \subseteq FiniteSubsetsOf(Nat) /\ T # {}
  BY <1>1
<1>3. IsWellFoundedOn(StrictSubsetOrdering(Nat), FiniteSubsetsOf(Nat))
  BY FS_StrictSubsetOrderingWellFounded
<1>4. \E I \in T : \A J \in T : ~(<<J, I>> \in StrictSubsetOrdering(Nat))
  <2> HIDE DEF T
  <2> QED  BY <1>2, <1>3, WFMin
<1>5. PICK x \in S : \A y \in S : ~(<<0..y, 0..x>> \in StrictSubsetOrdering(Nat))
  BY <1>4
<1>6. ASSUME NEW y \in S, y < x PROVE FALSE
  <2>1. x \in Nat /\ y \in Nat
    OBVIOUS
  <2>2. 0..y \subseteq 0..x /\ x \in 0..x /\ x \notin 0..y
    BY <2>1, <1>6
  <2>3. <<0..y, 0..x>> \in StrictSubsetOrdering(Nat)
    BY <2>1, <2>2 DEF StrictSubsetOrdering
  <2> QED  BY <2>3, <1>5
<1> QED  BY <1>6

\* Induction, for a set: one that has 0 and with each number the next has all.
LEMMA Induction ==
    ASSUME NEW S, 0 \in S, \A i \in Nat : i \in S => i + 1 \in S
    PROVE  \A i \in Nat : i \in S
<1> SUFFICES ASSUME Nat \ S # {} PROVE FALSE
  OBVIOUS
<1>1. PICK x \in Nat \ S : \A y \in Nat \ S : x <= y
  BY LeastExists
<1>2. x # 0 /\ x - 1 \in Nat
  BY <1>1
<1>3. x - 1 \in S
  BY <1>1, <1>2
<1>4. (x - 1) + 1 \in S
  BY <1>2, <1>3
<1> QED  BY <1>1, <1>4

\* The largest of the numbers up to n.
LEMMA MaxUpTo == ASSUME NEW n \in Nat, NEW S \in SUBSET (1 .. n + 1), n + 1 \in S
                 PROVE  Max(S) = n + 1
<1>1. n + 1 \in S /\ \A y \in S : n + 1 >= y
  OBVIOUS
<1>2. \A z \in S : (\A y \in S : z >= y) => z = n + 1
  <2> SUFFICES ASSUME NEW z \in S, \A y \in S : z >= y PROVE z = n + 1
    OBVIOUS
  <2>1. z >= n + 1 /\ z <= n + 1 /\ z \in Int
    BY <1>1
  <2> QED BY <2>1
<1> QED  BY <1>1, <1>2 DEF Max

-----------------------------------------------------------------------------
\* What the grammar makes of some lexemes: the fold in Parse.
NextState(p, x) == CHOOSE q \in {Shift(o, x) : o \in {p}} : TRUE
After(t, l) == FoldLeft(NextState, Start(t), l)

LEMMA NextIs == \A p, x : NextState(p, x) = Shift(p, x)
BY DEF NextState

\* At the end of the line what it is is decided.
EndOf(q) == IF q.at \in {"start", "pipe_list", "modifiers", "background"} THEN q ELSE Error(q)

LEMMA ParseIs == \A t, l : Parse(t, l) = EndOf(Reduce(After(t, l)))
BY DEF Parse, After, EndOf, NextState

\* The recursion of the fold, over the sets of its first indices.
Fold(t, l, n, f) ==
  f = [S \in SUBSET (1 .. n) |->
         IF S = {} THEN Start(t) ELSE NextState(f[S \ {Max(S)}], l[Max(S)])]

\* Such a function exists for every number of lexemes.
LEMMA FoldExists == ASSUME NEW t, NEW l, NEW n \in Nat PROVE \E f : Fold(t, l, n, f)
<1> DEFINE D == {m \in Nat : \E f : Fold(t, l, m, f)}
<1>1. 0 \in D
  <2>1. Fold(t, l, 0, [S \in {{}} |-> Start(t)])
    <3>1. SUBSET (1 .. 0) = {{}}
      OBVIOUS
    <3> QED BY <3>1 DEF Fold
  <2> QED BY <2>1
<1>2. ASSUME NEW m \in Nat, m \in D PROVE m + 1 \in D
  <2>1. PICK f : Fold(t, l, m, f)
    BY <1>2
  <2> DEFINE g == [S \in SUBSET (1 .. m + 1) |->
                     IF m + 1 \in S THEN NextState(f[S \ {m + 1}], l[m + 1]) ELSE f[S]]
  <2>2. ASSUME NEW S \in SUBSET (1 .. m + 1)
        PROVE  g[S] = IF S = {} THEN Start(t) ELSE NextState(g[S \ {Max(S)}], l[Max(S)])
    <3>1. CASE m + 1 \in S
      <4>1. Max(S) = m + 1
        BY <3>1, MaxUpTo
      <4>2. S \ {m + 1} \in SUBSET (1 .. m + 1) /\ m + 1 \notin S \ {m + 1}
        OBVIOUS
      <4>3. g[S \ {m + 1}] = f[S \ {m + 1}]
        BY <4>2
      <4> QED BY <3>1, <4>1, <4>3
    <3>2. CASE m + 1 \notin S
      <4>1. S \in SUBSET (1 .. m)
        BY <3>2
      <4>2. f[S] = IF S = {} THEN Start(t) ELSE NextState(f[S \ {Max(S)}], l[Max(S)])
        BY <2>1, <4>1 DEF Fold
      <4>3. S \ {Max(S)} \in SUBSET (1 .. m + 1) /\ m + 1 \notin S \ {Max(S)}
        BY <3>2
      <4>4. g[S \ {Max(S)}] = f[S \ {Max(S)}] /\ g[S] = f[S]
        BY <4>3, <3>2
      <4> QED BY <4>2, <4>4
    <3> QED BY <3>1, <3>2
  <2>3. Fold(t, l, m + 1, g)
    <3> HIDE DEF g
    <3>1. g = [S \in SUBSET (1 .. m + 1) |-> g[S]]
      BY DEF g
    <3> QED BY <2>2, <3>1, Zenon DEF Fold
  <2>4. \E h : Fold(t, l, m + 1, h)
    <3> HIDE DEF g
    <3> QED  BY <2>3
  <2> QED BY <2>4
<1> HIDE DEF D
<1>3. n \in D
  BY <1>1, <1>2, Induction
<1> QED BY <1>3 DEF D

\* One step of such a function.
LEMMA FoldStep ==
    ASSUME NEW t, NEW l, NEW n \in Nat, NEW f, Fold(t, l, n, f), NEW i \in Nat, i + 1 <= n
    PROVE  f[1 .. i + 1] = Shift(f[1 .. i], l[i + 1])
<1>1. /\ 1 .. i + 1 \in SUBSET (1 .. n) /\ 1 .. i + 1 # {}
      /\ (1 .. i + 1) \ {i + 1} = 1 .. i
  <2>1. i + 1 \in 1 .. i + 1 /\ 1 .. i + 1 \subseteq 1 .. n /\ (1 .. i + 1) \ {i + 1} = 1 .. i
    OBVIOUS
  <2> QED BY <2>1
<1>2. Max(1 .. i + 1) = i + 1
  <2>1. 1 .. i + 1 \in SUBSET (1 .. i + 1) /\ i + 1 \in 1 .. i + 1
    OBVIOUS
  <2> QED BY <2>1, MaxUpTo
<1>3. f[1 .. i + 1] = NextState(f[1 .. i], l[i + 1])
  BY <1>1, <1>2 DEF Fold
<1> QED BY <1>3, NextIs

LEMMA FoldBase == ASSUME NEW t, NEW l, NEW n \in Nat, NEW f, Fold(t, l, n, f)
                  PROVE  f[1 .. 0] = Start(t)
<1>1. {} \in SUBSET (1 .. n) /\ 1 .. 0 = {}
  OBVIOUS
<1> QED BY <1>1 DEF Fold

\* What the grammar makes of a line is such a function's last value.
LEMMA AfterIs == ASSUME NEW t, NEW A, NEW l \in Seq(A)
                 PROVE  \E f : Fold(t, l, Len(l), f) /\ After(t, l) = f[1 .. Len(l)]
<1> DEFINE P(f) == f = [S \in SUBSET DOMAIN l |->
                          IF S = {} THEN Start(t) ELSE NextState(f[S \ {Max(S)}], l[Max(S)])]
           w == CHOOSE f : P(f)
<1>1. \A f : P(f) <=> Fold(t, l, Len(l), f)
  <2>1. DOMAIN l = 1 .. Len(l)
    OBVIOUS
  <2> QED  BY <2>1 DEF Fold
<1>2. After(t, l) = w[DOMAIN l]
  BY DEF After, FoldLeft, MapThenFoldSet
<1>3. \E f : P(f)
  <2> HIDE DEF P
  <2>1. Len(l) \in Nat
    OBVIOUS
  <2> QED  BY <2>1, <1>1, FoldExists
<1>4. P(w)
  <2> HIDE DEF P
  <2> QED  BY <1>3, Zenon
<1> HIDE DEF w, P
<1>5. Fold(t, l, Len(l), w)
  BY <1>1, <1>4
<1>6. DOMAIN l = 1 .. Len(l)
  OBVIOUS
<1> QED  BY <1>2, <1>5, <1>6

\* Before the first lexeme.
LEMMA AfterNone == \A t : After(t, <<>>) = Start(t)
<1> SUFFICES ASSUME NEW t PROVE After(t, <<>>) = Start(t)
  OBVIOUS
<1>1. <<>> \in Seq({}) /\ Len(<<>>) = 0
  OBVIOUS
<1>2. PICK f : Fold(t, <<>>, Len(<<>>), f) /\ After(t, <<>>) = f[1 .. Len(<<>>)]
  BY <1>1, AfterIs
<1> QED  BY <1>1, <1>2, FoldBase

\* One lexeme more.
LEMMA AfterOne == ASSUME NEW t, NEW A, NEW l \in Seq(A), NEW x \in A
                  PROVE  After(t, Append(l, x)) = Shift(After(t, l), x)
<1> DEFINE m == Append(l, x)
           n == Len(l)
<1>1. m \in Seq(A) /\ Len(m) = n + 1 /\ n \in Nat /\ m[n + 1] = x
      /\ \A i \in 1 .. n : m[i] = l[i]
  OBVIOUS
<1>2. PICK f : Fold(t, l, n, f) /\ After(t, l) = f[1 .. n]
  BY AfterIs
<1> HIDE DEF m, n
<1>3. PICK g : Fold(t, m, n + 1, g) /\ After(t, m) = g[1 .. n + 1]
  BY <1>1, AfterIs
<1> DEFINE D == {i \in Nat : i <= n => g[1 .. i] = f[1 .. i]}
<1>4. 0 \in D
  BY <1>1, <1>2, <1>3, FoldBase
<1>5. ASSUME NEW i \in Nat, i \in D PROVE i + 1 \in D
  <2> SUFFICES ASSUME i + 1 <= n PROVE g[1 .. i + 1] = f[1 .. i + 1]
    OBVIOUS
  <2>1. i + 1 \in 1 .. n /\ i + 1 <= n /\ i + 1 <= n + 1 /\ n + 1 \in Nat /\ n \in Nat
    BY <1>1
  <2>2. g[1 .. i + 1] = Shift(g[1 .. i], m[i + 1])
    BY <1>3, <2>1, FoldStep
  <2>3. f[1 .. i + 1] = Shift(f[1 .. i], l[i + 1])
    BY <1>2, <2>1, FoldStep
  <2>4. g[1 .. i] = f[1 .. i] /\ m[i + 1] = l[i + 1]
    BY <1>1, <1>5, <2>1
  <2> QED  BY <2>2, <2>3, <2>4
<1> HIDE DEF D
<1>6. n \in D
  BY <1>1, <1>4, <1>5, Induction
<1>7. g[1 .. n] = f[1 .. n]
  BY <1>1, <1>6 DEF D
<1>8. n + 1 <= n + 1 /\ n + 1 \in Nat
  BY <1>1
<1>9. g[1 .. n + 1] = Shift(g[1 .. n], m[n + 1])
  BY <1>1, <1>8, <1>3, FoldStep
<1> QED  BY <1>1, <1>2, <1>3, <1>7, <1>9 DEF m

-----------------------------------------------------------------------------
\* Command tables, and what the grammar can be at between two lexemes.
Tables == [cmds : Seq(Seq(Lexemes)), out : Lexemes \cup {None}, in : Lexemes \cup {None},
           err : Lexemes \cup {None}, bg : BOOLEAN, appendOut : BOOLEAN, appendErr : BOOLEAN]
Places == {"start", "args", "pipe_list", "pipe", "modifiers", "file", "background", "error"}
Grammar == [at : Places, simple : Seq(Lexemes), redirect : Redirects \cup {None}, table : Tables]

\* A table with one simple command more.
Insert(t, c) == [t EXCEPT !.cmds = Append(@, c)]

LEMMA InsertType == ASSUME NEW t \in Tables, NEW c \in Seq(Lexemes) PROVE Insert(t, c) \in Tables
<1>1. t.cmds \in Seq(Seq(Lexemes))
  BY DEF Tables
<1>2. Append(t.cmds, c) \in Seq(Seq(Lexemes))
  BY <1>1
<1> HIDE DEF Tables
<1> DEFINE S == Seq(Seq(Lexemes))  d == Append(t.cmds, c)
<1>3. d \in S
  BY <1>2
<1> HIDE DEF d, S
<1>4. Insert(t, c) = [t EXCEPT !.cmds = d]
  BY DEF Insert, d
<1> QED  BY <1>3, <1>4 DEF Tables, S

LEMMA StartType == \A t \in Tables : Start(t) \in Grammar
BY DEF Start, Grammar, Places

LEMMA EmptyType == Empty \in Tables
<1>1. <<>> \in Seq(Seq(Lexemes))
  OBVIOUS
<1> QED  BY <1>1 DEF Empty, Tables

LEMMA RedirectType == ASSUME NEW t \in Tables, NEW r, NEW w \in Lexemes
                      PROVE  Redirect(t, r, w) \in Tables
BY DEF Redirect, Tables

\* command_and_args is reduced: the simple command goes into the table.
LEMMA ReduceArgs ==
    ASSUME NEW p \in Grammar, p.at = "args"
    PROVE  /\ Reduce(p) \in Grammar /\ Reduce(p).at = "pipe_list"
           /\ Reduce(p).table = Insert(p.table, p.simple)
<1> DEFINE u == Insert(p.table, p.simple)
<1>1. p.table \in Tables /\ p.simple \in Seq(Lexemes) /\ <<>> \in Seq(Lexemes)
  BY DEF Grammar
<1>2. u \in Tables
  BY <1>1, InsertType
<1>3. Reduce(p) = [at |-> "pipe_list", simple |-> <<>>, redirect |-> p.redirect, table |-> u]
  BY DEF Reduce, Insert, Grammar
<1> HIDE DEF u
<1>4. p.redirect \in Redirects \cup {None}
  BY DEF Grammar
<1>5. Reduce(p) \in Grammar
  BY <1>1, <1>2, <1>3, <1>4 DEF Grammar, Places
<1> QED  BY <1>3, <1>5 DEF u

LEMMA ReduceOther == \A p : p.at # "args" => Reduce(p) = p
BY DEF Reduce

LEMMA ReduceType == ASSUME NEW p \in Grammar PROVE Reduce(p) \in Grammar
BY ReduceArgs, ReduceOther

LEMMA ErrorIs == ASSUME NEW p \in Grammar
                 PROVE  /\ Error(p) \in Grammar /\ Error(p).at = "error"
                        /\ Error(p).table = p.table
BY DEF Error, Grammar, Places

\* What a word does.
LEMMA WordIs ==
    ASSUME NEW p \in Grammar, NEW w \in Lexemes, Token(w) = "WORD"
    PROVE  /\ Shift(p, w) \in Grammar
           /\ p.at \in {"start", "pipe"} =>
                /\ Shift(p, w).at = "args" /\ Shift(p, w).simple = <<w>>
                /\ Shift(p, w).table = p.table
           /\ p.at = "args" =>
                /\ Shift(p, w).at = "args" /\ Shift(p, w).simple = Append(p.simple, w)
                /\ Shift(p, w).table = p.table
           /\ p.at = "file" =>
                /\ Shift(p, w).at = "modifiers"
                /\ Shift(p, w).table = Redirect(p.table, p.redirect, w)
           /\ p.at \in {"pipe_list", "modifiers", "background", "error"} =>
                /\ Shift(p, w).at = "error" /\ Shift(p, w).table = p.table
<1>1. Shift(p, w) = ShiftWord(p, w)
  BY DEF Shift
<1>2. CASE p.at \in {"start", "pipe"}
  <2>1. <<w>> \in Seq(Lexemes)
    OBVIOUS
  <2> DEFINE c == <<w>>
  <2>2. Shift(p, w) = [p EXCEPT !.at = "args", !.simple = c]
    BY <1>1, <1>2 DEF ShiftWord
  <2> HIDE DEF c
  <2>3. c \in Seq(Lexemes)
    BY <2>1 DEF c
  <2>4. /\ Shift(p, w) \in Grammar /\ Shift(p, w).at = "args" /\ Shift(p, w).simple = c
        /\ Shift(p, w).table = p.table
    BY <2>2, <2>3 DEF Grammar, Places
  <2> QED  BY <1>2, <2>4 DEF c
<1>3. CASE p.at = "args"
  <2> DEFINE c == Append(p.simple, w)
  <2>1. c \in Seq(Lexemes)
    BY DEF Grammar
  <2>2. Shift(p, w) = [p EXCEPT !.simple = c]
    BY <1>1, <1>3 DEF ShiftWord
  <2> HIDE DEF c
  <2>3. /\ Shift(p, w) \in Grammar /\ Shift(p, w).at = "args" /\ Shift(p, w).simple = c
        /\ Shift(p, w).table = p.table
    BY <1>3, <2>1, <2>2 DEF Grammar, Places
  <2> QED  BY <1>3, <2>3 DEF c
<1>4. CASE p.at = "file"
  <2> DEFINE u == Redirect(p.table, p.redirect, w)
  <2>1. u \in Tables
    BY RedirectType DEF Grammar
  <2>2. Shift(p, w) = [p EXCEPT !.at = "modifiers", !.table = u]
    BY <1>1, <1>4 DEF ShiftWord
  <2> HIDE DEF u
  <2>3. Shift(p, w) \in Grammar /\ Shift(p, w).at = "modifiers" /\ Shift(p, w).table = u
    BY <1>4, <2>1, <2>2 DEF Grammar, Places
  <2> QED  BY <1>4, <2>3 DEF u
<1>5. CASE p.at \in {"pipe_list", "modifiers", "background", "error"}
  <2>1. Shift(p, w) = Error(p)
    BY <1>1, <1>5 DEF ShiftWord
  <2> QED  BY <1>5, <2>1, ErrorIs
<1> QED  BY <1>2, <1>3, <1>4, <1>5 DEF Grammar, Places

\* What an operator does, after the reduction.
LEMMA OperatorIs ==
    ASSUME NEW p \in Grammar, NEW x, Token(x) # "WORD", NEW r, r = Reduce(p)
    PROVE  /\ Shift(p, x) \in Grammar
           /\ Token(x) = "PIPE" /\ r.at = "pipe_list" =>
                Shift(p, x).at = "pipe" /\ Shift(p, x).table = r.table
           /\ Token(x) \in Redirects /\ r.at \in {"pipe_list", "modifiers"} =>
                /\ Shift(p, x).at = "file" /\ Shift(p, x).redirect = Token(x)
                /\ Shift(p, x).table = r.table
           /\ Token(x) = "AMPERSAND" /\ r.at \in {"pipe_list", "modifiers"} =>
                /\ Shift(p, x).at = "background"
                /\ Shift(p, x).table = [r.table EXCEPT !.bg = TRUE]
           /\ \/ Token(x) = "PIPE" /\ r.at # "pipe_list"
              \/ Token(x) \in Redirects \cup {"AMPERSAND"} /\ r.at \notin {"pipe_list", "modifiers"}
              \/ Token(x) \notin Redirects \cup {"AMPERSAND", "PIPE"}
              => Shift(p, x).at = "error" /\ Shift(p, x).table = r.table
<1> DEFINE k == Token(x)
<1>1. Shift(p, x) = ShiftOperator(r, k) /\ r \in Grammar /\ k # "WORD"
  BY ReduceType DEF Shift
<1> HIDE DEF k
<1>2. CASE k = "PIPE" /\ r.at = "pipe_list"
  <2>1. Shift(p, x) = [r EXCEPT !.at = "pipe"]
    BY <1>1, <1>2 DEF ShiftOperator, Redirects
  <2>2. Shift(p, x) \in Grammar /\ Shift(p, x).at = "pipe" /\ Shift(p, x).table = r.table
    BY <1>1, <2>1 DEF Grammar, Places
  <2> QED  BY <1>2, <2>2 DEF k, Redirects
<1>3. CASE k \in Redirects /\ r.at \in {"pipe_list", "modifiers"}
  <2>1. k \in Redirects /\ k # "PIPE" /\ k # "AMPERSAND"
    BY <1>3 DEF Redirects
  <2>2. Shift(p, x) = [r EXCEPT !.at = "file", !.redirect = k]
    BY <1>1, <1>3, <2>1 DEF ShiftOperator
  <2>3. /\ Shift(p, x) \in Grammar /\ Shift(p, x).at = "file" /\ Shift(p, x).redirect = k
        /\ Shift(p, x).table = r.table
    BY <1>1, <2>1, <2>2 DEF Grammar, Places
  <2> QED  BY <1>3, <2>1, <2>3 DEF k
<1>4. CASE k = "AMPERSAND" /\ r.at \in {"pipe_list", "modifiers"}
  <2> DEFINE u == [r.table EXCEPT !.bg = TRUE]
  <2>1. k \notin Redirects
    BY <1>4 DEF Redirects
  <2>2. u \in Tables
    BY <1>1 DEF Grammar, Tables
  <2>3. Shift(p, x) = [r EXCEPT !.at = "background", !.table = u]
    BY <1>1, <1>4, <2>1 DEF ShiftOperator, Grammar
  <2> HIDE DEF u
  <2>4. Shift(p, x) \in Grammar /\ Shift(p, x).at = "background" /\ Shift(p, x).table = u
    BY <1>1, <2>2, <2>3 DEF Grammar, Places
  <2> QED  BY <1>4, <2>1, <2>4 DEF k, u
<1>5. CASE \/ k = "PIPE" /\ r.at # "pipe_list"
           \/ k \in Redirects \cup {"AMPERSAND"} /\ r.at \notin {"pipe_list", "modifiers"}
           \/ k \notin Redirects \cup {"AMPERSAND", "PIPE"}
  <2>1. "PIPE" \notin Redirects /\ "AMPERSAND" \notin Redirects
    BY DEF Redirects
  <2>2. Shift(p, x) = Error(r)
    BY <1>1, <1>5, <2>1 DEF ShiftOperator
  <2> QED  BY <1>1, <1>5, <2>1, <2>2, ErrorIs DEF k
<1> QED  BY <1>2, <1>3, <1>4, <1>5

LEMMA ShiftType == ASSUME NEW p \in Grammar, NEW x \in Lexemes PROVE Shift(p, x) \in Grammar
BY WordIs, OperatorIs

\* The first elements of a sequence.
LEMMA FirstOf ==
    ASSUME NEW A, NEW s \in Seq(A), NEW n \in Nat, n <= Len(s)
    PROVE  /\ SubSeq(s, 1, n) \in Seq(A) /\ Len(SubSeq(s, 1, n)) = n
           /\ \A i \in 1 .. n : SubSeq(s, 1, n)[i] = s[i]
<1> DEFINE o == 1
           u == SubSeq(s, o, n)
<1>1. o \in Int /\ n \in Int /\ o = 1 /\ \A i \in o .. n : s[i] \in A
  OBVIOUS
<1>2. (IF o <= n THEN n - o + 1 ELSE 0) = n /\ n - o + 1 = n
  OBVIOUS
<1>3. \A i \in 1 .. n : o + i - 1 = i
  OBVIOUS
<1>4. u = SubSeq(s, 1, n)
  OBVIOUS
<1> HIDE DEF o, u
<1>5. /\ u \in Seq(A) /\ Len(u) = IF o <= n THEN n - o + 1 ELSE 0
      /\ \A i \in 1 .. n - o + 1 : u[i] = s[o + i - 1]
  BY <1>1, SubSeqProperties DEF u
<1>6. u \in Seq(A) /\ Len(u) = n /\ \A i \in 1 .. n : u[i] = s[i]
  BY <1>2, <1>3, <1>5
<1> QED  BY <1>4, <1>6

\* A sequence that is not empty is its front and its last element.
LEMMA FrontLast == ASSUME NEW A, NEW l \in Seq(A), l # <<>>
                   PROVE  /\ Front(l) \in Seq(A) /\ Last(l) \in A /\ Len(l) \in Nat \ {0}
                          /\ l = Append(Front(l), Last(l)) /\ Len(Front(l)) = Len(l) - 1
<1> DEFINE n == Len(l) - 1
<1>1. Len(l) \in Nat \ {0} /\ n \in Nat /\ n <= Len(l) /\ Len(l) = n + 1
  OBVIOUS
<1>2. Front(l) = SubSeq(l, 1, n)
  BY DEF Front
<1> HIDE DEF n
<1>3. /\ Front(l) \in Seq(A) /\ Len(Front(l)) = n
      /\ \A i \in 1 .. n : Front(l)[i] = l[i]
  BY <1>1, <1>2, FirstOf
<1>4. Last(l) \in A /\ Last(l) = l[n + 1]
  BY <1>1 DEF Last
<1> DEFINE f == Front(l)  x == Last(l)
           m == Append(f, x)
<1>5. m \in Seq(A) /\ Len(m) = n + 1 /\ m[n + 1] = x /\ \A i \in 1 .. n : m[i] = f[i]
  <2> HIDE DEF f, x
  <2> QED  BY <1>1, <1>3, <1>4, AppendProperties DEF f, x
<1> HIDE DEF m
<1>6. l = m
  <2>1. \A i \in 1 .. Len(l) : l[i] = m[i]
    BY <1>1, <1>3, <1>4, <1>5
  <2> QED  BY <1>1, <1>5, <2>1, SeqEqual
<1> QED  BY <1>1, <1>3, <1>4, <1>6 DEF m, n

\* A sequence with one element more.
LEMMA FrontAppend == ASSUME NEW A, NEW l \in Seq(A), NEW x \in A
                     PROVE  /\ Append(l, x) \in Seq(A) /\ Append(l, x) # <<>>
                            /\ Front(Append(l, x)) = l /\ Last(Append(l, x)) = x
<1> DEFINE m == Append(l, x)
<1>1. m \in Seq(A) /\ m # <<>> /\ Last(m) = x
  BY DEF Last
<1> HIDE DEF m
<1>2. m = Append(Front(m), Last(m)) /\ Front(m) \in Seq(A) /\ Last(m) \in A
  BY <1>1, FrontLast
<1>3. Append(Front(m), Last(m)) = Append(l, x)
  BY <1>2 DEF m
<1>4. Front(m) = l
  BY <1>2, <1>3, AppendInjective
<1> QED  BY <1>1, <1>4 DEF m

\* What the grammar makes of a line is such a state.
LEMMA AfterType == ASSUME NEW t \in Tables, NEW l \in Seq(Lexemes) PROVE After(t, l) \in Grammar
<1> DEFINE D == {n \in Nat : \A m \in Seq(Lexemes) : Len(m) = n => After(t, m) \in Grammar}
<1>1. 0 \in D
  <2>1. \A m \in Seq(Lexemes) : Len(m) = 0 => m = <<>>
    OBVIOUS
  <2> QED  BY <2>1, AfterNone, StartType
<1>2. ASSUME NEW i \in Nat, i \in D PROVE i + 1 \in D
  <2> SUFFICES ASSUME NEW m \in Seq(Lexemes), Len(m) = i + 1 PROVE After(t, m) \in Grammar
    OBVIOUS
  <2>1. m # <<>>
    OBVIOUS
  <2>2. /\ Front(m) \in Seq(Lexemes) /\ Last(m) \in Lexemes
        /\ m = Append(Front(m), Last(m)) /\ Len(Front(m)) = i
    BY <2>1, FrontLast
  <2>3. After(t, Front(m)) \in Grammar
    BY <1>2, <2>2
  <2>4. After(t, m) = Shift(After(t, Front(m)), Last(m))
    <3> HIDE DEF D
    <3> DEFINE f == Front(m)  x == Last(m)
    <3>1. f \in Seq(Lexemes) /\ x \in Lexemes /\ m = Append(f, x)
      BY <2>2
    <3> HIDE DEF f, x
    <3>2. After(t, Append(f, x)) = Shift(After(t, f), x)
      BY <3>1, AfterOne
    <3> QED  BY <3>1, <3>2 DEF f, x
  <2> QED  BY <2>2, <2>3, <2>4, ShiftType
<1> HIDE DEF D
<1>3. Len(l) \in D
  BY <1>1, <1>2, Induction
<1> QED  BY <1>3 DEF D

-----------------------------------------------------------------------------
\* The states the parser can be in (the others are for a subshell, whose '('
\* the scanner never returns), those that are left without a look at what
\* comes next, and which state can be on top of which.
States == {0, 1, 2, 3, 5, 6, 7, 8, 10, 11, 12, 14, 15, 16, 17, 19} \cup (21 .. 36)
Looking == {0, 1, 5, 6, 8, 16, 17, 19, 29} \cup (22 .. 26)
Edges == ({0} \X {1, 2, 3, 5, 6, 7, 8, 10, 11}) \cup {<<5, 14>>}
           \cup ({6} \X {1, 2, 3, 8, 10, 11, 15}) \cup {<<1, 12>>} \cup ({8} \X {16, 17})
           \cup {<<11, 19>>} \cup ({16} \X {2, 11, 21}) \cup ({17} \X (22 .. 29))
           \cup {<<19, 30>>} \cup {<<s, s + 9>> : s \in 22 .. 26} \cup {<<29, 36>>}

\* What a lookahead is to the grammar.
Tokens == Lexemes \cup {YYEOF, NEWLINE}
Kind(x) == IF x \in {YYEMPTY, YYEOF, NEWLINE} THEN x ELSE Token(x)
Kinds == {"WORD", "PIPE", "AMPERSAND", "PAREN", "NEWLINE", "YYEOF"} \cup Redirects

LEMMA KindIs ==
    ASSUME NEW x \in Tokens
    PROVE  /\ Kind(x) \in Kinds /\ x # YYEMPTY
           /\ x \in Lexemes => Kind(x) = Token(x) /\ Kind(x) \notin {"NEWLINE", "YYEOF"}
           /\ x = NEWLINE <=> Kind(x) = "NEWLINE"
           /\ x = YYEOF <=> Kind(x) = "YYEOF"
<1>1. CASE x \in Lexemes
  <2>1. x \notin {YYEMPTY, YYEOF, NEWLINE}
    BY <1>1, ParserAssumption
  <2>2. Kind(x) = Token(x)
    BY <2>1 DEF Kind
  <2>3. Token(x) \in Kinds \ {"NEWLINE", "YYEOF"}
    BY DEF Token, Kinds, Redirects
  <2> QED  BY <1>1, <2>1, <2>2, <2>3
<1>2. CASE x \in {YYEOF, NEWLINE}
  <2>1. x \notin Lexemes
    BY <1>2, ParserAssumption
  <2> QED  BY <1>2, <2>1 DEF Kind, Kinds, YYEMPTY, YYEOF, NEWLINE
<1> QED  BY <1>1, <1>2 DEF Tokens

\* The numbers Bison gave the tokens.
Number == [WORD |-> 3, GREAT |-> 4, GREATGREAT |-> 5, GREATAMPERSAND |-> 6,
           GREATGREATAMPERSAND |-> 7, LESS |-> 8, PIPE |-> 9, AMPERSAND |-> 10, NEWLINE |-> 11,
           PAREN |-> 12, YYEOF |-> 0]
Symbols == {0, 1} \cup (3 .. 12)

LEMMA TranslateIs == ASSUME NEW x \in Tokens PROVE Translate(x) = Number[Kind(x)]
<1>1. CASE x \in {YYEOF, NEWLINE}
  BY <1>1 DEF Translate, Number, Kind, YYEMPTY, YYEOF, NEWLINE
<1>2. CASE x \in Lexemes
  <2>1. x # YYEOF /\ x # NEWLINE
    BY <1>2, ParserAssumption
  <2>2. Translate(x) = SymbolKind[Token(x)]
    BY <2>1 DEF Translate
  <2>3. Kind(x) = Token(x) /\ Kind(x) \in Kinds \ {"NEWLINE", "YYEOF"}
    BY <1>2, KindIs
  <2> QED  BY <2>2, <2>3 DEF SymbolKind, Number, Kinds, Redirects
<1> QED  BY <1>1, <1>2 DEF Tokens

-----------------------------------------------------------------------------
\* The tables, looked up.
LEMMA NeedsIs == ASSUME NEW s \in States PROVE NeedsLookahead(s) <=> s \in Looking
BY DEF NeedsLookahead, At, yypact, YYPACT_NINF, States, Looking

LEMMA ErrorEntry == ASSUME NEW s \in States
                    PROVE  Entry(s, ErrorSymbol) = IF s \in {0, 6} THEN 1 ELSE 0
BY DEF Entry, At, yypact, yycheck, yytable, YYPACT_NINF, YYLAST, States, ErrorSymbol

LEMMA EntryIs ==
    ASSUME NEW y \in Symbols
    PROVE  /\ Entry(0, y) = CASE y = 1 -> 1 [] y = 3 -> 2 [] y = 11 -> 3 [] OTHER -> 0
           /\ Entry(6, y) = CASE y = 0 -> -2 [] y = 1 -> 1 [] y = 3 -> 2 [] y = 11 -> 3
                              [] OTHER -> 0
           /\ Entry(1, y) = IF y = 11 THEN 12 ELSE 0
           /\ Entry(5, y) = IF y = 0 THEN 14 ELSE 0
           /\ Entry(8, y) = IF y = 9 THEN 16 ELSE 0
           /\ Entry(16, y) = IF y = 3 THEN 2 ELSE 0
           /\ Entry(17, y) = CASE y \in 4 .. 8 -> y + 18 [] y = 10 -> 27 [] OTHER -> 0
           /\ Entry(19, y) = IF y = 3 THEN 30 ELSE 0
           /\ \A s \in 22 .. 26 : Entry(s, y) = IF y = 3 THEN s + 9 ELSE 0
           /\ Entry(29, y) = IF y = 11 THEN 36 ELSE 0
<1> USE DEF Entry, At, yypact, yycheck, yytable, YYPACT_NINF, YYLAST, Symbols
<1>1. Entry(0, y) = CASE y = 1 -> 1 [] y = 3 -> 2 [] y = 11 -> 3 [] OTHER -> 0
  OBVIOUS
<1>2. Entry(6, y) = CASE y = 0 -> -2 [] y = 1 -> 1 [] y = 3 -> 2 [] y = 11 -> 3 [] OTHER -> 0
  OBVIOUS
<1>3. Entry(1, y) = IF y = 11 THEN 12 ELSE 0
  OBVIOUS
<1>4. Entry(5, y) = IF y = 0 THEN 14 ELSE 0
  OBVIOUS
<1>5. Entry(8, y) = IF y = 9 THEN 16 ELSE 0
  OBVIOUS
<1>6. Entry(16, y) = IF y = 3 THEN 2 ELSE 0
  OBVIOUS
<1>7. Entry(17, y) = CASE y \in 4 .. 8 -> y + 18 [] y = 10 -> 27 [] OTHER -> 0
  OBVIOUS
<1>8. Entry(19, y) = IF y = 3 THEN 30 ELSE 0
  OBVIOUS
<1>9. \A s \in 22 .. 26 : Entry(s, y) = IF y = 3 THEN s + 9 ELSE 0
  OBVIOUS
<1>10. Entry(29, y) = IF y = 11 THEN 36 ELSE 0
  OBVIOUS
<1> HIDE DEF Entry, At, yypact, yycheck, yytable, YYPACT_NINF, YYLAST, Symbols
<1> QED  BY <1>1, <1>2, <1>3, <1>4, <1>5, <1>6, <1>7, <1>8, <1>9, <1>10

LEMMA DefaultIs ==
    /\ \A s \in {0, 1, 5, 6, 16, 29} \cup (22 .. 26) : At(yydefact, s) = 0
    /\ At(yydefact, 2) = 14 /\ At(yydefact, 3) = 7 /\ At(yydefact, 7) = 3
    /\ At(yydefact, 8) = 18 /\ At(yydefact, 10) = 10 /\ At(yydefact, 11) = 16
    /\ At(yydefact, 12) = 8 /\ At(yydefact, 15) = 4 /\ At(yydefact, 17) = 25
    /\ At(yydefact, 19) = 13 /\ At(yydefact, 21) = 9 /\ At(yydefact, 27) = 24
    /\ At(yydefact, 28) = 17 /\ At(yydefact, 30) = 15 /\ At(yydefact, 36) = 5
    /\ \A s \in 31 .. 35 : At(yydefact, s) = s - 12
BY DEF At, yydefact

\* What is done in a state that looks ahead.
LEMMA Looked ==
    ASSUME NEW x \in Tokens, NEW k, k = Kind(x)
    PROVE  /\ Choice(0, x) = CASE k = "WORD" -> 2 [] k = "NEWLINE" -> 3 [] OTHER -> 0
           /\ Choice(6, x) = CASE k = "WORD" -> 2 [] k = "NEWLINE" -> 3 [] k = "YYEOF" -> -2
                               [] OTHER -> 0
           /\ Choice(1, x) = IF k = "NEWLINE" THEN 12 ELSE 0
           /\ Choice(5, x) = IF k = "YYEOF" THEN 14 ELSE 0
           /\ Choice(8, x) = IF k = "PIPE" THEN 16 ELSE -18
           /\ Choice(16, x) = IF k = "WORD" THEN 2 ELSE 0
           /\ Choice(17, x) = CASE k = "GREAT" -> 22 [] k = "GREATGREAT" -> 23
                                [] k = "GREATAMPERSAND" -> 24 [] k = "GREATGREATAMPERSAND" -> 25
                                [] k = "LESS" -> 26 [] k = "AMPERSAND" -> 27 [] OTHER -> -25
           /\ Choice(19, x) = IF k = "WORD" THEN 30 ELSE -13
           /\ \A s \in 22 .. 26 : Choice(s, x) = IF k = "WORD" THEN s + 9 ELSE 0
           /\ Choice(29, x) = IF k = "NEWLINE" THEN 36 ELSE 0
<1> DEFINE y == Translate(x)
<1>1. k \in Kinds
  BY KindIs
<1>2. y = Number[k]
  BY TranslateIs
<1>3. y \in Symbols
  BY <1>1, <1>2 DEF Number, Kinds, Redirects, Symbols
<1>4. /\ y = 0 <=> k = "YYEOF"
      /\ y = 3 <=> k = "WORD"
      /\ y = 4 <=> k = "GREAT"
      /\ y = 5 <=> k = "GREATGREAT"
      /\ y = 6 <=> k = "GREATAMPERSAND"
      /\ y = 7 <=> k = "GREATGREATAMPERSAND"
      /\ y = 8 <=> k = "LESS"
      /\ y = 9 <=> k = "PIPE"
      /\ y = 10 <=> k = "AMPERSAND"
      /\ y = 11 <=> k = "NEWLINE"
      /\ y = 12 <=> k = "PAREN"
      /\ y # 1
  BY <1>1, <1>2 DEF Number, Kinds, Redirects
<1>5. \A s \in Looking : Choice(s, x) = IF Entry(s, y) # 0 THEN Entry(s, y) ELSE -At(yydefact, s)
  <2>1. Looking \subseteq States
    BY DEF Looking, States
  <2> QED  BY <2>1, NeedsIs DEF Choice
<1> HIDE DEF y
<1>6. /\ Choice(0, x) = IF Entry(0, y) # 0 THEN Entry(0, y) ELSE 0
      /\ Choice(6, x) = IF Entry(6, y) # 0 THEN Entry(6, y) ELSE 0
      /\ Choice(1, x) = IF Entry(1, y) # 0 THEN Entry(1, y) ELSE 0
      /\ Choice(5, x) = IF Entry(5, y) # 0 THEN Entry(5, y) ELSE 0
      /\ Choice(8, x) = IF Entry(8, y) # 0 THEN Entry(8, y) ELSE -18
      /\ Choice(16, x) = IF Entry(16, y) # 0 THEN Entry(16, y) ELSE 0
      /\ Choice(17, x) = IF Entry(17, y) # 0 THEN Entry(17, y) ELSE -25
      /\ Choice(19, x) = IF Entry(19, y) # 0 THEN Entry(19, y) ELSE -13
      /\ \A s \in 22 .. 26 : Choice(s, x) = IF Entry(s, y) # 0 THEN Entry(s, y) ELSE 0
      /\ Choice(29, x) = IF Entry(29, y) # 0 THEN Entry(29, y) ELSE 0
  BY <1>5, DefaultIs DEF Looking
<1>7. Choice(17, x) = CASE y \in 4 .. 8 -> y + 18 [] y = 10 -> 27 [] OTHER -> -25
  BY <1>3, <1>6, EntryIs DEF Symbols
<1>8. /\ Choice(0, x) = CASE y = 3 -> 2 [] y = 11 -> 3 [] OTHER -> 0
      /\ Choice(6, x) = CASE y = 3 -> 2 [] y = 11 -> 3 [] y = 0 -> -2 [] OTHER -> 0
      /\ Choice(1, x) = IF y = 11 THEN 12 ELSE 0
      /\ Choice(5, x) = IF y = 0 THEN 14 ELSE 0
      /\ Choice(8, x) = IF y = 9 THEN 16 ELSE -18
      /\ Choice(16, x) = IF y = 3 THEN 2 ELSE 0
      /\ Choice(19, x) = IF y = 3 THEN 30 ELSE -13
      /\ \A s \in 22 .. 26 : Choice(s, x) = IF y = 3 THEN s + 9 ELSE 0
      /\ Choice(29, x) = IF y = 11 THEN 36 ELSE 0
  BY <1>3, <1>4, <1>6, EntryIs DEF Symbols
<1> QED  BY <1>3, <1>4, <1>7, <1>8 DEF Symbols

\* What is done in the other states, whatever comes next.
LEMMA Unlooked == \A x : \A s \in States \ Looking : Choice(s, x) = -At(yydefact, s)
BY NeedsIs DEF Choice

\* Where the parser goes after a reduction.
LEMMA GotoIs ==
    /\ Goto(14, 0) = 11 /\ Goto(14, 6) = 11 /\ Goto(14, 16) = 11
    /\ Goto(16, 11) = 19 /\ Goto(15, 11) = 19
    /\ Goto(13, 0) = 10 /\ Goto(13, 6) = 10 /\ Goto(13, 16) = 21
    /\ Goto(10, 0) = 8 /\ Goto(10, 6) = 8 /\ Goto(9, 0) = 8 /\ Goto(9, 6) = 8
    /\ Goto(18, 8) = 17 /\ Goto(17, 8) = 17 /\ Goto(25, 17) = 29 /\ Goto(24, 17) = 29
    /\ \A n \in 19 .. 23 : Goto(n, 17) = 28
    /\ \A n \in {5, 7, 8} : Goto(n, 0) = 7 /\ Goto(n, 6) = 15
    /\ Goto(3, 0) = 6 /\ Goto(4, 0) = 6 /\ Goto(2, 0) = 5
BY DEF Goto, At, yyr1, yypgoto, yydefgoto, yycheck, yytable, YYNTOKENS, YYLAST

LEMMA LengthIs ==
    /\ At(yyr2, 16) = 0 /\ At(yyr2, 18) = 0 /\ At(yyr2, 25) = 0
    /\ At(yyr2, 14) = 1 /\ At(yyr2, 10) = 1 /\ At(yyr2, 24) = 1 /\ At(yyr2, 7) = 1
    /\ At(yyr2, 3) = 1 /\ At(yyr2, 2) = 1
    /\ At(yyr2, 15) = 2 /\ At(yyr2, 13) = 2 /\ At(yyr2, 17) = 2 /\ At(yyr2, 8) = 2
    /\ At(yyr2, 4) = 2 /\ \A n \in 19 .. 23 : At(yyr2, n) = 2
    /\ At(yyr2, 9) = 3 /\ At(yyr2, 5) = 4
BY DEF At, yyr2

-----------------------------------------------------------------------------
\* The stacks the parser can have.
Values  == Lexemes \cup {None, NEWLINE, YYEOF}
Entries == [state : States, value : Values]
Stacks  == {st \in Seq(Entries) : /\ st # <<>> /\ st[1].state = 0
                                  /\ \A k \in 1 .. Len(st) - 1 :
                                       <<st[k].state, st[k + 1].state>> \in Edges}

\* The state j places below the top.
Under(st, j) == st[Len(st) - j].state

LEMMA StackType ==
    ASSUME NEW st \in Stacks
    PROVE  /\ st \in Seq(Entries) /\ Len(st) \in Nat /\ Len(st) >= 1 /\ st[1].state = 0
           /\ Last(st) \in Entries /\ Last(st).state = Under(st, 0)
           /\ Last(st).state \in States /\ Last(st).value \in Values
<1>1. st \in Seq(Entries) /\ st # <<>> /\ Len(st) \in Nat /\ Len(st) >= 1 /\ st[1].state = 0
  BY DEF Stacks
<1>2. Last(st) = st[Len(st)] /\ Last(st) \in Entries
  BY <1>1 DEF Last
<1>3. Len(st) - 0 = Len(st)
  BY <1>1
<1> QED  BY <1>1, <1>2, <1>3 DEF Under, Entries

LEMMA UnderIs ==
    ASSUME NEW st \in Stacks, NEW j \in Nat, j < Len(st), Under(st, j) # 0
    PROVE  j + 1 < Len(st) /\ <<Under(st, j + 1), Under(st, j)>> \in Edges
<1> DEFINE k == Len(st) - j
<1>1. k \in Nat /\ k >= 1 /\ k <= Len(st) /\ Len(st) \in Nat
  BY StackType
<1>2. k # 1
  BY StackType DEF Under
<1>3. k - 1 \in 1 .. Len(st) - 1 /\ (k - 1) + 1 = k /\ Len(st) - (j + 1) = k - 1 /\ j + 1 < Len(st)
  BY <1>1, <1>2
<1>4. \A i \in 1 .. Len(st) - 1 : <<st[i].state, st[i + 1].state>> \in Edges
  BY DEF Stacks
<1>5. <<st[k - 1].state, st[(k - 1) + 1].state>> \in Edges
  BY <1>3, <1>4
<1> QED  BY <1>3, <1>5 DEF Under

\* Pushing and popping keep a stack one of these.
LEMMA PushIs ==
    ASSUME NEW st \in Stacks, NEW s \in States, NEW v \in Values,
           <<Last(st).state, s>> \in Edges
    PROVE  /\ Push(st, s, v) \in Stacks
           /\ Last(Push(st, s, v)).state = s /\ Last(Push(st, s, v)).value = v
<1> DEFINE e == [state |-> s, value |-> v]
           p == Push(st, s, v)
           n == Len(st)
<1>1. e \in Entries /\ e.state = s /\ e.value = v
  BY DEF Entries
<1>2. p = Append(st, e) /\ st \in Seq(Entries) /\ n \in Nat /\ n >= 1 /\ st[1].state = 0
  BY StackType DEF Push
<1>3. Last(st).state = st[n].state
  BY DEF Last
<1> HIDE DEF e, p
<1>4. /\ p \in Seq(Entries) /\ p # <<>> /\ Len(p) = n + 1 /\ p[n + 1] = e
      /\ \A i \in 1 .. n : p[i] = st[i]
  BY <1>1, <1>2, AppendProperties
<1> HIDE DEF n
<1>5. p[1].state = 0
  BY <1>2, <1>4
<1>6. ASSUME NEW k \in 1 .. Len(p) - 1 PROVE <<p[k].state, p[k + 1].state>> \in Edges
  <2>1. CASE k = n
    BY <2>1, <1>1, <1>2, <1>3, <1>4
  <2>2. CASE k # n
    <3>1. k \in 1 .. n - 1 /\ k \in 1 .. n /\ k + 1 \in 1 .. n
      BY <2>2, <1>2, <1>4
    <3>2. <<st[k].state, st[k + 1].state>> \in Edges
      BY <3>1 DEF Stacks, n
    <3> QED  BY <3>1, <3>2, <1>4
  <2> QED  BY <2>1, <2>2
<1>7. p \in Stacks
  BY <1>4, <1>5, <1>6 DEF Stacks
<1>8. Last(p) = e
  BY <1>4 DEF Last
<1> QED  BY <1>1, <1>7, <1>8 DEF p

LEMMA PopIs ==
    ASSUME NEW st \in Stacks, NEW d \in Nat, d < Len(st)
    PROVE  /\ SubSeq(st, 1, Len(st) - d) \in Stacks
           /\ Last(SubSeq(st, 1, Len(st) - d)).state = Under(st, d)
<1> DEFINE n == Len(st) - d
           p == SubSeq(st, 1, n)
<1>1. st \in Seq(Entries) /\ Len(st) \in Nat /\ st[1].state = 0
  BY StackType
<1>2. n \in Nat /\ n >= 1 /\ n <= Len(st)
  BY <1>1
<1> HIDE DEF n
<1>3. p \in Seq(Entries) /\ Len(p) = n /\ \A i \in 1 .. n : p[i] = st[i]
  BY <1>1, <1>2, FirstOf
<1> HIDE DEF p
<1>4. p # <<>> /\ p[1].state = 0 /\ Last(p) = st[n]
  <2>1. 1 \in 1 .. n /\ n \in 1 .. n
    BY <1>2
  <2> QED  BY <1>1, <1>2, <1>3, <2>1 DEF Last
<1>5. ASSUME NEW k \in 1 .. Len(p) - 1 PROVE <<p[k].state, p[k + 1].state>> \in Edges
  <2>1. k \in 1 .. n /\ k + 1 \in 1 .. n /\ k \in 1 .. Len(st) - 1
    BY <1>1, <1>2, <1>3
  <2>2. <<st[k].state, st[k + 1].state>> \in Edges
    BY <2>1 DEF Stacks
  <2> QED  BY <1>3, <2>1, <2>2
<1>6. p \in Stacks
  BY <1>3, <1>4, <1>5 DEF Stacks
<1> QED  BY <1>4, <1>6 DEF p, n, Under

\* A reduction pops what the rule says and pushes where it goes from there.
LEMMA ReducedIs ==
    ASSUME NEW st \in Stacks, NEW n, NEW d \in Nat, At(yyr2, n) = d, d < Len(st),
           NEW g \in States, Goto(n, Under(st, d)) = g, <<Under(st, d), g>> \in Edges
    PROVE  Reduced(st, n) \in Stacks /\ Last(Reduced(st, n)).state = g
<1> DEFINE p == SubSeq(st, 1, Len(st) - d)
<1>1. p \in Stacks /\ Last(p).state = Under(st, d)
  BY PopIs
<1>2. Reduced(st, n) = Push(p, g, None)
  BY <1>1 DEF Reduced, Popped
<1> HIDE DEF p
<1>3. None \in Values
  BY DEF Values
<1> QED  BY <1>1, <1>2, <1>3, PushIs

\* Which state is below which.
LEMMA Below ==
    ASSUME NEW u
    PROVE  /\ <<u, 2>> \in Edges => u \in {0, 6, 16}
           /\ <<u, 3>> \in Edges => u \in {0, 6}
           /\ <<u, 6>> \in Edges => u = 0
           /\ <<u, 7>> \in Edges => u = 0
           /\ <<u, 8>> \in Edges => u \in {0, 6}
           /\ <<u, 10>> \in Edges => u \in {0, 6}
           /\ <<u, 11>> \in Edges => u \in {0, 6, 16}
           /\ <<u, 1>> \in Edges => u \in {0, 6}
           /\ <<u, 12>> \in Edges => u = 1
           /\ <<u, 15>> \in Edges => u = 6
           /\ <<u, 16>> \in Edges => u = 8
           /\ <<u, 17>> \in Edges => u = 8
           /\ <<u, 19>> \in Edges => u = 11
           /\ <<u, 21>> \in Edges => u = 16
           /\ <<u, 22>> \in Edges => u = 17
           /\ <<u, 23>> \in Edges => u = 17
           /\ <<u, 24>> \in Edges => u = 17
           /\ <<u, 25>> \in Edges => u = 17
           /\ <<u, 26>> \in Edges => u = 17
           /\ <<u, 27>> \in Edges => u = 17
           /\ <<u, 28>> \in Edges => u = 17
           /\ <<u, 29>> \in Edges => u = 17
           /\ <<u, 30>> \in Edges => u = 19
           /\ <<u, 36>> \in Edges => u = 29
BY DEF Edges

LEMMA BelowWord ==
    ASSUME NEW u, NEW s \in 31 .. 35, <<u, s>> \in Edges
    PROVE  u = s - 9
BY DEF Edges

LEMMA BelowFile ==
    ASSUME NEW u, NEW s \in 22 .. 29, <<u, s>> \in Edges
    PROVE  u = 17
BY DEF Edges

LEMMA Above ==
    /\ \A s \in {1, 2, 3, 8, 10, 11} : <<0, s>> \in Edges /\ <<6, s>> \in Edges
    /\ \A s \in {5, 6, 7} : <<0, s>> \in Edges
    /\ <<5, 14>> \in Edges /\ <<6, 15>> \in Edges /\ <<1, 12>> \in Edges
    /\ <<8, 16>> \in Edges /\ <<8, 17>> \in Edges /\ <<11, 19>> \in Edges
    /\ \A s \in {2, 11, 21} : <<16, s>> \in Edges
    /\ \A s \in 22 .. 27 : <<17, s>> \in Edges
    /\ <<17, 28>> \in Edges /\ <<17, 29>> \in Edges
    /\ <<19, 30>> \in Edges /\ <<29, 36>> \in Edges
    /\ \A s \in 22 .. 26 : <<s, s + 9>> \in Edges
BY DEF Edges

\* One, two, three and four places below the top.
LEMMA Depth ==
    ASSUME NEW st \in Stacks
    PROVE  /\ Under(st, 0) # 0 => 1 < Len(st) /\ <<Under(st, 1), Under(st, 0)>> \in Edges
           /\ 1 < Len(st) /\ Under(st, 1) # 0 =>
                2 < Len(st) /\ <<Under(st, 2), Under(st, 1)>> \in Edges
           /\ 2 < Len(st) /\ Under(st, 2) # 0 =>
                3 < Len(st) /\ <<Under(st, 3), Under(st, 2)>> \in Edges
           /\ 3 < Len(st) /\ Under(st, 3) # 0 =>
                4 < Len(st) /\ <<Under(st, 4), Under(st, 3)>> \in Edges
<1>1. 0 < Len(st)
  BY StackType
<1>2. Under(st, 0) # 0 => 0 + 1 < Len(st) /\ <<Under(st, 0 + 1), Under(st, 0)>> \in Edges
  BY <1>1, UnderIs
<1>3. 1 < Len(st) /\ Under(st, 1) # 0 =>
        1 + 1 < Len(st) /\ <<Under(st, 1 + 1), Under(st, 1)>> \in Edges
  BY UnderIs
<1>4. 2 < Len(st) /\ Under(st, 2) # 0 =>
        2 + 1 < Len(st) /\ <<Under(st, 2 + 1), Under(st, 2)>> \in Edges
  BY UnderIs
<1>5. 3 < Len(st) /\ Under(st, 3) # 0 =>
        3 + 1 < Len(st) /\ <<Under(st, 3 + 1), Under(st, 3)>> \in Edges
  BY UnderIs
<1>6. 0 + 1 = 1 /\ 1 + 1 = 2 /\ 2 + 1 = 3 /\ 3 + 1 = 4
  OBVIOUS
<1> QED  BY <1>2, <1>3, <1>4, <1>5, <1>6

\* Each reduction, and the state it leads to.
Lands(st, n, S) == Reduced(st, n) \in Stacks /\ Last(Reduced(st, n)).state \in S

LEMMA LandsIn ==
    ASSUME NEW st \in Stacks, NEW s, s = Last(st).state
    PROVE  /\ s = 2 => Lands(st, 14, {11})
           /\ s = 11 => Lands(st, 16, {19})
           /\ s = 30 => Lands(st, 15, {19})
           /\ s = 19 => Lands(st, 13, {10, 21})
           /\ s = 10 => Lands(st, 10, {8})
           /\ s = 21 => Lands(st, 9, {8})
           /\ s = 8 => Lands(st, 18, {17})
           /\ s = 17 => Lands(st, 25, {29})
           /\ s = 27 => Lands(st, 24, {29})
           /\ s = 28 => Lands(st, 17, {17})
           /\ s \in 31 .. 35 => Lands(st, s - 12, {28})
           /\ s = 36 => Lands(st, 5, {7, 15})
           /\ s = 3 => Lands(st, 7, {7, 15})
           /\ s = 12 => Lands(st, 8, {7, 15})
           /\ s = 7 => Lands(st, 3, {6})
           /\ s = 15 => Lands(st, 4, {6})
           /\ s = 6 => Lands(st, 2, {5})
<1>1. Under(st, 0) = s /\ 0 < Len(st) /\ s \in States
  BY StackType
<1>0. /\ s # 0 => 1 < Len(st) /\ <<Under(st, 1), s>> \in Edges
      /\ 1 < Len(st) /\ Under(st, 1) # 0 =>
           2 < Len(st) /\ <<Under(st, 2), Under(st, 1)>> \in Edges
      /\ 2 < Len(st) /\ Under(st, 2) # 0 =>
           3 < Len(st) /\ <<Under(st, 3), Under(st, 2)>> \in Edges
      /\ 3 < Len(st) /\ Under(st, 3) # 0 =>
           4 < Len(st) /\ <<Under(st, 4), Under(st, 3)>> \in Edges
  BY <1>1, Depth
<1> DEFINE Goes(n, d, g) == Goto(n, Under(st, d)) = g /\ <<Under(st, d), g>> \in Edges
<1>2. ASSUME NEW n, NEW d \in {0, 1, 2, 3, 4}, d < Len(st), At(yyr2, n) = d,
             NEW S \in SUBSET States, \E g \in S : Goes(n, d, g)
      PROVE  Lands(st, n, S)
  <2>1. PICK g \in S : Goes(n, d, g)
    BY <1>2
  <2>2. d \in Nat /\ g \in States
    OBVIOUS
  <2> QED  BY <1>2, <2>1, <2>2, ReducedIs DEF Lands
<1>3. /\ {11} \in SUBSET States /\ {19} \in SUBSET States /\ {10, 21} \in SUBSET States
      /\ {8} \in SUBSET States /\ {17} \in SUBSET States /\ {29} \in SUBSET States
      /\ {28} \in SUBSET States /\ {7, 15} \in SUBSET States /\ {6} \in SUBSET States
      /\ {5} \in SUBSET States
  BY DEF States
<1>4. CASE s = 2
  <2>1. 1 < Len(st) /\ <<Under(st, 1), 2>> \in Edges
    BY <1>4, <1>0
  <2>2. 1 < Len(st) /\ Under(st, 1) \in {0, 6, 16}
    BY <1>4, <2>1, Below
  <2>3. Goes(14, 1, 11)
    BY <1>4, <2>2, GotoIs, Above
  <2>4. \E g \in {11} : Goes(14, 1, g)
    BY <2>3
  <2> HIDE DEF Goes
  <2>5. At(yyr2, 14) = 1 /\ 1 < Len(st) /\ {11} \in SUBSET States
    BY <1>4, <1>3, <2>2, LengthIs
  <2>6. Lands(st, 14, {11})
    BY <1>2, <2>4, <2>5
  <2> QED  BY <1>4, <2>6
<1>5. CASE s = 11
  <2>1. 0 < Len(st) /\ Under(st, 0) = s
    BY <1>1
  <2>2. Goes(16, 0, 19)
    BY <1>5, <2>1, GotoIs, Above
  <2>3. \E g \in {19} : Goes(16, 0, g)
    BY <2>2
  <2> HIDE DEF Goes
  <2>4. At(yyr2, 16) = 0 /\ 0 < Len(st) /\ {19} \in SUBSET States
    BY <1>5, <1>3, <2>1, LengthIs
  <2>5. Lands(st, 16, {19})
    BY <1>2, <2>3, <2>4
  <2> QED  BY <1>5, <2>5
<1>6. CASE s = 30
  <2>1. 1 < Len(st) /\ <<Under(st, 1), 30>> \in Edges
    BY <1>6, <1>0
  <2>2. 1 < Len(st) /\ Under(st, 1) = 19
    BY <1>6, <2>1, Below
  <2>3. 2 < Len(st) /\ <<Under(st, 2), 19>> \in Edges
    BY <1>6, <2>2, <1>0
  <2>4. 2 < Len(st) /\ Under(st, 2) = 11
    BY <1>6, <2>3, Below
  <2>5. Goes(15, 2, 19)
    BY <1>6, <2>4, GotoIs, Above
  <2>6. \E g \in {19} : Goes(15, 2, g)
    BY <2>5
  <2> HIDE DEF Goes
  <2>7. At(yyr2, 15) = 2 /\ 2 < Len(st) /\ {19} \in SUBSET States
    BY <1>6, <1>3, <2>4, LengthIs
  <2>8. Lands(st, 15, {19})
    BY <1>2, <2>6, <2>7
  <2> QED  BY <1>6, <2>8
<1>7. CASE s = 19
  <2>1. 1 < Len(st) /\ <<Under(st, 1), 19>> \in Edges
    BY <1>7, <1>0
  <2>2. 1 < Len(st) /\ Under(st, 1) = 11
    BY <1>7, <2>1, Below
  <2>3. 2 < Len(st) /\ <<Under(st, 2), 11>> \in Edges
    BY <1>7, <2>2, <1>0
  <2>4. 2 < Len(st) /\ Under(st, 2) \in {0, 6, 16}
    BY <1>7, <2>3, Below
  <2>5. Goes(13, 2, 10) \/ Goes(13, 2, 21)
    BY <1>7, <2>4, GotoIs, Above
  <2>6. \E g \in {10, 21} : Goes(13, 2, g)
    BY <2>5
  <2> HIDE DEF Goes
  <2>7. At(yyr2, 13) = 2 /\ 2 < Len(st) /\ {10, 21} \in SUBSET States
    BY <1>7, <1>3, <2>4, LengthIs
  <2>8. Lands(st, 13, {10, 21})
    BY <1>2, <2>6, <2>7
  <2> QED  BY <1>7, <2>8
<1>8. CASE s = 10
  <2>1. 1 < Len(st) /\ <<Under(st, 1), 10>> \in Edges
    BY <1>8, <1>0
  <2>2. 1 < Len(st) /\ Under(st, 1) \in {0, 6}
    BY <1>8, <2>1, Below
  <2>3. Goes(10, 1, 8)
    BY <1>8, <2>2, GotoIs, Above
  <2>4. \E g \in {8} : Goes(10, 1, g)
    BY <2>3
  <2> HIDE DEF Goes
  <2>5. At(yyr2, 10) = 1 /\ 1 < Len(st) /\ {8} \in SUBSET States
    BY <1>8, <1>3, <2>2, LengthIs
  <2>6. Lands(st, 10, {8})
    BY <1>2, <2>4, <2>5
  <2> QED  BY <1>8, <2>6
<1>9. CASE s = 21
  <2>1. 1 < Len(st) /\ <<Under(st, 1), 21>> \in Edges
    BY <1>9, <1>0
  <2>2. 1 < Len(st) /\ Under(st, 1) = 16
    BY <1>9, <2>1, Below
  <2>3. 2 < Len(st) /\ <<Under(st, 2), 16>> \in Edges
    BY <1>9, <2>2, <1>0
  <2>4. 2 < Len(st) /\ Under(st, 2) = 8
    BY <1>9, <2>3, Below
  <2>5. 3 < Len(st) /\ <<Under(st, 3), 8>> \in Edges
    BY <1>9, <2>4, <1>0
  <2>6. 3 < Len(st) /\ Under(st, 3) \in {0, 6}
    BY <1>9, <2>5, Below
  <2>7. Goes(9, 3, 8)
    BY <1>9, <2>6, GotoIs, Above
  <2>8. \E g \in {8} : Goes(9, 3, g)
    BY <2>7
  <2> HIDE DEF Goes
  <2>9. At(yyr2, 9) = 3 /\ 3 < Len(st) /\ {8} \in SUBSET States
    BY <1>9, <1>3, <2>6, LengthIs
  <2>10. Lands(st, 9, {8})
    BY <1>2, <2>8, <2>9
  <2> QED  BY <1>9, <2>10
<1>10. CASE s = 8
  <2>1. 0 < Len(st) /\ Under(st, 0) = s
    BY <1>1
  <2>2. Goes(18, 0, 17)
    BY <1>10, <2>1, GotoIs, Above
  <2>3. \E g \in {17} : Goes(18, 0, g)
    BY <2>2
  <2> HIDE DEF Goes
  <2>4. At(yyr2, 18) = 0 /\ 0 < Len(st) /\ {17} \in SUBSET States
    BY <1>10, <1>3, <2>1, LengthIs
  <2>5. Lands(st, 18, {17})
    BY <1>2, <2>3, <2>4
  <2> QED  BY <1>10, <2>5
<1>11. CASE s = 17
  <2>1. 0 < Len(st) /\ Under(st, 0) = s
    BY <1>1
  <2>2. Goes(25, 0, 29)
    BY <1>11, <2>1, GotoIs, Above
  <2>3. \E g \in {29} : Goes(25, 0, g)
    BY <2>2
  <2> HIDE DEF Goes
  <2>4. At(yyr2, 25) = 0 /\ 0 < Len(st) /\ {29} \in SUBSET States
    BY <1>11, <1>3, <2>1, LengthIs
  <2>5. Lands(st, 25, {29})
    BY <1>2, <2>3, <2>4
  <2> QED  BY <1>11, <2>5
<1>12. CASE s = 27
  <2>1. 1 < Len(st) /\ <<Under(st, 1), 27>> \in Edges
    BY <1>12, <1>0
  <2>2. 1 < Len(st) /\ Under(st, 1) = 17
    BY <1>12, <2>1, Below
  <2>3. Goes(24, 1, 29)
    BY <1>12, <2>2, GotoIs, Above
  <2>4. \E g \in {29} : Goes(24, 1, g)
    BY <2>3
  <2> HIDE DEF Goes
  <2>5. At(yyr2, 24) = 1 /\ 1 < Len(st) /\ {29} \in SUBSET States
    BY <1>12, <1>3, <2>2, LengthIs
  <2>6. Lands(st, 24, {29})
    BY <1>2, <2>4, <2>5
  <2> QED  BY <1>12, <2>6
<1>13. CASE s = 28
  <2>1. 1 < Len(st) /\ <<Under(st, 1), 28>> \in Edges
    BY <1>13, <1>0
  <2>2. 1 < Len(st) /\ Under(st, 1) = 17
    BY <1>13, <2>1, Below
  <2>3. 2 < Len(st) /\ <<Under(st, 2), 17>> \in Edges
    BY <1>13, <2>2, <1>0
  <2>4. 2 < Len(st) /\ Under(st, 2) = 8
    BY <1>13, <2>3, Below
  <2>5. Goes(17, 2, 17)
    BY <1>13, <2>4, GotoIs, Above
  <2>6. \E g \in {17} : Goes(17, 2, g)
    BY <2>5
  <2> HIDE DEF Goes
  <2>7. At(yyr2, 17) = 2 /\ 2 < Len(st) /\ {17} \in SUBSET States
    BY <1>13, <1>3, <2>4, LengthIs
  <2>8. Lands(st, 17, {17})
    BY <1>2, <2>6, <2>7
  <2> QED  BY <1>13, <2>8
<1>14. CASE s \in 31 .. 35
  <2> DEFINE f == s - 9  n == s - 12
  <2>1. f \in 22 .. 26 /\ f \in 22 .. 29 /\ n \in 19 .. 23 /\ s # 0 /\ f # 0
    BY <1>14
  <2>2. 1 < Len(st) /\ <<Under(st, 1), s>> \in Edges
    BY <2>1, <1>0
  <2>3. Under(st, 1) = f
    BY <1>14, <2>2, BelowWord
  <2> HIDE DEF f, n
  <2>4. 2 < Len(st) /\ <<Under(st, 2), f>> \in Edges
    BY <2>1, <2>2, <2>3, <1>0
  <2>5. Under(st, 2) = 17
    BY <2>1, <2>4, BelowFile
  <2>6. Goto(n, 17) = 28 /\ At(yyr2, n) = 2
    BY <2>1, GotoIs, LengthIs
  <2>7. Goes(n, 2, 28)
    BY <2>5, <2>6, Above
  <2>8. \E g \in {28} : Goes(n, 2, g)
    BY <2>7
  <2> HIDE DEF Goes
  <2>9. Lands(st, n, {28})
    BY <1>2, <1>3, <2>4, <2>6, <2>8
  <2> QED  BY <1>14, <2>9 DEF n
<1>15. CASE s = 36
  <2>1. 1 < Len(st) /\ <<Under(st, 1), 36>> \in Edges
    BY <1>15, <1>0
  <2>2. 1 < Len(st) /\ Under(st, 1) = 29
    BY <1>15, <2>1, Below
  <2>3. 2 < Len(st) /\ <<Under(st, 2), 29>> \in Edges
    BY <1>15, <2>2, <1>0
  <2>4. 2 < Len(st) /\ Under(st, 2) = 17
    BY <1>15, <2>3, Below
  <2>5. 3 < Len(st) /\ <<Under(st, 3), 17>> \in Edges
    BY <1>15, <2>4, <1>0
  <2>6. 3 < Len(st) /\ Under(st, 3) = 8
    BY <1>15, <2>5, Below
  <2>7. 4 < Len(st) /\ <<Under(st, 4), 8>> \in Edges
    BY <1>15, <2>6, <1>0
  <2>8. 4 < Len(st) /\ Under(st, 4) \in {0, 6}
    BY <1>15, <2>7, Below
  <2>9. Goes(5, 4, 7) \/ Goes(5, 4, 15)
    BY <1>15, <2>8, GotoIs, Above
  <2>10. \E g \in {7, 15} : Goes(5, 4, g)
    BY <2>9
  <2> HIDE DEF Goes
  <2>11. At(yyr2, 5) = 4 /\ 4 < Len(st) /\ {7, 15} \in SUBSET States
    BY <1>15, <1>3, <2>8, LengthIs
  <2>12. Lands(st, 5, {7, 15})
    BY <1>2, <2>10, <2>11
  <2> QED  BY <1>15, <2>12
<1>16. CASE s = 3
  <2>1. 1 < Len(st) /\ <<Under(st, 1), 3>> \in Edges
    BY <1>16, <1>0
  <2>2. 1 < Len(st) /\ Under(st, 1) \in {0, 6}
    BY <1>16, <2>1, Below
  <2>3. Goes(7, 1, 7) \/ Goes(7, 1, 15)
    BY <1>16, <2>2, GotoIs, Above
  <2>4. \E g \in {7, 15} : Goes(7, 1, g)
    BY <2>3
  <2> HIDE DEF Goes
  <2>5. At(yyr2, 7) = 1 /\ 1 < Len(st) /\ {7, 15} \in SUBSET States
    BY <1>16, <1>3, <2>2, LengthIs
  <2>6. Lands(st, 7, {7, 15})
    BY <1>2, <2>4, <2>5
  <2> QED  BY <1>16, <2>6
<1>17. CASE s = 12
  <2>1. 1 < Len(st) /\ <<Under(st, 1), 12>> \in Edges
    BY <1>17, <1>0
  <2>2. 1 < Len(st) /\ Under(st, 1) = 1
    BY <1>17, <2>1, Below
  <2>3. 2 < Len(st) /\ <<Under(st, 2), 1>> \in Edges
    BY <1>17, <2>2, <1>0
  <2>4. 2 < Len(st) /\ Under(st, 2) \in {0, 6}
    BY <1>17, <2>3, Below
  <2>5. Goes(8, 2, 7) \/ Goes(8, 2, 15)
    BY <1>17, <2>4, GotoIs, Above
  <2>6. \E g \in {7, 15} : Goes(8, 2, g)
    BY <2>5
  <2> HIDE DEF Goes
  <2>7. At(yyr2, 8) = 2 /\ 2 < Len(st) /\ {7, 15} \in SUBSET States
    BY <1>17, <1>3, <2>4, LengthIs
  <2>8. Lands(st, 8, {7, 15})
    BY <1>2, <2>6, <2>7
  <2> QED  BY <1>17, <2>8
<1>18. CASE s = 7
  <2>1. 1 < Len(st) /\ <<Under(st, 1), 7>> \in Edges
    BY <1>18, <1>0
  <2>2. 1 < Len(st) /\ Under(st, 1) = 0
    BY <1>18, <2>1, Below
  <2>3. Goes(3, 1, 6)
    BY <1>18, <2>2, GotoIs, Above
  <2>4. \E g \in {6} : Goes(3, 1, g)
    BY <2>3
  <2> HIDE DEF Goes
  <2>5. At(yyr2, 3) = 1 /\ 1 < Len(st) /\ {6} \in SUBSET States
    BY <1>18, <1>3, <2>2, LengthIs
  <2>6. Lands(st, 3, {6})
    BY <1>2, <2>4, <2>5
  <2> QED  BY <1>18, <2>6
<1>19. CASE s = 15
  <2>1. 1 < Len(st) /\ <<Under(st, 1), 15>> \in Edges
    BY <1>19, <1>0
  <2>2. 1 < Len(st) /\ Under(st, 1) = 6
    BY <1>19, <2>1, Below
  <2>3. 2 < Len(st) /\ <<Under(st, 2), 6>> \in Edges
    BY <1>19, <2>2, <1>0
  <2>4. 2 < Len(st) /\ Under(st, 2) = 0
    BY <1>19, <2>3, Below
  <2>5. Goes(4, 2, 6)
    BY <1>19, <2>4, GotoIs, Above
  <2>6. \E g \in {6} : Goes(4, 2, g)
    BY <2>5
  <2> HIDE DEF Goes
  <2>7. At(yyr2, 4) = 2 /\ 2 < Len(st) /\ {6} \in SUBSET States
    BY <1>19, <1>3, <2>4, LengthIs
  <2>8. Lands(st, 4, {6})
    BY <1>2, <2>6, <2>7
  <2> QED  BY <1>19, <2>8
<1>20. CASE s = 6
  <2>1. 1 < Len(st) /\ <<Under(st, 1), 6>> \in Edges
    BY <1>20, <1>0
  <2>2. 1 < Len(st) /\ Under(st, 1) = 0
    BY <1>20, <2>1, Below
  <2>3. Goes(2, 1, 5)
    BY <1>20, <2>2, GotoIs, Above
  <2>4. \E g \in {5} : Goes(2, 1, g)
    BY <2>3
  <2> HIDE DEF Goes
  <2>5. At(yyr2, 2) = 1 /\ 1 < Len(st) /\ {5} \in SUBSET States
    BY <1>20, <1>3, <2>2, LengthIs
  <2>6. Lands(st, 2, {5})
    BY <1>2, <2>4, <2>5
  <2> QED  BY <1>20, <2>6
<1> QED  BY <1>4, <1>5, <1>6, <1>7, <1>8, <1>9, <1>10, <1>11, <1>12, <1>13, <1>14, <1>15, <1>16, <1>17, <1>18, <1>19, <1>20

-----------------------------------------------------------------------------
\* In state s, with v the value at the top of the stack, x the lookahead, sm the
\* simple command and t the table, b the table the line began with, q what the
\* grammar makes of the lexemes that are shifted and p of the line: how they agree.
Agrees(s, v, x, sm, t, b, q, p) ==
  /\ s \in {0, 3, 5, 6, 7, 15} => q = Start(b) /\ t = b
  /\ s = 2 => q.at = "args" /\ q.simple = <<v>> /\ t = q.table
  /\ s \in {11, 19} => q.at = "args" /\ q.simple = sm /\ t = q.table
  /\ s = 30 => q.at = "args" /\ q.simple = Append(sm, v) /\ t = q.table
  /\ s \in {8, 10, 21} => /\ q.at = "args" /\ t = Reduce(q).table
                          /\ x \in Tokens /\ Kind(x) # "WORD"
  /\ s = 16 => q.at = "pipe" /\ t = q.table
  /\ s = 17 => \/ /\ q.at = "args" /\ t = Reduce(q).table
                  /\ x \in Tokens /\ Kind(x) \notin {"WORD", "PIPE"}
               \/ q.at = "modifiers" /\ t = q.table
  /\ s \in 22 .. 26 => q.at = "file" /\ q.redirect = Redirection[s - 3] /\ t = q.table
  /\ s \in 31 .. 35 => q.at = "modifiers" /\ q.table = Redirect(t, Redirection[s - 12], v)
  /\ s = 28 => q.at = "modifiers" /\ t = q.table
  /\ s = 27 => q.at = "background" /\ q.table = [t EXCEPT !.bg = TRUE]
  /\ s = 29 => \/ q.at = "background" /\ t = q.table
               \/ /\ x \in Tokens /\ Kind(x) \notin Redirects \cup {"AMPERSAND"}
                  /\ t = Reduce(q).table
                  /\ \/ q.at = "args" /\ Kind(x) \notin {"WORD", "PIPE"}
                     \/ q.at = "modifiers"
  /\ s = 36 => p.at \notin {"start", "error"} /\ t = p.table
  /\ s = 12 => p.at = "error" /\ t = p.table
  /\ s = 1 => \/ x = YYEOF
              \/ /\ p.at = "error" /\ t = p.table
                 /\ x # NEWLINE => IF x \in Lexemes THEN Shift(q, x).at = "error"
                                                    ELSE q.at = "error"

\* A reduction keeps the agreement.
LEMMA ReduceAgrees ==
    ASSUME NEW s, NEW v, NEW x, NEW sm, NEW t, NEW b, NEW q \in Grammar, NEW p,
           Agrees(s, v, x, sm, t, b, q, p), NEW w
    PROVE  /\ s = 2 => Agrees(11, w, x, <<v>>, t, b, q, p)
           /\ s = 11 => Agrees(19, w, x, sm, t, b, q, p)
           /\ s = 30 => Agrees(19, w, x, Append(sm, v), t, b, q, p)
           /\ s = 19 /\ x \in Tokens /\ Kind(x) # "WORD" =>
                /\ Agrees(10, w, x, sm, Insert(t, sm), b, q, p)
                /\ Agrees(21, w, x, sm, Insert(t, sm), b, q, p)
           /\ s \in {10, 21} => Agrees(8, w, x, sm, t, b, q, p)
           /\ s = 8 /\ Kind(x) # "PIPE" => Agrees(17, w, x, sm, t, b, q, p)
           /\ s = 17 /\ x \in Tokens /\ Kind(x) \notin Redirects \cup {"AMPERSAND"} =>
                Agrees(29, w, x, sm, t, b, q, p)
           /\ s = 27 => Agrees(29, w, x, sm, [t EXCEPT !.bg = TRUE], b, q, p)
           /\ s = 28 => Agrees(17, w, x, sm, t, b, q, p)
           /\ s \in 31 .. 35 =>
                Agrees(28, w, x, sm, Redirect(t, Redirection[s - 12], v), b, q, p)
           /\ s \in {7, 15} => Agrees(6, w, x, sm, t, b, q, p)
           /\ s = 6 => Agrees(5, w, x, sm, t, b, q, p)
<1> USE DEF Agrees
<1>1. s = 2 => Agrees(11, w, x, <<v>>, t, b, q, p)
  OBVIOUS
<1>2. s = 11 => Agrees(19, w, x, sm, t, b, q, p)
  OBVIOUS
<1>3. s = 30 => Agrees(19, w, x, Append(sm, v), t, b, q, p)
  OBVIOUS
<1>4. ASSUME s = 19, x \in Tokens, Kind(x) # "WORD"
      PROVE  /\ Agrees(10, w, x, sm, Insert(t, sm), b, q, p)
             /\ Agrees(21, w, x, sm, Insert(t, sm), b, q, p)
  <2>1. q.at = "args" /\ q.simple = sm /\ t = q.table
    BY <1>4
  <2>2. Reduce(q).table = Insert(t, sm)
    BY <2>1, ReduceArgs
  <2> QED  BY <1>4, <2>1, <2>2
<1>5. s \in {10, 21} => Agrees(8, w, x, sm, t, b, q, p)
  OBVIOUS
<1>6. s = 8 /\ Kind(x) # "PIPE" => Agrees(17, w, x, sm, t, b, q, p)
  OBVIOUS
<1>7. s = 17 /\ x \in Tokens /\ Kind(x) \notin Redirects \cup {"AMPERSAND"} =>
        Agrees(29, w, x, sm, t, b, q, p)
  <2> SUFFICES ASSUME s = 17, x \in Tokens, Kind(x) \notin Redirects \cup {"AMPERSAND"}
               PROVE  Agrees(29, w, x, sm, t, b, q, p)
    OBVIOUS
  <2>1. \/ q.at = "args" /\ t = Reduce(q).table /\ Kind(x) \notin {"WORD", "PIPE"}
        \/ q.at = "modifiers" /\ t = Reduce(q).table
    BY ReduceOther
  <2> QED  BY <2>1
<1>8. s = 27 => Agrees(29, w, x, sm, [t EXCEPT !.bg = TRUE], b, q, p)
  OBVIOUS
<1>9. s = 28 => Agrees(17, w, x, sm, t, b, q, p)
  OBVIOUS
<1>10. s \in 31 .. 35 => Agrees(28, w, x, sm, Redirect(t, Redirection[s - 12], v), b, q, p)
  OBVIOUS
<1>11. s \in {7, 15} => Agrees(6, w, x, sm, t, b, q, p)
  OBVIOUS
<1>12. s = 6 => Agrees(5, w, x, sm, t, b, q, p)
  OBVIOUS
<1> HIDE DEF Agrees
<1> QED  BY <1>1, <1>2, <1>3, <1>4, <1>5, <1>6, <1>7, <1>8, <1>9, <1>10, <1>11, <1>12

\* Shifting a lexeme keeps the agreement.
LEMMA ShiftAgrees ==
    ASSUME NEW s \in States, NEW v, NEW x \in Lexemes, NEW sm, NEW t, NEW b \in Tables,
           NEW q \in Grammar, NEW p, NEW p2, NEW y,
           Agrees(s, v, x, sm, t, b, q, p), NEW k, k = Kind(x)
    PROVE  /\ s \in {0, 6, 16} /\ k = "WORD" => Agrees(2, x, y, sm, t, b, Shift(q, x), p2)
           /\ s = 19 /\ k = "WORD" => Agrees(30, x, y, sm, t, b, Shift(q, x), p2)
           /\ s = 8 /\ k = "PIPE" => Agrees(16, x, y, sm, t, b, Shift(q, x), p2)
           /\ s = 17 /\ k \in Redirects =>
                \A u \in 22 .. 26 : Redirection[u - 3] = k => Agrees(u, x, y, sm, t, b, Shift(q, x), p2)
           /\ s = 17 /\ k = "AMPERSAND" => Agrees(27, x, y, sm, t, b, Shift(q, x), p2)
           /\ s \in 22 .. 26 /\ k = "WORD" => Agrees(s + 9, x, y, sm, t, b, Shift(q, x), p2)
<1>1. k = Token(x)
  BY KindIs DEF Tokens
<1> DEFINE z == Shift(q, x)
<1>2. ASSUME s \in {0, 6, 16}, k = "WORD" PROVE Agrees(2, x, y, sm, t, b, z, p2)
  <2>1. q.at \in {"start", "pipe"} /\ t = q.table
    BY <1>2 DEF Agrees, Start
  <2>2. z.at = "args" /\ z.simple = <<x>> /\ z.table = q.table
    BY <1>1, <1>2, <2>1, WordIs
  <2> HIDE DEF z
  <2> QED  BY <2>1, <2>2 DEF Agrees
<1>3. ASSUME s = 19, k = "WORD" PROVE Agrees(30, x, y, sm, t, b, z, p2)
  <2>1. q.at = "args" /\ q.simple = sm /\ t = q.table
    BY <1>3 DEF Agrees
  <2>2. z.at = "args" /\ z.simple = Append(q.simple, x) /\ z.table = q.table
    BY <1>1, <1>3, <2>1, WordIs
  <2> HIDE DEF z
  <2> QED  BY <2>1, <2>2 DEF Agrees
<1>4. ASSUME s = 8, k = "PIPE" PROVE Agrees(16, x, y, sm, t, b, z, p2)
  <2>1. q.at = "args" /\ t = Reduce(q).table
    BY <1>4 DEF Agrees
  <2>2. Reduce(q).at = "pipe_list"
    BY <2>1, ReduceArgs
  <2>3. z.at = "pipe" /\ z.table = Reduce(q).table
    BY <1>1, <1>4, <2>2, OperatorIs
  <2> HIDE DEF z
  <2> QED  BY <2>1, <2>3 DEF Agrees
<1>5. s = 17 => Reduce(q).at \in {"pipe_list", "modifiers"} /\ t = Reduce(q).table
  <2>1. s = 17 => \/ q.at = "args" /\ t = Reduce(q).table
                  \/ q.at = "modifiers" /\ t = q.table
    BY DEF Agrees
  <2> QED  BY <2>1, ReduceArgs, ReduceOther
<1>6. ASSUME s = 17, k \in Redirects, NEW u \in 22 .. 26, Redirection[u - 3] = k
      PROVE  Agrees(u, x, y, sm, t, b, z, p2)
  <2>1. k # "WORD"
    BY <1>6 DEF Redirects
  <2>2. z.at = "file" /\ z.redirect = k /\ z.table = Reduce(q).table
    BY <1>1, <1>5, <1>6, <2>1, OperatorIs
  <2> HIDE DEF z
  <2> QED  BY <1>5, <1>6, <2>2 DEF Agrees
<1>7. ASSUME s = 17, k = "AMPERSAND" PROVE Agrees(27, x, y, sm, t, b, z, p2)
  <2>1. z.at = "background" /\ z.table = [Reduce(q).table EXCEPT !.bg = TRUE]
    BY <1>1, <1>5, <1>7, OperatorIs
  <2>2. z.at = "background" /\ z.table = [t EXCEPT !.bg = TRUE]
    BY <1>5, <1>7, <2>1
  <2> HIDE DEF z
  <2> QED  BY <2>2 DEF Agrees
<1>8. ASSUME s \in 22 .. 26, k = "WORD" PROVE Agrees(s + 9, x, y, sm, t, b, z, p2)
  <2>1. q.at = "file" /\ q.redirect = Redirection[s - 3] /\ t = q.table
    BY <1>8 DEF Agrees
  <2>2. z.at = "modifiers" /\ z.table = Redirect(q.table, q.redirect, x)
    BY <1>1, <1>8, <2>1, WordIs
  <2> DEFINE u == s + 9
  <2>3. u \in 31 .. 35 /\ u - 12 = s - 3
    BY <1>8
  <2> HIDE DEF z, u
  <2>4. Agrees(u, x, y, sm, t, b, z, p2)
    BY <2>1, <2>2, <2>3 DEF Agrees
  <2> QED  BY <2>4 DEF u
<1> QED  BY <1>2, <1>3, <1>4, <1>6, <1>7, <1>8

\* What has become of the line at its end.
LEMMA EndIs ==
    ASSUME NEW q \in Grammar, NEW r, r = Reduce(q)
    PROVE  /\ EndOf(r).table = r.table
           /\ r.at \in {"start", "pipe_list", "modifiers", "background"} => EndOf(r).at = r.at
           /\ r.at \notin {"start", "pipe_list", "modifiers", "background"} =>
                EndOf(r).at = "error"
BY ReduceType, ErrorIs DEF EndOf

\* A lexeme that has no place here is an error; what was complete stays in the table.
LEMMA Misplaced ==
    ASSUME NEW q \in Grammar, NEW x \in Lexemes, NEW k, k = Token(x),
           \/ q.at \in {"start", "pipe", "file"} /\ k # "WORD"
           \/ q.at \in {"background", "error"}
           \/ q.at = "modifiers" /\ k \notin Redirects \cup {"AMPERSAND"}
           \/ q.at = "args" /\ k \notin Redirects \cup {"AMPERSAND", "PIPE", "WORD"}
    PROVE  Shift(q, x).at = "error" /\ Shift(q, x).table = Reduce(q).table
<1> DEFINE r == Reduce(q)
<1>1. \/ q.at = "args" /\ r.at = "pipe_list"
      \/ q.at # "args" /\ r = q
  BY ReduceArgs, ReduceOther
<1>2. CASE k = "WORD"
  <2>1. q.at \in {"modifiers", "background", "error"} /\ r = q
    BY <1>1, <1>2
  <2> QED  BY <1>2, <2>1, WordIs
<1>3. CASE k # "WORD"
  <2> HIDE DEF r
  <2>1. \/ k = "PIPE" /\ r.at # "pipe_list"
        \/ k \in Redirects \cup {"AMPERSAND"} /\ r.at \notin {"pipe_list", "modifiers"}
        \/ k \notin Redirects \cup {"AMPERSAND", "PIPE"}
    <3>1. CASE q.at \in {"start", "pipe", "file", "background", "error"}
      BY <1>1, <3>1
    <3>2. CASE q.at = "modifiers"
      BY <1>1, <1>3, <3>2
    <3>3. CASE q.at = "args"
      BY <1>1, <1>3, <3>3
    <3> QED  BY <3>1, <3>2, <3>3
  <2>2. Shift(q, x).at = "error" /\ Shift(q, x).table = r.table
    BY <1>3, <2>1, OperatorIs DEF r
  <2> QED  BY <2>2 DEF r
<1> QED  BY <1>2, <1>3

\* In an error the rest of the line changes nothing.
LEMMA InError ==
    ASSUME NEW q \in Grammar, q.at = "error", NEW x \in Lexemes
    PROVE  Shift(q, x).at = "error" /\ Shift(q, x).table = q.table
BY Misplaced, ReduceOther

\* The end of a line.
LEMMA NewlineAgrees ==
    ASSUME NEW s, NEW v, NEW sm, NEW t, NEW b, NEW q \in Grammar, NEW y, NEW w,
           Agrees(s, v, NEWLINE, sm, t, b, q, EndOf(Reduce(q)))
    PROVE  /\ s \in {0, 6} => Agrees(3, w, y, sm, t, b, q, EndOf(Reduce(q)))
           /\ s = 1 => Agrees(12, w, y, sm, t, b, q, EndOf(Reduce(q)))
           /\ s = 29 => Agrees(36, w, y, sm, t, b, q, EndOf(Reduce(q)))
<1> DEFINE r == Reduce(q)  p == EndOf(r)
<1>1. s \in {0, 6} => Agrees(3, w, y, sm, t, b, q, p)
  <2> HIDE DEF p
  <2> QED  BY DEF Agrees
<1>2. s = 1 => Agrees(12, w, y, sm, t, b, q, p)
  <2>1. s = 1 => p.at = "error" /\ t = p.table
    BY DEF Agrees, NEWLINE, YYEOF
  <2> HIDE DEF p
  <2> QED  BY <2>1 DEF Agrees
<1>3. ASSUME s = 29 PROVE Agrees(36, w, y, sm, t, b, q, p)
  <2>1. \/ q.at = "background" /\ t = q.table
        \/ q.at = "args" /\ t = r.table
        \/ q.at = "modifiers" /\ t = r.table
    BY <1>3 DEF Agrees
  <2>2. r.at \in {"background", "pipe_list", "modifiers"} /\ t = r.table
    BY <2>1, ReduceArgs, ReduceOther
  <2>3. p.at = r.at /\ p.table = r.table
    BY <2>2, EndIs
  <2> HIDE DEF p, r
  <2>4. p.at \notin {"start", "error"} /\ t = p.table
    BY ONLY <2>2, <2>3
  <2> QED  BY ONLY <2>4 DEF Agrees
<1> QED  BY <1>1, <1>2, <1>3

\* What the grammar makes of a lookahead, if it is a lexeme.
With(q, x) == IF x \in Lexemes THEN Shift(q, x) ELSE q

\* A syntax error.
LEMMA ErrorAgrees ==
    ASSUME NEW s \in {0, 6, 16, 29} \cup (22 .. 26), NEW v, NEW x \in Tokens, NEW sm, NEW t,
           NEW b \in Tables, NEW q \in Grammar, NEW p, p = EndOf(Reduce(With(q, x))), NEW w,
           Agrees(s, v, x, sm, t, b, q, p), Choice(s, x) = 0
    PROVE  Agrees(1, w, x, sm, t, b, q, p)
<1> DEFINE k == Kind(x)  r == Reduce(q)
<1>1. /\ s \in {0, 6} => k \notin {"WORD", "NEWLINE"}
      /\ s = 16 => k # "WORD"
      /\ s \in 22 .. 26 => k # "WORD"
      /\ s = 29 => k # "NEWLINE"
  BY Looked
<1>2. CASE x = YYEOF
  BY <1>2 DEF Agrees
<1>3. CASE x = NEWLINE
  <2>1. k = "NEWLINE" /\ With(q, x) = q
    BY <1>3, ParserAssumption DEF Kind, With, NEWLINE
  <2>2. s = 16 \/ s \in 22 .. 26
    BY <1>1, <2>1
  <2>3. q.at \in {"pipe", "file"} /\ t = q.table
    BY <2>2 DEF Agrees
  <2>4. r = q
    BY <2>3, ReduceOther
  <2>5. p.at = "error" /\ p.table = q.table
    BY <2>1, <2>3, <2>4, EndIs
  <2> QED  BY <1>3, <2>3, <2>5 DEF Agrees
<1>4. CASE x \in Lexemes
  <2> DEFINE z == Shift(q, x)
  <2>1. k = Token(x) /\ With(q, x) = z /\ x # NEWLINE
    BY <1>4, KindIs, ParserAssumption DEF With
  <2>2. z.at = "error" /\ z.table = t
    <3> DEFINE u == q.at
    <3> HIDE DEF k
    <3>1. CASE s \in {0, 6, 16} \cup (22 .. 26)
      <4>1. u \in {"start", "pipe", "file"} /\ q.table = t
        <5>1. CASE s \in {0, 6}
          <6>1. q = Start(b) /\ t = b
            BY <5>1 DEF Agrees
          <6> QED  BY <6>1 DEF Start
        <5>2. CASE s = 16
          BY <5>2 DEF Agrees
        <5>3. CASE s \in 22 .. 26
          BY <5>3 DEF Agrees
        <5> QED  BY <3>1, <5>1, <5>2, <5>3
      <4>2. r = q /\ k # "WORD"
        BY <1>1, <3>1, <4>1, ReduceOther
      <4> HIDE DEF r
      <4> QED  BY <1>4, <2>1, <4>1, <4>2, Misplaced DEF r
    <3>2. CASE s = 29
      <4>1. \/ u = "background" /\ t = r.table
            \/ u = "args" /\ k \notin Redirects \cup {"AMPERSAND", "PIPE", "WORD"} /\ t = r.table
            \/ u = "modifiers" /\ k \notin Redirects \cup {"AMPERSAND"} /\ t = r.table
        BY <3>2, ReduceOther DEF Agrees, k
      <4> HIDE DEF r
      <4>2. /\ \/ u \in {"background", "error"}
               \/ u = "modifiers" /\ k \notin Redirects \cup {"AMPERSAND"}
               \/ u = "args" /\ k \notin Redirects \cup {"AMPERSAND", "PIPE", "WORD"}
            /\ t = r.table
        BY <4>1
      <4> QED  BY <1>4, <2>1, <4>2, Misplaced DEF r
    <3> QED  BY <3>1, <3>2
  <2>3. z \in Grammar
    BY <1>4, ShiftType
  <2> HIDE DEF z, k, r
  <2>4. Reduce(z) = z
    BY <2>2, ReduceOther
  <2>5. p.at = "error" /\ p.table = t
    BY <2>1, <2>2, <2>3, <2>4, EndIs
  <2>6. Shift(q, x).at = "error"
    BY <2>2 DEF z
  <2> QED  BY <1>4, <2>1, <2>5, <2>6 DEF Agrees
<1> QED  BY <1>2, <1>3, <1>4 DEF Tokens

\* In the error state a lexeme is discarded, and the next is read.
LEMMA DiscardAgrees ==
    ASSUME NEW v, NEW x \in Lexemes, NEW sm, NEW t, NEW b, NEW q \in Grammar, NEW p, NEW w,
           Agrees(1, v, x, sm, t, b, q, p)
    PROVE  Agrees(1, w, YYEMPTY, sm, t, b, Shift(q, x), p)
<1>1. x \notin {YYEMPTY, YYEOF, NEWLINE} /\ YYEMPTY \notin Lexemes
  BY ParserAssumption
<1>2. p.at = "error" /\ t = p.table /\ Shift(q, x).at = "error"
  BY <1>1 DEF Agrees
<1> DEFINE z == Shift(q, x)
<1> HIDE DEF z
<1>3. z.at = "error"
  BY <1>2 DEF z
<1>4. Agrees(1, w, YYEMPTY, sm, t, b, z, p)
  BY <1>1, <1>2, <1>3 DEF Agrees
<1> QED  BY <1>4 DEF z

\* Reading the lookahead keeps the agreement.
LEMMA LexAgrees ==
    ASSUME NEW s \in Looking, NEW v, NEW x \in Tokens, NEW sm, NEW t, NEW b,
           NEW q \in Grammar, s # 5, s # 8,
           Agrees(s, v, YYEMPTY, sm, t, b, q, EndOf(Reduce(q)))
    PROVE  Agrees(s, v, x, sm, t, b, q, EndOf(Reduce(With(q, x))))
<1>1. YYEMPTY \notin Tokens /\ YYEMPTY \notin Lexemes /\ YYEMPTY # YYEOF /\ YYEMPTY # NEWLINE
  BY ParserAssumption DEF Tokens, YYEMPTY, YYEOF, NEWLINE
<1> DEFINE p == EndOf(Reduce(q))  u == EndOf(Reduce(With(q, x)))
<1>2. CASE s \in {0, 6}
  <2> HIDE DEF p, u
  <2>1. q = Start(b) /\ t = b
    BY <1>2 DEF Agrees, p
  <2>2. Agrees(0, v, x, sm, t, b, q, u)
    BY ONLY <2>1 DEF Agrees
  <2>3. Agrees(6, v, x, sm, t, b, q, u)
    BY ONLY <2>1 DEF Agrees
  <2> QED  BY <1>2, <2>2, <2>3 DEF u
<1>3. CASE s = 16
  <2> HIDE DEF p, u
  <2>1. q.at = "pipe" /\ t = q.table
    BY <1>1, <1>3 DEF Agrees, p
  <2>2. Agrees(16, v, x, sm, t, b, q, u)
    BY ONLY <2>1 DEF Agrees
  <2> QED  BY <1>3, <2>2 DEF u
<1>5. CASE s = 17
  <2> HIDE DEF p, u
  <2>1. q.at = "modifiers" /\ t = q.table
    BY <1>1, <1>5 DEF Agrees, p
  <2>2. Agrees(17, v, x, sm, t, b, q, u)
    BY ONLY <2>1 DEF Agrees
  <2> QED  BY <1>5, <2>2 DEF u
<1>6. CASE s = 19
  <2> HIDE DEF p, u
  <2>1. q.at = "args" /\ q.simple = sm /\ t = q.table
    BY <1>1, <1>6 DEF Agrees, p
  <2>2. Agrees(19, v, x, sm, t, b, q, u)
    BY ONLY <2>1 DEF Agrees
  <2> QED  BY <1>6, <2>2 DEF u
<1>7. CASE s = 29
  <2> HIDE DEF p, u
  <2>1. q.at = "background" /\ t = q.table
    BY <1>1, <1>7 DEF Agrees, p
  <2>2. Agrees(29, v, x, sm, t, b, q, u)
    BY ONLY <2>1 DEF Agrees
  <2> QED  BY <1>7, <2>2 DEF u
<1>8. CASE s \in 22 .. 26
  <2> HIDE DEF p, u
  <2>1. q.at = "file" /\ q.redirect = Redirection[s - 3] /\ t = q.table
    BY <1>8 DEF Agrees, p
  <2>2. Agrees(s, v, x, sm, t, b, q, u)
    BY ONLY <1>8, <2>1 DEF Agrees
  <2> QED  BY <2>2 DEF u
<1>4. CASE s = 1
  <2>1. p.at = "error" /\ t = p.table /\ q.at = "error"
    BY <1>1, <1>4 DEF Agrees
  <2>2. Reduce(q) = q /\ p.table = q.table
    BY <2>1, ReduceOther, EndIs
  <2> DEFINE z == With(q, x)
  <2>3. z \in Grammar /\ z.at = "error" /\ z.table = q.table
    BY <2>1, InError, ShiftType DEF With
  <2>4. Reduce(z) = z
    BY <2>3, ReduceOther
  <2> HIDE DEF z
  <2>5. EndOf(Reduce(z)).at = "error" /\ EndOf(Reduce(z)).table = z.table
    BY <2>3, <2>4, EndIs
  <2>6. u.at = "error" /\ u.table = t
    BY <2>1, <2>2, <2>3, <2>5 DEF z
  <2>7. IF x \in Lexemes THEN Shift(q, x).at = "error" ELSE q.at = "error"
    BY <2>1, InError
  <2> HIDE DEF p, u
  <2>8. Agrees(s, v, x, sm, t, b, q, u)
    BY <1>4, <2>6, <2>7 DEF Agrees
  <2> QED  BY <2>8 DEF u
<1> QED  BY <1>2, <1>3, <1>4, <1>5, <1>6, <1>7, <1>8 DEF Looking

-----------------------------------------------------------------------------
\* The invariant. What the parsers are, and that the outer ones are executing.
Active == [stack : Stacks, status : 0 .. 3]
TypeInv == /\ parses \in Seq(Active) /\ parses # <<>>
           /\ yychar \in Tokens \cup {YYEMPTY}
           /\ simple \in Seq(Lexemes) /\ line \in Seq(Lexemes)
           /\ table \in Tables /\ base \in Tables
           /\ pc \in {"parse", "execute", "done"}
           /\ outcome \in {None, "executed", "skipped", "empty"}
           /\ cut \in BOOLEAN
Outer(ps) == \A k \in 1 .. Len(ps) - 1 : Last(ps[k].stack).state = 36 /\ ps[k].status = 0

\* The states that are left without a look at the lookahead, and before which
\* nothing is left to a lookahead either.
Served == {2, 3, 11, 12, 14, 27, 28} \cup (30 .. 36)
LocalInv == /\ Status = IF State = 1 THEN 3 ELSE IF State = 12 THEN 2 ELSE 0
            /\ State \in Served => yychar = YYEMPTY
            /\ State = 5 => yychar = YYEOF
            /\ State \in {7, 15} => yychar \in {YYEMPTY, YYEOF}

\* The lexemes that are shifted, what the grammar makes of them, and of the line.
Top   == Last(Stack).value
Taken == IF yychar \in Lexemes THEN Front(line) ELSE line
Made  == After(base, Taken)
Whole == Parse(base, line)

\* Inside a line, and between a line that is done with and the next.
LineInv == /\ yychar \in Lexemes => line # <<>> /\ Last(line) = yychar
           /\ Agrees(State, Top, yychar, simple, table, base, Made, Whole)
           /\ reports = IF State \in {1, 12} THEN 1 ELSE 0
BetweenInv == /\ yychar = YYEMPTY /\ State \in {0, 6, 7, 15} /\ pc = "parse"
              /\ reports = IF outcome = "skipped" THEN 1 ELSE 0
              /\ outcome = "skipped" => Whole.at = "error" /\ table = Whole.table
              /\ outcome = "empty" => Whole.at = "start" /\ table = base

PlaceInv == /\ pc = "execute" => State = 36
            /\ pc = "done" => Len(parses) = 1 /\ (State = 14 \/ yychar = YYEOF)
            /\ cut \/ (State = 14 \/ yychar = YYEOF => eof = Len(parses))

Inv == /\ TypeInv /\ Outer(parses) /\ LocalInv /\ PlaceInv
       /\ outcome = None => LineInv
       /\ outcome # None => BetweenInv

\* The innermost parser.
LEMMA Tops ==
    ASSUME parses \in Seq(Active), parses # <<>>
    PROVE  /\ Stack \in Stacks /\ State \in States /\ Top \in Values /\ Status \in 0 .. 3
           /\ State = Last(Stack).state /\ Len(parses) \in Nat \ {0}
           /\ Last(parses) = parses[Len(parses)]
<1>1. Len(parses) \in Nat \ {0} /\ Last(parses) = parses[Len(parses)] /\ Last(parses) \in Active
  BY DEF Last
<1>2. Stack \in Stacks /\ Status \in 0 .. 3
  BY <1>1 DEF Stack, Status, Active
<1> QED  BY <1>1, <1>2, StackType DEF State, Top

\* Replacing the innermost parser's stack.
LEMMA SetTopIs ==
    ASSUME parses \in Seq(Active), parses # <<>>, Outer(parses),
           NEW st \in Stacks, NEW d \in 0 .. 3, SetTop(st, d)
    PROVE  /\ parses' \in Seq(Active) /\ parses' # <<>> /\ Len(parses') = Len(parses)
           /\ Outer(parses')
           /\ Stack' = st /\ State' = Last(st).state /\ Top' = Last(st).value /\ Status' = d
<1> DEFINE n == Len(parses)  a == [stack |-> st, status |-> d]
<1>1. n \in Nat \ {0}
  BY Tops
<1>2. a \in Active /\ a.stack = st /\ a.status = d
  BY DEF Active
<1>3. parses' = [parses EXCEPT ![n] = a]
  BY DEF SetTop
<1> HIDE DEF a
<1>4. parses' \in Seq(Active) /\ Len(parses') = n /\ parses'[n] = a
      /\ \A k \in 1 .. n - 1 : parses'[k] = parses[k]
  BY <1>1, <1>2, <1>3
<1>5. parses' # <<>> /\ Last(parses') = a
  BY <1>1, <1>4 DEF Last
<1>6. Outer(parses')
  BY <1>4 DEF Outer
<1>7. Stack' = st /\ Status' = d
  BY <1>2, <1>5 DEF Stack, Status
<1> QED  BY <1>4, <1>5, <1>6, <1>7 DEF State, Top

\* The last value of a rule is the top one.
LEMMA ValueIs ==
    ASSUME parses \in Seq(Active), parses # <<>>, NEW m \in Nat, NEW n, At(yyr2, n) = m
    PROVE  Value(m, n) = Top
<1>1. Stack \in Seq(Entries) /\ Len(Stack) \in Nat
  BY Tops, StackType
<1>2. Len(Stack) - m + m = Len(Stack)
  BY <1>1
<1>3. Value(m, n) = Stack[Len(Stack)].value
  BY <1>2 DEF Value
<1> QED  BY <1>3 DEF Top, Last

-----------------------------------------------------------------------------
\* What can be reduced, shifted, and refused.
LEMMA Reduces ==
    ASSUME NEW s \in States, s # 14, NEW x \in Tokens \cup {YYEMPTY},
           s \in Looking => x \in Tokens, NEW n, n = -Choice(s, x), Choice(s, x) < 0
    PROVE  \/ s = 2 /\ n = 14
           \/ s = 11 /\ n = 16
           \/ s = 30 /\ n = 15
           \/ s = 19 /\ n = 13 /\ x \in Tokens /\ Kind(x) # "WORD"
           \/ s = 10 /\ n = 10
           \/ s = 21 /\ n = 9
           \/ s = 8 /\ n = 18 /\ Kind(x) # "PIPE"
           \/ s = 17 /\ n = 25 /\ x \in Tokens /\ Kind(x) \notin Redirects \cup {"AMPERSAND"}
           \/ s = 27 /\ n = 24
           \/ s = 28 /\ n = 17
           \/ s \in 31 .. 35 /\ n = s - 12
           \/ s = 36 /\ n = 5
           \/ s = 3 /\ n = 7
           \/ s = 12 /\ n = 8
           \/ s = 7 /\ n = 3
           \/ s = 15 /\ n = 4
           \/ s = 6 /\ n = 2 /\ x = YYEOF
<1>1. CASE s \in Looking
  <2> DEFINE k == Kind(x)
  <2>1. x \in Tokens /\ (k = "YYEOF" => x = YYEOF)
    BY <1>1, KindIs
  <2> HIDE DEF k
  <2>2. s \in {6, 8, 17, 19}
    BY <1>1, <2>1, Looked DEF Looking, k
  <2>3. /\ s = 6 => n = 2 /\ k = "YYEOF"
        /\ s = 8 => n = 18 /\ k # "PIPE"
        /\ s = 17 => n = 25 /\ k \notin Redirects \cup {"AMPERSAND"}
        /\ s = 19 => n = 13 /\ k # "WORD"
    BY <2>1, Looked DEF k, Redirects
  <2> QED  BY <2>1, <2>2, <2>3 DEF k
<1>2. CASE s \notin Looking
  <2>1. Choice(s, x) = -At(yydefact, s)
    BY <1>2, Unlooked
  <2>2. s \in {2, 3, 7, 10, 11, 12, 15, 21, 27, 28, 30, 36} \cup (31 .. 35)
    BY <1>2 DEF States, Looking
  <2>3. At(yydefact, s) \in Int /\ n = At(yydefact, s)
    <3>1. At(yydefact, s) \in Int
      BY <2>2, DefaultIs
    <3> QED  BY <2>1, <3>1
  <2> QED  BY <2>2, <2>3, DefaultIs
<1> QED  BY <1>1, <1>2

LEMMA Shifts ==
    ASSUME NEW s \in States, s # 14, NEW x \in Tokens \cup {YYEMPTY},
           s \in Looking => x \in Tokens, NEW e, e = Choice(s, x), e > 0, NEW k, k = Kind(x)
    PROVE  /\ e \in States /\ <<s, e>> \in Edges /\ x \in Tokens
           /\ \/ x = NEWLINE /\ \/ s \in {0, 6} /\ e = 3
                                \/ s = 1 /\ e = 12
                                \/ s = 29 /\ e = 36
              \/ s = 5 /\ e = 14 /\ x = YYEOF
              \/ x \in Lexemes /\ \/ s \in {0, 6, 16} /\ k = "WORD" /\ e = 2
                                  \/ s = 19 /\ k = "WORD" /\ e = 30
                                  \/ s = 8 /\ k = "PIPE" /\ e = 16
                                  \/ s = 17 /\ k \in Redirects /\ e \in 22 .. 26
                                       /\ Redirection[e - 3] = k
                                  \/ s = 17 /\ k = "AMPERSAND" /\ e = 27
                                  \/ s \in 22 .. 26 /\ k = "WORD" /\ e = s + 9
<1>1. s \in Looking
  <2> SUFFICES ASSUME s \notin Looking PROVE FALSE
    OBVIOUS
  <2>1. e = -At(yydefact, s)
    BY Unlooked
  <2>2. s \in {2, 3, 7, 10, 11, 12, 15, 21, 27, 28, 30, 36} \cup (31 .. 35)
    BY DEF States, Looking
  <2>3. At(yydefact, s) \in Nat
    BY <2>2, DefaultIs
  <2> QED  BY <2>1, <2>3
<1>2. /\ x \in Tokens /\ (k = "NEWLINE" => x = NEWLINE) /\ (k = "YYEOF" => x = YYEOF)
      /\ k \notin {"NEWLINE", "YYEOF"} => x \in Lexemes
  BY <1>1, KindIs DEF Tokens
<1>3. \/ s \in {0, 6, 16} /\ k = "WORD" /\ e = 2
      \/ s \in {0, 6} /\ k = "NEWLINE" /\ e = 3
      \/ s = 1 /\ k = "NEWLINE" /\ e = 12
      \/ s = 5 /\ k = "YYEOF" /\ e = 14
      \/ s = 8 /\ k = "PIPE" /\ e = 16
      \/ s = 17 /\ k \in Redirects /\ e \in 22 .. 26 /\ Redirection[e - 3] = k
      \/ s = 17 /\ k = "AMPERSAND" /\ e = 27
      \/ s = 19 /\ k = "WORD" /\ e = 30
      \/ s \in 22 .. 26 /\ k = "WORD" /\ e = s + 9
      \/ s = 29 /\ k = "NEWLINE" /\ e = 36
  <2>1. CASE s \in {0, 6, 1, 5, 8, 16}
    BY <1>2, <2>1, Looked
  <2>2. CASE s = 17
    <3>1. \/ k = "GREAT" /\ e = 22
          \/ k = "GREATGREAT" /\ e = 23
          \/ k = "GREATAMPERSAND" /\ e = 24
          \/ k = "GREATGREATAMPERSAND" /\ e = 25
          \/ k = "LESS" /\ e = 26
          \/ k = "AMPERSAND" /\ e = 27
      BY <1>2, <2>2, Looked
    <3> QED  BY <2>2, <3>1 DEF Redirects, Redirection
  <2>3. CASE s \in {19, 29}
    BY <1>2, <2>3, Looked
  <2>4. CASE s \in 22 .. 26
    BY <1>2, <2>4, Looked
  <2> QED  BY <1>1, <2>1, <2>2, <2>3, <2>4 DEF Looking
<1>4. <<s, e>> \in Edges /\ e \in States
  <2>1. <<s, e>> \in Edges
    BY <1>3, Above
  <2>2. e \in {2, 3, 12, 14, 16, 27, 30, 36} \cup (22 .. 26) \cup (31 .. 35)
    BY <1>3
  <2> QED  BY <2>1, <2>2 DEF States
<1> QED  BY <1>2, <1>3, <1>4 DEF Redirects

LEMMA Refuses ==
    ASSUME NEW s \in States, s # 14, NEW x \in Tokens \cup {YYEMPTY}, s = 5 => x = YYEOF,
           s \in Looking => x \in Tokens, Choice(s, x) = 0
    PROVE  x \in Tokens /\ (s \in {0, 6, 16, 29} \cup (22 .. 26) \/ (s = 1 /\ x # NEWLINE))
<1>1. s \in Looking
  <2> SUFFICES ASSUME s \notin Looking PROVE FALSE
    OBVIOUS
  <2>1. 0 = -At(yydefact, s)
    BY Unlooked
  <2>2. s \in {2, 3, 7, 10, 11, 12, 15, 21, 27, 28, 30, 36} \cup (31 .. 35)
    BY DEF States, Looking
  <2>3. At(yydefact, s) \in Nat \ {0}
    BY <2>2, DefaultIs
  <2> QED  BY <2>1, <2>3
<1> DEFINE k == Kind(x)
<1>2. x \in Tokens /\ (x = YYEOF => k = "YYEOF") /\ (x = NEWLINE => k = "NEWLINE")
  BY <1>1, KindIs
<1>3. s \notin {5, 8, 17, 19} /\ (s = 1 => k # "NEWLINE")
  BY <1>2, Looked
<1> QED  BY <1>1, <1>2, <1>3 DEF Looking

-----------------------------------------------------------------------------
\* What is shifted, and what the grammar makes of it, is one of the grammar's places.
LEMMA MadeIs ==
    ASSUME TypeInv, yychar \in Lexemes => line # <<>> /\ Last(line) = yychar
    PROVE  /\ Made \in Grammar
           /\ Whole = EndOf(Reduce(With(Made, yychar)))
           /\ After(base, line) = With(Made, yychar)
<1>1. base \in Tables /\ line \in Seq(Lexemes)
  BY DEF TypeInv
<1>2. CASE yychar \in Lexemes
  <2>1. /\ Taken = Front(line) /\ Front(line) \in Seq(Lexemes)
        /\ line = Append(Front(line), yychar)
    BY <1>1, <1>2, FrontLast DEF Taken
  <2>2. After(base, line) = Shift(After(base, Front(line)), yychar)
    <3> DEFINE f == Front(line)
    <3> HIDE DEF f
    <3>1. f \in Seq(Lexemes) /\ line = Append(f, yychar)
      BY <2>1 DEF f
    <3>2. After(base, Append(f, yychar)) = Shift(After(base, f), yychar)
      BY ONLY <1>2, <3>1, AfterOne
    <3> QED  BY <3>1, <3>2 DEF f
  <2>3. After(base, Front(line)) \in Grammar
    BY <1>1, <2>1, AfterType
  <2> QED  BY <1>2, <2>1, <2>2, <2>3, ParseIs DEF Made, Whole, With
<1>3. CASE yychar \notin Lexemes
  <2>1. Taken = line
    BY <1>3 DEF Taken
  <2> QED  BY <1>1, <1>3, <2>1, ParseIs, AfterType DEF Made, Whole, With
<1> QED  BY <1>2, <1>3

\* A reduction inside a line.
LEMMA Within ==
    ASSUME Inv, outcome = None, pc = "parse", pc' = pc, yychar' = yychar,
           UNCHANGED <<line, base, outcome, reports, eof, cut>>,
           NEW st \in Stacks, SetTop(st, Status), NEW u, Last(st).state = u,
           State \notin {1, 12}, u \notin {1, 12, 14}, u \in Served => yychar = YYEMPTY,
           u = 5 => yychar = YYEOF, u \in {7, 15} => yychar \in {YYEMPTY, YYEOF},
           simple' \in Seq(Lexemes), table' \in Tables,
           \A w : Agrees(u, w, yychar, simple', table', base, Made, Whole)
    PROVE  Inv'
<1>1. /\ parses' \in Seq(Active) /\ parses' # <<>> /\ Len(parses') = Len(parses)
      /\ Outer(parses')
      /\ State' = u /\ Status' = Status /\ State \in States
  BY SetTopIs, Tops DEF Inv, TypeInv
<1>2. Taken' = Taken /\ Made' = Made /\ Whole' = Whole
  BY DEF Taken, Made, Whole
<1>3. TypeInv'
  BY <1>1 DEF Inv, TypeInv
<1>4. LocalInv'
  BY <1>1 DEF Inv, LocalInv
<1>5. PlaceInv'
  BY <1>1 DEF Inv, PlaceInv
<1>6. LineInv'
  <2>1. reports' = 0
    BY DEF Inv, LineInv
  <2>2. Agrees(u, Top', yychar, simple', table', base, Made, Whole)
    OBVIOUS
  <2> QED  BY <1>1, <1>2, <2>1, <2>2 DEF Inv, LineInv
<1> QED  BY <1>1, <1>3, <1>4, <1>5, <1>6 DEF Inv

\* What a reduction makes of the simple command and of the table.
LEMMA ActionIs ==
    ASSUME Inv, NEW n
    PROVE  /\ Simple(n) = IF n = 14 THEN <<Top>> ELSE IF n = 15 THEN Append(simple, Top) ELSE simple
           /\ n = 13 => Table(n) = Insert(table, simple)
           /\ n \in 19 .. 23 => Table(n) = Redirect(table, Redirection[n], Top)
           /\ n = 24 => Table(n) = [table EXCEPT !.bg = TRUE]
           /\ n \notin {13, 24} \cup (19 .. 23) => Table(n) = table
<1>1. n = 14 => Value(1, n) = Top
  BY ValueIs, LengthIs DEF Inv, TypeInv
<1>2. n \in {15} \cup (19 .. 23) => Value(2, n) = Top
  BY ValueIs, LengthIs DEF Inv, TypeInv
<1>3. DOMAIN Redirection = 19 .. 23
  BY DEF Redirection
<1>4. n \in 19 .. 23 => Table(n) = Redirect(table, Redirection[n], Top)
  BY <1>2, <1>3 DEF Table
<1>5. n \notin 19 .. 23 =>
        Table(n) = IF n = 13 THEN Insert(table, simple)
                   ELSE IF n = 24 THEN [table EXCEPT !.bg = TRUE] ELSE table
  BY <1>3 DEF Table, Insert
<1>6. Simple(n) = IF n = 14 THEN <<Top>> ELSE IF n = 15 THEN Append(simple, Top) ELSE simple
  BY <1>1, <1>2 DEF Simple
<1> QED  BY <1>4, <1>5, <1>6

\* With every state comes a table and a simple command of the right shape.
LEMMA AgreesType ==
    ASSUME NEW s, NEW v, NEW x, NEW sm \in Seq(Lexemes), NEW t \in Tables, NEW b,
           NEW q \in Grammar, NEW p, Agrees(s, v, x, sm, t, b, q, p)
    PROVE  /\ s = 2 => <<v>> \in Seq(Lexemes)
           /\ s = 30 => Append(sm, v) \in Seq(Lexemes)
           /\ s = 19 => Insert(t, sm) \in Tables
           /\ s = 27 => [t EXCEPT !.bg = TRUE] \in Tables
           /\ s \in 31 .. 35 => Redirect(t, Redirection[s - 12], v) \in Tables
<1>1. q.simple \in Seq(Lexemes) /\ q.table \in Tables
  BY DEF Grammar
<1>2. s = 2 => q.simple = <<v>>
  BY DEF Agrees
<1>3. s = 30 => q.simple = Append(sm, v)
  BY DEF Agrees
<1>4. s = 27 => q.table = [t EXCEPT !.bg = TRUE]
  BY DEF Agrees
<1>5. s \in 31 .. 35 => q.table = Redirect(t, Redirection[s - 12], v)
  BY DEF Agrees
<1> QED  BY <1>1, <1>2, <1>3, <1>4, <1>5, InsertType

-----------------------------------------------------------------------------
\* The actions keep the invariant, first the reductions.
LEMMA ReduceKeeps == ASSUME Inv, ReduceRule PROVE Inv'
<1> DEFINE s == State  x == yychar  n == -Choice(State, yychar)  d == IF n = 8 THEN 0 ELSE Status
<1>1. /\ pc = "parse" /\ s # 14 /\ (NeedsLookahead(s) => x # YYEMPTY)
      /\ Choice(s, x) < 0 /\ Choice(s, x) # -5
      /\ SetTop(Reduced(Stack, n), d)
      /\ simple' = Simple(n) /\ table' = Table(n)
      /\ outcome' = (CASE n = 7 -> "empty" [] n = 8 -> "skipped" [] OTHER -> outcome)
      /\ pc' = pc /\ yychar' = yychar /\ UNCHANGED <<line, base, reports, eof, cut>>
  BY DEF ReduceRule, Ready, Parsing, YYFINAL
<1>2. /\ Stack \in Stacks /\ s \in States /\ s = Last(Stack).state /\ Top \in Values
      /\ Status \in 0 .. 3 /\ x \in Tokens \cup {YYEMPTY}
      /\ simple \in Seq(Lexemes) /\ table \in Tables /\ base \in Tables
      /\ outcome \in {None, "executed", "skipped", "empty"}
  BY Tops DEF Inv, TypeInv
<1>3. s \in Looking => x \in Tokens
  BY <1>1, <1>2, NeedsIs
<1>4. \/ s = 2 /\ n = 14
      \/ s = 11 /\ n = 16
      \/ s = 30 /\ n = 15
      \/ s = 19 /\ n = 13 /\ x \in Tokens /\ Kind(x) # "WORD"
      \/ s = 10 /\ n = 10
      \/ s = 21 /\ n = 9
      \/ s = 8 /\ n = 18 /\ Kind(x) # "PIPE"
      \/ s = 17 /\ n = 25 /\ x \in Tokens /\ Kind(x) \notin Redirects \cup {"AMPERSAND"}
      \/ s = 27 /\ n = 24
      \/ s = 28 /\ n = 17
      \/ s \in 31 .. 35 /\ n = s - 12
      \/ s = 36 /\ n = 5
      \/ s = 3 /\ n = 7
      \/ s = 12 /\ n = 8
      \/ s = 7 /\ n = 3
      \/ s = 15 /\ n = 4
      \/ s = 6 /\ n = 2 /\ x = YYEOF
  <2> DEFINE c == Choice(s, x)
  <2>1. s # 14 /\ c < 0 /\ n = -c
    BY <1>1
  <2> HIDE DEF s, x, n, c
  <2>2. c = Choice(s, x)
    BY DEF c
  <2>3. s \in States /\ x \in Tokens \cup {YYEMPTY}
    BY <1>2
  <2>4. Choice(s, x) < 0 /\ n = -Choice(s, x) /\ s # 14
    BY ONLY <2>1, <2>2
  <2> QED  BY ONLY <1>3, <2>3, <2>4, Reduces
<1>5. s # 36
  <2>1. s = 36 => s \in States \ Looking
    BY DEF States, Looking
  <2> QED  BY <1>1, <2>1, Unlooked, DefaultIs
<1> DEFINE st == Reduced(Stack, n)
<1>6. /\ s = 2 => Lands(Stack, 14, {11})
      /\ s = 11 => Lands(Stack, 16, {19})
      /\ s = 30 => Lands(Stack, 15, {19})
      /\ s = 19 => Lands(Stack, 13, {10, 21})
      /\ s = 10 => Lands(Stack, 10, {8})
      /\ s = 21 => Lands(Stack, 9, {8})
      /\ s = 8 => Lands(Stack, 18, {17})
      /\ s = 17 => Lands(Stack, 25, {29})
      /\ s = 27 => Lands(Stack, 24, {29})
      /\ s = 28 => Lands(Stack, 17, {17})
      /\ s \in 31 .. 35 => Lands(Stack, s - 12, {28})
      /\ s = 3 => Lands(Stack, 7, {7, 15})
      /\ s = 12 => Lands(Stack, 8, {7, 15})
      /\ s = 7 => Lands(Stack, 3, {6})
      /\ s = 15 => Lands(Stack, 4, {6})
      /\ s = 6 => Lands(Stack, 2, {5})
  BY <1>2, LandsIn
<1> DEFINE q == Made  p == Whole  v == Top  sm == simple  t == table  b == base
<1>7. outcome = None => /\ q \in Grammar /\ Agrees(s, v, x, sm, t, b, q, p)
                        /\ (x \in Lexemes => line # <<>> /\ Last(line) = x)
                        /\ reports = (IF s \in {1, 12} THEN 1 ELSE 0)
  BY MadeIs DEF Inv, LineInv
<1>8. outcome # None => x = YYEMPTY /\ s \in {0, 6, 7, 15}
  BY DEF Inv, BetweenInv
<1>9. /\ s \in Served => x = YYEMPTY
      /\ s = 5 => x = YYEOF
      /\ s \in {7, 15} => x \in {YYEMPTY, YYEOF}
      /\ Status = IF s = 1 THEN 3 ELSE IF s = 12 THEN 2 ELSE 0
  BY DEF Inv, LocalInv
<1>10. /\ sm' = IF n = 14 THEN <<v>> ELSE IF n = 15 THEN Append(sm, v) ELSE sm
       /\ n = 13 => t' = Insert(t, sm)
       /\ n \in 19 .. 23 => t' = Redirect(t, Redirection[n], v)
       /\ n = 24 => t' = [t EXCEPT !.bg = TRUE]
       /\ n \notin {13, 24} \cup (19 .. 23) => t' = t
  <2> HIDE DEF n
  <2> QED  BY <1>1, ActionIs
<1> HIDE DEF s, x, n, d, q, p, v, st
<1> DEFINE u == Last(st).state
<1> HIDE DEF u
<1>11. ASSUME outcome = None, n \notin {7, 8}, s \notin {1, 12}, st \in Stacks,
              u \notin {1, 5, 7, 12, 14, 15}, u \in Served => x = YYEMPTY,
              sm' \in Seq(Lexemes), t' \in Tables,
              \A w : Agrees(u, w, x, sm', t', b, q, p)
       PROVE  Inv'
  <2>1. outcome' = outcome /\ d = Status
    BY <1>1, <1>11 DEF d
  <2>2. SetTop(st, Status) /\ Last(st).state = u
    BY <1>1, <2>1 DEF st, u
  <2> QED  BY <1>1, <1>11, <2>1, <2>2, Within DEF s, x, q, p
<1>12. CASE s = 2
  <2>1. n = 14
    BY ONLY <1>4, <1>12
  <2>2. sm' = <<v>> /\ t' = t
    BY ONLY <1>12, <1>10, <2>1
  <2>3. outcome = None /\ (x = YYEMPTY \/ s \in {8, 10, 17, 19, 21})
    BY ONLY <1>8, <1>9, <1>12 DEF Served
  <2>4. st \in Stacks /\ u = 11
    BY ONLY <1>6, <1>12, <2>1 DEF Lands, st, u
  <2>5. ASSUME NEW w PROVE Agrees(u, w, x, sm', t', b, q, p)
    BY ONLY <1>12, <1>7, <2>1, <2>2, <2>3, <2>4, ReduceAgrees
  <2>6. sm' \in Seq(Lexemes) /\ t' \in Tables
    BY ONLY <1>12, <1>2, <1>7, <2>2, <2>3, AgreesType
  <2> QED  BY <1>11, <1>12, <2>1, <2>3, <2>4, <2>5, <2>6 DEF Served
<1>13. CASE s = 11
  <2>1. n = 16
    BY ONLY <1>4, <1>13
  <2>2. sm' = sm /\ t' = t
    BY ONLY <1>13, <1>10, <2>1
  <2>3. outcome = None /\ (x = YYEMPTY \/ s \in {8, 10, 17, 19, 21})
    BY ONLY <1>8, <1>9, <1>13 DEF Served
  <2>4. st \in Stacks /\ u = 19
    BY ONLY <1>6, <1>13, <2>1 DEF Lands, st, u
  <2>5. ASSUME NEW w PROVE Agrees(u, w, x, sm', t', b, q, p)
    BY ONLY <1>13, <1>7, <2>1, <2>2, <2>3, <2>4, ReduceAgrees
  <2>6. sm' \in Seq(Lexemes) /\ t' \in Tables
    BY ONLY <1>13, <1>2, <1>7, <2>2, <2>3, AgreesType
  <2> QED  BY <1>11, <1>13, <2>1, <2>3, <2>4, <2>5, <2>6 DEF Served
<1>14. CASE s = 30
  <2>1. n = 15
    BY ONLY <1>4, <1>14
  <2>2. sm' = Append(sm, v) /\ t' = t
    BY ONLY <1>14, <1>10, <2>1
  <2>3. outcome = None /\ (x = YYEMPTY \/ s \in {8, 10, 17, 19, 21})
    BY ONLY <1>8, <1>9, <1>14 DEF Served
  <2>4. st \in Stacks /\ u = 19
    BY ONLY <1>6, <1>14, <2>1 DEF Lands, st, u
  <2>5. ASSUME NEW w PROVE Agrees(u, w, x, sm', t', b, q, p)
    BY ONLY <1>14, <1>7, <2>1, <2>2, <2>3, <2>4, ReduceAgrees
  <2>6. sm' \in Seq(Lexemes) /\ t' \in Tables
    BY ONLY <1>14, <1>2, <1>7, <2>2, <2>3, AgreesType
  <2> QED  BY <1>11, <1>14, <2>1, <2>3, <2>4, <2>5, <2>6 DEF Served
<1>15. CASE s = 19
  <2>1. n = 13 /\ x \in Tokens /\ Kind(x) # "WORD"
    BY ONLY <1>4, <1>15
  <2>2. sm' = sm /\ t' = Insert(t, sm)
    BY ONLY <1>15, <1>10, <2>1
  <2>3. outcome = None /\ (x = YYEMPTY \/ s \in {8, 10, 17, 19, 21})
    BY ONLY <1>8, <1>9, <1>15 DEF Served
  <2>4. st \in Stacks /\ u \in {10, 21}
    BY ONLY <1>6, <1>15, <2>1 DEF Lands, st, u
  <2>5. ASSUME NEW w PROVE Agrees(u, w, x, sm', t', b, q, p)
    <3>1. /\ Agrees(10, w, x, sm, Insert(t, sm), b, q, p)
          /\ Agrees(21, w, x, sm, Insert(t, sm), b, q, p)
      BY ONLY <1>15, <1>7, <2>1, <2>3, ReduceAgrees
    <3> QED  BY ONLY <2>2, <2>4, <3>1
  <2>6. sm' \in Seq(Lexemes) /\ t' \in Tables
    BY ONLY <1>15, <1>2, <1>7, <2>2, <2>3, AgreesType
  <2> QED  BY <1>11, <1>15, <2>1, <2>3, <2>4, <2>5, <2>6 DEF Served
<1>16. CASE s \in {10, 21}
  <2>1. (s = 10 /\ n = 10) \/ (s = 21 /\ n = 9)
    BY ONLY <1>4, <1>16
  <2>2. sm' = sm /\ t' = t
    BY ONLY <1>16, <1>10, <2>1
  <2>3. outcome = None /\ (x = YYEMPTY \/ s \in {8, 10, 17, 19, 21})
    BY ONLY <1>8, <1>9, <1>16 DEF Served
  <2>4. st \in Stacks /\ u = 8
    BY ONLY <1>6, <1>16, <2>1 DEF Lands, st, u
  <2>5. ASSUME NEW w PROVE Agrees(u, w, x, sm', t', b, q, p)
    BY ONLY <1>16, <1>7, <2>1, <2>2, <2>3, <2>4, ReduceAgrees
  <2>6. sm' \in Seq(Lexemes) /\ t' \in Tables
    BY ONLY <1>16, <1>2, <1>7, <2>2, <2>3, AgreesType
  <2> QED  BY <1>11, <1>16, <2>1, <2>3, <2>4, <2>5, <2>6 DEF Served
<1>17. CASE s = 8
  <2>1. n = 18 /\ Kind(x) # "PIPE"
    BY ONLY <1>4, <1>17
  <2>2. sm' = sm /\ t' = t
    BY ONLY <1>17, <1>10, <2>1
  <2>3. outcome = None /\ (x = YYEMPTY \/ s \in {8, 10, 17, 19, 21})
    BY ONLY <1>8, <1>9, <1>17 DEF Served
  <2>4. st \in Stacks /\ u = 17
    BY ONLY <1>6, <1>17, <2>1 DEF Lands, st, u
  <2>5. ASSUME NEW w PROVE Agrees(u, w, x, sm', t', b, q, p)
    BY ONLY <1>17, <1>7, <2>1, <2>2, <2>3, <2>4, ReduceAgrees
  <2>6. sm' \in Seq(Lexemes) /\ t' \in Tables
    BY ONLY <1>17, <1>2, <1>7, <2>2, <2>3, AgreesType
  <2> QED  BY <1>11, <1>17, <2>1, <2>3, <2>4, <2>5, <2>6 DEF Served
<1>18. CASE s = 17
  <2>1. n = 25
        /\ x \in Tokens /\ Kind(x) \notin Redirects \cup {"AMPERSAND"}
    BY ONLY <1>4, <1>18
  <2>2. sm' = sm /\ t' = t
    BY ONLY <1>18, <1>10, <2>1
  <2>3. outcome = None /\ (x = YYEMPTY \/ s \in {8, 10, 17, 19, 21})
    BY ONLY <1>8, <1>9, <1>18 DEF Served
  <2>4. st \in Stacks /\ u = 29
    BY ONLY <1>6, <1>18, <2>1 DEF Lands, st, u
  <2>5. ASSUME NEW w PROVE Agrees(u, w, x, sm', t', b, q, p)
    BY ONLY <1>18, <1>7, <2>1, <2>2, <2>3, <2>4, ReduceAgrees
  <2>6. sm' \in Seq(Lexemes) /\ t' \in Tables
    BY ONLY <1>18, <1>2, <1>7, <2>2, <2>3, AgreesType
  <2> QED  BY <1>11, <1>18, <2>1, <2>3, <2>4, <2>5, <2>6 DEF Served
<1>19. CASE s = 27
  <2>1. n = 24
    BY ONLY <1>4, <1>19
  <2>2. sm' = sm /\ t' = [t EXCEPT !.bg = TRUE]
    BY ONLY <1>19, <1>10, <2>1
  <2>3. outcome = None /\ (x = YYEMPTY \/ s \in {8, 10, 17, 19, 21})
    BY ONLY <1>8, <1>9, <1>19 DEF Served
  <2>4. st \in Stacks /\ u = 29
    BY ONLY <1>6, <1>19, <2>1 DEF Lands, st, u
  <2>5. ASSUME NEW w PROVE Agrees(u, w, x, sm', t', b, q, p)
    BY ONLY <1>19, <1>7, <2>1, <2>2, <2>3, <2>4, ReduceAgrees
  <2>6. sm' \in Seq(Lexemes) /\ t' \in Tables
    BY ONLY <1>19, <1>2, <1>7, <2>2, <2>3, AgreesType
  <2> QED  BY <1>11, <1>19, <2>1, <2>3, <2>4, <2>5, <2>6 DEF Served
<1>20. CASE s = 28
  <2>1. n = 17
    BY ONLY <1>4, <1>20
  <2>2. sm' = sm /\ t' = t
    BY ONLY <1>20, <1>10, <2>1
  <2>3. outcome = None /\ (x = YYEMPTY \/ s \in {8, 10, 17, 19, 21})
    BY ONLY <1>8, <1>9, <1>20 DEF Served
  <2>4. st \in Stacks /\ u = 17
    BY ONLY <1>6, <1>20, <2>1 DEF Lands, st, u
  <2>5. ASSUME NEW w PROVE Agrees(u, w, x, sm', t', b, q, p)
    BY ONLY <1>20, <1>7, <2>1, <2>2, <2>3, <2>4, ReduceAgrees
  <2>6. sm' \in Seq(Lexemes) /\ t' \in Tables
    BY ONLY <1>20, <1>2, <1>7, <2>2, <2>3, AgreesType
  <2> QED  BY <1>11, <1>20, <2>1, <2>3, <2>4, <2>5, <2>6 DEF Served
<1>21. CASE s \in 31 .. 35
  <2>1. n = s - 12
    BY ONLY <1>4, <1>21
  <2>2. sm' = sm /\ t' = Redirect(t, Redirection[s - 12], v)
    BY ONLY <1>21, <1>10, <2>1
  <2>3. outcome = None /\ (x = YYEMPTY \/ s \in {8, 10, 17, 19, 21})
    BY ONLY <1>8, <1>9, <1>21 DEF Served
  <2>4. st \in Stacks /\ u = 28
    BY ONLY <1>6, <1>21, <2>1 DEF Lands, st, u
  <2>5. ASSUME NEW w PROVE Agrees(u, w, x, sm', t', b, q, p)
    BY ONLY <1>21, <1>7, <2>1, <2>2, <2>3, <2>4, ReduceAgrees
  <2>6. sm' \in Seq(Lexemes) /\ t' \in Tables
    BY ONLY <1>21, <1>2, <1>7, <2>2, <2>3, AgreesType
  <2> QED  BY <1>11, <1>21, <2>1, <2>3, <2>4, <2>5, <2>6 DEF Served
<1>22. CASE s = 6
  <2>1. n = 2 /\ x = YYEOF
    BY ONLY <1>4, <1>22
  <2>2. sm' = sm /\ t' = t
    BY ONLY <1>10, <2>1
  <2>3. outcome = None
    BY ONLY <1>8, <2>1 DEF YYEMPTY, YYEOF
  <2>4. st \in Stacks /\ u = 5
    BY ONLY <1>6, <1>22, <2>1 DEF Lands, st, u
  <2>5. ASSUME NEW w PROVE Agrees(u, w, x, sm', t', b, q, p)
    BY ONLY <1>22, <1>7, <2>2, <2>3, <2>4, ReduceAgrees
  <2>6. outcome' = outcome /\ d = Status
    BY <1>1, <2>1 DEF d
  <2>7. SetTop(st, Status) /\ Last(st).state = u
    BY <1>1, <2>6 DEF st, u
  <2>8. 5 \notin Served
    BY DEF Served
  <2> QED  BY <1>1, <1>2, <1>22, <2>1, <2>2, <2>3, <2>4, <2>5, <2>6, <2>7, <2>8, Within DEF s, x, q, p
<1>23. CASE s \in {7, 15}
  <2>1. (s = 7 /\ n = 3) \/ (s = 15 /\ n = 4)
    BY ONLY <1>4, <1>23
  <2>2. sm' = sm /\ t' = t
    BY ONLY <1>10, <2>1
  <2>3. st \in Stacks /\ u = 6
    BY ONLY <1>6, <1>23, <2>1 DEF Lands, st, u
  <2>4. outcome' = outcome /\ d = Status
    BY <1>1, <2>1 DEF d
  <2>5. SetTop(st, Status) /\ Last(st).state = u
    BY <1>1, <2>4 DEF st, u
  <2>6. 6 \notin Served
    BY DEF Served
  <2>7. CASE outcome = None
    <3>1. ASSUME NEW w PROVE Agrees(u, w, x, sm', t', b, q, p)
      BY ONLY <1>23, <1>7, <2>2, <2>3, <2>7, ReduceAgrees
    <3> QED  BY <1>1, <1>2, <1>23, <2>2, <2>3, <2>4, <2>5, <2>6, <2>7, <3>1, Within DEF s, x, q, p
  <2>8. CASE outcome # None
    <3>1. /\ parses' \in Seq(Active) /\ parses' # <<>> /\ Len(parses') = Len(parses)
          /\ Outer(parses')
          /\ State' = 6 /\ Status' = Status
      BY <1>2, <2>3, <2>5, SetTopIs DEF Inv, TypeInv
    <3>2. TypeInv'
      BY <1>1, <2>2, <2>4, <3>1 DEF Inv, TypeInv, x
    <3>3. LocalInv'
      BY <1>9, <1>23, <3>1, <2>6 DEF LocalInv, s, x
    <3>4. PlaceInv'
      BY <1>1, <1>2, <1>23, <3>1 DEF Inv, PlaceInv, s, x
    <3>5. BetweenInv'
      <4>1. Whole' = Whole
        BY <1>1 DEF Whole
      <4> QED  BY <1>1, <2>2, <2>4, <2>8, <3>1, <4>1 DEF Inv, BetweenInv, x
    <3> QED  BY <2>4, <2>8, <3>1, <3>2, <3>3, <3>4, <3>5 DEF Inv
  <2> QED  BY <2>7, <2>8
<1>24. CASE s \in {3, 12}
  <2>1. (s = 3 /\ n = 7) \/ (s = 12 /\ n = 8)
    BY ONLY <1>4, <1>24
  <2>2. sm' = sm /\ t' = t
    BY ONLY <1>10, <2>1
  <2>3. st \in Stacks /\ u \in {7, 15}
    BY ONLY <1>6, <1>24, <2>1 DEF Lands, st, u
  <2>4. x = YYEMPTY /\ outcome = None /\ YYEMPTY \notin Lexemes
    BY <1>8, <1>9, <1>24, ParserAssumption DEF Served
  <2>5. d = 0
    BY <1>9, <2>1 DEF d
  <2>6. /\ outcome' = IF s = 3 THEN "empty" ELSE "skipped"
        /\ reports' = IF s = 3 THEN 0 ELSE 1
    BY <1>1, <1>7, <2>1, <2>4
  <2>7. SetTop(st, 0) /\ Last(st).state = u
    BY <1>1, <2>5 DEF st, u
  <2>8. /\ parses' \in Seq(Active) /\ parses' # <<>> /\ Len(parses') = Len(parses)
        /\ Outer(parses')
        /\ State' = u /\ Status' = 0
    BY <2>3, <2>7, SetTopIs DEF Inv, TypeInv
  <2>9. TypeInv'
    BY <1>1, <1>2, <2>2, <2>6, <2>8 DEF Inv, TypeInv, x
  <2>10. LocalInv'
    BY <1>1, <2>3, <2>4, <2>8 DEF LocalInv, Served, x
  <2>11. PlaceInv'
    BY <1>1, <2>3, <2>4, <2>8 DEF PlaceInv, x, YYEMPTY, YYEOF
  <2>12. BetweenInv'
    <3>1. Whole' = p
      BY <1>1 DEF Whole, p
    <3>2. s = 12 => p.at = "error" /\ t' = p.table
      BY <1>7, <2>2, <2>4 DEF Agrees
    <3>3. s = 3 => p.at = "start" /\ t' = b
      <4>1. s = 3 => q = Start(b) /\ t = b
        BY <1>7, <2>4 DEF Agrees
      <4>2. p = EndOf(Reduce(q))
        BY <1>7, <2>4, MadeIs DEF Inv, x, p, q, With
      <4>3. ASSUME s = 3 PROVE p.at = "start"
        <5>1. q \in Grammar /\ q.at = "start"
          BY <1>7, <2>4, <4>1, <4>3 DEF Start
        <5>2. Reduce(q) = q
          BY <5>1, ReduceOther
        <5> QED  BY <4>2, <5>1, <5>2, EndIs
      <4> QED  BY <2>2, <4>1, <4>3
    <3>4. yychar' = YYEMPTY /\ pc' = "parse" /\ base' = b
      BY <1>1, <2>4 DEF x
    <3>5. outcome' = "skipped" <=> s = 12
      BY <2>1, <2>6
    <3> QED  BY <2>1, <2>3, <2>6, <2>8, <3>1, <3>2, <3>3, <3>4, <3>5 DEF BetweenInv
  <2>13. outcome' # None
    BY <2>6 DEF None
  <2> QED  BY <2>8, <2>9, <2>10, <2>11, <2>12, <2>13 DEF Inv
<1> QED  BY <1>4, <1>5, <1>12, <1>13, <1>14, <1>15, <1>16, <1>17, <1>18, <1>19, <1>20, <1>21, <1>22, <1>23, <1>24

-----------------------------------------------------------------------------
\* Shifting a token.
LEMMA ShiftKeeps == ASSUME Inv, ShiftToken PROVE Inv'
<1> DEFINE s == State  x == yychar  e == Choice(State, yychar)  k == Kind(yychar)
           d == IF Status = 0 THEN 0 ELSE Status - 1
           st == Push(Stack, e, x)
<1>1. /\ pc = "parse" /\ s # 14 /\ (NeedsLookahead(s) => x # YYEMPTY) /\ e > 0
      /\ SetTop(st, d) /\ yychar' = YYEMPTY
      /\ UNCHANGED <<simple, table, pc, line, base, outcome, reports, eof, cut>>
  BY DEF ShiftToken, Ready, Parsing, YYFINAL
<1>2. /\ Stack \in Stacks /\ s \in States /\ s = Last(Stack).state
      /\ Status \in 0 .. 3 /\ x \in Tokens \cup {YYEMPTY}
      /\ simple \in Seq(Lexemes) /\ table \in Tables /\ base \in Tables
  BY Tops DEF Inv, TypeInv
<1>3. s \in Looking => x \in Tokens
  BY <1>1, <1>2, NeedsIs
<1>4. /\ e \in States /\ <<s, e>> \in Edges /\ x \in Tokens
      /\ \/ x = NEWLINE /\ \/ s \in {0, 6} /\ e = 3
                           \/ s = 1 /\ e = 12
                           \/ s = 29 /\ e = 36
         \/ s = 5 /\ e = 14 /\ x = YYEOF
         \/ x \in Lexemes /\ \/ s \in {0, 6, 16} /\ k = "WORD" /\ e = 2
                             \/ s = 19 /\ k = "WORD" /\ e = 30
                             \/ s = 8 /\ k = "PIPE" /\ e = 16
                             \/ s = 17 /\ k \in Redirects /\ e \in 22 .. 26
                                  /\ Redirection[e - 3] = k
                             \/ s = 17 /\ k = "AMPERSAND" /\ e = 27
                             \/ s \in 22 .. 26 /\ k = "WORD" /\ e = s + 9
  <2> HIDE DEF s, x
  <2>1. e = Choice(s, x) /\ e > 0 /\ k = Kind(x) /\ s # 14
    BY <1>1 DEF s, x
  <2>2. s \in States /\ x \in Tokens \cup {YYEMPTY}
    BY <1>2
  <2> HIDE DEF e, k
  <2> QED  BY ONLY <1>3, <2>1, <2>2, Shifts
<1> HIDE DEF s, x, e, k, d, st
<1> DEFINE q == Made  p == Whole  v == Top  sm == simple  t == table  b == base
<1>5. x # YYEMPTY /\ YYEMPTY \notin Lexemes
  BY <1>4, KindIs, ParserAssumption
<1>6. /\ outcome = None /\ q \in Grammar /\ Agrees(s, v, x, sm, t, b, q, p)
      /\ (x \in Lexemes => line # <<>> /\ Last(line) = x)
      /\ reports = (IF s \in {1, 12} THEN 1 ELSE 0)
  <2>1. outcome = None
    BY <1>5 DEF Inv, BetweenInv, x
  <2> QED  BY <2>1, MadeIs DEF Inv, LineInv, s, x
<1>7. p = EndOf(Reduce(With(q, x))) /\ After(base, line) = With(q, x)
  BY <1>6, MadeIs DEF Inv, x
<1>8. Status = IF s = 1 THEN 3 ELSE 0
  <2>1. s # 12
    BY ONLY <1>4
  <2> QED  BY <2>1 DEF Inv, LocalInv, s
<1>9. st \in Stacks /\ Last(st).state = e /\ Last(st).value = x
  <2>1. x \in Values
    BY <1>4 DEF Tokens, Values
  <2> QED  BY <1>2, <1>4, <2>1, PushIs DEF st
<1>10. d = (IF e = 12 THEN 2 ELSE 0) /\ d \in 0 .. 3 /\ e # 1
  BY ONLY <1>4, <1>8 DEF d
<1>11. /\ parses' \in Seq(Active) /\ parses' # <<>> /\ Len(parses') = Len(parses)
       /\ Outer(parses')
       /\ State' = e /\ Top' = x /\ Status' = d
  BY <1>1, <1>9, <1>10, SetTopIs DEF Inv, TypeInv
<1>12. Made' = With(q, x) /\ Whole' = p
  <2>1. Taken' = line
    BY <1>1, <1>5 DEF Taken
  <2> QED  BY <1>1, <1>7, <2>1 DEF Made, Whole, p
<1>13. Agrees(e, x, YYEMPTY, sm, t, b, With(q, x), p)
  <2>1. CASE x = NEWLINE
    <3>1. With(q, x) = q
      BY <2>1, ParserAssumption DEF With
    <3>2. \/ s \in {0, 6} /\ e = 3
          \/ s = 1 /\ e = 12
          \/ s = 29 /\ e = 36
      BY <1>4, <2>1, ParserAssumption DEF NEWLINE, YYEOF
    <3>3. Agrees(s, v, NEWLINE, sm, t, b, q, EndOf(Reduce(q)))
      BY <1>6, <1>7, <2>1, <3>1
    <3>4. /\ s \in {0, 6} => Agrees(3, x, YYEMPTY, sm, t, b, q, EndOf(Reduce(q)))
          /\ s = 1 => Agrees(12, x, YYEMPTY, sm, t, b, q, EndOf(Reduce(q)))
          /\ s = 29 => Agrees(36, x, YYEMPTY, sm, t, b, q, EndOf(Reduce(q)))
      BY ONLY <1>6, <3>3, NewlineAgrees
    <3> QED  BY <1>7, <3>1, <3>2, <3>4
  <2>2. CASE e = 14
    BY <2>2 DEF Agrees
  <2>3. CASE x \in Lexemes /\ e # 14
    <3> DEFINE z == Shift(q, x)
    <3>1. With(q, x) = z
      BY <2>3 DEF With
    <3>2. k = Kind(x)
      BY DEF k, x
    <3>3. /\ s \in {0, 6, 16} /\ k = "WORD" => Agrees(2, x, YYEMPTY, sm, t, b, z, p)
          /\ s = 19 /\ k = "WORD" => Agrees(30, x, YYEMPTY, sm, t, b, z, p)
          /\ s = 8 /\ k = "PIPE" => Agrees(16, x, YYEMPTY, sm, t, b, z, p)
          /\ s = 17 /\ k \in Redirects =>
               \A u \in 22 .. 26 : Redirection[u - 3] = k => Agrees(u, x, YYEMPTY, sm, t, b, z, p)
          /\ s = 17 /\ k = "AMPERSAND" => Agrees(27, x, YYEMPTY, sm, t, b, z, p)
          /\ s \in 22 .. 26 /\ k = "WORD" => Agrees(s + 9, x, YYEMPTY, sm, t, b, z, p)
      BY ONLY <1>2, <1>6, <2>3, <3>2, ShiftAgrees
    <3> HIDE DEF z
    <3>4. x # NEWLINE
      BY <2>3, ParserAssumption
    <3> QED  BY ONLY <1>4, <2>3, <3>1, <3>3, <3>4
  <2> QED  BY <1>4, <2>1, <2>2, <2>3
<1>14. TypeInv'
  BY <1>1, <1>11 DEF Inv, TypeInv
<1>15. LocalInv'
  <2>1. e \notin {5, 7, 15}
    BY ONLY <1>4
  <2> QED  BY <1>1, <1>10, <1>11, <2>1 DEF LocalInv
<1>16. PlaceInv'
  <2>1. YYEMPTY # YYEOF
    BY DEF YYEMPTY, YYEOF
  <2>2. e = 14 => x = YYEOF
    BY ONLY <1>4
  <2> QED  BY <1>1, <1>11, <2>1, <2>2 DEF Inv, PlaceInv, x
<1>17. LineInv'
  <2>1. s \in {1, 12} <=> e \in {1, 12}
    BY ONLY <1>4
  <2> QED  BY <1>1, <1>5, <1>6, <1>11, <1>12, <1>13, <2>1 DEF LineInv
<1> QED  BY <1>1, <1>6, <1>11, <1>14, <1>15, <1>16, <1>17 DEF Inv

\* Reading the next token.
LEMMA LexKeeps == ASSUME Inv, Lex PROVE Inv'
<1> DEFINE s == State
<1>1. PICK x \in Lexemes \cup {NEWLINE, YYEOF} :
        /\ yychar' = x
        /\ line' = (IF outcome = None THEN line ELSE <<>>)
                      \o (IF x \in Lexemes THEN <<x>> ELSE <<>>)
        /\ eof' = IF x = YYEOF THEN Len(parses) ELSE eof
  BY DEF Lex
<1>2. /\ pc = "parse" /\ s # 14 /\ NeedsLookahead(s) /\ yychar = YYEMPTY
      /\ base' = (IF outcome = None THEN base ELSE table)
      /\ reports' = (IF outcome = None THEN reports ELSE 0)
      /\ outcome' = None
      /\ UNCHANGED <<parses, simple, table, pc, cut>>
  BY DEF Lex, Parsing, YYFINAL
<1>3. /\ parses \in Seq(Active) /\ parses # <<>> /\ Outer(parses) /\ s \in States
      /\ simple \in Seq(Lexemes) /\ line \in Seq(Lexemes) /\ table \in Tables /\ base \in Tables
  BY Tops DEF Inv, TypeInv
<1>4. s \in Looking /\ x \in Tokens /\ YYEMPTY \notin Tokens /\ YYEMPTY \notin Lexemes
  BY <1>2, <1>3, NeedsIs, ParserAssumption DEF Tokens, YYEMPTY, NEWLINE, YYEOF
<1>5. State' = s /\ Top' = Top /\ Status' = Status
  BY <1>2 DEF State, Stack, Top, Status
<1> HIDE DEF s
<1> DEFINE l == IF outcome = None THEN line ELSE <<>>
<1>6. l \in Seq(Lexemes)
  BY <1>3
<1> HIDE DEF l
<1>7. /\ line' \in Seq(Lexemes)
      /\ x \in Lexemes => line' = Append(l, x) /\ line' # <<>> /\ Last(line') = x /\ Front(line') = l
      /\ x \notin Lexemes => line' = l
  <2>1. line' = l \o (IF x \in Lexemes THEN <<x>> ELSE <<>>)
    BY <1>1 DEF l
  <2>2. x \in Lexemes => line' = Append(l, x)
    BY ONLY <1>6, <2>1
  <2>3. x \notin Lexemes => line' = l
    BY ONLY <1>6, <2>1
  <2> DEFINE a == Append(l, x)
  <2>4. x \in Lexemes => a \in Seq(Lexemes) /\ a # <<>> /\ Last(a) = x /\ Front(a) = l
    BY ONLY <1>6, FrontAppend
  <2> HIDE DEF a
  <2>5. x \in Lexemes => line' = a
    BY ONLY <2>2 DEF a
  <2> QED  BY ONLY <1>6, <2>3, <2>4, <2>5 DEF a
<1>8. Taken' = l
  BY <1>1, <1>7 DEF Taken
<1>9. base' \in Tables
  BY <1>2, <1>3
<1>10. Made' = After(base', l) /\ Whole' = EndOf(Reduce(With(After(base', l), x)))
  <2>1. x \in Lexemes => After(base', line') = Shift(After(base', l), x)
    <3> DEFINE t == base'
    <3> HIDE DEF t
    <3>1. x \in Lexemes => After(t, Append(l, x)) = Shift(After(t, l), x)
      BY ONLY <1>6, AfterOne
    <3> QED  BY ONLY <1>7, <3>1 DEF t
  <2>2. After(base', line') = With(After(base', l), x)
    BY <1>7, <2>1 DEF With
  <2> QED  BY <1>8, <2>2, ParseIs DEF Made, Whole
<1>11. TypeInv'
  BY <1>1, <1>2, <1>3, <1>4, <1>7, <1>9 DEF Inv, TypeInv
<1>12. Outer(parses')
  BY <1>2, <1>3
<1>13. LocalInv'
  <2>1. s \notin Served \cup {7, 15}
    BY <1>4 DEF Looking, Served
  <2>2. s # 5
    BY <1>2, <1>4 DEF Inv, LocalInv, s, YYEMPTY, YYEOF
  <2> QED  BY <1>5, <2>1, <2>2 DEF Inv, LocalInv, s
<1>14. PlaceInv'
  BY <1>1, <1>2, <1>5, Tops DEF Inv, PlaceInv, TypeInv, s
<1>15. LineInv'
  <2>1. CASE outcome = None
    <3> DEFINE q == Made
    <3>1. /\ l = line /\ base' = base /\ reports' = reports /\ Taken = line
      BY <1>2, <1>4, <2>1 DEF l, Taken
    <3>2. q = After(base, l) /\ q \in Grammar /\ Whole = EndOf(Reduce(q))
      BY <1>2, <1>4, <3>1, MadeIs DEF Inv, Made, With
    <3>3. /\ Agrees(s, Top, YYEMPTY, simple, table, base, q, EndOf(Reduce(q)))
          /\ reports = (IF s \in {1, 12} THEN 1 ELSE 0)
      BY <1>2, <2>1, <3>2 DEF Inv, LineInv, s
    <3>4. s # 5
      BY <1>2, <1>4 DEF Inv, LocalInv, s, YYEMPTY, YYEOF
    <3>5. s # 8
      BY <1>4, <3>3 DEF Agrees
    <3> HIDE DEF q
    <3>6. Agrees(s, Top, x, simple, table, base, q, EndOf(Reduce(With(q, x))))
      BY ONLY <1>4, <3>2, <3>3, <3>4, <3>5, LexAgrees
    <3> QED  BY <1>1, <1>2, <1>5, <1>7, <1>10, <3>1, <3>2, <3>3, <3>6 DEF LineInv
  <2>2. CASE outcome # None
    <3> DEFINE w == Whole'
    <3>1. /\ l = <<>> /\ base' = table /\ reports' = 0
      BY <1>2, <2>2 DEF l
    <3>2. s \in {0, 6}
      <4>1. s \in {0, 6, 7, 15}
        BY <2>2 DEF Inv, BetweenInv, s
      <4> QED  BY <1>4, <4>1 DEF Looking
    <3>3. Made' = Start(table)
      BY <1>10, <3>1, AfterNone
    <3> HIDE DEF w
    <3>4. /\ Agrees(0, Top, x, simple, table, table, Start(table), w)
          /\ Agrees(6, Top, x, simple, table, table, Start(table), w)
      BY ONLY DEF Agrees
    <3>5. Agrees(s, Top, x, simple, table, table, Start(table), w)
      BY ONLY <3>2, <3>4
    <3>6. s \notin {1, 12}
      BY ONLY <3>2
    <3> QED  BY <1>1, <1>2, <1>5, <1>7, <3>1, <3>3, <3>5, <3>6 DEF LineInv, w
  <2> QED  BY <2>1, <2>2
<1> QED  BY <1>2, <1>11, <1>12, <1>13, <1>14, <1>15 DEF Inv

-----------------------------------------------------------------------------
\* Error recovery pops to a state that shifts the error token: there always is one.
LEMMA RecoverIs ==
    ASSUME parses \in Seq(Active), parses # <<>>, Outer(parses), Recover
    PROVE  /\ parses' \in Seq(Active) /\ parses' # <<>> /\ Len(parses') = Len(parses)
           /\ Outer(parses') /\ State' = 1 /\ Status' = 3
<1> DEFINE able == {k \in DOMAIN Stack : Entry(Stack[k].state, ErrorSymbol) > 0}
           k    == CHOOSE m \in able : \A i \in able : i <= m
           n    == Len(Stack)
           st   == SubSeq(Stack, 1, k)
<1>1. Stack \in Stacks /\ n \in Nat /\ n >= 1 /\ Stack[1].state = 0 /\ Stack \in Seq(Entries)
  BY Tops, StackType
<1>2. DOMAIN Stack = 1 .. n /\ \A i \in 1 .. n : Stack[i].state \in States
  <2> DEFINE l == Stack
  <2> HIDE DEF l
  <2>1. l \in Seq(Entries) /\ n = Len(l)
    BY <1>1 DEF l
  <2>2. DOMAIN l = 1 .. n /\ \A i \in 1 .. n : l[i] \in Entries
    BY ONLY <2>1
  <2>3. \A i \in 1 .. n : l[i].state \in States
    BY ONLY <2>2 DEF Entries
  <2> QED  BY ONLY <2>2, <2>3 DEF l
<1>3. 1 \in able
  <2>1. Entry(Stack[1].state, ErrorSymbol) = 1
    BY <1>1, ErrorEntry DEF States
  <2>2. 1 \in 1 .. n
    BY <1>1
  <2> QED  BY <1>2, <2>1, <2>2
<1>4. k \in able
  <2> DEFINE S == {n - i : i \in able}
  <2>1. able \subseteq 1 .. n
    BY <1>2
  <2> HIDE DEF able
  <2>2. S \in SUBSET Nat /\ S # {}
    BY <1>1, <1>3, <2>1
  <2>3. PICK y \in S : \A z \in S : y <= z
    BY <2>2, LeastExists
  <2>4. PICK m \in able : y = n - m
    BY <2>3
  <2>5. \A i \in able : i <= m
    <3> TAKE i \in able
    <3>1. n - m <= n - i /\ m \in 1 .. n /\ i \in 1 .. n
      BY <2>1, <2>3, <2>4
    <3> QED  BY ONLY <1>1, <3>1
  <2> QED  BY <2>4, <2>5
<1>5. k \in 1 .. n /\ Entry(Stack[k].state, ErrorSymbol) > 0
  <2> HIDE DEF k
  <2> QED  BY <1>2, <1>4
<1>6. Stack[k].state \in {0, 6} /\ Entry(Stack[k].state, ErrorSymbol) = 1
  <2> HIDE DEF k, able
  <2> QED  BY <1>2, <1>5, ErrorEntry
<1>7. SetTop(Push(st, 1, None), 3)
  BY <1>6 DEF Recover
<1> HIDE DEF k, able
<1>8. st \in Stacks /\ Last(st).state = Stack[k].state
  <2> DEFINE d == n - k
  <2>1. d \in Nat /\ d < n /\ n - d = k
    BY <1>1, <1>5
  <2> HIDE DEF d
  <2> QED  BY <1>1, <2>1, PopIs DEF Under
<1> HIDE DEF st
<1>9. Push(st, 1, None) \in Stacks /\ Last(Push(st, 1, None)).state = 1
  <2>1. <<Last(st).state, 1>> \in Edges
    BY <1>6, <1>8, Above
  <2>2. 1 \in States /\ None \in Values
    BY DEF States, Values
  <2> QED  BY ONLY <1>8, <2>1, <2>2, PushIs
<1> QED  BY <1>7, <1>9, SetTopIs

\* A syntax error.
LEMMA ErrorKeeps == ASSUME Inv, SyntaxError PROVE Inv'
<1> DEFINE s == State  x == yychar
<1>1. /\ pc = "parse" /\ s # 14 /\ (NeedsLookahead(s) => x # YYEMPTY) /\ Choice(s, x) = 0
      /\ ~(Status = 3 /\ x = YYEOF)
      /\ Recover
      /\ reports' = (IF Status = 0 THEN reports + 1 ELSE reports)
      /\ yychar' = (IF Status = 3 THEN YYEMPTY ELSE x)
      /\ UNCHANGED <<simple, table, pc, line, base, outcome, eof, cut>>
  BY DEF SyntaxError, Failing, Ready, Parsing, YYFINAL
<1>2. /\ s \in States /\ x \in Tokens \cup {YYEMPTY} /\ (s = 5 => x = YYEOF)
      /\ base \in Tables
      /\ Status = IF s = 1 THEN 3 ELSE IF s = 12 THEN 2 ELSE 0
  BY Tops DEF Inv, TypeInv, LocalInv
<1>3. s \in Looking => x \in Tokens
  BY <1>1, <1>2, NeedsIs
<1>4. x \in Tokens /\ (s \in {0, 6, 16, 29} \cup (22 .. 26) \/ (s = 1 /\ x # NEWLINE))
  <2> HIDE DEF s, x
  <2>1. /\ s \in States /\ x \in Tokens \cup {YYEMPTY} /\ (s = 5 => x = YYEOF)
        /\ s # 14 /\ Choice(s, x) = 0
    BY <1>1, <1>2 DEF s, x, Inv, LocalInv
  <2> QED  BY ONLY <1>3, <2>1, Refuses
<1> HIDE DEF s, x
<1>5. x # YYEMPTY /\ YYEMPTY \notin Lexemes /\ YYEMPTY \notin {YYEOF, NEWLINE}
  BY <1>4, KindIs, ParserAssumption DEF YYEMPTY, YYEOF, NEWLINE
<1> DEFINE q == Made  p == Whole  v == Top  sm == simple  t == table  b == base
<1>6. /\ outcome = None /\ q \in Grammar /\ Agrees(s, v, x, sm, t, b, q, p)
      /\ (x \in Lexemes => line # <<>> /\ Last(line) = x)
      /\ reports = (IF s \in {1, 12} THEN 1 ELSE 0)
  <2>1. outcome = None
    BY <1>5 DEF Inv, BetweenInv, x
  <2> QED  BY <2>1, MadeIs DEF Inv, LineInv, s, x
<1>7. p = EndOf(Reduce(With(q, x))) /\ After(base, line) = With(q, x)
  BY <1>6, MadeIs DEF Inv, x
<1>8. /\ parses' \in Seq(Active) /\ parses' # <<>> /\ Len(parses') = Len(parses)
      /\ Outer(parses') /\ State' = 1 /\ Status' = 3
  BY <1>1, RecoverIs DEF Inv, TypeInv
<1>9. TypeInv'
  BY <1>1, <1>8, <1>2 DEF Inv, TypeInv, x
<1>10. LocalInv'
  BY <1>8 DEF LocalInv, Served
<1>11. Whole' = p
  BY <1>1 DEF Whole
<1>12. CASE s # 1
  <2>1. Status = 0 /\ reports = 0
    BY ONLY <1>2, <1>4, <1>6, <1>12
  <2>2. yychar' = x /\ reports' = 1
    BY <1>1, <2>1
  <2>3. Made' = q
    <3>1. Taken' = Taken
      BY <1>1, <2>2 DEF Taken, x
    <3> QED  BY <1>1, <3>1 DEF Made
  <2>4. ASSUME NEW w PROVE Agrees(1, w, x, sm, t, b, q, p)
    <3>1. s \in {0, 6, 16, 29} \cup (22 .. 26) /\ Choice(s, x) = 0
      BY <1>1, <1>4, <1>12 DEF s, x
    <3> HIDE DEF q, p
    <3> QED  BY ONLY <1>2, <1>4, <1>6, <1>7, <3>1, ErrorAgrees
  <2>5. Agrees(1, Top', x, sm, t, b, q, p)
    BY <2>4
  <2>6. LineInv'
    BY <1>1, <1>6, <1>8, <1>11, <2>2, <2>3, <2>5 DEF LineInv
  <2>7. PlaceInv'
    BY <1>1, <1>8, <2>2 DEF Inv, PlaceInv, x
  <2> QED  BY <1>1, <1>6, <1>8, <1>9, <1>10, <2>6, <2>7 DEF Inv
<1>13. CASE s = 1
  <2>1. Status = 3 /\ reports = 1 /\ x \in Lexemes
    BY <1>1, <1>2, <1>4, <1>6, <1>13 DEF Tokens
  <2>2. yychar' = YYEMPTY /\ reports' = 1
    BY <1>1, <2>1
  <2>3. Made' = Shift(q, x)
    <3>1. Taken' = line
      BY <1>1, <1>5, <2>2 DEF Taken
    <3> QED  BY <1>1, <1>7, <2>1, <3>1 DEF Made, With
  <2>4. Agrees(1, v, x, sm, t, b, q, p)
    BY <1>6, <1>13
  <2>5. \A w : Agrees(1, w, YYEMPTY, sm, t, b, Shift(q, x), p)
    <3> HIDE DEF q, p
    <3> QED  BY ONLY <1>6, <2>1, <2>4, DiscardAgrees
  <2>6. Agrees(1, Top', YYEMPTY, sm, t, b, Shift(q, x), p)
    BY <2>5
  <2>7. LineInv'
    BY <1>1, <1>5, <1>8, <1>11, <2>2, <2>3, <2>6 DEF LineInv
  <2>8. PlaceInv'
    BY <1>1, <1>5, <1>8, <2>2 DEF Inv, PlaceInv
  <2> QED  BY <1>1, <1>6, <1>8, <1>9, <1>10, <2>7, <2>8 DEF Inv
<1> QED  BY <1>12, <1>13

\* A command is complete, and execute is called.
LEMMA CallKeeps == ASSUME Inv, CallExecute PROVE Inv'
<1> DEFINE s == State  x == yychar
<1>1. /\ pc = "parse" /\ s # 14 /\ (NeedsLookahead(s) => x # YYEMPTY) /\ Choice(s, x) = -5
      /\ pc' = "execute"
      /\ UNCHANGED <<parses, yychar, simple, table, line, base, outcome, reports, eof, cut>>
  BY DEF CallExecute, Ready, Parsing, YYFINAL
<1>2. s \in States /\ x \in Tokens \cup {YYEMPTY}
  BY Tops DEF Inv, TypeInv
<1>3. s \in Looking => x \in Tokens
  BY <1>1, <1>2, NeedsIs
<1>4. s = 36
  <2> DEFINE c == Choice(s, x)
  <2>1. s # 14 /\ c = -5
    BY <1>1
  <2> HIDE DEF s, x, c
  <2>2. c < 0 /\ 5 = -c /\ c = Choice(s, x)
    <3>1. c = Choice(s, x)
      BY DEF c
    <3>2. c < 0
      BY ONLY <2>1
    <3>3. c \in Int /\ c + 5 = 0
      BY ONLY <2>1
    <3>4. 5 = -c
      BY ONLY <3>3
    <3> QED  BY ONLY <3>1, <3>2, <3>4
  <2>3. Choice(s, x) < 0 /\ 5 = -Choice(s, x) /\ s # 14
    BY ONLY <2>1, <2>2
  <2> QED  BY ONLY <1>2, <1>3, <2>3, Reduces
<1>5. State' = State /\ Top' = Top /\ Status' = Status
  BY <1>1 DEF State, Stack, Top, Status
<1>6. Made' = Made /\ Whole' = Whole
  BY <1>1 DEF Made, Whole, Taken
<1>7. outcome = None
  BY <1>4 DEF Inv, BetweenInv
<1> HIDE DEF s, x
<1>8. TypeInv' /\ Outer(parses') /\ LocalInv' /\ PlaceInv'
  BY <1>1, <1>4, <1>5 DEF Inv, TypeInv, LocalInv, PlaceInv, s
<1>9. LineInv'
  BY <1>1, <1>5, <1>6, <1>7 DEF Inv, LineInv
<1> QED  BY <1>1, <1>7, <1>8, <1>9 DEF Inv

\* A whole command's reduction, by execute or by the yyparse that it called.
LEMMA ReducedFive ==
    ASSUME NEW ps \in Seq(Active), ps # <<>>, Last(Last(ps).stack).state = 36, Outer(ps),
           NEW ps2, ps2 = [ps EXCEPT ![Len(ps)].stack = Reduced(@, 5)]
    PROVE  /\ ps2 \in Seq(Active) /\ ps2 # <<>> /\ Len(ps2) = Len(ps) /\ Outer(ps2)
           /\ Last(ps2).status = Last(ps).status
           /\ Last(Last(ps2).stack).state \in {7, 15}
<1> DEFINE n == Len(ps)  st == Reduced(ps[n].stack, 5)  a == [ps[n] EXCEPT !.stack = st]
<1>1. n \in Nat \ {0} /\ Last(ps) = ps[n] /\ ps[n] \in Active
  BY DEF Last
<1>2. ps[n].stack \in Stacks
  BY <1>1 DEF Active
<1>3. st \in Stacks /\ Last(st).state \in {7, 15}
  <2>1. Lands(ps[n].stack, 5, {7, 15})
    BY <1>1, <1>2, LandsIn
  <2> QED  BY <2>1 DEF Lands
<1> HIDE DEF st
<1>4. a \in Active /\ a.stack = st /\ a.status = ps[n].status
  BY <1>1, <1>3 DEF Active
<1>5. ps2 = [ps EXCEPT ![n] = a]
  BY DEF st
<1> HIDE DEF a
<1>6. ps2 \in Seq(Active) /\ Len(ps2) = n /\ ps2[n] = a /\ \A k \in 1 .. n - 1 : ps2[k] = ps[k]
  BY <1>1, <1>4, <1>5
<1>7. ps2 # <<>> /\ Last(ps2) = a
  BY <1>1, <1>6 DEF Last
<1> QED  BY <1>1, <1>3, <1>4, <1>6, <1>7 DEF Outer

\* execute returns.
LEMMA ExecuteKeeps == ASSUME Inv, Execute PROVE Inv'
<1>1. /\ pc = "execute" /\ pc' = "parse" /\ table' = Empty /\ outcome' = "executed"
      /\ parses' = [parses EXCEPT ![Len(parses)].stack = Reduced(@, 5)]
      /\ UNCHANGED <<yychar, simple, line, base, reports, eof, cut>>
  BY DEF Execute
<1>2. State = 36 /\ yychar = YYEMPTY /\ Status = 0 /\ outcome = None /\ reports = 0
  <2>1. State = 36
    BY <1>1 DEF Inv, PlaceInv
  <2>2. outcome = None
    BY <2>1 DEF Inv, BetweenInv
  <2> QED  BY <2>1, <2>2 DEF Inv, LocalInv, LineInv, Served
<1>3. /\ parses' \in Seq(Active) /\ parses' # <<>> /\ Len(parses') = Len(parses)
      /\ Outer(parses') /\ Last(parses').status = Last(parses).status
      /\ Last(Last(parses').stack).state \in {7, 15}
  <2>1. parses \in Seq(Active) /\ parses # <<>> /\ Outer(parses)
    BY DEF Inv, TypeInv
  <2>2. Last(Last(parses).stack).state = 36
    BY <1>2 DEF State, Stack
  <2> QED  BY <1>1, <2>1, <2>2, ReducedFive
<1>4. State' \in {7, 15} /\ Status' = 0
  BY <1>2, <1>3 DEF State, Stack, Status
<1>5. TypeInv'
  BY <1>1, <1>3, EmptyType DEF Inv, TypeInv
<1>6. LocalInv' /\ PlaceInv'
  BY <1>1, <1>2, <1>4 DEF LocalInv, PlaceInv, YYEMPTY, YYEOF, Served
<1>7. BetweenInv'
  BY <1>1, <1>2, <1>4 DEF BetweenInv
<1>8. outcome' # None
  BY <1>1 DEF None
<1> QED  BY <1>3, <1>5, <1>6, <1>7, <1>8 DEF Inv

\* A yyparse starts with state 0 alone on its stack.
LEMMA NewParseIs == NewParse \in Active /\ Last(NewParse.stack).state = 0 /\ NewParse.status = 0
<1> DEFINE e == [state |-> 0, value |-> None]  z == <<e>>
<1>1. NewParse = [stack |-> z, status |-> 0]
  BY DEF NewParse, Push
<1>2. e \in Entries /\ e.state = 0
  BY DEF Entries, States, Values
<1> HIDE DEF e
<1>3. z \in Seq(Entries) /\ z # <<>> /\ Len(z) = 1 /\ z[1] = e
  BY <1>2
<1> HIDE DEF z
<1>4. z \in Stacks /\ Last(z) = e
  BY <1>2, <1>3 DEF Stacks, Last
<1> QED  BY <1>1, <1>2, <1>4 DEF Active

\* execute calls another yyparse.
LEMMA SourceKeeps == ASSUME Inv, ExecuteSource PROVE Inv'
<1>1. /\ pc = "execute" /\ pc' = "parse" /\ outcome' = "executed" /\ yychar' = YYEMPTY
      /\ parses' = Append(parses, NewParse)
      /\ UNCHANGED <<simple, table, line, base, reports, eof, cut>>
  BY DEF ExecuteSource
<1>2. State = 36 /\ Status = 0 /\ outcome = None /\ reports = 0
  <2>1. State = 36
    BY <1>1 DEF Inv, PlaceInv
  <2>2. outcome = None
    BY <2>1 DEF Inv, BetweenInv
  <2> QED  BY <2>1, <2>2 DEF Inv, LocalInv, LineInv
<1> DEFINE n == Len(parses)
<1>3. parses \in Seq(Active) /\ n \in Nat \ {0} /\ Last(parses) = parses[n] /\ Outer(parses)
  BY Tops DEF Inv, TypeInv
<1>4. NewParse \in Active /\ Last(NewParse.stack).state = 0 /\ NewParse.status = 0
  BY NewParseIs
<1> DEFINE a == NewParse
<1> HIDE DEF a
<1>5. /\ parses' \in Seq(Active) /\ Len(parses') = n + 1 /\ parses'[n + 1] = a
      /\ \A k \in 1 .. n : parses'[k] = parses[k]
  <2>1. parses' = Append(parses, a) /\ a \in Active
    BY <1>1, <1>4 DEF a
  <2> QED  BY <1>3, <2>1, AppendProperties
<1>6. parses' # <<>> /\ Last(parses') = a
  BY <1>3, <1>5 DEF Last
<1>7. State' = 0 /\ Status' = 0
  BY <1>4, <1>6 DEF State, Stack, Status, a
<1>8. Outer(parses')
  <2>1. Last(parses[n].stack).state = 36 /\ parses[n].status = 0
    BY <1>2, <1>3 DEF State, Stack, Status
  <2> SUFFICES ASSUME NEW k \in 1 .. Len(parses') - 1
               PROVE  Last(parses'[k].stack).state = 36 /\ parses'[k].status = 0
    BY DEF Outer
  <2>2. k \in 1 .. n /\ (k = n \/ k \in 1 .. n - 1)
    BY <1>3, <1>5
  <2>3. parses'[k] = parses[k]
    BY <1>5, <2>2
  <2> QED  BY <1>3, <2>1, <2>2, <2>3 DEF Outer
<1>9. TypeInv'
  BY <1>1, <1>5, <1>6 DEF Inv, TypeInv
<1>10. LocalInv' /\ PlaceInv'
  BY <1>1, <1>7 DEF LocalInv, PlaceInv, YYEMPTY, YYEOF, Served
<1>11. BetweenInv'
  BY <1>1, <1>2, <1>7 DEF BetweenInv
<1>12. outcome' # None
  BY <1>1 DEF None
<1> QED  BY <1>6, <1>8, <1>9, <1>10, <1>11, <1>12 DEF Inv

\* A yyparse is over.
LEMMA LeaveKeeps ==
    ASSUME Inv, pc = "parse", State = 14 \/ yychar = YYEOF, Leave,
           UNCHANGED <<yychar, simple, eof>>, cut' \in BOOLEAN, cut => cut',
           Len(parses) = 1 \/ yychar = YYEMPTY \/ cut'
    PROVE  Inv'
<1>1. /\ parses \in Seq(Active) /\ parses # <<>> /\ Outer(parses) /\ Len(parses) \in Nat \ {0}
      /\ State \in States
  BY Tops DEF Inv, TypeInv
<1>2. outcome = None
  BY DEF Inv, BetweenInv, YYEMPTY, YYEOF
<1>3. yychar \in {YYEMPTY, YYEOF} /\ yychar \notin Lexemes
  BY ParserAssumption DEF Inv, LocalInv, Served
<1>4. CASE Len(parses) = 1
  <2>1. pc' = "done" /\ UNCHANGED <<parses, table, line, base, outcome, reports>>
    BY <1>4 DEF Leave
  <2>2. State' = State /\ Top' = Top /\ Status' = Status /\ Made' = Made /\ Whole' = Whole
    BY <2>1 DEF State, Stack, Top, Status, Made, Whole, Taken
  <2>3. TypeInv' /\ Outer(parses') /\ LocalInv'
    BY <2>1, <2>2 DEF Inv, TypeInv, LocalInv
  <2>4. PlaceInv'
    BY <1>4, <2>1, <2>2 DEF Inv, PlaceInv
  <2>5. LineInv'
    BY <1>2, <2>1, <2>2 DEF Inv, LineInv
  <2> QED  BY <1>2, <2>1, <2>3, <2>4, <2>5 DEF Inv
<1>5. CASE Len(parses) # 1
  <2> DEFINE f == Front(parses)  n == Len(parses)
  <2>1. /\ parses' = [f EXCEPT ![n - 1].stack = Reduced(@, 5)]
        /\ table' = Empty /\ line' = <<>> /\ base' = Empty /\ outcome' = None /\ reports' = 0
        /\ pc' = pc
    BY <1>5 DEF Leave
  <2>2. n >= 2 /\ n \in Nat
    <3>1. n \in Nat \ {0} /\ n # 1
      BY <1>1, <1>5
    <3> HIDE DEF n
    <3> QED  BY ONLY <3>1
  <2>3. f \in Seq(Active) /\ Len(f) = n - 1 /\ \A k \in 1 .. n - 1 : f[k] = parses[k]
    <3>1. f = SubSeq(parses, 1, n - 1)
      BY DEF Front
    <3>2. n - 1 \in Nat /\ n - 1 <= n
      BY <2>2
    <3> HIDE DEF f
    <3> QED  BY <1>1, <3>1, <3>2, FirstOf
  <2> HIDE DEF f
  <2>4. f # <<>> /\ Last(f) = parses[n - 1]
    BY <2>2, <2>3 DEF Last
  <2>5. /\ Last(Last(f).stack).state = 36 /\ Last(f).status = 0 /\ Outer(f)
    <3>1. \A k \in 1 .. n - 1 : Last(parses[k].stack).state = 36 /\ parses[k].status = 0
      BY <1>1 DEF Outer
    <3>2. n - 1 \in 1 .. n - 1 /\ \A k \in 1 .. (n - 1) - 1 : k \in 1 .. n - 1
      BY <2>2
    <3> QED  BY <2>3, <2>4, <3>1, <3>2 DEF Outer
  <2>6. parses' = [f EXCEPT ![Len(f)].stack = Reduced(@, 5)]
    BY <2>1, <2>3
  <2>7. /\ parses' \in Seq(Active) /\ parses' # <<>> /\ Outer(parses')
        /\ Last(parses').status = Last(f).status
        /\ Last(Last(parses').stack).state \in {7, 15}
    BY ONLY <2>3, <2>4, <2>5, <2>6, ReducedFive
  <2>8. State' \in {7, 15} /\ Status' = 0
    BY <2>5, <2>7 DEF State, Stack, Status
  <2>9. TypeInv'
    <3>1. <<>> \in Seq(Lexemes)
      OBVIOUS
    <3> QED  BY <2>1, <2>7, <3>1, EmptyType DEF Inv, TypeInv
  <2>10. LocalInv' /\ PlaceInv'
    BY <1>3, <1>5, <2>1, <2>8 DEF LocalInv, PlaceInv, Served, YYEMPTY, YYEOF
  <2>11. LineInv'
    <3> DEFINE w == Whole'
    <3>1. Made' = Start(Empty)
      BY <1>3, <2>1, AfterNone DEF Made, Taken
    <3> HIDE DEF w
    <3>2. /\ Agrees(7, Top', yychar, simple, Empty, Empty, Start(Empty), w)
          /\ Agrees(15, Top', yychar, simple, Empty, Empty, Start(Empty), w)
      BY ONLY DEF Agrees
    <3>3. State' \notin {1, 12}
      BY ONLY <2>8
    <3> QED  BY <1>3, <2>1, <2>8, <3>1, <3>2, <3>3 DEF LineInv, w
  <2> QED  BY <2>1, <2>7, <2>9, <2>10, <2>11 DEF Inv
<1> QED  BY <1>4, <1>5

-----------------------------------------------------------------------------
\* The invariant holds always.
THEOREM Invariance == Spec => []Inv
<1>1. Init => Inv
  <2> SUFFICES ASSUME Init PROVE Inv
    OBVIOUS
  <2> DEFINE a == NewParse
  <2>1. a \in Active /\ Last(a.stack).state = 0 /\ a.status = 0
    BY NewParseIs
  <2> HIDE DEF a
  <2>6. parses \in Seq(Active) /\ parses # <<>> /\ Len(parses) = 1 /\ Last(parses) = a
    <3>1. parses = <<a>>
      BY DEF Init, a
    <3> QED  BY <2>1, <3>1 DEF Last
  <2>7. State = 0 /\ Status = 0
    BY <2>1, <2>6 DEF State, Stack, Status
  <2>8. TypeInv
    <3>1. <<>> \in Seq(Lexemes)
      OBVIOUS
    <3> QED  BY <2>6, <3>1, EmptyType DEF Init, TypeInv
  <2>9. Outer(parses)
    BY <2>6 DEF Outer
  <2>10. LocalInv /\ PlaceInv
    BY <2>7 DEF Init, LocalInv, PlaceInv, Served, YYEMPTY, YYEOF
  <2>11. LineInv
    <3> DEFINE w == Whole  v == Top
    <3>1. yychar \notin Lexemes /\ Made = Start(Empty)
      BY ParserAssumption, AfterNone DEF Init, Made, Taken
    <3> HIDE DEF w, v
    <3>2. Agrees(0, v, yychar, <<>>, Empty, Empty, Start(Empty), w)
      BY ONLY DEF Agrees
    <3> QED  BY <2>7, <3>1, <3>2 DEF Init, LineInv, w, v
  <2> QED  BY <2>8, <2>9, <2>10, <2>11 DEF Init, Inv
<1>2. Inv /\ [Next]_vars => Inv'
  <2> SUFFICES ASSUME Inv, [Next]_vars PROVE Inv'
    OBVIOUS
  <2>1. CASE Lex
    BY <2>1, LexKeeps
  <2>2. CASE ShiftToken
    BY <2>2, ShiftKeeps
  <2>3. CASE ReduceRule
    BY <2>3, ReduceKeeps
  <2>4. CASE CallExecute
    BY <2>4, CallKeeps
  <2>5. CASE Execute
    BY <2>5, ExecuteKeeps
  <2>6. CASE ExecuteSource
    BY <2>6, SourceKeeps
  <2>7. CASE Accept
    <3>1. /\ pc = "parse" /\ State = 14 /\ Leave /\ UNCHANGED <<yychar, simple, eof, cut>>
          /\ yychar = YYEMPTY /\ cut \in BOOLEAN
      BY <2>7 DEF Accept, YYFINAL, Inv, LocalInv, TypeInv, Served
    <3> QED  BY <3>1, LeaveKeeps
  <2>8. CASE Abort
    <3>1. /\ pc = "parse" /\ yychar = YYEOF /\ Leave /\ UNCHANGED <<yychar, simple, eof>>
          /\ cut' = (Len(parses) > 1 \/ cut) /\ cut \in BOOLEAN
      BY <2>8 DEF Abort, Failing, Ready, Parsing, Inv, TypeInv
    <3>2. Len(parses) \in Nat \ {0}
      BY Tops DEF Inv, TypeInv
    <3>3. Len(parses) = 1 \/ Len(parses) > 1
      <4> DEFINE n == Len(parses)
      <4>1. n \in Nat \ {0}
        BY <3>2
      <4> HIDE DEF n
      <4>2. n = 1 \/ n > 1
        BY ONLY <4>1
      <4> QED  BY <4>2 DEF n
    <3>4. cut' \in BOOLEAN /\ (cut => cut') /\ (Len(parses) = 1 \/ cut')
      BY <3>1, <3>3, Zenon
    <3> QED  BY <3>1, <3>4, LeaveKeeps
  <2>9. CASE SyntaxError
    BY <2>9, ErrorKeeps
  <2>10. CASE UNCHANGED vars
    <3>1. State' = State /\ Top' = Top /\ Status' = Status /\ Made' = Made /\ Whole' = Whole
      BY <2>10 DEF vars, State, Stack, Top, Status, Made, Whole, Taken
    <3>2. TypeInv' /\ Outer(parses') /\ LocalInv' /\ PlaceInv'
      BY <2>10, <3>1 DEF vars, Inv, TypeInv, LocalInv, PlaceInv
    <3>3. (LineInv => LineInv') /\ (BetweenInv => BetweenInv')
      BY <2>10, <3>1 DEF vars, LineInv, BetweenInv
    <3> QED  BY <2>10, <3>2, <3>3 DEF vars, Inv
  <2> QED  BY <2>1, <2>2, <2>3, <2>4, <2>5, <2>6, <2>7, <2>8, <2>9, <2>10 DEF Next, Step, Done
<1> QED  BY <1>1, <1>2, PTL DEF Spec

\* The tables do what the grammar says, for lines of any length and parsers
\* inside one another to any depth: execute is called for the commands and for
\* nothing else, before anything of the next line is read and with the table of
\* the grammar's actions, and a malformed line is skipped to its end.
THEOREM ParsesAsGrammar == Spec => []ActsAsGrammar
<1>1. Inv => ActsAsGrammar
  <2> SUFFICES ASSUME Inv PROVE ActsAsGrammar
    OBVIOUS
  <2>1. pc = "execute" => Whole.at \notin {"start", "error"} /\ table = Whole.table /\ yychar = YYEMPTY
    <3> SUFFICES ASSUME pc = "execute"
                 PROVE  /\ Whole.at \notin {"start", "error"} /\ table = Whole.table
                        /\ yychar = YYEMPTY
      OBVIOUS
    <3>1. State = 36 /\ outcome = None
      BY DEF Inv, PlaceInv, BetweenInv
    <3>2. Agrees(36, Top, yychar, simple, table, base, Made, Whole)
      BY <3>1 DEF Inv, LineInv
    <3> DEFINE w == Whole
    <3> HIDE DEF w
    <3>3. w.at \notin {"start", "error"} /\ table = w.table
      BY <3>2 DEF Agrees, w
    <3>4. yychar = YYEMPTY
      BY <3>1 DEF Inv, LocalInv, Served
    <3> QED  BY <3>3, <3>4 DEF w
  <2>2. /\ outcome = "skipped" => Whole.at = "error" /\ table = Whole.table
        /\ outcome = "empty" => Whole.at = "start" /\ table = base
    BY DEF Inv, BetweenInv, None
  <2> QED  BY <2>1, <2>2 DEF ActsAsGrammar, Whole
<1> QED  BY <1>1, Invariance, PTL

\* A malformed line is reported once, a good one never.
THEOREM ReportsOnce == Spec => []ReportedOnce
<1>1. Inv => ReportedOnce
  <2> SUFFICES ASSUME Inv PROVE ReportedOnce
    OBVIOUS
  <2>1. pc = "execute" => reports = 0
    <3>1. pc = "execute" => State = 36 /\ outcome = None
      BY DEF Inv, PlaceInv, BetweenInv
    <3> QED  BY <3>1 DEF Inv, LineInv
  <2>2. outcome = "skipped" => reports = 1
    BY DEF Inv, BetweenInv, None
  <2> QED  BY <2>1, <2>2 DEF ReportedOnce
<1> QED  BY <1>1, Invariance, PTL

\* The shell goes on until its own input ends, unless a sourced file ends outside
\* a list of whole lines.
THEOREM EndsAtItsEnd == Spec => []EndsWithItsInput
<1>1. Inv => EndsWithItsInput
  BY DEF Inv, PlaceInv, EndsWithItsInput
<1> QED  BY <1>1, Invariance, PTL

-----------------------------------------------------------------------------
\* A session. A line that is neither a command nor malformed is empty, and
\* leaves the table as it was.
LEMMA ParseType ==
    ASSUME NEW t \in Tables, NEW l \in Seq(Lexemes)
    PROVE  /\ Parse(t, l).table \in Tables
           /\ Parse(t, l).at = "start" => Parse(t, l).table = t
<1> DEFINE q == After(t, l)  r == Reduce(q)
<1>1. q \in Grammar /\ r \in Grammar
  BY AfterType, ReduceType
<1>2. Parse(t, l) = EndOf(r)
  BY ParseIs
<1>3. EndOf(r).table = r.table /\ (EndOf(r).at = "start" => r.at = "start")
  <2>1. r.at # "start" => EndOf(r).at # "start"
    BY <1>1, EndIs
  <2> QED  BY <1>1, <2>1, EndIs
<1>4. r.at = "start" => q.at = "start" /\ r = q
  BY <1>1, ReduceArgs, ReduceOther
<1>5. q.at = "start" => l = <<>>
  <2> SUFFICES ASSUME l # <<>> PROVE q.at # "start"
    OBVIOUS
  <2> DEFINE f == Front(l)  x == Last(l)  p == After(t, f)
  <2>1. f \in Seq(Lexemes) /\ x \in Lexemes /\ l = Append(f, x)
    BY FrontLast
  <2> HIDE DEF f, x
  <2>2. q = Shift(p, x) /\ p \in Grammar
    <3>1. After(t, Append(f, x)) = Shift(p, x)
      BY ONLY <2>1, AfterOne
    <3> QED  BY <2>1, <3>1, AfterType
  <2> HIDE DEF p
  <2>3. Shift(p, x).at # "start"
    <3>1. CASE Token(x) = "WORD"
      <4>1. p.at \in Places
        BY <2>2 DEF Grammar
      <4> QED  BY <2>1, <2>2, <3>1, <4>1, WordIs DEF Places
    <3>2. CASE Token(x) # "WORD"
      <4> DEFINE k == Token(x)  o == Reduce(p)
      <4>1. \/ k = "PIPE" /\ o.at = "pipe_list"
            \/ k \in Redirects /\ o.at \in {"pipe_list", "modifiers"}
            \/ k = "AMPERSAND" /\ o.at \in {"pipe_list", "modifiers"}
            \/ k = "PIPE" /\ o.at # "pipe_list"
            \/ k \in Redirects \cup {"AMPERSAND"} /\ o.at \notin {"pipe_list", "modifiers"}
            \/ k \notin Redirects \cup {"AMPERSAND", "PIPE"}
        OBVIOUS
      <4> QED  BY <2>1, <2>2, <3>2, <4>1, OperatorIs
    <3> QED  BY <3>1, <3>2
  <2> QED  BY <2>2, <2>3
<1>6. l = <<>> => q = Start(t)
  BY AfterNone
<1>7. r.at = "start" => r.table = t
  BY <1>4, <1>5, <1>6 DEF Start
<1>8. r.table \in Tables
  BY <1>1 DEF Grammar
<1> HIDE DEF r, q
<1> QED  BY <1>2, <1>3, <1>7, <1>8

\* Between commands an unspoiled table is empty, and what is executed from one is
\* what its line alone makes.
SessionInv ==
  /\ buffer \in Seq(Seq(Lexemes)) /\ rest \in Seq(Seq(Seq(Lexemes))) /\ rest # <<>>
  /\ current \in Tables /\ terminal \in BOOLEAN /\ spoiled \in BOOLEAN
  /\ doing = "parse" /\ ~spoiled => current = Empty
  /\ doing = "execute" /\ ~spoiled => current = Parse(Empty, asked).table
  /\ \E A : ran \in Seq(A)
  /\ RunsWhatItSays

LEMMA RecordKeeps ==
    ASSUME SessionInv, doing = "execute", Record
    PROVE  (\E A : ran' \in Seq(A)) /\ RunsWhatItSays'
<1> DEFINE e == [line |-> asked, table |-> current, spoiled |-> spoiled]
<1>1. PICK A : ran \in Seq(A)
  BY DEF SessionInv
<1>2. ran' = Append(ran, e) /\ e.spoiled = spoiled /\ e.line = asked /\ e.table = current
  BY DEF Record
<1> HIDE DEF e
<1>3. ran \in Seq(A \cup {e}) /\ e \in A \cup {e}
  BY <1>1
<1>4. /\ ran' \in Seq(A \cup {e}) /\ Len(ran') = Len(ran) + 1 /\ ran'[Len(ran) + 1] = e
      /\ \A k \in 1 .. Len(ran) : ran'[k] = ran[k]
  BY <1>2, <1>3, AppendProperties
<1>5. ASSUME NEW k \in DOMAIN ran', ~ran'[k].spoiled
      PROVE  ran'[k].table = Parse(Empty, ran'[k].line).table
  <2>1. k \in 1 .. Len(ran) \/ k = Len(ran) + 1
    BY <1>4, <1>5
  <2>2. CASE k \in 1 .. Len(ran)
    <3>1. k \in DOMAIN ran /\ ran'[k] = ran[k]
      BY <1>1, <1>4, <2>2
    <3> QED  BY <1>5, <3>1 DEF SessionInv, RunsWhatItSays
  <2>3. CASE k = Len(ran) + 1
    BY <1>2, <1>4, <1>5, <2>3 DEF SessionInv
  <2> QED  BY <2>1, <2>2, <2>3
<1> QED  BY <1>4, <1>5 DEF RunsWhatItSays

LEMMA SessionStep == ASSUME SessionInv, [SessionNext]_sessionVars PROVE SessionInv'
<1>1. /\ buffer \in Seq(Seq(Lexemes)) /\ rest \in Seq(Seq(Seq(Lexemes))) /\ rest # <<>>
      /\ current \in Tables /\ terminal \in BOOLEAN /\ spoiled \in BOOLEAN
      /\ Source \in 1 .. Len(rest) /\ Len(rest) \in Nat
  BY DEF SessionInv, Source
<1>2. rest[Source] \in Seq(Seq(Lexemes))
  BY <1>1
<1>3. CASE Fill
  <2>1. buffer' \in Seq(Seq(Lexemes)) /\ rest' \in Seq(Seq(Seq(Lexemes))) /\ rest' # <<>>
    <3> DEFINE l == rest[Source]
    <3>1. l # <<>> /\ \/ buffer' = <<Head(l)>> /\ rest' = [rest EXCEPT ![Source] = Tail(l)]
                      \/ buffer' = l /\ rest' = [rest EXCEPT ![Source] = <<>>]
      BY <1>3 DEF Fill
    <3>2. l \in Seq(Seq(Lexemes))
      BY <1>2
    <3> HIDE DEF l
    <3>3. Head(l) \in Seq(Lexemes) /\ Tail(l) \in Seq(Seq(Lexemes)) /\ <<>> \in Seq(Seq(Lexemes))
      BY <3>1, <3>2
    <3>4. <<Head(l)>> \in Seq(Seq(Lexemes))
      BY <3>3
    <3>5. \A v \in Seq(Seq(Lexemes)) : /\ [rest EXCEPT ![Source] = v] \in Seq(Seq(Seq(Lexemes)))
                                       /\ [rest EXCEPT ![Source] = v] # <<>>
      BY <1>1
    <3> QED  BY <3>1, <3>2, <3>3, <3>4, <3>5
  <2> QED  BY <1>3, <2>1 DEF Fill, SessionInv, RunsWhatItSays
<1>4. CASE ParseLine
  <2> DEFINE l == Head(buffer)  p == Parse(current, l)
  <2>1. /\ doing = "parse" /\ buffer # <<>> /\ current' = p.table /\ asked' = l
        /\ doing' = (IF p.at \in {"start", "error"} THEN "parse" ELSE "execute")
        /\ spoiled' = (spoiled \/ p.at = "error") /\ buffer' = Tail(buffer)
        /\ UNCHANGED <<terminal, rest, ran>>
    BY <1>4 DEF ParseLine
  <2>2. l \in Seq(Lexemes) /\ buffer' \in Seq(Seq(Lexemes))
    BY <1>1, <2>1
  <2>3. p.table \in Tables /\ (p.at = "start" => p.table = current)
    BY <1>1, <2>2, ParseType
  <2>4. ~spoiled => current = Empty
    BY <2>1 DEF SessionInv
  <2>5. doing' = "parse" /\ ~spoiled' => current' = Empty
    <3> HIDE DEF p
    <3> QED  BY <1>1, <2>1, <2>3, <2>4
  <2>6. doing' = "execute" /\ ~spoiled' => current' = Parse(Empty, asked').table
    <3> DEFINE a == p.at = "error"
    <3>1. ~spoiled' => ~spoiled
      BY <1>1, <2>1
    <3> QED  BY <2>1, <2>4, <3>1
  <2>7. spoiled' \in BOOLEAN
    BY <1>1, <2>1
  <2> HIDE DEF p, l
  <2> QED  BY <1>1, <2>1, <2>2, <2>3, <2>5, <2>6, <2>7 DEF SessionInv, RunsWhatItSays
<1>5. CASE Exit
  <2>1. /\ (\E A : ran' \in Seq(A)) /\ RunsWhatItSays'
    BY <1>5, RecordKeeps DEF Exit
  <2> QED  BY <1>1, <1>5, <2>1 DEF Exit, SessionInv
<1>6. CASE Plain
  <2>1. /\ (\E A : ran' \in Seq(A)) /\ RunsWhatItSays'
    BY <1>6, RecordKeeps DEF Plain
  <2> QED  BY <1>1, <1>6, <2>1, EmptyType DEF Plain, SessionInv
<1>7. CASE SourceFails
  BY <1>1, <1>7, EmptyType DEF SourceFails, SessionInv, RunsWhatItSays
<1>8. CASE SourceFile
  <2>1. rest' \in Seq(Seq(Seq(Lexemes))) /\ rest' # <<>>
    <3>1. rest' = Append(rest, FileLines) /\ FileLines \in Seq(Seq(Lexemes))
      BY <1>8, SessionAssumption DEF SourceFile
    <3> DEFINE L == Seq(Seq(Lexemes))  f == FileLines
    <3>2. rest \in Seq(L) /\ f \in L /\ rest' = Append(rest, f)
      BY <1>1, <3>1
    <3>3. rest' \in Seq(L) /\ rest' # <<>>
      <4> HIDE DEF L, f
      <4> QED  BY ONLY <3>2, AppendProperties
    <3> QED  BY <3>3
  <2> QED  BY <1>1, <1>8, <2>1 DEF SourceFile, SessionInv, RunsWhatItSays
<1>9. CASE EndOfInput
  <2>1. CASE Len(rest) = 1
    BY <1>1, <1>9, <2>1 DEF EndOfInput, SessionInv, RunsWhatItSays
  <2>2. CASE Len(rest) # 1
    <3>1. rest' = Front(rest) /\ current' = Empty /\ spoiled' = FALSE /\ doing' = doing
          /\ UNCHANGED <<terminal, buffer, asked, ran>> /\ doing = "parse"
      BY <1>9, <2>2 DEF EndOfInput
    <3>2. Front(rest) \in Seq(Seq(Seq(Lexemes))) /\ Front(rest) # <<>>
      <4>1. Len(Front(rest)) = Len(rest) - 1 /\ Front(rest) \in Seq(Seq(Seq(Lexemes)))
        BY <1>1, FrontLast
      <4> QED  BY <1>1, <2>2, <4>1
    <3> QED  BY <1>1, <3>1, <3>2, EmptyType DEF SessionInv, RunsWhatItSays
  <2> QED  BY <2>1, <2>2
<1>10. CASE UNCHANGED sessionVars
  BY <1>10 DEF sessionVars, SessionInv, RunsWhatItSays
<1> QED  BY <1>3, <1>4, <1>5, <1>6, <1>7, <1>8, <1>9, <1>10 DEF SessionNext, Ended

\* What is executed is what its line says, for scripts and nested files of any
\* length: a malformed line or a source spoils at most the next command.
THEOREM SessionRunsWhatItSays == SessionSpec => []RunsWhatItSays
<1>1. SessionInit => SessionInv
  <2> SUFFICES ASSUME SessionInit PROVE SessionInv
    OBVIOUS
  <2>1. PICK s \in Scripts : rest = <<s>>
    BY DEF SessionInit
  <2>2. rest \in Seq(Seq(Seq(Lexemes))) /\ rest # <<>> /\ buffer \in Seq(Seq(Lexemes))
    BY <2>1, SessionAssumption DEF SessionInit
  <2>3. ran \in Seq({}) /\ DOMAIN ran = {}
    BY DEF SessionInit
  <2> QED  BY <2>2, <2>3, EmptyType DEF SessionInit, SessionInv, RunsWhatItSays
<1>2. SessionInv /\ [SessionNext]_sessionVars => SessionInv'
  BY SessionStep
<1>3. SessionInv => RunsWhatItSays
  BY DEF SessionInv
<1> QED  BY <1>1, <1>2, <1>3, PTL DEF SessionSpec
=============================================================================
