-------------------------- MODULE LineEditorProofs --------------------------
(* Proofs about the line editor: at every moment the terminal shows the line *)
(* in the array, and the array behaves as a line edited in place. Writing,   *)
(* typing and erasing are folds; they are reasoned about through a Run: the  *)
(* states between the steps of the fold.                                     *)
EXTENDS LineEditor, TLAPS, WellFoundedInduction, FiniteSetTheorems, SequenceTheorems

\* The array has room for the newline and the NUL.
LEMMA Room == MAX_BUFFER_LINE \in Nat /\ MAX_BUFFER_LINE >= 2
BY EditorAssumption

\* Concatenation is associative.
LEMMA Regroup == ASSUME NEW A
                 PROVE  \A u, v, w \in Seq(A) : (u \o v) \o w = u \o (v \o w)
<1> SUFFICES ASSUME NEW u \in Seq(A), NEW v \in Seq(A), NEW w \in Seq(A)
             PROVE  (u \o v) \o w = u \o (v \o w)
  OBVIOUS
<1> QED  BY ConcatAssociative

\* A nonempty set of natural numbers has a least element.
LEMMA LeastExists ==
    ASSUME NEW S \in SUBSET Nat, S # {}
    PROVE  \E x \in S : \A y \in S : x <= y
<1> DEFINE T == {0..x : x \in S}
<1>1. \A x \in S : 0..x \in FiniteSubsetsOf(Nat)
  BY FS_Interval DEF FiniteSubsetsOf
<1>2. T \subseteq FiniteSubsetsOf(Nat) /\ T # {}
  BY <1>1
<1>3. IsWellFoundedOn(StrictSubsetOrdering(Nat), FiniteSubsetsOf(Nat))
  BY FS_StrictSubsetOrderingWellFounded
<1>4. \E I \in T : \A J \in T : ~(<<J, I>> \in StrictSubsetOrdering(Nat))
  <2> HIDE DEF T
  <2> QED  BY <1>2, <1>3, WFMin
<1>5. PICK x \in S : \A y \in S : ~(<<0..y, 0..x>> \in StrictSubsetOrdering(Nat))
  BY <1>4
<1>6. ASSUME NEW y \in S, y < x PROVE FALSE
  <2>1. x \in Nat /\ y \in Nat
    OBVIOUS
  <2>2. 0..y \subseteq 0..x /\ x \in 0..x /\ x \notin 0..y
    BY <2>1, <1>6
  <2>3. <<0..y, 0..x>> \in StrictSubsetOrdering(Nat)
    BY <2>1, <2>2 DEF StrictSubsetOrdering
  <2> QED  BY <2>3, <1>5
<1> QED  BY <1>6

\* Induction, for a set: one that has 0 and with each number the next has all.
LEMMA Induction ==
    ASSUME NEW S, 0 \in S, \A i \in Nat : i \in S => i + 1 \in S
    PROVE  \A i \in Nat : i \in S
<1> SUFFICES ASSUME Nat \ S # {} PROVE FALSE
  OBVIOUS
<1>1. PICK x \in Nat \ S : \A y \in Nat \ S : x <= y
  BY LeastExists
<1>2. x # 0 /\ x - 1 \in Nat
  BY <1>1
<1>3. x - 1 \in S
  BY <1>1, <1>2
<1>4. (x - 1) + 1 \in S
  BY <1>2, <1>3
<1> QED  BY <1>1, <1>4

\* The largest of the numbers up to n.
LEMMA MaxUpTo == ASSUME NEW n \in Nat, NEW S \in SUBSET (1 .. n + 1), n + 1 \in S
                 PROVE  Max(S) = n + 1
<1>1. n + 1 \in S /\ \A y \in S : n + 1 >= y
  OBVIOUS
<1>2. \A z \in S : (\A y \in S : z >= y) => z = n + 1
  <2> SUFFICES ASSUME NEW z \in S, \A y \in S : z >= y PROVE z = n + 1
    OBVIOUS
  <2>1. z >= n + 1 /\ z <= n + 1 /\ z \in Int
    BY <1>1
  <2> QED BY <2>1
<1> QED  BY <1>1, <1>2 DEF Max

-----------------------------------------------------------------------------
\* The steps that are folded: characters to the terminal, characters into the
\* line, and out of it.
Step(k, y, c) == CASE k = "put"    -> Put(y, c)
                   [] k = "insert" -> InsertChar(y, c)
                   [] OTHER        -> BackspaceChar(y)

\* The recursion of a fold, over the sets of its first indices.
Fold(k, x, s, n, f) ==
  f = [S \in SUBSET (1 .. n) |-> IF S = {} THEN x ELSE Step(k, f[S \ {Max(S)}], s[Max(S)])]

\* Such a function of the steps exists for every number of them.
LEMMA FoldExists == ASSUME NEW k, NEW x, NEW s, NEW n \in Nat PROVE \E f : Fold(k, x, s, n, f)
<1> DEFINE D == {m \in Nat : \E f : Fold(k, x, s, m, f)}
<1>1. 0 \in D
  <2>1. Fold(k, x, s, 0, [S \in {{}} |-> x])
    <3>1. SUBSET (1 .. 0) = {{}}
      OBVIOUS
    <3> QED BY <3>1 DEF Fold
  <2> QED BY <2>1
<1>2. ASSUME NEW m \in Nat, m \in D PROVE m + 1 \in D
  <2>1. PICK f : Fold(k, x, s, m, f)
    BY <1>2
  <2> DEFINE g == [S \in SUBSET (1 .. m + 1) |->
                     IF m + 1 \in S THEN Step(k, f[S \ {m + 1}], s[m + 1]) ELSE f[S]]
  <2>2. ASSUME NEW S \in SUBSET (1 .. m + 1)
        PROVE  g[S] = IF S = {} THEN x ELSE Step(k, g[S \ {Max(S)}], s[Max(S)])
    <3>1. CASE m + 1 \in S
      <4>1. Max(S) = m + 1
        BY <3>1, MaxUpTo
      <4>2. S \ {m + 1} \in SUBSET (1 .. m + 1) /\ m + 1 \notin S \ {m + 1}
        OBVIOUS
      <4>3. g[S \ {m + 1}] = f[S \ {m + 1}]
        BY <4>2
      <4> QED BY <3>1, <4>1, <4>3
    <3>2. CASE m + 1 \notin S
      <4>1. S \in SUBSET (1 .. m)
        BY <3>2
      <4>2. f[S] = IF S = {} THEN x ELSE Step(k, f[S \ {Max(S)}], s[Max(S)])
        BY <2>1, <4>1 DEF Fold
      <4>3. S \ {Max(S)} \in SUBSET (1 .. m + 1) /\ m + 1 \notin S \ {Max(S)}
        BY <3>2
      <4>4. g[S \ {Max(S)}] = f[S \ {Max(S)}] /\ g[S] = f[S]
        BY <4>3, <3>2
      <4> QED BY <4>2, <4>4
    <3> QED BY <3>1, <3>2
  <2>3. Fold(k, x, s, m + 1, g)
    <3> HIDE DEF g
    <3>1. g = [S \in SUBSET (1 .. m + 1) |-> g[S]]
      BY DEF g
    <3> QED BY <2>2, <3>1, Zenon DEF Fold
  <2>4. \E h : Fold(k, x, s, m + 1, h)
    <3> HIDE DEF g
    <3> QED  BY <2>3
  <2> QED BY <2>4
<1> HIDE DEF D
<1>3. n \in D
  BY <1>1, <1>2, Induction
<1> QED BY <1>3 DEF D

\* The states between the steps.
Run(k, x, s, h) == h[0] = x /\ \A i \in 1 .. Len(s) : h[i] = Step(k, h[i - 1], s[i])

\* The function that FoldFunction builds is a run of the steps.
LEMMA FoldRuns ==
    ASSUME NEW k, NEW x, NEW A, NEW s \in Seq(A), NEW f, Fold(k, x, s, Len(s), f)
    PROVE  \E h : Run(k, x, s, h) /\ f[1 .. Len(s)] = h[Len(s)]
<1> DEFINE h == [i \in 0 .. Len(s) |-> f[1 .. i]]
<1>3. h[0] = x
  <2>1. {} \in SUBSET (1 .. Len(s)) /\ 1 .. 0 = {}
    OBVIOUS
  <2> QED BY <2>1 DEF Fold
<1>4. ASSUME NEW i \in 1 .. Len(s) PROVE h[i] = Step(k, h[i - 1], s[i])
  <2>1. 1 .. i \in SUBSET (1 .. Len(s)) /\ 1 .. i # {} /\ (1 .. i) \ {i} = 1 .. (i - 1)
    <3>1. i \in 1 .. i /\ 1 .. i \subseteq 1 .. Len(s) /\ (1 .. i) \ {i} = 1 .. (i - 1)
      OBVIOUS
    <3> QED BY <3>1
  <2>2. Max(1 .. i) = i
    <3>1. i - 1 \in Nat /\ (i - 1) + 1 = i /\ i \in 1 .. i
      OBVIOUS
    <3> DEFINE l == i - 1
    <3>2. Max(1 .. l + 1) = l + 1
      <4> HIDE DEF l
      <4>1. l \in Nat
        BY <3>1 DEF l
      <4>2. 1 .. l + 1 \in SUBSET (1 .. l + 1) /\ l + 1 \in 1 .. l + 1
        BY <4>1
      <4> QED BY <4>1, <4>2, MaxUpTo
    <3> QED BY <3>1, <3>2
  <2>3. f[1 .. i] = Step(k, f[1 .. (i - 1)], s[i])
    BY <2>1, <2>2 DEF Fold
  <2> QED BY <2>3
<1>5. f[1 .. Len(s)] = h[Len(s)]
  OBVIOUS
<1> HIDE DEF h
<1> QED BY <1>3, <1>4, <1>5 DEF Run

\* There is one such run.
LEMMA OneRun == ASSUME NEW k, NEW x, NEW A, NEW s \in Seq(A), NEW g, Run(k, x, s, g),
                       NEW h, Run(k, x, s, h)
                PROVE  h[Len(s)] = g[Len(s)]
<1> DEFINE D == {i \in Nat : i <= Len(s) => h[i] = g[i]}
<1>2. 0 \in D
  BY DEF Run
<1>3. ASSUME NEW i \in Nat, i \in D PROVE i + 1 \in D
  <2> SUFFICES ASSUME i + 1 <= Len(s) PROVE h[i + 1] = g[i + 1]
    OBVIOUS
  <2>1. i + 1 \in 1 .. Len(s) /\ (i + 1) - 1 = i /\ h[i] = g[i]
    BY <1>3
  <2> QED BY <2>1 DEF Run
<1> HIDE DEF D
<1>4. Len(s) \in D
  BY <1>2, <1>3, Induction
<1> QED BY <1>4 DEF D

\* The three folds of the editor are such runs.
LEMMA WriteRuns == ASSUME NEW x, NEW A, NEW s \in Seq(A)
                   PROVE  \E h : Run("put", x, s, h) /\ Write(x, s) = h[Len(s)]
<1> DEFINE P(f) == f = [S \in SUBSET DOMAIN s |->
                          IF S = {} THEN x ELSE Put(f[S \ {Max(S)}], s[Max(S)])]
           w == CHOOSE f : P(f)
<1>1. \A f : P(f) <=> Fold("put", x, s, Len(s), f)
  <2>1. DOMAIN s = 1 .. Len(s)
    OBVIOUS
  <2> QED  BY <2>1 DEF Fold, Step
<1>2. Write(x, s) = w[DOMAIN s]
  BY DEF Write, FoldLeft, MapThenFoldSet
<1>3. \E f : P(f)
  <2> HIDE DEF P
  <2>1. Len(s) \in Nat
    OBVIOUS
  <2> QED  BY <2>1, <1>1, FoldExists
<1>4. P(w)
  <2> HIDE DEF P
  <2> QED  BY <1>3, Zenon
<1> HIDE DEF w, P
<1>5. Fold("put", x, s, Len(s), w)
  BY <1>1, <1>4
<1>6. DOMAIN s = 1 .. Len(s)
  OBVIOUS
<1> QED  BY <1>2, <1>5, <1>6, FoldRuns

\* A text is written one character after the other.
LEMMA WriteIs == ASSUME NEW x, NEW A, NEW s \in Seq(A), NEW g, Run("put", x, s, g)
                 PROVE  Write(x, s) = g[Len(s)]
BY WriteRuns, OneRun

\* A text is typed one character after the other.
LEMMA InsertRuns ==
    ASSUME NEW x, NEW A, NEW s \in Seq(A)
    PROVE  \E h : Run("insert", x, s, h) /\ FoldLeft(InsertChar, x, s) = h[Len(s)]
<1> DEFINE P(f) == f = [S \in SUBSET DOMAIN s |->
                          IF S = {} THEN x ELSE InsertChar(f[S \ {Max(S)}], s[Max(S)])]
           w == CHOOSE f : P(f)
<1>1. \A f : P(f) <=> Fold("insert", x, s, Len(s), f)
  <2>1. DOMAIN s = 1 .. Len(s)
    OBVIOUS
  <2> QED  BY <2>1 DEF Fold, Step
<1>2. FoldLeft(InsertChar, x, s) = w[DOMAIN s]
  BY DEF FoldLeft, MapThenFoldSet
<1>3. \E f : P(f)
  <2> HIDE DEF P
  <2>1. Len(s) \in Nat
    OBVIOUS
  <2> QED  BY <2>1, <1>1, FoldExists
<1>4. P(w)
  <2> HIDE DEF P
  <2> QED  BY <1>3, Zenon
<1> HIDE DEF w, P
<1>5. Fold("insert", x, s, Len(s), w)
  BY <1>1, <1>4
<1>6. DOMAIN s = 1 .. Len(s)
  OBVIOUS
<1> QED  BY <1>2, <1>5, <1>6, FoldRuns

\* The word in front of the cursor, erased.
EraseAll(x, s) == FoldLeft(LAMBDA y, c : BackspaceChar(y), x, s)

\* A word is erased one character after the other.
LEMMA EraseRuns ==
    ASSUME NEW x, NEW A, NEW s \in Seq(A)
    PROVE  \E h : /\ Run("erase", x, s, h)
                  /\ EraseAll(x, s) = h[Len(s)]
<1> DEFINE P(f) == f = [S \in SUBSET DOMAIN s |->
                          IF S = {} THEN x ELSE BackspaceChar(f[S \ {Max(S)}])]
           w == CHOOSE f : P(f)
<1>1. \A f : P(f) <=> Fold("erase", x, s, Len(s), f)
  <2>1. DOMAIN s = 1 .. Len(s)
    OBVIOUS
  <2> QED  BY <2>1 DEF Fold, Step
<1>2. EraseAll(x, s) = w[DOMAIN s]
  BY DEF EraseAll, FoldLeft, MapThenFoldSet
<1>3. \E f : P(f)
  <2> HIDE DEF P
  <2>1. Len(s) \in Nat
    OBVIOUS
  <2> QED  BY <2>1, <1>1, FoldExists
<1>4. P(w)
  <2> HIDE DEF P
  <2> QED  BY <1>3, Zenon
<1> HIDE DEF w, P
<1>5. Fold("erase", x, s, Len(s), w)
  BY <1>1, <1>4
<1>6. DOMAIN s = 1 .. Len(s)
  OBVIOUS
<1> QED  BY <1>2, <1>5, <1>6, FoldRuns

-----------------------------------------------------------------------------
\* The editor's line and the terminal.
Characters == Printable \cup {NUL, BS, "\n"}
States == [buf : [0 .. MAX_BUFFER_LINE - 1 -> Characters], length : Nat, cursor : Nat,
           shown : [1 .. MAX_BUFFER_LINE -> Characters], column : Int]

\* States of the editor with the same five fields are the same.
LEMMA SameState == ASSUME NEW x \in States, NEW y \in States, x.buf = y.buf,
                          x.length = y.length, x.cursor = y.cursor, x.shown = y.shown,
                          x.column = y.column
                   PROVE  x = y
BY DEF States

\* The terminal after the first i characters of a text and as many backspaces
\* as it takes.
Shown(x, p, i) ==
  [j \in 1 .. MAX_BUFFER_LINE |->
     IF j - x.column \in 1 .. Len(p) /\ j - x.column <= i THEN p[j - x.column] ELSE x.shown[j]]
After(x, p, i) ==
  [x EXCEPT !.shown = Shown(x, p, i),
            !.column = IF i <= Len(p) THEN x.column + i ELSE x.column + 2 * Len(p) - i]

\* Writing leaves the line alone: only the terminal changes.
LEMMA AfterFields ==
    ASSUME NEW x \in States, NEW p \in Seq(Printable), NEW i \in Nat
    PROVE  /\ After(x, p, i) \in States
           /\ After(x, p, i).buf = x.buf
           /\ After(x, p, i).length = x.length
           /\ After(x, p, i).cursor = x.cursor
           /\ After(x, p, i).shown = Shown(x, p, i)
           /\ After(x, p, i).column
                = IF i <= Len(p) THEN x.column + i ELSE x.column + 2 * Len(p) - i
<1>1. Shown(x, p, i) \in [1 .. MAX_BUFFER_LINE -> Characters]
  <2>1. ASSUME NEW j \in 1 .. MAX_BUFFER_LINE PROVE Shown(x, p, i)[j] \in Characters
    <3>1. x.shown[j] \in Characters
      BY DEF States
    <3>2. j - x.column \in 1 .. Len(p) => p[j - x.column] \in Characters
      BY DEF Characters
    <3> QED  BY <3>1, <3>2 DEF Shown
  <2> QED  BY <2>1 DEF Shown
<1> DEFINE col == IF i <= Len(p) THEN x.column + i ELSE x.column + 2 * Len(p) - i
<1>2. col \in Int
  BY DEF States
<1> HIDE DEF col
<1>3. After(x, p, i) = [x EXCEPT !.shown = Shown(x, p, i), !.column = col]
  BY DEF After, col
<1>4. /\ After(x, p, i) \in States
      /\ After(x, p, i).buf = x.buf
      /\ After(x, p, i).length = x.length
      /\ After(x, p, i).cursor = x.cursor
      /\ After(x, p, i).shown = Shown(x, p, i)
      /\ After(x, p, i).column = col
  BY <1>1, <1>2, <1>3 DEF States
<1> QED  BY <1>4 DEF col

\* n times a character.
LEMMA TimesType == ASSUME NEW A, NEW c \in A, NEW n \in Nat
                   PROVE  /\ Times(n, c) \in Seq(A) /\ Len(Times(n, c)) = n
                          /\ \A i \in 1 .. n : Times(n, c)[i] = c
<1>1. [i \in 1 .. n |-> c] \in Seq(A)
  OBVIOUS
<1>2. Len([i \in 1 .. n |-> c]) = n
  OBVIOUS
<1> QED  BY <1>1, <1>2 DEF Times

\* What a character does to the terminal.
LEMMA PutFields ==
    ASSUME NEW x \in States, NEW c \in Printable
    PROVE  /\ Put(x, c) \in States
           /\ Put(x, c).buf = x.buf
           /\ Put(x, c).length = x.length
           /\ Put(x, c).cursor = x.cursor
           /\ Put(x, c).shown = [x.shown EXCEPT ![x.column + 1] = c]
           /\ Put(x, c).column = x.column + 1
<1>1. c # BS /\ c # "\n" /\ c \in Characters
  BY DEF Printable, Characters
<1> DEFINE l == [x.shown EXCEPT ![x.column + 1] = c]
<1>2. Put(x, c) = [x EXCEPT !.shown = l, !.column = x.column + 1]
  <2>1. Put(x, c) = [x EXCEPT !.shown[x.column + 1] = c, !.column = @ + 1]
    BY <1>1 DEF Put
  <2> QED  BY <2>1 DEF States
<1>3. l \in [1 .. MAX_BUFFER_LINE -> Characters] /\ x.column + 1 \in Int
  <2>1. x.shown \in [1 .. MAX_BUFFER_LINE -> Characters] /\ x.column \in Int
    BY DEF States
  <2>2. l = [j \in 1 .. MAX_BUFFER_LINE |-> IF j = x.column + 1 THEN c ELSE x.shown[j]]
    BY <2>1
  <2>3. \A j \in 1 .. MAX_BUFFER_LINE :
           (IF j = x.column + 1 THEN c ELSE x.shown[j]) \in Characters
    BY <1>1, <2>1
  <2> HIDE DEF l
  <2>4. l \in [1 .. MAX_BUFFER_LINE -> Characters]
    BY <2>2, <2>3
  <2> QED  BY <2>1, <2>4
<1> HIDE DEF l
<1>4. /\ Put(x, c) \in States
      /\ Put(x, c).buf = x.buf
      /\ Put(x, c).length = x.length
      /\ Put(x, c).cursor = x.cursor
      /\ Put(x, c).shown = l
      /\ Put(x, c).column = x.column + 1
  BY <1>2, <1>3 DEF States
<1> QED  BY <1>4 DEF l

\* A backspace moves the terminal's cursor and nothing else.
LEMMA BackFields ==
    ASSUME NEW x \in States
    PROVE  /\ Put(x, BS) \in States
           /\ Put(x, BS).buf = x.buf
           /\ Put(x, BS).length = x.length
           /\ Put(x, BS).cursor = x.cursor
           /\ Put(x, BS).shown = x.shown
           /\ Put(x, BS).column = x.column - 1
BY DEF Put, States

\* Each character of the text takes the terminal one step further ...
LEMMA PutText ==
    ASSUME NEW x \in States, NEW p \in Seq(Printable), NEW i \in 1 .. Len(p),
           x.column \in Nat, x.column + Len(p) <= MAX_BUFFER_LINE
    PROVE  After(x, p, i) = Put(After(x, p, i - 1), p[i])
<1> DEFINE y == After(x, p, i - 1)
           l == [Shown(x, p, i - 1) EXCEPT ![x.column + i] = p[i]]
<1>1. i \in Nat /\ i - 1 \in Nat /\ p[i] \in Printable /\ Len(p) \in Nat
  OBVIOUS
<1>2. /\ y \in States /\ y.buf = x.buf /\ y.length = x.length /\ y.cursor = x.cursor
      /\ y.shown = Shown(x, p, i - 1)
      /\ y.column = IF i - 1 <= Len(p) THEN x.column + (i - 1)
                    ELSE x.column + 2 * Len(p) - (i - 1)
  BY <1>1, AfterFields
<1> HIDE DEF y
<1>3. y.column + 1 = x.column + i
  BY <1>2
<1>4. l = Shown(x, p, i)
  <2>1. l = [j \in 1 .. MAX_BUFFER_LINE |-> l[j]]
    BY DEF Shown
  <2>2. ASSUME NEW j \in 1 .. MAX_BUFFER_LINE PROVE l[j] = Shown(x, p, i)[j]
    <3>1. CASE j = x.column + i
      <4>1. l[j] = p[i] /\ j - x.column = i
        BY <1>1, <3>1 DEF Shown
      <4>2. Shown(x, p, i)[j] = p[j - x.column]
        BY <4>1, <1>1 DEF Shown
      <4> QED  BY <4>1, <4>2
    <3>2. CASE j # x.column + i
      <4>1. l[j] = Shown(x, p, i - 1)[j]
        BY <3>2 DEF Shown
      <4>2. j - x.column <= i - 1 <=> j - x.column <= i
        BY <1>1, <3>2
      <4> QED  BY <4>1, <4>2 DEF Shown
    <3> QED  BY <3>1, <3>2
  <2>3. Shown(x, p, i) = [j \in 1 .. MAX_BUFFER_LINE |-> Shown(x, p, i)[j]]
    BY DEF Shown
  <2> HIDE DEF l
  <2> QED  BY <2>1, <2>2, <2>3
<1>5. /\ Put(y, p[i]) \in States
      /\ Put(y, p[i]).buf = y.buf /\ Put(y, p[i]).length = y.length
      /\ Put(y, p[i]).cursor = y.cursor /\ Put(y, p[i]).shown = l
      /\ Put(y, p[i]).column = x.column + i
  BY <1>1, <1>2, <1>3, PutFields
<1> HIDE DEF l
<1> DEFINE z == After(x, p, i)
<1>6. /\ z \in States /\ z.buf = x.buf /\ z.length = x.length /\ z.cursor = x.cursor
      /\ z.shown = Shown(x, p, i) /\ z.column = x.column + i
  BY <1>1, AfterFields
<1> HIDE DEF z
<1>7. z = Put(y, p[i])
  BY <1>2, <1>4, <1>5, <1>6, SameState
<1> QED  BY <1>7 DEF y, z

\* ... and each backspace behind the text takes it one step back.
LEMMA PutBack ==
    ASSUME NEW x \in States, NEW p \in Seq(Printable), NEW i \in Nat, i > Len(p)
    PROVE  After(x, p, i) = Put(After(x, p, i - 1), BS)
<1> DEFINE y == After(x, p, i - 1)
<1>1. i - 1 \in Nat /\ i - 1 >= Len(p) /\ Len(p) \in Nat /\ x.column \in Int
  BY DEF States
<1>2. Shown(x, p, i - 1) = Shown(x, p, i)
  BY <1>1 DEF Shown
<1>3. /\ y \in States /\ y.buf = x.buf /\ y.length = x.length /\ y.cursor = x.cursor
      /\ y.shown = Shown(x, p, i - 1)
      /\ y.column = IF i - 1 <= Len(p) THEN x.column + (i - 1)
                    ELSE x.column + 2 * Len(p) - (i - 1)
  BY <1>1, AfterFields
<1> HIDE DEF y
<1>4. y.column - 1 = x.column + 2 * Len(p) - i
  BY <1>1, <1>3
<1> DEFINE z == After(x, p, i)
<1>5. /\ z \in States /\ z.buf = x.buf /\ z.length = x.length /\ z.cursor = x.cursor
      /\ z.shown = Shown(x, p, i) /\ z.column = x.column + 2 * Len(p) - i
  BY <1>1, AfterFields
<1> HIDE DEF z
<1>6. z = Put(y, BS)
  BY <1>2, <1>3, <1>4, <1>5, BackFields, SameState
<1> QED  BY <1>6 DEF y, z

\* A text and then backspaces: the text stands where the cursor was, and the
\* cursor is as far behind that place as the text is longer than they are many.
LEMMA WriteText ==
    ASSUME NEW x \in States, NEW p \in Seq(Printable), NEW n \in Nat,
           x.column \in Nat, x.column + Len(p) <= MAX_BUFFER_LINE
    PROVE  Write(x, p \o Times(n, BS)) = After(x, p, Len(p) + n)
<1> DEFINE s == p \o Times(n, BS)
           g == [i \in 0 .. Len(p) + n |-> After(x, p, i)]
<1>1. s \in Seq(Characters) /\ Len(s) = Len(p) + n
  <2>1. p \in Seq(Characters)
    BY DEF Characters
  <2>2. BS \in Characters
    BY DEF Characters
  <2>3. Times(n, BS) \in Seq(Characters) /\ Len(Times(n, BS)) = n
    BY <2>2, TimesType
  <2> QED  BY <2>1, <2>3
<1>2. g[0] = x
  <2>1. Shown(x, p, 0) = x.shown
    <3>1. x.shown = [j \in 1 .. MAX_BUFFER_LINE |-> x.shown[j]]
      BY DEF States
    <3>2. \A j : ~(j - x.column \in 1 .. Len(p) /\ j - x.column <= 0)
      OBVIOUS
    <3> QED  BY <3>1, <3>2 DEF Shown
  <2> DEFINE z == After(x, p, 0)
  <2>2. /\ z \in States /\ z.buf = x.buf /\ z.length = x.length /\ z.cursor = x.cursor
        /\ z.shown = Shown(x, p, 0) /\ z.column = x.column + 0
    BY AfterFields
  <2> HIDE DEF z
  <2>3. z = x
    <3>1. x.column + 0 = x.column
      BY DEF States
    <3> QED  BY <2>1, <2>2, <3>1, SameState
  <2> QED  BY <2>3 DEF z
<1>3. ASSUME NEW i \in 1 .. Len(s) PROVE g[i] = Step("put", g[i - 1], s[i])
  <2>1. g[i] = After(x, p, i) /\ g[i - 1] = After(x, p, i - 1)
    BY <1>1
  <2>2. CASE i <= Len(p)
    <3>1. s[i] = p[i] /\ i \in 1 .. Len(p)
      BY <2>2 DEF Times
    <3> QED  BY <2>1, <3>1, PutText DEF Step
  <2>3. CASE i > Len(p)
    <3>1. s[i] = BS
      BY <2>3, <1>1 DEF Times
    <3> QED  BY <2>1, <2>3, <3>1, PutBack DEF Step
  <2> QED  BY <2>2, <2>3
<1>4. g[Len(s)] = After(x, p, Len(p) + n)
  BY <1>1
<1> HIDE DEF s, g
<1>5. Write(x, s) = g[Len(s)]
  BY <1>1, <1>2, <1>3, WriteIs DEF Run
<1> QED  BY <1>4, <1>5 DEF s
\* replace_current_word erases the word, then types the new one.
LEMMA ReplaceIs == ASSUME NEW x, NEW w, NEW by
                   PROVE  Replace(x, w, by) = FoldLeft(InsertChar, EraseAll(x, w), by)
BY DEF Replace, EraseAll

\* The text a line holds, from a place on.
LEMMA PieceFacts ==
    ASSUME NEW buf, NEW a \in Nat, NEW n \in Nat, NEW A,
           \A i \in a .. a + n - 1 : buf[i] \in A
    PROVE  /\ Piece(buf, a, n) \in Seq(A) /\ Len(Piece(buf, a, n)) = n
           /\ \A i \in 1 .. n : Piece(buf, a, n)[i] = buf[a + i - 1]
<1>1. \A i \in 1 .. n : buf[a + i - 1] \in A
  OBVIOUS
<1>2. [i \in 1 .. n |-> buf[a + i - 1]] \in Seq(A)
  BY <1>1
<1> QED  BY <1>2 DEF Piece

\* A line in the array, and a terminal that shows it.
Fits(x) == /\ x \in States
           /\ x.length <= MAX_BUFFER_LINE - 2 /\ x.cursor <= x.length
           /\ \A i \in 0 .. x.length - 1 : x.buf[i] \in Printable
Cell(x, j) == IF j <= x.length THEN x.buf[j - 1] ELSE " "
Good(x) == /\ Fits(x)
           /\ x.column = x.cursor
           /\ \A j \in 1 .. MAX_BUFFER_LINE : x.shown[j] = Cell(x, j)

SameLine(x, y) == x.buf = y.buf /\ x.length = y.length /\ x.cursor = y.cursor

\* What is drawn again: a text from where the terminal's cursor is, and steps
\* back to where the line's cursor is.
LEMMA Redraw ==
    ASSUME NEW y, Fits(y), NEW p \in Seq(Printable), NEW n \in Nat,
           y.column \in Nat, y.column + Len(p) <= MAX_BUFFER_LINE,
           y.column + Len(p) - n = y.cursor,
           \A j \in 1 .. MAX_BUFFER_LINE :
              Cell(y, j) = IF j - y.column \in 1 .. Len(p) THEN p[j - y.column] ELSE y.shown[j]
    PROVE  /\ Good(Write(y, p \o Times(n, BS)))
           /\ SameLine(Write(y, p \o Times(n, BS)), y)
<1> DEFINE z == Write(y, p \o Times(n, BS))
           m == Len(p) + n
<1>1. y \in States /\ m \in Nat /\ Len(p) \in Nat /\ m >= Len(p)
  BY DEF Fits
<1>2. z = After(y, p, m)
  BY <1>1, WriteText
<1> HIDE DEF z, m
<1>3. /\ z \in States /\ z.buf = y.buf /\ z.length = y.length /\ z.cursor = y.cursor
      /\ z.shown = Shown(y, p, m)
      /\ z.column = IF m <= Len(p) THEN y.column + m ELSE y.column + 2 * Len(p) - m
  BY <1>1, <1>2, AfterFields
<1>4. z.column = y.cursor
  BY <1>1, <1>3 DEF m
<1>5. ASSUME NEW j \in 1 .. MAX_BUFFER_LINE PROVE z.shown[j] = Cell(z, j)
  <2>1. j - y.column \in 1 .. Len(p) => j - y.column <= m
    BY <1>1
  <2>2. Shown(y, p, m)[j] = Cell(y, j)
    BY <2>1 DEF Shown
  <2> QED  BY <2>2, <1>3 DEF Cell
<1>6. Fits(z)
  BY <1>3 DEF Fits
<1>7. Good(z) /\ SameLine(z, y)
  BY <1>3, <1>4, <1>5, <1>6 DEF Good, SameLine
<1> QED  BY <1>7 DEF z

\* The fields once the array and its two indices are assigned.
LEMMA NewLineFields ==
    ASSUME NEW x \in States, NEW b \in [0 .. MAX_BUFFER_LINE - 1 -> Characters],
           NEW c \in Nat, NEW l \in Nat, NEW y,
           y = [x EXCEPT !.buf = b, !.cursor = c, !.length = l]
    PROVE  /\ y \in States /\ y.buf = b /\ y.cursor = c /\ y.length = l
           /\ y.shown = x.shown /\ y.column = x.column
BY DEF States

\* A character that is typed pushes what is behind the cursor on by one.
Inserted(x, c) == [i \in DOMAIN x.buf |-> IF i = x.cursor THEN c
                                          ELSE IF i \in x.cursor + 1 .. x.length THEN x.buf[i - 1]
                                          ELSE x.buf[i]]

\* insert_char keeps the array and the terminal together, or does nothing when full.
LEMMA InsertGood ==
    ASSUME NEW x, Good(x), NEW c \in Printable
    PROVE  /\ Good(InsertChar(x, c))
           /\ x.length >= MAX_BUFFER_LINE - 2 => InsertChar(x, c) = x
           /\ x.length < MAX_BUFFER_LINE - 2 =>
                 /\ InsertChar(x, c).length = x.length + 1
                 /\ InsertChar(x, c).cursor = x.cursor + 1
                 /\ InsertChar(x, c).buf = Inserted(x, c)
<1>1. CASE x.length >= MAX_BUFFER_LINE - 2
  BY <1>1, Room DEF InsertChar, Good, Fits, States
<1>2. CASE ~(x.length >= MAX_BUFFER_LINE - 2)
  <2> DEFINE y == [x EXCEPT !.buf = [i \in DOMAIN @ |->
                                       IF i = x.cursor THEN c
                                       ELSE IF i \in x.cursor + 1 .. x.length THEN @[i - 1] ELSE @[i]],
                            !.cursor = @ + 1, !.length = @ + 1]
             p == Piece(y.buf, y.cursor - 1, y.length - y.cursor + 1)
             n == y.length - y.cursor
  <2>1. InsertChar(x, c) = Write(y, p \o Times(n, BS))
    BY <1>2 DEF InsertChar
  <2>2. y = [x EXCEPT !.buf = Inserted(x, c), !.cursor = x.cursor + 1, !.length = x.length + 1]
    BY DEF Inserted, Good, Fits, States
  <2> HIDE DEF y
  <2>3. /\ x \in States /\ x.length \in Nat /\ x.cursor \in Nat /\ x.cursor <= x.length
        /\ MAX_BUFFER_LINE \in Nat /\ x.length < MAX_BUFFER_LINE - 2
        /\ x.buf \in [0 .. MAX_BUFFER_LINE - 1 -> Characters] /\ x.column = x.cursor
        /\ DOMAIN x.buf = 0 .. MAX_BUFFER_LINE - 1
    BY <1>2, Room DEF Good, Fits, States
  <2>4. Inserted(x, c) \in [0 .. MAX_BUFFER_LINE - 1 -> Characters]
    <3>1. ASSUME NEW i \in 0 .. MAX_BUFFER_LINE - 1 PROVE Inserted(x, c)[i] \in Characters
      <4>1. c \in Characters
        BY DEF Characters
      <4>2. i \in x.cursor + 1 .. x.length => i - 1 \in 0 .. MAX_BUFFER_LINE - 1
        BY <2>3
      <4> QED  BY <4>1, <4>2, <2>3 DEF Inserted
    <3>2. Inserted(x, c) = [i \in 0 .. MAX_BUFFER_LINE - 1 |-> Inserted(x, c)[i]]
      BY <2>3 DEF Inserted
    <3> HIDE DEF Inserted
    <3> QED  BY <3>1, <3>2
  <2>5. /\ y \in States /\ y.buf = Inserted(x, c) /\ y.cursor = x.cursor + 1
        /\ y.length = x.length + 1 /\ y.shown = x.shown /\ y.column = x.column
    <3> DEFINE b == Inserted(x, c)
               k == x.cursor + 1
               l == x.length + 1
    <3>1. b \in [0 .. MAX_BUFFER_LINE - 1 -> Characters] /\ k \in Nat /\ l \in Nat
      BY <2>3, <2>4
    <3>2. y = [x EXCEPT !.buf = b, !.cursor = k, !.length = l]
      BY <2>2
    <3> HIDE DEF b, k, l
    <3>3. /\ y \in States /\ y.buf = b /\ y.cursor = k /\ y.length = l
          /\ y.shown = x.shown /\ y.column = x.column
      BY <2>3, <3>1, <3>2 DEF States
    <3> QED  BY <3>3 DEF b, k, l
  <2>6. \A i \in 0 .. y.length - 1 : y.buf[i] \in Printable
    <3> SUFFICES ASSUME NEW i \in 0 .. y.length - 1 PROVE y.buf[i] \in Printable
      OBVIOUS
    <3>1. i \in DOMAIN x.buf /\ i \in Int
      BY <2>3, <2>5
    <3>2. \A l \in 0 .. x.length - 1 : x.buf[l] \in Printable
      BY DEF Good, Fits
    <3>3. CASE i = x.cursor
      BY <3>1, <3>3, <2>5 DEF Inserted
    <3>4. CASE i < x.cursor
      BY <3>1, <3>2, <3>4, <2>3, <2>5 DEF Inserted
    <3>5. CASE i > x.cursor
      <4>1. i - 1 \in 0 .. x.length - 1 /\ i \in x.cursor + 1 .. x.length /\ i # x.cursor
        BY <3>1, <3>5, <2>3, <2>5
      <4> QED  BY <4>1, <3>1, <3>2, <2>5 DEF Inserted
    <3> QED  BY <3>1, <3>3, <3>4, <3>5, <2>3
  <2>7. Fits(y)
    BY <2>3, <2>5, <2>6 DEF Fits
  <2>8. n \in Nat /\ y.cursor - 1 = x.cursor /\ y.length - y.cursor + 1 = n + 1
        /\ n = x.length - x.cursor
    BY <2>3, <2>5
  <2> HIDE DEF n
  <2>9. /\ p \in Seq(Printable) /\ Len(p) = n + 1
        /\ \A i \in 1 .. n + 1 : p[i] = y.buf[x.cursor + i - 1]
    <3> DEFINE l == n + 1
    <3>1. l \in Nat /\ y.length = x.cursor + l
      BY <2>3, <2>5, <2>8
    <3>2. p = Piece(y.buf, x.cursor, l)
      BY <2>8
    <3> HIDE DEF l, p
    <3>3. x.cursor .. x.cursor + l - 1 \subseteq 0 .. y.length - 1
      BY <3>1, <2>3
    <3>4. \A i \in x.cursor .. x.cursor + l - 1 : y.buf[i] \in Printable
      BY <3>3, <2>6
    <3>5. /\ p \in Seq(Printable) /\ Len(p) = l
          /\ \A i \in 1 .. l : p[i] = y.buf[x.cursor + i - 1]
      BY <3>1, <3>2, <3>4, <2>3, PieceFacts, ZenonT(60)
    <3> QED  BY <3>5 DEF l
  <2> HIDE DEF p
  <2> DEFINE a == x.cursor
             m == x.length
  <2>13. /\ a \in Nat /\ m \in Nat /\ a <= m /\ m < MAX_BUFFER_LINE - 2
         /\ MAX_BUFFER_LINE \in Nat
         /\ n = m - a /\ n \in Nat /\ Len(p) = n + 1
         /\ y.cursor = a + 1 /\ y.length = m + 1 /\ y.column = a
    BY <2>3, <2>5, <2>8, <2>9
  <2> HIDE DEF a, m
  <2>10. ASSUME NEW j \in 1 .. MAX_BUFFER_LINE
         PROVE  Cell(y, j) = IF j - y.column \in 1 .. Len(p) THEN p[j - y.column] ELSE y.shown[j]
    <3>1. x.shown[j] = IF j <= x.length THEN x.buf[j - 1] ELSE " "
      BY DEF Good, Cell
    <3>2. CASE j - y.column \in 1 .. Len(p)
      <4>1. p[j - y.column] = y.buf[j - 1] /\ j <= y.length
        <5>1. x.cursor + (j - y.column) - 1 = j - 1 /\ j - y.column \in 1 .. n + 1
          BY <3>2, <2>3, <2>5, <2>8, <2>9
        <5>2. p[j - y.column] = y.buf[x.cursor + (j - y.column) - 1]
          BY <5>1, <2>9
        <5>3. x.cursor = a
          BY DEF a
        <5>4. y.column = a /\ j \in Nat
          BY <2>13
        <5>5. a + (j - y.column) - 1 = j - 1 /\ j <= y.length
          BY <5>1, <2>13
        <5> QED  BY <5>2, <5>3, <5>5
      <4> QED  BY <4>1, <3>2 DEF Cell
    <3>3. CASE j <= x.cursor
      <4>1. j - 1 \in DOMAIN x.buf /\ j - 1 < x.cursor /\ j <= x.length /\ j <= y.length
        BY <3>3, <2>3, <2>5
      <4>2. y.buf[j - 1] = x.buf[j - 1]
        BY <4>1, <2>3, <2>5 DEF Inserted
      <4>3. j - y.column \notin 1 .. Len(p)
        BY <3>3, <2>3, <2>5
      <4> QED  BY <4>1, <4>2, <4>3, <3>1, <2>5 DEF Cell
    <3>4. CASE j > y.length
      <4>1. ~(j <= x.length) /\ ~(j <= y.length) /\ j - y.column \notin 1 .. Len(p)
        BY <3>4, <2>3, <2>5, <2>8, <2>9, SMTT(60)
      <4> QED  BY <4>1, <3>1, <2>5 DEF Cell
    <3>5. x.cursor = a
      BY DEF a
    <3>6. j - y.column \in 1 .. Len(p) \/ j <= a \/ j > y.length
      BY <2>13
    <3> QED  BY <3>2, <3>3, <3>4, <3>5, <3>6
  <2>11. /\ y.column \in Nat /\ y.column + Len(p) <= MAX_BUFFER_LINE
         /\ y.column + Len(p) - n = y.cursor
    BY <2>13
  <2>12. Good(InsertChar(x, c)) /\ SameLine(InsertChar(x, c), y)
    BY <2>1, <2>7, <2>8, <2>9, <2>10, <2>11, Redraw
  <2> QED  BY <2>12, <2>5, <2>3 DEF SameLine
<1> QED  BY <1>1, <1>2

\* The sequence of one character.
LEMMA OneChar == ASSUME NEW A, NEW c \in A
                 PROVE  <<c>> \in Seq(A) /\ Len(<<c>>) = 1 /\ <<c>>[1] = c
OBVIOUS

\* A character behind a sequence.
LEMMA Joined ==
    ASSUME NEW A, NEW s \in Seq(A), NEW c \in A
    PROVE  /\ s \o <<c>> \in Seq(A) /\ Len(s \o <<c>>) = Len(s) + 1
           /\ (s \o <<c>>)[Len(s) + 1] = c
           /\ \A i \in 1 .. Len(s) : (s \o <<c>>)[i] = s[i]
OBVIOUS

\* Deleting pulls what is behind the cursor back by one.
Deleted(x) == [i \in DOMAIN x.buf |-> IF i \in x.cursor .. x.length - 2 THEN x.buf[i + 1]
                                      ELSE x.buf[i]]

\* delete_char keeps the array and the terminal together: the blank it writes covers
\* the last character, and it steps back to where it was.
LEMMA DeleteGood ==
    ASSUME NEW x, Good(x)
    PROVE  /\ Good(DeleteChar(x))
           /\ x.cursor >= x.length => DeleteChar(x) = x
           /\ x.cursor < x.length => /\ DeleteChar(x).length = x.length - 1
                                     /\ DeleteChar(x).cursor = x.cursor
                                     /\ DeleteChar(x).buf = Deleted(x)
<1>1. CASE x.cursor >= x.length
  BY <1>1 DEF DeleteChar, Good, Fits, States
<1>2. CASE ~(x.cursor >= x.length)
  <2> DEFINE y == [x EXCEPT !.buf = [i \in DOMAIN @ |-> IF i \in x.cursor .. x.length - 2
                                                        THEN @[i + 1] ELSE @[i]],
                            !.length = @ - 1]
             q == Piece(y.buf, y.cursor, y.length - y.cursor)
             p == q \o <<" ">>
             n == y.length - y.cursor
             a == x.cursor
             m == x.length
  <2>1. DeleteChar(x) = Write(y, p \o Times(n + 1, BS))
    BY <1>2 DEF DeleteChar
  <2>2. y = [x EXCEPT !.buf = Deleted(x), !.length = x.length - 1]
    BY DEF Deleted, Good, Fits, States
  <2> HIDE DEF y
  <2>3. /\ x \in States /\ x.length \in Nat /\ x.cursor \in Nat /\ x.cursor < x.length
        /\ MAX_BUFFER_LINE \in Nat /\ x.length <= MAX_BUFFER_LINE - 2
        /\ x.buf \in [0 .. MAX_BUFFER_LINE - 1 -> Characters] /\ x.column = x.cursor
        /\ DOMAIN x.buf = 0 .. MAX_BUFFER_LINE - 1
    BY <1>2, Room DEF Good, Fits, States
  <2>4. Deleted(x) \in [0 .. MAX_BUFFER_LINE - 1 -> Characters]
    <3>1. ASSUME NEW i \in 0 .. MAX_BUFFER_LINE - 1 PROVE Deleted(x)[i] \in Characters
      <4>1. i \in x.cursor .. x.length - 2 => i + 1 \in 0 .. MAX_BUFFER_LINE - 1
        BY <2>3
      <4> QED  BY <4>1, <2>3 DEF Deleted
    <3>2. Deleted(x) = [i \in 0 .. MAX_BUFFER_LINE - 1 |-> Deleted(x)[i]]
      BY <2>3 DEF Deleted
    <3> HIDE DEF Deleted
    <3> QED  BY <3>1, <3>2
  <2>5. /\ y \in States /\ y.buf = Deleted(x) /\ y.cursor = x.cursor
        /\ y.length = x.length - 1 /\ y.shown = x.shown /\ y.column = x.column
    <3> DEFINE b == Deleted(x)
               l == x.length - 1
    <3>1. b \in [0 .. MAX_BUFFER_LINE - 1 -> Characters] /\ l \in Nat
      BY <2>3, <2>4
    <3>2. y = [x EXCEPT !.buf = b, !.length = l]
      BY <2>2
    <3> HIDE DEF b, l
    <3>3. /\ y \in States /\ y.buf = b /\ y.cursor = x.cursor /\ y.length = l
          /\ y.shown = x.shown /\ y.column = x.column
      BY <2>3, <3>1, <3>2 DEF States
    <3> QED  BY <3>3 DEF b, l
  <2>6. /\ a \in Nat /\ m \in Nat /\ a < m /\ m <= MAX_BUFFER_LINE - 2
        /\ MAX_BUFFER_LINE \in Nat
        /\ n = m - 1 - a /\ n \in Nat
        /\ y.cursor = a /\ y.length = m - 1 /\ y.column = a
    BY <2>3, <2>5
  <2>7. \A i \in 0 .. m - 2 : y.buf[i] \in Printable
    <3> SUFFICES ASSUME NEW i \in 0 .. m - 2 PROVE y.buf[i] \in Printable
      OBVIOUS
    <3>1. i \in DOMAIN x.buf /\ i \in 0 .. m - 1 /\ i + 1 \in 0 .. m - 1
      BY <2>3, <2>6
    <3>2. \A l \in 0 .. x.length - 1 : x.buf[l] \in Printable
      BY DEF Good, Fits
    <3>3. x.buf[i] \in Printable /\ x.buf[i + 1] \in Printable
      BY <3>1, <3>2
    <3> QED  BY <3>1, <3>3, <2>5 DEF Deleted
  <2>8. Fits(y)
    <3>1. 0 .. y.length - 1 = 0 .. m - 2 /\ y.length <= MAX_BUFFER_LINE - 2 /\ y.cursor <= y.length
      BY <2>6
    <3> QED  BY <3>1, <2>5, <2>7 DEF Fits
  <2>9. /\ q \in Seq(Printable) /\ Len(q) = n
        /\ \A i \in 1 .. n : q[i] = y.buf[a + i - 1]
    <3> HIDE DEF a, m, n
    <3>1. a .. a + n - 1 \subseteq 0 .. m - 2
      BY <2>6
    <3>2. \A i \in a .. a + n - 1 : y.buf[i] \in Printable
      BY <3>1, <2>7
    <3>3. q = Piece(y.buf, a, n)
      BY <2>6 DEF n
    <3> HIDE DEF q
    <3> QED  BY <3>2, <3>3, <2>6, PieceFacts, ZenonT(60)
  <2> HIDE DEF a, m, n, q
  <2>10. /\ p \in Seq(Printable) /\ Len(p) = n + 1 /\ p[n + 1] = " "
         /\ \A i \in 1 .. n : p[i] = y.buf[a + i - 1]
    <3>1. " " \in Printable
      BY EditorAssumption
    <3>2. q \in Seq(Printable) /\ Len(q) = n
      BY <2>9
    <3>3. /\ p \in Seq(Printable) /\ Len(p) = Len(q) + 1 /\ p[Len(q) + 1] = " "
          /\ \A i \in 1 .. Len(q) : p[i] = q[i]
      <4>1. PICK c \in Printable : c = " "
        BY <3>1
      <4>2. p = q \o <<c>>
        BY <4>1
      <4> HIDE DEF p
      <4>3. /\ p \in Seq(Printable) /\ Len(p) = Len(q) + 1 /\ p[Len(q) + 1] = c
            /\ \A i \in 1 .. Len(q) : p[i] = q[i]
        BY <3>2, <4>2, Joined
      <4> QED  BY <4>1, <4>3
    <3> HIDE DEF p
    <3> QED  BY <3>2, <3>3, <2>9
  <2> HIDE DEF p
  <2> DEFINE k == Len(p)
  <2>14. k = n + 1 /\ n \in Nat /\ k \in Nat
    <3>1. n \in Nat
      BY <2>6
    <3>2. k = n + 1
      BY <2>10
    <3> QED  BY <3>1, <3>2
  <2> HIDE DEF k
  <2>11. ASSUME NEW j \in 1 .. MAX_BUFFER_LINE
         PROVE  Cell(y, j) = IF j - y.column \in 1 .. k THEN p[j - y.column] ELSE y.shown[j]
    <3>1. x.shown[j] = IF j <= m THEN x.buf[j - 1] ELSE " "
      BY DEF Good, Cell, m
    <3>2. CASE j - a \in 1 .. n
      <4>1. p[j - a] = y.buf[a + (j - a) - 1] /\ a + (j - a) - 1 = j - 1
        <5>1. a + (j - a) - 1 = j - 1
          BY <2>6
        <5> QED  BY <3>2, <5>1, <2>10
      <4>2. j <= y.length /\ j - y.column \in 1 .. k /\ y.column = a
        BY <3>2, <2>6, <2>14
      <4> QED  BY <4>1, <4>2 DEF Cell
    <3>3. CASE j - a = n + 1
      <4>1. ~(j <= y.length) /\ j - y.column \in 1 .. k /\ j - y.column = n + 1
        BY <3>3, <2>6, <2>14
      <4> QED  BY <4>1, <2>10 DEF Cell
    <3>4. CASE j <= a
      <4>1. j <= m /\ j <= y.length /\ j - y.column \notin 1 .. k
        BY <3>4, <2>6
      <4>2. j - 1 \in DOMAIN x.buf /\ j - 1 \notin x.cursor .. x.length - 2
        BY <3>4, <2>6, <2>3 DEF a, m
      <4>3. y.buf[j - 1] = x.buf[j - 1]
        BY <4>2, <2>5 DEF Deleted
      <4> QED  BY <4>1, <4>3, <3>1, <2>5 DEF Cell
    <3>5. CASE j > m
      <4>1. ~(j <= m) /\ ~(j <= y.length) /\ j - y.column \notin 1 .. k
        BY <3>5, <2>6, <2>14
      <4> QED  BY <4>1, <3>1, <2>5 DEF Cell
    <3>6. j - a \in 1 .. n \/ j - a = n + 1 \/ j <= a \/ j > m
      BY <2>6
    <3> QED  BY <3>2, <3>3, <3>4, <3>5, <3>6
  <2>12. /\ y.column \in Nat /\ y.column + k <= MAX_BUFFER_LINE /\ n + 1 \in Nat
         /\ y.column + k - (n + 1) = y.cursor
    BY <2>6, <2>14
  <2>13. Good(DeleteChar(x)) /\ SameLine(DeleteChar(x), y)
    BY <2>1, <2>8, <2>10, <2>11, <2>12, Redraw DEF k
  <2> QED  BY <2>13, <2>5, <2>3 DEF SameLine
<1> QED  BY <1>1, <1>2

\* Nothing is drawn but steps back.
LEMMA StepsBack ==
    ASSUME NEW y, Fits(y), NEW n \in Nat, y.column \in Nat, y.column - n = y.cursor,
           y.column <= MAX_BUFFER_LINE,
           \A j \in 1 .. MAX_BUFFER_LINE : Cell(y, j) = y.shown[j]
    PROVE  Good(Write(y, Times(n, BS))) /\ SameLine(Write(y, Times(n, BS)), y)
<1> DEFINE p == <<>>
<1>1. p \in Seq(Printable) /\ Len(p) = 0
  OBVIOUS
<1>2. p \o Times(n, BS) = Times(n, BS)
  <2>1. BS \in Characters
    BY DEF Characters
  <2>2. Times(n, BS) \in Seq(Characters)
    BY <2>1, TimesType
  <2> QED  BY <2>2
<1>3. y.column + Len(p) <= MAX_BUFFER_LINE /\ y.column + Len(p) - n = y.cursor
  BY <1>1
<1>4. \A j \in 1 .. MAX_BUFFER_LINE :
         Cell(y, j) = IF j - y.column \in 1 .. Len(p) THEN p[j - y.column] ELSE y.shown[j]
  BY <1>1
<1> HIDE DEF p
<1>5. Good(Write(y, p \o Times(n, BS))) /\ SameLine(Write(y, p \o Times(n, BS)), y)
  BY <1>1, <1>3, <1>4, Redraw
<1> QED  BY <1>2, <1>5

\* A line that differs in where its cursor is.
LEMMA CursorFields ==
    ASSUME NEW x, Good(x), NEW c \in Nat, c <= x.length
    PROVE  LET y == [x EXCEPT !.cursor = c]
           IN  /\ Fits(y) /\ y.buf = x.buf /\ y.length = x.length /\ y.cursor = c
               /\ y.column = x.cursor /\ y.column \in Nat /\ y.column <= MAX_BUFFER_LINE
               /\ \A j \in 1 .. MAX_BUFFER_LINE : Cell(y, j) = y.shown[j]
<1> DEFINE y == [x EXCEPT !.cursor = c]
<1>1. /\ y \in States /\ y.buf = x.buf /\ y.length = x.length /\ y.cursor = c
      /\ y.column = x.column /\ y.shown = x.shown
  BY DEF Good, Fits, States
<1> HIDE DEF y
<1>2. x.column = x.cursor /\ x.cursor \in Nat /\ x.length \in Nat /\ x.cursor <= x.length
      /\ x.length <= MAX_BUFFER_LINE - 2 /\ MAX_BUFFER_LINE \in Nat
  BY Room DEF Good, Fits, States
<1>3. Fits(y)
  BY <1>1, <1>2 DEF Fits, Good
<1>4. \A j \in 1 .. MAX_BUFFER_LINE : Cell(y, j) = y.shown[j]
  BY <1>1 DEF Good, Cell
<1>5. y.column = x.cursor /\ y.column \in Nat /\ y.column <= MAX_BUFFER_LINE
  BY <1>1, <1>2
<1> QED  BY <1>1, <1>3, <1>4, <1>5 DEF y

\* The left arrow.
LEMMA LeftGood ==
    ASSUME NEW x, Good(x), x.cursor # 0
    PROVE  /\ Good(MoveLeft(x)) /\ MoveLeft(x).buf = x.buf
           /\ MoveLeft(x).length = x.length /\ MoveLeft(x).cursor = x.cursor - 1
<1> DEFINE c == x.cursor - 1
           y == [x EXCEPT !.cursor = c]
<1>1. c \in Nat /\ c <= x.length /\ x.cursor - 1 = c
  BY DEF Good, Fits, States
<1>2. MoveLeft(x) = Write(y, Times(1, BS))
  <2>1. <<BS>> = Times(1, BS)
    BY DEF Times
  <2> QED  BY <2>1 DEF MoveLeft, Good, Fits, States
<1> HIDE DEF c
<1>3. /\ Fits(y) /\ y.buf = x.buf /\ y.length = x.length /\ y.cursor = c
      /\ y.column = x.cursor /\ y.column \in Nat /\ y.column <= MAX_BUFFER_LINE
      /\ \A j \in 1 .. MAX_BUFFER_LINE : Cell(y, j) = y.shown[j]
  BY <1>1, CursorFields
<1> HIDE DEF y
<1>4. Good(Write(y, Times(1, BS))) /\ SameLine(Write(y, Times(1, BS)), y)
  BY <1>1, <1>3, StepsBack
<1> QED  BY <1>1, <1>2, <1>3, <1>4 DEF SameLine

\* ctrl-A.
LEMMA HomeGood ==
    ASSUME NEW x, Good(x)
    PROVE  /\ Good(MoveHome(x)) /\ MoveHome(x).buf = x.buf
           /\ MoveHome(x).length = x.length /\ MoveHome(x).cursor = 0
<1> DEFINE c == 0
           y == [x EXCEPT !.cursor = c]
<1>1. c \in Nat /\ c <= x.length /\ x.cursor - x.cursor = c /\ c = 0
  BY DEF Good, Fits, States
<1>5. x.cursor \in Nat /\ x.length \in Nat /\ 0 <= x.length /\ x.cursor - x.cursor = 0
  BY DEF Good, Fits, States
<1>2. /\ Fits(y) /\ y.buf = x.buf /\ y.length = x.length /\ y.cursor = c
      /\ y.column = x.cursor /\ y.column \in Nat /\ y.column <= MAX_BUFFER_LINE
      /\ \A j \in 1 .. MAX_BUFFER_LINE : Cell(y, j) = y.shown[j]
  <2> HIDE DEF c
  <2> QED  BY <1>1, CursorFields
<1>3. MoveHome(x) = Write(y, Times(x.cursor, BS))
  BY DEF MoveHome
<1> HIDE DEF y
<1>4. Good(MoveHome(x)) /\ SameLine(MoveHome(x), y)
  BY <1>1, <1>2, <1>3, <1>5, StepsBack
<1> QED  BY <1>2, <1>4 DEF SameLine

\* What is passed over is written again.
LEMMA ForwardGood ==
    ASSUME NEW x, Good(x), NEW c \in Nat, x.cursor <= c, c <= x.length
    PROVE  LET y == [x EXCEPT !.cursor = c]
               z == Write(y, Piece(x.buf, x.cursor, c - x.cursor))
           IN  Good(z) /\ z.buf = x.buf /\ z.length = x.length /\ z.cursor = c
<1> DEFINE y == [x EXCEPT !.cursor = c]
           a == x.cursor
           n == c - x.cursor
           p == Piece(x.buf, x.cursor, c - x.cursor)
<1>1. /\ Fits(y) /\ y.buf = x.buf /\ y.length = x.length /\ y.cursor = c
      /\ y.column = a /\ y.column \in Nat /\ y.column <= MAX_BUFFER_LINE
      /\ \A j \in 1 .. MAX_BUFFER_LINE : Cell(y, j) = y.shown[j]
  BY CursorFields
<1>2. /\ a \in Nat /\ n \in Nat /\ a + n = c /\ x.length \in Nat /\ c <= x.length
      /\ x.length <= MAX_BUFFER_LINE - 2 /\ MAX_BUFFER_LINE \in Nat
  BY Room DEF Good, Fits, States
<1>3. p = Piece(x.buf, a, n)
  OBVIOUS
<1> HIDE DEF a, n, p, y
<1>4. \A i \in a .. a + n - 1 : x.buf[i] \in Printable
  <2>1. a .. a + n - 1 \subseteq 0 .. x.length - 1
    BY <1>2
  <2> QED  BY <2>1 DEF Good, Fits
<1>5. /\ p \in Seq(Printable) /\ Len(p) = n /\ \A i \in 1 .. n : p[i] = x.buf[a + i - 1]
  BY <1>2, <1>3, <1>4, PieceFacts, ZenonT(60)
<1>6. p \o Times(0, BS) = p
  <2>1. BS \in Characters /\ p \in Seq(Characters)
    BY <1>5 DEF Characters
  <2>2. Times(0, BS) \in Seq(Characters) /\ Len(Times(0, BS)) = 0
    BY <2>1, TimesType
  <2> QED  BY <2>1, <2>2
<1>7. ASSUME NEW j \in 1 .. MAX_BUFFER_LINE
      PROVE  Cell(y, j) = IF j - y.column \in 1 .. Len(p) THEN p[j - y.column] ELSE y.shown[j]
  <2>1. CASE j - a \in 1 .. n
    <3>1. p[j - a] = x.buf[a + (j - a) - 1] /\ a + (j - a) - 1 = j - 1
      BY <2>1, <1>2, <1>5
    <3>2. j <= x.length /\ j - y.column \in 1 .. Len(p) /\ y.column = a
      BY <2>1, <1>1, <1>2, <1>5
    <3> QED  BY <3>1, <3>2, <1>1 DEF Cell
  <2>2. CASE j - a \notin 1 .. n
    BY <2>2, <1>1, <1>5
  <2> QED  BY <2>1, <2>2
<1>8. y.column + Len(p) <= MAX_BUFFER_LINE /\ y.column + Len(p) - 0 = y.cursor
  BY <1>1, <1>2, <1>5
<1>9. Good(Write(y, p \o Times(0, BS))) /\ SameLine(Write(y, p \o Times(0, BS)), y)
  BY <1>1, <1>5, <1>7, <1>8, Redraw
<1>10. Good(Write(y, p)) /\ SameLine(Write(y, p), y)
  BY <1>6, <1>9
<1> QED  BY <1>1, <1>10 DEF SameLine, y, p

\* The right arrow.
LEMMA RightGood ==
    ASSUME NEW x, Good(x)
    PROVE  /\ Good(MoveRight(x)) /\ MoveRight(x).buf = x.buf
           /\ MoveRight(x).length = x.length
           /\ MoveRight(x).cursor = IF x.cursor >= x.length THEN x.cursor ELSE x.cursor + 1
<1>1. CASE x.cursor >= x.length
  BY <1>1 DEF MoveRight
<1>2. CASE ~(x.cursor >= x.length)
  <2> DEFINE c == x.cursor + 1
  <2>1. /\ x.cursor \in Nat /\ x.length \in Nat /\ c \in Nat /\ x.cursor <= c /\ c <= x.length
        /\ c - x.cursor = 1 /\ x.cursor + 1 - 1 = x.cursor
    BY <1>2 DEF Good, Fits, States
  <2>2. Piece(x.buf, x.cursor, 1) = <<x.buf[x.cursor]>>
    <3>1. [k \in 1 .. 1 |-> x.buf[x.cursor + k - 1]] = <<x.buf[x.cursor + 1 - 1]>>
      OBVIOUS
    <3> QED  BY <3>1, <2>1 DEF Piece
  <2>3. MoveRight(x) = Write([x EXCEPT !.cursor = c], Piece(x.buf, x.cursor, c - x.cursor))
    BY <1>2, <2>1, <2>2 DEF MoveRight, Good, Fits, States
  <2> HIDE DEF c
  <2>4. /\ Good(MoveRight(x)) /\ MoveRight(x).buf = x.buf
        /\ MoveRight(x).length = x.length /\ MoveRight(x).cursor = c
    BY <2>1, <2>3, ForwardGood
  <2> QED  BY <2>4, <1>2 DEF c
<1> QED  BY <1>1, <1>2

\* ctrl-E.
LEMMA EndGood ==
    ASSUME NEW x, Good(x)
    PROVE  /\ Good(MoveEnd(x)) /\ MoveEnd(x).buf = x.buf
           /\ MoveEnd(x).length = x.length /\ MoveEnd(x).cursor = x.length
<1>1. x.cursor <= x.length /\ x.length <= x.length /\ x.length \in Nat
  BY DEF Good, Fits, States
<1>2. MoveEnd(x) = Write([x EXCEPT !.cursor = x.length],
                         Piece(x.buf, x.cursor, x.length - x.cursor))
  BY DEF MoveEnd
<1> QED  BY <1>1, <1>2, ForwardGood

\* backspace_char is move_left and delete_char.
LEMMA BackspaceGood ==
    ASSUME NEW x, Good(x)
    PROVE  /\ Good(BackspaceChar(x))
           /\ x.cursor = 0 => BackspaceChar(x) = x
           /\ x.cursor # 0 => /\ BackspaceChar(x).length = x.length - 1
                              /\ BackspaceChar(x).cursor = x.cursor - 1
                              /\ BackspaceChar(x).buf = Deleted(MoveLeft(x))
<1>1. CASE x.cursor = 0
  BY <1>1 DEF BackspaceChar
<1>2. CASE x.cursor # 0
  <2> DEFINE y == MoveLeft(x)
  <2>1. BackspaceChar(x) = DeleteChar(y)
    BY <1>2 DEF BackspaceChar
  <2>2. /\ Good(y) /\ y.buf = x.buf /\ y.length = x.length /\ y.cursor = x.cursor - 1
    BY <1>2, LeftGood
  <2> HIDE DEF y
  <2>3. x.cursor \in Nat /\ x.length \in Nat /\ x.cursor <= x.length
    BY DEF Good, Fits, States
  <2>4. y.cursor < y.length
    BY <2>2, <2>3
  <2>5. /\ Good(DeleteChar(y)) /\ DeleteChar(y).length = y.length - 1
        /\ DeleteChar(y).cursor = y.cursor /\ DeleteChar(y).buf = Deleted(y)
    BY <2>2, <2>4, DeleteGood
  <2> QED  BY <2>1, <2>2, <2>5, <1>2 DEF y
<1> QED  BY <1>1, <1>2

\* The line is blanked out on the terminal and empty.
LEMMA ClearGood ==
    ASSUME NEW x, Good(x)
    PROVE  /\ Good(ClearLine(x)) /\ ClearLine(x).buf = x.buf
           /\ ClearLine(x).length = 0 /\ ClearLine(x).cursor = 0
<1> DEFINE y == MoveHome(x)
           n == x.length
           p == Times(n, " ")
           z == Write(y, p \o Times(n, BS))
           m == n + n
<1>1. ClearLine(x) = [z EXCEPT !.length = 0]
  BY DEF ClearLine
<1>2. Good(y) /\ y.buf = x.buf /\ y.length = n /\ y.cursor = 0
  BY HomeGood
<1> HIDE DEF y, z
<1>3. /\ n \in Nat /\ m \in Nat /\ n <= MAX_BUFFER_LINE - 2 /\ MAX_BUFFER_LINE \in Nat
      /\ m - n = n
  BY Room DEF Good, Fits, States
<1> HIDE DEF n, m
<1>4. p \in Seq(Printable) /\ Len(p) = n /\ \A i \in 1 .. n : p[i] = " "
  <2>1. PICK c \in Printable : c = " "
    BY EditorAssumption
  <2>2. p = Times(n, c)
    BY <2>1
  <2> HIDE DEF p
  <2>3. p \in Seq(Printable) /\ Len(p) = n /\ \A i \in 1 .. n : p[i] = c
    BY <2>2, <1>3, TimesType
  <2> QED  BY <2>1, <2>3
<1>5. y \in States /\ y.column = 0 /\ y.cursor = 0
  BY <1>2 DEF Good, Fits
<1> HIDE DEF p
<1>6. z = After(y, p, m)
  <2>1. y.column \in Nat /\ y.column + Len(p) <= MAX_BUFFER_LINE /\ m = Len(p) + n
    <3>1. Len(p) = n
      BY <1>4
    <3>2. m = n + n
      BY DEF m
    <3> QED  BY <3>1, <3>2, <1>3, <1>5
  <2>2. Write(y, p \o Times(n, BS)) = After(y, p, Len(p) + n)
    BY <2>1, <1>3, <1>4, <1>5, WriteText
  <2> QED  BY <2>1, <2>2 DEF z
<1>7. /\ z \in States /\ z.buf = y.buf /\ z.length = y.length /\ z.cursor = y.cursor
      /\ z.shown = Shown(y, p, m)
      /\ z.column = IF m <= Len(p) THEN y.column + m ELSE y.column + 2 * Len(p) - m
  BY <1>3, <1>4, <1>5, <1>6, AfterFields
<1>8. z.column = 0
  <2>1. Len(p) = n
    BY <1>4
  <2>2. m = n + n /\ n \in Nat
    BY <1>3 DEF m
  <2>3. z.column = IF m <= n THEN 0 + m ELSE 0 + 2 * n - m
    BY <2>1, <1>5, <1>7
  <2> QED  BY <2>2, <2>3
<1>9. ASSUME NEW j \in 1 .. MAX_BUFFER_LINE PROVE z.shown[j] = " "
  <2>1. y.shown[j] = IF j <= n THEN y.buf[j - 1] ELSE " "
    BY <1>2 DEF Good, Cell
  <2>2. Shown(y, p, m)[j] = IF j - 0 \in 1 .. n /\ j - 0 <= m THEN p[j - 0] ELSE y.shown[j]
    BY <1>4, <1>5 DEF Shown
  <2>3. CASE j <= n
    <3>1. j - 0 \in 1 .. n /\ j - 0 <= m /\ j - 0 = j
      BY <2>3, <1>3 DEF m
    <3> QED  BY <3>1, <2>2, <1>4, <1>7
  <2>4. CASE ~(j <= n)
    <3>1. j - 0 \notin 1 .. n
      BY <2>4, <1>3
    <3> QED  BY <3>1, <2>1, <2>2, <2>4, <1>7
  <2> QED  BY <2>3, <2>4
<1> DEFINE v == [z EXCEPT !.length = 0]
<1>10. /\ v \in States /\ v.buf = z.buf /\ v.length = 0 /\ v.cursor = 0
       /\ v.shown = z.shown /\ v.column = 0
  BY <1>5, <1>7, <1>8 DEF States
<1> HIDE DEF v
<1>11. Fits(v)
  BY <1>10, <1>3 DEF Fits
<1>12. \A j \in 1 .. MAX_BUFFER_LINE : v.shown[j] = Cell(v, j)
  <2> SUFFICES ASSUME NEW j \in 1 .. MAX_BUFFER_LINE PROVE v.shown[j] = Cell(v, j)
    OBVIOUS
  <2>1. ~(j <= 0)
    OBVIOUS
  <2>2. z.shown[j] = " "
    BY <1>9
  <2> QED  BY <2>1, <2>2, <1>10 DEF Cell
<1> QED  BY <1>1, <1>2, <1>7, <1>10, <1>11, <1>12 DEF Good, v

\* Lines that the array has room for.
Lines == {s \in Seq(Printable) : Len(s) <= MAX_BUFFER_LINE - 2}

\* A line of the history replaces the one on the screen, whatever both lengths are.
LEMMA LoadGood ==
    ASSUME NEW x, Good(x), NEW s \in Lines
    PROVE  /\ Good(Load(x, s)) /\ Load(x, s).length = Len(s) /\ Load(x, s).cursor = Len(s)
           /\ \A i \in 1 .. Len(s) : Load(x, s).buf[i - 1] = s[i]
<1> DEFINE w == ClearLine(x)
           b == Copied(w.buf, s)
           n == Len(s)
           y == [w EXCEPT !.buf = b, !.length = n, !.cursor = n]
<1>1. Load(x, s) = Write(y, s)
  <2>1. Load(x, s) = Write([w EXCEPT !.buf = Copied(@, s), !.length = n, !.cursor = n], s)
    BY DEF Load
  <2>2. w \in States
    BY ClearGood DEF Good, Fits
  <2> HIDE DEF w
  <2>3. [w EXCEPT !.buf = Copied(@, s), !.length = n, !.cursor = n] = y
    BY <2>2 DEF States
  <2> QED  BY <2>1, <2>3
<1>2. Good(w) /\ w.length = 0 /\ w.cursor = 0
  BY ClearGood
<1> HIDE DEF w
<1>3. /\ w \in States /\ w.buf \in [0 .. MAX_BUFFER_LINE - 1 -> Characters] /\ w.column = 0
      /\ DOMAIN w.buf = 0 .. MAX_BUFFER_LINE - 1
  BY <1>2 DEF Good, Fits, States
<1>4. s \in Seq(Printable) /\ n \in Nat /\ n <= MAX_BUFFER_LINE - 2 /\ MAX_BUFFER_LINE \in Nat
  BY Room DEF Lines
<1>5. \A i \in 0 .. n - 1 : b[i] = s[i + 1] /\ s[i + 1] \in Printable
  <2> SUFFICES ASSUME NEW i \in 0 .. n - 1 PROVE b[i] = s[i + 1] /\ s[i + 1] \in Printable
    OBVIOUS
  <2>1. i \in 0 .. MAX_BUFFER_LINE - 1 /\ i < n /\ i + 1 \in 1 .. Len(s)
    BY <1>4
  <2> QED  BY <2>1, <1>3, <1>4 DEF Copied
<1>6. b \in [0 .. MAX_BUFFER_LINE - 1 -> Characters]
  <2>1. ASSUME NEW i \in 0 .. MAX_BUFFER_LINE - 1 PROVE b[i] \in Characters
    <3>1. CASE i < n
      <4>1. i \in 0 .. n - 1
        BY <3>1, <1>4
      <4>2. b[i] \in Printable
        BY <4>1, <1>5
      <4> HIDE DEF b
      <4> QED  BY <4>2 DEF Characters
    <3>2. CASE i = n
      <4>1. b[i] = NUL
        BY <3>2, <1>3, <1>4 DEF Copied
      <4> HIDE DEF b
      <4> QED  BY <4>1 DEF Characters
    <3>3. CASE i > n
      BY <3>3, <1>3, <1>4 DEF Copied
    <3> QED  BY <3>1, <3>2, <3>3, <1>4
  <2>2. b = [i \in 0 .. MAX_BUFFER_LINE - 1 |-> b[i]]
    BY <1>3 DEF Copied
  <2> HIDE DEF b
  <2> QED  BY <2>1, <2>2
<1> HIDE DEF b, n
<1>7. /\ y \in States /\ y.buf = b /\ y.length = n /\ y.cursor = n
      /\ y.shown = w.shown /\ y.column = 0
  BY <1>3, <1>4, <1>6 DEF States
<1> HIDE DEF y
<1>8. Fits(y)
  <2>1. n <= n
    BY <1>4
  <2>2. \A i \in 0 .. n - 1 : b[i] \in Printable
    BY <1>5
  <2> QED  BY <1>4, <1>7, <2>1, <2>2 DEF Fits
<1>9. s \o Times(0, BS) = s
  <2>1. BS \in Characters /\ s \in Seq(Characters)
    BY <1>4 DEF Characters
  <2>2. Times(0, BS) \in Seq(Characters) /\ Len(Times(0, BS)) = 0
    BY <2>1, TimesType
  <2> QED  BY <2>1, <2>2
<1>10. ASSUME NEW j \in 1 .. MAX_BUFFER_LINE
       PROVE  Cell(y, j) = IF j - y.column \in 1 .. Len(s) THEN s[j - y.column] ELSE y.shown[j]
  <2>1. w.shown[j] = " "
    <3>1. ~(j <= w.length)
      BY <1>2
    <3> QED  BY <3>1, <1>2 DEF Good, Cell
  <2>2. Len(s) = n /\ j - y.column = j
    BY <1>7 DEF n
  <2>3. CASE j <= n
    <3>1. j - 1 \in 0 .. n - 1 /\ (j - 1) + 1 = j /\ j \in 1 .. n
      BY <2>3, <1>4
    <3>2. b[j - 1] = s[j]
      BY <3>1, <1>5
    <3> QED  BY <2>2, <2>3, <3>1, <3>2, <1>7 DEF Cell
  <2>4. CASE ~(j <= n)
    <3>1. j \notin 1 .. n
      BY <2>4, <1>4
    <3> QED  BY <2>1, <2>2, <2>4, <3>1, <1>7 DEF Cell
  <2> QED  BY <2>3, <2>4
<1>11. /\ y.column \in Nat /\ y.column + Len(s) <= MAX_BUFFER_LINE
       /\ y.column + Len(s) - 0 = y.cursor
  BY <1>4, <1>7 DEF n
<1>12. Good(Write(y, s \o Times(0, BS))) /\ SameLine(Write(y, s \o Times(0, BS)), y)
  BY <1>4, <1>8, <1>10, <1>11, Redraw
<1>13. Good(Load(x, s)) /\ SameLine(Load(x, s), y)
  BY <1>1, <1>9, <1>12
<1>14. \A i \in 1 .. n : i - 1 \in 0 .. n - 1 /\ (i - 1) + 1 = i
  BY <1>4
<1>15. \A i \in 1 .. n : b[i - 1] = s[i]
  BY <1>5, <1>14
<1> QED  BY <1>7, <1>13, <1>15 DEF SameLine, n

\* A newline blanks the terminal's line.
LEMMA NewlineFields ==
    ASSUME NEW x \in States
    PROVE  /\ Put(x, "\n") \in States /\ SameLine(Put(x, "\n"), x)
           /\ Put(x, "\n").shown = Blanks /\ Put(x, "\n").column = 0
<1>1. Put(x, "\n") = [x EXCEPT !.shown = Blanks, !.column = 0]
  BY DEF Put, BS
<1>2. Blanks \in [1 .. MAX_BUFFER_LINE -> Characters]
  <2>1. " " \in Characters
    BY EditorAssumption DEF Characters
  <2> QED  BY <2>1 DEF Blanks
<1> DEFINE z == Put(x, "\n")
<1>3. z = [x EXCEPT !.shown = Blanks, !.column = 0]
  BY <1>1
<1> HIDE DEF z
<1>4. /\ z \in States /\ z.buf = x.buf /\ z.length = x.length /\ z.cursor = x.cursor
      /\ z.shown = Blanks /\ z.column = 0
  <2> DEFINE b == Blanks
             k == 0
  <2>1. b \in [1 .. MAX_BUFFER_LINE -> Characters] /\ k \in Int
    BY <1>2
  <2>2. z = [x EXCEPT !.shown = b, !.column = k]
    BY <1>3
  <2> HIDE DEF b, k
  <2>3. /\ z \in States /\ z.buf = x.buf /\ z.length = x.length /\ z.cursor = x.cursor
        /\ z.shown = b /\ z.column = k
    BY <2>1, <2>2 DEF States
  <2> QED  BY <2>3 DEF b, k
<1> QED  BY <1>4 DEF z, SameLine

\* A text that starts with a newline is written from a blank line.
LEMMA WriteNewline ==
    ASSUME NEW x, NEW s \in Seq(Characters)
    PROVE  Write(x, <<"\n">> \o s) = Write(Put(x, "\n"), s)
<1> DEFINE y == Put(x, "\n")
           t == <<"\n">> \o s
<1>1. PICK h : Run("put", y, s, h) /\ Write(y, s) = h[Len(s)]
  BY WriteRuns
<1> DEFINE g == [i \in 0 .. Len(s) + 1 |-> IF i = 0 THEN x ELSE h[i - 1]]
<1>2. t \in Seq(Characters) /\ Len(t) = Len(s) + 1 /\ t[1] = "\n"
      /\ \A i \in 1 .. Len(s) : t[i + 1] = s[i]
  <2>1. PICK c \in Characters : c = "\n"
    BY DEF Characters
  <2>2. t = <<c>> \o s
    BY <2>1
  <2> HIDE DEF t
  <2>3. t \in Seq(Characters) /\ Len(t) = Len(s) + 1 /\ t[1] = c
        /\ \A i \in 1 .. Len(s) : t[i + 1] = s[i]
    BY <2>2
  <2> QED  BY <2>1, <2>3
<1> HIDE DEF t, y
<1>3. ASSUME NEW i \in 1 .. Len(s) + 1 PROVE g[i] = Step("put", g[i - 1], t[i])
  <2>1. i \in 0 .. Len(s) + 1 /\ i - 1 \in 0 .. Len(s) + 1 /\ Len(s) \in Nat /\ i # 0
    OBVIOUS
  <2>2. CASE i = 1
    <3>1. g[1] = h[0] /\ g[0] = x
      BY <2>1, <2>2
    <3>2. h[0] = y
      BY <1>1 DEF Run
    <3> QED  BY <2>2, <3>1, <3>2, <1>2 DEF Step, y
  <2>3. CASE i # 1
    <3>1. i - 1 \in 1 .. Len(s) /\ (i - 1) + 1 = i
      BY <2>1, <2>3
    <3>2. g[i] = h[i - 1] /\ g[i - 1] = h[(i - 1) - 1]
      BY <2>1, <3>1
    <3>3. h[i - 1] = Step("put", h[(i - 1) - 1], s[i - 1])
      BY <3>1, <1>1 DEF Run
    <3>4. t[i] = s[i - 1]
      BY <3>1, <1>2
    <3> QED  BY <3>2, <3>3, <3>4
  <2> QED  BY <2>2, <2>3
<1>4. g[0] = x /\ g[Len(t)] = h[Len(s)]
  BY <1>2
<1> HIDE DEF g
<1>5. Run("put", x, t, g)
  BY <1>2, <1>3, <1>4 DEF Run
<1>6. Write(x, t) = g[Len(t)]
  BY <1>2, <1>5, WriteIs
<1> QED  BY <1>1, <1>4, <1>6 DEF t, y

\* The whole line, written again below.
LEMMA AgainGood ==
    ASSUME NEW x, Good(x)
    PROVE  LET z == Write(x, <<"\n">> \o Piece(x.buf, 0, x.length) \o Times(x.length - x.cursor, BS))
           IN  Good(z) /\ SameLine(z, x)
<1> DEFINE p == Piece(x.buf, 0, x.length)
           n == x.length - x.cursor
           y == Put(x, "\n")
           l == x.length
<1>1. l \in Nat /\ x.cursor \in Nat /\ n \in Nat /\ 0 + l - n = x.cursor
      /\ l <= MAX_BUFFER_LINE - 2 /\ MAX_BUFFER_LINE \in Nat /\ x \in States
  BY Room DEF Good, Fits, States
<1>2. /\ y \in States /\ SameLine(y, x) /\ y.shown = Blanks /\ y.column = 0
  BY <1>1, NewlineFields
<1> HIDE DEF y, n
<1>3. /\ p \in Seq(Printable) /\ Len(p) = l /\ \A i \in 1 .. l : p[i] = x.buf[i - 1]
  <2> DEFINE o == 0
  <2> HIDE DEF l
  <2>1. o \in Nat /\ o .. o + l - 1 = 0 .. l - 1
    BY <1>1
  <2>2. \A i \in o .. o + l - 1 : x.buf[i] \in Printable
    BY <2>1 DEF Good, Fits, l
  <2>3. p = Piece(x.buf, o, l)
    BY DEF l
  <2>4. \A i \in 1 .. l : o + i - 1 = i - 1
    BY <1>1
  <2> HIDE DEF p, o
  <2>5. /\ p \in Seq(Printable) /\ Len(p) = l /\ \A i \in 1 .. l : p[i] = x.buf[o + i - 1]
    <3>1. o \in Nat /\ l \in Nat
      BY <1>1, <2>1
    <3> QED  BY <3>1, <2>2, <2>3, PieceFacts
  <2> QED  BY <2>4, <2>5
<1> HIDE DEF p
<1>4. Times(n, BS) \in Seq(Characters) /\ p \in Seq(Characters)
  <2>1. BS \in Characters /\ p \in Seq(Characters)
    BY <1>3 DEF Characters
  <2> QED  BY <1>1, <2>1, TimesType
<1>5. Write(x, <<"\n">> \o p \o Times(n, BS)) = Write(y, p \o Times(n, BS))
  <2> DEFINE t == Times(n, BS)
  <2>1. PICK c \in Characters : c = "\n"
    BY DEF Characters
  <2>2. t \in Seq(Characters) /\ <<c>> \in Seq(Characters) /\ p \o t \in Seq(Characters)
    BY <1>4
  <2> HIDE DEF t
  <2>3. <<c>> \o p \o t = <<c>> \o (p \o t)
    BY <2>2, <1>4, ConcatAssociative
  <2>4. Write(x, <<"\n">> \o (p \o t)) = Write(y, p \o t)
    BY <2>2, WriteNewline DEF y
  <2> QED  BY <2>1, <2>3, <2>4 DEF t
<1>6. Fits(y)
  BY <1>2, <1>1 DEF Fits, SameLine, Good
<1>7. ASSUME NEW j \in 1 .. MAX_BUFFER_LINE
      PROVE  Cell(y, j) = IF j - y.column \in 1 .. Len(p) THEN p[j - y.column] ELSE y.shown[j]
  <2>1. y.length = l /\ y.buf = x.buf /\ j - y.column = j /\ Len(p) = l
    BY <1>2, <1>3 DEF SameLine, l
  <2>2. CASE j <= l
    <3>1. j \in 1 .. l
      BY <2>2, <1>1
    <3>2. p[j] = x.buf[j - 1]
      BY <3>1, <1>3
    <3> QED  BY <2>1, <2>2, <3>1, <3>2 DEF Cell
  <2>3. CASE ~(j <= l)
    <3>1. j \notin 1 .. l
      BY <2>3, <1>1
    <3>2. y.shown[j] = " "
      BY <1>2 DEF Blanks
    <3> QED  BY <2>1, <2>3, <3>1, <3>2 DEF Cell
  <2> QED  BY <2>2, <2>3
<1>8. y.column \in Nat /\ y.column + Len(p) <= MAX_BUFFER_LINE
      /\ y.column + Len(p) - n = y.cursor
  <2>1. Len(p) = l /\ y.column = 0 /\ y.cursor = x.cursor
    BY <1>2, <1>3 DEF SameLine
  <2> QED  BY <2>1, <1>1
<1>9. Good(Write(y, p \o Times(n, BS))) /\ SameLine(Write(y, p \o Times(n, BS)), y)
  BY <1>1, <1>3, <1>6, <1>7, <1>8, Redraw
<1> QED  BY <1>2, <1>5, <1>9 DEF SameLine, p, n

-----------------------------------------------------------------------------
\* The text in front of the cursor and behind it.
Before(x) == Piece(x.buf, 0, x.cursor)
Behind(x) == Piece(x.buf, x.cursor, x.length - x.cursor)

\* The indices of a good line are numbers in order.
LEMMA Numbers ==
    ASSUME NEW x, Good(x)
    PROVE  /\ x.cursor \in Nat /\ x.length \in Nat /\ x.cursor <= x.length
           /\ x.length - x.cursor \in Nat
           /\ x.length <= MAX_BUFFER_LINE - 2 /\ MAX_BUFFER_LINE \in Nat
BY Room DEF Good, Fits, States

\* A piece of the array that the line covers.
LEMMA PieceIs ==
    ASSUME NEW x, Good(x), NEW a \in Nat, NEW n \in Nat, a + n <= x.length
    PROVE  /\ Piece(x.buf, a, n) \in Seq(Printable) /\ Len(Piece(x.buf, a, n)) = n
           /\ \A i \in 1 .. n : Piece(x.buf, a, n)[i] = x.buf[a + i - 1]
<1>1. a .. a + n - 1 \subseteq 0 .. x.length - 1
  BY Numbers
<1>2. \A i \in 0 .. x.length - 1 : x.buf[i] \in Printable
  BY DEF Good, Fits
<1>3. \A i \in a .. a + n - 1 : x.buf[i] \in Printable
  BY <1>1, <1>2
<1> QED  BY <1>3, PieceFacts

\* The line before the cursor and behind it.
LEMMA Halves ==
    ASSUME NEW x, Good(x)
    PROVE  /\ Before(x) \in Seq(Printable) /\ Len(Before(x)) = x.cursor
           /\ \A i \in 1 .. x.cursor : Before(x)[i] = x.buf[i - 1]
           /\ Behind(x) \in Seq(Printable) /\ Len(Behind(x)) = x.length - x.cursor
           /\ \A i \in 1 .. x.length - x.cursor : Behind(x)[i] = x.buf[x.cursor + i - 1]
<1> DEFINE o == 0
           a == x.cursor
           n == x.length - x.cursor
<1>1. a \in Nat /\ n \in Nat /\ a + n <= x.length /\ o \in Nat /\ o + a <= x.length
  BY Numbers
<1>2. \A i \in 1 .. a : o + i - 1 = i - 1
  BY <1>1
<1> HIDE DEF o, a, n
<1>3. /\ Piece(x.buf, o, a) \in Seq(Printable) /\ Len(Piece(x.buf, o, a)) = a
      /\ \A i \in 1 .. a : Piece(x.buf, o, a)[i] = x.buf[o + i - 1]
  BY <1>1, PieceIs
<1>4. /\ Piece(x.buf, a, n) \in Seq(Printable) /\ Len(Piece(x.buf, a, n)) = n
      /\ \A i \in 1 .. n : Piece(x.buf, a, n)[i] = x.buf[a + i - 1]
  BY <1>1, PieceIs
<1>5. Before(x) = Piece(x.buf, o, a) /\ Behind(x) = Piece(x.buf, a, n)
  BY DEF Before, Behind, o, a, n
<1>6. a = x.cursor /\ n = x.length - x.cursor
  BY DEF a, n
<1> QED  BY <1>2, <1>3, <1>4, <1>5, <1>6

\* The two are known once their characters are.
LEMMA HalvesAre ==
    ASSUME NEW x, Good(x), NEW s \in Seq(Printable), NEW t \in Seq(Printable),
           Len(s) = x.cursor, Len(t) = x.length - x.cursor,
           \A i \in 1 .. x.cursor : x.buf[i - 1] = s[i],
           \A i \in 1 .. x.length - x.cursor : x.buf[x.cursor + i - 1] = t[i]
    PROVE  Before(x) = s /\ Behind(x) = t
<1> DEFINE u == Before(x)
           v == Behind(x)
<1>1. u \in Seq(Printable) /\ Len(u) = Len(s) /\ \A i \in 1 .. Len(u) : u[i] = s[i]
  BY Halves
<1>2. v \in Seq(Printable) /\ Len(v) = Len(t) /\ \A i \in 1 .. Len(v) : v[i] = t[i]
  BY Halves
<1> HIDE DEF u, v
<1>3. u = s /\ v = t
  BY <1>1, <1>2, SeqEqual
<1> QED  BY <1>3 DEF u, v

\* insert_char puts a character at the end of the first half.
LEMMA InsertHalves ==
    ASSUME NEW x, Good(x), NEW c \in Printable, x.length < MAX_BUFFER_LINE - 2
    PROVE  /\ Before(InsertChar(x, c)) = Append(Before(x), c)
           /\ Behind(InsertChar(x, c)) = Behind(x)
<1> DEFINE y == InsertChar(x, c)
           s == Append(Before(x), c)
           t == Behind(x)
           a == x.cursor
           m == x.length
<1>1. Good(y) /\ y.length = m + 1 /\ y.cursor = a + 1 /\ y.buf = Inserted(x, c)
  BY InsertGood
<1> HIDE DEF y
<1>2. /\ a \in Nat /\ m \in Nat /\ a <= m /\ m < MAX_BUFFER_LINE - 2 /\ MAX_BUFFER_LINE \in Nat
      /\ y.length - y.cursor = m - a
  BY <1>1, Numbers
<1>3. DOMAIN x.buf = 0 .. MAX_BUFFER_LINE - 1
  BY DEF Good, Fits, States
<1>4. /\ s \in Seq(Printable) /\ Len(s) = a + 1 /\ s[a + 1] = c
      /\ \A i \in 1 .. a : s[i] = x.buf[i - 1]
  <2> DEFINE u == Before(x)
  <2>1. u \in Seq(Printable) /\ Len(u) = a /\ \A i \in 1 .. a : u[i] = x.buf[i - 1]
    BY Halves
  <2> HIDE DEF u, a
  <2>2. /\ Append(u, c) \in Seq(Printable) /\ Len(Append(u, c)) = Len(u) + 1
        /\ \A i \in 1 .. Len(u) : Append(u, c)[i] = u[i]
        /\ Append(u, c)[Len(u) + 1] = c
    BY <2>1, AppendProperties
  <2> QED  BY <2>1, <2>2 DEF u
<1>5. /\ t \in Seq(Printable) /\ Len(t) = m - a
      /\ \A i \in 1 .. m - a : t[i] = x.buf[a + i - 1]
  BY Halves
<1> HIDE DEF s, t
<1>6. \A i \in 1 .. y.cursor : y.buf[i - 1] = s[i]
  <2> SUFFICES ASSUME NEW i \in 1 .. a + 1 PROVE y.buf[i - 1] = s[i]
    BY <1>1
  <2>1. i - 1 \in DOMAIN x.buf /\ i - 1 \notin a + 1 .. m
    BY <1>2, <1>3
  <2>2. CASE i = a + 1
    <3>1. i - 1 = a
      BY <2>2, <1>2
    <3> QED  BY <2>1, <2>2, <3>1, <1>1, <1>4 DEF Inserted
  <2>3. CASE i # a + 1
    <3>1. i \in 1 .. a /\ i - 1 # a
      BY <2>3, <1>2
    <3> QED  BY <2>1, <3>1, <1>1, <1>4 DEF Inserted
  <2> QED  BY <2>2, <2>3
<1>7. \A i \in 1 .. y.length - y.cursor : y.buf[y.cursor + i - 1] = t[i]
  <2> SUFFICES ASSUME NEW i \in 1 .. m - a PROVE y.buf[y.cursor + i - 1] = t[i]
    BY <1>2
  <2>1. y.cursor + i - 1 = a + i /\ a + i \in DOMAIN x.buf /\ a + i \in a + 1 .. m
        /\ a + i # a /\ (a + i) - 1 = a + i - 1
    BY <1>1, <1>2, <1>3, SMTT(60)
  <2>2. y.buf[a + i] = x.buf[(a + i) - 1]
    BY <2>1, <1>1 DEF Inserted
  <2> QED  BY <2>1, <2>2, <1>5
<1>8. Before(y) = s /\ Behind(y) = t
  BY <1>1, <1>2, <1>4, <1>5, <1>6, <1>7, HalvesAre
<1> QED  BY <1>8 DEF y, s, t

\* delete_char takes the first character of the second half.
LEMMA DeleteHalves ==
    ASSUME NEW x, Good(x), x.cursor < x.length
    PROVE  /\ Before(DeleteChar(x)) = Before(x)
           /\ Behind(x) # <<>> /\ Behind(DeleteChar(x)) = Tail(Behind(x))
<1> DEFINE y == DeleteChar(x)
           s == Before(x)
           t == Tail(Behind(x))
           a == x.cursor
           m == x.length
<1>1. Good(y) /\ y.length = m - 1 /\ y.cursor = a /\ y.buf = Deleted(x)
  BY DeleteGood
<1> HIDE DEF y
<1>2. /\ a \in Nat /\ m \in Nat /\ a < m /\ m <= MAX_BUFFER_LINE - 2 /\ MAX_BUFFER_LINE \in Nat
      /\ y.length - y.cursor = m - 1 - a
  BY <1>1, Numbers
<1>3. DOMAIN x.buf = 0 .. MAX_BUFFER_LINE - 1
  BY DEF Good, Fits, States
<1>4. /\ s \in Seq(Printable) /\ Len(s) = a /\ \A i \in 1 .. a : s[i] = x.buf[i - 1]
  BY Halves
<1>5. /\ t \in Seq(Printable) /\ Len(t) = m - 1 - a /\ Behind(x) # <<>>
      /\ \A i \in 1 .. m - 1 - a : t[i] = x.buf[a + (i + 1) - 1]
  <2> DEFINE v == Behind(x)
  <2>1. v \in Seq(Printable) /\ Len(v) = m - a /\ \A i \in 1 .. m - a : v[i] = x.buf[a + i - 1]
    BY Halves
  <2> HIDE DEF v, a, m
  <2>5. v # <<>>
    <3>1. Len(v) # 0
      BY <2>1, <1>2
    <3> QED  BY <3>1
  <2>2. /\ Tail(v) \in Seq(Printable) /\ Len(Tail(v)) = Len(v) - 1
        /\ \A i \in 1 .. Len(Tail(v)) : Tail(v)[i] = v[i + 1]
    BY <2>1, <2>5, HeadTailProperties
  <2>3. Len(Tail(v)) = m - 1 - a
    BY <2>1, <2>2, <1>2
  <2>4. \A i \in 1 .. m - 1 - a : i + 1 \in 1 .. m - a
    BY <1>2
  <2> QED  BY <2>1, <2>2, <2>3, <2>4, <2>5 DEF v
<1> HIDE DEF s, t
<1>6. \A i \in 1 .. y.cursor : y.buf[i - 1] = s[i]
  <2> SUFFICES ASSUME NEW i \in 1 .. a PROVE y.buf[i - 1] = s[i]
    BY <1>1
  <2>1. i - 1 \in DOMAIN x.buf /\ i - 1 \notin a .. m - 2
    BY <1>2, <1>3
  <2> QED  BY <2>1, <1>1, <1>4 DEF Deleted
<1>7. \A i \in 1 .. y.length - y.cursor : y.buf[y.cursor + i - 1] = t[i]
  <2> SUFFICES ASSUME NEW i \in 1 .. m - 1 - a PROVE y.buf[y.cursor + i - 1] = t[i]
    BY <1>2
  <2>1. y.cursor + i - 1 = a + i - 1 /\ a + i - 1 \in DOMAIN x.buf /\ a + i - 1 \in a .. m - 2
        /\ (a + i - 1) + 1 = a + (i + 1) - 1
    BY <1>1, <1>2, <1>3, SMTT(60)
  <2>2. y.buf[a + i - 1] = x.buf[(a + i - 1) + 1]
    BY <2>1, <1>1 DEF Deleted
  <2> QED  BY <2>1, <2>2, <1>5
<1>8. Before(y) = s /\ Behind(y) = t
  BY <1>1, <1>2, <1>4, <1>5, <1>6, <1>7, HalvesAre
<1> QED  BY <1>5, <1>8 DEF y, s, t

\* backspace_char takes the last character of the first half.
LEMMA BackspaceHalves ==
    ASSUME NEW x, Good(x), x.cursor # 0
    PROVE  /\ Before(BackspaceChar(x)) = SubSeq(Before(x), 1, x.cursor - 1)
           /\ Behind(BackspaceChar(x)) = Behind(x)
<1> DEFINE y == BackspaceChar(x)
           s == SubSeq(Before(x), 1, x.cursor - 1)
           t == Behind(x)
           a == x.cursor
           m == x.length
           l == MoveLeft(x)
<1>1. Good(y) /\ y.length = m - 1 /\ y.cursor = a - 1 /\ y.buf = Deleted(l)
  BY BackspaceGood
<1>9. l.buf = x.buf /\ l.length = m /\ l.cursor = a - 1
  BY LeftGood
<1> HIDE DEF y, l
<1>2. /\ a \in Nat /\ m \in Nat /\ a >= 1 /\ a <= m /\ m <= MAX_BUFFER_LINE - 2
      /\ MAX_BUFFER_LINE \in Nat /\ y.length - y.cursor = m - a
  BY <1>1, Numbers
<1>3. DOMAIN x.buf = 0 .. MAX_BUFFER_LINE - 1
  BY DEF Good, Fits, States
<1>4. /\ s \in Seq(Printable) /\ Len(s) = a - 1 /\ \A i \in 1 .. a - 1 : s[i] = x.buf[i - 1]
  <2> DEFINE u == Before(x)
             k == a - 1
             o == 1
  <2>1. u \in Seq(Printable) /\ Len(u) = a /\ \A i \in 1 .. a : u[i] = x.buf[i - 1]
    BY Halves
  <2> HIDE DEF u
  <2>2. \A i \in o .. k : u[i] \in Printable
    BY <2>1, <1>2
  <2>3. k \in Nat /\ o \in Int /\ k \in Int /\ o = 1
    BY <1>2
  <2>6. \A i \in 1 .. k : i \in 1 .. k - o + 1 /\ o + i - 1 = i /\ i \in 1 .. a
    BY <1>2
  <2>7. (IF o <= k THEN k - o + 1 ELSE 0) = k
    BY <2>3
  <2>8. s = SubSeq(u, o, k) /\ k = a - 1
    BY DEF u
  <2> HIDE DEF k, o, s
  <2>4. /\ s \in Seq(Printable) /\ Len(s) = IF o <= k THEN k - o + 1 ELSE 0
        /\ \A i \in 1 .. k - o + 1 : s[i] = u[o + i - 1]
    BY <2>2, <2>3, <2>8, SubSeqProperties
  <2>5. \A i \in 1 .. k : s[i] = x.buf[i - 1]
    BY <2>1, <2>4, <2>6
  <2> QED  BY <2>4, <2>5, <2>7, <2>8
<1>5. /\ t \in Seq(Printable) /\ Len(t) = m - a
      /\ \A i \in 1 .. m - a : t[i] = x.buf[a + i - 1]
  BY Halves
<1> HIDE DEF s, t
<1>6. \A i \in 1 .. y.cursor : y.buf[i - 1] = s[i]
  <2> SUFFICES ASSUME NEW i \in 1 .. a - 1 PROVE y.buf[i - 1] = s[i]
    BY <1>1
  <2>1. i - 1 \in DOMAIN x.buf /\ i - 1 \notin a - 1 .. m - 2
    BY <1>2, <1>3
  <2> QED  BY <2>1, <1>1, <1>4, <1>9 DEF Deleted
<1>7. \A i \in 1 .. y.length - y.cursor : y.buf[y.cursor + i - 1] = t[i]
  <2> SUFFICES ASSUME NEW i \in 1 .. m - a PROVE y.buf[y.cursor + i - 1] = t[i]
    BY <1>2
  <2>4. y.cursor = a - 1
    BY <1>1
  <2>3. y.cursor + i - 1 = a + i - 2 /\ a + i - 2 \in 0 .. MAX_BUFFER_LINE - 1
        /\ a + i - 2 \in a - 1 .. m - 2 /\ (a + i - 2) + 1 = a + i - 1
    BY <2>4, <1>2
  <2>1. y.cursor + i - 1 = a + i - 2 /\ a + i - 2 \in DOMAIN x.buf /\ a + i - 2 \in a - 1 .. m - 2
        /\ (a + i - 2) + 1 = a + i - 1
    BY <2>3, <1>3
  <2>2. y.buf[a + i - 2] = x.buf[(a + i - 2) + 1]
    BY <2>1, <1>1, <1>9 DEF Deleted
  <2> QED  BY <2>1, <2>2, <1>5
<1>8. Before(y) = s /\ Behind(y) = t
  BY <1>1, <1>2, <1>4, <1>5, <1>6, <1>7, HalvesAre
<1> QED  BY <1>8 DEF y, s, t

-----------------------------------------------------------------------------
\* Texts that begin alike.
LEMMA FirstOf ==
    ASSUME NEW A, NEW s \in Seq(A), NEW n \in Nat, n <= Len(s)
    PROVE  /\ SubSeq(s, 1, n) \in Seq(A) /\ Len(SubSeq(s, 1, n)) = n
           /\ \A i \in 1 .. n : SubSeq(s, 1, n)[i] = s[i]
<1> DEFINE o == 1
           u == SubSeq(s, o, n)
<1>1. o \in Int /\ n \in Int /\ o = 1 /\ \A i \in o .. n : s[i] \in A
  OBVIOUS
<1>2. (IF o <= n THEN n - o + 1 ELSE 0) = n /\ n - o + 1 = n
  OBVIOUS
<1>3. \A i \in 1 .. n : o + i - 1 = i
  OBVIOUS
<1>4. u = SubSeq(s, 1, n)
  OBVIOUS
<1> HIDE DEF o, u
<1>5. /\ u \in Seq(A) /\ Len(u) = IF o <= n THEN n - o + 1 ELSE 0
      /\ \A i \in 1 .. n - o + 1 : u[i] = s[o + i - 1]
  BY <1>1, SubSeqProperties DEF u
<1>6. u \in Seq(A) /\ Len(u) = n /\ \A i \in 1 .. n : u[i] = s[i]
  BY <1>2, <1>3, <1>5
<1> QED  BY <1>4, <1>6

\* IsPrefix, character by character.
LEMMA PrefixMeans ==
    ASSUME NEW A, NEW s \in Seq(A), NEW t \in Seq(A)
    PROVE  IsPrefix(s, t) <=> Len(s) <= Len(t) /\ \A i \in 1 .. Len(s) : s[i] = t[i]
<1> SUFFICES ASSUME Len(s) <= Len(t)
             PROVE  SubSeq(s, 1, Len(s)) = SubSeq(t, 1, Len(s))
                      <=> \A i \in 1 .. Len(s) : s[i] = t[i]
  BY DEF IsPrefix
<1> DEFINE u == SubSeq(s, 1, Len(s))
           v == SubSeq(t, 1, Len(s))
<1>1. Len(s) \in Nat /\ Len(s) <= Len(s)
  OBVIOUS
<1>2. u \in Seq(A) /\ Len(u) = Len(s) /\ \A i \in 1 .. Len(s) : u[i] = s[i]
  BY <1>1, FirstOf
<1>3. v \in Seq(A) /\ Len(v) = Len(s) /\ \A i \in 1 .. Len(s) : v[i] = t[i]
  BY <1>1, FirstOf
<1> HIDE DEF u, v
<1>4. ASSUME \A i \in 1 .. Len(s) : s[i] = t[i] PROVE u = v
  <2>1. \A i \in 1 .. Len(u) : u[i] = v[i]
    BY <1>2, <1>3, <1>4
  <2> QED  BY <1>2, <1>3, <2>1, SeqEqual
<1>5. ASSUME u = v PROVE \A i \in 1 .. Len(s) : s[i] = t[i]
  BY <1>2, <1>3, <1>5
<1> QED  BY <1>4, <1>5 DEF u, v

\* A nonempty set of numbers up to n has a greatest element.
LEMMA GreatestExists ==
    ASSUME NEW n \in Nat, NEW D \in SUBSET (0 .. n), D # {}
    PROVE  \E m \in D : \A k \in D : k <= m
<1> DEFINE T == {n - m : m \in D}
<1>1. T \in SUBSET Nat /\ T # {}
  <2>1. \A m \in D : n - m \in Nat
    OBVIOUS
  <2> QED  BY <2>1
<1>2. PICK d \in T : \A k \in T : d <= k
  <2> HIDE DEF T
  <2> QED  BY <1>1, LeastExists
<1>3. PICK m \in D : d = n - m
  OBVIOUS
<1>4. ASSUME NEW k \in D PROVE k <= m
  <2>1. n - k \in T
    OBVIOUS
  <2>2. d <= n - k
    BY <1>2, <2>1
  <2>3. k \in Int /\ m \in Int
    OBVIOUS
  <2> QED  BY <1>3, <2>2, <2>3
<1> QED  BY <1>4

\* What all of a set have in common: a part of one of them, at least as long as
\* anything they all begin with.
LEMMA CommonIs ==
    ASSUME NEW A, NEW S \in SUBSET Seq(A), S # {}
    PROVE  \E s \in S : \E n \in 0 .. Len(s) :
             /\ Common(S) = SubSeq(s, 1, n)
             /\ \A p \in Seq(A) : (\A t \in S : IsPrefix(p, t)) => Len(p) <= n
<1> DEFINE s == CHOOSE t \in S : TRUE
<1>1. s \in S
  OBVIOUS
<1> DEFINE All(n)  == \A t \in S : IsPrefix(SubSeq(s, 1, n), t)
           Longest(n) == All(n) /\ (n < Len(s) => \E t \in S : ~IsPrefix(SubSeq(s, 1, n + 1), t))
           n       == CHOOSE k \in 0 .. Len(s) : Longest(k)
           D       == {k \in 0 .. Len(s) : All(k)}
<1>2. Common(S) = SubSeq(s, 1, n)
  BY DEF Common
<1>3. s \in Seq(A) /\ Len(s) \in Nat
  BY <1>1
<1> HIDE DEF s
<1>4. 0 \in D
  <2> SUFFICES ASSUME NEW t \in S PROVE IsPrefix(SubSeq(s, 1, 0), t)
    BY <1>3
  <2> DEFINE z == 0
             u == SubSeq(s, 1, z)
  <2>1. z \in Nat /\ z <= Len(s) /\ z = 0
    BY <1>3
  <2> HIDE DEF z
  <2>2. u \in Seq(A) /\ Len(u) = z
    BY <1>3, <2>1, FirstOf
  <2> HIDE DEF u
  <2>3. t \in Seq(A) /\ Len(u) <= Len(t) /\ \A i \in 1 .. Len(u) : u[i] = t[i]
    BY <2>1, <2>2
  <2>4. IsPrefix(u, t)
    BY <2>2, <2>3, PrefixMeans
  <2> QED  BY <2>4 DEF u, z
<1>5. PICK m \in D : \A k \in D : k <= m
  <2>1. D \in SUBSET (0 .. Len(s)) /\ D # {}
    BY <1>4
  <2> HIDE DEF D
  <2> QED  BY <1>3, <2>1, GreatestExists
<1>6. m \in 0 .. Len(s) /\ Longest(m)
  <2>1. m \in 0 .. Len(s) /\ All(m)
    OBVIOUS
  <2>2. ASSUME m < Len(s), All(m + 1) PROVE FALSE
    <3>1. m + 1 \in D /\ m \in Nat
      BY <1>3, <2>1, <2>2
    <3>2. m + 1 <= m
      BY <1>5, <3>1
    <3> QED  BY <3>1, <3>2
  <2> QED  BY <2>1, <2>2
<1> HIDE DEF Longest
<1>7. n \in 0 .. Len(s) /\ Longest(n)
  BY <1>6
<1> HIDE DEF n, D
<1>8. ASSUME NEW p \in Seq(A), \A t \in S : IsPrefix(p, t) PROVE Len(p) <= n
  <2> SUFFICES ASSUME n < Len(p) PROVE FALSE
    BY <1>3, <1>7
  <2>1. IsPrefix(p, s)
    BY <1>1, <1>8
  <2>2. Len(p) <= Len(s) /\ \A i \in 1 .. Len(p) : p[i] = s[i]
    BY <2>1, <1>3, PrefixMeans
  <2>3. n + 1 \in Nat /\ n + 1 <= Len(p) /\ n + 1 <= Len(s) /\ n < Len(s)
    BY <2>2, <1>3, <1>7
  <2>4. PICK t \in S : ~IsPrefix(SubSeq(s, 1, n + 1), t)
    BY <1>7, <2>3 DEF Longest
  <2> DEFINE k == n + 1
             u == SubSeq(s, 1, k)
  <2> HIDE DEF k
  <2>5. u \in Seq(A) /\ Len(u) = k /\ \A i \in 1 .. k : u[i] = s[i]
    BY <2>3, <1>3, FirstOf DEF k
  <2> HIDE DEF u
  <2>6. t \in Seq(A) /\ Len(p) <= Len(t) /\ \A i \in 1 .. Len(p) : p[i] = t[i]
    BY <1>8, PrefixMeans
  <2>7. k \in Nat /\ k <= Len(p) /\ k <= Len(s)
    BY <2>3 DEF k
  <2>8. 1 .. k \subseteq 1 .. Len(p) /\ Len(p) \in Nat /\ Len(t) \in Nat
    BY <2>7, <2>6
  <2>9. \A i \in 1 .. k : u[i] = t[i]
    BY <2>2, <2>5, <2>6, <2>8
  <2>10. k <= Len(t)
    BY <2>6, <2>7, <2>8
  <2>11. IsPrefix(u, t)
    BY <2>5, <2>6, <2>9, <2>10, PrefixMeans
  <2> QED  BY <2>4, <2>11 DEF u, k
<1> QED  BY <1>1, <1>2, <1>7, <1>8

-----------------------------------------------------------------------------
\* A word erased, character by character.
LEMMA EraseGood ==
    ASSUME NEW x, Good(x), NEW A, NEW s \in Seq(A), Len(s) <= x.cursor
    PROVE  /\ Good(EraseAll(x, s))
           /\ EraseAll(x, s).cursor = x.cursor - Len(s)
           /\ EraseAll(x, s).length = x.length - Len(s)
           /\ Before(EraseAll(x, s)) = SubSeq(Before(x), 1, x.cursor - Len(s))
           /\ Behind(EraseAll(x, s)) = Behind(x)
<1>1. PICK h : Run("erase", x, s, h) /\ EraseAll(x, s) = h[Len(s)]
  BY EraseRuns
<1> DEFINE a == x.cursor
           m == x.length
           u == Before(x)
           Erased(i) == /\ Good(h[i]) /\ h[i].cursor = a - i /\ h[i].length = m - i
                        /\ Before(h[i]) = SubSeq(u, 1, a - i) /\ Behind(h[i]) = Behind(x)
           D == {i \in Nat : i <= Len(s) => Erased(i)}
<1>2. /\ a \in Nat /\ m \in Nat /\ Len(s) \in Nat /\ Len(s) <= a
      /\ u \in Seq(Printable) /\ Len(u) = a
  BY Numbers, Halves
<1>3. 0 \in D
  <2>1. h[0] = x
    BY <1>1 DEF Run
  <2>2. a - 0 = a /\ m - 0 = m
    BY <1>2
  <2> HIDE DEF u
  <2>3. SubSeq(u, 1, a) = u
    <3> DEFINE v == SubSeq(u, 1, a)
    <3>1. v \in Seq(Printable) /\ Len(v) = a /\ \A i \in 1 .. a : v[i] = u[i]
      BY <1>2, FirstOf
    <3> HIDE DEF v
    <3>2. v = u
      BY <1>2, <3>1, SeqEqual
    <3> QED  BY <3>2 DEF v
  <2>4. Before(x) = u
    BY DEF u
  <2> HIDE DEF a, m
  <2>5. Good(x) /\ x.cursor = a - 0 /\ x.length = m - 0
    BY <2>2 DEF a, m
  <2> QED  BY <2>1, <2>2, <2>3, <2>4, <2>5
<1>4. ASSUME NEW i \in Nat, i \in D PROVE i + 1 \in D
  <2> SUFFICES ASSUME i + 1 <= Len(s) PROVE Erased(i + 1)
    OBVIOUS
  <2> DEFINE y == h[i]
             v == Before(y)
  <2>1. Erased(i)
    BY <1>2, <1>4
  <2>2. h[i + 1] = BackspaceChar(y)
    <3>1. i + 1 \in 1 .. Len(s) /\ (i + 1) - 1 = i
      BY <1>2
    <3> QED  BY <3>1, <1>1 DEF Run, Step
  <2>3. Good(y) /\ y.cursor = a - i /\ y.length = m - i /\ v = SubSeq(u, 1, a - i)
        /\ Behind(y) = Behind(x)
    BY <2>1
  <2> HIDE DEF y, v, a, m, u
  <2>4. y.cursor # 0 /\ a - i \in Nat /\ a - i <= a /\ (a - i) - 1 = a - (i + 1)
        /\ (m - i) - 1 = m - (i + 1) /\ a - (i + 1) \in Nat /\ a - (i + 1) <= a
        /\ a - (i + 1) <= a - i
    BY <2>3, <1>2
  <2>5. /\ Good(BackspaceChar(y)) /\ BackspaceChar(y).length = y.length - 1
        /\ BackspaceChar(y).cursor = y.cursor - 1
    BY <2>3, <2>4, BackspaceGood
  <2>6. /\ Before(BackspaceChar(y)) = SubSeq(v, 1, y.cursor - 1)
        /\ Behind(BackspaceChar(y)) = Behind(y)
    BY <2>3, <2>4, BackspaceHalves DEF v
  <2>7. SubSeq(v, 1, a - (i + 1)) = SubSeq(u, 1, a - (i + 1))
    <3> DEFINE k == a - i
               l == a - (i + 1)
               p == SubSeq(v, 1, l)
               q == SubSeq(u, 1, l)
    <3>1. k \in Nat /\ k <= Len(u) /\ l \in Nat /\ l <= k /\ l <= Len(u) /\ v = SubSeq(u, 1, k)
      BY <1>2, <2>3, <2>4
    <3> HIDE DEF k, l
    <3>2. v \in Seq(Printable) /\ Len(v) = k /\ \A j \in 1 .. k : v[j] = u[j]
      BY <1>2, <3>1, FirstOf
    <3>3. p \in Seq(Printable) /\ Len(p) = l /\ \A j \in 1 .. l : p[j] = v[j]
      BY <3>1, <3>2, FirstOf
    <3>4. q \in Seq(Printable) /\ Len(q) = l /\ \A j \in 1 .. l : q[j] = u[j]
      BY <1>2, <3>1, FirstOf
    <3>5. 1 .. l \subseteq 1 .. k
      BY <3>1
    <3> HIDE DEF p, q
    <3>6. p = q
      BY <3>2, <3>3, <3>4, <3>5, SeqEqual
    <3> QED  BY <3>6 DEF p, q, l
  <2> QED  BY <2>2, <2>3, <2>4, <2>5, <2>6, <2>7
<1> HIDE DEF D
<1>5. Len(s) \in D
  BY <1>2, <1>3, <1>4, Induction
<1>6. Erased(Len(s))
  BY <1>2, <1>5 DEF D
<1> QED  BY <1>1, <1>6

\* A word typed, as far as there is room for it.
Taken(x, s, k, y) ==
  /\ Good(y) /\ Behind(y) = Behind(x) /\ Before(y) = Before(x) \o SubSeq(s, 1, k)
  /\ y.cursor = x.cursor + k /\ y.length = x.length + k

\* A text is typed as far as the line has room: some first part of it is taken.
LEMMA InsertAllGood ==
    ASSUME NEW x, Good(x), NEW s \in Seq(Printable)
    PROVE  LET y == FoldLeft(InsertChar, x, s)
           IN  \E k \in 0 .. Len(s) : /\ Taken(x, s, k, y)
                                      /\ k = Len(s) \/ y.length = MAX_BUFFER_LINE - 2
<1>1. PICK h : Run("insert", x, s, h) /\ FoldLeft(InsertChar, x, s) = h[Len(s)]
  BY InsertRuns
<1> DEFINE Typed(i, k) == /\ Taken(x, s, k, h[i])
                          /\ k = i \/ h[i].length = MAX_BUFFER_LINE - 2
           D == {i \in Nat : i <= Len(s) => \E k \in 0 .. i : Typed(i, k)}
           u == Before(x)
<1>2. /\ x.cursor \in Nat /\ x.length \in Nat /\ Len(s) \in Nat /\ u \in Seq(Printable)
  BY Numbers, Halves
<1>3. 0 \in D
  <2>1. h[0] = x /\ x.cursor + 0 = x.cursor /\ x.length + 0 = x.length
    BY <1>1, <1>2 DEF Run
  <2>2. u \o SubSeq(s, 1, 0) = u
    <3> DEFINE z == 0
               v == SubSeq(s, 1, z)
    <3> HIDE DEF u
    <3>1. z \in Nat /\ z <= Len(s) /\ z = 0
      BY <1>2
    <3> HIDE DEF z
    <3>2. v \in Seq(Printable) /\ Len(v) = 0
      BY <3>1, FirstOf
    <3> HIDE DEF v
    <3>3. u \o v = u
      BY <1>2, <3>2
    <3> QED  BY <3>1, <3>3 DEF v
  <2>3. Typed(0, 0)
    BY <2>1, <2>2 DEF Taken
  <2>4. 0 \in 0 .. 0
    OBVIOUS
  <2> HIDE DEF Typed
  <2> QED  BY <2>3, <2>4
<1>4. ASSUME NEW i \in Nat, i \in D PROVE i + 1 \in D
  <2> SUFFICES ASSUME i + 1 <= Len(s) PROVE \E k \in 0 .. i + 1 : Typed(i + 1, k)
    OBVIOUS
  <2> DEFINE y == h[i]
             c == s[i + 1]
  <2>0. i + 1 \in 1 .. Len(s) /\ (i + 1) - 1 = i /\ i <= Len(s) /\ i + 1 \in Nat
    BY <1>2
  <2>1. PICK k \in 0 .. i : Typed(i, k)
    BY <1>4, <2>0
  <2>2. h[i + 1] = InsertChar(y, c) /\ c \in Printable
    BY <2>0, <1>1 DEF Run, Step
  <2>3. /\ Good(y) /\ Behind(y) = Behind(x) /\ Before(y) = u \o SubSeq(s, 1, k)
        /\ y.cursor = x.cursor + k /\ y.length = x.length + k
        /\ k = i \/ y.length = MAX_BUFFER_LINE - 2
    BY <2>1 DEF Taken
  <2>4. y.length \in Nat /\ y.length <= MAX_BUFFER_LINE - 2 /\ MAX_BUFFER_LINE \in Nat
    BY <2>3, Numbers
  <2>5. CASE y.length < MAX_BUFFER_LINE - 2
    <3>1. k = i /\ (x.cursor + k) + 1 = x.cursor + (i + 1)
          /\ (x.length + k) + 1 = x.length + (i + 1) /\ i + 1 \in 0 .. i + 1
      <4>1. y.length # MAX_BUFFER_LINE - 2
        BY <2>4, <2>5
      <4>2. k = i
        BY <2>3, <4>1
      <4>3. x.cursor \in Nat /\ x.length \in Nat
        BY <1>2
      <4> QED  BY <4>2, <4>3
    <3>2. /\ Good(InsertChar(y, c)) /\ InsertChar(y, c).length = y.length + 1
          /\ InsertChar(y, c).cursor = y.cursor + 1
      BY <2>2, <2>3, <2>5, InsertGood
    <3>3. /\ Before(InsertChar(y, c)) = Append(Before(y), c)
          /\ Behind(InsertChar(y, c)) = Behind(y)
      BY <2>2, <2>3, <2>5, InsertHalves
    <3>4. Append(u \o SubSeq(s, 1, k), c) = u \o SubSeq(s, 1, i + 1)
      <4> DEFINE p == SubSeq(s, 1, k)
                 l == i + 1
                 q == SubSeq(s, 1, l)
      <4> HIDE DEF u
      <4>1. k \in Nat /\ k <= Len(s) /\ l \in Nat /\ l <= Len(s) /\ l = k + 1
        BY <3>1, <2>0
      <4> HIDE DEF l
      <4>2. p \in Seq(Printable) /\ Len(p) = k /\ \A j \in 1 .. k : p[j] = s[j]
        BY <4>1, FirstOf
      <4>3. q \in Seq(Printable) /\ Len(q) = l /\ \A j \in 1 .. l : q[j] = s[j]
        BY <4>1, FirstOf
      <4> HIDE DEF p, q
      <4>7. c = s[l]
        BY DEF l
      <4> HIDE DEF c
      <4>4. q = Append(p, c)
        <5>1. /\ Append(p, c) \in Seq(Printable) /\ Len(Append(p, c)) = k + 1
              /\ \A j \in 1 .. k : Append(p, c)[j] = p[j]
              /\ Append(p, c)[k + 1] = c
          BY <2>2, <4>2, AppendProperties
        <5>2. \A j \in 1 .. l : j \in 1 .. k \/ j = k + 1
          BY <4>1
        <5>3. \A j \in 1 .. Len(q) : q[j] = Append(p, c)[j]
          BY <5>1, <5>2, <4>1, <4>2, <4>3, <4>7
        <5> QED  BY <5>1, <5>3, <4>1, <4>3, SeqEqual
      <4>5. Append(u \o p, c) = u \o Append(p, c)
        <5>1. u \in Seq(Printable) /\ p \in Seq(Printable) /\ c \in Printable
          BY <1>2, <2>2, <4>2
        <5>2. <<c>> \in Seq(Printable) /\ u \o p \in Seq(Printable)
          BY <5>1
        <5>3. Append(u \o p, c) = (u \o p) \o <<c>> /\ Append(p, c) = p \o <<c>>
          BY <5>1, <5>2, AppendIsConcat
        <5>4. (u \o p) \o <<c>> = u \o (p \o <<c>>)
          BY <5>1, <5>2, ConcatAssociative
        <5> QED  BY <5>3, <5>4
      <4> QED  BY <4>4, <4>5 DEF p, q, l
    <3>5. Typed(i + 1, i + 1)
      BY <2>2, <2>3, <3>1, <3>2, <3>3, <3>4 DEF Taken
    <3> HIDE DEF Typed
    <3> QED  BY <3>1, <3>5
  <2>6. CASE y.length = MAX_BUFFER_LINE - 2
    <3>1. InsertChar(y, c) = y
      BY <2>2, <2>3, <2>4, <2>6, InsertGood
    <3>2. Typed(i + 1, k)
      BY <2>1, <2>2, <2>6, <3>1
    <3>3. k \in 0 .. i + 1
      OBVIOUS
    <3> HIDE DEF Typed
    <3> QED  BY <3>2, <3>3
  <2> QED  BY <2>4, <2>5, <2>6
<1> HIDE DEF D
<1>5. Len(s) \in D
  BY <1>2, <1>3, <1>4, Induction
<1>6. \E k \in 0 .. Len(s) : Typed(Len(s), k)
  BY <1>2, <1>5 DEF D
<1> QED  BY <1>1, <1>6

-----------------------------------------------------------------------------
\* The word in front of the cursor.
LEMMA WordIs ==
    ASSUME NEW x, Good(x)
    PROVE  /\ WordStart(x) \in 0 .. x.cursor
           /\ \A i \in WordStart(x) .. x.cursor - 1 : x.buf[i] # " "
           /\ CurrentWord(x) \in Seq(Printable)
           /\ Len(CurrentWord(x)) = x.cursor - WordStart(x)
           /\ \A i \in 1 .. x.cursor - WordStart(x) :
                CurrentWord(x)[i] = x.buf[WordStart(x) + i - 1]
<1> DEFINE a == x.cursor
           blanks == {i \in 1 .. a : x.buf[i - 1] = " "}
           b == WordStart(x)
<1>1. b = IF blanks = {} THEN 0 ELSE CHOOSE i \in blanks : \A j \in blanks : j <= i
  BY DEF WordStart
<1>2. a \in Nat /\ a <= x.length /\ x.length \in Nat
  BY Numbers
<1>9. /\ \A i \in blanks : i \in 1 .. a
      /\ \A i \in 1 .. a : x.buf[i - 1] = " " => i \in blanks
  OBVIOUS
<1> HIDE DEF a, b, blanks
<1>10. blanks \in SUBSET (0 .. a)
  <2>1. 1 .. a \subseteq 0 .. a
    BY <1>2
  <2> QED  BY <2>1, <1>9
<1>3. blanks = {} \/ (b \in blanks /\ \A j \in blanks : j <= b)
  <2> SUFFICES ASSUME blanks # {} PROVE b \in blanks /\ \A j \in blanks : j <= b
    OBVIOUS
  <2>2. \E i \in blanks : \A j \in blanks : j <= i
    BY <1>10, <1>2, GreatestExists
  <2>3. b = CHOOSE i \in blanks : \A j \in blanks : j <= i
    BY <1>1
  <2> QED  BY <2>2, <2>3, Zenon
<1>4. b \in 0 .. a
  <2>1. CASE blanks = {}
    <3>1. b = 0
      BY <1>1, <2>1
    <3> QED  BY <3>1, <1>2
  <2>2. CASE blanks # {}
    BY <2>2, <1>3, <1>10
  <2> QED  BY <2>1, <2>2
<1>11. \A i \in b .. a - 1 : i + 1 \in 1 .. a /\ (i + 1) - 1 = i /\ ~(i + 1 <= b)
  BY <1>2, <1>4
<1>5. \A i \in b .. a - 1 : x.buf[i] # " "
  <2> SUFFICES ASSUME NEW i \in b .. a - 1, x.buf[i] = " " PROVE FALSE
    OBVIOUS
  <2>1. i + 1 \in 1 .. a /\ (i + 1) - 1 = i /\ ~(i + 1 <= b)
    BY <1>11
  <2>2. i + 1 \in blanks
    BY <2>1, <1>9
  <2> QED  BY <2>1, <2>2, <1>3
<1> DEFINE n == a - b
<1>6. b \in Nat /\ n \in Nat /\ b + n <= x.length
  BY <1>2, <1>4
<1> HIDE DEF n
<1>7. /\ Piece(x.buf, b, n) \in Seq(Printable) /\ Len(Piece(x.buf, b, n)) = n
      /\ \A i \in 1 .. n : Piece(x.buf, b, n)[i] = x.buf[b + i - 1]
  BY <1>6, PieceIs
<1>8. CurrentWord(x) = Piece(x.buf, b, n)
  BY DEF CurrentWord, n, b, a
<1> QED  BY <1>4, <1>5, <1>7, <1>8 DEF n, a, b

\* The directory and the name in a word, from its last slash on.
Slash(w) == SelectLastInSeq(w, LAMBDA c : c = "/")
Dir(w)   == CASE Slash(w) = 0 -> <<".">> [] Slash(w) = 1 -> <<"/">>
              [] OTHER -> SubSeq(w, 1, Slash(w) - 1)
Part(w)  == SubSeq(w, Slash(w) + 1, Len(w))
Front0(w) == IF Slash(w) = 0 THEN <<>>
             ELSE IF Dir(w) = <<"/">> THEN <<"/">> ELSE Dir(w) \o <<"/">>

\* strrchr(word, '/').
LEMMA SlashIs ==
    ASSUME NEW A, NEW w \in Seq(A)
    PROVE  /\ Slash(w) \in 0 .. Len(w)
           /\ Slash(w) # 0 => w[Slash(w)] = "/"
           /\ Slash(w) = 0 => ~Contains(w, "/")
<1> DEFINE I == {i \in 1 .. Len(w) : w[i] = "/"}
<1>1. Slash(w) = IF I # {} THEN CHOOSE m \in I : \A k \in I : m >= k ELSE 0
  BY DEF Slash, SelectLastInSeq, Max
<1>2. Len(w) \in Nat /\ I \in SUBSET (0 .. Len(w))
  OBVIOUS
<1>3. CASE I = {}
  BY <1>1, <1>2, <1>3 DEF Contains
<1>4. CASE I # {}
  <2> HIDE DEF I
  <2>1. PICK m \in I : \A k \in I : k <= m
    BY <1>2, <1>4, GreatestExists
  <2>2. \A k \in I : m >= k
    BY <1>2, <2>1
  <2>3. Slash(w) \in I
    BY <1>1, <1>4, <2>2
  <2>4. Slash(w) \in 1 .. Len(w) /\ w[Slash(w)] = "/"
    BY <2>3 DEF I
  <2> QED  BY <2>4, <1>2
<1> QED  BY <1>3, <1>4

\* A file's completion: what is in front of its name, the name, and perhaps a
\* slash. The name begins with what was typed of it.
LEMMA FileIs ==
    ASSUME NEW w, NEW c \in FindFileCompletions(w)
    PROVE  \E d \in DOMAIN Tree : \E n \in Tree[d] : \E t \in {<<>>, <<"/">>} :
             /\ IsPrefix(Part(w), n)
             /\ c = IF Slash(w) = 0 THEN n \o t ELSE Front0(w) \o n \o t
<1> DEFINE slash == Slash(w)
           dir   == Dir(w)
           path  == IF dir[1] = "~" THEN Home \o Tail(dir) ELSE dir
           part  == Part(w)
           names == IF path \in DOMAIN Tree
                    THEN {n \in Tree[path] : IsPrefix(part, n) /\ (n[1] = "." => part # <<>>)}
                    ELSE {}
           below(d, n) == IF d = <<"/">> THEN d \o n ELSE d \o <<"/">> \o n
           full(n) == IF path = <<".">> THEN n ELSE below(path, n)
<1>1. c \in {(IF slash = 0 THEN n ELSE below(dir, n))
               \o (IF full(n) \in DOMAIN Tree THEN <<"/">> ELSE <<>>) : n \in names}
  BY DEF FindFileCompletions, Slash, Dir, Part
<1> HIDE DEF path, full, below, names, slash, dir, part
<1>2. PICK n \in names : c = (IF slash = 0 THEN n ELSE below(dir, n))
                               \o (IF full(n) \in DOMAIN Tree THEN <<"/">> ELSE <<>>)
  BY <1>1
<1>3. path \in DOMAIN Tree /\ n \in Tree[path] /\ IsPrefix(part, n)
  BY DEF names
<1>4. PICK t \in {<<>>, <<"/">>} : t = IF full(n) \in DOMAIN Tree THEN <<"/">> ELSE <<>>
  OBVIOUS
<1>5. slash # 0 => below(dir, n) = Front0(w) \o n
  BY DEF below, Front0, slash, dir
<1>6. c = IF slash = 0 THEN n \o t ELSE Front0(w) \o n \o t
  BY <1>2, <1>4, <1>5
<1> QED  BY <1>3, <1>4, <1>6 DEF slash, part

\* A text cut in two, or at a character.
LEMMA LastOf ==
    ASSUME NEW A, NEW s \in Seq(A), NEW n \in Nat, n <= Len(s)
    PROVE  /\ SubSeq(s, n + 1, Len(s)) \in Seq(A) /\ Len(SubSeq(s, n + 1, Len(s))) = Len(s) - n
           /\ \A i \in 1 .. Len(s) - n : SubSeq(s, n + 1, Len(s))[i] = s[n + i]
<1> DEFINE o == n + 1
           l == Len(s)
           u == SubSeq(s, o, l)
<1>1. o \in Int /\ l \in Int /\ \A i \in o .. l : s[i] \in A
  OBVIOUS
<1>2. (IF o <= l THEN l - o + 1 ELSE 0) = l - n /\ l - o + 1 = l - n
  OBVIOUS
<1>3. \A i \in 1 .. l - n : o + i - 1 = n + i
  OBVIOUS
<1>4. u = SubSeq(s, n + 1, Len(s)) /\ l = Len(s)
  OBVIOUS
<1> HIDE DEF o, l, u
<1>5. /\ u \in Seq(A) /\ Len(u) = IF o <= l THEN l - o + 1 ELSE 0
      /\ \A i \in 1 .. l - o + 1 : u[i] = s[o + i - 1]
  BY <1>1, SubSeqProperties DEF u
<1>6. u \in Seq(A) /\ Len(u) = l - n /\ \A i \in 1 .. l - n : u[i] = s[n + i]
  BY <1>2, <1>3, <1>5
<1> QED  BY <1>4, <1>6

\* A sequence cut in two.
LEMMA Cut ==
    ASSUME NEW A, NEW s \in Seq(A), NEW n \in Nat, n <= Len(s)
    PROVE  SubSeq(s, 1, n) \o SubSeq(s, n + 1, Len(s)) = s
<1> DEFINE u == SubSeq(s, 1, n)
           v == SubSeq(s, n + 1, Len(s))
<1>1. u \in Seq(A) /\ Len(u) = n /\ \A i \in 1 .. n : u[i] = s[i]
  BY FirstOf
<1>2. v \in Seq(A) /\ Len(v) = Len(s) - n /\ \A i \in 1 .. Len(s) - n : v[i] = s[n + i]
  BY LastOf
<1> HIDE DEF u, v
<1>3. /\ u \o v \in Seq(A) /\ Len(u \o v) = Len(u) + Len(v)
      /\ \A i \in 1 .. Len(u) + Len(v) : (u \o v)[i] = IF i <= Len(u) THEN u[i] ELSE v[i - Len(u)]
  BY <1>1, <1>2, ConcatProperties
<1>4. Len(u \o v) = Len(s) /\ Len(u) + Len(v) = Len(s)
  BY <1>1, <1>2, <1>3
<1>5. ASSUME NEW i \in 1 .. Len(s) PROVE (u \o v)[i] = s[i]
  <2>1. CASE i <= n
    <3>1. i \in 1 .. n
      BY <2>1
    <3> QED  BY <3>1, <1>1, <1>3, <1>4, <2>1
  <2>2. CASE ~(i <= n)
    <3>1. i - n \in 1 .. Len(s) - n /\ n + (i - n) = i
      BY <2>2
    <3> QED  BY <3>1, <1>1, <1>2, <1>3, <1>4, <2>2
  <2> QED  BY <2>1, <2>2
<1>6. u \o v = s
  BY <1>3, <1>4, <1>5, SeqEqual
<1> QED  BY <1>6 DEF u, v

\* A sequence cut out of which is one element.
LEMMA CutAt ==
    ASSUME NEW A, NEW s \in Seq(A), NEW n \in 1 .. Len(s)
    PROVE  SubSeq(s, 1, n - 1) \o <<s[n]>> \o SubSeq(s, n + 1, Len(s)) = s
<1> DEFINE k == n - 1
           u == SubSeq(s, 1, k)
           v == SubSeq(s, n, Len(s))
           w == SubSeq(s, n + 1, Len(s))
           c == s[n]
<1>1. k \in Nat /\ k <= Len(s) /\ k + 1 = n /\ n \in Nat /\ n <= Len(s) /\ c \in A
  OBVIOUS
<1>2. u \in Seq(A) /\ u \o v = s
  <2>1. SubSeq(s, k + 1, Len(s)) = v
    BY <1>1
  <2> HIDE DEF k
  <2> QED  BY <1>1, <2>1, Cut, FirstOf
<1>3. w \in Seq(A) /\ Len(w) = Len(s) - n /\ \A i \in 1 .. Len(s) - n : w[i] = s[n + i]
  BY <1>1, LastOf
<1>4. v \in Seq(A) /\ Len(v) = Len(s) - k /\ \A i \in 1 .. Len(s) - k : v[i] = s[k + i]
  <2>1. SubSeq(s, k + 1, Len(s)) = v
    BY <1>1
  <2> HIDE DEF k, v
  <2>2. /\ SubSeq(s, k + 1, Len(s)) \in Seq(A) /\ Len(SubSeq(s, k + 1, Len(s))) = Len(s) - k
        /\ \A i \in 1 .. Len(s) - k : SubSeq(s, k + 1, Len(s))[i] = s[k + i]
    BY <1>1, LastOf
  <2> QED  BY <2>1, <2>2
<1> HIDE DEF k, u, v, w
<1>5. <<c>> \o w = v
  <2> DEFINE o == <<c>>
  <2>1. o \in Seq(A) /\ Len(o) = 1 /\ o[1] = c
    BY <1>1
  <2> HIDE DEF o
  <2>2. /\ o \o w \in Seq(A) /\ Len(o \o w) = Len(o) + Len(w)
        /\ \A i \in 1 .. Len(o) + Len(w) : (o \o w)[i] = IF i <= Len(o) THEN o[i] ELSE w[i - Len(o)]
    BY <2>1, <1>3, ConcatProperties
  <2>3. Len(o) + Len(w) = Len(v) /\ Len(s) \in Nat
    <3>1. Len(o) = 1 /\ Len(w) = Len(s) - n /\ Len(v) = Len(s) - k
      BY <2>1, <1>3, <1>4
    <3>2. k + 1 = n /\ n \in Nat /\ k \in Nat /\ Len(s) \in Nat
      BY <1>1
    <3> QED  BY <3>1, <3>2
  <2>4. ASSUME NEW i \in 1 .. Len(v) PROVE (o \o w)[i] = v[i]
    <3>1. (o \o w)[i] = IF i <= 1 THEN o[i] ELSE w[i - 1]
      BY <2>1, <2>2, <2>3
    <3>2. v[i] = s[k + i]
      BY <1>4
    <3>3. CASE i = 1
      BY <3>1, <3>2, <3>3, <2>1, <1>1
    <3>4. CASE i # 1
      <4>1. i - 1 \in 1 .. Len(s) - n /\ n + (i - 1) = k + i /\ ~(i <= 1)
        BY <3>4, <1>1, <1>4, <2>3
      <4> QED  BY <4>1, <3>1, <3>2, <1>3
    <3> QED  BY <3>3, <3>4
  <2>5. o \o w = v
    BY <2>2, <2>3, <2>4, <1>4, SeqEqual
  <2> QED  BY <2>5 DEF o
<1>6. u \o <<c>> \o w = u \o (<<c>> \o w)
  <2> DEFINE o == <<c>>
  <2>1. o \in Seq(A)
    BY <1>1
  <2> HIDE DEF o
  <2>3. u \in Seq(A) /\ w \in Seq(A)
    BY <1>2, <1>3
  <2>2. (u \o o) \o w = u \o (o \o w)
    <3>1. \A x, y, z \in Seq(A) : (x \o y) \o z = x \o (y \o z)
      BY ONLY Regroup, SMTT(60)
    <3> QED  BY ONLY <3>1, <2>1, <2>3
  <2> QED  BY <2>2 DEF o
<1> QED  BY <1>2, <1>5, <1>6 DEF u, w, k

\* The word without one of the slashes it may begin with.
Stem(w) == IF Slash(w) = 0 THEN w ELSE Front0(w) \o Part(w)

\* What a completion starts with is the word, or the word without the second of two
\* slashes at its start: a directory that is the root is not followed by one more.
LEMMA StemIs ==
    ASSUME NEW A, NEW w \in Seq(A), "/" \in A
    PROVE  /\ Front0(w) \in Seq(A) /\ Part(w) \in Seq(A) /\ Stem(w) \in Seq(A)
           /\ Slash(w) = 0 => Part(w) = w
           /\ ~Contains(w, "/") => Stem(w) = w
           /\ \/ Stem(w) = w
              \/ /\ Len(w) >= 2 /\ w[1] = "/" /\ w[2] = "/" /\ Stem(w) = RemoveAt(w, 2)
                 /\ Len(Stem(w)) = Len(w) - 1
<1> DEFINE b == Slash(w)
<1>1. b \in 0 .. Len(w) /\ b \in Nat /\ b <= Len(w) /\ Len(w) \in Nat
  BY SlashIs
<1>2. PICK c \in A : c = "/"
  OBVIOUS
<1>3. b # 0 => w[b] = c
  BY <1>2, SlashIs
<1>4. b = 0 => ~Contains(w, c)
  BY <1>2, SlashIs
<1>5. ~Contains(w, c) => b = 0
  <2> SUFFICES ASSUME b # 0 PROVE Contains(w, c)
    OBVIOUS
  <2>1. b \in 1 .. Len(w)
    BY <1>1
  <2> QED  BY <2>1, <1>3 DEF Contains
<1>6. /\ Dir(w) = CASE b = 0 -> <<".">> [] b = 1 -> <<c>> [] OTHER -> SubSeq(w, 1, b - 1)
      /\ Front0(w) = IF b = 0 THEN <<>> ELSE IF Dir(w) = <<c>> THEN <<c>> ELSE Dir(w) \o <<c>>
      /\ Part(w) = SubSeq(w, b + 1, Len(w))
      /\ Stem(w) = IF b = 0 THEN w ELSE Front0(w) \o Part(w)
  BY <1>2 DEF Dir, Front0, Part, Stem
<1> HIDE DEF b
<1>7. Part(w) \in Seq(A)
  BY <1>1, <1>6, LastOf
<1>8. <<c>> \in Seq(A) /\ Len(<<c>>) = 1 /\ <<c>>[1] = c
  OBVIOUS
<1>9. CASE b = 0
  <2>1. SubSeq(w, b + 1, Len(w)) = w
    <3> DEFINE v == SubSeq(w, b + 1, Len(w))
    <3>1. v \in Seq(A) /\ Len(v) = Len(w) - b /\ \A i \in 1 .. Len(w) - b : v[i] = w[b + i]
      BY <1>1, LastOf
    <3> HIDE DEF v
    <3>2. Len(v) = Len(w) /\ \A i \in 1 .. Len(v) : v[i] = w[i]
      BY <3>1, <1>1, <1>9
    <3>3. v = w
      BY <3>1, <3>2, SeqEqual
    <3> QED  BY <3>3 DEF v
  <2>2. Front0(w) \in Seq(A) /\ Stem(w) = w
    BY <1>6, <1>9
  <2> QED  BY <2>1, <2>2, <1>2, <1>5, <1>6, <1>7 DEF b
<1>10. CASE b # 0
  <2> DEFINE k == b - 1
             u == SubSeq(w, 1, k)
  <2>1. b \in 1 .. Len(w) /\ k \in Nat /\ k <= Len(w)
    BY <1>1, <1>10
  <2>2. u \in Seq(A) /\ Len(u) = k /\ \A i \in 1 .. k : u[i] = w[i]
    <3> HIDE DEF k
    <3> QED  BY <2>1, FirstOf
  <2>3. u \o <<w[b]>> \o SubSeq(w, b + 1, Len(w)) = w
    BY <2>1, CutAt
  <2>4. u \o <<c>> \o Part(w) = w
    BY <2>3, <1>3, <1>6, <1>10
  <2>5. CASE b = 1
    <3>1. u = <<>>
      <4>1. Len(u) = 0
        BY <2>2, <2>5
      <4> HIDE DEF u
      <4> QED  BY <4>1, <2>2
    <3>2. Front0(w) = <<c>> /\ Stem(w) = <<c>> \o Part(w)
      BY <2>5, <1>6
    <3>3. <<c>> = u \o <<c>>
      <4> DEFINE o == <<c>>
      <4>1. o \in Seq(A)
        BY <1>8
      <4> HIDE DEF o, u
      <4>2. o = u \o o
        BY <3>1, <4>1, ConcatEmptySeq
      <4> QED  BY <4>2 DEF o
    <3>4. Stem(w) = w
      BY <2>4, <3>2, <3>3
    <3> QED  BY <3>2, <3>4, <1>7, <1>8, <2>5 DEF b
  <2>6. CASE b # 1
    <3>1. Dir(w) = u
      BY <2>6, <1>6, <1>10
    <3>2. CASE u = <<c>>
      <4>1. k = 1 /\ b = 2
        BY <3>2, <2>2, <1>8, <1>1
      <4>2. w[1] = c /\ w[2] = c
        <5> HIDE DEF u
        <5>1. u[1] = c
          BY <3>2
        <5>2. 1 \in 1 .. k
          BY <4>1
        <5>3. u[1] = w[1]
          BY <5>2, <2>2
        <5> QED  BY <5>1, <5>3, <4>1, <1>3
      <4>3. Stem(w) = <<c>> \o Part(w) /\ Front0(w) = <<c>>
        BY <3>1, <3>2, <1>6, <1>10
      <4>4. RemoveAt(w, 2) = u \o Part(w)
        BY <4>1, <1>6 DEF RemoveAt
      <4>5. Stem(w) \in Seq(A) /\ Len(Stem(w)) = 1 + Len(Part(w))
        BY <4>3, <1>7, <1>8
      <4>6. Len(Part(w)) = Len(w) - 2 /\ Len(w) >= 2
        <5>1. Len(SubSeq(w, b + 1, Len(w))) = Len(w) - b
          BY <1>1, LastOf
        <5> QED  BY <5>1, <4>1, <1>1, <1>6
      <4>7. Len(Stem(w)) = Len(w) - 1
        BY <4>5, <4>6, <1>1
      <4>8. Contains(w, "/")
        <5>1. 1 \in 1 .. Len(w)
          BY <4>6, <1>1
        <5> QED  BY <5>1, <4>2, <1>2 DEF Contains
      <4> QED  BY <4>1, <4>2, <4>3, <4>4, <4>5, <4>6, <4>7, <4>8, <1>2, <1>7, <1>8, <3>2 DEF b
    <3>3. CASE u # <<c>>
      <4>1. Front0(w) = u \o <<c>> /\ Stem(w) = w
        BY <3>1, <3>3, <2>4, <1>6, <1>10
      <4>2. Front0(w) \in Seq(A)
        BY <4>1, <2>2, <1>8
      <4> QED  BY <4>1, <4>2, <1>7, <1>10, SMTT(60) DEF b
    <3> QED  BY <3>2, <3>3
  <2> QED  BY <2>5, <2>6
<1> QED  BY <1>9, <1>10

\* A text that begins with a part of another is one the other begins with too.
LEMMA PrefixWithin ==
    ASSUME NEW A, NEW f \in Seq(A), NEW p \in Seq(A), NEW n \in Seq(A), NEW t \in Seq(A),
           IsPrefix(p, n)
    PROVE  IsPrefix(p, n \o t) /\ IsPrefix(f \o p, f \o n \o t)
<1>1. Len(p) <= Len(n) /\ \A i \in 1 .. Len(p) : p[i] = n[i]
  BY PrefixMeans
<1>2. Len(p) \in Nat /\ Len(n) \in Nat /\ Len(t) \in Nat /\ Len(f) \in Nat
  OBVIOUS
<1>3. /\ n \o t \in Seq(A) /\ Len(n \o t) = Len(n) + Len(t)
      /\ \A i \in 1 .. Len(n) + Len(t) : (n \o t)[i] = IF i <= Len(n) THEN n[i] ELSE t[i - Len(n)]
  BY ConcatProperties
<1>4. \A i \in 1 .. Len(p) : p[i] = (n \o t)[i]
  <2> SUFFICES ASSUME NEW i \in 1 .. Len(p) PROVE p[i] = (n \o t)[i]
    OBVIOUS
  <2>1. i \in 1 .. Len(n) + Len(t) /\ i <= Len(n)
    BY <1>1, <1>2
  <2> QED  BY <2>1, <1>1, <1>3
<1>5. Len(p) <= Len(n \o t)
  BY <1>1, <1>2, <1>3
<1>6. IsPrefix(p, n \o t)
  BY <1>3, <1>4, <1>5, PrefixMeans
<1> DEFINE r == n \o t
<1>7. f \o n \o t = f \o r
  BY ConcatAssociative
<1>8. r \in Seq(A) /\ Len(p) <= Len(r) /\ \A i \in 1 .. Len(p) : p[i] = r[i]
  BY <1>3, <1>4, <1>5
<1> HIDE DEF r
<1>9. /\ f \o p \in Seq(A) /\ Len(f \o p) = Len(f) + Len(p)
      /\ \A i \in 1 .. Len(f) + Len(p) : (f \o p)[i] = IF i <= Len(f) THEN f[i] ELSE p[i - Len(f)]
  BY ConcatProperties
<1>10. /\ f \o r \in Seq(A) /\ Len(f \o r) = Len(f) + Len(r)
       /\ \A i \in 1 .. Len(f) + Len(r) : (f \o r)[i] = IF i <= Len(f) THEN f[i] ELSE r[i - Len(f)]
  BY <1>8, ConcatProperties
<1>11. Len(f) + Len(p) <= Len(f) + Len(r) /\ Len(r) \in Nat
  BY <1>2, <1>8
<1>12. ASSUME NEW i \in 1 .. Len(f) + Len(p) PROVE (f \o p)[i] = (f \o r)[i]
  <2>1. i \in 1 .. Len(f) + Len(r)
    BY <1>2, <1>11
  <2>2. CASE i <= Len(f)
    BY <2>1, <2>2, <1>9, <1>10
  <2>3. CASE ~(i <= Len(f))
    <3>1. i - Len(f) \in 1 .. Len(p)
      BY <2>3, <1>2
    <3> QED  BY <2>1, <2>3, <3>1, <1>8, <1>9, <1>10
  <2> QED  BY <2>2, <2>3
<1>13. IsPrefix(f \o p, f \o r)
  BY <1>9, <1>10, <1>11, <1>12, PrefixMeans
<1> QED  BY <1>6, <1>7, <1>13

\* All that a word can be completed to begins with it, but for one of two
\* slashes, and is made of the characters that the word and the names are.
LEMMA FileExtends ==
    ASSUME NEW A, "/" \in A, \A d \in DOMAIN Tree : Tree[d] \subseteq Seq(A),
           NEW w \in Seq(A), NEW c \in FindFileCompletions(w)
    PROVE  c \in Seq(A) /\ IsPrefix(Stem(w), c)
<1>1. PICK d \in DOMAIN Tree : \E n \in Tree[d] : \E t \in {<<>>, <<"/">>} :
             /\ IsPrefix(Part(w), n)
             /\ c = IF Slash(w) = 0 THEN n \o t ELSE Front0(w) \o n \o t
  BY FileIs
<1>2. PICK n \in Tree[d] : \E t \in {<<>>, <<"/">>} :
             /\ IsPrefix(Part(w), n)
             /\ c = IF Slash(w) = 0 THEN n \o t ELSE Front0(w) \o n \o t
  BY <1>1
<1>3. PICK t \in {<<>>, <<"/">>} :
             /\ IsPrefix(Part(w), n)
             /\ c = IF Slash(w) = 0 THEN n \o t ELSE Front0(w) \o n \o t
  BY <1>2
<1>4. PICK s \in A : s = "/"
  OBVIOUS
<1>5. t \in Seq(A)
  <2>1. <<>> \in Seq(A) /\ <<s>> \in Seq(A)
    BY OneChar, EmptySeq
  <2>2. t = <<>> \/ t = <<s>>
    BY <1>4
  <2> QED  BY <2>1, <2>2
<1>6. n \in Seq(A)
  OBVIOUS
<1> DEFINE f == Front0(w)
           p == Part(w)
<1>7. f \in Seq(A) /\ p \in Seq(A) /\ (Slash(w) = 0 => p = w)
  BY StemIs
<1>8. c = (IF Slash(w) = 0 THEN n \o t ELSE f \o n \o t)
      /\ Stem(w) = (IF Slash(w) = 0 THEN w ELSE f \o p) /\ IsPrefix(p, n)
  BY <1>3 DEF Stem
<1> HIDE DEF f, p
<1>9. IsPrefix(p, n \o t) /\ IsPrefix(f \o p, f \o n \o t)
  BY <1>5, <1>6, <1>7, <1>8, PrefixWithin
<1>10. n \o t \in Seq(A) /\ f \o n \o t \in Seq(A)
  <2>1. n \o t \in Seq(A) /\ f \o n \in Seq(A)
    BY <1>5, <1>6, <1>7, ConcatProperties
  <2> QED  BY <2>1, <1>5, ConcatProperties
<1> QED  BY <1>7, <1>8, <1>9, <1>10

\* A command that is found starts with the word.
LEMMA CommandExtends ==
    ASSUME NEW A, Commands \subseteq Seq(A), NEW w \in Seq(A), "/" \in A, ~Contains(w, "/"),
           NEW c \in FindCommandCompletions(w)
    PROVE  c \in Seq(A) /\ IsPrefix(Stem(w), c)
<1>1. Stem(w) = w
  BY StemIs
<1> QED  BY <1>1 DEF FindCommandCompletions

\* A word that was completed: some of what it can become stands in its place.
Completed(x, A, y) ==
  /\ CurrentWord(x) # <<>>
  /\ \E c \in Seq(A) : \E k \in 0 .. Len(c) :
       /\ IsPrefix(Stem(CurrentWord(x)), c) /\ Len(Stem(CurrentWord(x))) <= k
       /\ Before(y) = SubSeq(Before(x), 1, WordStart(x)) \o SubSeq(c, 1, k)
       /\ Behind(y) = Behind(x)

\* Replacing the current word by one that starts with its stem completes it.
LEMMA ReplaceCompletes ==
    ASSUME NEW x, Good(x), NEW A \in SUBSET Printable, NEW c \in Seq(A), CurrentWord(x) # <<>>,
           "/" \in A, IsPrefix(Stem(CurrentWord(x)), c)
    PROVE  LET y == Replace(x, CurrentWord(x), c) IN Good(y) /\ Completed(x, A, y)
<1> DEFINE w == CurrentWord(x)
           v == EraseAll(x, w)
           y == FoldLeft(InsertChar, v, c)
           b == WordStart(x)
           s == Stem(w)
<1>1. Replace(x, w, c) = y
  BY ReplaceIs
<1>2. /\ x.cursor \in Nat /\ x.length \in Nat /\ x.cursor <= x.length
      /\ x.length <= MAX_BUFFER_LINE - 2 /\ MAX_BUFFER_LINE \in Nat
  BY Numbers
<1>3. b \in 0 .. x.cursor /\ w \in Seq(Printable) /\ Len(w) = x.cursor - b
  BY WordIs
<1> HIDE DEF w, v, b, y
<1>4. Len(w) <= x.cursor /\ x.cursor - Len(w) = b /\ Len(w) \in Nat /\ b \in Nat
  BY <1>2, <1>3
<1>5. /\ Good(v) /\ v.cursor = b /\ v.length = x.length - Len(w)
      /\ Before(v) = SubSeq(Before(x), 1, b) /\ Behind(v) = Behind(x)
  BY <1>3, <1>4, EraseGood DEF v
<1>6. c \in Seq(Printable)
  OBVIOUS
<1>7. PICK k \in 0 .. Len(c) : /\ Taken(v, c, k, y)
                               /\ k = Len(c) \/ y.length = MAX_BUFFER_LINE - 2
  BY <1>5, <1>6, InsertAllGood DEF y
<1>8. /\ Good(y) /\ Behind(y) = Behind(x)
      /\ Before(y) = SubSeq(Before(x), 1, b) \o SubSeq(c, 1, k)
      /\ y.length = (x.length - Len(w)) + k
  BY <1>5, <1>7 DEF Taken
<1>9. "/" \in Printable
  OBVIOUS
<1>10. s \in Seq(Printable) /\ Len(s) <= Len(w)
  <2>1. /\ s \in Seq(Printable)
        /\ s = w \/ Len(s) = Len(w) - 1
    BY <1>3, <1>9, StemIs
  <2> HIDE DEF s
  <2> QED  BY <2>1, <1>4
<1>11. IsPrefix(s, c)
  BY DEF w
<1> HIDE DEF s
<1>12. Len(s) <= Len(c) /\ Len(c) \in Nat /\ Len(s) \in Nat /\ k \in Nat
  <2>1. Len(s) <= Len(c)
    BY <1>11 DEF IsPrefix
  <2> QED  BY <2>1, <1>6, <1>10
<1>13. Len(s) <= k
  <2>1. CASE k = Len(c)
    BY <2>1, <1>12
  <2>2. CASE y.length = MAX_BUFFER_LINE - 2
    <3>1. (x.length - Len(w)) + k = MAX_BUFFER_LINE - 2
      BY <2>2, <1>8
    <3> QED  BY <3>1, <1>2, <1>4, <1>10, <1>12
  <2> QED  BY <2>1, <2>2, <1>7
<1>14. \E j \in 0 .. Len(c) : /\ IsPrefix(s, c) /\ Len(s) <= j
                              /\ Before(y) = SubSeq(Before(x), 1, b) \o SubSeq(c, 1, j)
                              /\ Behind(y) = Behind(x)
  BY <1>8, <1>11, <1>13
<1>15. Good(y) /\ Completed(x, A, y)
  BY <1>8, <1>14 DEF Completed, s, w, b
<1> QED  BY <1>1, <1>15 DEF w

\* The key, whatever the names are: a line that fits, with the word completed or
\* as it was.
LEMMA TabStep ==
    ASSUME NEW x, Good(x), NEW double, NEW A \in SUBSET Printable, "/" \in A,
           CurrentWord(x) \in Seq(A), Commands \subseteq Seq(A),
           \A d \in DOMAIN Tree : Tree[d] \subseteq Seq(A)
    PROVE  LET y == HandleTabCompletion(x, double)
           IN  Good(y) /\ (SameLine(y, x) \/ Completed(x, A, y))
<1> DEFINE w        == CurrentWord(x)
           commands == IF IsFirstWord(x) /\ ~Contains(w, "/") THEN FindCommandCompletions(w) ELSE {}
           files    == FindFileCompletions(w)
           count    == Cardinality(commands) + Cardinality(files)
           S        == commands \cup files
           common   == Common(S)
           again    == Write(x, <<"\n">> \o Piece(x.buf, 0, x.length) \o Times(x.length - x.cursor, BS))
           y        == HandleTabCompletion(x, double)
<1>1. y = IF w = <<>> \/ count = 0 THEN x
          ELSE IF double THEN again
          ELSE IF count = 1 \/ Len(common) > Len(w) THEN Replace(x, w, common)
          ELSE x
  BY DEF HandleTabCompletion
<1>2. S = {} => count = 0
  <2>1. S = {} => commands = {} /\ files = {}
    OBVIOUS
  <2> HIDE DEF commands, files
  <2>2. S = {} => Cardinality(commands) = 0 /\ Cardinality(files) = 0
    BY <2>1, FS_EmptySet
  <2> QED  BY <2>2
<1>3. ASSUME NEW c \in S PROVE c \in Seq(A) /\ IsPrefix(Stem(w), c)
  <2>1. CASE c \in files
    BY <2>1, FileExtends
  <2>2. CASE c \in commands
    <3>1. ~Contains(w, "/") /\ c \in FindCommandCompletions(w)
      BY <2>2
    <3> HIDE DEF w
    <3>2. w \in Seq(A)
      BY DEF w
    <3> QED  BY <3>1, <3>2, CommandExtends
  <2> QED  BY <2>1, <2>2
<1>4. Good(again) /\ SameLine(again, x)
  BY AgainGood
<1>5. ASSUME S # {}, w # <<>> PROVE LET z == Replace(x, w, common) IN Good(z) /\ Completed(x, A, z)
  <2>1. S \in SUBSET Seq(A)
    BY <1>3
  <2> HIDE DEF S
  <2>2. PICK s \in S : \E n \in 0 .. Len(s) :
             /\ common = SubSeq(s, 1, n)
             /\ \A p \in Seq(A) : (\A t \in S : IsPrefix(p, t)) => Len(p) <= n
    BY <1>5, <2>1, CommonIs
  <2>3. PICK n \in 0 .. Len(s) :
             /\ common = SubSeq(s, 1, n)
             /\ \A p \in Seq(A) : (\A t \in S : IsPrefix(p, t)) => Len(p) <= n
    BY <2>2
  <2>4. s \in Seq(A) /\ Len(s) \in Nat /\ n \in Nat /\ n <= Len(s)
    BY <2>1
  <2> DEFINE p == Stem(w)
  <2>5. p \in Seq(A) /\ \A t \in S : IsPrefix(p, t)
    BY <1>3, StemIs
  <2> HIDE DEF p, common
  <2>6. Len(p) <= n
    BY <2>3, <2>5
  <2>7. common \in Seq(A) /\ Len(common) = n /\ \A i \in 1 .. n : common[i] = s[i]
    BY <2>3, <2>4, FirstOf
  <2>8. IsPrefix(p, s)
    BY <2>5
  <2>9. \A i \in 1 .. Len(p) : p[i] = s[i]
    BY <2>4, <2>5, <2>8, PrefixMeans
  <2>10. 1 .. Len(p) \subseteq 1 .. n
    BY <2>4, <2>5, <2>6
  <2>11. \A i \in 1 .. Len(p) : p[i] = common[i]
    BY <2>7, <2>9, <2>10
  <2>12. IsPrefix(p, common)
    BY <2>5, <2>6, <2>7, <2>11, PrefixMeans
  <2> QED  BY <2>7, <2>12, <1>5, ReplaceCompletes DEF p
<1> HIDE DEF y, S, count, common, again
<1>6. CASE y = x
  BY <1>6 DEF SameLine, y
<1>7. CASE y = again
  BY <1>4, <1>7 DEF y
<1>8. CASE y = Replace(x, w, common) /\ w # <<>> /\ count # 0
  <2>1. S # {}
    BY <1>2, <1>8
  <2>2. Good(y) /\ Completed(x, A, y)
    BY <1>5, <1>8, <2>1
  <2> QED  BY <2>2 DEF y
<1> QED  BY <1>1, <1>6, <1>7, <1>8

\* Tab, whatever it does, keeps the array and the terminal together.
LEMMA TabGood ==
    ASSUME NEW x, Good(x), NEW double
    PROVE  Good(HandleTabCompletion(x, double))
<1>1. /\ Printable \in SUBSET Printable /\ "/" \in Printable /\ Commands \subseteq Seq(Printable)
      /\ \A d \in DOMAIN Tree : Tree[d] \subseteq Seq(Printable)
  BY EditorAssumption
<1>2. CurrentWord(x) \in Seq(Printable)
  BY WordIs
<1> QED  BY <1>1, <1>2, TabStep

-----------------------------------------------------------------------------
\* The line that is entered, as a C string and as it is handed over.
Text0(x) == Piece(x.buf, 0, x.length)

\* The C string in an array, up to its first NUL.
LEMMA StringIs ==
    ASSUME NEW n \in Nat, NEW b \in [0 .. n -> Characters], NEW i \in Nat, NEW k \in Nat,
           i + k <= n, b[i + k] = NUL, \A j \in i .. i + k - 1 : b[j] # NUL
    PROVE  CString(b, i) = Piece(b, i, k)
<1> DEFINE P(m) == m >= i /\ b[m] = NUL /\ \A j \in i .. m - 1 : b[j] # NUL
           o == i + k
<1>1. o \in DOMAIN b /\ P(o)
  OBVIOUS
<1>2. ASSUME NEW m \in DOMAIN b, P(m) PROVE m = o
  <2>1. m \in Int /\ o \in Int /\ i \in Int /\ m >= i /\ o >= i
    BY <1>2
  <2>2. CASE m < o
    <3>1. m \in i .. i + k - 1
      BY <2>1, <2>2
    <3> QED  BY <3>1, <1>2
  <2>3. CASE m > o
    <3>1. o \in i .. m - 1
      BY <2>1, <2>3
    <3> QED  BY <3>1, <1>2
  <2> QED  BY <2>1, <2>2, <2>3
<1>3. (CHOOSE m \in DOMAIN b : P(m)) = o
  <2> HIDE DEF P, o
  <2> QED  BY <1>1, <1>2
<1>4. CString(b, i) = [j \in 1 .. o - i |-> b[i + j - 1]]
  BY <1>3 DEF CString
<1>5. o - i = k
  OBVIOUS
<1> QED  BY <1>4, <1>5 DEF Piece

\* The line is its two halves.
LEMMA TextIs ==
    ASSUME NEW x, Good(x)
    PROVE  /\ Text0(x) \in Lines /\ Text0(x) \in Seq(Printable) /\ Len(Text0(x)) = x.length
           /\ \A i \in 1 .. x.length : Text0(x)[i] = x.buf[i - 1]
           /\ Text0(x) = Before(x) \o Behind(x)
<1> DEFINE o == 0
           l == x.length
           a == x.cursor
           n == x.length - x.cursor
           t == Piece(x.buf, o, l)
           p == Before(x)
           q == Behind(x)
<1>1. /\ l \in Nat /\ o \in Nat /\ o + l <= x.length /\ l <= MAX_BUFFER_LINE - 2
      /\ \A i \in 1 .. l : o + i - 1 = i - 1
      /\ a \in Nat /\ n \in Nat /\ a + n = l
  BY Numbers
<1>2. /\ p \in Seq(Printable) /\ Len(p) = a /\ \A i \in 1 .. a : p[i] = x.buf[i - 1]
      /\ q \in Seq(Printable) /\ Len(q) = n /\ \A i \in 1 .. n : q[i] = x.buf[a + i - 1]
  BY Halves
<1> HIDE DEF o, l, a, n
<1>3. t \in Seq(Printable) /\ Len(t) = l /\ \A i \in 1 .. l : t[i] = x.buf[o + i - 1]
  BY <1>1, PieceIs
<1>4. t \in Seq(Printable) /\ Len(t) = l /\ \A i \in 1 .. l : t[i] = x.buf[i - 1]
  BY <1>1, <1>3
<1>5. Text0(x) = t
  BY DEF Text0, o, l
<1> HIDE DEF t, p, q
<1>6. t \in Lines
  BY <1>1, <1>4 DEF Lines
<1>7. /\ p \o q \in Seq(Printable) /\ Len(p \o q) = Len(p) + Len(q)
      /\ \A i \in 1 .. Len(p) + Len(q) : (p \o q)[i] = IF i <= Len(p) THEN p[i] ELSE q[i - Len(p)]
  BY <1>2, ConcatProperties
<1>8. Len(p) + Len(q) = l /\ Len(p) = a
  BY <1>1, <1>2
<1>9. ASSUME NEW i \in 1 .. l PROVE t[i] = (p \o q)[i]
  <2>1. CASE i <= a
    <3>1. i \in 1 .. a
      BY <2>1, <1>1
    <3> QED  BY <3>1, <2>1, <1>2, <1>4, <1>7, <1>8
  <2>2. CASE ~(i <= a)
    <3>1. i - a \in 1 .. n /\ a + (i - a) - 1 = i - 1
      BY <2>2, <1>1
    <3> QED  BY <3>1, <2>2, <1>2, <1>4, <1>7, <1>8
  <2> QED  BY <2>1, <2>2
<1>10. t = p \o q
  BY <1>4, <1>7, <1>8, <1>9, SeqEqual
<1> QED  BY <1>4, <1>5, <1>6, <1>10 DEF p, q, l

\* The array after the key that ends the line.
Ended(buf, l) == [buf EXCEPT ![l] = "\n", ![l + 1] = NUL]

\* The array once the newline and the NUL are behind the line.
LEMMA EndedIs ==
    ASSUME NEW buf \in [0 .. MAX_BUFFER_LINE - 1 -> Characters], NEW l \in Nat,
           l <= MAX_BUFFER_LINE - 2
    PROVE  /\ Ended(buf, l) \in [0 .. MAX_BUFFER_LINE - 1 -> Characters]
           /\ Ended(buf, l)[l] = "\n" /\ Ended(buf, l)[l + 1] = NUL
           /\ \A j \in 0 .. l - 1 : Ended(buf, l)[j] = buf[j]
<1>1. PICK c \in Characters : c = "\n"
  BY DEF Characters
<1>2. PICK d \in Characters : d = NUL
  BY DEF Characters
<1>3. Ended(buf, l) = [buf EXCEPT ![l] = c, ![l + 1] = d]
  BY <1>1, <1>2 DEF Ended
<1>4. MAX_BUFFER_LINE \in Nat
  BY Room
<1> DEFINE b == [buf EXCEPT ![l] = c, ![l + 1] = d]
<1>5. /\ l \in 0 .. MAX_BUFFER_LINE - 1 /\ l + 1 \in 0 .. MAX_BUFFER_LINE - 1 /\ l # l + 1
      /\ \A j \in 0 .. l - 1 : j \in 0 .. MAX_BUFFER_LINE - 1 /\ j # l /\ j # l + 1
  BY <1>4
<1>6. b \in [0 .. MAX_BUFFER_LINE - 1 -> Characters]
  OBVIOUS
<1>7. b[l] = c /\ b[l + 1] = d /\ \A j \in 0 .. l - 1 : b[j] = buf[j]
  BY <1>5
<1> HIDE DEF b
<1> QED  BY <1>1, <1>2, <1>3, <1>6, <1>7 DEF b

\* mygetc hands over the line and its newline: first element 0, then the C string at 1.
LEMMA HandedIs ==
    ASSUME NEW buf \in [0 .. MAX_BUFFER_LINE - 1 -> Characters], NEW l \in Nat,
           l <= MAX_BUFFER_LINE - 2, \A j \in 1 .. l - 1 : buf[j] \in Printable
    PROVE  LET b == Ended(buf, l)
           IN  /\ CString(b, 1) = Piece(b, 1, l) /\ Handed(b) \in Seq(Characters)
               /\ Len(Handed(b)) = l + 1
               /\ \A i \in 1 .. l + 1 : Handed(b)[i] = b[i - 1]
<1> DEFINE b == Ended(buf, l)
           o == 1
           n == MAX_BUFFER_LINE - 1
           p == Piece(b, o, l)
           c == b[0]
<1>1. MAX_BUFFER_LINE \in Nat /\ n \in Nat /\ o \in Nat /\ o + l <= n /\ o + l = l + 1
      /\ o + l - 1 = l /\ n = MAX_BUFFER_LINE - 1
  BY Room
<1>2. /\ b \in [0 .. n -> Characters] /\ b[l] = "\n" /\ b[l + 1] = NUL
      /\ \A j \in 0 .. l - 1 : b[j] = buf[j]
  BY EndedIs
<1> HIDE DEF b
<1>3. \A j \in 1 .. l : b[j] # NUL
  <2> SUFFICES ASSUME NEW j \in 1 .. l PROVE b[j] # NUL
    OBVIOUS
  <2>1. CASE j = l
    BY <2>1, <1>2 DEF NUL
  <2>2. CASE j # l
    <3>1. j \in 1 .. l - 1 /\ j \in 0 .. l - 1
      BY <2>2
    <3>2. b[j] \in Printable
      BY <3>1, <1>2
    <3> QED  BY <3>2 DEF Printable
  <2> QED  BY <2>1, <2>2
<1>4. \A j \in o .. o + l - 1 : b[j] # NUL /\ b[j] \in Characters
  <2>1. o .. o + l - 1 = 1 .. l /\ 1 .. l \subseteq 0 .. n
    BY <1>1
  <2> QED  BY <2>1, <1>2, <1>3
<1>5. b[o + l] = NUL
  BY <1>1, <1>2
<1>10. o = 1 /\ \A i \in 1 .. l : o + i - 1 = i
  OBVIOUS
<1>11. c \in Characters
  <2>1. 0 \in 0 .. n
    BY <1>1
  <2> QED  BY <2>1, <1>2
<1> HIDE DEF o, n, c
<1>6. CString(b, o) = p
  <2>1. n \in Nat /\ o \in Nat /\ l \in Nat /\ o + l <= n
    BY <1>1
  <2>2. b \in [0 .. n -> Characters]
    BY <1>2
  <2>3. \A j \in o .. o + l - 1 : b[j] # NUL
    BY <1>4
  <2> QED  BY <2>1, <2>2, <2>3, <1>5, StringIs, Zenon
<1>7. p \in Seq(Characters) /\ Len(p) = l /\ \A i \in 1 .. l : p[i] = b[o + i - 1]
  BY <1>1, <1>4, PieceFacts, ZenonT(60)
<1>8. Handed(b) = <<c>> \o p
  BY <1>6, <1>10 DEF Handed, c
<1>9. CString(b, 1) = Piece(b, 1, l)
  BY <1>6, <1>10
<1> HIDE DEF p
<1>12. /\ <<c>> \o p \in Seq(Characters) /\ Len(<<c>> \o p) = l + 1
       /\ \A i \in 1 .. l + 1 : (<<c>> \o p)[i] = b[i - 1]
  <2> DEFINE s == <<c>>
  <2>1. s \in Seq(Characters) /\ Len(s) = 1 /\ s[1] = c
    BY <1>11
  <2> HIDE DEF s
  <2>2. /\ s \o p \in Seq(Characters) /\ Len(s \o p) = Len(s) + Len(p)
        /\ \A i \in 1 .. Len(s) + Len(p) : (s \o p)[i] = IF i <= Len(s) THEN s[i] ELSE p[i - Len(s)]
    BY <2>1, <1>7, ConcatProperties
  <2>3. Len(s) + Len(p) = l + 1
    BY <2>1, <1>7
  <2>4. ASSUME NEW i \in 1 .. l + 1 PROVE (s \o p)[i] = b[i - 1]
    <3>1. (s \o p)[i] = IF i <= 1 THEN s[i] ELSE p[i - 1]
      BY <2>1, <2>2, <2>3
    <3>2. CASE i = 1
      BY <3>1, <3>2, <2>1 DEF c
    <3>3. CASE i # 1
      <4>1. i - 1 \in 1 .. l /\ ~(i <= 1)
        BY <3>3
      <4>2. o + (i - 1) - 1 = i - 1
        BY <4>1, <1>10
      <4> QED  BY <4>1, <4>2, <3>1, <1>7
    <3> QED  BY <3>2, <3>3
  <2> QED  BY <2>2, <2>3, <2>4 DEF s
<1> QED  BY <1>8, <1>9, <1>12 DEF b

\* Enter.
LEMMA EnterString ==
    ASSUME NEW x, Good(x), NEW b, b = Ended(x.buf, x.length)
    PROVE  /\ b \in [0 .. MAX_BUFFER_LINE - 1 -> Characters]
           /\ CString(b, 0) = Append(Text0(x), "\n") /\ Len(CString(b, 0)) = x.length + 1
           /\ Front(CString(b, 0)) = Text0(x)
           /\ Handed(b) = Append(Text0(x), "\n")
<1> DEFINE l == x.length
           n == MAX_BUFFER_LINE - 1
           t == Text0(x)
           o == 0
           k == l + 1
           s == Piece(b, o, k)
<1>1. /\ l \in Nat /\ l <= MAX_BUFFER_LINE - 2 /\ n \in Nat /\ o \in Nat /\ k \in Nat
      /\ o + k <= n /\ o + k = l + 1 /\ o + k - 1 = l /\ MAX_BUFFER_LINE \in Nat
      /\ \A i \in 1 .. k : o + i - 1 = i - 1
  BY Numbers
<1>2. /\ x.buf \in [0 .. MAX_BUFFER_LINE - 1 -> Characters]
      /\ \A j \in 0 .. l - 1 : x.buf[j] \in Printable
  BY DEF Good, Fits, States
<1>3. /\ t \in Seq(Printable) /\ Len(t) = l /\ \A i \in 1 .. l : t[i] = x.buf[i - 1]
  BY TextIs
<1>4. PICK c \in Characters : c = "\n"
  BY DEF Characters
<1> HIDE DEF l, n, t, o, k, s
<1>5. /\ b \in [0 .. n -> Characters] /\ b[l] = c /\ b[l + 1] = NUL
      /\ \A j \in 0 .. l - 1 : b[j] = x.buf[j]
  BY <1>1, <1>2, <1>4, EndedIs DEF l, n
<1>6. \A j \in 0 .. l : b[j] # NUL
  <2> SUFFICES ASSUME NEW j \in 0 .. l PROVE b[j] # NUL
    OBVIOUS
  <2>1. CASE j = l
    BY <2>1, <1>4, <1>5 DEF NUL
  <2>2. CASE j # l
    <3>1. j \in 0 .. l - 1
      BY <2>2, <1>1
    <3>2. b[j] \in Printable
      BY <3>1, <1>2, <1>5
    <3> QED  BY <3>2 DEF Printable
  <2> QED  BY <2>1, <2>2
<1>7. b[o + k] = NUL /\ \A j \in o .. o + k - 1 : b[j] # NUL /\ b[j] \in Characters
  <2>1. o .. o + k - 1 = 0 .. l /\ 0 .. l \subseteq 0 .. n
    BY <1>1 DEF o
  <2> QED  BY <2>1, <1>1, <1>5, <1>6
<1>8. CString(b, o) = s
  BY <1>1, <1>5, <1>7, StringIs DEF s
<1>9. s \in Seq(Characters) /\ Len(s) = k /\ \A i \in 1 .. k : s[i] = b[o + i - 1]
  <2>1. \A j \in o .. o + k - 1 : b[j] \in Characters
    BY <1>7
  <2>2. o \in Nat /\ k \in Nat
    BY <1>1
  <2> QED  BY <2>1, <2>2, PieceFacts DEF s
<1>10. s \in Seq(Characters) /\ Len(s) = k /\ \A i \in 1 .. k : s[i] = b[i - 1]
  BY <1>1, <1>9
<1>11. /\ Append(t, c) \in Seq(Characters) /\ Len(Append(t, c)) = k
       /\ \A i \in 1 .. k : Append(t, c)[i] = b[i - 1]
  <2>1. t \in Seq(Characters)
    BY <1>3 DEF Characters
  <2>2. /\ Append(t, c) \in Seq(Characters) /\ Len(Append(t, c)) = Len(t) + 1
        /\ \A i \in 1 .. Len(t) : Append(t, c)[i] = t[i]
        /\ Append(t, c)[Len(t) + 1] = c
    BY <2>1, AppendProperties
  <2>3. Len(t) + 1 = k
    BY <1>3 DEF k
  <2>4. ASSUME NEW i \in 1 .. k PROVE Append(t, c)[i] = b[i - 1]
    <3>1. CASE i = l + 1
      <4>1. i - 1 = l
        BY <3>1, <1>1
      <4> QED  BY <3>1, <4>1, <2>2, <1>3, <1>5
    <3>2. CASE i # l + 1
      <4>1. i \in 1 .. l /\ i - 1 \in 0 .. l - 1
        BY <3>2, <1>1 DEF k
      <4> QED  BY <4>1, <2>2, <1>3, <1>5
    <3> QED  BY <3>1, <3>2
  <2> QED  BY <2>2, <2>3, <2>4
<1>12. s = Append(t, c)
  BY <1>10, <1>11, SeqEqual
<1>13. Front(s) = t
  <2>1. t \in Seq(Characters) /\ Len(s) - 1 = l
    BY <1>1, <1>3, <1>10 DEF Characters, k
  <2>2. l <= Len(s)
    BY <1>1, <1>10 DEF k
  <2> DEFINE f == SubSeq(s, 1, l)
  <2>3. f \in Seq(Characters) /\ Len(f) = l /\ \A i \in 1 .. l : f[i] = s[i]
    BY <2>2, <1>1, <1>10, FirstOf
  <2>4. Front(s) = f
    BY <2>1 DEF Front
  <2> HIDE DEF f
  <2>5. \A i \in 1 .. l : i \in 1 .. k /\ i - 1 \in 0 .. l - 1
    BY <1>1 DEF k
  <2>6. \A i \in 1 .. l : f[i] = t[i]
    BY <2>3, <2>5, <1>3, <1>5, <1>10
  <2>7. f = t
    BY <2>1, <2>3, <2>6, <1>3, SeqEqual
  <2> QED  BY <2>4, <2>7
<1>14. /\ Handed(b) \in Seq(Characters) /\ Len(Handed(b)) = k
       /\ \A i \in 1 .. k : Handed(b)[i] = b[i - 1]
  <2>1. \A j \in 1 .. l - 1 : x.buf[j] \in Printable
    BY <1>1, <1>2
  <2> QED  BY <2>1, <1>1, <1>2, HandedIs DEF l, k
<1>15. Handed(b) = Append(t, c)
  BY <1>11, <1>14, SeqEqual
<1> QED  BY <1>4, <1>5, <1>8, <1>10, <1>12, <1>13, <1>15 DEF t, l, n, o, k

-----------------------------------------------------------------------------
\* What every state of the editor has.
Blank(x) == x \in States /\ x.shown = Blanks /\ x.column = 0

EditorInv ==
  /\ pc \in {"editing", "returned", "dead"}
  /\ pc = "editing" => Good(e) /\ given = <<>>
  /\ pc = "returned" => Blank(e)
  /\ history \in Seq(Lines) /\ Len(history) <= MAX_HISTORY
  /\ index \in 0 .. Len(history)
  /\ saved \in Lines /\ browsing \in BOOLEAN

\* The empty line fits.
LEMMA EmptyLine == <<>> \in Lines
BY Room DEF Lines

\* An empty line on a blank terminal.
LEMMA EmptyGood ==
    ASSUME NEW x, Blank(x), x.length = 0, x.cursor = 0
    PROVE  Good(x)
<1>1. x \in States /\ x.column = x.cursor /\ x.shown = Blanks
  BY DEF Blank
<1>2. x.length <= MAX_BUFFER_LINE - 2 /\ x.cursor <= x.length
  BY Room
<1>3. \A i \in 0 .. x.length - 1 : x.buf[i] \in Printable
  <2>1. 0 .. x.length - 1 = {}
    OBVIOUS
  <2> QED  BY <2>1
<1>4. \A j \in 1 .. MAX_BUFFER_LINE : x.shown[j] = Cell(x, j)
  <2> SUFFICES ASSUME NEW j \in 1 .. MAX_BUFFER_LINE PROVE x.shown[j] = Cell(x, j)
    OBVIOUS
  <2>1. ~(j <= x.length)
    OBVIOUS
  <2> QED  BY <2>1, <1>1 DEF Cell, Blanks
<1> QED  BY <1>1, <1>2, <1>3, <1>4 DEF Good, Fits

\* Init establishes the invariant.
LEMMA EditorInit == Init => EditorInv
<1> SUFFICES ASSUME Init PROVE EditorInv
  OBVIOUS
<1> DEFINE f == [i \in 0 .. MAX_BUFFER_LINE - 1 |-> NUL]
           s == Blanks
           o == 0
<1>1. f \in [0 .. MAX_BUFFER_LINE - 1 -> Characters]
  <2>1. NUL \in Characters
    BY DEF Characters
  <2> QED  BY <2>1
<1>2. s \in [1 .. MAX_BUFFER_LINE -> Characters]
  <2>1. " " \in Characters
    BY EditorAssumption DEF Characters
  <2> QED  BY <2>1 DEF Blanks
<1>3. e = [buf |-> f, length |-> o, cursor |-> o, shown |-> s, column |-> o] /\ o \in Nat
  BY DEF Init
<1>7. s = Blanks /\ o = 0
  OBVIOUS
<1> HIDE DEF f, s, o
<1>4. e \in States /\ e.length = o /\ e.cursor = o /\ e.shown = s /\ e.column = o
  BY <1>1, <1>2, <1>3 DEF States
<1>5. Good(e)
  <2>1. Blank(e) /\ e.length = 0 /\ e.cursor = 0
    BY <1>4, <1>7 DEF Blank
  <2> QED  BY <2>1, EmptyGood
<1>6. /\ pc = "editing" /\ history = <<>> /\ index = 0 /\ saved = <<>> /\ browsing = FALSE
      /\ given = <<>>
  BY DEF Init
<1>8. history \in Seq(Lines) /\ Len(history) <= MAX_HISTORY /\ index \in 0 .. Len(history)
  <2>1. Len(history) = 0 /\ MAX_HISTORY \in Nat
    BY <1>6, EditorAssumption
  <2> QED  BY <2>1, <1>6
<1> QED  BY <1>5, <1>6, <1>8, EmptyLine DEF EditorInv

\* A key that edits the line changes nothing of the rest.
LEMMA EditKeeps ==
    ASSUME EditorInv, NEW x, Edit(x), Good(x), saved' \in Lines, browsing' \in BOOLEAN
    PROVE  EditorInv'
<1>1. pc = "editing" /\ e' = x /\ pc' = pc /\ history' = history /\ index' = index
      /\ given' = given
  BY DEF Edit
<1>2. Good(e')
  BY <1>1
<1>3. pc' = "editing" => Good(e)' /\ given' = <<>>
  <2>1. Good(e)'
    BY <1>2 DEF Good, Fits, States, Cell
  <2> QED  BY <2>1, <1>1 DEF EditorInv
<1> QED  BY <1>1, <1>3 DEF EditorInv

\* The keys that edit the line keep the invariant.
LEMMA KeysKeep ==
    ASSUME EditorInv,
           \/ Type \/ Backspace \/ Delete \/ Left \/ Right \/ HomeKey \/ EndKey
    PROVE  EditorInv'
<1>1. /\ saved \in Lines /\ browsing \in BOOLEAN /\ (pc = "editing" => Good(e))
  BY DEF EditorInv
<1>2. CASE Type
  <2>1. PICK c \in Keys : Edit(InsertChar(e, c))
    BY <1>2 DEF Type
  <2>2. c \in Printable /\ Good(e)
    BY <1>1, <2>1, EditorAssumption DEF Edit
  <2>3. Good(InsertChar(e, c))
    BY <2>2, InsertGood
  <2>4. saved' \in Lines /\ browsing' \in BOOLEAN
    BY <1>1, <1>2, EmptyLine DEF Type
  <2> QED  BY <2>1, <2>3, <2>4, EditKeeps
<1> DEFINE Kept(x) == Good(x) /\ EditKey(x)
<1>3. ASSUME NEW x, Kept(x) PROVE EditorInv'
  <2>1. saved' \in Lines /\ browsing' \in BOOLEAN /\ Edit(x)
    BY <1>1, <1>3 DEF EditKey
  <2> QED  BY <2>1, <1>3, EditKeeps
<1>4. Good(e) => /\ Good(BackspaceChar(e)) /\ Good(DeleteChar(e)) /\ Good(MoveLeft(e))
                 /\ Good(MoveRight(e)) /\ Good(MoveHome(e)) /\ Good(MoveEnd(e))
  <2> SUFFICES ASSUME Good(e)
               PROVE  /\ Good(BackspaceChar(e)) /\ Good(DeleteChar(e)) /\ Good(MoveLeft(e))
                      /\ Good(MoveRight(e)) /\ Good(MoveHome(e)) /\ Good(MoveEnd(e))
    OBVIOUS
  <2>1. Good(MoveLeft(e))
    <3>1. CASE e.cursor = 0
      BY <3>1 DEF MoveLeft
    <3>2. CASE e.cursor # 0
      BY <3>2, LeftGood
    <3> QED  BY <3>1, <3>2
  <2>2. Good(BackspaceChar(e))
    BY BackspaceGood
  <2>3. Good(DeleteChar(e))
    BY DeleteGood
  <2>4. Good(MoveRight(e))
    BY RightGood
  <2>5. Good(MoveHome(e))
    BY HomeGood
  <2>6. Good(MoveEnd(e))
    BY EndGood
  <2> QED  BY <2>1, <2>2, <2>3, <2>4, <2>5, <2>6
<1>5. CASE Backspace
  <2>1. Kept(BackspaceChar(e))
    BY <1>1, <1>4, <1>5 DEF Backspace, EditKey, Edit
  <2> QED  BY <1>3, <2>1
<1>6. CASE Delete
  <2>1. Kept(DeleteChar(e))
    BY <1>1, <1>4, <1>6 DEF Delete, EditKey, Edit
  <2> QED  BY <1>3, <2>1
<1>7. CASE Left
  <2>1. Kept(MoveLeft(e))
    BY <1>1, <1>4, <1>7 DEF Left, EditKey, Edit
  <2> QED  BY <1>3, <2>1
<1>8. CASE Right
  <2>1. Kept(MoveRight(e))
    BY <1>1, <1>4, <1>8 DEF Right, EditKey, Edit
  <2> QED  BY <1>3, <2>1
<1>9. CASE HomeKey
  <2>1. Kept(MoveHome(e))
    BY <1>1, <1>4, <1>9 DEF HomeKey, EditKey, Edit
  <2> QED  BY <1>3, <2>1
<1>10. CASE EndKey
  <2>1. Kept(MoveEnd(e))
    BY <1>1, <1>4, <1>10 DEF EndKey, EditKey, Edit
  <2> QED  BY <1>3, <2>1
<1> QED  BY <1>2, <1>5, <1>6, <1>7, <1>8, <1>9, <1>10

\* The same of a line, if nothing is said of the rest.
LEMMA LineKeeps ==
    ASSUME EditorInv, pc = "editing", pc' = pc, Good(e'), history' = history, given' = given,
           index' \in 0 .. Len(history), saved' \in Lines, browsing' \in BOOLEAN
    PROVE  EditorInv'
<1>1. Good(e)'
  BY DEF Good, Fits, States, Cell
<1> QED  BY <1>1 DEF EditorInv

\* Tab keeps it.
LEMMA TabKeeps == ASSUME EditorInv, Tab PROVE EditorInv'
<1>1. /\ pc = "editing" /\ pc' = pc /\ e' = HandleTabCompletion(e, tabs + 1 >= 2)
      /\ history' = history /\ index' = index /\ saved' = saved /\ browsing' = browsing
      /\ given' = given
  BY DEF Tab
<1>2. Good(e) /\ index \in 0 .. Len(history) /\ saved \in Lines /\ browsing \in BOOLEAN
  BY <1>1 DEF EditorInv
<1>3. Good(HandleTabCompletion(e, tabs + 1 >= 2))
  BY <1>2, TabGood
<1> QED  BY <1>1, <1>2, <1>3, LineKeeps

\* The up arrow keeps it: what it loads, and what it saves, fits.
LEMMA UpKeeps == ASSUME EditorInv, Up PROVE EditorInv'
<1>1. /\ pc = "editing" /\ pc' = pc /\ history' = history /\ given' = given /\ browsing' = TRUE
      /\ saved' = IF browsing THEN saved ELSE Text0(e)
  BY DEF Up, Text0
<1>2. /\ Good(e) /\ index \in 0 .. Len(history) /\ saved \in Lines
      /\ history \in Seq(Lines) /\ Len(history) \in Nat
  BY <1>1 DEF EditorInv
<1>3. saved' \in Lines
  BY <1>1, <1>2, TextIs
<1>4. CASE index > 0
  <2>1. index' = index - 1 /\ e' = Load(e, history[index])
    BY <1>4 DEF Up
  <2>2. index \in 1 .. Len(history) /\ index - 1 \in 0 .. Len(history)
    BY <1>2, <1>4
  <2>4. history[index] \in Lines
    BY <1>2, <2>2
  <2>3. Good(Load(e, history[index]))
    BY <1>2, <2>4, LoadGood
  <2> QED  BY <1>1, <1>3, <2>1, <2>2, <2>3, LineKeeps
<1>5. CASE ~(index > 0)
  <2>1. index' = index /\ e' = e
    BY <1>5 DEF Up
  <2> QED  BY <1>1, <1>2, <1>3, <2>1, LineKeeps
<1> QED  BY <1>4, <1>5

\* The down arrow keeps it: saved_line fits when it is loaded back.
LEMMA DownKeeps == ASSUME EditorInv, Down PROVE EditorInv'
<1>1. /\ pc = "editing" /\ pc' = pc /\ history' = history /\ given' = given /\ saved' = saved
  BY DEF Down
<1>2. /\ Good(e) /\ index \in 0 .. Len(history) /\ saved \in Lines /\ browsing \in BOOLEAN
      /\ history \in Seq(Lines) /\ Len(history) \in Nat
  BY <1>1 DEF EditorInv
<1>3. CASE ~browsing /\ UNCHANGED <<e, index, browsing>>
  BY <1>1, <1>2, <1>3, LineKeeps
<1>4. CASE /\ browsing /\ index < Len(history) - 1
           /\ index' = index + 1 /\ e' = Load(e, history[index + 2])
           /\ UNCHANGED browsing
  <2>1. index + 1 \in 0 .. Len(history) /\ index + 2 \in 1 .. Len(history)
    <3>1. index \in Nat /\ index < Len(history) - 1 /\ Len(history) \in Nat
      BY <1>2, <1>4
    <3> QED  BY <3>1
  <2>3. history[index + 2] \in Lines
    BY <1>2, <2>1
  <2>2. Good(Load(e, history[index + 2]))
    BY <1>2, <2>3, LoadGood
  <2> QED  BY <1>1, <1>2, <1>4, <2>1, <2>2, LineKeeps
<1>5. CASE /\ browsing /\ index >= Len(history) - 1
           /\ index' = Len(history) /\ e' = Load(e, saved)
           /\ browsing' = FALSE
  <2>1. Good(Load(e, saved)) /\ Len(history) \in 0 .. Len(history)
    BY <1>2, LoadGood
  <2> QED  BY <1>1, <1>2, <1>5, <2>1, LineKeeps
<1> QED  BY <1>3, <1>4, <1>5 DEF Down

\* What the history becomes.
LEMMA HistoryGrows ==
    ASSUME history \in Seq(Lines), Len(history) <= MAX_HISTORY, NEW line,
           Len(line) <= 1 \/ Front(line) \in Lines
    PROVE  /\ AddToHistory(line) \in Seq(Lines) /\ Len(AddToHistory(line)) <= MAX_HISTORY
           /\ Len(history) <= Len(AddToHistory(line))
<1> DEFINE c == Front(line)
           dup == Len(line) <= 1 \/ (history # <<>> /\ history[Len(history)] = c)
<1>1. AddToHistory(line) = IF dup THEN history
                           ELSE IF Len(history) < MAX_HISTORY THEN Append(history, c)
                           ELSE Append(Tail(history), c)
  BY DEF AddToHistory
<1>2. dup \/ c \in Lines
  OBVIOUS
<1> HIDE DEF dup, c
<1>3. MAX_HISTORY \in Nat /\ MAX_HISTORY # 0 /\ Len(history) \in Nat
  <2>1. MAX_HISTORY \in Nat /\ MAX_HISTORY # 0
    BY EditorAssumption
  <2>2. Len(history) \in Nat
    OBVIOUS
  <2> QED  BY <2>1, <2>2
<1>4. CASE dup
  BY <1>1, <1>3, <1>4
<1>5. CASE ~dup /\ Len(history) < MAX_HISTORY
  <2>1. AddToHistory(line) = Append(history, c) /\ c \in Lines
    BY <1>1, <1>2, <1>5
  <2>2. Append(history, c) \in Seq(Lines) /\ Len(Append(history, c)) = Len(history) + 1
    BY <2>1, AppendProperties
  <2>3. Len(history) + 1 <= MAX_HISTORY /\ Len(history) <= Len(history) + 1
    BY <1>3, <1>5
  <2> QED  BY <2>1, <2>2, <2>3
<1>6. CASE ~dup /\ ~(Len(history) < MAX_HISTORY)
  <2> DEFINE t == Tail(history)
  <2>1. AddToHistory(line) = Append(t, c) /\ c \in Lines
    BY <1>1, <1>2, <1>6
  <2>2. history # <<>> /\ Len(history) = MAX_HISTORY
    BY <1>3, <1>6
  <2>3. t \in Seq(Lines) /\ Len(t) = Len(history) - 1
    BY <2>2, HeadTailProperties
  <2> HIDE DEF t
  <2>4. Append(t, c) \in Seq(Lines) /\ Len(Append(t, c)) = Len(t) + 1
    BY <2>1, <2>3, AppendProperties
  <2>5. Len(Append(t, c)) = Len(history)
    <3>1. Len(t) + 1 = Len(history)
      BY <2>3, <1>3
    <3> QED  BY <3>1, <2>4
  <2>6. Len(history) <= Len(history)
    BY <1>3
  <2> QED  BY <2>1, <2>2, <2>4, <2>5, <2>6
<1> QED  BY <1>4, <1>5, <1>6

\* After the key that ends the line the terminal is blank.
LEMMA ReturnKeeps ==
    ASSUME EditorInv, pc = "editing", NEW buf \in [0 .. MAX_BUFFER_LINE - 1 -> Characters],
           Return(buf),
           LET s == CString(Ended(buf, e.length), 0) IN Len(s) <= 1 \/ Front(s) \in Lines
    PROVE  EditorInv'
<1> DEFINE b == Ended(buf, e.length)
           y == Put(e, "\n")
<1>1. Good(e) /\ history \in Seq(Lines) /\ Len(history) <= MAX_HISTORY
      /\ index \in 0 .. Len(history) /\ saved \in Lines /\ browsing \in BOOLEAN
  BY DEF EditorInv
<1>2. /\ e' = [y EXCEPT !.buf = b, !.length = @ + 1]
      /\ history' = AddToHistory(CString(b, 0))
      /\ pc' = "returned" /\ index' = index /\ saved' = saved /\ browsing' = browsing
  BY DEF Return, Ended
<1>3. b \in [0 .. MAX_BUFFER_LINE - 1 -> Characters]
  BY <1>1, Numbers, EndedIs
<1>4. y \in States /\ y.shown = Blanks /\ y.column = 0
  BY <1>1, NewlineFields DEF Good, Fits
<1>5. /\ AddToHistory(CString(b, 0)) \in Seq(Lines)
      /\ Len(AddToHistory(CString(b, 0))) <= MAX_HISTORY
      /\ Len(history) <= Len(AddToHistory(CString(b, 0)))
  BY <1>1, HistoryGrows
<1> HIDE DEF b, y
<1>6. Blank(e')
  <2> DEFINE m == y.length + 1
  <2>1. m \in Nat
    BY <1>4 DEF States
  <2>2. e' = [y EXCEPT !.buf = b, !.length = m]
    BY <1>2, <1>4 DEF States
  <2> HIDE DEF m
  <2>3. e' \in States /\ e'.shown = y.shown /\ e'.column = y.column
    BY <1>3, <1>4, <2>1, <2>2 DEF States
  <2> QED  BY <1>4, <2>3 DEF Blank
<1>7. Blank(e)'
  BY <1>6 DEF Blank, States, Blanks
<1>8. index' \in 0 .. Len(history')
  <2>1. Len(history') \in Nat /\ Len(history) \in Nat /\ Len(history) <= Len(history')
    BY <1>1, <1>2, <1>5
  <2> QED  BY <2>1, <1>1, <1>2
<1> QED  BY <1>1, <1>2, <1>5, <1>7, <1>8 DEF EditorInv

\* Return keeps it: what add_to_history stores fits, and the oldest line goes.
LEMMA EnterKeeps == ASSUME EditorInv, Enter PROVE EditorInv'
<1>1. pc = "editing" /\ Return(e.buf)
  BY DEF Enter
<1>2. Good(e) /\ e.buf \in [0 .. MAX_BUFFER_LINE - 1 -> Characters]
  BY <1>1 DEF EditorInv, Good, Fits, States
<1>3. Front(CString(Ended(e.buf, e.length), 0)) \in Lines
  BY <1>2, EnterString, TextIs
<1> QED  BY <1>1, <1>2, <1>3, ReturnKeeps

\* ctrl-_ leaves nothing to remember.
LEMMA UsageString ==
    ASSUME NEW x, Good(x)
    PROVE  LET u == [x.buf EXCEPT ![0] = NUL]
               b == Ended(u, x.length)
           IN  /\ u \in [0 .. MAX_BUFFER_LINE - 1 -> Characters]
               /\ Len(CString(b, 0)) <= 1 /\ Handed(b) \in Seq(Characters)
<1> DEFINE u == [x.buf EXCEPT ![0] = NUL]
           l == x.length
           b == Ended(u, l)
           n == MAX_BUFFER_LINE - 1
           o == 0
           k == IF l = 0 THEN 1 ELSE 0
           s == Piece(b, o, k)
<1>1. /\ l \in Nat /\ l <= MAX_BUFFER_LINE - 2 /\ n \in Nat /\ n = MAX_BUFFER_LINE - 1
      /\ o \in Nat /\ k \in Nat /\ o + k <= n /\ k <= 1 /\ MAX_BUFFER_LINE \in Nat /\ 0 <= n
      /\ 0 \in 0 .. n /\ 1 .. l - 1 \subseteq 0 .. l - 1
      /\ \A j \in 1 .. l - 1 : j # 0 /\ j \in 0 .. n
  BY Room, Numbers
<1>2. /\ x.buf \in [0 .. n -> Characters]
      /\ \A j \in 0 .. l - 1 : x.buf[j] \in Printable
  BY DEF Good, Fits, States
<1>3. NUL \in Characters
  BY DEF Characters
<1>4. /\ u \in [0 .. n -> Characters] /\ u[0] = NUL
      /\ \A j \in 1 .. l - 1 : u[j] = x.buf[j]
  BY <1>1, <1>2, <1>3
<1>9. o = 0 /\ (l = 0 => k = 1) /\ (l # 0 => k = 0)
  OBVIOUS
<1> HIDE DEF u, l, n, o, k
<1>5. u \in [0 .. MAX_BUFFER_LINE - 1 -> Characters]
  BY <1>1, <1>4
<1>6. /\ b \in [0 .. n -> Characters] /\ b[l] = "\n" /\ b[l + 1] = NUL
      /\ \A j \in 0 .. l - 1 : b[j] = u[j]
  BY <1>1, <1>5, EndedIs
<1>7. Handed(b) \in Seq(Characters)
  <2>1. \A j \in 1 .. l - 1 : u[j] \in Printable
    BY <1>1, <1>2, <1>4
  <2> QED  BY <2>1, <1>1, <1>5, HandedIs
<1> HIDE DEF b
<1>8. b[o + k] = NUL /\ \A j \in o .. o + k - 1 : b[j] # NUL /\ b[j] \in Characters
  <2>1. CASE l = 0
    <3>1. o + k = l + 1 /\ o .. o + k - 1 = {l}
      BY <2>1, <1>9
    <3>2. b[l] # NUL /\ b[l] \in Characters
      <4>1. l \in 0 .. n
        BY <2>1, <1>1
      <4>2. b[l] \in Characters
        BY <4>1, <1>6
      <4> QED  BY <4>2, <1>6 DEF NUL
    <3> QED  BY <3>1, <3>2, <1>6
  <2>2. CASE l # 0
    <3>1. o + k = 0 /\ o .. o + k - 1 = {} /\ 0 \in 0 .. l - 1
      BY <2>2, <1>1, <1>9
    <3> QED  BY <3>1, <1>4, <1>6
  <2> QED  BY <2>1, <2>2
<1>10. CString(b, o) = s
  BY <1>1, <1>6, <1>8, StringIs
<1>11. Len(s) = k
  <2>1. \A j \in o .. o + k - 1 : b[j] \in Characters
    BY <1>8
  <2>2. o \in Nat /\ k \in Nat
    BY <1>1
  <2> QED  BY <2>1, <2>2, PieceFacts
<1>12. Len(CString(b, 0)) <= 1
  BY <1>1, <1>9, <1>10, <1>11
<1> QED  BY <1>5, <1>7, <1>12 DEF u, b, l

\* ctrl-? keeps it.
LEMMA UsageKeeps == ASSUME EditorInv, Usage PROVE EditorInv'
<1>1. pc = "editing" /\ Return([e.buf EXCEPT ![0] = NUL])
  BY DEF Usage
<1>2. Good(e)
  BY <1>1 DEF EditorInv
<1> QED  BY <1>1, <1>2, UsageString, ReturnKeeps

\* The next call of read_line starts from an empty line.
LEMMA ReadLineKeeps == ASSUME EditorInv, ReadLine PROVE EditorInv'
<1>1. /\ pc = "returned" /\ pc' = "editing" /\ e' = [e EXCEPT !.length = 0, !.cursor = 0]
      /\ history' = history /\ index' = Len(history) /\ browsing' = FALSE /\ saved' = saved
      /\ given' = <<>>
  BY DEF ReadLine
<1>2. Blank(e) /\ history \in Seq(Lines) /\ Len(history) <= MAX_HISTORY /\ saved \in Lines
  BY <1>1 DEF EditorInv
<1>3. Blank(e') /\ e'.length = 0 /\ e'.cursor = 0
  <2> DEFINE o == 0
  <2>1. o \in Nat /\ e' = [e EXCEPT !.length = o, !.cursor = o] /\ o = 0
    BY <1>1
  <2> HIDE DEF o
  <2>2. e \in States /\ e.shown = Blanks /\ e.column = 0
    BY <1>2 DEF Blank
  <2>3. /\ e' \in States /\ e'.shown = e.shown /\ e'.column = e.column
        /\ e'.length = o /\ e'.cursor = o
    BY <2>1, <2>2 DEF States
  <2> QED  BY <2>1, <2>2, <2>3 DEF Blank
<1>4. Good(e')
  BY <1>3, EmptyGood
<1>5. Good(e)'
  BY <1>4 DEF Good, Fits, States, Cell
<1>6. Len(history) \in 0 .. Len(history)
  BY <1>2
<1> QED  BY <1>1, <1>2, <1>5, <1>6 DEF EditorInv

\* Every step keeps the invariant.
LEMMA EditorStep == EditorInv /\ [Next]_vars => EditorInv'
<1> SUFFICES ASSUME EditorInv, [Next]_vars PROVE EditorInv'
  OBVIOUS
<1>1. CASE HangUp
  BY <1>1 DEF HangUp, EditorInv
<1>2. CASE UNCHANGED vars
  BY <1>2 DEF vars, EditorInv, Good, Fits, States, Cell, Blank, Blanks
<1> QED  BY <1>1, <1>2, KeysKeep, TabKeeps, UpKeeps, DownKeeps, EnterKeeps, UsageKeeps,
            ReadLineKeeps DEF Next

\* In every reachable state the invariant holds: while a line is edited its length and its
\* cursor are in the array, the terminal shows it, and the history holds lines that fit.
THEOREM EditorKeeps == Spec => []EditorInv
BY EditorInit, EditorStep, PTL DEF Spec

\* The invariant implies what the run checks.
LEMMA GoodShows == EditorInv => ScreenShowsLine
<1> SUFFICES ASSUME EditorInv, pc = "editing" PROVE ScreenShowsLine
  BY DEF ScreenShowsLine, Editing
<1>1. Good(e)
  BY DEF EditorInv
<1>2. e.column = e.cursor /\ \A j \in 1 .. MAX_BUFFER_LINE : e.shown[j] = Cell(e, j)
  BY <1>1 DEF Good
<1>3. DOMAIN e.shown = 1 .. MAX_BUFFER_LINE
  BY <1>1 DEF Good, Fits, States
<1> QED  BY <1>2, <1>3 DEF ScreenShowsLine, Cell

\* While a line is edited the terminal shows the line that mygetc will hand over, and its
\* cursor is where the next character goes, for any keys, names and lengths.
THEOREM ScreenIsRight == Spec => []ScreenShowsLine
BY EditorKeeps, GoodShows, PTL

-----------------------------------------------------------------------------
\* The line that the editor implements.
before0 == IF Editing THEN Piece(e.buf, 0, e.cursor) ELSE <<>>
after0  == IF Editing THEN Piece(e.buf, e.cursor, e.length - e.cursor) ELSE <<>>
place0  == IF Editing THEN index + 1 ELSE Len(history) + 1
draft0  == IF Editing /\ browsing THEN <<saved>> ELSE <<>>

\* What EditedLine's variables are while a line is edited ...
LEMMA EditingIs ==
    ASSUME pc = "editing"
    PROVE  /\ before0 = Before(e) /\ after0 = Behind(e) /\ place0 = index + 1
           /\ draft0 = IF browsing THEN <<saved>> ELSE <<>>
BY DEF before0, after0, place0, draft0, Editing, Before, Behind

\* ... after a step that leaves it edited ...
LEMMA EditingNext ==
    ASSUME pc' = "editing"
    PROVE  /\ before0' = Before(e') /\ after0' = Behind(e') /\ place0' = index' + 1
           /\ draft0' = IF browsing' THEN <<saved'>> ELSE <<>>
BY DEF before0, after0, place0, draft0, Editing, Before, Behind

\* ... and after one that does not.
LEMMA IdleNext ==
    ASSUME pc' # "editing"
    PROVE  before0' = <<>> /\ after0' = <<>> /\ place0' = Len(history') + 1 /\ draft0' = <<>>
BY DEF before0, after0, place0, draft0, Editing

\* The steps of the line, in those terms.
Edits(p, q) == before0' = p /\ after0' = q /\ history' = history /\ place0' = place0 /\ given' = given
Same == Edits(before0, after0) /\ draft0' = draft0

\* A step that changes none of them.
LEMMA SameStutters == ASSUME Same PROVE UNCHANGED Text!vars
BY DEF Same, Edits, Text!vars, before0, after0, place0, draft0

\* The actions of EditedLine in terms of these variables: typing a character,
LEMMA TypeMaps ==
    ASSUME NEW c \in Keys, draft0' = <<>>,
           Edits(IF Len(before0 \o after0) < MAX_BUFFER_LINE - 2 THEN Append(before0, c) ELSE before0, after0)
    PROVE  Text!Type
BY DEF Edits, Text!Type, Text!Edit, Text!Line, before0, after0, place0, draft0

\* erasing one,
LEMMA EraseMaps ==
    ASSUME before0 # <<>>, draft0' = draft0, Edits(SubSeq(before0, 1, Len(before0) - 1), after0)
    PROVE  Text!Erase
BY DEF Edits, Text!Erase, Text!Edit, Text!Front, before0, after0, place0, draft0

\* deleting one,
LEMMA DeleteMaps ==
    ASSUME after0 # <<>>, draft0' = draft0, Edits(before0, Tail(after0))
    PROVE  Text!Delete
BY DEF Edits, Text!Delete, Text!Edit, before0, after0, place0, draft0

\* moving the cursor,
LEMMA MoveMaps ==
    ASSUME NEW l, l = before0 \o after0, NEW i \in 0 .. Len(l), draft0' = draft0,
           Edits(SubSeq(l, 1, i), SubSeq(l, i + 1, Len(l)))
    PROVE  Text!Move
BY DEF Edits, Text!Move, Text!Edit, Text!Line, before0, after0, place0, draft0

\* an older line,
LEMMA OlderMaps ==
    ASSUME draft0' = IF draft0 = <<>> THEN <<before0 \o after0>> ELSE draft0,
           \/ /\ place0 > 1 /\ place0' = place0 - 1
              /\ before0' = history[place0 - 1] /\ after0' = <<>>
           \/ place0 = 1 /\ before0' = before0 /\ after0' = after0 /\ place0' = place0,
           history' = history, given' = given
    PROVE  Text!Older
BY DEF Text!Older, Text!Show, Text!Line, before0, after0, place0, draft0

\* a newer one or the draft,
LEMMA NewerMaps ==
    ASSUME draft0 # <<>>,
           \/ /\ place0 < Len(history) /\ place0' = place0 + 1 /\ draft0' = draft0
              /\ before0' = history[place0 + 1] /\ after0' = <<>>
           \/ /\ place0 >= Len(history) /\ place0' = Len(history) + 1 /\ draft0' = <<>>
              /\ before0' = draft0[1] /\ after0' = <<>>,
           history' = history, given' = given
    PROVE  Text!Newer
BY DEF Text!Newer, Text!Show, before0, after0, place0, draft0

Starts == before0' = <<>> /\ after0' = <<>> /\ place0' = Len(history') + 1 /\ draft0' = <<>>

\* the help and the end of the line by ctrl-_,
LEMMA UsageMaps ==
    ASSUME Starts, history' = history, given' \in Seq(STRING)
    PROVE  Text!Usage
BY DEF Starts, Text!Usage, Text!NewLine, Text!Show, before0, after0, place0, draft0

\* the line's last character taken,
LEMMA TakenMaps ==
    ASSUME given' = <<>>, before0' = before0, after0' = after0, history' = history,
           place0' = place0, draft0' = draft0
    PROVE  Text!Taken
BY SMTT(60) DEF Text!Taken, before0, after0, place0, draft0

\* the end of the line by return,
LEMMA EnterMaps ==
    ASSUME NEW l, l = before0 \o after0, Starts, given' = Append(l, "\n"),
           history' = IF l = <<>> \/ (history # <<>> /\ history[Len(history)] = l) THEN history
                      ELSE LET s == Append(history, l)
                           IN  SubSeq(s, IF Len(s) > MAX_HISTORY THEN Len(s) - MAX_HISTORY + 1 ELSE 1, Len(s))
    PROVE  Text!Enter
BY DEF Starts, Text!Enter, Text!NewLine, Text!Show, Text!Remembered, Text!Latest, Text!Line,
       before0, after0, place0, draft0

\* and completion.
LEMMA CompleteMaps ==
    ASSUME before0 # <<>>, before0[Len(before0)] # " ",
           NEW stem, \/ stem = before0
                     \/ \E i \in 2 .. Len(before0) :
                          /\ before0[i] = "/" /\ before0[i - 1] = "/"
                          /\ stem = SubSeq(before0, 1, i - 1) \o SubSeq(before0, i + 1, Len(before0)),
           NEW w, w = SubSeq(before0', Len(stem) + 1, Len(before0')),
           \A i \in DOMAIN w : w[i] # " ",
           Len(stem) + Len(w) + Len(after0) <= MAX_BUFFER_LINE - 2,
           Edits(stem \o w, after0), draft0' = draft0
    PROVE  Text!Complete
<1>1. stem \in {before0} \cup Text!OneSlash(before0)
  BY DEF Text!OneSlash, Text!RemoveAt
<1>2. " " \notin {w[i] : i \in DOMAIN w}
  OBVIOUS
<1>3. \E s \in {before0} \cup Text!OneSlash(before0) :
       \E v \in {SubSeq(before0', Len(s) + 1, Len(before0'))} :
          /\ " " \notin {v[i] : i \in DOMAIN v}
          /\ Len(s) + Len(v) + Len(after0) <= MAX_BUFFER_LINE - 2
          /\ Edits(s \o v, after0)
  BY <1>1, <1>2
<1> QED  BY <1>3 DEF Edits, Text!Complete, Text!Edit, before0, after0, place0, draft0

-----------------------------------------------------------------------------
\* The only sequence of length 0.
LEMMA EmptyIs == ASSUME NEW A, NEW s \in Seq(A), Len(s) = 0 PROVE s = <<>>
OBVIOUS

\* Sequences over a smaller set are sequences over a larger one.
LEMMA WiderSeq == ASSUME NEW A, NEW B, A \subseteq B, NEW s \in Seq(A) PROVE s \in Seq(B)
OBVIOUS

\* After a line of the history is loaded the cursor is at its end.
LEMMA LoadHalves ==
    ASSUME NEW x, Good(x), NEW s \in Lines
    PROVE  Before(Load(x, s)) = s /\ Behind(Load(x, s)) = <<>>
<1> DEFINE y == Load(x, s)
           p == Before(y)
           q == Behind(y)
<1>1. Good(y) /\ y.length = Len(s) /\ y.cursor = Len(s) /\ \A i \in 1 .. Len(s) : y.buf[i - 1] = s[i]
  BY LoadGood
<1>2. s \in Seq(Printable) /\ Len(s) \in Nat
  BY DEF Lines
<1> HIDE DEF y
<1>3. p \in Seq(Printable) /\ Len(p) = y.cursor /\ \A i \in 1 .. y.cursor : p[i] = y.buf[i - 1]
  BY <1>1, Halves
<1>4. q \in Seq(Printable) /\ Len(q) = y.length - y.cursor
  BY <1>1, Halves
<1> HIDE DEF p, q
<1>5. p = s
  BY <1>1, <1>2, <1>3, SeqEqual
<1>6. Len(q) = 0
  BY <1>1, <1>2, <1>4
<1>7. q = <<>>
  BY <1>4, <1>6, EmptyIs
<1> QED  BY <1>5, <1>7 DEF p, q, y

\* Where the cursor is divides the text.
LEMMA CursorHalves ==
    ASSUME NEW x, Good(x)
    PROVE  /\ Before(x) = SubSeq(Text0(x), 1, x.cursor)
           /\ Behind(x) = SubSeq(Text0(x), x.cursor + 1, Len(Text0(x)))
           /\ x.cursor \in 0 .. Len(Text0(x))
<1> DEFINE t == Text0(x)
           a == x.cursor
           l == x.length
           p == Before(x)
           q == Behind(x)
           u == SubSeq(t, 1, a)
           v == SubSeq(t, a + 1, Len(t))
<1>1. /\ a \in Nat /\ l \in Nat /\ a <= l
  BY Numbers
<1>2. t \in Seq(Printable) /\ Len(t) = l /\ \A i \in 1 .. l : t[i] = x.buf[i - 1]
  BY TextIs
<1>3. /\ p \in Seq(Printable) /\ Len(p) = a /\ \A i \in 1 .. a : p[i] = x.buf[i - 1]
      /\ q \in Seq(Printable) /\ Len(q) = l - a /\ \A i \in 1 .. l - a : q[i] = x.buf[a + i - 1]
  BY Halves
<1> HIDE DEF t, a, l, p, q
<1>4. u \in Seq(Printable) /\ Len(u) = a /\ \A i \in 1 .. a : u[i] = t[i]
  BY <1>1, <1>2, FirstOf
<1>5. v \in Seq(Printable) /\ Len(v) = Len(t) - a /\ \A i \in 1 .. Len(t) - a : v[i] = t[a + i]
  BY <1>1, <1>2, LastOf
<1> HIDE DEF u, v
<1>6. \A i \in 1 .. a : i \in 1 .. l
  BY <1>1
<1>7. \A i \in 1 .. a : u[i] = p[i]
  BY <1>2, <1>3, <1>4, <1>6
<1>8. u = p
  BY <1>3, <1>4, <1>7, SeqEqual
<1>9. \A i \in 1 .. l - a : a + i \in 1 .. l /\ (a + i) - 1 = a + i - 1
  BY <1>1
<1>10. \A i \in 1 .. l - a : v[i] = q[i]
  <2> SUFFICES ASSUME NEW i \in 1 .. l - a PROVE v[i] = q[i]
    OBVIOUS
  <2>1. v[i] = t[a + i]
    BY <1>2, <1>5
  <2>2. t[a + i] = x.buf[(a + i) - 1]
    BY <1>2, <1>9
  <2>3. q[i] = x.buf[a + i - 1]
    BY <1>3
  <2> QED  BY <2>1, <2>2, <2>3, <1>9
<1>11. v = q
  BY <1>2, <1>3, <1>5, <1>10, SeqEqual
<1>12. a \in 0 .. Len(t)
  BY <1>1, <1>2
<1> QED  BY <1>8, <1>11, <1>12 DEF t, a, p, q, u, v

\* States with the same line have the same halves.
LEMMA SameHalves ==
    ASSUME NEW x, NEW y, SameLine(y, x)
    PROVE  Before(y) = Before(x) /\ Behind(y) = Behind(x) /\ Text0(y) = Text0(x)
BY DEF SameLine, Before, Behind, Text0

\* What a key does to the line is what the line's operation does.
Stays == /\ pc = "editing" /\ pc' = "editing" /\ history' = history /\ given' = given
         /\ index' = index

\* What is known of a step of a key that stays in read_line.
LEMMA StaysIs ==
    ASSUME EditorInv, Stays
    PROVE  /\ Good(e) /\ history' = history /\ given' = given /\ place0' = place0
           /\ before0 = Before(e) /\ after0 = Behind(e)
           /\ before0' = Before(e') /\ after0' = Behind(e')
           /\ before0 \o after0 = Text0(e)
<1>1. Good(e)
  BY DEF EditorInv, Stays
<1> QED  BY <1>1, EditingIs, EditingNext, TextIs DEF Stays

\* A key that leaves the draft alone.
LEMMA DraftStays ==
    ASSUME Stays, UNCHANGED <<browsing, saved>>
    PROVE  draft0' = draft0
BY EditingIs, EditingNext DEF Stays

\* A key that leaves the line alone is a stutter of EditedLine.
LEMMA NoChange ==
    ASSUME EditorInv, Stays, UNCHANGED <<browsing, saved>>, SameLine(e', e)
    PROVE  UNCHANGED Text!vars
<1>1. Before(e') = Before(e) /\ Behind(e') = Behind(e)
  BY SameHalves
<1>2. Edits(before0, after0)
  BY <1>1, StaysIs DEF Edits
<1> QED  BY <1>2, DraftStays, SameStutters DEF Same

\* A typed character is EditedLine's Type.
LEMMA TypeRefines == ASSUME EditorInv, Type PROVE Text!Type
<1>1. PICK c \in Keys : Edit(InsertChar(e, c))
  BY DEF Type
<1>2. Stays /\ e' = InsertChar(e, c)
  BY <1>1 DEF Edit, Stays
<1>3. c \in Printable
  BY EditorAssumption
<1>4. draft0' = <<>>
  <2>1. browsing' = FALSE
    BY DEF Type
  <2> QED  BY <2>1, <1>2, EditingNext DEF Stays
<1>5. Good(e) /\ before0 = Before(e) /\ after0 = Behind(e) /\ before0' = Before(e')
      /\ after0' = Behind(e') /\ before0 \o after0 = Text0(e)
  BY <1>2, StaysIs
<1>6. Len(Text0(e)) = e.length /\ e.length \in Nat /\ MAX_BUFFER_LINE \in Nat
  BY <1>5, TextIs, Numbers
<1>7. CASE e.length < MAX_BUFFER_LINE - 2
  <2>1. Before(e') = Append(Before(e), c) /\ Behind(e') = Behind(e)
    BY <1>2, <1>3, <1>5, <1>7, InsertHalves
  <2>2. Edits(Append(before0, c), after0)
    BY <1>2, <1>5, <2>1, StaysIs DEF Edits
  <2> QED  BY <1>4, <1>5, <1>6, <1>7, <2>2, TypeMaps
<1>8. CASE ~(e.length < MAX_BUFFER_LINE - 2)
  <2>1. e' = e
    BY <1>2, <1>3, <1>5, <1>6, <1>8, InsertGood
  <2>2. Edits(before0, after0)
    BY <1>2, <1>5, <2>1, StaysIs DEF Edits
  <2> QED  BY <1>4, <1>5, <1>6, <1>8, <2>2, TypeMaps
<1> QED  BY <1>7, <1>8

\* Backspace is Erase, or nothing at the start of the line.
LEMMA BackspaceRefines == ASSUME EditorInv, Backspace PROVE Text!Erase \/ UNCHANGED Text!vars
<1>1. Stays /\ e' = BackspaceChar(e) /\ UNCHANGED <<browsing, saved>>
  BY DEF Backspace, EditKey, Edit, Stays
<1>2. Good(e) /\ before0 = Before(e) /\ after0 = Behind(e) /\ before0' = Before(e')
      /\ after0' = Behind(e')
  BY <1>1, StaysIs
<1>3. CASE e.cursor = 0
  <2>1. SameLine(e', e)
    BY <1>1, <1>2, <1>3, BackspaceGood DEF SameLine
  <2> QED  BY <1>1, <2>1, NoChange
<1>4. CASE e.cursor # 0
  <2>1. Before(e') = SubSeq(Before(e), 1, e.cursor - 1) /\ Behind(e') = Behind(e)
    BY <1>1, <1>2, <1>4, BackspaceHalves
  <2>2. Len(before0) = e.cursor
    BY <1>2, Halves
  <2>3. Edits(SubSeq(before0, 1, Len(before0) - 1), after0)
    BY <1>1, <1>2, <2>1, <2>2, StaysIs DEF Edits
  <2>4. before0 # <<>>
    BY <2>2, <1>4
  <2> QED  BY <1>1, <2>3, <2>4, DraftStays, EraseMaps
<1> QED  BY <1>3, <1>4

\* ctrl-D is Delete, or nothing at the end of the line.
LEMMA DeleteRefines == ASSUME EditorInv, Delete PROVE Text!Delete \/ UNCHANGED Text!vars
<1>1. Stays /\ e' = DeleteChar(e) /\ UNCHANGED <<browsing, saved>>
  BY DEF Delete, EditKey, Edit, Stays
<1>2. Good(e) /\ before0 = Before(e) /\ after0 = Behind(e) /\ before0' = Before(e')
      /\ after0' = Behind(e')
  BY <1>1, StaysIs
<1>3. CASE e.cursor >= e.length
  <2>1. SameLine(e', e)
    BY <1>1, <1>2, <1>3, DeleteGood DEF SameLine
  <2> QED  BY <1>1, <2>1, NoChange
<1>4. CASE e.cursor < e.length
  <2>1. Before(e') = Before(e) /\ Behind(e) # <<>> /\ Behind(e') = Tail(Behind(e))
    BY <1>1, <1>2, <1>4, DeleteHalves
  <2>2. Edits(before0, Tail(after0))
    BY <1>1, <1>2, <2>1, StaysIs DEF Edits
  <2> QED  BY <1>1, <1>2, <2>1, <2>2, DraftStays, DeleteMaps
<1> QED  BY <1>2, <1>3, <1>4, Numbers

\* The keys that move the cursor.
LEMMA CursorRefines ==
    ASSUME EditorInv, Stays, UNCHANGED <<browsing, saved>>, Good(e'),
           e'.buf = e.buf, e'.length = e.length
    PROVE  Text!Move
<1> DEFINE t == Text0(e)
<1>1. before0 \o after0 = t /\ before0' = Before(e') /\ after0' = Behind(e')
  BY StaysIs
<1>2. Text0(e') = t
  BY DEF Text0
<1>3. /\ Before(e') = SubSeq(t, 1, e'.cursor)
      /\ Behind(e') = SubSeq(t, e'.cursor + 1, Len(t))
      /\ e'.cursor \in 0 .. Len(t)
  BY <1>2, CursorHalves
<1> HIDE DEF t
<1>4. Edits(SubSeq(t, 1, e'.cursor), SubSeq(t, e'.cursor + 1, Len(t)))
  BY <1>1, <1>3, StaysIs DEF Edits
<1>5. draft0' = draft0
  BY DraftStays
<1> DEFINE i == e'.cursor
<1>6. Edits(SubSeq(t, 1, i), SubSeq(t, i + 1, Len(t))) /\ i \in 0 .. Len(t) /\ t = before0 \o after0
  BY <1>1, <1>3, <1>4
<1> HIDE DEF i
<1> QED  BY <1>5, <1>6, MoveMaps

\* The arrows, ctrl-A and ctrl-E are Move.
LEMMA MoveRefines ==
    ASSUME EditorInv, Left \/ Right \/ HomeKey \/ EndKey
    PROVE  Text!Move
<1> DEFINE Moved(y) == Good(y) /\ y.buf = e.buf /\ y.length = e.length
<1>1. ASSUME NEW y, EditKey(y), Moved(y) PROVE Text!Move
  <2>1. Stays /\ e' = y /\ UNCHANGED <<browsing, saved>>
    BY <1>1 DEF EditKey, Edit, Stays
  <2> QED  BY <1>1, <2>1, CursorRefines
<1>2. Good(e)
  BY DEF EditorInv, Left, Right, HomeKey, EndKey, EditKey, Edit
<1>3. CASE Left
  <2>1. Moved(MoveLeft(e))
    <3>1. CASE e.cursor = 0
      BY <3>1, <1>2 DEF MoveLeft
    <3>2. CASE e.cursor # 0
      BY <3>2, <1>2, LeftGood
    <3> QED  BY <3>1, <3>2
  <2> QED  BY <1>1, <1>3, <2>1 DEF Left
<1>4. CASE Right
  BY <1>1, <1>2, <1>4, RightGood DEF Right
<1>5. CASE HomeKey
  BY <1>1, <1>2, <1>5, HomeGood DEF HomeKey
<1>6. CASE EndKey
  BY <1>1, <1>2, <1>6, EndGood DEF EndKey
<1> QED  BY <1>3, <1>4, <1>5, <1>6

\* The up arrow is Older.
LEMMA UpRefines == ASSUME EditorInv, Up PROVE Text!Older
<1>1. /\ pc = "editing" /\ pc' = "editing" /\ history' = history /\ given' = given
      /\ browsing' = TRUE /\ saved' = IF browsing THEN saved ELSE Text0(e)
  BY DEF Up, Text0
<1>2. /\ Good(e) /\ index \in 0 .. Len(history) /\ browsing \in BOOLEAN
      /\ history \in Seq(Lines) /\ Len(history) \in Nat
  BY <1>1 DEF EditorInv
<1>3. /\ before0 = Before(e) /\ after0 = Behind(e) /\ place0 = index + 1
      /\ draft0 = IF browsing THEN <<saved>> ELSE <<>>
  BY <1>1, EditingIs
<1>4. /\ before0' = Before(e') /\ after0' = Behind(e') /\ place0' = index' + 1
      /\ draft0' = <<saved'>>
  BY <1>1, EditingNext
<1>5. draft0' = IF draft0 = <<>> THEN <<before0 \o after0>> ELSE draft0
  <2>1. before0 \o after0 = Text0(e)
    BY <1>2, <1>3, TextIs
  <2> QED  BY <1>1, <1>2, <1>3, <1>4, <2>1
<1>6. CASE index > 0
  <2>1. index' = index - 1 /\ e' = Load(e, history[index])
    BY <1>6 DEF Up
  <2>2. history[index] \in Lines
    <3>1. index \in 1 .. Len(history)
      BY <1>2, <1>6
    <3> QED  BY <3>1, <1>2
  <2>3. Before(e') = history[index] /\ Behind(e') = <<>>
    BY <1>2, <2>1, <2>2, LoadHalves
  <2>4. place0 > 1 /\ place0' = place0 - 1 /\ place0 - 1 = index
    BY <1>2, <1>3, <1>4, <1>6, <2>1
  <2> QED  BY <1>1, <1>4, <1>5, <2>3, <2>4, OlderMaps
<1>7. CASE ~(index > 0)
  <2>1. index' = index /\ e' = e
    BY <1>7 DEF Up
  <2>2. place0 = 1 /\ place0' = place0
    BY <1>2, <1>3, <1>4, <1>7, <2>1
  <2>3. before0' = before0 /\ after0' = after0
    BY <1>3, <1>4, <2>1
  <2> QED  BY <1>1, <1>5, <2>2, <2>3, OlderMaps
<1> QED  BY <1>6, <1>7

\* The down arrow is Newer, or nothing when no history is browsed.
LEMMA DownRefines == ASSUME EditorInv, Down PROVE Text!Newer \/ UNCHANGED Text!vars
<1>1. /\ pc = "editing" /\ pc' = "editing" /\ history' = history /\ given' = given
      /\ saved' = saved
  BY DEF Down
<1>2. /\ Good(e) /\ index \in 0 .. Len(history) /\ browsing \in BOOLEAN /\ saved \in Lines
      /\ history \in Seq(Lines) /\ Len(history) \in Nat
  BY <1>1 DEF EditorInv
<1>3. /\ before0 = Before(e) /\ after0 = Behind(e) /\ place0 = index + 1
      /\ draft0 = IF browsing THEN <<saved>> ELSE <<>>
  BY <1>1, EditingIs
<1>4. /\ before0' = Before(e') /\ after0' = Behind(e') /\ place0' = index' + 1
      /\ draft0' = IF browsing' THEN <<saved'>> ELSE <<>>
  BY <1>1, EditingNext
<1>5. CASE ~browsing /\ UNCHANGED <<e, index, browsing>>
  <2>1. Stays /\ SameLine(e', e) /\ UNCHANGED <<browsing, saved>>
    BY <1>1, <1>5 DEF Stays, SameLine
  <2> QED  BY <2>1, NoChange
<1>6. CASE /\ browsing /\ index < Len(history) - 1
           /\ index' = index + 1 /\ e' = Load(e, history[index + 2])
           /\ UNCHANGED browsing
  <2>1. index + 2 \in 1 .. Len(history) /\ place0 < Len(history) /\ place0' = place0 + 1
        /\ place0 + 1 = index + 2
    <3>1. index \in Nat /\ index < Len(history) - 1 /\ Len(history) \in Nat
      BY <1>2, <1>6
    <3>2. place0 = index + 1 /\ place0' = (index + 1) + 1
      BY <1>3, <1>4, <1>6
    <3> QED  BY <3>1, <3>2
  <2>2. history[index + 2] \in Lines
    BY <1>2, <2>1
  <2>3. Before(e') = history[index + 2] /\ Behind(e') = <<>>
    BY <1>2, <1>6, <2>2, LoadHalves
  <2>4. draft0 # <<>> /\ draft0' = draft0
    BY <1>1, <1>3, <1>4, <1>6
  <2> QED  BY <1>1, <1>4, <2>1, <2>3, <2>4, NewerMaps
<1>7. CASE /\ browsing /\ index >= Len(history) - 1
           /\ index' = Len(history) /\ e' = Load(e, saved)
           /\ browsing' = FALSE
  <2>1. place0 >= Len(history) /\ place0' = Len(history) + 1
    <3>1. index \in Nat /\ index >= Len(history) - 1 /\ Len(history) \in Nat
      BY <1>2, <1>7
    <3>2. place0 = index + 1 /\ place0' = Len(history) + 1
      BY <1>3, <1>4, <1>7
    <3> QED  BY <3>1, <3>2
  <2>2. Before(e') = saved /\ Behind(e') = <<>>
    BY <1>2, <1>7, LoadHalves
  <2>3. draft0 = <<saved>> /\ draft0' = <<>> /\ draft0 # <<>> /\ draft0[1] = saved
    BY <1>3, <1>4, <1>7
  <2> QED  BY <1>1, <1>4, <2>1, <2>2, <2>3, NewerMaps
<1> QED  BY <1>5, <1>6, <1>7 DEF Down

\* What read_line leaves when it returns.
LEMMA ReturnStarts == ASSUME NEW buf, Return(buf) PROVE Starts
<1>1. pc' = "returned"
  BY DEF Return
<1> QED  BY <1>1, IdleNext DEF Starts

\* ctrl-? is Usage.
LEMMA UsageRefines == ASSUME EditorInv, Usage PROVE Text!Usage
<1> DEFINE u == [e.buf EXCEPT ![0] = NUL]
           b == Ended(u, e.length)
<1>1. pc = "editing" /\ Return(u)
  BY DEF Usage
<1>2. Good(e)
  BY <1>1 DEF EditorInv
<1>3. Len(CString(b, 0)) <= 1 /\ Handed(b) \in Seq(Characters)
  BY <1>2, UsageString
<1> HIDE DEF u
<1>4. history' = AddToHistory(CString(b, 0)) /\ given' = Handed(b)
  BY <1>1 DEF Return, Ended
<1> HIDE DEF b
<1>5. history' = history
  BY <1>3, <1>4 DEF AddToHistory
<1>6. Characters \subseteq STRING
  BY EditorAssumption DEF Characters, Printable
<1>7. given' \in Seq(STRING)
  BY <1>3, <1>4, <1>6, WiderSeq, Zenon
<1> QED  BY <1>1, <1>5, <1>7, ReturnStarts, UsageMaps

\* ctrl-_ is Usage.
LEMMA HangUpRefines == ASSUME EditorInv, HangUp PROVE Text!Usage
<1>1. given = <<>> /\ given' = given /\ history' = history /\ pc' = "dead"
  BY DEF HangUp, EditorInv
<1>2. Starts
  BY <1>1, IdleNext DEF Starts
<1>3. given' \in Seq(STRING)
  BY <1>1
<1> QED  BY <1>1, <1>2, <1>3, UsageMaps

\* A new call of read_line is Taken.
LEMMA ReadLineRefines == ASSUME EditorInv, ReadLine PROVE Text!Taken
<1>1. /\ pc = "returned" /\ pc' = "editing" /\ e' = [e EXCEPT !.length = 0, !.cursor = 0]
      /\ history' = history /\ index' = Len(history) /\ browsing' = FALSE /\ given' = <<>>
  BY DEF ReadLine
<1>2. before0 = <<>> /\ after0 = <<>> /\ place0 = Len(history) + 1 /\ draft0 = <<>>
  BY <1>1 DEF before0, after0, place0, draft0, Editing
<1>3. /\ before0' = Before(e') /\ after0' = Behind(e') /\ place0' = Len(history) + 1
      /\ draft0' = <<>>
  BY <1>1, EditingNext
<1>4. EditorInv'
  BY ReadLineKeeps
<1>5. Good(e')
  BY <1>1, <1>4 DEF EditorInv, Good, Fits, States, Cell
<1>6. e'.length = 0 /\ e'.cursor = 0
  <2> DEFINE o == 0
  <2>1. o \in Nat /\ e' = [e EXCEPT !.length = o, !.cursor = o] /\ o = 0
    BY <1>1
  <2> HIDE DEF o
  <2>2. e \in States
    BY <1>1 DEF EditorInv, Blank
  <2>3. e'.length = o /\ e'.cursor = o
    BY <2>1, <2>2 DEF States
  <2> QED  BY <2>1, <2>3
<1>7. Before(e') = <<>> /\ Behind(e') = <<>>
  <2> DEFINE p == Before(e')
             q == Behind(e')
  <2>1. p \in Seq(Printable) /\ Len(p) = 0 /\ q \in Seq(Printable) /\ Len(q) = 0 - 0
    BY <1>5, <1>6, Halves
  <2> HIDE DEF p, q
  <2>2. p = <<>> /\ q = <<>>
    BY <2>1, EmptyIs
  <2> QED  BY <2>2 DEF p, q
<1> QED  BY <1>1, <1>2, <1>3, <1>7, TakenMaps

\* Return is Enter: the text handed over is the line and a newline.
LEMMA EnterRefines == ASSUME EditorInv, Enter PROVE Text!Enter
<1> DEFINE t == Text0(e)
           b == Ended(e.buf, e.length)
           s == CString(b, 0)
           n == MAX_HISTORY
<1>1. pc = "editing" /\ Return(e.buf)
  BY DEF Enter
<1>2. Good(e) /\ history \in Seq(Lines) /\ Len(history) <= MAX_HISTORY
  BY <1>1 DEF EditorInv
<1>3. /\ Len(s) = e.length + 1 /\ Front(s) = t /\ Handed(b) = Append(t, "\n")
  BY <1>2, EnterString
<1>4. t \in Lines /\ t \in Seq(Printable) /\ Len(t) = e.length /\ before0 \o after0 = t
  BY <1>1, <1>2, TextIs, EditingIs
<1> HIDE DEF b
<1>5. history' = AddToHistory(s) /\ given' = Append(t, "\n")
  BY <1>1, <1>3 DEF Return, Ended, b
<1> HIDE DEF s, t
<1> DEFINE Dup == history # <<>> /\ history[Len(history)] = t
<1>6. AddToHistory(s) = IF Len(s) <= 1 \/ Dup THEN history
                        ELSE IF Len(history) < n THEN Append(history, t)
                        ELSE Append(Tail(history), t)
  BY <1>3 DEF AddToHistory
<1>7. Len(s) <= 1 <=> t = <<>>
  <2>1. Len(t) = 0 <=> t = <<>>
    BY <1>4, EmptyIs
  <2>2. e.length \in Nat
    BY <1>2, Numbers
  <2>3. Len(s) <= 1 <=> Len(t) = 0
    BY <2>2, <1>3, <1>4
  <2> QED  BY <2>1, <2>3
<1>8. n \in Nat /\ n # 0 /\ n = MAX_HISTORY
  BY EditorAssumption
<1> DEFINE a == Append(history, t)
           m == Len(history)
           first == IF Len(a) > n THEN Len(a) - n + 1 ELSE 1
<1>9. a \in Seq(Lines) /\ Len(a) = m + 1 /\ a[m + 1] = t /\ \A i \in 1 .. m : a[i] = history[i]
      /\ m \in Nat
  BY <1>2, <1>4, AppendProperties
<1>15. Len(a) = m + 1 /\ m \in Nat
  BY <1>9
<1>10. m <= n
  BY <1>2
<1> HIDE DEF a, m, n, Dup
<1>13. Len(a) = m + 1 /\ m \in Nat /\ n \in Nat /\ n # 0 /\ m <= n
  <2>1. Len(a) = m + 1 /\ m \in Nat
    BY <1>15
  <2>2. n \in Nat /\ n # 0
    BY <1>8
  <2>3. m <= n
    BY <1>10
  <2> QED  BY <2>1, <2>2, <2>3
<1>11. CASE m < n
  <2>1. first = 1 /\ Len(a) <= Len(a) /\ Len(a) \in Nat
    BY <1>13, <1>11
  <2> DEFINE u == SubSeq(a, 1, Len(a))
  <2>2. u \in Seq(Lines) /\ Len(u) = Len(a) /\ \A i \in 1 .. Len(a) : u[i] = a[i]
    BY <2>1, <1>9, FirstOf
  <2> HIDE DEF u
  <2>3. u = a
    BY <2>2, <1>9, SeqEqual
  <2>4. SubSeq(a, first, Len(a)) = a
    BY <2>1, <2>3 DEF u
  <2>5. AddToHistory(s) = IF t = <<>> \/ Dup THEN history ELSE a
    BY <1>6, <1>7, <1>11 DEF a, m
  <2> HIDE DEF first
  <2>6. history' = IF t = <<>> \/ Dup THEN history ELSE SubSeq(a, first, Len(a))
    BY <1>5, <2>4, <2>5
  <2> QED  BY <1>1, <1>4, <1>5, <2>6, ReturnStarts, EnterMaps DEF a, n, first, Dup
<1>12. CASE ~(m < n)
  <2>1. m = n /\ first = 2 /\ Len(a) = n + 1 /\ 1 <= Len(a) /\ 1 \in Nat
    BY <1>13, <1>12
  <2> DEFINE o == 1
             u == SubSeq(a, o + 1, Len(a))
             v == Append(Tail(history), t)
  <2>2. u \in Seq(Lines) /\ Len(u) = Len(a) - o /\ \A i \in 1 .. Len(a) - o : u[i] = a[o + i]
    <3> HIDE DEF o
    <3>1. o \in Nat /\ o <= Len(a)
      BY <2>1 DEF o
    <3> QED  BY <3>1, <1>9, LastOf
  <2>3. history # <<>>
    <3>1. Len(history) # 0
      BY <2>1, <1>8 DEF m
    <3> QED  BY <3>1
  <2>4. /\ Tail(history) \in Seq(Lines) /\ Len(Tail(history)) = m - 1
        /\ \A i \in 1 .. m - 1 : Tail(history)[i] = history[i + 1]
    BY <2>3, <1>2, HeadTailProperties DEF m
  <2>5. /\ v \in Seq(Lines) /\ Len(v) = Len(Tail(history)) + 1
        /\ \A i \in 1 .. Len(Tail(history)) : v[i] = Tail(history)[i]
        /\ v[Len(Tail(history)) + 1] = t
    BY <2>4, <1>4, AppendProperties
  <2>6. Len(Tail(history)) + 1 = m
    <3>1. Len(Tail(history)) = m - 1
      BY <2>4
    <3> QED  BY <3>1, <1>13
  <2> HIDE DEF v
  <2>7. SubSeq(a, first, Len(a)) = u /\ o = 1
    <3>1. first = o + 1
      BY <2>1
    <3> QED  BY <3>1
  <2> HIDE DEF u, o, first
  <2>8. Len(u) = m /\ Len(v) = m
    BY <2>1, <2>2, <2>5, <2>6, <2>7, <1>9
  <2>9. ASSUME NEW i \in 1 .. m PROVE u[i] = v[i]
    <3>1. u[i] = a[i + 1]
      <4>1. i \in 1 .. Len(a) - o /\ o + i = i + 1
        BY <2>1, <2>7, <1>9
      <4> QED  BY <4>1, <2>2
    <3>2. CASE i = m
      BY <3>1, <3>2, <2>5, <2>6, <1>9
    <3>3. CASE i # m
      <4>1. i \in 1 .. m - 1 /\ i + 1 \in 1 .. m /\ i \in 1 .. Len(Tail(history))
        BY <3>3, <1>9, <2>4
      <4> QED  BY <4>1, <3>1, <2>4, <2>5, <1>9
    <3> QED  BY <3>2, <3>3
  <2>10. u = v
    BY <2>2, <2>5, <2>8, <2>9, SeqEqual
  <2>11. AddToHistory(s) = IF t = <<>> \/ Dup THEN history ELSE v
    BY <1>6, <1>7, <1>12 DEF v, m
  <2>12. history' = IF t = <<>> \/ Dup THEN history ELSE SubSeq(a, first, Len(a))
    BY <1>5, <2>7, <2>10, <2>11
  <2> QED  BY <1>1, <1>4, <1>5, <2>12, ReturnStarts, EnterMaps DEF a, n, first, Dup
<1> QED  BY <1>11, <1>12

\* A text cut within its second half.
LEMMA CutWithin ==
    ASSUME NEW A, NEW f \in Seq(A), NEW w \in Seq(A), NEW k \in Nat, k <= Len(w)
    PROVE  /\ SubSeq(f \o w, 1, Len(f) + k) = f \o SubSeq(w, 1, k)
           /\ SubSeq(f \o w, Len(f) + k + 1, Len(f \o w)) = SubSeq(w, k + 1, Len(w))
<1> DEFINE p == f \o w
           b == Len(f)
           l == b + k
           u == SubSeq(p, 1, l)
           v == SubSeq(p, l + 1, Len(p))
           c == SubSeq(w, 1, k)
           d == SubSeq(w, k + 1, Len(w))
<1>1. /\ p \in Seq(A) /\ Len(p) = b + Len(w)
      /\ \A i \in 1 .. b + Len(w) : p[i] = IF i <= b THEN f[i] ELSE w[i - b]
  BY ConcatProperties
<1>2. b \in Nat /\ Len(w) \in Nat /\ l \in Nat /\ l <= b + Len(w) /\ l = b + k
      /\ Len(w) - k = b + Len(w) - l
  OBVIOUS
<1> HIDE DEF p, l
<1>3. u \in Seq(A) /\ Len(u) = l /\ \A i \in 1 .. l : u[i] = p[i]
  BY <1>1, <1>2, FirstOf
<1>4. v \in Seq(A) /\ Len(v) = Len(p) - l /\ \A i \in 1 .. Len(p) - l : v[i] = p[l + i]
  <2>1. p \in Seq(A) /\ l \in Nat /\ l <= Len(p)
    <3>1. Len(p) = b + Len(w) /\ p \in Seq(A)
      BY <1>1
    <3> QED  BY <3>1, <1>2
  <2> QED  BY <2>1, LastOf
<1>5. c \in Seq(A) /\ Len(c) = k /\ \A i \in 1 .. k : c[i] = w[i]
  BY FirstOf
<1>6. d \in Seq(A) /\ Len(d) = Len(w) - k /\ \A i \in 1 .. Len(w) - k : d[i] = w[k + i]
  BY LastOf
<1>7. u = f \o c
  <2> HIDE DEF u, c
  <2>1. /\ f \o c \in Seq(A) /\ Len(f \o c) = b + k
        /\ \A i \in 1 .. b + k : (f \o c)[i] = IF i <= b THEN f[i] ELSE c[i - b]
    BY <1>5, ConcatProperties
  <2>2. ASSUME NEW i \in 1 .. l PROVE u[i] = (f \o c)[i]
    <3>1. i \in 1 .. b + Len(w) /\ i \in 1 .. b + k
      BY <1>2
    <3>2. CASE i <= b
      BY <3>1, <3>2, <2>1, <1>1, <1>3
    <3>3. CASE ~(i <= b)
      <4>1. i - b \in 1 .. k
        BY <3>1, <3>3, <1>2
      <4> QED  BY <3>1, <3>3, <4>1, <2>1, <1>1, <1>3, <1>5
    <3> QED  BY <3>2, <3>3
  <2>3. Len(u) = Len(f \o c)
    BY <1>2, <1>3, <2>1
  <2> QED  BY <2>1, <2>2, <2>3, <1>3, SeqEqual
<1>8. v = d
  <2> HIDE DEF v, d
  <2>1. Len(v) = Len(d) /\ Len(v) = Len(w) - k
    BY <1>1, <1>2, <1>4, <1>6
  <2>2. ASSUME NEW i \in 1 .. Len(w) - k PROVE v[i] = d[i]
    <3>1. l + i \in 1 .. b + Len(w) /\ ~(l + i <= b) /\ (l + i) - b = k + i
          /\ i \in 1 .. Len(p) - l
      BY <1>1, <1>2
    <3>2. p[l + i] = w[k + i]
      BY <3>1, <1>1
    <3> QED  BY <3>1, <3>2, <1>4, <1>6
  <2> QED  BY <2>1, <2>2, <1>4, <1>6, SeqEqual
<1> QED  BY <1>7, <1>8 DEF p, l

\* Characters that are part of a word; no name has another, a condition of the
\* next lemmas.
Solid == Printable \ {" "}
NamesAreWords == Commands \subseteq Seq(Solid) /\ \A d \in DOMAIN Tree : Tree[d] \subseteq Seq(Solid)

\* The current word has no blank.
LEMMA WordIsSolid ==
    ASSUME NEW x, Good(x)
    PROVE  CurrentWord(x) \in Seq(Solid)
<1> DEFINE w == CurrentWord(x)
           b == WordStart(x)
           n == x.cursor - b
<1>1. /\ w \in Seq(Printable) /\ Len(w) = n /\ \A i \in 1 .. n : w[i] = x.buf[b + i - 1]
      /\ b \in 0 .. x.cursor /\ x.cursor \in Nat
  BY WordIs, Numbers
<1>2. \A i \in b .. x.cursor - 1 : x.buf[i] # " "
  BY WordIs
<1>3. \A i \in 1 .. n : b + i - 1 \in b .. x.cursor - 1
  BY <1>1
<1> HIDE DEF w, b, n
<1>4. \A i \in 1 .. n : w[i] # " "
  BY <1>1, <1>2, <1>3
<1>5. \A i \in 1 .. Len(w) : w[i] \in Solid
  <2> SUFFICES ASSUME NEW i \in 1 .. Len(w) PROVE w[i] \in Solid
    OBVIOUS
  <2>1. w[i] \in Printable
    BY <1>1
  <2>2. w[i] # " "
    BY <1>1, <1>4
  <2> QED  BY <2>1, <2>2, Zenon DEF Solid
<1> HIDE DEF Solid
<1>6. w \in Seq(Solid)
  <2>1. DOMAIN w = 1 .. Len(w) /\ Len(w) \in Nat /\ w = [i \in 1 .. Len(w) |-> w[i]]
    BY <1>1
  <2> QED  BY <2>1, <1>5
<1> QED  BY <1>6 DEF w

\* The line in front of the cursor ends with the word.
LEMMA BeforeIs ==
    ASSUME NEW x, Good(x)
    PROVE  /\ Before(x) = SubSeq(Before(x), 1, WordStart(x)) \o CurrentWord(x)
           /\ SubSeq(Before(x), 1, WordStart(x)) \in Seq(Printable)
           /\ Len(SubSeq(Before(x), 1, WordStart(x))) = WordStart(x)
<1> DEFINE p == Before(x)
           w == CurrentWord(x)
           b == WordStart(x)
           a == x.cursor
           v == SubSeq(p, b + 1, Len(p))
<1>1. p \in Seq(Printable) /\ Len(p) = a /\ \A i \in 1 .. a : p[i] = x.buf[i - 1]
  BY Halves
<1>2. /\ w \in Seq(Printable) /\ Len(w) = a - b /\ \A i \in 1 .. a - b : w[i] = x.buf[b + i - 1]
      /\ b \in 0 .. a /\ a \in Nat
  BY WordIs, Numbers
<1> HIDE DEF p, w, b, a
<1>3. b \in Nat /\ b <= Len(p)
  BY <1>1, <1>2
<1>4. v \in Seq(Printable) /\ Len(v) = Len(p) - b /\ \A i \in 1 .. Len(p) - b : v[i] = p[b + i]
  BY <1>1, <1>3, LastOf
<1>5. v = w
  <2> HIDE DEF v
  <2>1. Len(v) = a - b
    BY <1>1, <1>4
  <2>2. ASSUME NEW i \in 1 .. a - b PROVE v[i] = w[i]
    <3>1. b + i \in 1 .. a /\ (b + i) - 1 = b + i - 1
      BY <1>2
    <3>2. v[i] = p[b + i]
      BY <1>1, <1>4
    <3>3. p[b + i] = x.buf[(b + i) - 1]
      BY <3>1, <1>1
    <3> QED  BY <3>1, <3>2, <3>3, <1>2
  <2> QED  BY <2>1, <2>2, <1>2, <1>4, SeqEqual
<1>6. SubSeq(p, 1, b) \o v = p
  BY <1>1, <1>3, Cut
<1>7. SubSeq(p, 1, b) \in Seq(Printable) /\ Len(SubSeq(p, 1, b)) = b
  BY <1>1, <1>3, FirstOf
<1> QED  BY <1>5, <1>6, <1>7 DEF p, w, b

\* A completed word is the line's own completion.
LEMMA CompletedIs ==
    ASSUME NEW x, Good(x), NEW y, Good(y), Completed(x, Solid, y)
    PROVE  /\ Before(x) # <<>> /\ Before(x)[Len(Before(x))] # " "
           /\ \E stem, r :
                /\ \/ stem = Before(x)
                   \/ \E i \in 2 .. Len(Before(x)) :
                        /\ Before(x)[i] = "/" /\ Before(x)[i - 1] = "/"
                        /\ stem = SubSeq(Before(x), 1, i - 1)
                                    \o SubSeq(Before(x), i + 1, Len(Before(x)))
                /\ r \in Seq(Solid) /\ Before(y) = stem \o r
                /\ r = SubSeq(Before(y), Len(stem) + 1, Len(Before(y)))
                /\ Len(stem) + Len(r) + Len(Behind(x)) <= MAX_BUFFER_LINE - 2
<1> DEFINE p == Before(x)
           w == CurrentWord(x)
           b == WordStart(x)
           f == SubSeq(p, 1, b)
           s == Stem(w)
           z == Before(y)
           h == Behind(y)
<1>1. PICK c \in Seq(Solid) : \E k \in 0 .. Len(c) :
        /\ IsPrefix(s, c) /\ Len(s) <= k /\ z = f \o SubSeq(c, 1, k) /\ h = Behind(x)
  BY DEF Completed
<1>2. PICK k \in 0 .. Len(c) :
        /\ IsPrefix(s, c) /\ Len(s) <= k /\ z = f \o SubSeq(c, 1, k) /\ h = Behind(x)
  BY <1>1
<1>3. w # <<>>
  BY DEF Completed
<1>4. p = f \o w /\ f \in Seq(Printable) /\ Len(f) = b
  BY BeforeIs
<1>5. w \in Seq(Solid) /\ w \in Seq(Printable) /\ Len(w) = x.cursor - b /\ b \in 0 .. x.cursor
  BY WordIsSolid, WordIs
<1>6. x.cursor \in Nat /\ Len(p) = x.cursor /\ p \in Seq(Printable)
      /\ \A i \in 1 .. x.cursor : p[i] = x.buf[i - 1]
  BY Numbers, Halves
<1>7. Len(w) >= 1 /\ Len(w) \in Nat /\ b \in Nat
  BY <1>3, <1>5, <1>6
<1>8. p # <<>> /\ p[Len(p)] # " "
  <2>1. x.cursor - 1 \in b .. x.cursor - 1 /\ x.cursor \in 1 .. x.cursor
    BY <1>5, <1>6, <1>7
  <2>2. x.buf[x.cursor - 1] # " "
    BY <2>1, WordIs
  <2> HIDE DEF p
  <2>3. p[Len(p)] = x.buf[x.cursor - 1]
    BY <2>1, <1>6
  <2>4. Len(p) # 0
    BY <2>1, <1>6
  <2>5. p # <<>>
    BY <2>4
  <2> QED  BY <2>2, <2>3, <2>5, Zenon
<1>9. "/" \in Solid /\ "/" \in Printable
  BY EditorAssumption DEF Solid
<1>10. s \in Seq(Solid) /\ s \in Seq(Printable)
  BY <1>5, <1>9, StemIs
<1>11. \/ s = w
       \/ /\ Len(w) >= 2 /\ w[1] = "/" /\ w[2] = "/" /\ s = RemoveAt(w, 2)
          /\ Len(s) = Len(w) - 1
  BY <1>5, <1>9, StemIs
<1>12. Solid \subseteq Printable
  BY DEF Solid
<1> HIDE DEF p, w, b, f, s, z, h, Solid
<1> DEFINE stem == f \o s
           q == SubSeq(c, 1, k)
           r == SubSeq(q, Len(s) + 1, Len(q))
<1>13. q \in Seq(Solid) /\ Len(q) = k /\ \A i \in 1 .. k : q[i] = c[i]
  BY FirstOf
<1>14. Len(s) \in Nat /\ Len(s) <= k /\ k \in Nat
  BY <1>2, <1>10
<1>15. q = s \o r /\ r \in Seq(Solid)
  <2> DEFINE u == SubSeq(q, 1, Len(s))
  <2> HIDE DEF q, r
  <2>1. Len(s) \in Nat /\ Len(s) <= Len(q) /\ q \in Seq(Solid)
    BY <1>13, <1>14
  <2>2. u \o r = q /\ r \in Seq(Solid)
    BY <2>1, Cut, LastOf DEF r
  <2>3. u \in Seq(Solid) /\ Len(u) = Len(s) /\ \A i \in 1 .. Len(s) : u[i] = q[i]
    BY <2>1, FirstOf
  <2>4. \A i \in 1 .. Len(s) : s[i] = c[i]
    BY <1>2, <1>10, PrefixMeans
  <2>5. \A i \in 1 .. Len(s) : i \in 1 .. k
    BY <1>14
  <2>6. \A i \in 1 .. Len(s) : u[i] = s[i]
    BY <2>3, <2>4, <2>5, <1>13
  <2> HIDE DEF u
  <2>7. u = s
    BY <2>3, <2>6, <1>10, SeqEqual
  <2> QED  BY <2>2, <2>7
<1> HIDE DEF q, r
<1>16. r \in Seq(Printable)
  BY <1>12, <1>15, WiderSeq
<1>17. z = stem \o r
  <2>1. z = f \o (s \o r)
    BY <1>2, <1>15 DEF q
  <2>2. (f \o s) \o r = f \o (s \o r)
    <3>1. f \in Seq(Printable) /\ s \in Seq(Printable) /\ r \in Seq(Printable)
      BY <1>4, <1>10, <1>16
    <3> QED  BY ONLY <3>1, ConcatAssociative
  <2> QED  BY <2>1, <2>2
<1>18. stem \in Seq(Printable) /\ Len(stem) = b + Len(s)
  BY <1>4, <1>10, ConcatProperties
<1> HIDE DEF stem
<1>19. r = SubSeq(z, Len(stem) + 1, Len(z))
  <2> DEFINE o == 0
  <2>1. o \in Nat /\ o <= Len(r) /\ Len(stem) + o + 1 = Len(stem) + 1 /\ o + 1 = 1
    BY <1>16, <1>18
  <2> HIDE DEF o
  <2>2. SubSeq(stem \o r, Len(stem) + o + 1, Len(stem \o r)) = SubSeq(r, o + 1, Len(r))
    BY <2>1, <1>16, <1>18, CutWithin, ZenonT(60)
  <2>3. SubSeq(r, 1, Len(r)) = r
    <3> DEFINE u == SubSeq(r, 1, Len(r))
    <3>1. Len(r) \in Nat /\ Len(r) <= Len(r)
      BY <1>16
    <3>2. u \in Seq(Printable) /\ Len(u) = Len(r) /\ \A i \in 1 .. Len(r) : u[i] = r[i]
      BY <3>1, <1>16, FirstOf
    <3> HIDE DEF u
    <3>3. u = r
      BY <3>2, <1>16, SeqEqual
    <3> QED  BY <3>3 DEF u
  <2> QED  BY <2>1, <2>2, <2>3, <1>17
<1>20. Len(stem) + Len(r) + Len(Behind(x)) <= MAX_BUFFER_LINE - 2
  <2>1. Len(z) = y.cursor /\ Len(h) = y.length - y.cursor
    BY Halves DEF z, h
  <2>2. /\ y.cursor \in Nat /\ y.length \in Nat /\ y.length <= MAX_BUFFER_LINE - 2
        /\ MAX_BUFFER_LINE \in Nat
    BY Numbers
  <2>3. Len(z) = Len(stem) + Len(r)
    BY <1>16, <1>17, <1>18, ConcatProperties
  <2>4. Len(stem) + Len(r) + Len(h) = y.length
    <3>1. Len(stem) + Len(r) = y.cursor
      BY <2>1, <2>3
    <3> QED  BY <3>1, <2>1, <2>2
  <2>5. Len(stem) + Len(r) + Len(h) <= MAX_BUFFER_LINE - 2
    BY <2>2, <2>4
  <2> QED  BY <2>5, <1>2
<1>21. \/ stem = p
       \/ \E i \in 2 .. Len(p) : /\ p[i] = "/" /\ p[i - 1] = "/"
                                 /\ stem = SubSeq(p, 1, i - 1) \o SubSeq(p, i + 1, Len(p))
  <2>1. CASE s = w
    BY <2>1, <1>4 DEF stem
  <2>2. CASE /\ Len(w) >= 2 /\ w[1] = "/" /\ w[2] = "/" /\ s = RemoveAt(w, 2)
             /\ Len(s) = Len(w) - 1
    <3> DEFINE i == b + 2
               one == 1
               two == 2
               d == SubSeq(w, 1, 1)
               t == SubSeq(w, 3, Len(w))
    <3>1. /\ one \in Nat /\ two \in Nat /\ one <= Len(w) /\ two <= Len(w)
          /\ b + one = i - 1 /\ b + two + 1 = i + 1 /\ two + 1 = 3 /\ one = 1
      BY <2>2, <1>7
    <3>2. i \in 2 .. Len(p)
      BY <2>2, <1>5, <1>6, <1>7
    <3> HIDE DEF one, two
    <3>11. f \in Seq(Printable) /\ w \in Seq(Printable)
      BY <1>4, <1>5
    <3>12. one \in Nat /\ two \in Nat /\ one <= Len(w) /\ two <= Len(w)
      BY <3>1
    <3>3. SubSeq(f \o w, 1, Len(f) + one) = f \o SubSeq(w, 1, one)
      BY ONLY <3>11, <3>12, CutWithin
    <3>4. SubSeq(f \o w, Len(f) + two + 1, Len(f \o w)) = SubSeq(w, two + 1, Len(w))
      BY ONLY <3>11, <3>12, CutWithin, SMTT(60)
    <3>5. SubSeq(p, 1, i - 1) = f \o d /\ SubSeq(p, i + 1, Len(p)) = t
      BY <3>1, <3>3, <3>4, <1>4
    <3>6. s = d \o t
      BY <2>2 DEF RemoveAt
    <3>7. d \in Seq(Printable) /\ t \in Seq(Printable)
      <4>1. SubSeq(w, 1, one) \in Seq(Printable) /\ SubSeq(w, two + 1, Len(w)) \in Seq(Printable)
        BY <3>1, <1>5, FirstOf, LastOf
      <4> QED  BY <4>1, <3>1
    <3> HIDE DEF d, t
    <3>8. (f \o d) \o t = f \o (d \o t)
      BY ONLY <3>7, <1>4, ConcatAssociative, SMTT(60)
    <3>9. stem = SubSeq(p, 1, i - 1) \o SubSeq(p, i + 1, Len(p))
      BY <3>5, <3>6, <3>8 DEF stem
    <3>10. p[i] = w[2] /\ p[i - 1] = w[1]
      <4>1. \A j \in 1 .. Len(f) + Len(w) : p[j] = IF j <= Len(f) THEN f[j] ELSE w[j - Len(f)]
        BY <1>4, <1>5, ConcatProperties
      <4>2. /\ i \in 1 .. b + Len(w) /\ ~(i <= b) /\ i - b = 2
            /\ i - 1 \in 1 .. b + Len(w) /\ ~(i - 1 <= b) /\ (i - 1) - b = 1
        BY <2>2, <1>7
      <4> HIDE DEF i
      <4> QED  BY <4>1, <4>2, <1>4
    <3> HIDE DEF i
    <3> QED  BY <2>2, <3>2, <3>9, <3>10
  <2> QED  BY <2>1, <2>2, <1>11
<1>22. /\ r \in Seq(Solid) /\ z = stem \o r /\ r = SubSeq(z, Len(stem) + 1, Len(z))
       /\ Len(stem) + Len(r) + Len(Behind(x)) <= MAX_BUFFER_LINE - 2
  BY <1>15, <1>17, <1>19, <1>20
<1> QED  BY <1>8, <1>21, <1>22 DEF p, z

\* Tab is Complete, or nothing.
LEMMA TabRefines ==
    ASSUME NamesAreWords, EditorInv, Tab
    PROVE  Text!Complete \/ UNCHANGED Text!vars
<1>1. Stays /\ e' = HandleTabCompletion(e, tabs + 1 >= 2) /\ UNCHANGED <<browsing, saved>>
  BY DEF Tab, Stays
<1>2. Good(e) /\ before0 = Before(e) /\ after0 = Behind(e) /\ before0' = Before(e')
      /\ after0' = Behind(e')
  BY <1>1, StaysIs
<1>3. Good(e') /\ (SameLine(e', e) \/ Completed(e, Solid, e'))
  <2>1. Solid \in SUBSET Printable /\ "/" \in Solid
    BY EditorAssumption DEF Solid
  <2>2. CurrentWord(e) \in Seq(Solid)
    BY <1>2, WordIsSolid
  <2>3. Commands \subseteq Seq(Solid) /\ \A d \in DOMAIN Tree : Tree[d] \subseteq Seq(Solid)
    BY DEF NamesAreWords
  <2> HIDE DEF Solid
  <2> QED  BY <2>1, <2>2, <2>3, <1>1, <1>2, TabStep
<1>4. CASE SameLine(e', e)
  BY <1>1, <1>4, NoChange
<1>5. CASE Completed(e, Solid, e')
  <2>1. /\ before0 # <<>> /\ before0[Len(before0)] # " "
        /\ \E stem, r :
             /\ \/ stem = before0
                \/ \E i \in 2 .. Len(before0) :
                     /\ before0[i] = "/" /\ before0[i - 1] = "/"
                     /\ stem = SubSeq(before0, 1, i - 1) \o SubSeq(before0, i + 1, Len(before0))
             /\ r \in Seq(Solid) /\ before0' = stem \o r
             /\ r = SubSeq(before0', Len(stem) + 1, Len(before0'))
             /\ Len(stem) + Len(r) + Len(after0) <= MAX_BUFFER_LINE - 2
    BY <1>2, <1>3, <1>5, CompletedIs
  <2>2. PICK stem, r :
             /\ \/ stem = before0
                \/ \E i \in 2 .. Len(before0) :
                     /\ before0[i] = "/" /\ before0[i - 1] = "/"
                     /\ stem = SubSeq(before0, 1, i - 1) \o SubSeq(before0, i + 1, Len(before0))
             /\ r \in Seq(Solid) /\ before0' = stem \o r
             /\ r = SubSeq(before0', Len(stem) + 1, Len(before0'))
             /\ Len(stem) + Len(r) + Len(after0) <= MAX_BUFFER_LINE - 2
    BY <2>1
  <2>3. \A i \in DOMAIN r : r[i] # " "
    <3>1. \A i \in DOMAIN r : r[i] \in Solid
      <4>1. r \in Seq(Solid)
        BY <2>2, Zenon
      <4> HIDE DEF Solid
      <4> QED  BY <4>1
    <3> QED  BY <3>1, Zenon DEF Solid
  <2>4. Behind(e') = Behind(e)
    BY <1>5 DEF Completed
  <2>5. Edits(stem \o r, after0)
    BY <1>1, <1>2, <2>2, <2>4, StaysIs DEF Edits
  <2>6. draft0' = draft0
    BY <1>1, DraftStays
  <2> QED  BY <2>1, <2>2, <2>3, <2>5, <2>6, CompleteMaps
<1> QED  BY <1>3, <1>4, <1>5

\* Initial states are mapped to initial states.
LEMMA TextInit == ASSUME Init PROVE Text!Init
<1>1. EditorInv
  BY EditorInit
<1>2. pc = "editing" /\ history = <<>> /\ index = 0 /\ browsing = FALSE /\ given = <<>>
      /\ e.cursor = 0 /\ e.length = 0
  BY DEF Init
<1>3. Good(e)
  BY <1>1, <1>2 DEF EditorInv
<1>4. Before(e) = <<>> /\ Behind(e) = <<>>
  <2> DEFINE p == Before(e)
             q == Behind(e)
  <2>1. p \in Seq(Printable) /\ Len(p) = 0 /\ q \in Seq(Printable) /\ Len(q) = 0 - 0
    BY <1>2, <1>3, Halves
  <2> HIDE DEF p, q
  <2>2. p = <<>> /\ q = <<>>
    BY <2>1, EmptyIs
  <2> QED  BY <2>2 DEF p, q
<1>5. before0 = <<>> /\ after0 = <<>> /\ place0 = 1 /\ draft0 = <<>>
  BY <1>2, <1>4, EditingIs
<1> QED  BY <1>2, <1>5 DEF Text!Init, before0, after0, place0, draft0

\* Every step is a step of EditedLine or a stutter of it.
LEMMA TextStep ==
    ASSUME NamesAreWords, EditorInv, [Next]_vars
    PROVE  [Text!Next]_Text!vars
<1>1. CASE UNCHANGED vars
  <2>1. UNCHANGED Text!vars
    BY <1>1 DEF vars, Text!vars, Editing
  <2> QED  BY <2>1
<1>2. CASE Type \/ Left \/ Right \/ HomeKey \/ EndKey \/ Up \/ Enter \/ Usage \/ ReadLine \/ HangUp
  <2>1. Text!Type \/ Text!Move \/ Text!Older \/ Text!Enter \/ Text!Usage \/ Text!Taken
    BY <1>2, TypeRefines, MoveRefines, UpRefines, EnterRefines, UsageRefines,
       ReadLineRefines, HangUpRefines
  <2> QED  BY <2>1 DEF Text!Next
<1>3. CASE Backspace \/ Delete \/ Tab \/ Down
  <2>1. Text!Erase \/ Text!Delete \/ Text!Complete \/ Text!Newer \/ UNCHANGED Text!vars
    BY <1>3, BackspaceRefines, DeleteRefines, TabRefines, DownRefines
  <2> QED  BY <2>1 DEF Text!Next
<1> QED  BY <1>1, <1>2, <1>3 DEF Next

\* read_line with its array, its in-place shifts and its terminal implements a line edited
\* in place, when no name in PATH or in the directories has a blank in it.
THEOREM EditorIsALine ==
    ASSUME NamesAreWords
    PROVE  Spec => ImplementsEditedLine
<1>1. Init => Text!Init
  BY TextInit
<1>2. EditorInv /\ [Next]_vars => [Text!Next]_Text!vars
  BY TextStep
<1> QED  BY <1>1, <1>2, EditorKeeps, PTL DEF Spec, Text!Spec, ImplementsEditedLine
====
