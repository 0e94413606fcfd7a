----------------------------- MODULE LineEditor -----------------------------
(* The shell's line editor (lab3/read-line.c): the line in a fixed array, the*)
(* history, completion, and the terminal, which shows what was written to it.*)
EXTENDS Integers, FiniteSets, SequencesExt

CONSTANTS Keys,              \* the characters that are typed
          MAX_BUFFER_LINE, MAX_HISTORY,
          Commands,          \* the names in the directories of PATH
          Tree,              \* directories, as texts, and the names in them
          Home,              \* HOME
          MaxEntered,        \* bound: lines entered
          MaxEnteredLength   \* bound: the length of those

VARIABLES e,         \* line_buffer, line_length, cursor_position, and the terminal
          history,
          index,     \* history_index, from 0
          browsing,  \* browsing_history
          saved,     \* saved_line
          tabs,      \* tab_pressed_count
          given,     \* what mygetc hands over before it calls read_line again
          pc,        \* editing, returned (between two calls), or dead
          entered    \* the lines so far

vars == <<e, history, index, browsing, saved, tabs, given, pc, entered>>

NUL == "NUL"
BS  == "BS"     \* \b

(* Keys that read_line does not handle apart; names are made of the same.    *)
Printable == STRING \ {NUL, BS, "\n"}

ASSUME EditorAssumption ==
  /\ MAX_BUFFER_LINE \in Nat /\ MAX_BUFFER_LINE >= 2
  /\ MAX_HISTORY \in Nat \ {0}
  /\ Keys \cup {" ", "/", "."} \subseteq Printable /\ {NUL, BS, "\n"} \subseteq STRING
  /\ Commands \subseteq Seq(Printable)
  /\ \A d \in DOMAIN Tree : Tree[d] \subseteq Seq(Printable)

(* The C string from position i of an array.                                 *)
CString(buf, i) ==
  LET n == CHOOSE k \in DOMAIN buf : k >= i /\ buf[k] = NUL /\ \A j \in i .. k - 1 : buf[j] # NUL
  IN  [k \in 1 .. n - i |-> buf[i + k - 1]]

Piece(buf, from, n) == [k \in 1 .. n |-> buf[from + k - 1]]

(* strcpy to the start of the array.                                         *)
Copied(buf, s) == [i \in DOMAIN buf |-> IF i < Len(s) THEN s[i + 1]
                                        ELSE IF i = Len(s) THEN NUL ELSE buf[i]]

(* write(1, ...): characters go where the terminal's cursor is. The terminal *)
(* is one row as long as any line: on a real one a longer line than the row  *)
(* wraps, and a backspace does not go back over the wrap.                    *)
Blanks == [i \in 1 .. MAX_BUFFER_LINE |-> " "]
Put(x, c) ==
  IF c = BS THEN [x EXCEPT !.column = @ - 1]
  ELSE IF c = "\n" THEN [x EXCEPT !.shown = Blanks, !.column = 0]
  ELSE [x EXCEPT !.shown[x.column + 1] = c, !.column = @ + 1]
Write(x, s) == FoldLeft(Put, x, s)
Times(n, c) == [i \in 1 .. n |-> c]

-----------------------------------------------------------------------------
InsertChar(x, c) ==
  IF x.length >= MAX_BUFFER_LINE - 2 THEN x
  ELSE LET y == [x EXCEPT !.buf = [i \in DOMAIN @ |->
                                     IF i = x.cursor THEN c
                                     ELSE IF i \in x.cursor + 1 .. x.length THEN @[i - 1] ELSE @[i]],
                          !.cursor = @ + 1, !.length = @ + 1]
       IN  Write(y, Piece(y.buf, y.cursor - 1, y.length - y.cursor + 1)
                      \o Times(y.length - y.cursor, BS))

\* Mutant: one step back too few after the rest of the line is written again.
DeleteCharShort(x) ==
  IF x.cursor >= x.length THEN x
  ELSE LET y == [x EXCEPT !.buf = [i \in DOMAIN @ |-> IF i \in x.cursor .. x.length - 2
                                                      THEN @[i + 1] ELSE @[i]],
                          !.length = @ - 1]
       IN  Write(y, Piece(y.buf, y.cursor, y.length - y.cursor) \o <<" ">>
                      \o Times(y.length - y.cursor, BS))

DeleteChar(x) ==
  IF x.cursor >= x.length THEN x
  ELSE LET y == [x EXCEPT !.buf = [i \in DOMAIN @ |-> IF i \in x.cursor .. x.length - 2
                                                      THEN @[i + 1] ELSE @[i]],
                          !.length = @ - 1]
       IN  Write(y, Piece(y.buf, y.cursor, y.length - y.cursor) \o <<" ">>
                      \o Times(y.length - y.cursor + 1, BS))

MoveLeft(x) == IF x.cursor = 0 THEN x ELSE Write([x EXCEPT !.cursor = @ - 1], <<BS>>)

BackspaceChar(x) == IF x.cursor = 0 THEN x ELSE DeleteChar(MoveLeft(x))

MoveRight(x) == IF x.cursor >= x.length THEN x
                ELSE Write([x EXCEPT !.cursor = @ + 1], <<x.buf[x.cursor]>>)

MoveHome(x) == Write([x EXCEPT !.cursor = 0], Times(x.cursor, BS))
MoveEnd(x)  == Write([x EXCEPT !.cursor = x.length],
                     Piece(x.buf, x.cursor, x.length - x.cursor))

ClearLine(x) == [Write(MoveHome(x), Times(x.length, " ") \o Times(x.length, BS))
                   EXCEPT !.length = 0]

Load(x, s) == Write([ClearLine(x) EXCEPT !.buf = Copied(@, s), !.length = Len(s),
                                         !.cursor = Len(s)], s)

-----------------------------------------------------------------------------
(* get_current_word: from the last blank before the cursor.                  *)
WordStart(x) == LET blanks == {i \in 1 .. x.cursor : x.buf[i - 1] = " "}
                IN  IF blanks = {} THEN 0 ELSE CHOOSE i \in blanks : \A j \in blanks : j <= i
CurrentWord(x) == Piece(x.buf, WordStart(x), x.cursor - WordStart(x))

IsFirstWord(x) == \A i \in 0 .. WordStart(x) - 1 : x.buf[i] = " "

FindCommandCompletions(w) == {c \in Commands : IsPrefix(w, c)}

FindFileCompletions(w) ==
  LET slash == SelectLastInSeq(w, LAMBDA c : c = "/")
      dir   == CASE slash = 0 -> <<".">> [] slash = 1 -> <<"/">>
                 [] OTHER -> SubSeq(w, 1, slash - 1)
      path  == IF dir[1] = "~" THEN Home \o Tail(dir) ELSE dir
      part  == SubSeq(w, slash + 1, Len(w))
      names == IF path \in DOMAIN Tree
               THEN {n \in Tree[path] : IsPrefix(part, n) /\ (n[1] = "." => part # <<>>)}
               ELSE {}
      below(d, n) == IF d = <<"/">> THEN d \o n ELSE d \o <<"/">> \o n
      full(n) == IF path = <<".">> THEN n ELSE below(path, n)
  IN  {(IF slash = 0 THEN n ELSE below(dir, n))
         \o (IF full(n) \in DOMAIN Tree THEN <<"/">> ELSE <<>>) : n \in names}

Common(S) == LET s == CHOOSE t \in S : TRUE
             IN  SubSeq(s, 1, CHOOSE n \in 0 .. Len(s) :
                                /\ \A t \in S : IsPrefix(SubSeq(s, 1, n), t)
                                /\ n < Len(s) => \E t \in S : ~IsPrefix(SubSeq(s, 1, n + 1), t))

(* The word is erased and the new one typed, as far as the line has room.    *)
Replace(x, w, by) == FoldLeft(InsertChar, FoldLeft(LAMBDA y, c : BackspaceChar(y), x, w), by)

HandleTabCompletion(x, double) ==
  LET w        == CurrentWord(x)
      commands == IF IsFirstWord(x) /\ ~Contains(w, "/") THEN FindCommandCompletions(w) ELSE {}
      files    == FindFileCompletions(w)
      count    == Cardinality(commands) + Cardinality(files)
      common   == Common(commands \cup files)
  IN  IF w = <<>> \/ count = 0 THEN x
      ELSE IF double
           THEN Write(x, <<"\n">> \o Piece(x.buf, 0, x.length)
                           \o Times(x.length - x.cursor, BS))
      ELSE IF count = 1 \/ Len(common) > Len(w) THEN Replace(x, w, common)
      ELSE x

-----------------------------------------------------------------------------
Init == /\ e = [buf |-> [i \in 0 .. MAX_BUFFER_LINE - 1 |-> NUL], length |-> 0,
                cursor |-> 0, shown |-> Blanks, column |-> 0]
        /\ history = <<>> /\ index = 0 /\ browsing = FALSE /\ saved = <<>> /\ tabs = 0
        /\ given = <<>> /\ pc = "editing" /\ entered = 0

Edit(x) == /\ pc = "editing"
           /\ e' = x /\ tabs' = 0
           /\ UNCHANGED <<history, index, given, pc, entered>>

Type == /\ \E c \in Keys : Edit(InsertChar(e, c))
        /\ saved' = IF ~browsing /\ e.length = 0 THEN <<>> ELSE saved
        /\ browsing' = FALSE

EditKey(x) == Edit(x) /\ UNCHANGED <<browsing, saved>>

Backspace == EditKey(BackspaceChar(e))
Delete    == EditKey(DeleteChar(e))
Left      == EditKey(MoveLeft(e))
Right     == EditKey(MoveRight(e))
HomeKey   == EditKey(MoveHome(e))
EndKey    == EditKey(MoveEnd(e))

Tab == /\ pc = "editing"
       /\ e' = HandleTabCompletion(e, tabs + 1 >= 2)
       /\ tabs' = IF tabs + 1 >= 2 THEN 0 ELSE tabs + 1
       /\ UNCHANGED <<history, index, browsing, saved, given, pc, entered>>

\* Mutant: the line is saved on every step up.
UpSaves ==
  /\ pc = "editing" /\ tabs' = 0
  /\ saved' = Piece(e.buf, 0, e.length)
  /\ browsing' = TRUE
  /\ IF index > 0 THEN index' = index - 1 /\ e' = Load(e, history[index])
     ELSE UNCHANGED <<index, e>>
  /\ UNCHANGED <<history, given, pc, entered>>

Up ==
  /\ pc = "editing" /\ tabs' = 0
  /\ saved' = IF browsing THEN saved ELSE Piece(e.buf, 0, e.length)
  /\ browsing' = TRUE
  /\ IF index > 0 THEN index' = index - 1 /\ e' = Load(e, history[index])
     ELSE UNCHANGED <<index, e>>
  /\ UNCHANGED <<history, given, pc, entered>>

Down ==
  /\ pc = "editing" /\ tabs' = 0
  /\ \/ ~browsing /\ UNCHANGED <<e, index, browsing>>
     \/ /\ browsing /\ index < Len(history) - 1
        /\ index' = index + 1 /\ e' = Load(e, history[index + 2])
        /\ UNCHANGED browsing
     \/ /\ browsing /\ index >= Len(history) - 1
        /\ index' = Len(history) /\ e' = Load(e, saved)
        /\ browsing' = FALSE
  /\ UNCHANGED <<history, saved, given, pc, entered>>

AddToHistory(line) ==
  LET cmd == Front(line)
  IN  IF Len(line) <= 1 \/ (history # <<>> /\ history[Len(history)] = cmd) THEN history
      ELSE IF Len(history) < MAX_HISTORY THEN Append(history, cmd)
      ELSE Append(Tail(history), cmd)

(* mygetc hands over a first character and then up to the end of the string. *)
Handed(buf) == <<buf[0]>> \o CString(buf, 1)

Return(buf) ==
  \E b \in {[buf EXCEPT ![e.length] = "\n", ![e.length + 1] = NUL]} :
    /\ e' = [Put(e, "\n") EXCEPT !.buf = b, !.length = @ + 1]
    /\ history' = AddToHistory(CString(b, 0))
    /\ given' = Handed(b)
    /\ pc' = "returned" /\ tabs' = 0 /\ entered' = entered + 1
    /\ UNCHANGED <<index, browsing, saved>>

MayEnter == entered < MaxEntered /\ e.length <= MaxEnteredLength
Enter == pc = "editing" /\ MayEnter /\ Return(e.buf)

(* ctrl-_ prints the usage and ends the line, whose length it does not change*)
Usage == pc = "editing" /\ MayEnter /\ Return([e.buf EXCEPT ![0] = NUL])

ReadLine == /\ pc = "returned" /\ pc' = "editing"
            /\ e' = [e EXCEPT !.length = 0, !.cursor = 0]
            /\ browsing' = FALSE /\ index' = Len(history) /\ tabs' = 0 /\ given' = <<>>
            /\ UNCHANGED <<history, saved, entered>>

(* The terminal is gone: read_line returns NULL, and mygetc follows it.      *)
HangUp == /\ pc = "editing" /\ pc' = "dead"
          /\ UNCHANGED <<e, history, index, browsing, saved, tabs, given, entered>>

Next == \/ Type \/ Backspace \/ Delete \/ Left \/ Right \/ HomeKey \/ EndKey \/ Tab
        \/ Up \/ Down \/ Enter \/ Usage \/ ReadLine \/ HangUp

Spec == Init /\ [][Next]_vars

-----------------------------------------------------------------------------
Editing == pc = "editing"

(* The array, its length and its cursor are a line that is edited in place;  *)
(* what was shifted, copied or left behind in it never shows.                *)
Text == INSTANCE EditedLine WITH
          before  <- IF Editing THEN Piece(e.buf, 0, e.cursor) ELSE <<>>,
          after   <- IF Editing THEN Piece(e.buf, e.cursor, e.length - e.cursor) ELSE <<>>,
          past    <- history,
          place   <- IF Editing THEN index + 1 ELSE Len(history) + 1,
          draft   <- IF Editing /\ browsing THEN <<saved>> ELSE <<>>,
          MaxLine <- MAX_BUFFER_LINE - 2,
          MaxPast <- MAX_HISTORY
ImplementsEditedLine == Text!Spec

(* What stands on the terminal is the line, and its cursor is the line's, for*)
(* lines that fit into one row of it.                                        *)
ScreenShowsLine ==
  Editing => /\ e.column = e.cursor
             /\ \A i \in DOMAIN e.shown :
                  e.shown[i] = IF i <= e.length THEN e.buf[i - 1] ELSE " "
=============================================================================
