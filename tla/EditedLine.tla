----------------------------- MODULE EditedLine -----------------------------
(* What the line editor promises (lab3/read-line.c): a line with a cursor in *)
(* it, the lines entered before, and a way back from them to the line that   *)
(* was being typed.                                                          *)
EXTENDS Integers, SequencesExt

CONSTANTS Keys,         \* the characters that can be typed
          MaxLine,      \* a line's greatest length
          MaxPast       \* how many lines are kept

VARIABLES before,  \* the text in front of the cursor
          after,   \* the text behind it
          past,    \* the lines entered before, the last one last
          place,   \* the one of them shown last; Len(past) + 1: none since the line began
          draft,   \* << the line left for them >>, or <<>>
          given    \* the line entered last, until the lexer has taken it

vars == <<before, after, past, place, draft, given>>

Line == before \o after
Latest(s, n) == SubSeq(s, IF Len(s) > n THEN Len(s) - n + 1 ELSE 1, Len(s))

(* A line is kept unless it is empty or the one before again.                *)
Remembered(line) == IF line = <<>> \/ (past # <<>> /\ past[Len(past)] = line) THEN past
                    ELSE Latest(Append(past, line), MaxPast)

Edit(front, back) == /\ before' = front /\ after' = back
                     /\ UNCHANGED <<past, place, given>>
Show(line)        == before' = line /\ after' = <<>>

(* A full line takes no more. What is typed makes this the line to come back *)
(* to.                                                                       *)
Type == \E c \in Keys : /\ Edit(IF Len(Line) < MaxLine THEN Append(before, c) ELSE before, after)
                        /\ draft' = <<>>

Erase  == before # <<>> /\ Edit(Front(before), after) /\ UNCHANGED draft
Delete == after # <<>> /\ Edit(before, Tail(after)) /\ UNCHANGED draft

Move == \E i \in 0 .. Len(Line) : /\ Edit(SubSeq(Line, 1, i), SubSeq(Line, i + 1, Len(Line)))
                                  /\ UNCHANGED draft

(* The word in front of the cursor can only grow, and nothing else changes;  *)
(* of two slashes in it, one may go.                                         *)
OneSlash(s) == {RemoveAt(s, i) : i \in {j \in 2 .. Len(s) : s[j] = "/" /\ s[j - 1] = "/"}}
Complete == /\ before # <<>> /\ before[Len(before)] # " "
            /\ \E stem \in {before} \cup OneSlash(before) :
               \E w \in {SubSeq(before', Len(stem) + 1, Len(before'))} :
                 /\ " " \notin {w[i] : i \in DOMAIN w}
                 /\ Len(stem) + Len(w) + Len(after) <= MaxLine
                 /\ Edit(stem \o w, after)
            /\ UNCHANGED draft

Older == /\ draft' = IF draft = <<>> THEN <<Line>> ELSE draft
         /\ \/ place > 1 /\ place' = place - 1 /\ Show(past[place - 1])
            \/ place = 1 /\ UNCHANGED <<before, after, place>>
         /\ UNCHANGED <<past, given>>

Newer == /\ draft # <<>>
         /\ \/ /\ place < Len(past)
               /\ place' = place + 1 /\ Show(past[place + 1]) /\ UNCHANGED draft
            \/ /\ place >= Len(past)
               /\ place' = Len(past) + 1 /\ Show(draft[1]) /\ draft' = <<>>
         /\ UNCHANGED <<past, given>>

NewLine == Show(<<>>) /\ place' = Len(past') + 1 /\ draft' = <<>>

Enter == given' = Append(Line, "\n") /\ past' = Remembered(Line) /\ NewLine

(* Asking for the usage gives the line up: nothing is said of what is given. *)
Usage == given' \in Seq(STRING) /\ UNCHANGED past /\ NewLine

Taken == given' = <<>> /\ UNCHANGED <<before, after, past, place, draft>>

Init == /\ before = <<>> /\ after = <<>> /\ past = <<>> /\ place = 1
        /\ draft = <<>> /\ given = <<>>

Next == Type \/ Erase \/ Delete \/ Move \/ Complete \/ Older \/ Newer \/ Enter \/ Usage \/ Taken

Spec == Init /\ [][Next]_vars
=============================================================================
