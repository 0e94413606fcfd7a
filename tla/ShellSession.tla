---------------------------- MODULE ShellSession ----------------------------
(* The shell of lab3 from a line of input to the command it executes: the    *)
(* scanner's buffer (shell.l), the grammar's actions on the one shared       *)
(* command table (shell.y), and the dispatch of Command::execute (command.cc)*)
(* including source, which parses again, inside execute, from another file.  *)
(* A line is the sequence of its lexemes without the newline that ends it;   *)
(* what an external command does is ShellPipeline's and ShellJobs' matter.   *)
EXTENDS ShellGrammar

CONSTANTS Scripts,    \* the possible inputs: sequences of lines
          FileLines,  \* the lines of the file that `source f` names
          MaxFrames   \* how many inputs can be open before fopen fails

ASSUME SessionAssumption == /\ Scripts \subseteq Seq(Seq(Lexemes))
                            /\ FileLines \in Seq(Seq(Lexemes))
                            /\ MaxFrames \in Nat \ {0}

VARIABLES terminal,\* whether stdin is a terminal (isatty(0))
          buffer,  \* lines in flex's buffer, not yet parsed
          rest,    \* per nested yyparse, innermost last: unread lines of its yyin
          current, \* Shell::_currentCommand
          asked,   \* history: the line being executed
          doing,   \* "parse", "execute" or "done"
          spoiled, \* history: the table may hold more than the next line puts there
          ran      \* history: what was executed, with the line that asked for it

sessionVars == <<terminal, buffer, rest, current, asked, doing, spoiled, ran>>

-----------------------------------------------------------------------------
SessionInit ==
  /\ terminal \in BOOLEAN
  /\ buffer = <<>>
  /\ \E s \in Scripts : rest = <<s>>
  /\ current = Empty
  /\ asked = <<>>
  /\ doing = "parse"
  /\ spoiled = FALSE
  /\ ran = <<>>

(* Where YY_INPUT reads: yyin, which source sets; at a terminal mygetc reads *)
(* from the terminal whatever yyin is.                                       *)
Source == IF terminal THEN 1 ELSE Len(rest)

(* The buffer is empty and is filled: line by line from a terminal, else with*)
(* all there is (inputs are shorter than the buffer).                        *)
Fill == /\ doing = "parse" /\ buffer = <<>> /\ rest[Source] # <<>>
        /\ IF terminal
           THEN /\ buffer' = <<Head(rest[Source])>>
                /\ rest' = [rest EXCEPT ![Source] = Tail(@)]
           ELSE /\ buffer' = rest[Source]
                /\ rest' = [rest EXCEPT ![Source] = <<>>]
        /\ UNCHANGED <<terminal, current, asked, doing, spoiled, ran>>

(* command_line: an empty line does nothing, a malformed one leaves in the   *)
(* table what was reduced before the error, any other is executed.           *)
ParseLine ==
  /\ doing = "parse" /\ buffer # <<>>
  /\ \E p \in {Parse(current, Head(buffer))} :
       /\ current' = p.table
       /\ asked' = Head(buffer)
       /\ doing' = IF p.at \in {"start", "error"} THEN "parse" ELSE "execute"
       /\ spoiled' = (spoiled \/ p.at = "error")
  /\ buffer' = Tail(buffer)
  /\ UNCHANGED <<terminal, rest, ran>>

Command == current.cmds[1][1]
Record == ran' = Append(ran, [line |-> asked, table |-> current, spoiled |-> spoiled])

Exit == /\ doing = "execute" /\ Command = "exit"
        /\ Record
        /\ doing' = "done"
        /\ UNCHANGED <<terminal, buffer, rest, current, asked, spoiled>>

\* Mutant: the table is not cleared after a command.
PlainKept == /\ doing = "execute" /\ Command \notin {"exit", "source"}
             /\ Record
             /\ doing' = "parse"
             /\ spoiled' = FALSE
             /\ UNCHANGED <<terminal, buffer, rest, current, asked>>

(* cd, setenv, unsetenv, printenv and every external command: done with the  *)
(* table, execute clears it.                                                 *)
Plain == /\ doing = "execute" /\ Command \notin {"exit", "source"}
         /\ Record
         /\ current' = Empty
         /\ doing' = "parse"
         /\ spoiled' = FALSE
         /\ UNCHANGED <<terminal, buffer, rest, asked>>

Opens == Len(current.cmds[1]) = 2 /\ Len(rest) < MaxFrames

(* source without one argument, or with a file fopen cannot open.            *)
SourceFails == /\ doing = "execute" /\ Command = "source" /\ ~Opens
               /\ current' = Empty
               /\ doing' = "parse"
               /\ spoiled' = FALSE
               /\ UNCHANGED <<terminal, buffer, rest, asked, ran>>

(* source: yyin is the file and yyparse runs again. The table still holds the*)
(* source command itself, and flex's buffer what it held.                    *)
SourceFile == /\ doing = "execute" /\ Command = "source" /\ Opens
              /\ rest' = Append(rest, FileLines)
              /\ doing' = "parse"
              /\ spoiled' = TRUE
              /\ UNCHANGED <<terminal, buffer, current, asked, ran>>

\* Mutant: the outer yyin is not put back.
EndOfInputStays ==
  /\ doing = "parse" /\ buffer = <<>> /\ rest[Source] = <<>> /\ ~terminal
  /\ IF Len(rest) = 1 THEN doing' = "done" /\ UNCHANGED <<rest, current, spoiled>>
     ELSE rest' = rest /\ current' = Empty /\ spoiled' = FALSE /\ UNCHANGED doing
  /\ UNCHANGED <<terminal, buffer, asked, ran>>

(* End of file ends the innermost yyparse: source puts yyin back and clears  *)
(* the table; at the outermost the shell ends. A terminal never ends.        *)
EndOfInput ==
  /\ doing = "parse" /\ buffer = <<>> /\ rest[Source] = <<>> /\ ~terminal
  /\ IF Len(rest) = 1 THEN doing' = "done" /\ UNCHANGED <<rest, current, spoiled>>
     ELSE rest' = Front(rest) /\ current' = Empty /\ spoiled' = FALSE /\ UNCHANGED doing
  /\ UNCHANGED <<terminal, buffer, asked, ran>>

(* The shell has ended, or waits for more to be typed.                       *)
AtEnd == \/ doing = "done"
         \/ terminal /\ doing = "parse" /\ buffer = <<>> /\ rest[Source] = <<>>

Ended == AtEnd /\ UNCHANGED sessionVars

SessionNext == \/ Fill \/ ParseLine \/ Exit \/ Plain
               \/ SourceFails \/ SourceFile \/ EndOfInput \/ Ended

SessionSpec == SessionInit /\ [][SessionNext]_sessionVars /\ WF_sessionVars(SessionNext)

-----------------------------------------------------------------------------
(* The stack of inputs stays within the limit and only a line with commands *)
(* is executed.                                                              *)
TypeOK == /\ rest # <<>> /\ Len(rest) <= MaxFrames
          /\ DOMAIN current = DOMAIN Empty
          /\ doing \in {"parse", "execute", "done"}
          /\ doing = "execute" =>
               current.cmds # <<>> /\ \A c \in ToSet(current.cmds) : c # <<>>

(* What is executed is what its line says, unless the line before was        *)
(* malformed or a source: those do leave something in the shared table       *)
(* (shell.y:39, command.cc:190), and the one command executed next is left   *)
(* out here. No other line leaves anything, and no later command is touched. *)
RunsWhatItSays ==
  \A k \in DOMAIN ran : ~ran[k].spoiled => ran[k].table = Parse(Empty, ran[k].line).table

(* Whatever it is fed, the shell comes to the end of its input or back to the*)
(* prompt: source inside source runs into the limit on open files and the    *)
(* parses unwind.                                                            *)
SessionEnds == <>[]AtEnd
=============================================================================
