---------------------------- MODULE ShellGrammar ----------------------------
(* The grammar of lab3 (shell.y) as what it promises for one line: which    *)
(* lines are commands, and what their actions put into the command table.   *)
(* A line is the sequence of its lexemes without the newline that ends it.  *)
EXTENDS Naturals, Sequences, SequencesExt

CONSTANT Lexemes  \* what the scanner may deliver besides a newline

None == "none"

(* Command::clear.                                                           *)
Empty == [cmds |-> <<>>, out |-> None, in |-> None, err |-> None,
          bg |-> FALSE, appendOut |-> FALSE, appendErr |-> FALSE]

-----------------------------------------------------------------------------
(* shell.l: the token of a lexeme. "2>" and "2>>" are no tokens of their own,*)
(* and the grammar has no use for the parentheses the scanner returns.       *)
Token(x) == CASE x \in {"2>>&", ">>&"} -> "GREATGREATAMPERSAND"
              [] x \in {"2>&", ">&"}   -> "GREATAMPERSAND"
              [] x \in {"2>>", ">>"}   -> "GREATGREAT"
              [] x \in {"2>", ">"}     -> "GREAT"
              [] x = "<"               -> "LESS"
              [] x = "|"               -> "PIPE"
              [] x = "&"               -> "AMPERSAND"
              [] x \in {"(", ")"}      -> "PAREN"
              [] OTHER                 -> "WORD"

Redirects == {"GREATGREATAMPERSAND", "GREATAMPERSAND", "GREATGREAT", "GREAT", "LESS"}

(* io_modifier: a redirection that is already taken is ambiguous and ignored.*)
Redirect(t, r, w) ==
  CASE r = "LESS" -> IF t.in # None THEN t ELSE [t EXCEPT !.in = w]
    [] r \in {"GREAT", "GREATGREAT"} ->
         IF t.out # None THEN t
         ELSE [t EXCEPT !.out = w, !.appendOut = (r = "GREATGREAT")]
    [] OTHER ->
         IF t.out # None \/ t.err # None THEN t
         ELSE [t EXCEPT !.out = w, !.err = w,
                        !.appendOut = (r = "GREATGREATAMPERSAND"),
                        !.appendErr = (r = "GREATGREATAMPERSAND")]

(* The parser: where it is in the line, the simple command it is collecting  *)
(* (_currentSimpleCommand), the redirection it is in, and the table.         *)
Start(t) == [at |-> "start", simple |-> <<>>, redirect |-> None, table |-> t]

(* command_and_args, reduced when anything but a word follows: insertSimpleCommand. *)
Reduce(p) == IF p.at # "args" THEN p
             ELSE [p EXCEPT !.at = "pipe_list",
                            !.table.cmds = Append(@, p.simple),
                            !.simple = <<>>]

Error(p) == [p EXCEPT !.at = "error"]

(* A word starts a simple command, is an argument, or names a redirection's file. *)
ShiftWord(p, w) ==
  CASE p.at \in {"start", "pipe"} -> [p EXCEPT !.at = "args", !.simple = <<w>>]
    [] p.at = "args" -> [p EXCEPT !.simple = Append(@, w)]
    [] p.at = "file" -> [p EXCEPT !.at = "modifiers",
                                  !.table = Redirect(p.table, p.redirect, w)]
    [] OTHER -> Error(p)

ShiftOperator(p, t) ==
  CASE t = "PIPE" /\ p.at = "pipe_list" -> [p EXCEPT !.at = "pipe"]
    [] t \in Redirects /\ p.at \in {"pipe_list", "modifiers"} ->
         [p EXCEPT !.at = "file", !.redirect = t]
    [] t = "AMPERSAND" /\ p.at \in {"pipe_list", "modifiers"} ->
         [p EXCEPT !.at = "background", !.table.bg = TRUE]
    [] OTHER -> Error(p)

Shift(p, x) == IF Token(x) = "WORD" THEN ShiftWord(p, x)
               ELSE ShiftOperator(Reduce(p), Token(x))

(* A whole line with its newline: in a syntax error the rest of the line is  *)
(* skipped (error NEWLINE { yyerrok; }). Each state is an element of a set,  *)
(* so that TLC computes it once.                                             *)
Parse(t, l) ==
  LET next(p, x) == CHOOSE q \in {Shift(o, x) : o \in {p}} : TRUE
      p == Reduce(FoldLeft(next, Start(t), l))
  IN  IF p.at \in {"start", "pipe_list", "modifiers", "background"} THEN p ELSE Error(p)
=============================================================================
