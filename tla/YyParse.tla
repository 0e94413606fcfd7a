------------------------------ MODULE YyParse ------------------------------
(* yyparse of lab3's y.tab.cc: the table-driven parser that Bison made of    *)
(* shell.y, with its tables, its default reductions and its error recovery,  *)
(* and with the yyparse that `source` runs inside an action of another. The  *)
(* lookahead token, yychar, is one global for all of them. The scanner may   *)
(* deliver any lexeme, or the end of the file, whenever it is asked.         *)
EXTENDS Integers, ShellGrammar

CONSTANTS MaxLexemes, \* bound: lexemes since the command table was last empty
          MaxParses   \* bound: how many yyparse are active at once

YYEMPTY == "YYEMPTY"
YYEOF   == "YYEOF"
NEWLINE == "NEWLINE"

ASSUME ParserAssumption == /\ MaxLexemes \in Nat /\ MaxParses \in Nat \ {0}
                           /\ Lexemes \cap {YYEMPTY, YYEOF, NEWLINE} = {}

VARIABLES parses,  \* active yyparse, innermost last: state stack and yyerrstatus
          yychar,  \* the lookahead, of all of them
          simple,  \* Command::_currentSimpleCommand
          table,   \* Shell::_currentCommand
          pc,      \* "parse", "execute" (inside the action of rule 5), "done"
          line,    \* history: the lexemes of the line so far
          base,    \* history: the command table when the line began
          outcome, \* history: what became of the line, once its newline is read
          reports, \* history: how many syntax errors were printed for it
          eof,     \* history: which yyparse read the last end of file
          cut      \* history: a sourced file ended outside a list of whole lines

vars == <<parses, yychar, simple, table, pc, line, base, outcome, reports, eof, cut>>

-----------------------------------------------------------------------------
(* The tables.                                                               *)
YYFINAL      == 14
YYLAST       == 40
YYNTOKENS    == 16
YYPACT_NINF  == -7
ErrorSymbol  == 1

At(t, i) == t[i + 1]

yypact == << 6, -6, -7, -7, 6, 8, 0, -7, -3, -1, -7, -7, -7, 1, -7, -7, 10, 22, -7, 16,
            -7, -7, 18, 19, 20, 21, 28, -7, -7, 23, -7, -7, -7, -7, -7, -7, -7 >>
yydefact == << 0, 0, 14, 7, 0, 0, 0, 3, 18, 11, 10, 16, 8, 0, 1, 4, 0, 25, 6, 13,
              12, 9, 0, 0, 0, 0, 0, 24, 17, 0, 15, 19, 20, 21, 22, 23, 5 >>
yypgoto == << -7, -7, 29, 12, -7, -7, 24, -7, -7, -7, -7, -7 >>
yydefgoto == << 0, 5, 6, 7, 8, 9, 10, 11, 19, 17, 28, 29 >>
yytable == << -2, 1, 1, 2, 2, 12, 16, 1, 14, 2, 18, 3, 3, 2, 4, 4, 20, 3, 15, 30,
             4, 31, 32, 33, 34, 15, 22, 23, 24, 25, 26, 35, 27, 13, 36, 0, 0, 0, 0, 0, 21 >>
yycheck == << 0, 1, 1, 3, 3, 11, 9, 1, 0, 3, 11, 11, 11, 3, 14, 14, 15, 11, 6, 3,
             14, 3, 3, 3, 3, 13, 4, 5, 6, 7, 8, 3, 10, 4, 11, -1, -1, -1, -1, -1, 16 >>
yyr1 == << 0, 16, 17, 18, 18, 19, 19, 19, 19, 20, 20, 20, 21, 22, 23, 24, 24, 25, 25,
          26, 26, 26, 26, 26, 27, 27 >>
yyr2 == << 0, 2, 1, 1, 2, 4, 2, 1, 2, 3, 1, 1, 3, 2, 1, 2, 0, 2, 0, 2, 2, 2, 2, 2, 1, 0 >>

(* yysymbol_kind_t. The scanner's parentheses are LPAREN and RPAREN; the      *)
(* grammar's, '(' and ')', are symbols nobody returns.                       *)
SymbolKind == [WORD |-> 3, GREAT |-> 4, GREATGREAT |-> 5, GREATAMPERSAND |-> 6,
               GREATGREATAMPERSAND |-> 7, LESS |-> 8, PIPE |-> 9, AMPERSAND |-> 10, PAREN |-> 12]
Translate(x) == CASE x = YYEOF   -> 0
                  [] x = NEWLINE -> 11
                  [] OTHER       -> SymbolKind[Token(x)]

(* The entry of yytable for a state and a symbol, 0 where yycheck says none. *)
Entry(s, symbol) ==
  LET i == At(yypact, s) + symbol
  IN  IF At(yypact, s) # YYPACT_NINF /\ i \in 0 .. YYLAST /\ At(yycheck, i) = symbol
      THEN At(yytable, i) ELSE 0

\* Mutant: the lookahead is read before the default is looked up.
LooksAhead(s) == At(yypact, s) >= YYPACT_NINF

(* yybackup, yydefault: shift (positive), reduce (negative) or error (0). A  *)
(* state whose default is the only choice is served without a lookahead.     *)
NeedsLookahead(s) == At(yypact, s) # YYPACT_NINF
Choice(s, x) == LET e == IF NeedsLookahead(s) THEN Entry(s, Translate(x)) ELSE 0
                IN  IF e # 0 THEN e ELSE -At(yydefact, s)

(* yyreduce: where the parser goes after a reduction to the left-hand side.  *)
Goto(n, s) == LET lhs == At(yyr1, n) - YYNTOKENS
                  i   == At(yypgoto, lhs) + s
              IN  IF i \in 0 .. YYLAST /\ At(yycheck, i) = s
                  THEN At(yytable, i) ELSE At(yydefgoto, lhs)

-----------------------------------------------------------------------------
(* A stack entry is a state and the semantic value beside it.                *)
Push(stack, s, v) == Append(stack, [state |-> s, value |-> v])
Popped(stack, n)  == SubSeq(stack, 1, Len(stack) - n)
NewParse == [stack |-> Push(<<>>, 0, None), status |-> 0]

Stack == Last(parses).stack
State == Last(Stack).state
Value(k, n) == Stack[Len(Stack) - At(yyr2, n) + k].value   \* $k of rule n

Reduced(stack, n) ==
  LET below == Popped(stack, At(yyr2, n))
  IN  Push(below, Goto(n, Last(below).state), None)

SetTop(stack, status) ==
  parses' = [parses EXCEPT ![Len(parses)] = [stack |-> stack, status |-> status]]

Parsing == pc = "parse" /\ State # YYFINAL

Init == /\ parses = <<NewParse>>
        /\ yychar = YYEMPTY
        /\ simple = <<>>
        /\ table = Empty
        /\ pc = "parse"
        /\ line = <<>>
        /\ base = Empty
        /\ outcome = None
        /\ reports = 0
        /\ eof = 0
        /\ cut = FALSE

(* Bound: a word that earlier, malformed lines left in the table counts as   *)
(* two lexemes of this line, being inside a sourced file as three.           *)
LeftIn(t) == IF t = Empty THEN 0 ELSE FoldLeft(LAMBDA n, c : n + Len(c), 1, t.cmds)
Room == (IF outcome = None THEN Len(line) + 2 * LeftIn(base) ELSE 2 * LeftIn(table))
          + 3 * (Len(parses) - 1) < MaxLexemes

(* yybackup calls yylex.                                                     *)
Lex == /\ Parsing /\ NeedsLookahead(State) /\ yychar = YYEMPTY
       /\ \E x \in Lexemes \cup {NEWLINE, YYEOF} :
            /\ x \in Lexemes => Room
            /\ yychar' = x
            /\ line' = (IF outcome = None THEN line ELSE <<>>)
                          \o (IF x \in Lexemes THEN <<x>> ELSE <<>>)
            /\ eof' = IF x = YYEOF THEN Len(parses) ELSE eof
       /\ base' = IF outcome = None THEN base ELSE table
       /\ reports' = IF outcome = None THEN reports ELSE 0
       /\ outcome' = None
       /\ UNCHANGED <<parses, simple, table, pc, cut>>

Ready  == Parsing /\ (NeedsLookahead(State) => yychar # YYEMPTY)
Status == Last(parses).status

(* Shift the lookahead.                                                      *)
ShiftToken ==
  /\ Ready /\ Choice(State, yychar) > 0
  /\ SetTop(Push(Stack, Choice(State, yychar), yychar), IF Status = 0 THEN 0 ELSE Status - 1)
  /\ yychar' = YYEMPTY
  /\ UNCHANGED <<simple, table, pc, line, base, outcome, reports, eof, cut>>

(* The actions of the rules, by number: 13 command_and_args, 14 command_word,*)
(* 15 arg_list, 19 to 23 io_modifier, 24 background_opt.                     *)
Redirection == [n \in 19 .. 23 |-> << "GREAT", "GREATGREAT", "GREATAMPERSAND",
                                      "GREATGREATAMPERSAND", "LESS" >>[n - 18]]
Simple(n) == CASE n = 14 -> << Value(1, n) >>
               [] n = 15 -> Append(simple, Value(2, n))
               [] OTHER  -> simple
Table(n) == CASE n = 13 -> [table EXCEPT !.cmds = Append(@, simple)]
              [] n \in DOMAIN Redirection -> Redirect(table, Redirection[n], Value(2, n))
              [] n = 24 -> [table EXCEPT !.bg = TRUE]
              [] OTHER  -> table

\* Mutant: no yyerrok, so that an error close behind another is not reported.
ReduceNoErrok ==
  /\ Ready /\ Choice(State, yychar) < 0 /\ Choice(State, yychar) # -5
  /\ LET n == -Choice(State, yychar)
     IN  /\ SetTop(Reduced(Stack, n), Status)
         /\ simple' = Simple(n)
         /\ table' = Table(n)
         /\ outcome' = CASE n = 7 -> "empty" [] n = 8 -> "skipped" [] OTHER -> outcome
  /\ UNCHANGED <<yychar, pc, line, base, reports, eof, cut>>

(* yyreduce. Rule 7 is an empty line; rule 8, error NEWLINE, has yyerrok.    *)
ReduceRule ==
  /\ Ready /\ Choice(State, yychar) < 0 /\ Choice(State, yychar) # -5
  /\ LET n == -Choice(State, yychar)
     IN  /\ SetTop(Reduced(Stack, n), IF n = 8 THEN 0 ELSE Status)
         /\ simple' = Simple(n)
         /\ table' = Table(n)
         /\ outcome' = CASE n = 7 -> "empty" [] n = 8 -> "skipped" [] OTHER -> outcome
  /\ UNCHANGED <<yychar, pc, line, base, reports, eof, cut>>

(* Rule 5, a whole command: its action calls Command::execute.               *)
CallExecute == /\ Ready /\ Choice(State, yychar) = -5
               /\ pc' = "execute"
               /\ UNCHANGED <<parses, yychar, simple, table, line, base, outcome, reports, eof, cut>>

(* execute returns with the table cleared, and the reduction is finished.    *)
Execute == /\ pc = "execute"
           /\ parses' = [parses EXCEPT ![Len(parses)].stack = Reduced(@, 5)]
           /\ table' = Empty
           /\ pc' = "parse"
           /\ outcome' = "executed"
           /\ UNCHANGED <<yychar, simple, line, base, reports, eof, cut>>

(* source: execute calls yyparse again; the command is still in the table.   *)
ExecuteSource == /\ pc = "execute" /\ Len(parses) < MaxParses
                 /\ parses' = Append(parses, NewParse)
                 /\ yychar' = YYEMPTY
                 /\ pc' = "parse"
                 /\ outcome' = "executed"
                 /\ UNCHANGED <<simple, table, line, base, reports, eof, cut>>

(* A yyparse is over. Nothing resets yychar; the outer one goes on with it.  *)
Leave == IF Len(parses) = 1
         THEN pc' = "done" /\ UNCHANGED <<parses, table, line, base, outcome, reports>>
         ELSE /\ parses' = [Front(parses) EXCEPT ![Len(parses) - 1].stack = Reduced(@, 5)]
              /\ table' = Empty
              /\ line' = <<>> /\ base' = Empty /\ outcome' = None /\ reports' = 0
              /\ UNCHANGED pc

\* Mutant: the end of the file is left in yychar.
AcceptKeeps == /\ pc = "parse" /\ State = YYFINAL
               /\ Leave
               /\ yychar' = YYEOF
               /\ UNCHANGED <<simple, eof, cut>>

(* YYACCEPT, in state YYFINAL.                                               *)
Accept == /\ pc = "parse" /\ State = YYFINAL
          /\ Leave
          /\ UNCHANGED <<yychar, simple, eof, cut>>

Failing == Ready /\ Choice(State, yychar) = 0

(* yyerrlab at the end of the file, while already recovering: YYABORT.       *)
Abort == /\ Failing /\ Status = 3 /\ yychar = YYEOF
         /\ Leave
         /\ cut' = (Len(parses) > 1 \/ cut)
         /\ UNCHANGED <<yychar, simple, eof>>

(* yyerrlab1: pop to a state that shifts the error token, and shift it.      *)
Recover ==
  LET able == {k \in DOMAIN Stack : Entry(Stack[k].state, ErrorSymbol) > 0}
      k    == CHOOSE m \in able : \A i \in able : i <= m
  IN  SetTop(Push(SubSeq(Stack, 1, k), Entry(Stack[k].state, ErrorSymbol), None), 3)

\* Mutant: the offending token is never discarded.
SyntaxErrorKeeps ==
  /\ Failing /\ ~(Status = 3 /\ yychar = YYEOF)
  /\ Recover
  /\ reports' = IF Status = 0 THEN reports + 1 ELSE reports
  /\ UNCHANGED <<yychar, simple, table, pc, line, base, outcome, eof, cut>>

(* yyerrlab: report the error unless recovering from one; discard the token  *)
(* if it is in the way of the recovery.                                      *)
SyntaxError ==
  /\ Failing /\ ~(Status = 3 /\ yychar = YYEOF)
  /\ Recover
  /\ reports' = IF Status = 0 THEN reports + 1 ELSE reports
  /\ yychar' = IF Status = 3 THEN YYEMPTY ELSE yychar
  /\ UNCHANGED <<simple, table, pc, line, base, outcome, eof, cut>>

Done == pc = "done" /\ UNCHANGED vars

Step == ShiftToken \/ ReduceRule \/ CallExecute \/ Execute \/ ExecuteSource \/ Accept
          \/ Abort \/ SyntaxError
Next == Lex \/ Step \/ Done

(* The parser runs when it can; whether there is more to read is not its     *)
(* doing. execute returns (ShellJobs).                                       *)
Spec == Init /\ [][Next]_vars /\ WF_vars(Step)

-----------------------------------------------------------------------------
(* The tables do what the grammar says, for every line: execute is called    *)
(* for the commands and for nothing else, before anything of the next line is*)
(* read, with the table the grammar's actions make of it; a malformed line is*)
(* skipped to its end and no further, and leaves what it had put in before.  *)
ActsAsGrammar ==
  LET p == Parse(base, line)
  IN  /\ pc = "execute" =>
           p.at \notin {"start", "error"} /\ table = p.table /\ yychar = YYEMPTY
      /\ outcome = "skipped" => p.at = "error" /\ table = p.table
      /\ outcome = "empty" => p.at = "start" /\ table = base

(* A malformed line is reported once, whatever the lines before it were, and *)
(* a good one never.                                                         *)
ReportedOnce == /\ pc = "execute" => reports = 0
                /\ outcome = "skipped" => reports = 1

(* The shell goes on until its own input ends: the end of a sourced file ends*)
(* it only if that file does not end with a whole line. (An empty one, or one*)
(* that stops inside a malformed line, does: its end stays in yychar.)       *)
EndsWithItsInput == pc = "done" /\ ~cut => eof = 1

(* A token that is read is used up: no endless reductions, no endless error  *)
(* recovery over the same token.                                             *)
TokensAreUsed == (yychar # YYEMPTY) ~> (yychar = YYEMPTY \/ pc = "done")
=============================================================================
