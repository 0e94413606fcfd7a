----------------------------- MODULE ShellWords -----------------------------
(* What the shell's lexer promises (lab3/shell.l): its input is one stream,  *)
(* cut at the longest match of the rules; expansions go back to the stream's *)
(* head. It says nothing of buffers, of reads, or of automata.               *)
EXTENDS ShellRules

CONSTANTS Values,       \* the values a variable may have
          Outputs,      \* the outputs a substituted command may have
          YYLMAX,       \* the lexer's limits, in characters
          YY_BUF_SIZE

VARIABLES stream,  \* the text not yet scanned
          token,   \* the last token, with its text
          state    \* open, eof, or stopped

vars == <<stream, token, state>>

Homes == {Users[u] : u \in DOMAIN Users} \cup {<<>>}
NoToken == << 0, <<>> >>

Longer == Longest(stream)
Text   == SubSeq(stream, 1, Longer.len)
Rest   == SubSeq(stream, Longer.len + 1, Len(stream))

(* The text of $( or <( ends at the parenthesis that closes it; 0: none does.*)
Closing(s) ==
  LET depth[i \in 0 .. Len(s)] ==
        IF i = 0 THEN 1
        ELSE depth[i - 1] + (IF s[i] = "(" THEN 1 ELSE IF s[i] = ")" THEN -1 ELSE 0)
  IN  SelectInSeq([i \in DOMAIN s |-> depth[i]], LAMBDA d : d = 0)

Word(t, rest) == token' = t /\ stream' = rest /\ UNCHANGED state

Expand(text, rest) == stream' = text \o rest /\ UNCHANGED <<token, state>>

(* A text on the way to being a token.                                       *)
Viable(w) == \E e \in {<<>>, <<"\"">>, <<"'">>, <<"a">>, <<"}">>, <<"a", "}">>} :
               Rules(w \o e) # {}

TooLarge == Len(stream) >= YYLMAX - 1 /\ Viable(SubSeq(stream, 1, YYLMAX - 1))

(* An expansion must fit into the buffer before what was read already.       *)
Stop == state' = "stopped" /\ UNCHANGED token
PushedBack(text, rest) == \/ Expand(text, rest)
                          \/ /\ Len(text) + Len(rest) >= YY_BUF_SIZE
                             /\ \E i \in DOMAIN text :
                                  stream' = SubSeq(text, i + 1, Len(text)) \o rest
                             /\ Stop

NextWord ==
  /\ state = "open" /\ stream # <<>>
  /\ \E r \in {Longer.act}, w \in {Text} :
       \/ r \in {2, 23} /\ Expand(<<>>, Rest)
       \/ r \in {1, 3, 4, 5, 6, 7, 8, 9, 10, 11, 12, 14, 15, 16} /\ Word(<<r, w>>, Rest)
       \/ r \in {20, 21} /\ Word(<<r, Unescape(Inside(w))>>, Rest)
       \/ /\ r = 22
          /\ \E paths \in {IF HasWildcard(w) THEN Paths(Unescape(w)) ELSE {}} :
               \/ paths = {} /\ Word(<<r, Unescape(w)>>, Rest)
               \/ paths # {} /\ PushedBack(Joined(Sorted(paths)), Rest)
       \/ r = 17 /\ \E v \in Values : PushedBack(v, Rest)
       \/ r = 19 /\ \E h \in Homes : PushedBack(Tilde(w, h), Rest)
       \/ /\ r \in {13, 18}
          /\ \E n \in {Closing(Rest)}, from \in {Rest} :
               \/ n = 0 /\ Stop /\ stream' = <<>>
               \/ n > 0 /\ r = 13 /\ Word(<<r, <<>>>>, SubSeq(from, n + 1, Len(from)))
               \/ /\ n > 0 /\ r = 18
                  /\ \E o \in Outputs :
                       PushedBack(Flatten(o), SubSeq(from, n + 1, Len(from)))

Refuse == state = "open" /\ stream # <<>> /\ TooLarge /\ Stop /\ UNCHANGED stream

EndOfFile == state = "open" /\ stream = <<>> /\ state' = "eof" /\ UNCHANGED <<token, stream>>

Init == token = NoToken /\ state = "open" /\ stream \in Seq(STRING)

Next == NextWord \/ Refuse \/ EndOfFile

Spec == Init /\ [][Next]_vars
=============================================================================
