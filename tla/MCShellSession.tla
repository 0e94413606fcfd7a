--------------------------- MODULE MCShellSession ---------------------------
(* Scripts for ShellSession.                                                 *)
EXTENDS ShellSession

Words == {"a", "b", "f", "g", "exit", "source", "|", "&", "<", ">", ">>", ">&", ">>&", "(", ")"}

Plainly == {<<"a">>, <<"a", "b">>, <<"a", "|", "b">>, <<"a", ">", "f">>, <<"a", "&">>,
            <<"a", "<", "f", ">>", "g", "&">>, <<"a", ">", "f", ">&", "g">>, <<>>,
            <<"a", ">>&", "f", ">", "g">>, <<"exit">>}
Malformed == {<<"|", "a">>, <<"a", ">">>, <<"a", "&", "b">>, <<"(", "a", ")">>,
              <<"a", ">", "f", "|", "b">>}
Sourcing == {<<"source", "f">>, <<"source">>}

\* Three plain lines, or a line that spoils the table between two others.
Brief == {l \in Plainly : Len(l) < 4}
Scripted == {<<k, l, m>> : k \in Plainly, l \in Plainly, m \in Plainly}
            \cup {<<k, l, m>> : k \in Brief \cup Malformed \cup Sourcing,
                                l \in Malformed \cup Sourcing, m \in Brief}

NestedFile == << <<"a">>, <<"source", "f">> >>
=============================================================================
