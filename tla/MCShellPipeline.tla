--------------------------- MODULE MCShellPipeline ---------------------------
(* Commands for ShellPipeline.                                               *)
EXTENDS ShellPipeline

Commands == {<<"cat">>, <<"print", "cat">>, <<"print", "cat", "cat">>, <<"true", "cat">>,
             <<"print", "head">>, <<"yes", "cat", "head">>,
             <<"join">>, <<"join", "cat">>, <<"join", "head">>,
             <<"join", "join">>}
FilesOrAny == {{"in", "err"}, Calls}
=============================================================================
