---------------------------- MODULE MCHttpServer ----------------------------
(* Loads for HttpServer.                                                     *)
EXTENDS HttpServer

Loads == {<<"file", "stats">>, <<"missing", "logs">>, <<"bad method", "stream">>,
          <<"unauthorized", "logs">>, <<"stats", "cgi">>, <<"post", "large post">>,
          <<"deaf", "cgi">>, <<"silent", "missing", "unauthorized">>,
          <<"listing", "stream">>, <<"large post", "large post">>,
          <<"short post", "file">>, <<"deaf cgi", "large post">>}
AllModes == {"iterative", "fork", "thread", "pool"}
FailingCalls == {{"pipe", "open"}, {"fork"}}
=============================================================================
