----------------------------- MODULE HttpServer -----------------------------
(* The web server of lab5 (myhttpd.cc) in its four modes: main accepts and   *)
(* handles a connection itself, forks a child or starts a thread for it, or  *)
(* a pool of threads accepts. The handlers share the statistics and the log; *)
(* a CGI script is forked with every descriptor its parent has open. Clients *)
(* that never finish a request or never read the answer are among the inputs.*)
(* Sockets, pipes and SIGCHLD are modelled from how the code uses them.      *)
EXTENDS Integers, Sequences, SequencesExt, FiniteSets

CONSTANTS Workloads,    \* the inputs: sequences of requests
          Modes,        \* the modes main may be started in
          PoolSize,     \* threads of the pool
          QueueLength,  \* connections listen keeps waiting
          Times,        \* service times
          Frames,       \* frames of a stream, 50 in the code
          Failures      \* sets of calls that may fail in a run: "fork", "pipe", "open"

Kinds == {"unauthorized", "bad method", "missing", "file", "stats", "logs",
          "listing",      \* a directory
          "stream",       \* a stream the client may stop reading: writes time out
          "cgi", "post",  \* a script without and with a request body
          "large post",   \* a body of 8192 bytes or more, which is not read
          "short post",   \* the client never sends the whole body
          "silent",       \* the client never ends its request
          "deaf",         \* the client never reads the file it asks for ...
          "deaf cgi"}     \* ... or what the script writes

ASSUME ServerAssumption == /\ \A w \in Workloads : w \in Seq(Kinds)
                           /\ Modes \subseteq {"iterative", "fork", "thread", "pool"}
                           /\ PoolSize \in Nat \ {0} /\ QueueLength \in Nat \ {0}
                           /\ Times \subseteq Nat /\ Frames \in Nat
                           /\ Failures \subseteq SUBSET {"fork", "pipe", "open"}

VARIABLES mode, load, mayFail,  \* chosen when the program starts
          backlog,  \* connections waiting to be accepted
          at,       \* what main, or each thread of the pool, is doing
          pc,       \* the step each connection is at
          left,     \* the clients that have closed their end
          memory,   \* the statistics in each process
          mutex,    \* the request that holds statsMutex, per process; 0 for none
          log,      \* the file server.log
          fds,      \* what the descriptors of each process refer to
          frame,    \* frames a stream has come to
          fed,      \* posts whose body is in the script's pipe
          zombies, sigchld,  \* ended children of the server; SIGCHLD is pending
          page,     \* history: what each /stats or /logs answer was made of
          before,   \* history: the requests done when each was accepted
          timed     \* history: the service times recorded, with their requests

chosen == <<mode, load, mayFail>>
history == <<page, before, timed>>
vars == <<chosen, frame, backlog, at, pc, left, memory, mutex, log, fds, fed, zombies, sigchld,
          history>>

R == DOMAIN load
Main == 0
Acceptors == IF mode = "pool" THEN 1 .. PoolSize ELSE {Main}

Server == <<"server", 0>>
Child(r) == <<"child", r>>
Script(r) == <<"script", r>>
Processes == {Server} \cup {Child(r) : r \in R} \cup {Script(r) : r \in R}

Socket(r) == <<"socket", r>>
ReadEnd(r) == <<"read", r>>
WriteEnd(r) == <<"write", r>>
Document(r) == <<"document", r>>    \* a file, a directory or a frame

(* The process that handles r.                                               *)
Home(r) == IF mode = "fork" THEN Child(r) ELSE Server

Post(r) == load[r] \in {"post", "large post", "short post"}

(* The clients that may keep their handler waiting, until they leave.        *)
Blocking == {"silent", "short post", "deaf", "deaf cgi"}

(* What an acceptor does: wait for acceptMutex, accept, fork or handle.      *)
Waiting == <<"lock", 0>>
Accepting == <<"accept", 0>>
Busy(r) == <<"busy", r>>
After == IF mode = "pool" THEN Waiting ELSE Accepting

NoStats == [count |-> 0, min |-> -1, minURL |-> 0, max |-> 0, maxURL |-> 0]

Init == /\ mode \in Modes /\ load \in Workloads /\ mayFail \in Failures
        /\ backlog = <<>>
        /\ at = [a \in Acceptors |-> IF a = Main THEN Accepting ELSE Waiting]
        /\ pc = [r \in R |-> "away"]
        /\ left = {}
        /\ memory = [p \in Processes |-> NoStats]
        /\ mutex = [p \in Processes |-> 0]
        /\ log = <<>>
        /\ fds = [p \in Processes |-> {}]
        /\ frame = [r \in R |-> 0] /\ fed = {} /\ zombies = {} /\ sigchld = FALSE
        /\ page = [r \in R |-> [stats |-> NoStats, log |-> <<>>, timed |-> {}]]
        /\ before = [r \in R |-> {}]
        /\ timed = {}

(* -------------------------------- clients -------------------------------- *)

Connect(r) == /\ pc[r] = "away" /\ Len(backlog) < QueueLength
              /\ pc' = [pc EXCEPT ![r] = "queued"]
              /\ backlog' = Append(backlog, r)
              /\ UNCHANGED <<chosen, frame, at, left, memory, mutex, log, fds, fed,
                             zombies, sigchld, history>>

Leave(r) == /\ pc[r] # "away" /\ load[r] \in Blocking
            /\ left' = left \cup {r}
            /\ left' # left
            /\ UNCHANGED <<chosen, frame, backlog, at, pc, memory, mutex, log, fds, fed,
                           zombies, sigchld, history>>

(* --------------------------- main and the pool --------------------------- *)

(* poolThreadHandler: only one thread at a time is in accept.                *)
LockAccept(a) == /\ at[a] = Waiting /\ \A b \in Acceptors : at[b] # Accepting
                 /\ at' = [at EXCEPT ![a] = Accepting]
                 /\ UNCHANGED <<chosen, frame, backlog, pc, left, memory, mutex, log,
                                fds, fed, zombies, sigchld, history>>

(* accept; a new thread starts on the connection, in the other modes the     *)
(* acceptor handles it or is about to fork.                                  *)
Accept(a) ==
  /\ at[a] = Accepting /\ backlog # <<>>
  /\ LET r == Head(backlog)
     IN  /\ fds' = [fds EXCEPT ![Server] = @ \cup {Socket(r)}]
         /\ pc' = [pc EXCEPT ![r] = IF mode = "fork" THEN "accepted" ELSE "count"]
         /\ at' = [at EXCEPT ![a] = IF mode = "thread" THEN Accepting ELSE Busy(r)]
         /\ before' = [before EXCEPT ![r] = {s \in R : pc[s] = "done"}]
  /\ backlog' = Tail(backlog)
  /\ UNCHANGED <<chosen, frame, left, memory, mutex, log, fed, zombies, sigchld, page,
                 timed>>

(* The child has the server's descriptors and memory; the server closes its  *)
(* copy of the connection.                                                   *)
ForkChild(r) ==
  /\ pc[r] = "accepted"
  /\ fds' = [fds EXCEPT ![Child(r)] = fds[Server], ![Server] = @ \ {Socket(r)}]
  /\ memory' = [memory EXCEPT ![Child(r)] = memory[Server]]
  /\ pc' = [pc EXCEPT ![r] = "count"]
  /\ at' = [at EXCEPT ![Main] = Accepting]
  /\ UNCHANGED <<chosen, frame, backlog, left, mutex, log, fed, zombies, sigchld, history>>

(* fork fails: nobody has the connection and nobody closes it.               *)
ForkChildFails(r) ==
  /\ pc[r] = "accepted" /\ "fork" \in mayFail
  /\ pc' = [pc EXCEPT ![r] = "lost"]
  /\ at' = [at EXCEPT ![Main] = Accepting]
  /\ UNCHANGED <<chosen, frame, backlog, left, memory, mutex, log, fds, fed, zombies,
                 sigchld, history>>

\* Mutant: one child is reaped per signal.
ZombieHandlerOnce ==
  /\ sigchld
  /\ IF zombies = {} THEN zombies' = {} ELSE \E z \in zombies : zombies' = zombies \ {z}
  /\ sigchld' = FALSE
  /\ UNCHANGED <<chosen, frame, backlog, at, pc, left, memory, mutex, log, fds, fed,
                 history>>

(* zombieHandler: while (waitpid(-1, NULL, WNOHANG) > 0).                    *)
ZombieHandler ==
  /\ sigchld
  /\ zombies' = {}
  /\ sigchld' = FALSE
  /\ UNCHANGED <<chosen, frame, backlog, at, pc, left, memory, mutex, log, fds, fed,
                 history>>

(* --------------------------- processHTTPRequest -------------------------- *)

Goto(r, from, to) == pc[r] = from /\ pc' = [pc EXCEPT ![r] = to]
Free(r) == mutex[Home(r)] = 0

(* requestCount++.                                                           *)
Count(r) == /\ Goto(r, "count", "read") /\ Free(r)
            /\ memory' = [memory EXCEPT ![Home(r)].count = @ + 1]
            /\ UNCHANGED <<chosen, frame, backlog, at, left, mutex, log, fds, fed,
                           zombies, sigchld, history>>

(* Read up to the empty line, or to end of file when the client has left;    *)
(* without the right Authorization header the answer is 401. What a client   *)
(* has sent before it left is served if that header is in it.                *)
Read(r) == /\ load[r] = "silent" => r \in left
           /\ \/ load[r] \in {"unauthorized", "silent"} /\ Goto(r, "read", "close")
              \/ load[r] # "unauthorized" /\ Goto(r, "read", "log")
           /\ UNCHANGED <<chosen, frame, backlog, at, left, memory, mutex, log, fds, fed,
                          zombies, sigchld, history>>

Step(r) == CASE load[r] = "stats" -> "stats"
             [] load[r] = "logs" -> "logs"
             [] load[r] \in {"file", "deaf", "listing", "silent"} -> "open"
             [] load[r] = "stream" -> "header"
             [] load[r] \in {"cgi", "deaf cgi"} -> "fork"
             [] Post(r) -> "pipe"
             [] OTHER -> "close"

(* logRequest, then 400 for a method other than GET and POST and the branches*)
(* on the path, 404 when there is no such file or script.                    *)
Log(r) == /\ Goto(r, "log", Step(r)) /\ Free(r)
          /\ log' = Append(log, r)
          /\ UNCHANGED <<chosen, frame, backlog, at, left, memory, mutex, fds, fed,
                         zombies, sigchld, history>>

(* serveStats and serveLogs read under the mutex.                            *)
ServeStats(r) == /\ Goto(r, "stats", "update") /\ Free(r)
                 /\ page' = [page EXCEPT ![r].stats = memory[Home(r)], ![r].timed = timed]
                 /\ UNCHANGED <<chosen, frame, backlog, at, left, memory, mutex, log,
                                fds, fed, zombies, sigchld, before, timed>>

ServeLogs(r) == /\ Goto(r, "logs", "update") /\ Free(r)
                /\ page' = [page EXCEPT ![r].log = log]
                /\ UNCHANGED <<chosen, frame, backlog, at, left, memory, mutex, log, fds,
                               fed, zombies, sigchld, before, timed>>

(* open, or opendir in serveDirectoryListing; a file without memory for it is*)
(* closed and the client gets nothing.                                       *)
Open(r) == /\ Goto(r, "open", IF load[r] = "listing" THEN "list" ELSE "send")
           /\ fds' = [fds EXCEPT ![Home(r)] = @ \cup {Document(r)}]
           /\ UNCHANGED <<chosen, frame, backlog, at, left, memory, mutex, log, fed,
                          zombies, sigchld, history>>

OpenFails(r) == /\ "open" \in mayFail
                /\ Goto(r, "open", IF load[r] = "listing" THEN "update" ELSE "close")
                /\ UNCHANGED <<chosen, frame, backlog, at, left, memory, mutex, log, fds,
                               fed, zombies, sigchld, history>>

CloseDocument(r) == fds' = [fds EXCEPT ![Home(r)] = @ \ {Document(r)}]

(* A file is written until the client has it or has left; SIGPIPE is ignored.*)
Send(r) == /\ load[r] = "deaf" => r \in left
           /\ Goto(r, "send", "update")
           /\ CloseDocument(r)
           /\ UNCHANGED <<chosen, frame, backlog, at, left, memory, mutex, log, fed,
                          zombies, sigchld, history>>

(* The entries are collected, the directory is closed, they are written.     *)
List(r) == /\ Goto(r, "list", "update")
           /\ CloseDocument(r)
           /\ UNCHANGED <<chosen, frame, backlog, at, left, memory, mutex, log, fed,
                          zombies, sigchld, history>>

(* serveMJPEGStream: a write ends after five seconds, and with it the stream.*)
StreamWrite(r, from) == /\ Goto(r, from, "frame") \/ Goto(r, from, "update")
                        /\ UNCHANGED <<chosen, frame, backlog, at, left, memory, mutex,
                                       log, fds, fed, zombies, sigchld, history>>

StreamHeader(r) == StreamWrite(r, "header")

(* The next frame, if its file is there ...                                  *)
OpenFrame(r) == /\ frame[r] < Frames
                /\ frame' = [frame EXCEPT ![r] = @ + 1]
                /\ \/ /\ Goto(r, "frame", "load")
                      /\ fds' = [fds EXCEPT ![Home(r)] = @ \cup {Document(r)}]
                   \/ "open" \in mayFail /\ Goto(r, "frame", "frame") /\ UNCHANGED fds
                /\ UNCHANGED <<chosen, backlog, at, left, memory, mutex, log, fed,
                               zombies, sigchld, history>>

(* ... and is closed whether or not it is read whole: one that is empty, over*)
(* 2 MiB, without memory for it or too short is skipped ...                  *)
ReadFrame(r) ==
  /\ Goto(r, "load", "show") \/ ("open" \in mayFail /\ Goto(r, "load", "frame"))
  /\ CloseDocument(r)
  /\ UNCHANGED <<chosen, frame, backlog, at, left, memory, mutex, log, fed, zombies,
                 sigchld, history>>

(* ... and written, its header first.                                        *)
WriteFrame(r) == StreamWrite(r, "show")

EndStream(r) == /\ frame[r] = Frames
                /\ Goto(r, "frame", "update")
                /\ UNCHANGED <<chosen, frame, backlog, at, left, memory, mutex, log, fds,
                               fed, zombies, sigchld, history>>

(* A small body is read, as much as comes; the pipe for it is made.          *)
Pipe(r) == /\ load[r] = "short post" => r \in left
           /\ Goto(r, "pipe", "fork")
           /\ fds' = [fds EXCEPT ![Home(r)] = @ \cup {ReadEnd(r), WriteEnd(r)}]
           /\ UNCHANGED <<chosen, frame, backlog, at, left, memory, mutex, log, fed,
                          zombies, sigchld, history>>

PipeFails(r) == /\ "pipe" \in mayFail
                /\ load[r] = "short post" => r \in left
                /\ Goto(r, "pipe", "close")
                /\ UNCHANGED <<chosen, frame, backlog, at, left, memory, mutex, log, fds,
                               fed, zombies, sigchld, history>>

(* The script keeps everything but the write end of its own pipe.            *)
ForkScript(r) == /\ Goto(r, "fork", IF Post(r) THEN "feed" ELSE "wait")
                 /\ fds' = [fds EXCEPT ![Script(r)] = fds[Home(r)] \ {WriteEnd(r)}]
                 /\ UNCHANGED <<chosen, frame, backlog, at, left, memory, mutex, log,
                                fed, zombies, sigchld, history>>

(* fork fails: the pipe, if any, stays open.                                 *)
ForkScriptFails(r) == /\ "fork" \in mayFail
                      /\ Goto(r, "fork", "update")
                      /\ UNCHANGED <<chosen, frame, backlog, at, left, memory, mutex,
                                     log, fds, fed, zombies, sigchld, history>>

\* Mutant: the write end is not closed after the body.
FeedOpen(r) == /\ Goto(r, "feed", "wait")
               /\ fed' = IF load[r] = "post" THEN fed \cup {r} ELSE fed
               /\ fds' = [fds EXCEPT ![Home(r)] = @ \ {ReadEnd(r)}]
               /\ UNCHANGED <<chosen, frame, backlog, at, left, memory, mutex, log,
                              zombies, sigchld, history>>

(* The body goes into the pipe, nothing for a large post and less than it    *)
(* waits for from a client that left; both ends are closed.                  *)
Feed(r) == /\ Goto(r, "feed", "wait")
           /\ fed' = IF load[r] = "post" THEN fed \cup {r} ELSE fed
           /\ fds' = [fds EXCEPT ![Home(r)] = @ \ {ReadEnd(r), WriteEnd(r)}]
           /\ UNCHANGED <<chosen, frame, backlog, at, left, memory, mutex, log, zombies,
                          sigchld, history>>

(* waitpid(pid): the script has ended.                                       *)
WaitScript(r) == /\ fds[Script(r)] = {}
                 /\ Goto(r, "wait", "update")
                 /\ UNCHANGED <<chosen, frame, backlog, at, left, memory, mutex, log,
                                fds, fed, zombies, sigchld, history>>

\* Mutant: updateStats without the mutex.
UpdateMinUnlocked(r) ==
  /\ Goto(r, "update", "update max")
  /\ \E t \in Times :
       /\ timed' = timed \cup {<<r, t>>}
       /\ memory' = [memory EXCEPT ![Home(r)] =
            IF @.min < 0 \/ t < @.min THEN [@ EXCEPT !.min = t, !.minURL = r] ELSE @]
  /\ UNCHANGED <<chosen, frame, backlog, at, left, mutex, log, fds, fed, zombies,
                 sigchld, page, before>>

(* updateStats: the first half, after statsMutex is locked, ...              *)
UpdateMin(r) ==
  /\ Goto(r, "update", "update max") /\ Free(r)
  /\ mutex' = [mutex EXCEPT ![Home(r)] = r]
  /\ \E t \in Times :
       /\ timed' = timed \cup {<<r, t>>}
       /\ memory' = [memory EXCEPT ![Home(r)] =
            IF @.min < 0 \/ t < @.min THEN [@ EXCEPT !.min = t, !.minURL = r] ELSE @]
  /\ UNCHANGED <<chosen, frame, backlog, at, left, log, fds, fed, zombies, sigchld, page,
                 before>>

(* ... and the second, before it is unlocked.                                *)
UpdateMax(r) ==
  /\ Goto(r, "update max", "close")
  /\ mutex' = [mutex EXCEPT ![Home(r)] = 0]
  /\ \E t \in Times :
       /\ <<r, t>> \in timed
       /\ memory' = [memory EXCEPT ![Home(r)] =
            IF t > @.max THEN [@ EXCEPT !.max = t, !.maxURL = r] ELSE @]
  /\ UNCHANGED <<chosen, frame, backlog, at, left, log, fds, fed, zombies, sigchld,
                 history>>

\* Mutant: a thread of the pool ends with its first request.
CloseEnds(r) ==
  /\ Goto(r, "close", "done")
  /\ at' = [a \in Acceptors |-> IF at[a] = Busy(r) /\ mode # "pool" THEN After ELSE at[a]]
  /\ IF mode = "fork"
     THEN /\ fds' = [fds EXCEPT ![Child(r)] = {}]
          /\ zombies' = zombies \cup {r} /\ sigchld' = TRUE
     ELSE /\ fds' = [fds EXCEPT ![Server] = @ \ {Socket(r)}]
          /\ UNCHANGED <<zombies, sigchld>>
  /\ UNCHANGED <<chosen, frame, backlog, left, memory, mutex, log, fed, history>>

(* The handler closes the connection: a child exits, a thread of the pool    *)
(* waits for acceptMutex again, main accepts again.                          *)
Close(r) ==
  /\ Goto(r, "close", "done")
  /\ at' = [a \in Acceptors |-> IF at[a] = Busy(r) THEN After ELSE at[a]]
  /\ IF mode = "fork"
     THEN /\ fds' = [fds EXCEPT ![Child(r)] = {}]
          /\ zombies' = zombies \cup {r} /\ sigchld' = TRUE
     ELSE /\ fds' = [fds EXCEPT ![Server] = @ \ {Socket(r)}]
          /\ UNCHANGED <<zombies, sigchld>>
  /\ UNCHANGED <<chosen, frame, backlog, left, memory, mutex, log, fed, history>>

(* ------------------------------ CGI scripts ------------------------------ *)

(* A script with a body reads CONTENT_LENGTH bytes of it, or to end of file  *)
(* when there are fewer; then it answers and ends, if its client reads.      *)
EndOfFile(r) == \A p \in Processes : WriteEnd(r) \notin fds[p]
ScriptEnds(r) ==
  /\ fds[Script(r)] # {}
  /\ Post(r) => r \in fed \/ EndOfFile(r)
  /\ load[r] = "deaf cgi" => r \in left
  /\ fds' = [fds EXCEPT ![Script(r)] = {}]
  /\ UNCHANGED <<chosen, frame, backlog, at, pc, left, memory, mutex, log, fed, zombies,
                 sigchld, history>>

Handle(r) == \/ Count(r) \/ Read(r) \/ Log(r) \/ ServeStats(r) \/ ServeLogs(r)
             \/ Open(r) \/ OpenFails(r) \/ Send(r) \/ List(r) \/ StreamHeader(r) \/ OpenFrame(r)
             \/ ReadFrame(r) \/ WriteFrame(r) \/ EndStream(r)
             \/ Pipe(r) \/ PipeFails(r) \/ ForkScript(r) \/ ForkScriptFails(r) \/ Feed(r)
             \/ WaitScript(r) \/ UpdateMin(r) \/ UpdateMax(r) \/ Close(r)

Serve == \/ \E a \in Acceptors : LockAccept(a) \/ Accept(a)
         \/ \E r \in R : ForkChild(r) \/ ForkChildFails(r)

Next == \/ \E r \in R : Connect(r) \/ Leave(r) \/ Handle(r) \/ ScriptEnds(r)
        \/ Serve
        \/ ZombieHandler

Connections == UNION {DOMAIN w : w \in Workloads}

(* Main, the threads, the children and the scripts get to run; clients       *)
(* connect, and leave only if they like.                                     *)
Spec == /\ Init /\ [][Next]_vars
        /\ WF_vars(Serve) /\ WF_vars(ZombieHandler)
        /\ \A r \in Connections : /\ WF_vars(r \in R /\ Connect(r))
                                  /\ WF_vars(r \in R /\ Handle(r))
                                  /\ WF_vars(r \in R /\ ScriptEnds(r))

-----------------------------------------------------------------------------
Requests(S) == {r \in R : load[r] \in S}

TypeOK ==
  /\ \A a \in Acceptors : at[a] \in {Waiting, Accepting} \cup {Busy(r) : r \in R}
  /\ pc \in [R -> {"away", "queued", "accepted", "lost", "count", "read", "log", "stats", "logs",
                    "open", "send", "list", "header", "frame", "load", "show", "pipe",
                    "fork", "feed", "wait", "update", "update max", "close", "done"}]
  /\ ToSet(backlog) \subseteq R /\ Len(backlog) <= QueueLength
  /\ \A p \in Processes : mutex[p] \in R \cup {0}
  /\ zombies \subseteq R /\ fed \subseteq Requests({"post"})
  /\ \A p \in Processes : fds[p] \subseteq {Socket(r) : r \in R} \cup {ReadEnd(r) : r \in R}
                                             \cup {WriteEnd(r) : r \in R}
                                             \cup {Document(r) : r \in R}

(* /stats, when the handlers share their memory (in fork mode each child has *)
(* its own copy): the count takes in every request done before and this one, *)
(* and the shortest and longest time are those of requests that took them.   *)
StatsAddUp ==
  mode # "fork" => \A r \in Requests({"stats"}) :
    pc[r] \in {"update", "update max", "close", "done"} =>
      LET s == page[r].stats
          times == {x[2] : x \in page[r].timed}
      IN  /\ s.count > Cardinality(before[r])
          /\ s.min = -1 <=> times = {}
          /\ times # {} => /\ <<s.minURL, s.min>> \in page[r].timed
                            /\ \A t \in times : s.min <= t /\ t <= s.max
          /\ s.max > 0 => <<s.maxURL, s.max>> \in page[r].timed

(* Nothing is left open for a request that is done (Readme: valgrind         *)
(* --track-fds=yes). When a fork fails for a script its pipe stays open, and *)
(* when it fails in main the connection, which is never done; but nothing    *)
(* else does.                                                                *)
DescriptorsClosed ==
  \A r \in R : pc[r] = "done" =>
    \A p \in {Server, Child(r)} :
      /\ fds[p] \cap {Socket(r), Document(r)} = {}
      /\ "fork" \notin mayFail => fds[p] \cap {ReadEnd(r), WriteEnd(r)} = {}

(* No child of the server stays a zombie (Readme: "ps ... grep defunct",     *)
(* "Expected: 0").                                                           *)
ZombiesReaped == \A r \in Connections : r \in zombies ~> r \notin zombies

(* Clients that block main, or a thread each.                                *)
Serves == CASE mode = "iterative" -> Requests(Blocking) = {}
            [] mode = "pool" -> Cardinality(Requests(Blocking)) < PoolSize
            [] OTHER -> TRUE

(* A script forked by a thread holds every connection and pipe its process   *)
(* has open: two that wait for end of file may hold each other's pipe for    *)
(* ever, and one whose client does not read keeps the other clients from end *)
(* of file.                                                                  *)
Unheld == mode \in {"thread", "pool"} =>
            /\ Cardinality(Requests({"large post", "short post"})) < 2
            /\ Requests({"deaf cgi"}) = {}

(* Every client that plays its part gets its answer and end of file, other   *)
(* clients' manners and scripts that inherit its connection notwithstanding; *)
(* left out are loads that take every thread or whose scripts hold what is   *)
(* others', and failing forks, after which a client is not answered.         *)
Answered(r) == pc[r] = "done" /\ \A p \in Processes : Socket(r) \notin fds[p]
EveryoneAnswered ==
  "fork" \notin mayFail /\ Serves /\ Unheld => <>(\A r \in R \ Requests(Blocking) : Answered(r))
=============================================================================
