--------------------------- MODULE HttpServerProofs ---------------------------
(* What the web server keeps open and what its statistics say, in every mode *)
(* and for every load of requests, however their handlers interleave.        *)
EXTENDS HttpServer, FiniteSetTheorems, SequenceTheorems, TLAPS

Stats == [count : Nat, min : Nat \cup {-1}, minURL : Nat, max : Nat, maxURL : Nat]

Opens == {"socket", "read", "write", "document"} \X Nat
Steps == {"away", "queued", "accepted", "lost", "count", "read", "log", "stats", "logs",
          "open", "send", "list", "header", "frame", "load", "show", "pipe", "fork", "feed",
          "wait", "update", "update max", "close", "done"}

Typed ==
  /\ mode \in {"iterative", "fork", "thread", "pool"} /\ load \in Seq(Kinds)
  /\ pc \in [R -> Steps]
  /\ mutex \in [Processes -> R \cup {0}]
  /\ memory \in [Processes -> Stats]
  /\ fds \in [Processes -> SUBSET Opens]
  /\ log \in Seq(R)
  /\ page \in [R -> [stats : Stats, log : Seq(R), timed : SUBSET (R \X Times)]]
  /\ before \in [R -> SUBSET R] /\ timed \subseteq R \X Times

(* Each connection waits in the queue once, and nobody handles it there; main*)
(* has it before the handler only when it forks one; a pipe is for a body.   *)
Queue ==
  /\ backlog \in Seq(R)
  /\ \A k \in DOMAIN backlog : pc[backlog[k]] = "queued"
  /\ \A j, k \in DOMAIN backlog : backlog[j] = backlog[k] => j = k
  /\ \A r \in R : pc[r] = "accepted" => mode = "fork"
  /\ \A r \in R : pc[r] = "pipe" => Post(r)

(* What is open for a request belongs to the step that it is at.             *)
OpenFor(r) ==
  IF mode = "fork"
  THEN /\ pc[r] = "done" => fds[Child(r)] = {}
       /\ Socket(r) \in fds[Server] => pc[r] \in {"accepted", "lost"}
       /\ fds[Server] \cap {ReadEnd(r), WriteEnd(r), Document(r)} = {}
  ELSE /\ fds[Child(r)] = {}
       /\ Socket(r) \in fds[Server] => pc[r] # "done"
       /\ Document(r) \in fds[Server] => pc[r] \in {"send", "list", "load"}
       /\ \/ "fork" \in mayFail
          \/ fds[Server] \cap {ReadEnd(r), WriteEnd(r)} # {} => Post(r) /\ pc[r] \in {"fork", "feed"}
Belongs == \A r \in R : OpenFor(r)

-----------------------------------------------------------------------------
(* The statistics of the handlers that share the server's memory.            *)

Shared == memory[Server]
Uncounted == {"away", "queued", "accepted", "lost", "count"}
Recorded == {"update max", "close", "done"}
Counted == {r \in R : pc[r] \notin Uncounted}

CountIsRight == Shared.count = Cardinality(Counted)
BeforeIsCounted == \A r \in R : before[r] \subseteq Counted \ {r}

(* Whoever is between the two halves of updateStats has the mutex.           *)
HolderHasMutex == \A r \in R : pc[r] = "update max" => mutex[Server] = r

(* Each request records one time.                                            *)
OneTimeEach == \A x \in timed : /\ pc[x[1]] \in Recorded
                                /\ \A y \in timed : x[1] = y[1] => x = y

(* The shortest and the longest time of a set of recorded times; the request *)
(* that is between the two halves is not yet in the longest.                 *)
Extremes(s, T, q) ==
  /\ s.min = -1 <=> T = {}
  /\ T # {} => <<s.minURL, s.min>> \in T
  /\ \A x \in T : s.min <= x[2] /\ (x[1] # q => x[2] <= s.max)
  /\ s.max > 0 => <<s.maxURL, s.max>> \in T

ExtremesAreRight == Extremes(Shared, timed, mutex[Server])

(* A request for /stats does nothing else, and its page is right.            *)
PagesAreRight ==
  \A r \in Requests({"stats"}) :
    /\ pc[r] \in Uncounted \cup {"read", "log", "stats", "update"} \cup Recorded
    /\ pc[r] \in {"update"} \cup Recorded =>
         /\ page[r].stats.count > Cardinality(before[r])
         /\ Extremes(page[r].stats, page[r].timed, 0)

Adds == mode # "fork" => /\ CountIsRight /\ BeforeIsCounted /\ HolderHasMutex
                         /\ OneTimeEach /\ ExtremesAreRight /\ PagesAreRight

ServerInv == Typed /\ Queue /\ Belongs /\ Adds

-----------------------------------------------------------------------------
(* Processes, and what they have open, are told apart.                       *)

LEMMA Processual ==
  ASSUME Typed
  PROVE  /\ R = 1 .. Len(load) /\ Len(load) \in Nat /\ IsFiniteSet(R) /\ 0 \notin R
         /\ Server \in Processes
         /\ \A r \in R : /\ r \in Nat /\ Home(r) \in Processes
                        /\ Child(r) \in Processes /\ Script(r) \in Processes
                        /\ Child(r) # Server /\ Script(r) # Server
         /\ \A r, s \in R : Script(r) # Child(s) /\ (r # s => Child(r) # Child(s))
<1>1. R = 1 .. Len(load) /\ Len(load) \in Nat
  BY DEF Typed, R
<1>2. IsFiniteSet(R) /\ 0 \notin R /\ \A r \in R : r \in Nat
  BY <1>1, FS_Interval
<1> QED BY <1>1, <1>2 DEF Processes, Server, Child, Script, Home

LEMMA OpenTypes ==
  ASSUME NEW r \in Nat
  PROVE  /\ Socket(r) \in Opens /\ ReadEnd(r) \in Opens /\ WriteEnd(r) \in Opens
         /\ Document(r) \in Opens
         /\ Socket(r) \notin {ReadEnd(r), WriteEnd(r), Document(r)}
         /\ Document(r) \notin {ReadEnd(r), WriteEnd(r)}
         /\ \A s \in Nat : s # r =>
              {Socket(r), ReadEnd(r), WriteEnd(r), Document(r)}
                \cap {Socket(s), ReadEnd(s), WriteEnd(s), Document(s)} = {}
BY DEF Opens, Socket, ReadEnd, WriteEnd, Document

-----------------------------------------------------------------------------
LEMMA ServerInit == Init => ServerInv
<1> SUFFICES ASSUME Init PROVE ServerInv
  OBVIOUS
<1>1. load \in Seq(Kinds) /\ mode \in {"iterative", "fork", "thread", "pool"}
  BY ServerAssumption DEF Init
<1>2. R = 1 .. Len(load) /\ Len(load) \in Nat
  BY <1>1 DEF R
<1>3. NoStats \in Stats /\ NoStats.min = -1 /\ NoStats.count = 0 /\ NoStats.max = 0
  BY DEF NoStats, Stats
<1>4. Typed
  <2>1. /\ pc \in [R -> Steps] /\ mutex \in [Processes -> R \cup {0}]
        /\ memory \in [Processes -> Stats] /\ fds \in [Processes -> SUBSET Opens]
        /\ before \in [R -> SUBSET R] /\ timed \subseteq R \X Times
    BY <1>3 DEF Init, Steps
  <2>2. log \in Seq(R)
    BY DEF Init
  <2>3. page \in [R -> [stats : Stats, log : Seq(R), timed : SUBSET (R \X Times)]]
    BY <1>3 DEF Init
  <2> QED BY <1>1, <2>1, <2>2, <2>3 DEF Typed
<1>5. Queue
  <2>1. backlog = <<>> /\ DOMAIN backlog = {} /\ \A r \in R : pc[r] = "away"
    BY DEF Init
  <2> QED BY <2>1 DEF Queue
<1>6. Server \in Processes /\ \A r \in R : Child(r) \in Processes
  BY <1>4, Processual
<1>7. Belongs
  BY <1>6 DEF Init, Belongs, OpenFor
<1>8. Counted = {}
  BY DEF Counted, Init, Uncounted
<1>9. memory[Server] = NoStats /\ mutex[Server] = 0 /\ timed = {}
  BY <1>6 DEF Init
<1>10. Adds
  <2>1. CountIsRight
    BY <1>3, <1>8, <1>9, FS_EmptySet DEF CountIsRight, Shared
  <2>2. BeforeIsCounted /\ HolderHasMutex /\ OneTimeEach
    BY <1>9 DEF Init, BeforeIsCounted, HolderHasMutex, OneTimeEach
  <2>3. ExtremesAreRight
    BY <1>3, <1>9 DEF ExtremesAreRight, Extremes, Shared
  <2>4. PagesAreRight
    BY DEF Init, PagesAreRight, Requests, Uncounted, Recorded
  <2> QED BY <2>1, <2>2, <2>3, <2>4 DEF Adds
<1> QED BY <1>4, <1>5, <1>7, <1>10 DEF ServerInv

-----------------------------------------------------------------------------
(* A step of one request, and what it leaves alone.                          *)

LEMMA ChosenSame ==
  ASSUME UNCHANGED chosen
  PROVE  /\ mode' = mode /\ load' = load /\ mayFail' = mayFail /\ R' = R /\ Processes' = Processes
         /\ \A r \in R : Home(r)' = Home(r) /\ Post(r)' = Post(r)
BY DEF chosen, R, Processes, Home, Post

LEMMA MovePc ==
  ASSUME Typed, NEW r \in R, NEW from, NEW to \in Steps, Goto(r, from, to)
  PROVE  /\ pc' \in [R -> Steps] /\ pc[r] = from /\ pc'[r] = to
         /\ \A s \in R : s # r => pc'[s] = pc[s]
BY DEF Typed, Goto

LEMMA MoveQueue ==
  ASSUME Typed, Queue, NEW r \in R, NEW from, NEW to \in Steps, Goto(r, from, to),
         from # "queued", to # "accepted", to = "pipe" => Post(r),
         UNCHANGED <<load, mode, backlog>>
  PROVE  Queue'
<1>1. R' = R /\ \A s \in R : Post(s)' = Post(s)
  BY DEF R, Post
<1>2. \A k \in DOMAIN backlog : backlog[k] \in R /\ backlog[k] # r
  BY DEF Queue, Goto
<1>3. pc'[r] = to /\ \A s \in R : s # r => pc'[s] = pc[s]
  BY MovePc
<1> QED BY <1>1, <1>2, <1>3 DEF Queue

(* Steps of a request that do not touch the statistics.                      *)
Handling == Steps \ (Uncounted \cup {"update", "update max", "done"})
StatsUntouched == UNCHANGED <<memory, mutex, before, timed>>

LEMMA MoveAdds ==
  ASSUME Typed, Adds, NEW r \in R, NEW from \in Handling \ {"close"},
         NEW to \in Handling \cup {"update"}, Goto(r, from, to),
         UNCHANGED chosen, StatsUntouched,
         \A s \in R : page'[s].stats = page[s].stats /\ page'[s].timed = page[s].timed,
         load[r] = "stats" => \/ from = "read" /\ to = "log"
                              \/ from = "log" /\ to = "stats"
                              \/ from \notin {"read", "log", "stats"}
  PROVE  Adds'
<1>1. /\ R' = R /\ mode' = mode /\ load' = load /\ memory' = memory /\ mutex' = mutex
      /\ before' = before /\ timed' = timed
  BY ChosenSame DEF StatsUntouched
<1>2. /\ pc[r] = from /\ pc'[r] = to /\ \A s \in R : s # r => pc'[s] = pc[s]
  <2>1. to \in Steps
    BY DEF Handling, Steps
  <2> QED BY <2>1, MovePc
<1>3. /\ from \notin Uncounted \cup {"update", "update max", "close", "done"}
      /\ to \notin Uncounted \cup {"update max", "done"}
  BY DEF Handling, Uncounted
<1>4. Counted' = Counted
  BY <1>1, <1>2, <1>3 DEF Counted
<1> SUFFICES ASSUME mode # "fork" PROVE Adds'
  BY <1>1 DEF Adds
<1>5. CountIsRight' /\ BeforeIsCounted' /\ ExtremesAreRight'
  BY <1>1, <1>4 DEF Adds, CountIsRight, Shared, BeforeIsCounted, ExtremesAreRight
<1>6. HolderHasMutex'
  BY <1>1, <1>2, <1>3 DEF Adds, HolderHasMutex
<1>7. OneTimeEach'
  <2>1. \A x \in timed : x[1] \in R
    BY DEF Typed
  <2>2. \A x \in timed : pc[x[1]] \in Recorded
    BY DEF Adds, OneTimeEach
  <2>3. \A x \in timed : pc'[x[1]] \in Recorded
    BY <1>2, <1>3, <2>1, <2>2 DEF Recorded
  <2> QED BY <1>1, <2>3 DEF Adds, OneTimeEach
<1>8. PagesAreRight'
  <2>1. Requests({"stats"})' = Requests({"stats"}) /\ Requests({"stats"}) = {s \in R : load[s] = "stats"}
    BY <1>1 DEF Requests
  <2>2. ASSUME NEW s \in R, load[s] = "stats", s # r
        PROVE  /\ pc'[s] \in Uncounted \cup {"read", "log", "stats", "update"} \cup Recorded
               /\ pc'[s] \in {"update"} \cup Recorded =>
                    /\ page'[s].stats.count > Cardinality(before'[s])
                    /\ Extremes(page'[s].stats, page'[s].timed, 0)
    BY <1>1, <1>2, <2>1, <2>2 DEF Adds, PagesAreRight
  <2>3. ASSUME load[r] = "stats"
        PROVE  pc'[r] \in {"log", "stats"}
    <3>1. pc[r] \in {"read", "log", "stats"}
      BY <1>2, <1>3, <2>1, <2>3 DEF Adds, PagesAreRight, Recorded
    <3> QED BY <1>2, <2>3, <3>1
  <2> QED BY <2>1, <2>2, <2>3 DEF PagesAreRight, Recorded
<1> QED BY <1>5, <1>6, <1>7, <1>8 DEF Adds

(* Steps that open and close nothing.                                        *)
LEMMA MoveBelongs ==
  ASSUME Typed, Belongs, NEW r \in R, NEW from, NEW to \in Steps \ {"done"}, Goto(r, from, to),
         UNCHANGED <<chosen, fds>>,
         from \notin {"accepted", "lost", "send", "list", "load", "feed"},
         from = "fork" => ~Post(r) \/ "fork" \in mayFail
  PROVE  Belongs'
<1>1. /\ R' = R /\ mode' = mode /\ mayFail' = mayFail /\ fds' = fds
      /\ \A s \in R : Post(s)' = Post(s)
  BY ChosenSame
<1>2. /\ pc[r] = from /\ pc'[r] = to /\ \A s \in R : s # r => pc'[s] = pc[s]
  BY MovePc
<1>3. ASSUME NEW s \in R, s # r PROVE OpenFor(s)'
  BY <1>1, <1>2, <1>3 DEF Belongs, OpenFor
<1>4. OpenFor(r)'
  <2>1. OpenFor(r)
    BY DEF Belongs
  <2> QED BY <1>1, <1>2, <2>1 DEF OpenFor
<1> QED BY <1>1, <1>3, <1>4 DEF Belongs

(* What one request opens or closes, in the process that handles it.         *)
Own(r) == {Socket(r), ReadEnd(r), WriteEnd(r), Document(r)}

LEMMA HomeBelongs ==
  ASSUME Typed, Belongs, NEW r \in R, NEW from, NEW to \in Steps, Goto(r, from, to), UNCHANGED chosen,
         NEW F \in SUBSET Opens, fds' = [fds EXCEPT ![Home(r)] = F],
         F \subseteq fds[Home(r)] \cup Own(r),
         OpenFor(r)'
  PROVE  Belongs' /\ fds' \in [Processes -> SUBSET Opens]
<1>1. /\ R' = R /\ mode' = mode /\ mayFail' = mayFail /\ \A s \in R : Post(s)' = Post(s)
  BY ChosenSame
<1>2. \A s \in R : s # r => pc'[s] = pc[s]
  BY MovePc
<1>3. Home(r) \in Processes /\ fds' \in [Processes -> SUBSET Opens]
      /\ \A p \in Processes : fds'[p] = IF p = Home(r) THEN F ELSE fds[p]
  BY Processual DEF Typed
<1>4. ASSUME NEW s \in R, s # r PROVE OpenFor(s)'
  <2>1. OpenFor(s)
    BY <1>4 DEF Belongs
  <2>2. /\ Child(s) \in Processes /\ Server \in Processes /\ Child(s) # Home(r)
        /\ s \in Nat /\ r \in Nat
    BY <1>4, Processual DEF Home
  <2>3. fds'[Child(s)] = fds[Child(s)]
    BY <1>3, <2>2
  <2>4. Own(s) \cap Own(r) = {}
    BY <1>4, <2>2, OpenTypes DEF Own
  <2>5. \A x \in Own(s) : x \in fds'[Server] => x \in fds[Server]
    BY <1>3, <2>2, <2>4
  <2> QED BY <1>1, <1>2, <1>4, <2>1, <2>3, <2>5 DEF OpenFor, Own
<1> QED BY <1>1, <1>3, <1>4 DEF Belongs

-----------------------------------------------------------------------------
(* Steps that no connection's handler takes.                                 *)

LEMMA IdleStep ==
  ASSUME ServerInv, UNCHANGED <<chosen, backlog, pc, memory, mutex, log, history>>,
         fds' \in [Processes -> SUBSET Opens],
         \A p \in {Server} \cup {Child(r) : r \in R} : fds'[p] = fds[p]
  PROVE  ServerInv'
<1>1. /\ R' = R /\ mode' = mode /\ load' = load /\ mayFail' = mayFail /\ Processes' = Processes
      /\ \A s \in R : Post(s)' = Post(s)
  BY ChosenSame
<1>2. UNCHANGED <<page, before, timed>>
  BY DEF history
<1>3. Typed' /\ Queue'
  BY <1>1, <1>2 DEF ServerInv, Typed, Queue
<1>4. Belongs'
  BY <1>1 DEF ServerInv, Belongs, OpenFor
<1>5. Adds'
  BY <1>1, <1>2 DEF ServerInv, Adds, CountIsRight, Counted, Shared, BeforeIsCounted, HolderHasMutex,
                    OneTimeEach, ExtremesAreRight, Extremes, PagesAreRight, Requests
<1> QED BY <1>3, <1>4, <1>5 DEF ServerInv

LEMMA SameFds == ASSUME Typed, UNCHANGED fds
                 PROVE  /\ fds' \in [Processes -> SUBSET Opens]
                        /\ \A p \in {Server} \cup {Child(r) : r \in R} : fds'[p] = fds[p]
BY DEF Typed

LEMMA StutterStep == ASSUME ServerInv, UNCHANGED vars PROVE ServerInv'
<1>1. UNCHANGED <<chosen, backlog, pc, memory, mutex, log, history, fds>>
  BY DEF vars
<1> QED BY <1>1, SameFds, IdleStep DEF ServerInv

LEMMA LeaveStep == ASSUME ServerInv, NEW r \in R, Leave(r) PROVE ServerInv'
<1>1. UNCHANGED <<chosen, backlog, pc, memory, mutex, log, history, fds>>
  BY DEF Leave
<1> QED BY <1>1, SameFds, IdleStep DEF ServerInv

LEMMA LockAcceptStep == ASSUME ServerInv, NEW a \in Acceptors, LockAccept(a) PROVE ServerInv'
<1>1. UNCHANGED <<chosen, backlog, pc, memory, mutex, log, history, fds>>
  BY DEF LockAccept
<1> QED BY <1>1, SameFds, IdleStep DEF ServerInv

LEMMA ZombieHandlerStep == ASSUME ServerInv, ZombieHandler PROVE ServerInv'
<1>1. UNCHANGED <<chosen, backlog, pc, memory, mutex, log, history, fds>>
  BY DEF ZombieHandler
<1> QED BY <1>1, SameFds, IdleStep DEF ServerInv

LEMMA ScriptEndsStep == ASSUME ServerInv, NEW r \in R, ScriptEnds(r) PROVE ServerInv'
<1>1. /\ UNCHANGED <<chosen, backlog, pc, memory, mutex, log, history>>
      /\ fds' = [fds EXCEPT ![Script(r)] = {}]
  BY DEF ScriptEnds
<1>2. fds' \in [Processes -> SUBSET Opens]
      /\ \A p \in Processes : p # Script(r) => fds'[p] = fds[p]
  BY <1>1 DEF ServerInv, Typed
<1>3. \A p \in {Server} \cup {Child(s) : s \in R} : p \in Processes /\ p # Script(r)
  BY Processual DEF ServerInv
<1> QED BY <1>1, <1>2, <1>3, IdleStep

-----------------------------------------------------------------------------
(* From the connect to the handler.                                          *)

LEMMA UncountedMove ==
  ASSUME Typed, Adds, NEW r \in R, NEW from \in Uncounted, NEW to \in Uncounted, Goto(r, from, to),
         UNCHANGED <<chosen, mutex, page, timed>>, memory'[Server] = memory[Server],
         \A s \in R : s # r => before'[s] = before[s],
         before'[r] \subseteq Counted \ {r}
  PROVE  Adds'
<1>1. R' = R /\ mode' = mode /\ load' = load
  BY ChosenSame
<1>2. /\ pc[r] = from /\ pc'[r] = to /\ \A s \in R : s # r => pc'[s] = pc[s]
  <2>1. to \in Steps
    BY DEF Uncounted, Steps
  <2> QED BY <2>1, MovePc
<1>3. Counted' = Counted
  BY <1>1, <1>2 DEF Counted
<1> SUFFICES ASSUME mode # "fork" PROVE Adds'
  BY <1>1 DEF Adds
<1>4. CountIsRight' /\ BeforeIsCounted' /\ ExtremesAreRight'
  BY <1>1, <1>3 DEF Adds, CountIsRight, Shared, BeforeIsCounted, ExtremesAreRight
<1>5. HolderHasMutex' /\ OneTimeEach'
  <2>1. \A x \in timed : x[1] \in R
    BY DEF Typed
  <2> QED BY <1>1, <1>2, <2>1 DEF Adds, HolderHasMutex, OneTimeEach, Uncounted, Recorded
<1>6. PagesAreRight'
  <2>1. Requests({"stats"})' = Requests({"stats"}) /\ Requests({"stats"}) \subseteq R
    BY <1>1 DEF Requests
  <2>2. ASSUME NEW s \in Requests({"stats"}), s # r
        PROVE  /\ pc'[s] \in Uncounted \cup {"read", "log", "stats", "update"} \cup Recorded
               /\ pc'[s] \in {"update"} \cup Recorded =>
                    /\ page'[s].stats.count > Cardinality(before'[s])
                    /\ Extremes(page'[s].stats, page'[s].timed, 0)
    BY <1>1, <1>2, <2>1, <2>2 DEF Adds, PagesAreRight
  <2> QED BY <1>2, <2>1, <2>2 DEF PagesAreRight, Uncounted, Recorded
<1> QED BY <1>4, <1>5, <1>6 DEF Adds

LEMMA BeforeSame ==
  ASSUME Typed, Adds, mode # "fork", NEW r \in R, UNCHANGED before
  PROVE  before'[r] \subseteq Counted \ {r}
BY DEF Adds, BeforeIsCounted

LEMMA ConnectStep == ASSUME ServerInv, NEW r \in R, Connect(r) PROVE ServerInv'
<1>1. /\ Goto(r, "away", "queued") /\ backlog' = Append(backlog, r)
      /\ UNCHANGED <<chosen, memory, mutex, log, fds, page, before, timed>>
  BY DEF Connect, Goto, history
<1>2. /\ R' = R /\ Processes' = Processes /\ mode' = mode /\ load' = load
  BY <1>1, ChosenSame
<1>0. \A s \in R : Post(s)' = Post(s)
  BY <1>1, ChosenSame
<1>3. /\ pc' \in [R -> Steps] /\ pc[r] = "away" /\ pc'[r] = "queued"
      /\ \A s \in R : s # r => pc'[s] = pc[s]
  BY <1>1, MovePc DEF ServerInv, Steps
<1>4. Typed'
  BY <1>1, <1>2, <1>3 DEF ServerInv, Typed
<1>5. Queue'
  <2>1. backlog \in Seq(R) /\ backlog' \in Seq(R)
    BY <1>1 DEF ServerInv, Queue
  <2>2. /\ DOMAIN backlog' = DOMAIN backlog \cup {Len(backlog) + 1}
        /\ backlog'[Len(backlog) + 1] = r /\ Len(backlog) + 1 \notin DOMAIN backlog
        /\ \A k \in DOMAIN backlog : backlog'[k] = backlog[k]
    BY <1>1, <2>1
  <2>3. \A k \in DOMAIN backlog : backlog[k] \in R /\ backlog[k] # r
    BY <1>3, <2>1 DEF ServerInv, Queue
  <2>4. \A k \in DOMAIN backlog' : pc'[backlog'[k]] = "queued"
    BY <1>3, <2>2, <2>3 DEF ServerInv, Queue
  <2>5. \A j, k \in DOMAIN backlog' : backlog'[j] = backlog'[k] => j = k
    BY <2>2, <2>3 DEF ServerInv, Queue
  <2>6. /\ \A s \in R : pc'[s] = "accepted" => mode = "fork"
        /\ \A s \in R : pc'[s] = "pipe" => Post(s)
    BY <1>3 DEF ServerInv, Queue
  <2> QED BY <1>0, <1>2, <2>1, <2>4, <2>5, <2>6 DEF Queue
<1>6. Belongs'
  BY <1>1, MoveBelongs DEF ServerInv, Steps
<1>7. Adds'
  <2>1. CASE mode = "fork"
    BY <1>2, <2>1 DEF Adds
  <2>2. CASE mode # "fork"
    <3>1. before'[r] \subseteq Counted \ {r}
      BY <1>1, <2>2, BeforeSame DEF ServerInv
    <3> QED BY <1>1, <3>1, UncountedMove DEF ServerInv, Uncounted
  <2> QED BY <2>1, <2>2
<1> QED BY <1>4, <1>5, <1>6, <1>7 DEF ServerInv

LEMMA AcceptStep == ASSUME ServerInv, NEW a \in Acceptors, Accept(a) PROVE ServerInv'
<1> DEFINE r == Head(backlog)
           to == IF mode = "fork" THEN "accepted" ELSE "count"
<1>1. /\ backlog # <<>> /\ backlog' = Tail(backlog)
      /\ fds' = [fds EXCEPT ![Server] = @ \cup {Socket(r)}]
      /\ pc' = [pc EXCEPT ![r] = to]
      /\ before' = [before EXCEPT ![r] = {s \in R : pc[s] = "done"}]
      /\ UNCHANGED <<chosen, memory, mutex, log, page, timed>>
  BY DEF Accept
<1>2. /\ R' = R /\ Processes' = Processes /\ mode' = mode /\ load' = load /\ mayFail' = mayFail
      /\ \A s \in R : Post(s)' = Post(s)
  BY <1>1, ChosenSame
<1>3. /\ backlog \in Seq(R) /\ r \in R /\ pc[r] = "queued" /\ r = backlog[1] /\ 1 \in DOMAIN backlog
  BY <1>1 DEF ServerInv, Queue
<1>4. Typed /\ to \in Steps /\ to \in Uncounted /\ Goto(r, "queued", to)
  BY <1>1, <1>3 DEF ServerInv, Steps, Uncounted, Goto
<1> HIDE DEF r
<1>5. /\ pc' \in [R -> Steps] /\ pc'[r] = to /\ \A s \in R : s # r => pc'[s] = pc[s]
  BY <1>3, <1>4, MovePc
<1>6. /\ Server \in Processes /\ r \in Nat
      /\ \A s \in R : s \in Nat /\ Child(s) \in Processes /\ Child(s) # Server
  BY <1>3, <1>4, Processual
<1>7. /\ fds' \in [Processes -> SUBSET Opens] /\ fds'[Server] = fds[Server] \cup {Socket(r)}
      /\ \A s \in R : fds'[Child(s)] = fds[Child(s)]
  <2>1. Socket(r) \in Opens
    BY <1>6, OpenTypes
  <2> QED BY <1>1, <1>4, <1>6, <2>1 DEF Typed
<1>8. before' \in [R -> SUBSET R]
  BY <1>1, <1>3, <1>4 DEF Typed
<1>9. Typed'
  BY <1>1, <1>2, <1>4, <1>5, <1>7, <1>8 DEF Typed
<1>10. Queue'
  <2>1. /\ backlog' \in Seq(R)
        /\ \A k \in DOMAIN backlog' : k + 1 \in DOMAIN backlog /\ backlog'[k] = backlog[k + 1]
                                     /\ k \in Nat /\ k + 1 # 1
    BY <1>1, <1>3
  <2>2. \A k \in DOMAIN backlog' : backlog'[k] \in R /\ backlog'[k] # r
    BY <1>3, <2>1 DEF ServerInv, Queue
  <2>3. \A k \in DOMAIN backlog' : pc'[backlog'[k]] = "queued"
    BY <1>5, <2>1, <2>2 DEF ServerInv, Queue
  <2>4. ASSUME NEW j \in DOMAIN backlog', NEW k \in DOMAIN backlog', backlog'[j] = backlog'[k]
        PROVE  j = k
    <3>1. j + 1 = k + 1
      BY <2>1, <2>4 DEF ServerInv, Queue
    <3> QED BY <2>1, <3>1
  <2>5. /\ \A s \in R : pc'[s] = "accepted" => mode = "fork"
        /\ \A s \in R : pc'[s] = "pipe" => Post(s)
    BY <1>5 DEF ServerInv, Queue
  <2> QED BY <1>2, <2>1, <2>3, <2>4, <2>5 DEF Queue
<1>11. Belongs'
  <2> SUFFICES ASSUME NEW s \in R PROVE OpenFor(s)'
    BY <1>2 DEF Belongs
  <2>1. OpenFor(s)
    BY DEF ServerInv, Belongs
  <2>2. CASE s = r
    <3>1. Socket(r) \notin {ReadEnd(r), WriteEnd(r), Document(r)}
      BY <1>6, OpenTypes
    <3> QED BY <1>2, <1>3, <1>5, <1>7, <2>1, <2>2, <3>1 DEF OpenFor
  <2>3. CASE s # r
    <3>1. Socket(r) \notin Own(s)
      BY <1>6, <2>3, OpenTypes DEF Own
    <3> QED BY <1>2, <1>5, <1>7, <2>1, <2>3, <3>1 DEF OpenFor, Own
  <2> QED BY <2>2, <2>3
<1>12. Adds'
  <2>1. \A s \in R : s # r => before'[s] = before[s]
    BY <1>1, <1>4 DEF Typed
  <2>2. before'[r] \subseteq Counted \ {r}
    BY <1>1, <1>3, <1>4 DEF Typed, Counted, Uncounted
  <2> QED BY <1>1, <1>3, <1>4, <2>1, <2>2, UncountedMove DEF ServerInv, Uncounted
<1> QED BY <1>9, <1>10, <1>11, <1>12 DEF ServerInv

LEMMA ForkChildStep == ASSUME ServerInv, NEW r \in R, ForkChild(r) PROVE ServerInv'
<1>1. /\ Goto(r, "accepted", "count")
      /\ fds' = [fds EXCEPT ![Child(r)] = fds[Server], ![Server] = @ \ {Socket(r)}]
      /\ memory' = [memory EXCEPT ![Child(r)] = memory[Server]]
      /\ UNCHANGED <<chosen, backlog, mutex, log, page, before, timed>>
  BY DEF ForkChild, Goto, history
<1>2. /\ R' = R /\ Processes' = Processes /\ mode' = mode /\ load' = load /\ mayFail' = mayFail
      /\ \A s \in R : Post(s)' = Post(s)
  BY <1>1, ChosenSame
<1>3. Typed /\ "count" \in Steps /\ "count" \in Uncounted /\ "accepted" \in Uncounted
  BY DEF ServerInv, Steps, Uncounted
<1>4. /\ pc' \in [R -> Steps] /\ pc[r] = "accepted" /\ pc'[r] = "count"
      /\ \A s \in R : s # r => pc'[s] = pc[s]
  BY <1>1, <1>3, MovePc
<1>5. /\ Server \in Processes /\ r \in Nat
      /\ \A s \in R : s \in Nat /\ Child(s) \in Processes /\ Child(s) # Server
      /\ \A s \in R : s # r => Child(s) # Child(r)
  BY <1>3, Processual
<1>6. /\ fds' \in [Processes -> SUBSET Opens] /\ fds'[Server] = fds[Server] \ {Socket(r)}
      /\ fds'[Child(r)] = fds[Server]
      /\ \A s \in R : s # r => fds'[Child(s)] = fds[Child(s)]
  BY <1>1, <1>3, <1>5 DEF Typed
<1>7. memory' \in [Processes -> Stats] /\ memory'[Server] = memory[Server]
  BY <1>1, <1>3, <1>5 DEF Typed
<1>8. Typed'
  BY <1>1, <1>2, <1>3, <1>4, <1>6, <1>7 DEF Typed
<1>9. Queue'
  BY <1>1, <1>2, <1>3, MoveQueue DEF ServerInv
<1>10. Belongs'
  <2> SUFFICES ASSUME NEW s \in R PROVE OpenFor(s)'
    BY <1>2 DEF Belongs
  <2>1. OpenFor(s) /\ OpenFor(r) /\ mode = "fork"
    BY <1>4 DEF ServerInv, Belongs, Queue
  <2>2. CASE s = r
    BY <1>2, <1>4, <1>6, <2>1, <2>2 DEF OpenFor
  <2>3. CASE s # r
    BY <1>2, <1>4, <1>6, <2>1, <2>3 DEF OpenFor
  <2> QED BY <2>2, <2>3
<1>11. Adds'
  <2>1. CASE mode = "fork"
    BY <1>2, <2>1 DEF Adds
  <2>2. CASE mode # "fork"
    <3>1. before'[r] \subseteq Counted \ {r}
      BY <1>1, <2>2, BeforeSame DEF ServerInv
    <3> QED BY <1>1, <1>3, <1>7, <3>1, UncountedMove DEF ServerInv
  <2> QED BY <2>1, <2>2
<1> QED BY <1>8, <1>9, <1>10, <1>11 DEF ServerInv

LEMMA ForkChildFailsStep == ASSUME ServerInv, NEW r \in R, ForkChildFails(r) PROVE ServerInv'
<1>1. /\ Goto(r, "accepted", "lost") /\ "fork" \in mayFail
      /\ UNCHANGED <<chosen, backlog, mutex, memory, log, fds, page, before, timed>>
  BY DEF ForkChildFails, Goto, history
<1>2. /\ R' = R /\ Processes' = Processes /\ mode' = mode /\ load' = load /\ mayFail' = mayFail
      /\ fds' = fds
  BY <1>1, ChosenSame
<1>3. Typed /\ "lost" \in Steps \ {"done"} /\ "lost" \in Uncounted /\ "accepted" \in Uncounted
  BY DEF ServerInv, Steps, Uncounted
<1>4. /\ pc' \in [R -> Steps] /\ pc[r] = "accepted" /\ pc'[r] = "lost"
      /\ \A s \in R : s # r => pc'[s] = pc[s]
  BY <1>1, <1>3, MovePc
<1>5. Typed'
  BY <1>1, <1>2, <1>3, <1>4 DEF Typed
<1>6. Queue'
  BY <1>1, <1>2, <1>3, MoveQueue DEF ServerInv
<1>7. mode = "fork"
  BY <1>4 DEF ServerInv, Queue
<1>8. Belongs' /\ Adds'
  BY <1>2, <1>4, <1>7 DEF ServerInv, Belongs, OpenFor, Adds
<1> QED BY <1>5, <1>6, <1>7, <1>8 DEF ServerInv

-----------------------------------------------------------------------------
(* The steps of processHTTPRequest that touch no statistics.                 *)

LEMMA HandlingStep ==
  ASSUME ServerInv, NEW r \in R, NEW from \in Handling \ {"close"},
         NEW to \in Handling \cup {"update"}, Goto(r, from, to),
         UNCHANGED <<chosen, backlog>>, StatsUntouched,
         log' \in Seq(R), page' \in [R -> [stats : Stats, log : Seq(R), timed : SUBSET (R \X Times)]],
         \A s \in R : page'[s].stats = page[s].stats /\ page'[s].timed = page[s].timed,
         load[r] = "stats" => \/ from = "read" /\ to = "log"
                              \/ from = "log" /\ to = "stats"
                              \/ from \notin {"read", "log", "stats"},
         to = "pipe" => Post(r), Belongs', fds' \in [Processes -> SUBSET Opens]
  PROVE  ServerInv'
<1>1. /\ R' = R /\ Processes' = Processes /\ mode' = mode /\ load' = load
  BY ChosenSame
<1>2. Typed /\ Queue /\ Adds /\ to \in Steps /\ from # "queued" /\ to # "accepted"
  BY DEF ServerInv, Handling, Steps, Uncounted
<1>3. pc' \in [R -> Steps]
  BY <1>2, MovePc
<1>4. Typed'
  BY <1>1, <1>2, <1>3 DEF Typed, StatsUntouched
<1>5. Queue'
  BY <1>1, <1>2, MoveQueue DEF chosen
<1>6. Adds'
  BY <1>2, MoveAdds
<1> QED BY <1>4, <1>5, <1>6 DEF ServerInv

LEMMA SameHistory ==
  ASSUME Typed, UNCHANGED <<memory, mutex, log, history>>
  PROVE  /\ StatsUntouched /\ log' \in Seq(R)
         /\ page' \in [R -> [stats : Stats, log : Seq(R), timed : SUBSET (R \X Times)]]
         /\ \A s \in R : page'[s].stats = page[s].stats /\ page'[s].timed = page[s].timed
BY DEF Typed, StatsUntouched, history

(* Those that open and close nothing.                                        *)
LEMMA QuietStep ==
  ASSUME ServerInv, NEW r \in R, NEW from \in Handling \ {"close"},
         NEW to \in Handling \cup {"update"}, Goto(r, from, to),
         UNCHANGED <<chosen, backlog, memory, mutex, log, history, fds>>,
         load[r] = "stats" => \/ from = "read" /\ to = "log"
                              \/ from = "log" /\ to = "stats"
                              \/ from \notin {"read", "log", "stats"},
         from \notin {"accepted", "lost", "send", "list", "load", "feed"},
         from = "fork" => ~Post(r) \/ "fork" \in mayFail,
         to # "pipe"
  PROVE  ServerInv'
<1>1. Typed /\ Belongs /\ to \in Steps \ {"done"}
  BY DEF ServerInv, Handling, Steps
<1>2. Belongs' /\ fds' \in [Processes -> SUBSET Opens]
  BY <1>1, SameFds, MoveBelongs
<1>3. /\ StatsUntouched /\ log' \in Seq(R)
      /\ page' \in [R -> [stats : Stats, log : Seq(R), timed : SUBSET (R \X Times)]]
      /\ \A s \in R : page'[s].stats = page[s].stats /\ page'[s].timed = page[s].timed
  BY <1>1, SameHistory
<1> QED BY <1>2, <1>3, HandlingStep

LEMMA QuietSteps ==
  ASSUME ServerInv, NEW r \in R,
         \/ Read(r) \/ OpenFails(r) \/ StreamHeader(r) \/ WriteFrame(r) \/ EndStream(r)
         \/ PipeFails(r) \/ ForkScriptFails(r) \/ WaitScript(r)
         \/ OpenFrame(r) /\ UNCHANGED fds
  PROVE  ServerInv'
<1> DEFINE Same == UNCHANGED <<chosen, backlog, memory, mutex, log, history, fds>>
<1>1. CASE Read(r)
  <2>1. PICK to \in {"close", "log"} : /\ Goto(r, "read", to) /\ (load[r] = "stats" => to = "log")
    BY <1>1 DEF Read
  <2>2. Same
    BY <1>1 DEF Read
  <2> QED BY <2>1, <2>2, QuietStep DEF Handling, Steps, Uncounted
<1>2. CASE OpenFails(r)
  <2>1. PICK to \in {"update", "close"} : Goto(r, "open", to)
    BY <1>2 DEF OpenFails
  <2>2. Same
    BY <1>2 DEF OpenFails
  <2> QED BY <2>1, <2>2, QuietStep DEF Handling, Steps, Uncounted
<1>3. ASSUME NEW from \in {"header", "show"}, StreamWrite(r, from) PROVE ServerInv'
  <2>1. PICK to \in {"frame", "update"} : Goto(r, from, to)
    BY <1>3 DEF StreamWrite
  <2>2. Same
    BY <1>3 DEF StreamWrite
  <2> QED BY <2>1, <2>2, QuietStep DEF Handling, Steps, Uncounted
<1>4. CASE EndStream(r)
  <2>1. Goto(r, "frame", "update") /\ Same
    BY <1>4 DEF EndStream
  <2> QED BY <2>1, QuietStep DEF Handling, Steps, Uncounted
<1>5. CASE PipeFails(r)
  <2>1. Goto(r, "pipe", "close") /\ Same
    BY <1>5 DEF PipeFails
  <2> QED BY <2>1, QuietStep DEF Handling, Steps, Uncounted
<1>6. CASE ForkScriptFails(r)
  <2>1. Goto(r, "fork", "update") /\ Same /\ "fork" \in mayFail
    BY <1>6 DEF ForkScriptFails
  <2> QED BY <2>1, QuietStep DEF Handling, Steps, Uncounted
<1>7. CASE WaitScript(r)
  <2>1. Goto(r, "wait", "update") /\ Same
    BY <1>7 DEF WaitScript
  <2> QED BY <2>1, QuietStep DEF Handling, Steps, Uncounted
<1>8. CASE OpenFrame(r) /\ UNCHANGED fds
  <2>1. PICK to \in {"load", "frame"} : Goto(r, "frame", to)
    BY <1>8 DEF OpenFrame
  <2>2. Same
    BY <1>8 DEF OpenFrame
  <2> QED BY <2>1, <2>2, QuietStep DEF Handling, Steps, Uncounted
<1> QED BY <1>1, <1>2, <1>3, <1>4, <1>5, <1>6, <1>7, <1>8 DEF StreamHeader, WriteFrame

LEMMA LogStep == ASSUME ServerInv, NEW r \in R, Log(r) PROVE ServerInv'
<1>1. /\ Goto(r, "log", Step(r)) /\ log' = Append(log, r)
      /\ UNCHANGED <<chosen, backlog, memory, mutex, history, fds>>
  BY DEF Log
<1> DEFINE to == Step(r)
<1>2. /\ to \in {"stats", "logs", "open", "header", "fork", "pipe", "close"}
      /\ load[r] = "stats" => to = "stats"
      /\ to = "pipe" => Post(r)
  <2>1. CASE load[r] \in {"stats", "logs", "file", "deaf", "listing", "stream", "cgi"}
    BY <2>1 DEF Step, Post
  <2>2. CASE load[r] \in {"post", "large post"}
    BY <2>2 DEF Step, Post
  <2>3. CASE load[r] \notin {"stats", "logs", "file", "deaf", "listing", "stream", "cgi", "post",
                            "large post"}
    BY <2>3 DEF Step, Post
  <2> QED BY <2>1, <2>2, <2>3
<1>3. Goto(r, "log", to)
  BY <1>1
<1> HIDE DEF to
<1>4. Typed /\ Belongs /\ to \in Steps \ {"done"} /\ to \in Handling
      /\ "log" \in Handling \ {"close"}
  BY <1>2 DEF ServerInv, Handling, Steps, Uncounted
<1>5. Belongs' /\ fds' \in [Processes -> SUBSET Opens]
  BY <1>1, <1>3, <1>4, SameFds, MoveBelongs
<1>6. /\ StatsUntouched /\ log' \in Seq(R)
      /\ page' \in [R -> [stats : Stats, log : Seq(R), timed : SUBSET (R \X Times)]]
      /\ \A s \in R : page'[s].stats = page[s].stats /\ page'[s].timed = page[s].timed
  BY <1>1, <1>4 DEF Typed, StatsUntouched, history
<1> QED BY <1>1, <1>2, <1>3, <1>4, <1>5, <1>6, HandlingStep

LEMMA ServeLogsStep == ASSUME ServerInv, NEW r \in R, ServeLogs(r) PROVE ServerInv'
<1>1. /\ Goto(r, "logs", "update") /\ page' = [page EXCEPT ![r].log = log]
      /\ UNCHANGED <<chosen, backlog, memory, mutex, log, fds, before, timed>>
  BY DEF ServeLogs
<1>2. Typed /\ Belongs /\ "update" \in Steps \ {"done"} /\ "logs" \in Handling \ {"close"}
  BY DEF ServerInv, Handling, Steps, Uncounted
<1>3. Belongs' /\ fds' \in [Processes -> SUBSET Opens]
  BY <1>1, <1>2, SameFds, MoveBelongs
<1>4. /\ page' \in [R -> [stats : Stats, log : Seq(R), timed : SUBSET (R \X Times)]]
      /\ \A s \in R : page'[s].stats = page[s].stats /\ page'[s].timed = page[s].timed
  BY <1>1, <1>2 DEF Typed
<1>5. StatsUntouched /\ log' \in Seq(R)
  BY <1>1, <1>2 DEF Typed, StatsUntouched
<1> QED BY <1>1, <1>2, <1>3, <1>4, <1>5, HandlingStep

-----------------------------------------------------------------------------
(* Those that open or close something.                                       *)

LEMMA OwnStep ==
  ASSUME ServerInv, NEW r \in R, NEW from \in Handling \ {"close"},
         NEW to \in Handling \cup {"update"}, Goto(r, from, to),
         UNCHANGED <<chosen, backlog, memory, mutex, log, history>>,
         from \notin {"read", "log", "stats"}, to # "pipe",
         NEW F \in SUBSET Opens, fds' = [fds EXCEPT ![Home(r)] = F],
         F \subseteq fds[Home(r)] \cup {ReadEnd(r), WriteEnd(r), Document(r)},
         mode # "fork" =>
           /\ Document(r) \in F => to \in {"send", "list", "load"}
           /\ \/ "fork" \in mayFail
              \/ F \cap {ReadEnd(r), WriteEnd(r)} # {} => Post(r) /\ to \in {"fork", "feed"}
  PROVE  ServerInv'
<1>1. Typed /\ Belongs /\ to \in Steps
  BY DEF ServerInv, Handling, Steps
<1>2. /\ mode' = mode /\ mayFail' = mayFail /\ Post(r)' = Post(r) /\ pc[r] = from /\ pc'[r] = to
      /\ to # "done" /\ from \notin {"accepted", "lost", "done"}
  BY <1>1, ChosenSame, MovePc DEF Handling, Uncounted
<1>3. /\ Home(r) \in Processes /\ Server \in Processes /\ Child(r) \in Processes
      /\ Child(r) # Server /\ r \in Nat
  BY <1>1, Processual
<1>4. \A p \in Processes : fds'[p] = IF p = Home(r) THEN F ELSE fds[p]
  BY <1>1 DEF Typed
<1>5. Socket(r) \notin {ReadEnd(r), WriteEnd(r), Document(r)}
  BY <1>3, OpenTypes
<1>6. OpenFor(r)'
  <2>1. OpenFor(r)
    BY <1>1 DEF Belongs
  <2>2. CASE mode = "fork"
    <3>1. fds'[Server] = fds[Server]
      BY <1>3, <1>4, <2>2 DEF Home
    <3> QED BY <1>2, <2>1, <2>2, <3>1 DEF OpenFor
  <2>3. CASE mode # "fork"
    <3>1. fds'[Server] = F /\ fds'[Child(r)] = fds[Child(r)]
      BY <1>3, <1>4, <2>3 DEF Home
    <3> QED BY <1>2, <1>5, <2>1, <2>3, <3>1 DEF OpenFor, Home
  <2> QED BY <2>2, <2>3
<1>7. Belongs' /\ fds' \in [Processes -> SUBSET Opens]
  BY <1>1, <1>6, HomeBelongs DEF Own
<1>8. /\ StatsUntouched /\ log' \in Seq(R)
      /\ page' \in [R -> [stats : Stats, log : Seq(R), timed : SUBSET (R \X Times)]]
      /\ \A s \in R : page'[s].stats = page[s].stats /\ page'[s].timed = page[s].timed
  BY <1>1, SameHistory
<1> QED BY <1>7, <1>8, HandlingStep

LEMMA OpenAndClose ==
  ASSUME ServerInv, NEW r \in R,
         \/ Open(r) \/ Send(r) \/ List(r) \/ OpenFrame(r) \/ ReadFrame(r) \/ Pipe(r) \/ Feed(r)
  PROVE  ServerInv'
<1>1. /\ fds[Home(r)] \in SUBSET Opens
      /\ Document(r) \in Opens /\ ReadEnd(r) \in Opens /\ WriteEnd(r) \in Opens
      /\ Document(r) \notin {ReadEnd(r), WriteEnd(r)}
  <2>1. r \in Nat /\ Home(r) \in Processes
    BY Processual DEF ServerInv
  <2> QED BY <2>1, OpenTypes DEF ServerInv, Typed
<1>2. ASSUME mode # "fork"
      PROVE  /\ Home(r) = Server
             /\ Document(r) \in fds[Server] => pc[r] \in {"send", "list", "load"}
             /\ \/ "fork" \in mayFail
                \/ fds[Server] \cap {ReadEnd(r), WriteEnd(r)} # {}
                     => Post(r) /\ pc[r] \in {"fork", "feed"}
  BY <1>2 DEF ServerInv, Belongs, OpenFor, Home
<1> DEFINE Same == UNCHANGED <<chosen, backlog, memory, mutex, log, history>>
           With == fds[Home(r)] \cup {Document(r)}
           Less == fds[Home(r)] \ {Document(r)}
           Piped == fds[Home(r)] \cup {ReadEnd(r), WriteEnd(r)}
           Unpiped == fds[Home(r)] \ {ReadEnd(r), WriteEnd(r)}
<1>3. With \in SUBSET Opens /\ Less \in SUBSET Opens /\ Piped \in SUBSET Opens
      /\ Unpiped \in SUBSET Opens
  BY <1>1
<1>4. ASSUME NEW from \in {"open", "frame"}, NEW to \in {"send", "list", "load"},
             Goto(r, from, to), fds' = [fds EXCEPT ![Home(r)] = With], Same
      PROVE  ServerInv'
  <2>1. pc[r] = from
    BY <1>4 DEF Goto
  <2>2. mode # "fork" => "fork" \in mayFail \/ With \cap {ReadEnd(r), WriteEnd(r)} = {}
    BY <1>1, <1>2, <1>4, <2>1
  <2> HIDE DEF With
  <2>3. With \subseteq fds[Home(r)] \cup {ReadEnd(r), WriteEnd(r), Document(r)}
    BY DEF With
  <2> QED BY <1>3, <1>4, <2>2, <2>3, OwnStep DEF Handling, Steps, Uncounted
<1>5. ASSUME NEW from \in {"send", "list", "load"}, NEW to \in {"update", "show", "frame"},
             Goto(r, from, to), fds' = [fds EXCEPT ![Home(r)] = Less], Same
      PROVE  ServerInv'
  <2>1. pc[r] = from
    BY <1>5 DEF Goto
  <2>2. /\ Document(r) \notin Less
        /\ mode # "fork" => "fork" \in mayFail \/ Less \cap {ReadEnd(r), WriteEnd(r)} = {}
    BY <1>1, <1>2, <1>5, <2>1
  <2>3. Less \subseteq fds[Home(r)] \cup {ReadEnd(r), WriteEnd(r), Document(r)}
    OBVIOUS
  <2> HIDE DEF Less
  <2> QED BY <1>3, <1>5, <2>2, <2>3, OwnStep DEF Handling, Steps, Uncounted
<1>6. CASE Open(r)
  <2>1. PICK to \in {"send", "list"} : Goto(r, "open", to)
    BY <1>6 DEF Open
  <2>2. fds' = [fds EXCEPT ![Home(r)] = With] /\ Same
    BY <1>6 DEF Open
  <2> QED BY <1>4, <2>1, <2>2
<1>7. CASE Send(r)
  <2>1. Goto(r, "send", "update") /\ fds' = [fds EXCEPT ![Home(r)] = Less] /\ Same
    BY <1>7 DEF Send, CloseDocument
  <2> QED BY <1>5, <2>1
<1>8. CASE List(r)
  <2>1. Goto(r, "list", "update") /\ fds' = [fds EXCEPT ![Home(r)] = Less] /\ Same
    BY <1>8 DEF List, CloseDocument
  <2> QED BY <1>5, <2>1
<1>9. CASE OpenFrame(r)
  <2>1. CASE UNCHANGED fds
    BY <1>9, <2>1, QuietSteps
  <2>2. CASE Goto(r, "frame", "load") /\ fds' = [fds EXCEPT ![Home(r)] = With]
    <3>1. Same
      BY <1>9 DEF OpenFrame
    <3> QED BY <1>4, <2>2, <3>1
  <2> QED BY <1>9, <2>1, <2>2 DEF OpenFrame
<1>10. CASE ReadFrame(r)
  <2>1. PICK to \in {"show", "frame"} : Goto(r, "load", to)
    BY <1>10 DEF ReadFrame
  <2>2. fds' = [fds EXCEPT ![Home(r)] = Less] /\ Same
    BY <1>10 DEF ReadFrame, CloseDocument
  <2> QED BY <1>5, <2>1, <2>2
<1>11. CASE Pipe(r)
  <2>1. Goto(r, "pipe", "fork") /\ fds' = [fds EXCEPT ![Home(r)] = Piped] /\ Same
    BY <1>11 DEF Pipe
  <2>2. pc[r] = "pipe" /\ Post(r)
    BY <2>1 DEF Goto, ServerInv, Queue
  <2>3. mode # "fork" => Document(r) \notin Piped
    BY <1>1, <1>2, <2>2
  <2>4. Piped \subseteq fds[Home(r)] \cup {ReadEnd(r), WriteEnd(r), Document(r)}
    OBVIOUS
  <2> HIDE DEF Piped
  <2> QED BY <1>3, <2>1, <2>2, <2>3, <2>4, OwnStep DEF Handling, Steps, Uncounted
<1>12. CASE Feed(r)
  <2>1. Goto(r, "feed", "wait") /\ fds' = [fds EXCEPT ![Home(r)] = Unpiped] /\ Same
    BY <1>12 DEF Feed
  <2>2. pc[r] = "feed"
    BY <2>1 DEF Goto
  <2>3. mode # "fork" => Document(r) \notin Unpiped
    BY <1>1, <1>2, <2>2
  <2>4. /\ Unpiped \subseteq fds[Home(r)] \cup {ReadEnd(r), WriteEnd(r), Document(r)}
        /\ Unpiped \cap {ReadEnd(r), WriteEnd(r)} = {}
    OBVIOUS
  <2> HIDE DEF Unpiped
  <2> QED BY <1>3, <2>1, <2>2, <2>3, <2>4, OwnStep DEF Handling, Steps, Uncounted
<1> QED BY <1>6, <1>7, <1>8, <1>9, <1>10, <1>11, <1>12

LEMMA ForkScriptStep == ASSUME ServerInv, NEW r \in R, ForkScript(r) PROVE ServerInv'
<1> DEFINE to == IF Post(r) THEN "feed" ELSE "wait"
<1>1. /\ Goto(r, "fork", to) /\ fds' = [fds EXCEPT ![Script(r)] = fds[Home(r)] \ {WriteEnd(r)}]
      /\ UNCHANGED <<chosen, backlog, memory, mutex, log, history>>
  BY DEF ForkScript
<1>2. /\ Typed /\ to \in Steps /\ "fork" \in Handling \ {"close"} /\ to \in Handling
      /\ to # "pipe" /\ to # "done" /\ (Post(r) => to = "feed")
  BY DEF ServerInv, Handling, Steps, Uncounted
<1> HIDE DEF to
<1>3. /\ mode' = mode /\ mayFail' = mayFail /\ R' = R /\ \A s \in R : Post(s)' = Post(s)
  BY <1>1, ChosenSame
<1>4. pc[r] = "fork" /\ pc'[r] = to /\ \A s \in R : s # r => pc'[s] = pc[s]
  BY <1>1, <1>2, MovePc
<1>5. /\ Home(r) \in Processes /\ Server \in Processes /\ Script(r) # Server
      /\ \A s \in R : Child(s) \in Processes /\ Script(r) # Child(s)
  BY <1>2, Processual
<1>6. /\ fds' \in [Processes -> SUBSET Opens] /\ fds'[Server] = fds[Server]
      /\ \A s \in R : fds'[Child(s)] = fds[Child(s)]
  BY <1>1, <1>2, <1>5 DEF Typed
<1>7. Belongs'
  <2> SUFFICES ASSUME NEW s \in R PROVE OpenFor(s)'
    BY <1>3 DEF Belongs
  <2>1. OpenFor(s)
    BY DEF ServerInv, Belongs
  <2>2. CASE s = r
    BY <1>2, <1>3, <1>4, <1>6, <2>1, <2>2 DEF OpenFor
  <2>3. CASE s # r
    BY <1>3, <1>4, <1>6, <2>1, <2>3 DEF OpenFor
  <2> QED BY <2>2, <2>3
<1>8. /\ StatsUntouched /\ log' \in Seq(R)
      /\ page' \in [R -> [stats : Stats, log : Seq(R), timed : SUBSET (R \X Times)]]
      /\ \A s \in R : page'[s].stats = page[s].stats /\ page'[s].timed = page[s].timed
  BY <1>1, <1>2, SameHistory
<1> QED BY <1>1, <1>2, <1>6, <1>7, <1>8, HandlingStep

-----------------------------------------------------------------------------
(* The steps that touch the statistics.                                      *)

LEMMA HomeIsServer == ASSUME mode # "fork" PROVE \A r \in R : Home(r) = Server
BY DEF Home

LEMMA CountStep == ASSUME ServerInv, NEW r \in R, Count(r) PROVE ServerInv'
<1>1. /\ Goto(r, "count", "read")
      /\ memory' = [memory EXCEPT ![Home(r)].count = @ + 1]
      /\ UNCHANGED <<chosen, backlog, mutex, log, fds, page, before, timed>>
  BY DEF Count, history
<1>2. /\ R' = R /\ Processes' = Processes /\ mode' = mode /\ load' = load
  BY <1>1, ChosenSame
<1>3. /\ Typed /\ Queue /\ Belongs /\ "read" \in Steps \ {"done"}
  BY DEF ServerInv, Steps
<1>4. /\ pc' \in [R -> Steps] /\ pc[r] = "count" /\ pc'[r] = "read"
      /\ \A s \in R : s # r => pc'[s] = pc[s]
  BY <1>1, <1>3, MovePc
<1>5. Home(r) \in Processes /\ Server \in Processes
  BY <1>3, Processual
<1>6. memory' \in [Processes -> Stats]
  <2>1. memory[Home(r)] \in Stats /\ memory[Home(r)].count + 1 \in Nat
    BY <1>3, <1>5 DEF Typed, Stats
  <2> QED BY <1>1, <1>3, <1>5, <2>1 DEF Typed, Stats
<1>7. Typed'
  BY <1>1, <1>2, <1>3, <1>4, <1>6 DEF Typed
<1>8. Queue'
  BY <1>1, <1>3, MoveQueue DEF chosen
<1>9. Belongs'
  BY <1>1, <1>3, MoveBelongs
<1>10. Adds'
  <2> SUFFICES ASSUME mode # "fork" PROVE Adds'
    BY <1>2 DEF Adds
  <2>1. Home(r) = Server
    BY HomeIsServer
  <2>2. /\ Shared' = [Shared EXCEPT !.count = @ + 1] /\ Shared \in Stats
        /\ Shared.count \in Nat
    BY <1>1, <1>3, <1>5, <2>1 DEF Typed, Shared, Stats
  <2>3. /\ Shared'.count = Shared.count + 1 /\ Shared'.min = Shared.min
        /\ Shared'.minURL = Shared.minURL /\ Shared'.max = Shared.max
        /\ Shared'.maxURL = Shared.maxURL
    BY <2>2 DEF Stats
  <2>4. Counted' = Counted \cup {r} /\ r \notin Counted
    BY <1>2, <1>4 DEF Counted, Uncounted
  <2>5. CountIsRight'
    <3>1. IsFiniteSet(Counted)
      BY <1>3, Processual, FS_Subset DEF Counted
    <3>2. Cardinality(Counted \cup {r}) = Cardinality(Counted) + 1
      BY <2>4, <3>1, FS_AddElement
    <3> QED BY <2>3, <2>4, <3>2 DEF ServerInv, Adds, CountIsRight
  <2>6. BeforeIsCounted'
    BY <1>1, <1>2, <2>4 DEF ServerInv, Adds, BeforeIsCounted
  <2>7. HolderHasMutex' /\ OneTimeEach'
    <3>1. \A x \in timed : x[1] \in R
      BY <1>3 DEF Typed
    <3> QED BY <1>1, <1>2, <1>4, <3>1 DEF ServerInv, Adds, HolderHasMutex, OneTimeEach, Recorded
  <2>8. ExtremesAreRight'
    <3>1. Extremes(Shared, timed, mutex[Server])
      BY DEF ServerInv, Adds, ExtremesAreRight
    <3> QED BY <1>1, <2>3, <3>1 DEF ExtremesAreRight, Extremes
  <2>9. PagesAreRight'
    <3>1. Requests({"stats"})' = Requests({"stats"}) /\ Requests({"stats"}) \subseteq R
      BY <1>2 DEF Requests
    <3> QED BY <1>1, <1>2, <1>4, <3>1 DEF ServerInv, Adds, PagesAreRight, Recorded
  <2> QED BY <2>5, <2>6, <2>7, <2>8, <2>9 DEF Adds
<1> QED BY <1>7, <1>8, <1>9, <1>10 DEF ServerInv

(* From serveStats to the end of a request, which stays counted.             *)
LEMMA LateAdds ==
  ASSUME Typed, Adds, mode # "fork", NEW r \in R,
         NEW from \in {"stats", "update", "update max", "close"},
         NEW to \in {"update"} \cup Recorded, Goto(r, from, to),
         UNCHANGED <<chosen, before>>, Shared'.count = Shared.count,
         HolderHasMutex', OneTimeEach', ExtremesAreRight',
         \A s \in R : s # r => page'[s] = page[s],
         load[r] = "stats" => /\ page'[r].stats.count > Cardinality(before[r])
                              /\ Extremes(page'[r].stats, page'[r].timed, 0)
  PROVE  Adds'
<1>1. R' = R /\ mode' = mode /\ load' = load /\ to \in Steps
  BY ChosenSame DEF Recorded, Steps
<1>2. /\ pc[r] = from /\ pc'[r] = to /\ \A s \in R : s # r => pc'[s] = pc[s]
  BY <1>1, MovePc
<1>3. Counted' = Counted
  BY <1>1, <1>2 DEF Counted, Uncounted, Recorded
<1>4. CountIsRight' /\ BeforeIsCounted'
  BY <1>1, <1>3 DEF Adds, CountIsRight, BeforeIsCounted
<1>5. PagesAreRight'
  <2>1. Requests({"stats"})' = Requests({"stats"}) /\ Requests({"stats"}) = {s \in R : load[s] = "stats"}
    BY <1>1 DEF Requests
  <2>2. ASSUME NEW s \in Requests({"stats"}), s # r
        PROVE  /\ pc'[s] \in Uncounted \cup {"read", "log", "stats", "update"} \cup Recorded
               /\ pc'[s] \in {"update"} \cup Recorded =>
                    /\ page'[s].stats.count > Cardinality(before'[s])
                    /\ Extremes(page'[s].stats, page'[s].timed, 0)
    BY <1>1, <1>2, <2>1, <2>2 DEF Adds, PagesAreRight
  <2> QED BY <1>2, <2>1, <2>2 DEF PagesAreRight
<1> QED BY <1>4, <1>5 DEF Adds

(* The page of a request that has been served says what it should.           *)
LEMMA PageSame ==
  ASSUME Adds, mode # "fork", NEW r \in R, pc[r] \in {"update"} \cup Recorded, load[r] = "stats",
         UNCHANGED page
  PROVE  /\ page'[r].stats.count > Cardinality(before[r])
         /\ Extremes(page'[r].stats, page'[r].timed, 0)
BY DEF Adds, PagesAreRight, Requests

LEMMA ServeStatsStep == ASSUME ServerInv, NEW r \in R, ServeStats(r) PROVE ServerInv'
<1>1. /\ Goto(r, "stats", "update") /\ mutex[Home(r)] = 0
      /\ page' = [page EXCEPT ![r].stats = memory[Home(r)], ![r].timed = timed]
      /\ UNCHANGED <<chosen, backlog, memory, mutex, log, fds, before, timed>>
  BY DEF ServeStats, Free
<1>2. /\ R' = R /\ Processes' = Processes /\ mode' = mode /\ load' = load
  BY <1>1, ChosenSame
<1>3. /\ Typed /\ Queue /\ Belongs /\ Adds /\ "update" \in Steps \ {"done"}
  BY DEF ServerInv, Steps
<1>4. /\ pc' \in [R -> Steps] /\ pc[r] = "stats" /\ pc'[r] = "update"
      /\ \A s \in R : s # r => pc'[s] = pc[s]
  BY <1>1, <1>3, MovePc
<1>5. Home(r) \in Processes /\ Server \in Processes
  BY <1>3, Processual
<1>6. /\ page' \in [R -> [stats : Stats, log : Seq(R), timed : SUBSET (R \X Times)]]
      /\ page'[r].stats = memory[Home(r)] /\ page'[r].timed = timed
      /\ \A s \in R : s # r => page'[s] = page[s]
  BY <1>1, <1>3, <1>5 DEF Typed
<1>7. Typed'
  BY <1>1, <1>2, <1>3, <1>4, <1>6 DEF Typed
<1>8. Queue'
  BY <1>1, <1>3, MoveQueue DEF chosen
<1>9. Belongs'
  BY <1>1, <1>3, MoveBelongs
<1>10. Adds'
  <2> SUFFICES ASSUME mode # "fork" PROVE Adds'
    BY <1>2 DEF Adds
  <2>1. Home(r) = Server /\ Shared' = Shared
    BY <1>1, HomeIsServer DEF Shared
  <2>2. HolderHasMutex'
    BY <1>1, <1>2, <1>3, <1>4 DEF Adds, HolderHasMutex
  <2>3. OneTimeEach'
    <3>1. \A x \in timed : x[1] \in R
      BY <1>3 DEF Typed
    <3> QED BY <1>1, <1>3, <1>4, <3>1 DEF Adds, OneTimeEach, Recorded
  <2>4. ExtremesAreRight'
    BY <1>1, <1>3, <2>1 DEF Adds, ExtremesAreRight
  <2>5. Extremes(page'[r].stats, page'[r].timed, 0)
    BY <1>1, <1>3, <1>6, <2>1 DEF Adds, ExtremesAreRight, Shared
  <2>6. page'[r].stats.count > Cardinality(before[r])
    <3>1. IsFiniteSet(Counted) /\ r \in Counted
      BY <1>3, <1>4, Processual, FS_Subset DEF Counted, Uncounted
    <3>2. /\ Cardinality(Counted \ {r}) = Cardinality(Counted) - 1
          /\ IsFiniteSet(Counted \ {r})
      BY <3>1, FS_RemoveElement
    <3>3. before[r] \subseteq Counted \ {r}
      BY <1>3 DEF Adds, BeforeIsCounted
    <3>4. Cardinality(before[r]) <= Cardinality(Counted \ {r}) /\ IsFiniteSet(before[r])
      BY <3>2, <3>3, FS_Subset
    <3>5. Cardinality(Counted) \in Nat /\ Cardinality(before[r]) \in Nat
      BY <3>1, <3>4, FS_CardinalityType
    <3>6. page'[r].stats.count = Cardinality(Counted)
      BY <1>3, <1>6, <2>1 DEF Adds, CountIsRight, Shared
    <3> QED BY <3>2, <3>4, <3>5, <3>6
  <2> QED BY <1>1, <1>3, <1>6, <2>1, <2>2, <2>3, <2>4, <2>5, <2>6, LateAdds
<1> QED BY <1>7, <1>8, <1>9, <1>10 DEF ServerInv

(* The two halves of updateStats: the shorter time, then the longer.         *)
Shorter(s, r, t) == IF s.min < 0 \/ t < s.min THEN [s EXCEPT !.min = t, !.minURL = r] ELSE s
Longer(s, r, t) == IF t > s.max THEN [s EXCEPT !.max = t, !.maxURL = r] ELSE s

LEMMA ShorterExtremes ==
  ASSUME NEW s \in Stats, NEW T \in SUBSET (Nat \X Nat), NEW r \in Nat, NEW t \in Nat,
         Extremes(s, T, 0), \A x \in T : x[1] # 0
  PROVE  /\ Extremes(Shorter(s, r, t), T \cup {<<r, t>>}, r)
         /\ Shorter(s, r, t) \in Stats /\ Shorter(s, r, t).count = s.count
<1> DEFINE n == Shorter(s, r, t)
           N == T \cup {<<r, t>>}
<1>1. /\ s.min \in Nat \cup {-1} /\ s.max \in Nat /\ s.minURL \in Nat /\ s.maxURL \in Nat
      /\ s.count \in Nat
  BY DEF Stats
<1>2. CASE s.min < 0 \/ t < s.min
  <2>1. n = [s EXCEPT !.min = t, !.minURL = r]
    BY <1>2 DEF Shorter
  <2>2. /\ n \in Stats /\ n.min = t /\ n.minURL = r /\ n.max = s.max /\ n.maxURL = s.maxURL
        /\ n.count = s.count
    BY <2>1 DEF Stats
  <2> HIDE DEF n
  <2>3. \A x \in N : n.min <= x[2] /\ (x[1] # r => x[2] <= n.max)
    <3>1. \A x \in T : x[2] \in Nat /\ s.min <= x[2] /\ x[2] <= s.max /\ s.min # -1
      BY DEF Extremes
    <3>2. \A x \in T : t <= x[2]
      BY <1>1, <1>2, <3>1
    <3> QED BY <2>2, <3>1, <3>2
  <2>4. n.max > 0 => <<n.maxURL, n.max>> \in N
    BY <2>2 DEF Extremes
  <2>5. (n.min = -1 <=> N = {}) /\ <<n.minURL, n.min>> \in N
    <3>1. n.min # -1
      BY <2>2
    <3>2. <<n.minURL, n.min>> = <<r, t>>
      BY <2>2
    <3> QED BY <3>1, <3>2
  <2> QED BY <2>2, <2>3, <2>4, <2>5 DEF Extremes, n
<1>3. CASE ~(s.min < 0 \/ t < s.min)
  <2>1. n = s /\ s.min >= 0 /\ s.min <= t
    BY <1>1, <1>3 DEF Shorter
  <2>2. T # {} /\ <<s.minURL, s.min>> \in T
    BY <1>1, <2>1 DEF Extremes
  <2>3. \A x \in N : s.min <= x[2] /\ (x[1] # r => x[2] <= s.max)
    BY <2>1 DEF Extremes
  <2>4. s.max > 0 => <<s.maxURL, s.max>> \in N
    BY DEF Extremes
  <2> QED BY <1>1, <2>1, <2>2, <2>3, <2>4 DEF Extremes
<1> QED BY <1>2, <1>3

LEMMA LongerExtremes ==
  ASSUME NEW s \in Stats, NEW T \in SUBSET (Nat \X Nat), NEW r \in Nat, NEW t \in Nat,
         Extremes(s, T, r), <<r, t>> \in T, \A x \in T : x[1] = r => x = <<r, t>>
  PROVE  /\ Extremes(Longer(s, r, t), T, 0)
         /\ Longer(s, r, t) \in Stats /\ Longer(s, r, t).count = s.count
<1> DEFINE n == Longer(s, r, t)
<1>1. /\ s.min \in Nat \cup {-1} /\ s.max \in Nat /\ s.minURL \in Nat /\ s.maxURL \in Nat
      /\ s.count \in Nat
  BY DEF Stats
<1>2. /\ n \in Stats /\ n.min = s.min /\ n.minURL = s.minURL /\ n.count = s.count
      /\ n.max >= s.max /\ n.max >= t /\ n.max \in Nat
      /\ \/ n.max = s.max /\ n.maxURL = s.maxURL
         \/ n.max = t /\ n.maxURL = r
  <2>1. CASE t > s.max
    <3>1. n = [s EXCEPT !.max = t, !.maxURL = r]
      BY <2>1 DEF Longer
    <3>2. /\ n \in Stats /\ n.min = s.min /\ n.minURL = s.minURL /\ n.count = s.count
          /\ n.max = t /\ n.maxURL = r
      BY <3>1 DEF Stats
    <3> HIDE DEF n
    <3> QED BY <1>1, <2>1, <3>2
  <2>2. CASE ~(t > s.max)
    <3>1. n = s
      BY <2>2 DEF Longer
    <3> QED BY <1>1, <2>2, <3>1
  <2> QED BY <2>1, <2>2
<1> HIDE DEF n
<1>3. \A x \in T : s.min <= x[2] /\ x[2] <= n.max
  <2> SUFFICES ASSUME NEW x \in T PROVE s.min <= x[2] /\ x[2] <= n.max
    OBVIOUS
  <2>1. x[2] \in Nat /\ s.min <= x[2] /\ (x[1] # r => x[2] <= s.max)
    BY DEF Extremes
  <2>2. x[1] = r => x[2] = t
    OBVIOUS
  <2> QED BY <1>1, <1>2, <2>1, <2>2
<1>4. n.max > 0 => <<n.maxURL, n.max>> \in T
  BY <1>2 DEF Extremes
<1>5. (n.min = -1 <=> T = {}) /\ (T # {} => <<n.minURL, n.min>> \in T)
  BY <1>2 DEF Extremes
<1> QED BY <1>2, <1>3, <1>4, <1>5 DEF Extremes, n

LEMMA UpdateMinStep == ASSUME ServerInv, NEW r \in R, UpdateMin(r) PROVE ServerInv'
<1>1. PICK t \in Times : /\ timed' = timed \cup {<<r, t>>}
                         /\ memory' = [memory EXCEPT ![Home(r)] = Shorter(@, r, t)]
  BY DEF UpdateMin, Shorter
<1>2. /\ Goto(r, "update", "update max") /\ mutex[Home(r)] = 0
      /\ mutex' = [mutex EXCEPT ![Home(r)] = r]
      /\ UNCHANGED <<chosen, backlog, log, fds, page, before>>
  BY DEF UpdateMin, Free
<1>3. /\ R' = R /\ Processes' = Processes /\ mode' = mode /\ load' = load
  BY <1>2, ChosenSame
<1>4. /\ Typed /\ Queue /\ Belongs /\ Adds /\ "update max" \in Steps \ {"done"}
      /\ "update max" \in Recorded
  BY DEF ServerInv, Steps, Recorded
<1>5. /\ pc' \in [R -> Steps] /\ pc[r] = "update" /\ pc'[r] = "update max"
      /\ \A s \in R : s # r => pc'[s] = pc[s]
  BY <1>2, <1>4, MovePc
<1>6. /\ Home(r) \in Processes /\ Server \in Processes /\ r \in Nat /\ 0 \notin R /\ r # 0
      /\ t \in Nat /\ \A s \in R : s \in Nat
  BY <1>4, Processual, ServerAssumption
<1>7. memory' \in [Processes -> Stats]
  <2>1. memory[Home(r)] \in Stats
    BY <1>4, <1>6 DEF Typed
  <2>2. Shorter(memory[Home(r)], r, t) \in Stats
    BY <1>6, <2>1 DEF Shorter, Stats
  <2> QED BY <1>1, <1>4, <1>6, <2>2 DEF Typed
<1>8. /\ timed' \subseteq R \X Times /\ mutex' \in [Processes -> R \cup {0}]
  <2>1. timed \subseteq R \X Times /\ <<r, t>> \in R \X Times
    BY <1>4 DEF Typed
  <2>2. timed' \subseteq R \X Times
    BY <1>1, <2>1
  <2> QED BY <1>2, <1>4, <2>2 DEF Typed
<1>9. Typed'
  BY <1>2, <1>3, <1>4, <1>5, <1>7, <1>8 DEF Typed
<1>10. Queue'
  BY <1>2, <1>4, MoveQueue DEF chosen
<1>11. Belongs'
  BY <1>2, <1>4, MoveBelongs
<1>12. Adds'
  <2> SUFFICES ASSUME mode # "fork" PROVE Adds'
    BY <1>3 DEF Adds
  <2>1. /\ mutex[Server] = 0 /\ mutex'[Server] = r /\ Shared' = Shorter(Shared, r, t)
        /\ Shared \in Stats
    BY <1>1, <1>2, <1>4, <1>6, HomeIsServer DEF Shared, Typed
  <2>2. /\ Extremes(Shared', timed', r) /\ Shared'.count = Shared.count
    <3>1. /\ timed \in SUBSET (Nat \X Nat) /\ \A x \in timed : x[1] # 0
      <4>1. R \subseteq Nat /\ Times \subseteq Nat /\ timed \subseteq R \X Times
        BY <1>4, <1>6, ServerAssumption DEF Typed
      <4>2. \A x \in timed : x[1] \in R
        BY <4>1
      <4>3. timed \subseteq Nat \X Nat
        BY <4>1
      <4> QED BY <1>6, <4>2, <4>3
    <3>2. Extremes(Shared, timed, 0)
      BY <1>4, <2>1 DEF Adds, ExtremesAreRight
    <3> QED BY <1>1, <1>6, <2>1, <3>1, <3>2, ShorterExtremes
  <2>3. HolderHasMutex'
    <3>1. \A s \in R : pc[s] # "update max"
      BY <1>4, <1>6, <2>1 DEF Adds, HolderHasMutex
    <3> QED BY <1>3, <1>5, <2>1, <3>1 DEF HolderHasMutex
  <2>4. OneTimeEach'
    <3>1. \A x \in timed : x[1] \in R /\ x[1] # r /\ pc'[x[1]] \in Recorded
      <4>1. \A x \in timed : x[1] \in R /\ pc[x[1]] \in Recorded
        BY <1>4 DEF Typed, Adds, OneTimeEach
      <4>2. pc[r] \notin Recorded
        BY <1>5 DEF Recorded
      <4> QED BY <1>5, <4>1, <4>2
    <3>2. \A x, y \in timed : x[1] = y[1] => x = y
      BY <1>4 DEF Adds, OneTimeEach
    <3>3. \A x \in timed' : x \in timed \/ x = <<r, t>>
      BY <1>1
    <3>4. \A x \in timed' : pc'[x[1]] \in Recorded
      <4>1. <<r, t>>[1] = r /\ pc'[r] \in Recorded
        BY <1>4, <1>5
      <4> QED BY <3>1, <3>3, <4>1
    <3>5. \A x, y \in timed' : x[1] = y[1] => x = y
      BY <3>1, <3>2, <3>3
    <3> QED BY <3>4, <3>5 DEF OneTimeEach
  <2>5. ExtremesAreRight'
    BY <2>1, <2>2 DEF ExtremesAreRight
  <2>6. load[r] = "stats" => /\ page'[r].stats.count > Cardinality(before[r])
                             /\ Extremes(page'[r].stats, page'[r].timed, 0)
    BY <1>2, <1>4, <1>5, PageSame
  <2> QED BY <1>2, <1>4, <2>2, <2>3, <2>4, <2>5, <2>6, LateAdds
<1> QED BY <1>9, <1>10, <1>11, <1>12 DEF ServerInv

LEMMA UpdateMaxStep == ASSUME ServerInv, NEW r \in R, UpdateMax(r) PROVE ServerInv'
<1>1. PICK t \in Times : /\ <<r, t>> \in timed
                         /\ memory' = [memory EXCEPT ![Home(r)] = Longer(@, r, t)]
  BY DEF UpdateMax, Longer
<1>2. /\ Goto(r, "update max", "close") /\ mutex' = [mutex EXCEPT ![Home(r)] = 0]
      /\ UNCHANGED <<chosen, backlog, log, fds, page, before, timed>>
  BY DEF UpdateMax, history
<1>3. /\ R' = R /\ Processes' = Processes /\ mode' = mode /\ load' = load
  BY <1>2, ChosenSame
<1>4. /\ Typed /\ Queue /\ Belongs /\ Adds /\ "close" \in Steps \ {"done"}
      /\ "close" \in Recorded /\ "update max" \in Recorded
  BY DEF ServerInv, Steps, Recorded
<1>5. /\ pc' \in [R -> Steps] /\ pc[r] = "update max" /\ pc'[r] = "close"
      /\ \A s \in R : s # r => pc'[s] = pc[s]
  BY <1>2, <1>4, MovePc
<1>6. /\ Home(r) \in Processes /\ Server \in Processes /\ r \in Nat /\ 0 \notin R
      /\ t \in Nat /\ \A s \in R : s \in Nat
  BY <1>4, Processual, ServerAssumption
<1>7. memory' \in [Processes -> Stats]
  <2>1. memory[Home(r)] \in Stats
    BY <1>4, <1>6 DEF Typed
  <2>2. Longer(memory[Home(r)], r, t) \in Stats
    BY <1>6, <2>1 DEF Longer, Stats
  <2> QED BY <1>1, <1>4, <1>6, <2>2 DEF Typed
<1>8. mutex' \in [Processes -> R \cup {0}]
  BY <1>2, <1>4, <1>6 DEF Typed
<1>9. Typed'
  BY <1>2, <1>3, <1>4, <1>5, <1>7, <1>8 DEF Typed
<1>10. Queue'
  BY <1>2, <1>4, MoveQueue DEF chosen
<1>11. Belongs'
  BY <1>2, <1>4, MoveBelongs
<1>12. Adds'
  <2> SUFFICES ASSUME mode # "fork" PROVE Adds'
    BY <1>3 DEF Adds
  <2>1. /\ mutex[Server] = r /\ mutex'[Server] = 0 /\ Shared' = Longer(Shared, r, t)
        /\ Shared \in Stats
    <3>1. mutex[Server] = r
      BY <1>4, <1>5 DEF Adds, HolderHasMutex
    <3> QED BY <1>1, <1>2, <1>4, <1>6, <3>1, HomeIsServer DEF Shared, Typed
  <2>2. /\ Extremes(Shared', timed', 0) /\ Shared'.count = Shared.count
    <3>1. timed \in SUBSET (Nat \X Nat)
      BY <1>4, <1>6, ServerAssumption, ZenonT(60) DEF Typed
    <3>2. Extremes(Shared, timed, r)
      BY <1>4, <2>1 DEF Adds, ExtremesAreRight
    <3>3. \A x \in timed : x[1] = r => x = <<r, t>>
      BY <1>1, <1>4 DEF Adds, OneTimeEach
    <3>4. timed' = timed
      BY <1>2
    <3>5. /\ Extremes(Longer(Shared, r, t), timed, 0)
          /\ Longer(Shared, r, t).count = Shared.count
      BY <1>1, <1>6, <2>1, <3>1, <3>2, <3>3, LongerExtremes
    <3> QED BY <2>1, <3>4, <3>5
  <2>3. HolderHasMutex'
    <3>1. \A s \in R : s # r => pc[s] # "update max"
      BY <1>4, <1>6, <2>1 DEF Adds, HolderHasMutex
    <3> QED BY <1>3, <1>5, <3>1 DEF HolderHasMutex
  <2>4. OneTimeEach'
    <3>1. \A x \in timed : x[1] \in R /\ pc[x[1]] \in Recorded
      BY <1>4 DEF Typed, Adds, OneTimeEach
    <3> QED BY <1>2, <1>4, <1>5, <3>1 DEF Adds, OneTimeEach
  <2>5. ExtremesAreRight'
    BY <2>1, <2>2 DEF ExtremesAreRight
  <2>6. load[r] = "stats" => /\ page'[r].stats.count > Cardinality(before[r])
                             /\ Extremes(page'[r].stats, page'[r].timed, 0)
    BY <1>2, <1>4, <1>5, PageSame
  <2> QED BY <1>2, <1>4, <2>2, <2>3, <2>4, <2>5, <2>6, LateAdds
<1> QED BY <1>9, <1>10, <1>11, <1>12 DEF ServerInv

LEMMA CloseStep == ASSUME ServerInv, NEW r \in R, Close(r) PROVE ServerInv'
<1> DEFINE F == IF mode = "fork" THEN {} ELSE fds[Server] \ {Socket(r)}
<1>1. /\ Goto(r, "close", "done") /\ fds' = [fds EXCEPT ![Home(r)] = F]
      /\ UNCHANGED <<chosen, backlog, memory, mutex, log, page, before, timed>>
  BY DEF Close, Home, history
<1>2. /\ R' = R /\ Processes' = Processes /\ mode' = mode /\ load' = load
      /\ mayFail' = mayFail /\ Post(r)' = Post(r)
  BY <1>1, ChosenSame
<1>3. /\ Typed /\ Queue /\ Belongs /\ Adds /\ "done" \in Steps
      /\ "close" \in Recorded /\ "done" \in Recorded
  BY DEF ServerInv, Steps, Recorded
<1>4. /\ pc' \in [R -> Steps] /\ pc[r] = "close" /\ pc'[r] = "done"
      /\ \A s \in R : s # r => pc'[s] = pc[s]
  BY <1>1, <1>3, MovePc
<1>5. /\ Home(r) \in Processes /\ Server \in Processes /\ Child(r) \in Processes
      /\ Child(r) # Server /\ r \in Nat
  BY <1>3, Processual
<1>6. F \in SUBSET Opens /\ F \subseteq fds[Home(r)] \cup Own(r)
  BY <1>3, <1>5 DEF Typed, Home
<1>7. \A p \in Processes : fds'[p] = IF p = Home(r) THEN F ELSE fds[p]
  BY <1>1, <1>3 DEF Typed
<1>8. OpenFor(r)'
  <2>1. OpenFor(r)
    BY <1>3 DEF Belongs
  <2>2. CASE mode = "fork"
    <3>1. fds'[Server] = fds[Server] /\ fds'[Child(r)] = {}
      BY <1>5, <1>7, <2>2 DEF Home
    <3> QED BY <1>2, <1>4, <2>1, <2>2, <3>1 DEF OpenFor
  <2>3. CASE mode # "fork"
    <3>1. fds'[Server] = fds[Server] \ {Socket(r)} /\ fds'[Child(r)] = fds[Child(r)]
      BY <1>5, <1>7, <2>3 DEF Home
    <3> QED BY <1>2, <1>4, <2>1, <2>3, <3>1 DEF OpenFor
  <2> QED BY <2>2, <2>3
<1> HIDE DEF F
<1>9. Belongs' /\ fds' \in [Processes -> SUBSET Opens]
  BY <1>1, <1>3, <1>6, <1>8, HomeBelongs
<1>10. Typed'
  BY <1>1, <1>2, <1>3, <1>4, <1>9 DEF Typed
<1>11. Queue'
  BY <1>1, <1>3, MoveQueue DEF chosen
<1>12. Adds'
  <2> SUFFICES ASSUME mode # "fork" PROVE Adds'
    BY <1>2 DEF Adds
  <2>1. HolderHasMutex' /\ Shared'.count = Shared.count
    BY <1>1, <1>2, <1>3, <1>4 DEF Adds, HolderHasMutex, Shared
  <2>2. OneTimeEach'
    <3>1. \A x \in timed : x[1] \in R /\ pc[x[1]] \in Recorded
      BY <1>3 DEF Typed, Adds, OneTimeEach
    <3> QED BY <1>1, <1>3, <1>4, <3>1 DEF Adds, OneTimeEach
  <2>3. ExtremesAreRight'
    BY <1>1, <1>3 DEF Adds, ExtremesAreRight, Shared
  <2>4. load[r] = "stats" => /\ page'[r].stats.count > Cardinality(before[r])
                             /\ Extremes(page'[r].stats, page'[r].timed, 0)
    BY <1>1, <1>3, <1>4, PageSame
  <2> QED BY <1>1, <1>3, <2>1, <2>2, <2>3, <2>4, LateAdds
<1> QED BY <1>9, <1>10, <1>11, <1>12 DEF ServerInv

-----------------------------------------------------------------------------
LEMMA ServerNext == ASSUME ServerInv, [Next]_vars PROVE ServerInv'
<1>1. ASSUME NEW r \in R, Handle(r) PROVE ServerInv'
  <2>1. CASE Count(r) \/ Log(r) \/ ServeStats(r) \/ ServeLogs(r) \/ UpdateMin(r) \/ UpdateMax(r)
    BY <2>1, CountStep, LogStep, ServeStatsStep, ServeLogsStep, UpdateMinStep, UpdateMaxStep
  <2>2. CASE \/ Read(r) \/ OpenFails(r) \/ StreamHeader(r) \/ WriteFrame(r) \/ EndStream(r)
             \/ PipeFails(r) \/ ForkScriptFails(r) \/ WaitScript(r)
    BY <2>2, QuietSteps
  <2>3. CASE \/ Open(r) \/ Send(r) \/ List(r) \/ OpenFrame(r) \/ ReadFrame(r) \/ Pipe(r) \/ Feed(r)
    BY <2>3, OpenAndClose
  <2>4. CASE ForkScript(r) \/ Close(r)
    BY <2>4, ForkScriptStep, CloseStep
  <2> QED BY <1>1, <2>1, <2>2, <2>3, <2>4 DEF Handle
<1>2. CASE \E r \in R : Connect(r) \/ Leave(r) \/ Handle(r) \/ ScriptEnds(r)
  BY <1>1, <1>2, ConnectStep, LeaveStep, ScriptEndsStep
<1>3. CASE Serve
  BY <1>3, LockAcceptStep, AcceptStep, ForkChildStep, ForkChildFailsStep DEF Serve
<1>4. CASE ZombieHandler
  BY <1>4, ZombieHandlerStep
<1>5. CASE UNCHANGED vars
  BY <1>5, StutterStep
<1> QED BY <1>2, <1>3, <1>4, <1>5 DEF Next

(* The server keeps its descriptors and its statistics as the invariant says,*)
(* in each of the four modes.                                                *)
THEOREM ServerInvariant == Spec => []ServerInv
<1> QED BY ServerInit, ServerNext, PTL DEF Spec

(* What /stats shows adds up, however the handlers that share the statistics *)
(* interleave: updateStats holds statsMutex for both of its halves.          *)
THEOREM StatsAreRight == Spec => []StatsAddUp
<1>1. ServerInv => StatsAddUp
  <2> SUFFICES ASSUME ServerInv, mode # "fork", NEW r \in Requests({"stats"}),
                      pc[r] \in {"update", "update max", "close", "done"}
               PROVE  LET s == page[r].stats
                          times == {x[2] : x \in page[r].timed}
                      IN  /\ s.count > Cardinality(before[r])
                          /\ s.min = -1 <=> times = {}
                          /\ times # {} => /\ <<s.minURL, s.min>> \in page[r].timed
                                            /\ \A t \in times : s.min <= t /\ t <= s.max
                          /\ s.max > 0 => <<s.maxURL, s.max>> \in page[r].timed
    BY DEF StatsAddUp
  <2>1. /\ page[r].stats.count > Cardinality(before[r])
        /\ Extremes(page[r].stats, page[r].timed, 0)
    BY DEF ServerInv, Adds, PagesAreRight, Recorded
  <2>2. \A x \in page[r].timed : x[1] # 0
    <3>1. r \in R /\ 0 \notin R
      BY Processual DEF Requests, ServerInv
    <3>2. page[r].timed \subseteq R \X Times
      BY <3>1 DEF ServerInv, Typed
    <3> QED BY <3>1, <3>2
  <2> QED BY <2>1, <2>2 DEF Extremes
<1> QED BY <1>1, ServerInvariant, PTL

(* A request that is done has left no socket and no document open in the     *)
(* process that handled it, nor in the server, and no pipe unless a fork may *)
(* fail: then the pipe for a script that did not start stays open.           *)
THEOREM DescriptorsAreClosed == Spec => []DescriptorsClosed
<1>1. ServerInv => DescriptorsClosed
  <2> SUFFICES ASSUME ServerInv, NEW r \in R, pc[r] = "done", NEW p \in {Server, Child(r)}
               PROVE  /\ fds[p] \cap {Socket(r), Document(r)} = {}
                      /\ "fork" \notin mayFail => fds[p] \cap {ReadEnd(r), WriteEnd(r)} = {}
    BY DEF DescriptorsClosed
  <2>1. OpenFor(r)
    BY DEF ServerInv, Belongs
  <2> QED BY <2>1 DEF OpenFor
<1> QED BY <1>1, ServerInvariant, PTL
===============================================================================
