------------------------- MODULE ShellPipelineProofs -------------------------
(* The descriptors, pipes and FIFOs of one command, for every pipeline up to *)
(* the bound, every combination of redirections and every failing call.      *)
EXTENDS ShellPipeline, SequenceTheorems, TLAPS

Objects == {"closed", "tty", "in", "out", "err", "read", "write"} \X Nat
Kid == [program : Programs, stage : Nat, fd : [Descriptors -> Objects], runs : BOOLEAN,
        left : Nat, holds : BOOLEAN, arg : Nat]
SubShell == [does : {"open", "write", "clean", "ended"}, left : Nat, cleanup : Seq(Nat)]

Typed ==
  /\ programs \in Seq(Programs) /\ N \in Nat \ {0}
  /\ redirects \subseteq {"in", "out", "err"}
  /\ pc \in {"lex", "open", "stage", "fork", "wait", "clean", "done", "exited"} /\ i \in 1 .. N
  /\ fd \in [Descriptors -> Objects]
  /\ child \in Seq(Kid)
  /\ sub \in Seq(SubShell)
  /\ cleanup \in Seq(Nat) /\ Range(cleanup) \subseteq DOMAIN sub
  /\ wanted \in Nat

Writes(object) == object[1] = "write"
AsBefore == [d \in Descriptors |-> IF d \in {"0", "1", "2"} THEN Tty ELSE None]

(* What the shell has open at each place of execute.                         *)
ShellHolds ==
  /\ pc \in {"lex", "open"} => i = 1
  /\ pc \in {"lex", "open", "clean", "done"} => fd = AsBefore
  /\ pc \in {"stage", "fork", "wait"} =>
       /\ \A d \in Saved : fd[d] = Tty
       /\ fd["fdout"] = None /\ fd["file"] = None
       /\ \A d \in Descriptors \ {"1"} : ~Writes(fd[d])
  /\ pc = "stage" => IF i = 1 THEN ~Writes(fd["1"])
                     ELSE fd["1"] = WriteEnd(i - 1) /\ fd["fdin"] = ReadEnd(i - 1)
  /\ pc = "fork" => /\ IF Last THEN ~Writes(fd["1"]) ELSE fd["1"] = WriteEnd(i)
                    /\ i > 1 => fd["0"] = ReadEnd(i - 1)
                    /\ fd["fdin"] = IF Last THEN None ELSE ReadEnd(i)
  /\ pc = "exited" => \A d \in Descriptors : fd[d] = None
  /\ pc = "wait" => Last /\ fd["fdin"] = None /\ ~Writes(fd["1"])

(* What a child has open for ever: its neighbours' pipes and no other write  *)
(* end.                                                                      *)
ChildHolds(c) ==
  /\ c.stage \in 1 .. N
  /\ IF c.stage = N THEN ~Writes(c.fd["1"]) ELSE c.fd["1"] = WriteEnd(c.stage)
  /\ c.stage > 1 => c.fd["0"] = ReadEnd(c.stage - 1)
  /\ \A d \in Descriptors \ {"1"} : ~Writes(c.fd[d])
ChildrenHold == \A k \in DOMAIN child : ChildHolds(child[k])

(* The list has every FIFO and every shell that has not ended.               *)
Listed ==
  /\ fifo \subseteq Range(cleanup)
  /\ \A s \in DOMAIN sub : s \notin Range(cleanup) => sub[s].does = "ended"

(* A shell has inherited the names of earlier FIFOs only.                    *)
Earlier ==
  /\ \A s \in DOMAIN sub : Range(sub[s].cleanup) \subseteq 1 .. s - 1
  /\ pc = "lex" => child = <<>>

(* A FIFO that is gone unopened was removed by the shell of a later <( ).    *)
RemovedByLater ==
  \A s \in DOMAIN sub : sub[s].does = "open" /\ s \notin fifo
    => \E t \in DOMAIN sub : t > s /\ sub[t].does = "ended"

PipelineInv == Typed /\ ShellHolds /\ ChildrenHold /\ Listed /\ Earlier /\ RemovedByLater

-----------------------------------------------------------------------------
(* What descriptors refer to, and lists.                                     *)

LEMMA ObjectTypes ==
  /\ None \in Objects /\ Tty \in Objects /\ ~Writes(None) /\ ~Writes(Tty)
  /\ \A f \in {"in", "out", "err"} : File(f) \in Objects /\ ~Writes(File(f))
  /\ \A k \in Nat : /\ ReadEnd(k) \in Objects /\ ~Writes(ReadEnd(k)) /\ ReadEnd(k) # None
                    /\ WriteEnd(k) \in Objects /\ Writes(WriteEnd(k))
BY DEF Objects, None, Tty, File, ReadEnd, WriteEnd, Writes

LEMMA RangeAppend ==
  ASSUME NEW S, NEW q \in Seq(S), NEW e
  PROVE  Range(Append(q, e)) = Range(q) \cup {e}
<1>1. /\ DOMAIN Append(q, e) = DOMAIN q \cup {Len(q) + 1}
      /\ Append(q, e)[Len(q) + 1] = e /\ \A j \in DOMAIN q : Append(q, e)[j] = q[j]
  OBVIOUS
<1> QED BY <1>1 DEF Range

LEMMA RangeTail ==
  ASSUME NEW S, NEW q \in Seq(S), q # <<>>
  PROVE  /\ Head(q) \in Range(q) /\ Range(Tail(q)) \subseteq Range(q)
         /\ Range(q) \ {Head(q)} \subseteq Range(Tail(q))
<1>1. /\ 1 \in DOMAIN q /\ Head(q) = q[1]
      /\ \A j \in DOMAIN Tail(q) : j + 1 \in DOMAIN q /\ Tail(q)[j] = q[j + 1]
      /\ \A j \in DOMAIN q : j # 1 => j - 1 \in DOMAIN Tail(q) /\ Tail(q)[j - 1] = q[j]
  OBVIOUS
<1>2. Head(q) \in Range(q)
  BY <1>1 DEF Range
<1>3. Range(Tail(q)) \subseteq Range(q)
  BY <1>1 DEF Range
<1>4. ASSUME NEW x \in Range(q), x # Head(q) PROVE x \in Range(Tail(q))
  <2>1. PICK j \in DOMAIN q : x = q[j]
    BY DEF Range
  <2>2. j # 1
    BY <1>1, <1>4, <2>1
  <2> HIDE DEF Range
  <2> QED BY <1>1, <2>1, <2>2 DEF Range
<1> QED BY <1>2, <1>3, <1>4

(* A change of a child that leaves its stage and descriptors.                *)
Quiet(new) ==
  /\ new \in Seq(Kid) /\ DOMAIN new = DOMAIN child
  /\ \A j \in DOMAIN child : new[j].stage = child[j].stage /\ new[j].fd = child[j].fd

LEMMA QuietChanges ==
  ASSUME Typed, NEW k \in DOMAIN child
  PROVE  /\ Quiet(child) /\ Quiet([child EXCEPT ![k].runs = FALSE])
         /\ Quiet([child EXCEPT ![k].holds = TRUE]) /\ Quiet([child EXCEPT ![k].holds = FALSE])
         /\ child[k].left > 0 => Quiet([child EXCEPT ![k].left = @ - 1])
<1>1. child \in Seq(Kid) /\ child[k] \in Kid
  BY DEF Typed
<1>2. ASSUME NEW c \in Kid, c.stage = child[k].stage, c.fd = child[k].fd
      PROVE  Quiet([child EXCEPT ![k] = c])
  BY <1>1, <1>2 DEF Quiet
<1>3. Quiet(child)
  BY <1>1 DEF Quiet
<1>4. Quiet([child EXCEPT ![k].runs = FALSE])
  <2>1. Quiet([child EXCEPT ![k] = [child[k] EXCEPT !.runs = FALSE]])
    BY <1>1, <1>2 DEF Kid
  <2> QED BY <2>1
<1>5. Quiet([child EXCEPT ![k].holds = TRUE]) /\ Quiet([child EXCEPT ![k].holds = FALSE])
  <2>1. Quiet([child EXCEPT ![k] = [child[k] EXCEPT !.holds = TRUE]])
    BY <1>1, <1>2 DEF Kid
  <2>2. Quiet([child EXCEPT ![k] = [child[k] EXCEPT !.holds = FALSE]])
    BY <1>1, <1>2 DEF Kid
  <2> QED BY <2>1, <2>2
<1>6. child[k].left > 0 => Quiet([child EXCEPT ![k].left = @ - 1])
  <2> SUFFICES ASSUME child[k].left > 0 PROVE Quiet([child EXCEPT ![k].left = @ - 1])
    OBVIOUS
  <2>1. child[k].left - 1 \in Nat
    BY <1>1 DEF Kid
  <2>2. Quiet([child EXCEPT ![k] = [child[k] EXCEPT !.left = child[k].left - 1]])
    BY <1>1, <1>2, <2>1 DEF Kid
  <2> QED BY <2>2
<1> QED BY <1>3, <1>4, <1>5, <1>6

-----------------------------------------------------------------------------
LEMMA PipelineInit == Init => PipelineInv
<1> SUFFICES ASSUME Init PROVE PipelineInv
  OBVIOUS
<1>1. programs \in Seq(Programs) /\ N \in Nat \ {0} /\ 1 \in 1 .. N
  <2>1. programs \in Pipelines
    BY DEF Init
  <2>2. programs \in Seq(Programs) /\ programs # <<>>
    BY <2>1, PipelineAssumption
  <2> QED BY <2>2 DEF N
<1>2. fd = AsBefore /\ fd \in [Descriptors -> Objects]
  BY ObjectTypes DEF Init, AsBefore
<1>3. child = <<>> /\ sub = <<>> /\ cleanup = <<>> /\ DOMAIN sub = {} /\ Range(cleanup) = {}
  BY DEF Init, Range
<1>4. child \in Seq(Kid) /\ sub \in Seq(SubShell) /\ cleanup \in Seq(Nat) /\ DOMAIN child = {}
  BY <1>3
<1>5. wanted \in Nat /\ pc \in {"lex", "open"} /\ i = 1 /\ fifo = {}
      /\ redirects \subseteq {"in", "out", "err"}
  BY PipelineAssumption DEF Init
<1>6. Typed
  BY <1>1, <1>2, <1>3, <1>4, <1>5 DEF Typed
<1> QED BY <1>2, <1>3, <1>4, <1>5, <1>6
        DEF PipelineInv, ShellHolds, ChildrenHold, Listed, Earlier, RemovedByLater

-----------------------------------------------------------------------------
(* The steps of execute.                                                     *)

LEMMA SubstituteStep == ASSUME PipelineInv, Substitute PROVE PipelineInv'
<1> DEFINE s == Len(sub) + 1
<1>1. PICK n \in {1, Output} :
        /\ sub' = Append(sub, [does |-> "open", left |-> n, cleanup |-> cleanup])
        /\ fifo' = fifo \cup {s} /\ cleanup' = Append(cleanup, s)
        /\ pc' = IF s = wanted THEN "open" ELSE "lex"
  BY DEF Substitute
<1>2. pc = "lex" /\ UNCHANGED <<programs, redirects, background, mayFail, wanted, i, fd, ret, child>>
  BY DEF Substitute, command
<1> DEFINE new == [does |-> "open", left |-> n, cleanup |-> cleanup]
<1>3. sub \in Seq(SubShell) /\ cleanup \in Seq(Nat) /\ Range(cleanup) \subseteq 1 .. Len(sub)
      /\ Len(sub) \in Nat
  BY DEF PipelineInv, Typed
<1>4. new \in SubShell
  BY <1>3, PipelineAssumption DEF SubShell
<1> HIDE DEF new
<1>5. /\ sub' \in Seq(SubShell) /\ DOMAIN sub' = 1 .. s /\ sub'[s] = new
      /\ \A a \in 1 .. Len(sub) : sub'[a] = sub[a]
  BY <1>1, <1>3, <1>4 DEF new
<1>6. Range(cleanup') = Range(cleanup) \cup {s} /\ cleanup' \in Seq(Nat)
  BY <1>1, <1>3, RangeAppend
<1>7. new.does = "open" /\ new.cleanup = cleanup
  BY DEF new
<1>8. Typed'
  <2>1. Range(cleanup') \subseteq DOMAIN sub'
    BY <1>3, <1>5, <1>6
  <2> QED BY <1>1, <1>2, <1>5, <1>6, <2>1 DEF PipelineInv, Typed, N
<1>9. ShellHolds' /\ ChildrenHold'
  BY <1>1, <1>2 DEF PipelineInv, ShellHolds, ChildrenHold, ChildHolds, Last, N
<1>10. Listed'
  BY <1>1, <1>3, <1>5, <1>6 DEF PipelineInv, Listed
<1>11. child' = <<>> /\ DOMAIN child' = {}
  BY <1>2 DEF PipelineInv, Earlier
<1>12. Earlier'
  <2>1. \A a \in 1 .. Len(sub) : Range(sub'[a].cleanup) \subseteq 1 .. a - 1
    <3>1. \A a \in 1 .. Len(sub) : Range(sub[a].cleanup) \subseteq 1 .. a - 1
      <4>1. DOMAIN sub = 1 .. Len(sub)
        BY <1>3
      <4> QED BY <4>1 DEF PipelineInv, Earlier
    <3> QED BY <1>5, <3>1
  <2>2. Range(sub'[s].cleanup) \subseteq 1 .. s - 1
    BY <1>3, <1>5, <1>7
  <2> QED BY <1>3, <1>5, <1>11, <2>1, <2>2 DEF Earlier
<1>13. RemovedByLater'
  <2>1. \A a \in DOMAIN sub' : sub'[a].does = "open" /\ a \notin fifo' => a \in DOMAIN sub /\ a \notin fifo
    BY <1>1, <1>3, <1>5
  <2>2. DOMAIN sub \subseteq DOMAIN sub' /\ \A a \in DOMAIN sub : sub'[a] = sub[a]
    BY <1>3, <1>5
  <2> QED BY <2>1, <2>2 DEF PipelineInv, RemovedByLater
<1> QED BY <1>8, <1>9, <1>10, <1>12, <1>13 DEF PipelineInv

(* A FIFO that is opened is on the list, and its shell goes on.              *)
LEMMA OpenedType ==
  ASSUME PipelineInv, NEW s, Opened(s)
  PROVE  /\ s \in DOMAIN sub /\ s \in fifo /\ sub[s].does = "open"
         /\ sub' \in Seq(SubShell) /\ DOMAIN sub' = DOMAIN sub /\ sub'[s].does = "write"
         /\ \A a \in DOMAIN sub : sub'[a].cleanup = sub[a].cleanup
         /\ \A a \in DOMAIN sub : a # s => sub'[a] = sub[a]
         /\ UNCHANGED <<fifo, cleanup>>
<1>1. /\ s \in fifo /\ sub[s].does = "open" /\ sub' = [sub EXCEPT ![s].does = "write"]
      /\ UNCHANGED <<fifo, cleanup>>
  BY DEF Opened
<1>2. s \in DOMAIN sub /\ sub \in Seq(SubShell)
  BY <1>1 DEF PipelineInv, Listed, Typed
<1>3. sub[s] \in SubShell /\ [sub[s] EXCEPT !.does = "write"] \in SubShell
  <2>1. sub[s] \in SubShell
    BY <1>2
  <2> QED BY <2>1 DEF SubShell
<1>4. sub' = [sub EXCEPT ![s] = [sub[s] EXCEPT !.does = "write"]]
  BY <1>1
<1> QED BY <1>1, <1>2, <1>3, <1>4 DEF SubShell

LEMMA OpenInputStep == ASSUME PipelineInv, OpenInput PROVE PipelineInv'
<1> DEFINE input == IF "in" \notin redirects THEN fd["0"]
                    ELSE IF wanted > 0 THEN ReadEnd(Fifo(wanted)) ELSE File("in")
<1>1. /\ fd' = [fd EXCEPT !["tmpin"] = fd["0"], !["tmpout"] = fd["1"], !["tmperr"] = fd["2"],
                          !["fdin"] = input]
      /\ IF input[1] = "read" THEN Opened(wanted) ELSE UNCHANGED substitutions
  BY DEF OpenInput
<1>2. /\ pc = "open" /\ pc' = "stage"
      /\ UNCHANGED <<programs, redirects, background, mayFail, wanted, i, ret, child>>
  BY DEF OpenInput, command
<1>3. Typed /\ fd = AsBefore /\ N' = N
  BY <1>2 DEF PipelineInv, ShellHolds, N
<1>4. input \in Objects /\ ~Writes(input)
  <2>1. Fifo(wanted) \in Nat
    BY <1>3 DEF Typed, Fifo
  <2> QED BY <1>3, <2>1, ObjectTypes DEF AsBefore, Descriptors
<1> HIDE DEF input
<1>5. fd' = [d \in Descriptors |-> IF d = "fdin" THEN input
               ELSE IF d \in {"0", "1", "2"} \cup Saved THEN Tty ELSE None]
  BY <1>1, <1>3 DEF AsBefore, Descriptors, Saved
<1>6. fd' \in [Descriptors -> Objects]
  BY <1>4, <1>5, ObjectTypes
<1>7. /\ \A d \in Saved : fd'[d] = Tty
      /\ fd'["fdout"] = None /\ fd'["file"] = None
      /\ \A d \in Descriptors : ~Writes(fd'[d])
  BY <1>4, <1>5, ObjectTypes DEF Descriptors, Saved
<1>8. Typed'
  <2>1. sub' \in Seq(SubShell) /\ DOMAIN sub' = DOMAIN sub /\ cleanup' = cleanup
    <3>1. CASE input[1] = "read"
      BY <1>1, <3>1, OpenedType
    <3>2. CASE input[1] # "read"
      BY <1>1, <1>3, <3>2 DEF substitutions, Typed
    <3> QED BY <3>1, <3>2
  <2> QED BY <1>2, <1>3, <1>6, <2>1 DEF Typed
<1>9. ShellHolds'
  BY <1>2, <1>7 DEF PipelineInv, ShellHolds, Descriptors
<1>10. ChildrenHold'
  BY <1>2, <1>3 DEF PipelineInv, ChildrenHold, ChildHolds
<1>11. CASE input[1] = "read"
  <2>1. /\ wanted \in DOMAIN sub /\ sub[wanted].does = "open" /\ DOMAIN sub' = DOMAIN sub
        /\ \A a \in DOMAIN sub : sub'[a].cleanup = sub[a].cleanup
        /\ \A a \in DOMAIN sub : a # wanted => sub'[a] = sub[a]
        /\ UNCHANGED <<fifo, cleanup>>
    BY <1>1, <1>11, OpenedType
  <2>2. Listed'
    BY <2>1 DEF PipelineInv, Listed
  <2>3. Earlier'
    BY <1>2, <2>1 DEF PipelineInv, Earlier
  <2>5. RemovedByLater'
    BY <1>1, <1>11, <2>1, OpenedType DEF PipelineInv, RemovedByLater
  <2> QED BY <1>8, <1>9, <1>10, <2>2, <2>3, <2>5 DEF PipelineInv
<1>12. CASE input[1] # "read"
  <2>1. UNCHANGED <<sub, fifo, cleanup>>
    BY <1>1, <1>12 DEF substitutions
  <2> QED BY <1>2, <1>8, <1>9, <1>10, <2>1
          DEF PipelineInv, Listed, Earlier, RemovedByLater
<1> QED BY <1>11, <1>12

(* Steps of execute that change neither the children nor the <( ).           *)
LEMMA ShellOnly ==
  ASSUME PipelineInv, pc # "lex", pc' \in {"open", "stage", "fork", "wait", "clean", "done", "exited"},
         i' \in 1 .. N, fd' \in [Descriptors -> Objects], ShellHolds',
         UNCHANGED <<programs, redirects, wanted, child, sub, fifo, cleanup>>
  PROVE  PipelineInv'
<1>1. N' = N
  BY DEF N
<1>2. Typed'
  BY <1>1 DEF PipelineInv, Typed
<1>3. ChildrenHold' /\ Listed' /\ Earlier' /\ RemovedByLater'
  BY <1>1 DEF PipelineInv, ChildrenHold, ChildHolds, Listed, Earlier, RemovedByLater
<1> QED BY <1>2, <1>3 DEF PipelineInv

LEMMA SubstituteFailsStep == ASSUME PipelineInv, SubstituteFails PROVE PipelineInv'
<1>1. /\ pc = "lex" /\ pc' = "exited" /\ fd' = [d \in Descriptors |-> None]
      /\ UNCHANGED <<programs, redirects, wanted, i, child, sub, fifo, cleanup>>
  BY DEF SubstituteFails, command, substitutions
<1>2. Typed' /\ N' = N
  BY <1>1, ObjectTypes DEF PipelineInv, Typed, N
<1>3. ShellHolds'
  BY <1>1 DEF ShellHolds
<1>4. ChildrenHold' /\ Listed' /\ Earlier' /\ RemovedByLater'
  BY <1>1, <1>2 DEF PipelineInv, ChildrenHold, ChildHolds, Listed, Earlier, RemovedByLater
<1> QED BY <1>2, <1>3, <1>4 DEF PipelineInv

LEMMA OpenInputFailsStep ==
  ASSUME PipelineInv, OpenInputFails, UNCHANGED substitutions PROVE PipelineInv'
<1>1. /\ pc = "open" /\ pc' = "done"
      /\ UNCHANGED <<programs, redirects, wanted, i, fd, child, sub, fifo, cleanup>>
  BY DEF OpenInputFails, command, substitutions
<1>2. ShellHolds' /\ i' \in 1 .. N /\ fd' \in [Descriptors -> Objects]
  BY <1>1 DEF PipelineInv, ShellHolds, Typed
<1> QED BY <1>1, <1>2, ShellOnly

LEMMA StageStep == ASSUME PipelineInv, Stage, UNCHANGED substitutions PROVE PipelineInv'
<1>1. /\ pc = "stage" /\ pc' = "fork"
      /\ UNCHANGED <<programs, redirects, wanted, i, child, sub, fifo, cleanup>>
  BY DEF Stage, command, substitutions
<1>2. Typed /\ ShellHolds /\ i \in Nat /\ N \in Nat /\ N' = N
  BY <1>1 DEF PipelineInv, Typed, N
<1> DEFINE out == IF ~Last THEN WriteEnd(i)
                  ELSE IF "out" \in redirects THEN File("out") ELSE fd["tmpout"]
           in == IF Last THEN None ELSE ReadEnd(i)
<1>3. PICK e \in {File("err"), fd["2"]} :
        fd' = [fd EXCEPT !["0"] = fd["fdin"], !["1"] = out, !["2"] = e, !["fdin"] = in]
  BY DEF Stage
<1>4. /\ fd["tmpout"] = Tty /\ fd["fdin"] \in Objects /\ ~Writes(fd["fdin"])
      /\ e \in Objects /\ ~Writes(e)
  BY <1>1, <1>2, ObjectTypes DEF Typed, ShellHolds, Descriptors, Saved
<1>5. /\ out \in Objects /\ in \in Objects /\ ~Writes(in)
      /\ IF Last THEN ~Writes(out) ELSE out = WriteEnd(i)
  BY <1>2, <1>4, ObjectTypes
<1>6. /\ fd' \in [Descriptors -> Objects]
      /\ fd'["0"] = fd["fdin"] /\ fd'["1"] = out /\ fd'["2"] = e /\ fd'["fdin"] = in
      /\ \A d \in Descriptors \ {"0", "1", "2", "fdin"} : fd'[d] = fd[d]
  BY <1>2, <1>3, <1>4, <1>5 DEF Typed, Descriptors
<1>7. in = IF Last THEN None ELSE ReadEnd(i)
  OBVIOUS
<1> HIDE DEF out, in
<1>8. ShellHolds'
  <2>1. /\ \A d \in Saved : fd'[d] = Tty
        /\ fd'["fdout"] = None /\ fd'["file"] = None
    BY <1>1, <1>2, <1>6 DEF ShellHolds, Descriptors, Saved
  <2>2. \A d \in Descriptors \ {"1"} : ~Writes(fd'[d])
    BY <1>1, <1>2, <1>4, <1>5, <1>6 DEF ShellHolds, Descriptors
  <2>3. i > 1 => fd'["0"] = ReadEnd(i - 1)
    BY <1>1, <1>2, <1>6 DEF ShellHolds
  <2>4. Last' <=> Last
    BY <1>1, <1>2 DEF Last
  <2> QED BY <1>1, <1>5, <1>6, <1>7, <2>1, <2>2, <2>3, <2>4 DEF ShellHolds
<1>9. i' \in 1 .. N
  BY <1>1, <1>2 DEF Typed
<1> QED BY <1>1, <1>6, <1>8, <1>9, ShellOnly

(* The three dup2 and the closes bring back what was there before.           *)
LEMMA PutsBack ==
  ASSUME NEW f \in [Descriptors -> Objects], \A d \in Saved : f[d] = Tty,
         f["fdin"] = None, f["fdout"] = None, f["file"] = None
  PROVE  PutBack(f) = AsBefore /\ PutBack(f) \in [Descriptors -> Objects]
<1>1. PutBack(f) = AsBefore
  BY DEF PutBack, AsBefore, Descriptors, Saved
<1>2. AsBefore \in [Descriptors -> Objects]
  BY ObjectTypes DEF AsBefore
<1> QED BY <1>1, <1>2

LEMMA StageFailsStep == ASSUME PipelineInv, StageFails, UNCHANGED substitutions PROVE PipelineInv'
<1>1. /\ pc = "stage" /\ pc' = "done" /\ fd' = PutBack([fd EXCEPT !["fdin"] = None])
      /\ UNCHANGED <<programs, redirects, wanted, i, child, sub, fifo, cleanup>>
  BY DEF StageFails, command, substitutions
<1> DEFINE f == [fd EXCEPT !["fdin"] = None]
<1>2. /\ f \in [Descriptors -> Objects] /\ \A d \in Saved : f[d] = Tty
      /\ f["fdin"] = None /\ f["fdout"] = None /\ f["file"] = None
  BY <1>1, ObjectTypes DEF PipelineInv, Typed, ShellHolds, Descriptors, Saved
<1> HIDE DEF f
<1>3. fd' = AsBefore /\ fd' \in [Descriptors -> Objects]
  BY <1>1, <1>2, PutsBack DEF f
<1>4. ShellHolds' /\ i' \in 1 .. N
  BY <1>1, <1>3 DEF PipelineInv, Typed, ShellHolds
<1> QED BY <1>1, <1>3, <1>4, ShellOnly

(* After the fork, or without it: on to the next simple command or the wait. *)
LEMMA AdvanceHolds ==
  ASSUME PipelineInv, pc = "fork", Advance, UNCHANGED <<programs, fd>>
  PROVE  ShellHolds' /\ i' \in 1 .. N /\ pc' \in {"stage", "wait"}
<1>1. Typed /\ ShellHolds /\ N' = N /\ i \in 1 .. N /\ N \in Nat
  BY DEF PipelineInv, Typed, N
<1>2. CASE Last
  <2>1. pc' = "wait" /\ i' = i /\ Last'
    BY <1>1, <1>2 DEF Advance, Last
  <2> QED BY <1>1, <1>2, <2>1 DEF ShellHolds
<1>3. CASE ~Last
  <2>1. pc' = "stage" /\ i' = i + 1 /\ i' \in 1 .. N /\ i' - 1 = i /\ i' # 1
    BY <1>1, <1>3 DEF Advance, Last
  <2> QED BY <1>1, <1>3, <2>1 DEF ShellHolds
<1> QED BY <1>2, <1>3

LEMMA ForkStep == ASSUME PipelineInv, Fork, UNCHANGED substitutions PROVE PipelineInv'
<1> DEFINE c == [program |-> programs[i], stage |-> i, fd |-> fd, runs |-> TRUE,
                 left |-> Output, holds |-> FALSE, arg |-> 0]
<1>1. /\ pc = "fork" /\ child' = Append(child, c) /\ Advance
      /\ UNCHANGED <<programs, redirects, wanted, fd, sub, fifo, cleanup>>
  BY DEF Fork, command, substitutions
<1>2. Typed /\ ShellHolds /\ ChildrenHold /\ N' = N /\ i \in 1 .. N /\ N \in Nat
  BY <1>1 DEF PipelineInv, Typed, N
<1>3. ShellHolds' /\ i' \in 1 .. N /\ pc' \in {"stage", "wait"}
  BY <1>1, AdvanceHolds
<1>4. c \in Kid
  BY <1>2, PipelineAssumption DEF Typed, N, Kid
<1>5. c.stage = i /\ c.fd = fd
  OBVIOUS
<1> HIDE DEF c
<1>6. child' \in Seq(Kid) /\ DOMAIN child' = DOMAIN child \cup {Len(child) + 1}
      /\ child'[Len(child) + 1] = c /\ \A k \in DOMAIN child : child'[k] = child[k]
  BY <1>1, <1>2, <1>4 DEF Typed
<1>7. Typed'
  BY <1>1, <1>2, <1>3, <1>6 DEF Typed
<1>8. ChildHolds(c)
  BY <1>1, <1>2, <1>5 DEF ShellHolds, ChildHolds, Last
<1>9. ChildrenHold'
  <2>1. \A k \in DOMAIN child' : ChildHolds(child'[k])
    BY <1>2, <1>6, <1>8 DEF ChildrenHold
  <2> QED BY <1>2, <2>1 DEF ChildrenHold, ChildHolds
<1>10. Listed' /\ Earlier'
  BY <1>1, <1>3 DEF PipelineInv, Listed, Earlier
<1>11. RemovedByLater'
  BY <1>1 DEF PipelineInv, RemovedByLater
<1> QED BY <1>3, <1>7, <1>9, <1>10, <1>11 DEF PipelineInv

LEMMA ForkFailsStep == ASSUME PipelineInv, ForkFails, UNCHANGED substitutions PROVE PipelineInv'
<1>1. /\ pc = "fork" /\ Advance
      /\ UNCHANGED <<programs, redirects, wanted, fd, child, sub, fifo, cleanup>>
  BY DEF ForkFails, command, substitutions
<1>2. ShellHolds' /\ i' \in 1 .. N /\ pc' \in {"stage", "wait"}
  BY <1>1, AdvanceHolds
<1>3. fd' \in [Descriptors -> Objects]
  BY <1>1 DEF PipelineInv, Typed
<1> QED BY <1>1, <1>2, <1>3, ShellOnly

LEMMA WaitStep == ASSUME PipelineInv, Wait, UNCHANGED substitutions PROVE PipelineInv'
<1>1. /\ pc = "wait" /\ pc' = "clean" /\ fd' = PutBack(fd)
      /\ UNCHANGED <<programs, redirects, wanted, i, child, sub, fifo, cleanup>>
  BY DEF Wait, Return, command, substitutions
<1>2. fd' = AsBefore /\ fd' \in [Descriptors -> Objects]
  BY <1>1, PutsBack DEF PipelineInv, Typed, ShellHolds
<1>3. ShellHolds' /\ i' \in 1 .. N
  BY <1>1, <1>2 DEF PipelineInv, Typed, ShellHolds
<1> QED BY <1>1, <1>2, <1>3, ShellOnly

LEMMA CleanStep == ASSUME PipelineInv, Clean PROVE PipelineInv'
<1>1. pc = "clean" /\ UNCHANGED <<programs, redirects, wanted, i, fd, child, sub>>
  BY DEF Clean, command
<1>2. CASE cleanup = <<>> /\ pc' = "done" /\ UNCHANGED <<fifo, cleanup>>
  <2>1. ShellHolds' /\ i' \in 1 .. N /\ fd' \in [Descriptors -> Objects]
    BY <1>1, <1>2 DEF PipelineInv, Typed, ShellHolds
  <2> QED BY <1>1, <1>2, <2>1, ShellOnly
<1>3. CASE /\ cleanup # <<>> /\ sub[Head(cleanup)].does = "ended" /\ UNCHANGED pc
           /\ fifo' = fifo \ {Head(cleanup)} /\ cleanup' = Tail(cleanup)
  <2>1. /\ Range(cleanup') \subseteq Range(cleanup) /\ cleanup' \in Seq(Nat)
        /\ Range(cleanup) \ {Head(cleanup)} \subseteq Range(cleanup')
    BY <1>3, RangeTail DEF PipelineInv, Typed
  <2>2. N' = N
    BY <1>1 DEF N
  <2>3. Typed'
    BY <1>1, <1>3, <2>1, <2>2 DEF PipelineInv, Typed
  <2>4. ShellHolds' /\ ChildrenHold'
    BY <1>1, <1>3, <2>2 DEF PipelineInv, ShellHolds, ChildrenHold, ChildHolds, Last
  <2>5. Listed' /\ Earlier'
    BY <1>1, <1>3, <2>1 DEF PipelineInv, Listed, Earlier
  <2>6. RemovedByLater'
    BY <1>1, <1>3 DEF PipelineInv, RemovedByLater
  <2> QED BY <2>3, <2>4, <2>5, <2>6 DEF PipelineInv
<1> QED BY <1>2, <1>3 DEF Clean

LEMMA ExecuteStep == ASSUME PipelineInv, Execute PROVE PipelineInv'
BY OpenInputStep, CleanStep, SubstituteStep, SubstituteFailsStep, OpenInputFailsStep, StageStep, StageFailsStep,
   ForkStep, ForkFailsStep, WaitStep DEF Execute

-----------------------------------------------------------------------------
(* The steps of the shell of a <( ).                                         *)

(* Its does changes; when it removes FIFOs, they are those of earlier <( ).  *)
LEMMA ShellStep == ASSUME PipelineInv, NEW s \in DOMAIN sub, Shell(s) PROVE PipelineInv'
<1>1. UNCHANGED <<programs, redirects, wanted, pc, i, fd, child, cleanup>>
  BY DEF Shell, command
<1>2. Typed /\ N' = N /\ sub[s] \in SubShell /\ sub \in Seq(SubShell)
  BY <1>1 DEF PipelineInv, Typed, N
<1>3. ShellHolds' /\ ChildrenHold'
  BY <1>1, <1>2 DEF PipelineInv, ShellHolds, ChildrenHold, ChildHolds, Last
<1>4. ASSUME NEW c \in SubShell, sub' = [sub EXCEPT ![s] = c], c.cleanup = sub[s].cleanup,
             sub[s].does # "open", c.does # "open", sub[s].does # "ended",
             fifo' \subseteq fifo,
             \A a \in fifo : a \notin fifo' => /\ sub[s].does = "clean" /\ c.does = "ended"
                                               /\ a \in Range(sub[s].cleanup)
      PROVE  PipelineInv'
  <2>1. /\ sub' \in Seq(SubShell) /\ DOMAIN sub' = DOMAIN sub /\ sub'[s] = c
        /\ \A a \in DOMAIN sub : a # s => sub'[a] = sub[a]
    BY <1>2, <1>4
  <2>2. Typed'
    BY <1>1, <1>2, <2>1 DEF Typed
  <2>3. Listed'
    BY <1>1, <1>4, <2>1 DEF PipelineInv, Listed
  <2>4. Earlier'
    BY <1>1, <1>4, <2>1 DEF PipelineInv, Earlier
  <2>5. RemovedByLater'
    <3> SUFFICES ASSUME NEW a \in DOMAIN sub', sub'[a].does = "open", a \notin fifo'
                 PROVE  \E t \in DOMAIN sub' : t > a /\ sub'[t].does = "ended"
      BY DEF RemovedByLater
    <3>1. a \in DOMAIN sub /\ sub[a].does = "open"
      BY <1>4, <2>1
    <3>2. CASE a \notin fifo
      <4>1. PICK t \in DOMAIN sub : t > a /\ sub[t].does = "ended"
        BY <3>1, <3>2 DEF PipelineInv, RemovedByLater
      <4> QED BY <1>4, <2>1, <4>1
    <3>3. CASE a \in fifo
      <4>1. sub[s].does = "clean" /\ a \in Range(sub[s].cleanup) /\ c.does = "ended"
        BY <1>4, <3>3
      <4>2. a < s /\ a \in Nat /\ s \in Nat
        <5>1. s \in Nat /\ Range(sub[s].cleanup) \subseteq 1 .. s - 1
          BY <1>2 DEF PipelineInv, Earlier
        <5> QED BY <4>1, <5>1
      <4>3. s > a
        BY <4>2
      <4> QED BY <2>1, <4>1, <4>3
    <3> QED BY <3>2, <3>3
  <2> QED BY <1>3, <2>2, <2>3, <2>4, <2>5 DEF PipelineInv
<1>5. ASSUME sub[s].does = "write", sub[s].left > 0, sub' = [sub EXCEPT ![s].left = @ - 1],
             UNCHANGED fifo
      PROVE  PipelineInv'
  <2> DEFINE c == [sub[s] EXCEPT !.left = sub[s].left - 1]
  <2>1. c \in SubShell /\ c.cleanup = sub[s].cleanup /\ c.does = "write"
    <3>1. sub[s].left - 1 \in Nat
      BY <1>2, <1>5 DEF SubShell
    <3> QED BY <1>2, <1>5, <3>1 DEF SubShell
  <2>2. sub' = [sub EXCEPT ![s] = c]
    BY <1>5
  <2> HIDE DEF c
  <2> QED BY <1>4, <1>5, <2>1, <2>2
<1>6. ASSUME sub[s].does = "write", sub' = [sub EXCEPT ![s].does = "clean"], UNCHANGED fifo
      PROVE  PipelineInv'
  <2> DEFINE c == [sub[s] EXCEPT !.does = "clean"]
  <2>1. c \in SubShell /\ c.cleanup = sub[s].cleanup /\ c.does = "clean"
    BY <1>2 DEF SubShell
  <2>2. sub' = [sub EXCEPT ![s] = c]
    BY <1>6
  <2> HIDE DEF c
  <2> QED BY <1>4, <1>6, <2>1, <2>2
<1>7. ASSUME sub[s].does = "clean", sub' = [sub EXCEPT ![s].does = "ended"],
             fifo' = fifo \ Range(sub[s].cleanup)
      PROVE  PipelineInv'
  <2> DEFINE c == [sub[s] EXCEPT !.does = "ended"]
  <2>1. c \in SubShell /\ c.cleanup = sub[s].cleanup /\ c.does = "ended"
    BY <1>2 DEF SubShell
  <2>2. sub' = [sub EXCEPT ![s] = c]
    BY <1>7
  <2> HIDE DEF c
  <2> QED BY <1>4, <1>7, <2>1, <2>2
<1> QED BY <1>5, <1>6, <1>7 DEF Shell

-----------------------------------------------------------------------------
(* The steps of the children.                                                *)

(* Only what the program opens itself changes, and which FIFOs are open.     *)
KidsKeepEnds ==
  /\ child' \in Seq(Kid) /\ DOMAIN child' = DOMAIN child
  /\ \A j \in DOMAIN child : /\ child'[j].stage = child[j].stage
                             /\ \A d \in Descriptors \ {"file"} : child'[j].fd[d] = child[j].fd[d]
                             /\ ~Writes(child'[j].fd["file"])
OnlyOpened ==
  /\ sub' \in Seq(SubShell) /\ DOMAIN sub' = DOMAIN sub
  /\ \A b \in DOMAIN sub : /\ sub'[b].cleanup = sub[b].cleanup
                           /\ sub'[b].does = "ended" <=> sub[b].does = "ended"
                           /\ sub'[b].does = "open" => sub[b].does = "open"
OthersKept == UNCHANGED <<programs, redirects, wanted, pc, i, fd, cleanup, fifo>>

LEMMA KidsOnly ==
  ASSUME PipelineInv, KidsKeepEnds, OnlyOpened, OthersKept
  PROVE  PipelineInv'
<1> USE DEF KidsKeepEnds, OnlyOpened, OthersKept
<1>1. N' = N
  BY DEF N
<1>2. Typed'
  BY <1>1 DEF PipelineInv, Typed
<1>3. ShellHolds' /\ Listed'
  BY <1>1 DEF PipelineInv, ShellHolds, Last, Listed
<1>4. ChildrenHold'
  <2>1. ASSUME NEW j \in DOMAIN child PROVE ChildHolds(child'[j])
    <3>1. ChildHolds(child[j])
      BY DEF PipelineInv, ChildrenHold
    <3>2. /\ child'[j].stage = child[j].stage
          /\ child'[j].fd["0"] = child[j].fd["0"] /\ child'[j].fd["1"] = child[j].fd["1"]
          /\ \A d \in Descriptors \ {"1"} : ~Writes(child'[j].fd[d])
      BY <3>1 DEF ChildHolds, Descriptors
    <3> QED BY <3>1, <3>2 DEF ChildHolds
  <2> QED BY <1>1, <2>1 DEF ChildrenHold, ChildHolds
<1>5. Earlier'
  <2>1. pc = "lex" => child' = <<>>
    <3> SUFFICES ASSUME pc = "lex" PROVE child' = <<>>
      OBVIOUS
    <3>1. DOMAIN child' = {}
      BY DEF PipelineInv, Earlier
    <3> QED BY <3>1
  <2> QED BY <2>1 DEF PipelineInv, Earlier
<1>6. RemovedByLater'
  BY DEF PipelineInv, RemovedByLater
<1> QED BY <1>2, <1>3, <1>4, <1>5, <1>6 DEF PipelineInv

LEMMA QuietStep ==
  ASSUME PipelineInv, Quiet(child'), UNCHANGED <<command, pc, i, fd, substitutions>>
  PROVE  PipelineInv'
<1>1. UNCHANGED <<programs, redirects, wanted, sub, fifo, cleanup>>
  BY DEF command, substitutions
<1>2. sub' \in Seq(SubShell)
  BY <1>1 DEF PipelineInv, Typed
<1>4. \A j \in DOMAIN child : ~Writes(child'[j].fd["file"])
  BY DEF PipelineInv, ChildrenHold, ChildHolds, Quiet, Descriptors
<1>5. KidsKeepEnds /\ OnlyOpened /\ OthersKept
  BY <1>1, <1>2, <1>4 DEF Quiet, KidsKeepEnds, OnlyOpened, OthersKept
<1> QED BY <1>5, KidsOnly

LEMMA PutQuiet ==
  ASSUME Typed, NEW k \in DOMAIN child, NEW next, Quiet(next), Put(k, next)
  PROVE  Quiet(child') /\ UNCHANGED <<command, pc, i, fd>>
<1>1. Quiet([child EXCEPT ![k].runs = FALSE])
  BY QuietChanges
<1>2. child' = next \/ child' = [child EXCEPT ![k].runs = FALSE]
  BY DEF Put, End
<1> QED BY <1>1, <1>2 DEF Put

LEMMA GetQuiet ==
  ASSUME Typed, NEW k \in DOMAIN child, NEW next, Quiet(next), Get(k, next)
  PROVE  Quiet(child') /\ UNCHANGED <<command, pc, i, fd>>
<1>1. Quiet([child EXCEPT ![k].runs = FALSE])
  BY QuietChanges
<1>2. child' = next \/ child' = [child EXCEPT ![k].runs = FALSE]
  BY DEF Get, End
<1> QED BY <1>1, <1>2 DEF Get

LEMMA ChildStep == ASSUME PipelineInv, NEW k \in DOMAIN child, Child(k) PROVE PipelineInv'
<1>1. Typed /\ UNCHANGED substitutions
  BY DEF Child, PipelineInv
<1>2. /\ Quiet(child) /\ Quiet([child EXCEPT ![k].runs = FALSE])
      /\ Quiet([child EXCEPT ![k].holds = TRUE]) /\ Quiet([child EXCEPT ![k].holds = FALSE])
      /\ child[k].left > 0 => Quiet([child EXCEPT ![k].left = @ - 1])
  BY <1>1, QuietChanges
<1>3. CASE child[k].left > 0 /\ Put(k, [child EXCEPT ![k].left = @ - 1])
  BY <1>1, <1>2, <1>3, PutQuiet, QuietStep
<1>4. CASE Put(k, child)
  BY <1>1, <1>2, <1>4, PutQuiet, QuietStep
<1>5. CASE Get(k, [child EXCEPT ![k].holds = TRUE])
  BY <1>1, <1>2, <1>5, GetQuiet, QuietStep
<1>6. CASE Put(k, [child EXCEPT ![k].holds = FALSE])
  BY <1>1, <1>2, <1>6, PutQuiet, QuietStep
<1>7. CASE Get(k, [child EXCEPT ![k].runs = FALSE])
  BY <1>1, <1>2, <1>7, GetQuiet, QuietStep
<1>8. CASE End(k) /\ UNCHANGED <<command, pc, i, fd, ret, full>>
  BY <1>1, <1>2, <1>8, QuietStep DEF End
<1> QED BY <1>3, <1>4, <1>5, <1>6, <1>7, <1>8 DEF Child

(* join opens FIFOs and closes them.                                         *)
LEMMA JoinStep == ASSUME PipelineInv, NEW k \in DOMAIN child, Joins(k) PROVE PipelineInv'
<1>1. Typed /\ child[k] \in Kid /\ child \in Seq(Kid) /\ wanted \in Nat
      /\ child[k].fd \in [Descriptors -> Objects] /\ sub \in Seq(SubShell)
  <2>1. Typed /\ child[k] \in Kid
    BY DEF PipelineInv, Typed
  <2> QED BY <2>1 DEF Typed, Kid
<1>2. UNCHANGED <<command, pc, i, fd>>
  BY DEF Joins, Join, Put
<1>3. UNCHANGED <<programs, redirects, wanted>>
  BY <1>2 DEF command
<1>4. /\ Quiet([child EXCEPT ![k].runs = FALSE])
      /\ Quiet([child EXCEPT ![k].holds = TRUE]) /\ Quiet([child EXCEPT ![k].holds = FALSE])
  BY <1>1, QuietChanges
<1>5. \A j \in DOMAIN child : ~Writes(child[j].fd["file"])
  BY DEF PipelineInv, ChildrenHold, ChildHolds, Descriptors
<1>6. ASSUME NEW c \in Kid, child' = [child EXCEPT ![k] = c], c.stage = child[k].stage,
             NEW file \in Objects, ~Writes(file), c.fd = [child[k].fd EXCEPT !["file"] = file]
      PROVE  KidsKeepEnds
  <2>1. /\ child' \in Seq(Kid) /\ DOMAIN child' = DOMAIN child /\ child'[k] = c
        /\ \A j \in DOMAIN child : j # k => child'[j] = child[j]
    BY <1>1, <1>6
  <2>2. /\ \A d \in Descriptors \ {"file"} : c.fd[d] = child[k].fd[d]
        /\ ~Writes(c.fd["file"])
    BY <1>1, <1>6 DEF Descriptors
  <2> QED BY <1>5, <1>6, <2>1, <2>2 DEF KidsKeepEnds
<1>7. ASSUME NEW a \in 1 .. wanted, Opened(a),
             child' = [child EXCEPT ![k].fd["file"] = ReadEnd(Fifo(a)), ![k].arg = a]
      PROVE  PipelineInv'
  <2>1. /\ a \in DOMAIN sub /\ sub' \in Seq(SubShell) /\ DOMAIN sub' = DOMAIN sub
        /\ sub[a].does = "open" /\ sub'[a].does = "write"
        /\ \A b \in DOMAIN sub : sub'[b].cleanup = sub[b].cleanup
        /\ \A b \in DOMAIN sub : b # a => sub'[b] = sub[b]
        /\ UNCHANGED <<fifo, cleanup>>
    BY <1>7, OpenedType
  <2> DEFINE file == ReadEnd(Fifo(a))
             c == [child[k] EXCEPT !.fd = [child[k].fd EXCEPT !["file"] = file], !.arg = a]
  <2>2. file \in Objects /\ ~Writes(file)
    <3>1. Fifo(a) \in Nat
      BY <1>1 DEF Fifo, Typed
    <3> QED BY <3>1, ObjectTypes
  <2>3. child' = [child EXCEPT ![k] = c]
    BY <1>7
  <2>4. a \in Nat
    BY <1>1
  <2> HIDE DEF file
  <2>5. c \in Kid /\ c.stage = child[k].stage /\ c.fd = [child[k].fd EXCEPT !["file"] = file]
    BY <1>1, <2>2, <2>4 DEF Kid
  <2> HIDE DEF c
  <2>6. KidsKeepEnds
    BY <1>6, <2>2, <2>3, <2>5
  <2>7. \A b \in DOMAIN sub : /\ sub'[b].does = "ended" <=> sub[b].does = "ended"
                              /\ sub'[b].does = "open" => sub[b].does = "open"
    BY <2>1
  <2>8. OnlyOpened
    BY <2>1, <2>7 DEF OnlyOpened
  <2>9. OthersKept
    BY <1>2, <1>3, <2>1 DEF OthersKept
  <2> QED BY <2>6, <2>8, <2>9, KidsOnly
<1>8. ASSUME NEW a \in 1 .. wanted, child' = [child EXCEPT ![k].arg = a], UNCHANGED substitutions
      PROVE  PipelineInv'
  <2> DEFINE c == [child[k] EXCEPT !.arg = a]
  <2>1. c \in Kid /\ c.stage = child[k].stage /\ c.fd = child[k].fd
    <3>1. a \in Nat
      BY <1>1
    <3> QED BY <1>1, <3>1 DEF Kid
  <2>2. child' = [child EXCEPT ![k] = c]
    BY <1>8
  <2> HIDE DEF c
  <2>3. Quiet(child')
    BY <1>1, <2>1, <2>2 DEF Quiet
  <2> QED BY <1>2, <1>8, <2>3, QuietStep
<1>9. ASSUME child' = [child EXCEPT ![k].fd["file"] = None], UNCHANGED substitutions
      PROVE  PipelineInv'
  <2> DEFINE c == [child[k] EXCEPT !.fd = [child[k].fd EXCEPT !["file"] = None]]
  <2>1. None \in Objects /\ ~Writes(None)
    BY ObjectTypes
  <2>2. c \in Kid /\ c.stage = child[k].stage /\ c.fd = [child[k].fd EXCEPT !["file"] = None]
    BY <1>1, <2>1 DEF Kid
  <2>3. child' = [child EXCEPT ![k] = c]
    BY <1>1, <1>9
  <2> HIDE DEF c
  <2>4. KidsKeepEnds
    BY <1>6, <2>1, <2>2, <2>3
  <2>5. UNCHANGED <<sub, fifo, cleanup>>
    BY <1>9 DEF substitutions
  <2>6. OnlyOpened
    BY <1>1, <2>5 DEF OnlyOpened
  <2>7. OthersKept
    BY <1>2, <1>3, <2>5 DEF OthersKept
  <2> QED BY <2>4, <2>6, <2>7, KidsOnly
<1>10. CASE End(k) /\ UNCHANGED substitutions
  BY <1>2, <1>4, <1>10, QuietStep DEF End
<1>11. CASE child' = [child EXCEPT ![k].holds = TRUE] /\ UNCHANGED substitutions
  BY <1>2, <1>4, <1>11, QuietStep
<1>12. CASE Put(k, [child EXCEPT ![k].holds = FALSE]) /\ UNCHANGED substitutions
  BY <1>1, <1>4, <1>12, PutQuiet, QuietStep
<1> QED BY <1>7, <1>8, <1>9, <1>10, <1>11, <1>12 DEF Joins, Join

LEMMA PipelineNext == ASSUME PipelineInv, [Next]_vars PROVE PipelineInv'
<1>1. CASE UNCHANGED vars
  BY <1>1 DEF vars, PipelineInv, Typed, N, ShellHolds, Last, ChildrenHold, ChildHolds, Listed,
              Earlier, RemovedByLater
<1>2. CASE Next
  BY <1>2, ExecuteStep, ChildStep, JoinStep, ShellStep DEF Next
<1> QED BY <1>1, <1>2

-----------------------------------------------------------------------------
(* Throughout a command the shell and its children hold the ends of pipes    *)
(* that their places in the pipeline call for, and PROCSUB_CLEANUP has every *)
(* FIFO that is left.                                                        *)
THEOREM PipelineInvariant == Spec => []PipelineInv
<1>1. Init => PipelineInv
  BY PipelineInit
<1>2. PipelineInv /\ [Next]_vars => PipelineInv'
  BY PipelineNext
<1> QED BY <1>1, <1>2, PTL DEF Spec

(* The prompt has 0, 1 and 2 back and nothing else open.                     *)
THEOREM DescriptorsAreRestored == Spec => []DescriptorsRestored
<1>1. PipelineInv => DescriptorsRestored
  BY DEF PipelineInv, ShellHolds, DescriptorsRestored, AsBefore
<1> QED BY <1>1, PipelineInvariant, PTL

(* Neighbours share a pipe, and only its writer keeps its write end.         *)
THEOREM PipesAreConnected == Spec => []PipesConnect
<1>1. PipelineInv => PipesConnect
  <2> SUFFICES ASSUME PipelineInv PROVE PipesConnect
    OBVIOUS
  <2>1. N \in Nat /\ i \in 1 .. N /\ fd \in [Descriptors -> Objects]
    BY DEF PipelineInv, Typed
  <2>2. ASSUME NEW j \in DOMAIN child, NEW k \in DOMAIN child,
               child[k].stage = child[j].stage + 1
        PROVE  /\ child[j].fd["1"] = WriteEnd(child[j].stage)
               /\ child[k].fd["0"] = ReadEnd(child[j].stage)
    <3>1. ChildHolds(child[j]) /\ ChildHolds(child[k])
      BY DEF PipelineInv, ChildrenHold
    <3>2. child[j].stage \in 1 .. N /\ child[j].stage # N /\ child[k].stage > 1
          /\ child[k].stage - 1 = child[j].stage
      BY <2>1, <2>2, <3>1 DEF ChildHolds
    <3> QED BY <3>1, <3>2 DEF ChildHolds
  <2>3. ASSUME NEW s \in 1 .. N, NEW k \in DOMAIN child, WriteEnd(s) \in Range(child[k].fd)
        PROVE  child[k].stage = s
    <3>1. ChildHolds(child[k]) /\ child[k].fd \in [Descriptors -> Objects]
      <4>1. child[k] \in Kid
        BY DEF PipelineInv, Typed
      <4> QED BY <4>1 DEF PipelineInv, ChildrenHold, Kid
    <3>2. PICK d \in Descriptors : child[k].fd[d] = WriteEnd(s)
      BY <2>3, <3>1 DEF Range
    <3>3. d = "1"
      BY <3>1, <3>2, ObjectTypes DEF ChildHolds
    <3>4. WriteEnd(child[k].stage) = WriteEnd(s)
      BY <3>1, <3>2, <3>3, ObjectTypes DEF ChildHolds
    <3> QED BY <3>4 DEF WriteEnd
  <2>4. ASSUME NEW s \in 1 .. N, WriteEnd(s) \in Range(fd)
        PROVE  i = s \/ (pc = "stage" /\ i = s + 1)
    <3>1. PICK d \in Descriptors : fd[d] = WriteEnd(s)
      BY <2>1, <2>4 DEF Range
    <3>2. Writes(fd[d])
      BY <3>1, ObjectTypes
    <3>3. pc \in {"stage", "fork", "wait"}
      BY <3>2, ObjectTypes DEF PipelineInv, Typed, ShellHolds, AsBefore
    <3>4. d = "1"
      BY <3>2, <3>3 DEF PipelineInv, ShellHolds
    <3>5. CASE pc = "stage"
      <4>1. WriteEnd(i - 1) = WriteEnd(s)
        BY <3>1, <3>2, <3>4, <3>5 DEF PipelineInv, ShellHolds
      <4>2. i - 1 = s
        BY <4>1 DEF WriteEnd
      <4> QED BY <2>1, <3>5, <4>2
    <3>6. CASE pc = "fork"
      <4>1. WriteEnd(i) = WriteEnd(s)
        BY <3>1, <3>2, <3>4, <3>6 DEF PipelineInv, ShellHolds
      <4> QED BY <4>1 DEF WriteEnd
    <3>7. CASE pc = "wait"
      BY <3>2, <3>4, <3>7 DEF PipelineInv, ShellHolds
    <3> QED BY <3>3, <3>5, <3>6, <3>7
  <2> QED BY <2>2, <2>3, <2>4 DEF PipesConnect
<1> QED BY <1>1, PipelineInvariant, PTL

(* When execute has come to its end no FIFO and no shell of a <( ) is left;  *)
(* and only the shell of a later <( ) removes a FIFO that nobody has opened. *)
THEOREM FifosAreRemoved == Spec => []FifosRemoved
<1>1. PipelineInv => FifosRemoved
  <2> SUFFICES ASSUME PipelineInv PROVE FifosRemoved
    OBVIOUS
  <2>1. ASSUME cleanup = <<>> PROVE fifo = {} /\ \A s \in DOMAIN sub : sub[s].does = "ended"
    <3>1. Range(cleanup) = {}
      BY <2>1 DEF Range
    <3> QED BY <3>1 DEF PipelineInv, Listed
  <2> QED BY <2>1 DEF PipelineInv, RemovedByLater, FifosRemoved
<1> QED BY <1>1, PipelineInvariant, PTL
=============================================================================
