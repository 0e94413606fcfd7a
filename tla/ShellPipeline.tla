---------------------------- MODULE ShellPipeline ----------------------------
(* The descriptors of one command of the lab3 shell: Command::execute saves  *)
(* 0, 1 and 2, opens the redirections, makes a pipe between any two simple   *)
(* commands, forks them one by one, waits for the last, and puts 0, 1 and 2  *)
(* back (command.cc). A child inherits every descriptor the shell has open   *)
(* when it is forked. Before that the lexer has made a FIFO and forked a     *)
(* shell that writes into it for every <( ) of the command (shell.l); the    *)
(* list PROCSUB_CLEANUP says what to wait for and to remove at the end.      *)
(* Pipes, FIFOs, end of file and SIGPIPE are modelled from how programs use  *)
(* them.                                                                     *)
EXTENDS Naturals, Sequences, FiniteSets, Functions

CONSTANTS Pipelines,  \* the commands: sequences of programs
          MaxSubstitutions,  \* bound: the <( ) of a command
          Failures,   \* the sets of calls that may fail while a command is run
          PipeSize,   \* what a pipe holds before a writer blocks
          Output      \* how much a "print" writes

(* print writes Output units and ends, yes writes for ever, cat copies until *)
(* end of file, head takes one unit and ends, true ends at once. join copies *)
(* the files of its arguments, one by one, which are what <( ) stands for,   *)
(* and nothing else: it does not read its input.                             *)
Programs == {"print", "yes", "cat", "head", "true", "join"}

(* Opening _inFile, _outFile and _errFile, execute's pipe and fork, and any  *)
(* of the calls that make a <( ). dup and dup2 do not fail here.             *)
Calls == {"in", "out", "err", "pipe", "fork", "procsub"}

ASSUME PipelineAssumption ==
  /\ \A p \in Pipelines : p \in Seq(Programs) /\ p # <<>>
  /\ Failures \subseteq SUBSET Calls
  /\ PipeSize \in Nat \ {0} /\ Output \in Nat /\ MaxSubstitutions \in Nat

VARIABLES programs, redirects, background,  \* the command in the table
          mayFail,   \* the calls that may fail this time
          pc, i,     \* where execute is, and in which simple command
          fd,        \* what each descriptor of the shell refers to
          ret,       \* the child forked last, 0 if none
          child,     \* the children: their program, descriptors and progress
          full,      \* units in each pipe, and in each FIFO
          wanted,    \* the command's <( )
          given,     \* the simple command each of them is an argument of
          sub,       \* their shells: what each does, has left, and has to clean up
          fifo,      \* the FIFOs that have a name
          cleanup    \* PROCSUB_CLEANUP

vars == <<programs, redirects, background, mayFail, pc, i, fd, ret, child, full,
          wanted, given, sub, fifo, cleanup>>
command == <<programs, redirects, background, mayFail, wanted, given>>
substitutions == <<sub, fifo, cleanup>>

None == <<"closed", 0>>
Tty == <<"tty", 0>>
File(f) == <<f, 0>>
ReadEnd(k) == <<"read", k>>
WriteEnd(k) == <<"write", k>>

(* The shell's 0, 1, 2 and its local variables that hold descriptors; "file" *)
(* is what a program opens itself.                                           *)
Descriptors == {"0", "1", "2", "tmpin", "tmpout", "tmperr", "fdin", "fdout", "file"}
Saved == {"tmpin", "tmpout", "tmperr"}

N == Len(programs)
Last == i = N
Running == {k \in DOMAIN child : child[k].runs}

(* FIFO s comes after the pipes. Its shell has it open from when a reader    *)
(* opens it to its own end.                                                  *)
Fifo(s) == N + s

(* The pipe has a reader, a writer: in the shell or in a running child.      *)
Held(object) == \/ object \in Range(fd)
                \/ \E s \in DOMAIN sub : /\ sub[s].does \in {"write", "clean"}
                                         /\ object = WriteEnd(Fifo(s))
                \/ \E k \in Running : object \in Range(child[k].fd)

Init == /\ programs \in Pipelines
        /\ redirects \in SUBSET {"in", "out", "err"}
        /\ background \in BOOLEAN
        /\ mayFail \in Failures
        /\ wanted \in 0 .. MaxSubstitutions
        /\ given \in [1 .. wanted -> 1 .. N]
        /\ \A s, t \in 1 .. wanted : s < t => given[s] <= given[t]
        /\ Range(given) = {k \in 1 .. N : programs[k] = "join"}
        /\ pc = IF wanted > 0 THEN "lex" ELSE "open"
        /\ i = 1
        /\ fd = [d \in Descriptors |-> IF d \in {"0", "1", "2"} THEN Tty ELSE None]
        /\ ret = 0
        /\ child = <<>>
        /\ full = [k \in 1 .. N + wanted |-> 0]
        /\ sub = <<>> /\ fifo = {} /\ cleanup = <<>>

(* The rule of "<(": mkfifo, and a shell that opens it, whose environment has*)
(* the list as it is now. Its command is a "print" of one unit, or of Output. *)
Substitute ==
  /\ pc = "lex"
  /\ \E s \in {Len(sub) + 1}, n \in {1, Output} :
       /\ sub' = Append(sub, [does |-> "open", left |-> n, cleanup |-> cleanup])
       /\ fifo' = fifo \cup {s}
       /\ cleanup' = Append(cleanup, s)
       /\ pc' = IF s = wanted THEN "open" ELSE "lex"
  /\ UNCHANGED <<command, i, fd, ret, child, full>>

(* mkdtemp, mkfifo, pipe or fork fails: the FIFO of this <( ) is removed and *)
(* the shell exits; those of the command's earlier ones are left behind.     *)
SubstituteFails ==
  /\ pc = "lex" /\ "procsub" \in mayFail
  /\ fd' = [d \in Descriptors |-> None]
  /\ pc' = "exited"
  /\ UNCHANGED <<command, i, ret, child, full, substitutions>>

-----------------------------------------------------------------------------
(* dup2(tmpin, 0) ... close(tmperr): the end of execute and of each of its   *)
(* early returns.                                                            *)
PutBack(f) == [d \in Descriptors |-> CASE d = "0" -> f["tmpin"]
                                       [] d = "1" -> f["tmpout"]
                                       [] d = "2" -> f["tmperr"]
                                       [] d \in Saved -> None
                                       [] OTHER -> f[d]]
Return == fd' = PutBack(fd) /\ pc' = "clean" /\ UNCHANGED <<command, i, ret, child, full>>

(* A FIFO is opened for reading: both that call and its shell's return.      *)
Opened(s) == /\ s \in fifo /\ sub[s].does = "open"
             /\ sub' = [sub EXCEPT ![s].does = "write"]
             /\ UNCHANGED <<fifo, cleanup>>

(* The three dups and the input: _inFile, which is the last <( ) if there are*)
(* any, or what 0 was.                                                       *)
OpenInput ==
  /\ pc = "open"
  /\ \E input \in {IF "in" \notin redirects THEN fd["0"]
                    ELSE IF wanted > 0 THEN ReadEnd(Fifo(wanted)) ELSE File("in")} :
       /\ fd' = [fd EXCEPT !["tmpin"] = fd["0"], !["tmpout"] = fd["1"], !["tmperr"] = fd["2"],
                           !["fdin"] = input]
       /\ IF input[1] = "read" THEN Opened(wanted) ELSE UNCHANGED substitutions
  /\ pc' = "stage"
  /\ UNCHANGED <<command, i, ret, child, full>>

OpenInputFails ==
  /\ pc = "open" /\ "in" \in redirects \cap mayFail
  /\ pc' = "done"
  /\ UNCHANGED <<command, i, fd, ret, child, full>>

\* Mutant: the shell keeps its copy of the pipe's write end.
StageKeepsEnd ==
  /\ pc = "stage"
  /\ fd' = [fd EXCEPT
       !["0"] = fd["fdin"],
       !["1"] = IF ~Last THEN WriteEnd(i)
                ELSE IF "out" \in redirects THEN File("out") ELSE fd["tmpout"],
       !["fdin"] = IF Last THEN None ELSE ReadEnd(i),
       !["fdout"] = IF Last THEN None ELSE WriteEnd(i),
       !["2"] = IF Last /\ "err" \in redirects THEN File("err") ELSE fd["2"]]
  /\ pc' = "fork"
  /\ UNCHANGED <<command, i, ret, child, full>>

\* Mutant: the last simple command keeps the output of the one before.
StageKeepsOut ==
  /\ pc = "stage"
  /\ fd' = [fd EXCEPT
       !["0"] = fd["fdin"],
       !["1"] = IF ~Last THEN WriteEnd(i)
                ELSE IF "out" \in redirects THEN File("out") ELSE fd["1"],
       !["fdin"] = IF Last THEN None ELSE ReadEnd(i),
       !["2"] = IF Last /\ "err" \in redirects THEN File("err") ELSE fd["2"]]
  /\ pc' = "fork"
  /\ UNCHANGED <<command, i, ret, child, full>>

(* The start of an iteration: fdin becomes 0; the output, a new pipe or, for *)
(* the last simple command, _outFile or what 1 was, becomes 1; _errFile      *)
(* becomes 2 for the last one. An _errFile that cannot be opened is reported *)
(* and ignored.                                                              *)
Stage ==
  /\ pc = "stage"
  /\ \E e \in IF "err" \in redirects /\ Last
              THEN {File("err")} \cup (IF "err" \in mayFail THEN {fd["2"]} ELSE {})
              ELSE {fd["2"]} :
       fd' = [fd EXCEPT
         !["0"] = fd["fdin"],
         !["1"] = IF ~Last THEN WriteEnd(i)
                  ELSE IF "out" \in redirects THEN File("out") ELSE fd["tmpout"],
         !["2"] = e,
         !["fdin"] = IF Last THEN None ELSE ReadEnd(i)]
  /\ pc' = "fork"
  /\ UNCHANGED <<command, i, ret, child, full>>

(* pipe() or the open of _outFile fails: execute puts the descriptors back   *)
(* and returns; what it has forked so far goes on.                           *)
StageFails ==
  /\ pc = "stage"
  /\ IF Last THEN "out" \in redirects \cap mayFail ELSE "pipe" \in mayFail
  /\ fd' = PutBack([fd EXCEPT !["fdin"] = None])
  /\ pc' = "done"
  /\ UNCHANGED <<command, i, ret, child, full>>

Advance == IF Last THEN pc' = "wait" /\ UNCHANGED i ELSE pc' = "stage" /\ i' = i + 1

(* fork and, in the child, execvp: it keeps all the descriptors.             *)
Fork == /\ pc = "fork"
        /\ child' = Append(child, [program |-> programs[i], stage |-> i, fd |-> fd, runs |-> TRUE,
                                   left |-> Output, holds |-> FALSE, arg |-> 0])
        /\ ret' = Len(child) + 1
        /\ Advance
        /\ UNCHANGED <<command, fd, full>>

\* Mutant: a failed fork ends the command without putting anything back.
ForkFailsReturns == /\ pc = "fork" /\ "fork" \in mayFail
                    /\ pc' = "done"
                    /\ UNCHANGED <<command, i, fd, ret, child, full>>

(* fork fails: the loop goes on with the next simple command.                *)
ForkFails == /\ pc = "fork" /\ "fork" \in mayFail
             /\ Advance
             /\ UNCHANGED <<command, fd, ret, child, full>>

(* waitpid(ret, ...). Where every fork has failed ret is 0 and stands for any*)
(* child: the shells of the <( ) are some; without any it fails at once.     *)
Wait == /\ pc = "wait"
        /\ \/ background
           \/ ret # 0 /\ ret \notin Running
           \/ ret = 0 /\ (sub = <<>> \/ \E s \in DOMAIN sub : sub[s].does = "ended")
        /\ Return

\* Mutant: what is on the list is removed without waiting for its shell.
CleanNoWait ==
  /\ pc = "clean"
  /\ IF cleanup = <<>> THEN pc' = "done" /\ UNCHANGED <<fifo, cleanup>>
     ELSE /\ fifo' = fifo \ {Head(cleanup)} /\ cleanup' = Tail(cleanup) /\ UNCHANGED pc
  /\ UNCHANGED <<command, i, fd, ret, child, full, sub>>

(* The end of execute: of each <( ) the shell is waited for and the FIFO     *)
(* removed.                                                                  *)
Clean ==
  /\ pc = "clean"
  /\ \/ cleanup = <<>> /\ pc' = "done" /\ UNCHANGED <<fifo, cleanup>>
     \/ /\ cleanup # <<>> /\ sub[Head(cleanup)].does = "ended"
        /\ fifo' = fifo \ {Head(cleanup)} /\ cleanup' = Tail(cleanup)
        /\ UNCHANGED pc
  /\ UNCHANGED <<command, i, fd, ret, child, full, sub>>

Execute == \/ OpenInput \/ Clean \/ Substitute \/ SubstituteFails
           \/ /\ OpenInputFails \/ Stage \/ StageFails \/ Fork \/ ForkFails \/ Wait
              /\ UNCHANGED substitutions

-----------------------------------------------------------------------------
(* The shell of a <( ): its command writes to the FIFO, and is killed when   *)
(* nobody reads it; then its own execute cleans up after the list it has     *)
(* inherited, whose shells are not its children, and it exits.               *)
Shell(s) ==
  /\ UNCHANGED <<command, pc, i, fd, ret, child, cleanup>>
  /\ \/ /\ sub[s].does = "write" /\ sub[s].left > 0
        /\ Held(ReadEnd(Fifo(s))) /\ full[Fifo(s)] < PipeSize
        /\ full' = [full EXCEPT ![Fifo(s)] = @ + 1]
        /\ sub' = [sub EXCEPT ![s].left = @ - 1] /\ UNCHANGED fifo
     \/ /\ sub[s].does = "write" /\ (sub[s].left = 0 \/ ~Held(ReadEnd(Fifo(s))))
        /\ sub' = [sub EXCEPT ![s].does = "clean"] /\ UNCHANGED <<fifo, full>>
     \/ /\ sub[s].does = "clean"
        /\ fifo' = fifo \ Range(sub[s].cleanup)
        /\ sub' = [sub EXCEPT ![s].does = "ended"] /\ UNCHANGED full

-----------------------------------------------------------------------------
End(k) == child' = [child EXCEPT ![k].runs = FALSE]

(* A unit is written to stdout: into a pipe with room, or anywhere else. A   *)
(* pipe without a reader ends the writer.                                    *)
Put(k, next) ==
  LET out == child[k].fd["1"]
  IN  /\ UNCHANGED <<command, pc, i, fd, ret>>
      /\ \/ /\ out[1] # "write"
            /\ child' = next /\ UNCHANGED full
         \/ /\ out[1] = "write" /\ Held(ReadEnd(out[2])) /\ full[out[2]] < PipeSize
            /\ child' = next
            /\ full' = [full EXCEPT ![out[2]] = @ + 1]
         \/ /\ out[1] = "write" /\ ~Held(ReadEnd(out[2]))
            /\ End(k) /\ UNCHANGED full

(* A unit is read from stdin if that is a pipe with something in it. An empty*)
(* pipe without writers is at end of file; so are files and the terminal.    *)
Get(k, next) ==
  LET in == child[k].fd["0"]
  IN  /\ UNCHANGED <<command, pc, i, fd, ret>>
      /\ \/ /\ in[1] = "read" /\ full[in[2]] > 0
            /\ child' = next
            /\ full' = [full EXCEPT ![in[2]] = @ - 1]
         \/ /\ in[1] = "read" => full[in[2]] = 0 /\ ~Held(WriteEnd(in[2]))
            /\ End(k) /\ UNCHANGED full

(* join opens its next file, copies it, and closes it at its end; a file that*)
(* cannot be opened is passed over. arg is the last one it has come to. The  *)
(* command's last <( ) is no argument if it is the command's input.          *)
Arguments(k) == {a \in 1 .. wanted : /\ given[a] = child[k].stage
                                      /\ a = wanted => "in" \notin redirects}
Due(k, a) == /\ a \in Arguments(k) /\ a > child[k].arg
             /\ \A b \in Arguments(k) : b < a => b <= child[k].arg
Join(k) ==
  \E in \in {child[k].fd["file"]} :
    \/ /\ in = None /\ \A a \in Arguments(k) : a <= child[k].arg
       /\ End(k) /\ UNCHANGED <<command, pc, i, fd, ret, full, substitutions>>
    \/ \E a \in 1 .. wanted :
         /\ in = None /\ Due(k, a) /\ Opened(a)
         /\ child' = [child EXCEPT ![k].fd["file"] = ReadEnd(Fifo(a)), ![k].arg = a]
         /\ UNCHANGED <<command, pc, i, fd, ret, full>>
    \/ \E a \in 1 .. wanted :
         /\ in = None /\ Due(k, a) /\ a \notin fifo
         /\ child' = [child EXCEPT ![k].arg = a]
         /\ UNCHANGED <<command, pc, i, fd, ret, full, substitutions>>
    \/ /\ in # None /\ ~child[k].holds /\ full[in[2]] > 0
       /\ child' = [child EXCEPT ![k].holds = TRUE]
       /\ full' = [full EXCEPT ![in[2]] = @ - 1]
       /\ UNCHANGED <<command, pc, i, fd, ret, substitutions>>
    \/ /\ in # None /\ ~child[k].holds /\ full[in[2]] = 0 /\ ~Held(WriteEnd(in[2]))
       /\ child' = [child EXCEPT ![k].fd["file"] = None]
       /\ UNCHANGED <<command, pc, i, fd, ret, full, substitutions>>
    \/ /\ child[k].holds
       /\ Put(k, [child EXCEPT ![k].holds = FALSE]) /\ UNCHANGED substitutions

Child(k) ==
  /\ child[k].runs /\ child[k].program # "join"
  /\ UNCHANGED substitutions
  /\ LET p == child[k].program
     IN  \/ /\ p = "print" /\ child[k].left > 0
            /\ Put(k, [child EXCEPT ![k].left = @ - 1])
         \/ /\ p = "yes" /\ Put(k, child)
         \/ /\ p = "cat" /\ ~child[k].holds /\ Get(k, [child EXCEPT ![k].holds = TRUE])
         \/ /\ p = "cat" /\ child[k].holds /\ Put(k, [child EXCEPT ![k].holds = FALSE])
         \/ /\ p = "head" /\ Get(k, [child EXCEPT ![k].runs = FALSE])
         \/ /\ p = "true" \/ (p = "print" /\ child[k].left = 0)
            /\ End(k) /\ UNCHANGED <<command, pc, i, fd, ret, full>>

Joins(k) == child[k].runs /\ child[k].program = "join" /\ Join(k)

Next == \/ Execute
        \/ \E k \in DOMAIN child : Child(k) \/ Joins(k)
        \/ \E s \in DOMAIN sub : Shell(s)

Places == UNION {DOMAIN p : p \in Pipelines}

(* The shell, each child and each shell of a <( ) get to run.                *)
Spec == /\ Init /\ [][Next]_vars
        /\ WF_vars(Execute)
        /\ \A k \in Places : WF_vars(k \in DOMAIN child /\ (Child(k) \/ Joins(k)))
        /\ \A s \in 1 .. MaxSubstitutions : WF_vars(s \in DOMAIN sub /\ Shell(s))

-----------------------------------------------------------------------------
(* After the command the shell has 0, 1 and 2 as they were and no other      *)
(* descriptor open, whichever of opening a file, pipe and fork has failed on *)
(* the way.                                                                  *)
DescriptorsRestored ==
  pc = "done" => fd = [d \in Descriptors |-> IF d \in {"0", "1", "2"} THEN Tty ELSE None]

(* Neighbours share a pipe whichever fork has failed, and nobody but the     *)
(* child that writes a pipe, and the shell while it forks that child, keeps  *)
(* the pipe's write end: its reader would never see end of file.             *)
PipesConnect ==
  /\ \A j, k \in DOMAIN child : child[k].stage = child[j].stage + 1
       => child[j].fd["1"] = WriteEnd(child[j].stage) /\ child[k].fd["0"] = ReadEnd(child[j].stage)
  /\ \A s \in 1 .. N :
       /\ \A k \in DOMAIN child : WriteEnd(s) \in Range(child[k].fd) => child[k].stage = s
       /\ WriteEnd(s) \in Range(fd) => i = s \/ (pc = "stage" /\ i = s + 1)

(* End of file gets through: when every program but the first reads to the   *)
(* end of its input, everything that was started ends and the prompt comes   *)
(* back, also when the input or the error file cannot be opened.             *)
(* With <( ): only if they are all arguments, and of one program, which opens*)
(* them in their order. Otherwise a FIFO may go before it is opened, and its *)
(* shell, and execute that waits for it, never end.                          *)
Drains == /\ programs[1] # "yes"
          /\ \A k \in 2 .. N : programs[k] = "cat"
          /\ \A s, t \in 1 .. wanted : given[s] = given[t]
          /\ "in" \in redirects => wanted <= 1
Ended  == Running = {} /\ \A s \in DOMAIN sub : sub[s].does = "ended"
EverythingEnds ==
  Drains /\ mayFail \subseteq {"in", "err"}
    => <>[](pc = "done" /\ (Ended \/ (wanted > 0 /\ "in" \in redirects \cap mayFail)))

(* When execute has come to its end, not by an early return, no FIFO is left,*)
(* nor a shell that writes to one. A FIFO nobody has opened is removed by    *)
(* nobody but the shell of a later <( ), which has the list with its name.   *)
(* That may happen, if the later one is opened first: by another program of  *)
(* the pipeline, or by execute as the command's input.                       *)
FifosRemoved ==
  /\ pc = "done" /\ cleanup = <<>> => fifo = {} /\ \A s \in DOMAIN sub : sub[s].does = "ended"
  /\ \A s \in DOMAIN sub : sub[s].does = "open" /\ s \notin fifo
       => \E t \in DOMAIN sub : t > s /\ sub[t].does = "ended"
=============================================================================
