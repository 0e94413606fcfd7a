------------------------------ MODULE ShellJobs ------------------------------
(* Processes of the lab3 shell: Command::execute forks one process per       *)
(* simple command and waits for the last one or notes it as a background job *)
(* (command.cc), while sigchldHandler (shell.cc) may run between any two     *)
(* steps and reaps whatever has ended. The kernel's side, pids, zombies, a   *)
(* pending SIGCHLD and waitpid, is modelled from how the code uses it.       *)
EXTENDS Naturals, FiniteSets

CONSTANTS Pids,      \* process ids the kernel hands out, again once they are free
          Codes,     \* exit codes of processes
          Signalled, \* the status of a process that a signal has ended
          Garbage,   \* what `status` may hold when waitpid does not set it
          MaxLen     \* simple commands in a pipeline

ASSUME JobsAssumption == /\ IsFiniteSet(Pids) /\ 0 \notin Pids /\ 0 \in Codes
                         /\ Codes \subseteq Nat /\ Signalled \notin Nat /\ Garbage \subseteq Nat
                         /\ MaxLen \in Nat \ {0}

VARIABLES
  proc,               \* pid -> "free", "running" or "zombie"
  code,               \* pid -> the status of a zombie, and of the command's last process
  pending,            \* SIGCHLD is pending
  handler,            \* sigchldHandler: "off", "scan" (at waitpid) or "found"
  reaped,             \* the pid its waitpid has returned last
  pc,                 \* where execute is
  left, background,   \* simple commands not yet forked; _background
  ret,                \* the pid of the latest fork of this command, 0 if none
  backgroundPids,     \* Command::_backgroundPids
  lastReturnCode,     \* Command::_lastReturnCode
  lastBackgroundPid,  \* Command::_lastBackgroundPid
  jobs,               \* history: last processes of background commands, until reaped
  taken               \* history: the handler reaped ret before execute waited for it

vars == <<proc, code, pending, handler, reaped, pc, left, background, ret, backgroundPids,
          lastReturnCode, lastBackgroundPid, jobs, taken>>

kernel == <<proc, code, pending, jobs>>
shell == <<pc, left, background, ret, backgroundPids, lastReturnCode, lastBackgroundPid>>

Children(state) == {p \in Pids : proc[p] = state}

Init == /\ proc = [p \in Pids |-> "free"]
        /\ code = [p \in Pids |-> 0]
        /\ pending = FALSE /\ handler = "off" /\ reaped = 0
        /\ pc = "prompt" /\ left = 0 /\ background = FALSE /\ ret = 0
        /\ backgroundPids = {} /\ lastReturnCode = 0 /\ lastBackgroundPid = 0
        /\ jobs = {} /\ taken = FALSE

(* ------------------------------- the kernel ------------------------------ *)

Statuses == Codes \cup {Signalled}

(* WIFEXITED and WEXITSTATUS: a process that did not exit counts as 1.       *)
ExitCode(status) == IF status \in Codes THEN status ELSE 1

(* A process exits or is killed: it is a zombie and SIGCHLD is pending (one  *)
(* signal, however many processes have ended).                               *)
Ends(p) == /\ proc[p] = "running"
           /\ proc' = [proc EXCEPT ![p] = "zombie"]
           /\ \E c \in Statuses : code' = [code EXCEPT ![p] = c]
           /\ pending' = TRUE
           /\ UNCHANGED <<shell, handler, reaped, jobs, taken>>

Reap(p) == /\ proc' = [proc EXCEPT ![p] = "free"]
           /\ code' = IF p = ret THEN code ELSE [code EXCEPT ![p] = 0]
           /\ jobs' = jobs \ {p}
           /\ UNCHANGED pending

(* The main program runs only while no handler does and no signal waits to be*)
(* delivered, except inside a blocking waitpid, where a child that can be    *)
(* reaped is found before the signal is looked at.                           *)
InMain == handler = "off" /\ (pending => pc = "waiting")
CanReap == IF ret = 0 THEN Children("zombie") # {} ELSE proc[ret] = "zombie"

(* ---------------------------- sigchldHandler ----------------------------- *)

Deliver == /\ pending /\ handler = "off"
           /\ ~(pc = "waiting" /\ CanReap)
           /\ handler' = "scan"
           /\ pending' = FALSE
           /\ UNCHANGED <<shell, reaped, proc, code, jobs, taken>>

\* Mutant: the handler reaps one process per signal.
ScanOnce == /\ handler = "scan"
            /\ \/ \E p \in Children("zombie") :
                    /\ Reap(p)
                    /\ taken' = (taken \/ p = ret)
                    /\ backgroundPids' = backgroundPids \ {p}
                    /\ handler' = "off"
               \/ /\ Children("zombie") = {}
                  /\ handler' = "off"
                  /\ UNCHANGED <<kernel, taken, backgroundPids>>
            /\ UNCHANGED <<pc, left, background, ret, lastReturnCode, lastBackgroundPid, reaped>>

(* waitpid(-1, &status, WNOHANG).                                            *)
Scan == /\ handler = "scan"
        /\ \/ \E p \in Children("zombie") :
                /\ Reap(p)
                /\ handler' = "found"
                /\ reaped' = p
                /\ taken' = (taken \/ p = ret)
           \/ /\ Children("zombie") = {}
              /\ handler' = "off"
              /\ UNCHANGED <<kernel, taken, reaped>>
        /\ UNCHANGED shell

(* The body of the loop: "[pid] exited." for a background job.               *)
Announce == /\ handler = "found"
            /\ backgroundPids' = backgroundPids \ {reaped}
            /\ handler' = "scan"
            /\ reaped' = 0
            /\ UNCHANGED <<kernel, taken, pc, left, background, ret, lastReturnCode,
                           lastBackgroundPid>>

(* --------------------------- Command::execute ---------------------------- *)

(* yyparse has a command: n simple commands, in the background or not.       *)
Read == /\ InMain /\ pc = "prompt"
        /\ left' \in 1 .. MaxLen
        /\ background' \in BOOLEAN
        /\ ret' = 0
        /\ pc' = "fork"
        /\ taken' = FALSE
        /\ code' = [p \in Pids |-> IF proc[p] = "free" THEN 0 ELSE code[p]]
        /\ UNCHANGED <<proc, pending, jobs, handler, reaped, backgroundPids, lastReturnCode,
                       lastBackgroundPid>>

(* After the fork of the last simple command the loop is over.               *)
Forked == IF left = 1 THEN "forked" ELSE "fork"

Fork == /\ InMain /\ pc = "fork"
        /\ \E p \in Children("free") :
             /\ proc' = [proc EXCEPT ![p] = "running"]
             /\ ret' = p
             /\ jobs' = IF background /\ left = 1 THEN jobs \cup {p} ELSE jobs
        /\ left' = left - 1
        /\ pc' = Forked
        /\ taken' = FALSE
        /\ UNCHANGED <<code, pending, handler, reaped, background, backgroundPids,
                       lastReturnCode, lastBackgroundPid>>

(* fork fails: continue with the next simple command, ret as it was.         *)
ForkFails == /\ InMain /\ pc = "fork"
             /\ left' = left - 1
             /\ pc' = Forked
             /\ UNCHANGED <<kernel, handler, reaped, taken, background, ret, backgroundPids,
                            lastReturnCode, lastBackgroundPid>>

\* Mutant: execute keeps only the latest background job.
BackgroundLatest == /\ InMain /\ pc = "forked" /\ background
                    /\ backgroundPids' = {ret}
                    /\ lastBackgroundPid' = ret
                    /\ pc' = "restore"
                    /\ UNCHANGED <<kernel, handler, reaped, taken, left, background, ret, lastReturnCode>>

Background == /\ InMain /\ pc = "forked" /\ background
              /\ backgroundPids' = backgroundPids \cup {ret}
              /\ lastBackgroundPid' = ret
              /\ pc' = "restore"
              /\ UNCHANGED <<kernel, handler, reaped, taken, left, background, ret, lastReturnCode>>

(* waitpid(ret, &status, 0) is called.                                       *)
CallWait == /\ InMain /\ pc = "forked" /\ ~background
            /\ pc' = "waiting"
            /\ UNCHANGED <<kernel, handler, reaped, taken, left, background, ret, backgroundPids,
                           lastReturnCode, lastBackgroundPid>>

\* Mutant: whichever process of the shell ends first ends the wait.
WaitReapsAny == /\ InMain /\ pc = "waiting"
                /\ \E p \in Children("zombie") :
                     /\ Reap(p)
                     /\ lastReturnCode' = ExitCode(code[p])
                /\ pc' = "restore"
                /\ UNCHANGED <<handler, reaped, taken, left, background, ret, backgroundPids, lastBackgroundPid>>

(* It returns the process waited for, any process if every fork failed       *)
(* (ret is 0 then), and what became of it.                                   *)
WaitReaps == /\ InMain /\ pc = "waiting"
             /\ \E p \in Children("zombie") :
                  /\ ret \in {0, p}
                  /\ Reap(p)
                  /\ lastReturnCode' = ExitCode(code[p])
             /\ pc' = "restore"
             /\ UNCHANGED <<handler, reaped, taken, left, background, ret, backgroundPids, lastBackgroundPid>>

NoSuchChild == IF ret = 0 THEN Children("running") \cup Children("zombie") = {}
               ELSE proc[ret] = "free"

\* Mutant: execute waits until waitpid has returned its process.
WaitFailsRetry == /\ InMain /\ pc = "waiting"
                  /\ NoSuchChild
                  /\ pc' = "forked"
                  /\ UNCHANGED <<kernel, handler, reaped, taken, left, background, ret, backgroundPids,
                                 lastReturnCode, lastBackgroundPid>>

(* ... or fails with ECHILD, and status is whatever it was: not an exit, or  *)
(* an exit with any code.                                                    *)
WaitFails == /\ InMain /\ pc = "waiting"
             /\ NoSuchChild
             /\ lastReturnCode' \in Garbage \cup {1}
             /\ pc' = "restore"
             /\ UNCHANGED <<kernel, handler, reaped, taken, left, background, ret, backgroundPids,
                            lastBackgroundPid>>

(* The descriptors are put back, the table is cleared, the prompt printed.   *)
Restore == /\ InMain /\ pc = "restore"
           /\ pc' = "prompt"
           /\ UNCHANGED <<kernel, handler, reaped, taken, left, background, ret, backgroundPids,
                          lastReturnCode, lastBackgroundPid>>

Handler == Deliver \/ Scan \/ Announce
Execute == Fork \/ ForkFails \/ Background \/ CallWait \/ WaitReaps \/ WaitFails \/ Restore

Next == (\E p \in Pids : Ends(p)) \/ Handler \/ Read \/ Execute

(* The handler and execute get to run, and every process ends.               *)
Spec == /\ Init /\ [][Next]_vars
        /\ WF_vars(Handler) /\ WF_vars(Execute)
        /\ \A p \in Pids : WF_vars(Ends(p))

-----------------------------------------------------------------------------
TypeOK == /\ proc \in [Pids -> {"free", "running", "zombie"}]
          /\ code \in [Pids -> Statuses]
          /\ pending \in BOOLEAN /\ handler \in {"off", "scan", "found"}
          /\ reaped \in Pids \cup {0}
          /\ pc \in {"prompt", "fork", "forked", "waiting", "restore"}
          /\ left \in 0 .. MaxLen /\ background \in BOOLEAN
          /\ ret \in Pids \cup {0}
          /\ backgroundPids \subseteq Pids \cup {0}
          /\ lastReturnCode \in Codes \cup Garbage \cup {1}
          /\ lastBackgroundPid \in Pids \cup {0}
          /\ jobs \subseteq Pids /\ taken \in BOOLEAN

Waited == pc = "restore" /\ ~background /\ ret # 0

(* The return code is what the last process of the command made of it, unless*)
(* the handler has reaped that process before execute could. In that case    *)
(* waitpid fails and nothing is promised (command.cc:321 looks at no result);*)
(* PromptReturns and WaitFails cover it.                                     *)
ReturnCodeUnlessTaken == Waited /\ ~taken => lastReturnCode = ExitCode(code[ret])

(* A background job that has not been reaped is in _backgroundPids, except at*)
(* the one step before execute notes it: jobs that are noted, that end or    *)
(* that are reaped cost no other job its place. A job the handler reaps      *)
(* before it is noted is left out: its end is not announced, and its pid     *)
(* stays in the set (command.cc:328).                                        *)
JobsAreNoted == jobs \ (IF pc = "forked" THEN {ret} ELSE {}) \subseteq backgroundPids

(* No process stays a zombie (lab3/README: "Cleanup of zombie processes"),   *)
(* although signals that arrive together are one.                            *)
ZombiesAreReaped == \A p \in Pids : proc[p] = "zombie" ~> proc[p] = "free"

(* The shell comes back to its prompt after every command, even when the     *)
(* handler has taken the process it waits for.                               *)
PromptReturns == pc = "fork" ~> pc = "prompt"
=============================================================================
