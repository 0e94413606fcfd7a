--------------------------- MODULE ShellJobsProofs ---------------------------
(* execute and sigchldHandler, interleaved in every way: the return code and *)
(* the list of background jobs are right for any set of pids and any codes.  *)
EXTENDS ShellJobs, TLAPS

Kept == /\ proc \in [Pids -> {"free", "running", "zombie"}]
        /\ code \in [Pids -> Statuses]
        /\ ret \in Pids \cup {0}
        /\ handler \in {"off", "scan", "found"}
        /\ pc \in {"prompt", "fork", "forked", "waiting", "restore"}
        /\ background \in BOOLEAN /\ taken \in BOOLEAN /\ jobs \subseteq Pids

(* Until the wait the process forked last is there, unless the handler has   *)
(* taken it: waitpid for it cannot fail.                                     *)
StillThere == pc \in {"fork", "forked", "waiting"} /\ ret # 0 /\ ~taken => proc[ret] # "free"

(* After the wait its pid is free, and no process of that pid can end and    *)
(* change the code before the next command.                                  *)
WaitedIsFree == Waited /\ ~taken => proc[ret] = "free"

(* The job of a pid is a process of that pid: one that is handed out again   *)
(* is not taken for the old job.                                             *)
JobsExist == \A p \in jobs : proc[p] # "free"

(* What a foreground command has forked is no job.                           *)
ForegroundIsNoJob == pc \in {"fork", "forked"} /\ ~background => ret \notin jobs

(* The handler drops from the list only what it has reaped.                  *)
FoundIsNoJob == handler = "found" => reaped \notin jobs

JobsInv == /\ Kept /\ StillThere /\ WaitedIsFree /\ ReturnCodeUnlessTaken
           /\ JobsExist /\ ForegroundIsNoJob /\ FoundIsNoJob /\ JobsAreNoted

-----------------------------------------------------------------------------
LEMMA JobsInit == Init => JobsInv
BY JobsAssumption DEF Statuses, Init, JobsInv, Kept, StillThere, WaitedIsFree, ReturnCodeUnlessTaken, Waited,
       JobsExist, ForegroundIsNoJob, FoundIsNoJob, JobsAreNoted

(* One process is reaped: by the handler, or by the wait.                    *)
LEMMA ReapOne ==
  ASSUME Kept, NEW p \in Pids, Reap(p)
  PROVE  /\ proc' \in [Pids -> {"free", "running", "zombie"}] /\ code' \in [Pids -> Statuses]
         /\ proc'[p] = "free" /\ \A q \in Pids : q # p => proc'[q] = proc[q]
         /\ ret \in Pids => code'[ret] = code[ret]
         /\ jobs' = jobs \ {p}
BY JobsAssumption DEF Kept, Reap, Statuses

-----------------------------------------------------------------------------
(* The invariant is kept, step by step.                                      *)

LEMMA EndsStep == ASSUME JobsInv, NEW p \in Pids, Ends(p) PROVE JobsInv'
<1>1. /\ proc[p] = "running" /\ proc' = [proc EXCEPT ![p] = "zombie"]
      /\ UNCHANGED <<pc, background, ret, backgroundPids, lastReturnCode, handler, reaped, jobs, taken>>
  BY DEF Ends, shell
<1>2. PICK c \in Statuses : code' = [code EXCEPT ![p] = c]
  BY DEF Ends
<1>3. Kept'
  BY <1>1, <1>2 DEF JobsInv, Kept
<1>4. \A q \in Pids : /\ proc'[q] = "free" <=> proc[q] = "free"
                      /\ q # p => code'[q] = code[q]
  BY <1>1, <1>2 DEF JobsInv, Kept
<1>5. StillThere' /\ WaitedIsFree'
  BY <1>1, <1>4 DEF JobsInv, Kept, StillThere, WaitedIsFree, Waited
<1>6. ReturnCodeUnlessTaken'
  <2> SUFFICES ASSUME Waited', ~taken' PROVE lastReturnCode' = ExitCode(code'[ret])
    BY <1>1 DEF ReturnCodeUnlessTaken
  <2>1. Waited /\ ~taken /\ ret \in Pids
    BY <1>1 DEF Waited, JobsInv, Kept
  <2>2. ret # p
    BY <1>1, <2>1 DEF JobsInv, WaitedIsFree
  <2> QED BY <1>1, <1>4, <2>1, <2>2 DEF JobsInv, ReturnCodeUnlessTaken
<1>7. JobsExist' /\ ForegroundIsNoJob' /\ FoundIsNoJob' /\ JobsAreNoted'
  BY <1>1, <1>4 DEF JobsInv, Kept, JobsExist, ForegroundIsNoJob, FoundIsNoJob, JobsAreNoted
<1> QED BY <1>3, <1>5, <1>6, <1>7 DEF JobsInv

LEMMA DeliverStep == ASSUME JobsInv, Deliver PROVE JobsInv'
BY DEF Deliver, shell, JobsInv, Kept, StillThere, WaitedIsFree, ReturnCodeUnlessTaken, Waited,
       JobsExist, ForegroundIsNoJob, FoundIsNoJob, JobsAreNoted

LEMMA ScanStep == ASSUME JobsInv, Scan PROVE JobsInv'
<1>1. UNCHANGED <<pc, background, ret, backgroundPids, lastReturnCode>>
  BY DEF Scan, shell
<1>2. ASSUME NEW p \in Pids, Reap(p), handler' = "found", reaped' = p, taken' = (taken \/ p = ret)
      PROVE  JobsInv'
  <2>1. /\ proc' \in [Pids -> {"free", "running", "zombie"}] /\ code' \in [Pids -> Statuses]
        /\ proc'[p] = "free" /\ \A q \in Pids : q # p => proc'[q] = proc[q]
        /\ ret \in Pids => code'[ret] = code[ret]
        /\ jobs' = jobs \ {p}
    BY <1>2, ReapOne DEF JobsInv
  <2>2. Kept'
    BY <1>1, <1>2, <2>1 DEF JobsInv, Kept
  <2>3. StillThere' /\ WaitedIsFree' /\ ReturnCodeUnlessTaken'
    BY <1>1, <1>2, <2>1, <2>2 DEF JobsInv, Kept, StillThere, WaitedIsFree, ReturnCodeUnlessTaken,
                                  Waited
  <2>4. JobsExist' /\ ForegroundIsNoJob' /\ FoundIsNoJob' /\ JobsAreNoted'
    BY <1>1, <1>2, <2>1, <2>2 DEF JobsInv, Kept, JobsExist, ForegroundIsNoJob, FoundIsNoJob,
                                  JobsAreNoted
  <2> QED BY <2>2, <2>3, <2>4 DEF JobsInv
<1>3. ASSUME handler' = "off", UNCHANGED <<kernel, taken, reaped>> PROVE JobsInv'
  BY <1>1, <1>3 DEF kernel, JobsInv, Kept, StillThere, WaitedIsFree, ReturnCodeUnlessTaken, Waited,
                    JobsExist, ForegroundIsNoJob, FoundIsNoJob, JobsAreNoted
<1> QED BY <1>2, <1>3 DEF Scan, Children

LEMMA AnnounceStep == ASSUME JobsInv, Announce PROVE JobsInv'
BY DEF Announce, kernel, JobsInv, Kept, StillThere, WaitedIsFree, ReturnCodeUnlessTaken, Waited,
       JobsExist, ForegroundIsNoJob, FoundIsNoJob, JobsAreNoted

LEMMA ReadStep == ASSUME JobsInv, Read PROVE JobsInv'
<1>1. /\ ret' = 0 /\ pc' = "fork" /\ taken' = FALSE /\ background' \in BOOLEAN
      /\ code' = [p \in Pids |-> IF proc[p] = "free" THEN 0 ELSE code[p]]
      /\ pc = "prompt" /\ UNCHANGED <<proc, jobs, handler, reaped, backgroundPids>>
  BY DEF Read
<1>2. Kept'
  BY <1>1, JobsAssumption DEF JobsInv, Kept, Statuses
<1> QED BY <1>1, <1>2, JobsAssumption
        DEF JobsInv, Kept, StillThere, WaitedIsFree, ReturnCodeUnlessTaken, Waited,
            JobsExist, ForegroundIsNoJob, FoundIsNoJob, JobsAreNoted

(* The new process has a pid that was free, so it is no earlier job's.       *)
LEMMA ForkStep == ASSUME JobsInv, Fork PROVE JobsInv'
<1>1. PICK p \in Pids : /\ proc[p] = "free" /\ proc' = [proc EXCEPT ![p] = "running"]
                        /\ ret' = p
                        /\ jobs' = IF background /\ left = 1 THEN jobs \cup {p} ELSE jobs
  BY DEF Fork, Children
<1>2. /\ pc = "fork" /\ pc' = IF left = 1 THEN "forked" ELSE "fork"
      /\ taken' = FALSE /\ handler = "off"
      /\ UNCHANGED <<code, handler, reaped, background, backgroundPids, lastReturnCode>>
  BY DEF Fork, Forked, InMain
<1>3. p \notin jobs /\ p # 0
  BY <1>1, JobsAssumption DEF JobsInv, JobsExist
<1>4. Kept'
  BY <1>1, <1>2 DEF JobsInv, Kept
<1>5. StillThere' /\ WaitedIsFree' /\ ReturnCodeUnlessTaken'
  BY <1>1, <1>2 DEF JobsInv, Kept, StillThere, WaitedIsFree, ReturnCodeUnlessTaken, Waited
<1>6. JobsExist' /\ ForegroundIsNoJob' /\ FoundIsNoJob' /\ JobsAreNoted'
  BY <1>1, <1>2, <1>3 DEF JobsInv, Kept, JobsExist, ForegroundIsNoJob, FoundIsNoJob, JobsAreNoted
<1> QED BY <1>4, <1>5, <1>6 DEF JobsInv

LEMMA ForkFailsStep == ASSUME JobsInv, ForkFails PROVE JobsInv'
BY DEF ForkFails, Forked, kernel, JobsInv, Kept, StillThere, WaitedIsFree, ReturnCodeUnlessTaken,
       Waited, JobsExist, ForegroundIsNoJob, FoundIsNoJob, JobsAreNoted

LEMMA BackgroundStep == ASSUME JobsInv, Background PROVE JobsInv'
BY DEF Background, kernel, JobsInv, Kept, StillThere, WaitedIsFree, ReturnCodeUnlessTaken,
       Waited, JobsExist, ForegroundIsNoJob, FoundIsNoJob, JobsAreNoted

LEMMA CallWaitStep == ASSUME JobsInv, CallWait PROVE JobsInv'
BY DEF CallWait, kernel, JobsInv, Kept, StillThere, WaitedIsFree, ReturnCodeUnlessTaken,
       Waited, JobsExist, ForegroundIsNoJob, FoundIsNoJob, JobsAreNoted

LEMMA WaitReapsStep == ASSUME JobsInv, WaitReaps PROVE JobsInv'
<1>1. PICK p \in Pids : ret \in {0, p} /\ Reap(p) /\ lastReturnCode' = ExitCode(code[p])
  BY DEF WaitReaps, Children
<1>2. /\ pc = "waiting" /\ pc' = "restore" /\ handler = "off"
      /\ UNCHANGED <<handler, reaped, taken, background, ret, backgroundPids>>
  BY DEF WaitReaps, InMain
<1>3. /\ proc' \in [Pids -> {"free", "running", "zombie"}] /\ code' \in [Pids -> Statuses]
      /\ proc'[p] = "free" /\ \A q \in Pids : q # p => proc'[q] = proc[q]
      /\ ret \in Pids => code'[ret] = code[ret]
      /\ jobs' = jobs \ {p}
  BY <1>1, ReapOne DEF JobsInv
<1>4. Kept'
  BY <1>2, <1>3 DEF JobsInv, Kept
<1>5. StillThere' /\ WaitedIsFree' /\ ReturnCodeUnlessTaken'
  BY <1>1, <1>2, <1>3 DEF JobsInv, Kept, StillThere, WaitedIsFree, ReturnCodeUnlessTaken, Waited
<1>6. JobsExist' /\ ForegroundIsNoJob' /\ FoundIsNoJob' /\ JobsAreNoted'
  BY <1>1, <1>2, <1>3 DEF JobsInv, Kept, JobsExist, ForegroundIsNoJob, FoundIsNoJob, JobsAreNoted
<1> QED BY <1>4, <1>5, <1>6 DEF JobsInv

LEMMA WaitFailsStep == ASSUME JobsInv, WaitFails PROVE JobsInv'
BY DEF WaitFails, NoSuchChild, kernel, JobsInv, Kept, StillThere, WaitedIsFree,
       ReturnCodeUnlessTaken, Waited, JobsExist, ForegroundIsNoJob, FoundIsNoJob, JobsAreNoted

LEMMA RestoreStep == ASSUME JobsInv, Restore PROVE JobsInv'
BY DEF Restore, kernel, JobsInv, Kept, StillThere, WaitedIsFree, ReturnCodeUnlessTaken,
       Waited, JobsExist, ForegroundIsNoJob, FoundIsNoJob, JobsAreNoted

LEMMA JobsNext == ASSUME JobsInv, [Next]_vars PROVE JobsInv'
<1>1. CASE UNCHANGED vars
  BY <1>1 DEF vars, JobsInv, Kept, StillThere, WaitedIsFree, ReturnCodeUnlessTaken, Waited,
              JobsExist, ForegroundIsNoJob, FoundIsNoJob, JobsAreNoted
<1>2. CASE Next
  BY <1>2, EndsStep, DeliverStep, ScanStep, AnnounceStep, ReadStep, ForkStep, ForkFailsStep,
     BackgroundStep, CallWaitStep, WaitReapsStep, WaitFailsStep, RestoreStep
  DEF Next, Handler, Execute
<1> QED BY <1>1, <1>2

-----------------------------------------------------------------------------
(* What the shell believes of its processes agrees with the kernel, however  *)
(* processes end, signals merge and the handler interrupts execute.          *)
THEOREM JobsInvariant == Spec => []JobsInv
<1>1. Init => JobsInv
  BY JobsInit
<1>2. JobsInv /\ [Next]_vars => JobsInv'
  BY JobsNext
<1> QED BY <1>1, <1>2, PTL DEF Spec

(* ${?} is the exit code of the foreground command's last process, unless    *)
(* the handler has reaped it first; a pid that is reused changes nothing.    *)
THEOREM ReturnCodeIsRight == Spec => []ReturnCodeUnlessTaken
<1>1. JobsInv => ReturnCodeUnlessTaken
  BY DEF JobsInv
<1> QED BY <1>1, JobsInvariant, PTL

(* Every background job that has not been reaped is in _backgroundPids.      *)
THEOREM JobsNoted == Spec => []JobsAreNoted
<1>1. JobsInv => JobsAreNoted
  BY DEF JobsInv
<1> QED BY <1>1, JobsInvariant, PTL

(* waitpid for the last process fails only when the handler has reaped it.   *)
THEOREM WaitFailsOnlyWhenTaken == Spec => [][WaitFails => ret = 0 \/ taken]_vars
<1>1. JobsInv /\ [Next]_vars => [WaitFails => ret = 0 \/ taken]_vars
  <2> SUFFICES ASSUME JobsInv, WaitFails, ret # 0 PROVE taken
    OBVIOUS
  <2>1. pc = "waiting" /\ proc[ret] = "free"
    BY DEF WaitFails, NoSuchChild
  <2> QED BY <2>1 DEF JobsInv, StillThere
<1> QED BY <1>1, JobsInvariant, PTL DEF Spec
=============================================================================
