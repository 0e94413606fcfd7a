---------------------------- MODULE LockedCounter ----------------------------
(* lab4/count.cc: threads that add 1 to a shared long `ntimes` times each,   *)
(* under a mutex, through a local int. Reading, adding and writing back are  *)
(* separate steps; the narrowing of `int c = count` is kept.                 *)
EXTENDS CounterParameters

VARIABLES count,  \* the shared counter
          lock,   \* the thread that holds the mutex, or NoThread
          pc,     \* the statement each thread runs next
          i, c    \* its locals in increment

vars == <<count, lock, pc, i, c>>

(* A value narrowed to an int.                                               *)
ToInt(x) == IF x \in -IntMax - 1 .. IntMax THEN x
            ELSE ((x + IntMax + 1) % (2 * IntMax + 2)) - IntMax - 1

Init == /\ count = 0
        /\ lock = NoThread
        /\ pc = [t \in CounterThreads |-> "loop"]
        /\ i = [t \in CounterThreads |-> 0]
        /\ c = [t \in CounterThreads |-> 0]

Goto(t, from, to) == pc[t] = from /\ pc' = [pc EXCEPT ![t] = to]

Lock(t) == /\ Goto(t, "loop", "read")
           /\ i[t] < ntimes
           /\ lock = NoThread
           /\ lock' = t
           /\ UNCHANGED <<count, i, c>>

Read(t) == /\ Goto(t, "read", "write")
           /\ c' = [c EXCEPT ![t] = ToInt(count)]
           /\ UNCHANGED <<count, lock, i>>

Write(t) == /\ Goto(t, "write", "unlock")
            /\ c' = [c EXCEPT ![t] = ToInt(@ + 1)]
            /\ count' = ToInt(c[t] + 1)
            /\ UNCHANGED <<lock, i>>

Unlock(t) == /\ Goto(t, "unlock", "loop")
             /\ lock' = NoThread
             /\ i' = [i EXCEPT ![t] = @ + 1]
             /\ UNCHANGED <<count, c>>

Increment(t) == Lock(t) \/ Read(t) \/ Write(t) \/ Unlock(t)

AllJoined == \A t \in CounterThreads : pc[t] = "loop" /\ i[t] = ntimes
Joined == AllJoined /\ UNCHANGED vars

Next == (\E t \in CounterThreads : Increment(t)) \/ Joined

Spec == Init /\ [][Next]_vars /\ \A t \in CounterThreads : WF_vars(Increment(t))

-----------------------------------------------------------------------------
TypeOK == /\ count \in 0 .. 2 * ntimes
          /\ lock \in CounterThreads \cup {NoThread}
          /\ pc \in [CounterThreads -> {"loop", "read", "write", "unlock"}]
          /\ i \in [CounterThreads -> 0 .. ntimes]
          /\ c \in [CounterThreads -> 0 .. 2 * ntimes]

(* What the threads have added so far.                                       *)
Done(t) == i[t] + (IF pc[t] = "unlock" THEN 1 ELSE 0)

(* A thread in its critical section holds the mutex; what it read is still   *)
(* the count; and the count is what the threads have added.                  *)
CountInv == /\ TypeOK
            /\ \A t \in CounterThreads : pc[t] # "loop" => lock = t /\ i[t] < ntimes
            /\ \A t \in CounterThreads : pc[t] = "write" => c[t] = count
            /\ count = Done(1) + Done(2)

(* main: "Final count should be 2 * n" once both threads have been joined.   *)
FinalCount == AllJoined => count = 2 * ntimes

(* Both threads come to their end.                                           *)
BothEnd == <>AllJoined
=============================================================================
