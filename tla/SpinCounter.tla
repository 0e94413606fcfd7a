----------------------------- MODULE SpinCounter -----------------------------
(* lab4/count_spin.cc: the counter of count.cc under a spin lock made of an  *)
(* atomic exchange. The exchange and the store that unlocks are the steps    *)
(* that touch the lock word; a failed exchange yields the processor and      *)
(* tries again.                                                              *)
EXTENDS CounterParameters

VARIABLES count, word,  \* the shared counter and the lock word
          at,           \* the statement each thread runs next
          rounds, local,\* its locals in increment, i and c
          holder        \* history: the thread whose exchange found 0

spinVars == <<count, word, at, rounds, local, holder>>

LC == INSTANCE LockedCounter WITH
        lock <- holder, pc <- at, i <- rounds, c <- local

SpinInit == LC!Init /\ word = 0

\* Mutant: the lock word is read and written in two steps, as a plain C load
\* and store would.
TestAndSetTorn(t) ==
  \/ /\ at[t] = "loop" /\ rounds[t] < ntimes /\ word = 0
     /\ at' = [at EXCEPT ![t] = "set"]
     /\ UNCHANGED <<count, word, rounds, local, holder>>
  \/ /\ at[t] = "set"
     /\ word' = 1
     /\ holder' = t
     /\ at' = [at EXCEPT ![t] = "read"]
     /\ UNCHANGED <<count, rounds, local>>

(* my_spin_lock: test_and_set puts 1 into the word and returns what was in   *)
(* it; 0 lets the thread in, 1 sends it round the loop.                      *)
TestAndSet(t) ==
  /\ at[t] = "loop" /\ rounds[t] < ntimes
  /\ word' = 1
  /\ \/ /\ word = 0
        /\ holder' = t
        /\ at' = [at EXCEPT ![t] = "read"]
     \/ /\ word = 1
        /\ UNCHANGED <<at, holder>>
  /\ UNCHANGED <<count, rounds, local>>

Read(t) == LC!Read(t) /\ UNCHANGED word
Write(t) == LC!Write(t) /\ UNCHANGED word

\* Mutant: the unlocking store is left out.
UnlockLeftSet(t) == LC!Unlock(t) /\ UNCHANGED word

(* my_spin_unlock.                                                           *)
SpinUnlock(t) == LC!Unlock(t) /\ word' = 0

Increment(t) == TestAndSet(t) \/ Read(t) \/ Write(t) \/ SpinUnlock(t)

SpinJoined == LC!AllJoined /\ UNCHANGED spinVars

SpinNext == (\E t \in CounterThreads : Increment(t)) \/ SpinJoined

SpinSpec == /\ SpinInit /\ [][SpinNext]_spinVars
            /\ \A t \in CounterThreads : WF_spinVars(Increment(t))

-----------------------------------------------------------------------------
(* The lock word is 1 exactly while a thread is between lock and unlock.     *)
WordInv == /\ word \in {0, 1}
           /\ word = 0 <=> holder = NoThread

(* The spin lock is a mutex: count_spin.cc does what count.cc does, and no   *)
(* increment is lost.                                                        *)
ImplementsLockedCounter == LC!Init /\ [][LC!Next]_LC!vars
SpinFinalCount == LC!FinalCount

(* A thread that spins gets the lock in the end, because the other one runs  *)
(* out of increments.                                                        *)
SpinBothEnd == LC!BothEnd
=============================================================================
