-------------------------- MODULE CounterParameters --------------------------
(* What count.cc and count_spin.cc of lab4 have in common: two threads and   *)
(* the number of times each adds 1 through a local int.                      *)
EXTENDS Integers

CONSTANTS ntimes,   \* how many times each adds 1
          IntMax,   \* the largest int
          NoThread

CounterThreads == {1, 2}

(* main counts to 2 * n, which an int holds.                                 *)
ASSUME CounterAssumption == /\ ntimes \in Nat
                            /\ IntMax \in Nat /\ 2 * ntimes <= IntMax
                            /\ NoThread \notin CounterThreads
=============================================================================
