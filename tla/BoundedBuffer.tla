---------------------------- MODULE BoundedBuffer ----------------------------
(* lab4/bounded-buffer.cc: a ring of MaxSize ints shared by threads, two     *)
(* counting semaphores and a mutex. One action per statement of enqueue and  *)
(* dequeue, so that every interleaving of the threads between two statements *)
(* is a behaviour. main starts one producer and one consumer; the class is   *)
(* checked for several of each as well.                                      *)
EXTENDS Naturals, Sequences, FiniteSets

CONSTANTS MaxSize,    \* slots of _queue
          Producers,  \* threads running producerThread
          Consumers,  \* threads running consumerThread
          N,          \* args->n, the calls every thread makes
          None        \* no thread, no item

ASSUME BufferAssumption == /\ MaxSize \in Nat \ {0}
                           /\ N \in Nat
                           /\ IsFiniteSet(Producers) /\ IsFiniteSet(Consumers)
                           /\ Producers \cap Consumers = {}
                           /\ None \notin Producers \cup Consumers

VARIABLES queue, head, tail,  \* _queue, _head, _tail
          mutex,              \* the thread that holds _mutex, or None
          emptySem, fullSem,  \* the values of _emptySem and _fullSem
          pc,                 \* the statement each thread runs next
          i,                  \* its loop counter, for a consumer also lastVal
          val                 \* the item a consumer took last

vars == <<queue, head, tail, mutex, emptySem, fullSem, pc, i, val>>

Threads == Producers \cup Consumers

(* The int a producer enqueues, with the producer, so that equal ints of two *)
(* producers can be told apart.                                              *)
Items == [by : Producers, n : 0 .. N - 1]

Init == /\ queue = [k \in 0 .. MaxSize - 1 |-> None]
        /\ head = 0 /\ tail = 0
        /\ mutex = None
        /\ emptySem = MaxSize /\ fullSem = 0
        /\ pc = [t \in Threads |-> "wait"]
        /\ i = [t \in Threads |-> 0]
        /\ val = [c \in Consumers |-> None]

Goto(t, from, to) == pc[t] = from /\ pc' = [pc EXCEPT ![t] = to]

Succ(k) == (k + 1) % MaxSize

(* pthread_mutex_lock and pthread_mutex_unlock, by either kind of thread.    *)
Lock(t) == /\ Goto(t, "lock", "access")
           /\ mutex = None
           /\ mutex' = t
           /\ UNCHANGED <<queue, head, tail, emptySem, fullSem, i, val>>

Unlock(t) == /\ Goto(t, "unlock", "post")
             /\ mutex' = None
             /\ UNCHANGED <<queue, head, tail, emptySem, fullSem, i, val>>

(* ------------------------------- enqueue --------------------------------- *)

WaitEmpty(p) ==
  /\ Goto(p, "wait", "lock")
  /\ i[p] < N
  /\ emptySem > 0
  /\ emptySem' = emptySem - 1
  /\ UNCHANGED <<queue, head, tail, mutex, fullSem, i, val>>

Store(p) ==
  /\ Goto(p, "access", "advance")
  /\ queue' = [queue EXCEPT ![tail] = [by |-> p, n |-> i[p]]]
  /\ UNCHANGED <<head, tail, mutex, emptySem, fullSem, i, val>>

AdvanceTail(p) ==
  /\ Goto(p, "advance", "unlock")
  /\ tail' = Succ(tail)
  /\ UNCHANGED <<queue, head, mutex, emptySem, fullSem, i, val>>

PostFull(p) ==
  /\ Goto(p, "post", "wait")
  /\ fullSem' = fullSem + 1
  /\ i' = [i EXCEPT ![p] = @ + 1]
  /\ UNCHANGED <<queue, head, tail, mutex, emptySem, val>>

(* ------------------------------- dequeue --------------------------------- *)

\* Mutant: a consumer takes the mutex first and waits for an item inside.
WaitFullInside(c) ==
  /\ i[c] < N
  /\ \/ /\ Goto(c, "wait", "lock") /\ mutex = None /\ mutex' = c
        /\ UNCHANGED fullSem
     \/ /\ Goto(c, "lock", "access") /\ mutex = c /\ fullSem > 0
        /\ fullSem' = fullSem - 1 /\ UNCHANGED mutex
  /\ UNCHANGED <<queue, head, tail, emptySem, i, val>>

WaitFull(c) ==
  /\ Goto(c, "wait", "lock")
  /\ i[c] < N
  /\ fullSem > 0
  /\ fullSem' = fullSem - 1
  /\ UNCHANGED <<queue, head, tail, mutex, emptySem, i, val>>

Load(c) ==
  /\ Goto(c, "access", "advance")
  /\ val' = [val EXCEPT ![c] = queue[head]]
  /\ UNCHANGED <<queue, head, tail, mutex, emptySem, fullSem, i>>

\* Mutant: the head starts over at slot 0 one slot early.
AdvanceHeadShort(c) ==
  /\ Goto(c, "advance", "unlock")
  /\ head' = (head + 1) % (MaxSize - 1)
  /\ UNCHANGED <<queue, tail, mutex, emptySem, fullSem, i, val>>

AdvanceHead(c) ==
  /\ Goto(c, "advance", "unlock")
  /\ head' = Succ(head)
  /\ UNCHANGED <<queue, tail, mutex, emptySem, fullSem, i, val>>

PostEmpty(c) ==
  /\ Goto(c, "post", "check")
  /\ emptySem' = emptySem + 1
  /\ UNCHANGED <<queue, head, tail, mutex, fullSem, i, val>>

(* consumerThread after dequeue: assert(val == lastVal), then lastVal++ and  *)
(* i++, which stay equal; a failed assert would be the end of the program.   *)
(* The assert is meant for the one producer and the one consumer of main:    *)
(* with more threads the class does not promise it, and it is left out.      *)
AsInMain == Cardinality(Producers) = 1 /\ Cardinality(Consumers) = 1
Check(c) ==
  /\ Goto(c, "check", "wait")
  /\ AsInMain => val[c].n = i[c]
  /\ i' = [i EXCEPT ![c] = @ + 1]
  /\ UNCHANGED <<queue, head, tail, mutex, emptySem, fullSem, val>>

(* main has joined every thread.                                             *)
AllJoined == \A t \in Threads : pc[t] = "wait" /\ i[t] = N
Joined == AllJoined /\ UNCHANGED vars

Produce(p) == \/ WaitEmpty(p) \/ Lock(p) \/ Store(p) \/ AdvanceTail(p)
              \/ Unlock(p) \/ PostFull(p)
Consume(c) == \/ WaitFull(c) \/ Lock(c) \/ Load(c) \/ AdvanceHead(c)
              \/ Unlock(c) \/ PostEmpty(c) \/ Check(c)

Next == \/ \E p \in Producers : Produce(p)
        \/ \E c \in Consumers : Consume(c)
        \/ Joined

Spec == /\ Init /\ [][Next]_vars
        /\ \A p \in Producers : WF_vars(Produce(p))
        /\ \A c \in Consumers : WF_vars(Consume(c))

-----------------------------------------------------------------------------
At(S, labels) == {t \in S : pc[t] \in labels}

(* Items stored and not yet loaded: the ring from the first of them on.      *)
Stored == fullSem + Cardinality(At(Producers, {"advance", "unlock", "post"}))
                  + Cardinality(At(Consumers, {"lock", "access"}))
First == IF At(Consumers, {"advance"}) = {} THEN head ELSE Succ(head)

Q == INSTANCE BoundedQueue WITH
       Capacity <- MaxSize,
       items <- [k \in 1 .. Stored |-> queue[(First + k - 1) % MaxSize]],
       got <- val

(* Every variable keeps its type and only a thread inside holds the mutex.   *)
TypeOK ==
  /\ queue \in [0 .. MaxSize - 1 -> Items \cup {None}]
  /\ head \in 0 .. MaxSize - 1 /\ tail \in 0 .. MaxSize - 1
  /\ mutex \in Threads \cup {None}
  /\ emptySem \in 0 .. MaxSize /\ fullSem \in 0 .. MaxSize
  /\ pc \in [Threads -> {"wait", "lock", "access", "advance", "unlock", "post", "check"}]
  /\ i \in [Threads -> 0 .. N]
  /\ val \in [Consumers -> Items \cup {None}]

(* The assert of consumerThread: the only consumer is handed the ints of the *)
(* only producer in order, none lost and none twice.                         *)
AssertHolds == AsInMain => \A c \in Consumers : pc[c] = "check" => val[c].n = i[c]

(* enqueue and dequeue are a bounded first-in first-out queue.               *)
ImplementsQueue == Q!Spec

(* When as many items are produced as consumed every thread ends and main's  *)
(* joins return: nobody waits for a semaphore that nobody will post.         *)
AllThreadsEnd == <>AllJoined
=============================================================================
