----------------------------- MODULE Lab4Proofs -----------------------------
(* The class BoundedBuffer is a bounded first-in first-out queue, for every  *)
(* number of slots, of threads of each kind and of calls per thread. count.cc*)
(* loses no increment, whatever the number of iterations, and the spin lock  *)
(* of count_spin.cc is a mutex, so that it loses none either (LC is count.cc *)
(* with the thread that holds the lock as its mutex).                        *)
EXTENDS BoundedBuffer, SpinCounter, FiniteSetTheorems, SequenceTheorems, TLAPS

Statements == {"wait", "lock", "access", "advance", "unlock", "post", "check"}
Ring == 0 .. MaxSize - 1
Inside == {"access", "advance", "unlock"}

(* The slot the next item goes to, as if a producer between its two          *)
(* statements had moved the tail already.                                    *)
NextFree == IF At(Producers, {"advance"}) = {} THEN tail ELSE Succ(tail)

(* The mutex is held by the one thread inside.                               *)
MutexInv == \A t \in Threads : pc[t] \in Inside <=> mutex = t

(* Every slot is counted by one of the semaphores or claimed by a thread     *)
(* that has waited for it and has not posted the other.                      *)
Before == {"lock", "access"}
Behind == {"advance", "unlock", "post"}
Claimed(S) == Cardinality(At(S, Before \cup Behind))
SlotsInv == emptySem + fullSem + Claimed(Producers) + Claimed(Consumers) = MaxSize

(* The stored items lie between head and tail.                               *)
RingInv == (First + Stored) % MaxSize = NextFree

(* They are items, and so is what a consumer has taken and not yet counted.  *)
ItemsInv == /\ \A k \in 1 .. Stored : queue[(First + k - 1) % MaxSize] \in Items
            /\ \A c \in Consumers :
                 pc[c] \in {"advance", "unlock", "post", "check"} => val[c] \in Items

(* A thread in a call has calls left; only consumers check.                  *)
CallsInv == /\ \A t \in Threads : pc[t] # "wait" => i[t] < N
            /\ \A p \in Producers : pc[p] # "check"

BufferInv == TypeOK /\ MutexInv /\ SlotsInv /\ RingInv /\ ItemsInv /\ CallsInv

-----------------------------------------------------------------------------
(* Arithmetic of the ring and of the semaphores.                             *)

LEMMA Modulo == ASSUME NEW x \in 0 .. 2 * MaxSize - 1
                PROVE  x % MaxSize = IF x < MaxSize THEN x ELSE x - MaxSize
BY BufferAssumption

LEMMA SuccInRing == ASSUME NEW k \in Ring
                    PROVE  /\ Succ(k) \in Ring
                           /\ Succ(k) = IF k = MaxSize - 1 THEN 0 ELSE k + 1
<1>1. k + 1 \in 0 .. 2 * MaxSize - 1
  BY BufferAssumption DEF Ring
<1> QED BY <1>1, Modulo, BufferAssumption DEF Succ, Ring

(* How many more threads are at a statement of L when one goes from one      *)
(* statement to another.                                                     *)
Gain(L, from, to) == (IF to \in L THEN 1 ELSE 0) - (IF from \in L THEN 1 ELSE 0)

LEMMA CountAt ==
  ASSUME NEW S \in SUBSET Threads, NEW L, IsFiniteSet(S), pc \in [Threads -> Statements]
  PROVE  IsFiniteSet(At(S, L)) /\ Cardinality(At(S, L)) \in Nat
BY FS_Subset, FS_CardinalityType DEF At

LEMMA CountAfter ==
  ASSUME NEW S \in SUBSET Threads, NEW L, IsFiniteSet(S), pc \in [Threads -> Statements],
         NEW t \in Threads, NEW from, NEW to, Goto(t, from, to)
  PROVE  Cardinality(At(S, L)') =
           Cardinality(At(S, L)) + (IF t \in S THEN Gain(L, from, to) ELSE 0)
<1>1. IsFiniteSet(At(S, L)) /\ Cardinality(At(S, L)) \in Nat
  BY CountAt
<1>2. pc[t] = from /\ pc' = [pc EXCEPT ![t] = to]
  BY DEF Goto
<1>3. CASE t \notin S
  BY <1>1, <1>2, <1>3 DEF At
<1>4. CASE t \in S /\ to \in L
  <2>1. At(S, L)' = At(S, L) \cup {t}
    BY <1>2, <1>4 DEF At
  <2>2. t \in At(S, L) <=> from \in L
    BY <1>2, <1>4 DEF At
  <2>3. Cardinality(At(S, L) \cup {t}) =
          IF t \in At(S, L) THEN Cardinality(At(S, L)) ELSE Cardinality(At(S, L)) + 1
    BY <1>1, FS_AddElement
  <2> QED BY <1>1, <1>4, <2>1, <2>2, <2>3 DEF Gain
<1>5. CASE t \in S /\ to \notin L
  <2>1. At(S, L)' = At(S, L) \ {t}
    BY <1>2, <1>5 DEF At
  <2>2. t \in At(S, L) <=> from \in L
    BY <1>2, <1>5 DEF At
  <2>3. Cardinality(At(S, L) \ {t}) =
          IF t \in At(S, L) THEN Cardinality(At(S, L)) - 1 ELSE Cardinality(At(S, L))
    BY <1>1, FS_RemoveElement
  <2> QED BY <1>1, <1>5, <2>1, <2>2, <2>3 DEF Gain
<1> QED BY <1>3, <1>4, <1>5

(* What the semaphores and the threads between them say of the ring.         *)
LEMMA Accounting ==
  ASSUME BufferInv
  PROVE  /\ Claimed(Producers) \in Nat /\ Claimed(Consumers) \in Nat
         /\ Stored \in 0 .. MaxSize - emptySem
         /\ \A p \in Producers : pc[p] \in Before => Stored < MaxSize - emptySem
         /\ \A c \in Consumers : pc[c] \in Before => Stored > 0
         /\ \A t \in Threads : pc[t] \in Before \cup Behind => emptySem + fullSem < MaxSize
<1> DEFINE early(S) == Cardinality(At(S, Before))
           late(S) == Cardinality(At(S, Behind))
<1>1. ASSUME NEW S \in SUBSET Threads, IsFiniteSet(S)
      PROVE  /\ early(S) \in Nat /\ late(S) \in Nat /\ Claimed(S) = early(S) + late(S)
             /\ \A t \in S : /\ pc[t] \in Before => early(S) > 0
                             /\ pc[t] \in Behind => late(S) > 0
  <2>1. pc \in [Threads -> Statements]
    BY DEF BufferInv, TypeOK, Statements
  <2>2. /\ IsFiniteSet(At(S, Before)) /\ early(S) \in Nat
        /\ IsFiniteSet(At(S, Behind)) /\ late(S) \in Nat
    BY <1>1, <2>1, CountAt
  <2>3. /\ At(S, Before \cup Behind) = At(S, Before) \cup At(S, Behind)
        /\ At(S, Before) \cap At(S, Behind) = {}
    BY DEF At, Before, Behind
  <2>4. Claimed(S) = early(S) + late(S)
    <3>1. Cardinality(At(S, Before) \cup At(S, Behind)) =
            early(S) + late(S) - Cardinality(At(S, Before) \cap At(S, Behind))
      BY <2>2, FS_Union
    <3>2. Cardinality(At(S, Before) \cap At(S, Behind)) = 0
      BY <2>3, FS_EmptySet
    <3>3. Claimed(S) = Cardinality(At(S, Before) \cup At(S, Behind))
      BY <2>3 DEF Claimed
    <3> QED BY <2>2, <3>1, <3>2, <3>3
  <2>5. \A t \in S : /\ pc[t] \in Before => At(S, Before) # {}
                     /\ pc[t] \in Behind => At(S, Behind) # {}
    BY DEF At
  <2> QED BY <2>2, <2>4, <2>5, FS_EmptySet
<1>2. /\ Producers \in SUBSET Threads /\ IsFiniteSet(Producers)
      /\ Consumers \in SUBSET Threads /\ IsFiniteSet(Consumers)
  BY BufferAssumption DEF Threads
<1>3. Stored = fullSem + late(Producers) + early(Consumers)
  BY DEF Stored, Before, Behind
<1>4. /\ emptySem \in Nat /\ fullSem \in Nat /\ MaxSize \in Nat
      /\ emptySem + fullSem + Claimed(Producers) + Claimed(Consumers) = MaxSize
  BY BufferAssumption DEF BufferInv, TypeOK, SlotsInv
<1> HIDE DEF early, late
<1> QED BY <1>1, <1>2, <1>3, <1>4 DEF Threads

(* How a step of a thread changes what is claimed and stored.                *)
LEMMA Counts ==
  ASSUME BufferInv, NEW t \in Threads, NEW from, NEW to, Goto(t, from, to), fullSem' \in Nat
  PROVE  /\ Claimed(Producers)' = Claimed(Producers) +
              (IF t \in Producers THEN Gain(Before \cup Behind, from, to) ELSE 0)
         /\ Claimed(Consumers)' = Claimed(Consumers) +
              (IF t \in Consumers THEN Gain(Before \cup Behind, from, to) ELSE 0)
         /\ Stored' = Stored + (fullSem' - fullSem)
                             + (IF t \in Producers THEN Gain(Behind, from, to)
                                                   ELSE Gain(Before, from, to))
<1>1. /\ Producers \in SUBSET Threads /\ IsFiniteSet(Producers)
      /\ Consumers \in SUBSET Threads /\ IsFiniteSet(Consumers)
      /\ t \in Producers <=> t \notin Consumers
  BY BufferAssumption DEF Threads
<1>2. pc \in [Threads -> Statements] /\ fullSem \in Nat
  BY DEF BufferInv, TypeOK, Statements
<1> DEFINE a == Cardinality(At(Producers, Behind))
           b == Cardinality(At(Consumers, Before))
<1>3. /\ a' = a + (IF t \in Producers THEN Gain(Behind, from, to) ELSE 0)
      /\ b' = b + (IF t \in Consumers THEN Gain(Before, from, to) ELSE 0)
      /\ Claimed(Producers)' = Claimed(Producers) +
              (IF t \in Producers THEN Gain(Before \cup Behind, from, to) ELSE 0)
      /\ Claimed(Consumers)' = Claimed(Consumers) +
              (IF t \in Consumers THEN Gain(Before \cup Behind, from, to) ELSE 0)
  BY <1>1, <1>2, CountAfter DEF Claimed
<1>4. a \in Nat /\ b \in Nat
  BY <1>1, <1>2, CountAt
<1>5. Stored = fullSem + a + b /\ Stored' = fullSem' + a' + b'
  BY DEF Stored, Before, Behind
<1>6. Gain(Behind, from, to) \in Int /\ Gain(Before, from, to) \in Int
  BY DEF Gain
<1> HIDE DEF a, b
<1> QED BY <1>1, <1>2, <1>3, <1>4, <1>5, <1>6

(* A step that moves nothing in the ring keeps what is said of it.           *)
LEMMA RingUntouched ==
  ASSUME BufferInv, UNCHANGED <<queue, head, tail>>, Stored' = Stored,
         At(Producers, {"advance"})' = At(Producers, {"advance"}),
         At(Consumers, {"advance"})' = At(Consumers, {"advance"})
  PROVE  /\ First' = First /\ NextFree' = NextFree /\ RingInv'
         /\ \A k \in 1 .. Stored' : queue'[(First' + k - 1) % MaxSize] \in Items
<1>1. First' = First /\ NextFree' = NextFree
  BY DEF First, NextFree, Succ
<1> QED BY <1>1 DEF BufferInv, RingInv, ItemsInv

(* One thread at a time is inside.                                           *)
LEMMA Alone == ASSUME BufferInv, NEW t \in Threads, pc[t] \in Inside
               PROVE  \A u \in Threads : pc[u] \in Inside => u = t
BY DEF BufferInv, MutexInv

-----------------------------------------------------------------------------
(* The invariant is kept: one lemma per statement.                           *)

LEMMA BufferInit == Init => BufferInv
<1> SUFFICES ASSUME Init PROVE BufferInv
  OBVIOUS
<1> USE BufferAssumption
<1>1. \A S, L : S \subseteq Threads /\ "wait" \notin L => At(S, L) = {}
  BY DEF Init, At
<1>2. /\ At(Producers, Behind) = {} /\ At(Consumers, Before) = {}
      /\ At(Producers, {"advance"}) = {} /\ At(Consumers, {"advance"}) = {}
      /\ At(Producers, Before \cup Behind) = {} /\ At(Consumers, Before \cup Behind) = {}
  BY <1>1 DEF Before, Behind, Threads
<1>3. TypeOK
  BY DEF Init, TypeOK, Threads
<1>4. MutexInv
  BY DEF Init, MutexInv, Inside, Threads
<1>5. Claimed(Producers) = 0 /\ Claimed(Consumers) = 0 /\ Stored = 0
  <2>1. Stored = fullSem + Cardinality(At(Producers, Behind)) + Cardinality(At(Consumers, Before))
    BY DEF Stored, Before, Behind
  <2>2. fullSem = 0 /\ Cardinality({}) = 0
    BY FS_EmptySet DEF Init
  <2> QED BY <1>2, <2>1, <2>2 DEF Claimed
<1>6. SlotsInv
  BY <1>5 DEF SlotsInv, Init
<1>7. First = 0 /\ NextFree = 0
  BY <1>2 DEF Init, First, NextFree
<1>8. RingInv
  <2>1. 0 \in 0 .. 2 * MaxSize - 1 /\ 0 < MaxSize
    OBVIOUS
  <2>2. 0 % MaxSize = 0
    BY <2>1, Modulo
  <2> QED BY <1>5, <1>7, <2>2 DEF RingInv
<1>9. ItemsInv /\ CallsInv
  BY <1>5 DEF Init, ItemsInv, CallsInv, Threads
<1> QED BY <1>3, <1>4, <1>6, <1>8, <1>9 DEF BufferInv

(* A step outside the ring that passes on its claim to a slot or an item.    *)
LEMMA SemaphoreStep ==
  ASSUME BufferInv, NEW t \in Threads, NEW from, NEW to, Goto(t, from, to),
         from # "advance", to # "advance", UNCHANGED <<queue, head, tail>>,
         fullSem' \in Nat, emptySem' \in Nat,
         emptySem' + fullSem' + Gain(Before \cup Behind, from, to) = emptySem + fullSem,
         fullSem' + (IF t \in Producers THEN Gain(Behind, from, to)
                                        ELSE Gain(Before, from, to)) = fullSem
  PROVE  /\ UNCHANGED <<Stored, First, queue>> /\ SlotsInv' /\ RingInv'
         /\ \A k \in 1 .. Stored' : queue'[(First' + k - 1) % MaxSize] \in Items
<1>1. /\ Gain(Before \cup Behind, from, to) \in Int
      /\ Gain(Behind, from, to) \in Int /\ Gain(Before, from, to) \in Int
      /\ t \in Producers <=> t \notin Consumers
  BY BufferAssumption DEF Gain, Threads
<1>2. /\ fullSem \in Nat /\ emptySem \in Nat /\ Stored \in Nat
      /\ Claimed(Producers) \in Nat /\ Claimed(Consumers) \in Nat
  BY Accounting DEF BufferInv, TypeOK
<1>3. Stored' = Stored
  <2>1. Stored' = Stored + (fullSem' - fullSem)
                         + (IF t \in Producers THEN Gain(Behind, from, to)
                                               ELSE Gain(Before, from, to))
    BY Counts
  <2> QED BY <1>1, <1>2, <2>1
<1>4. SlotsInv'
  <2>1. /\ Claimed(Producers)' = Claimed(Producers) +
              (IF t \in Producers THEN Gain(Before \cup Behind, from, to) ELSE 0)
        /\ Claimed(Consumers)' = Claimed(Consumers) +
              (IF t \in Consumers THEN Gain(Before \cup Behind, from, to) ELSE 0)
    BY Counts
  <2>2. emptySem + fullSem + Claimed(Producers) + Claimed(Consumers) = MaxSize
    BY DEF BufferInv, SlotsInv
  <2> QED BY <1>1, <1>2, <2>1, <2>2 DEF SlotsInv
<1>5. /\ At(Producers, {"advance"})' = At(Producers, {"advance"})
      /\ At(Consumers, {"advance"})' = At(Consumers, {"advance"})
  BY DEF At, Goto, BufferInv, TypeOK, Threads
<1> QED BY <1>3, <1>4, <1>5, RingUntouched

LEMMA WaitEmptyStutters ==
  ASSUME BufferInv, NEW p \in Producers, WaitEmpty(p)
  PROVE  /\ UNCHANGED <<Stored, First, queue, val>> /\ SlotsInv' /\ RingInv'
         /\ \A k \in 1 .. Stored' : queue'[(First' + k - 1) % MaxSize] \in Items
<1>1. /\ p \in Threads /\ Goto(p, "wait", "lock")
      /\ UNCHANGED <<queue, head, tail, val>>
      /\ fullSem' \in Nat /\ fullSem' = fullSem /\ emptySem' = emptySem - 1
      /\ fullSem \in Nat /\ emptySem \in Nat /\ emptySem' \in Nat
  BY DEF WaitEmpty, BufferInv, TypeOK, Threads
<1>2. /\ Gain(Before \cup Behind, "wait", "lock") = 1
      /\ Gain(Behind, "wait", "lock") = 0
      /\ Gain(Before, "wait", "lock") = 1
  BY DEF Gain, Before, Behind
<1>3. /\ emptySem' + fullSem' + Gain(Before \cup Behind, "wait", "lock") = emptySem + fullSem
      /\ fullSem' + (IF p \in Producers THEN Gain(Behind, "wait", "lock")
                                  ELSE Gain(Before, "wait", "lock")) = fullSem
  BY <1>1, <1>2, BufferAssumption
<1> QED BY <1>1, <1>3, SemaphoreStep

LEMMA WaitEmptyStep == ASSUME BufferInv, NEW p \in Producers, WaitEmpty(p) PROVE BufferInv'
<1> USE BufferAssumption DEF Threads
<1>1. /\ pc[p] = "wait" /\ pc' = [pc EXCEPT ![p] = "lock"]
      /\ p \in Threads /\ p \notin Consumers
  BY DEF WaitEmpty, Goto
<1>2. TypeOK'
  BY <1>1, Accounting DEF WaitEmpty, BufferInv, TypeOK, Before, Behind
<1>3. MutexInv'
  BY <1>1 DEF WaitEmpty, BufferInv, MutexInv, TypeOK, Inside
<1>4. SlotsInv' /\ RingInv'
  BY WaitEmptyStutters
<1>5. ItemsInv'
  BY <1>1, WaitEmptyStutters DEF WaitEmpty, BufferInv, ItemsInv, TypeOK
<1>6. CallsInv'
  BY <1>1 DEF WaitEmpty, BufferInv, CallsInv, TypeOK
<1> QED BY <1>2, <1>3, <1>4, <1>5, <1>6 DEF BufferInv

LEMMA WaitFullStutters ==
  ASSUME BufferInv, NEW c \in Consumers, WaitFull(c)
  PROVE  /\ UNCHANGED <<Stored, First, queue, val>> /\ SlotsInv' /\ RingInv'
         /\ \A k \in 1 .. Stored' : queue'[(First' + k - 1) % MaxSize] \in Items
<1>1. /\ c \in Threads /\ Goto(c, "wait", "lock")
      /\ UNCHANGED <<queue, head, tail, val>>
      /\ fullSem' \in Nat /\ fullSem' = fullSem - 1 /\ emptySem' = emptySem
      /\ fullSem \in Nat /\ emptySem \in Nat /\ emptySem' \in Nat
  BY DEF WaitFull, BufferInv, TypeOK, Threads
<1>2. /\ Gain(Before \cup Behind, "wait", "lock") = 1
      /\ Gain(Behind, "wait", "lock") = 0
      /\ Gain(Before, "wait", "lock") = 1
  BY DEF Gain, Before, Behind
<1>3. /\ emptySem' + fullSem' + Gain(Before \cup Behind, "wait", "lock") = emptySem + fullSem
      /\ fullSem' + (IF c \in Producers THEN Gain(Behind, "wait", "lock")
                                  ELSE Gain(Before, "wait", "lock")) = fullSem
  BY <1>1, <1>2, BufferAssumption
<1> QED BY <1>1, <1>3, SemaphoreStep

LEMMA WaitFullStep == ASSUME BufferInv, NEW c \in Consumers, WaitFull(c) PROVE BufferInv'
<1> USE BufferAssumption DEF Threads
<1>1. /\ pc[c] = "wait" /\ pc' = [pc EXCEPT ![c] = "lock"]
      /\ c \in Threads /\ c \notin Producers
  BY DEF WaitFull, Goto
<1>2. TypeOK'
  BY <1>1, Accounting DEF WaitFull, BufferInv, TypeOK, Before, Behind
<1>3. MutexInv'
  BY <1>1 DEF WaitFull, BufferInv, MutexInv, TypeOK, Inside
<1>4. SlotsInv' /\ RingInv'
  BY WaitFullStutters
<1>5. ItemsInv'
  BY <1>1, WaitFullStutters DEF WaitFull, BufferInv, ItemsInv, TypeOK
<1>6. CallsInv'
  BY <1>1 DEF WaitFull, BufferInv, CallsInv, TypeOK
<1> QED BY <1>2, <1>3, <1>4, <1>5, <1>6 DEF BufferInv

LEMMA PostFullStutters ==
  ASSUME BufferInv, NEW p \in Producers, PostFull(p)
  PROVE  /\ UNCHANGED <<Stored, First, queue, val>> /\ SlotsInv' /\ RingInv'
         /\ \A k \in 1 .. Stored' : queue'[(First' + k - 1) % MaxSize] \in Items
<1>1. /\ p \in Threads /\ Goto(p, "post", "wait")
      /\ UNCHANGED <<queue, head, tail, val>>
      /\ fullSem' \in Nat /\ fullSem' = fullSem + 1 /\ emptySem' = emptySem
      /\ fullSem \in Nat /\ emptySem \in Nat /\ emptySem' \in Nat
  BY DEF PostFull, BufferInv, TypeOK, Threads
<1>2. /\ Gain(Before \cup Behind, "post", "wait") = -1
      /\ Gain(Behind, "post", "wait") = -1
      /\ Gain(Before, "post", "wait") = 0
  BY DEF Gain, Before, Behind
<1>3. /\ emptySem' + fullSem' + Gain(Before \cup Behind, "post", "wait") = emptySem + fullSem
      /\ fullSem' + (IF p \in Producers THEN Gain(Behind, "post", "wait")
                                  ELSE Gain(Before, "post", "wait")) = fullSem
  BY <1>1, <1>2, BufferAssumption
<1> QED BY <1>1, <1>3, SemaphoreStep

LEMMA PostFullStep == ASSUME BufferInv, NEW p \in Producers, PostFull(p) PROVE BufferInv'
<1> USE BufferAssumption DEF Threads
<1>1. /\ pc[p] = "post" /\ pc' = [pc EXCEPT ![p] = "wait"]
      /\ p \in Threads /\ p \notin Consumers
  BY DEF PostFull, Goto
<1>2. TypeOK'
  BY <1>1, Accounting DEF PostFull, BufferInv, TypeOK, Before, Behind, CallsInv
<1>3. MutexInv'
  BY <1>1 DEF PostFull, BufferInv, MutexInv, TypeOK, Inside
<1>4. SlotsInv' /\ RingInv'
  BY PostFullStutters
<1>5. ItemsInv'
  BY <1>1, PostFullStutters DEF PostFull, BufferInv, ItemsInv, TypeOK
<1>6. CallsInv'
  BY <1>1 DEF PostFull, BufferInv, CallsInv, TypeOK
<1> QED BY <1>2, <1>3, <1>4, <1>5, <1>6 DEF BufferInv

LEMMA PostEmptyStutters ==
  ASSUME BufferInv, NEW c \in Consumers, PostEmpty(c)
  PROVE  /\ UNCHANGED <<Stored, First, queue, val>> /\ SlotsInv' /\ RingInv'
         /\ \A k \in 1 .. Stored' : queue'[(First' + k - 1) % MaxSize] \in Items
<1>1. /\ c \in Threads /\ Goto(c, "post", "check")
      /\ UNCHANGED <<queue, head, tail, val>>
      /\ fullSem' \in Nat /\ fullSem' = fullSem /\ emptySem' = emptySem + 1
      /\ fullSem \in Nat /\ emptySem \in Nat /\ emptySem' \in Nat
  BY DEF PostEmpty, BufferInv, TypeOK, Threads
<1>2. /\ Gain(Before \cup Behind, "post", "check") = -1
      /\ Gain(Behind, "post", "check") = -1
      /\ Gain(Before, "post", "check") = 0
  BY DEF Gain, Before, Behind
<1>3. /\ emptySem' + fullSem' + Gain(Before \cup Behind, "post", "check") = emptySem + fullSem
      /\ fullSem' + (IF c \in Producers THEN Gain(Behind, "post", "check")
                                  ELSE Gain(Before, "post", "check")) = fullSem
  BY <1>1, <1>2, BufferAssumption
<1> QED BY <1>1, <1>3, SemaphoreStep

LEMMA PostEmptyStep == ASSUME BufferInv, NEW c \in Consumers, PostEmpty(c) PROVE BufferInv'
<1> USE BufferAssumption DEF Threads
<1>1. /\ pc[c] = "post" /\ pc' = [pc EXCEPT ![c] = "check"]
      /\ c \in Threads /\ c \notin Producers
  BY DEF PostEmpty, Goto
<1>2. TypeOK'
  BY <1>1, Accounting DEF PostEmpty, BufferInv, TypeOK, Before, Behind
<1>3. MutexInv'
  BY <1>1 DEF PostEmpty, BufferInv, MutexInv, TypeOK, Inside
<1>4. SlotsInv' /\ RingInv'
  BY PostEmptyStutters
<1>5. ItemsInv'
  BY <1>1, PostEmptyStutters DEF PostEmpty, BufferInv, ItemsInv, TypeOK
<1>6. CallsInv'
  BY <1>1 DEF PostEmpty, BufferInv, CallsInv, TypeOK
<1> QED BY <1>2, <1>3, <1>4, <1>5, <1>6 DEF BufferInv

LEMMA CheckStutters ==
  ASSUME BufferInv, NEW c \in Consumers, Check(c)
  PROVE  /\ UNCHANGED <<Stored, First, queue, val>> /\ SlotsInv' /\ RingInv'
         /\ \A k \in 1 .. Stored' : queue'[(First' + k - 1) % MaxSize] \in Items
<1>1. /\ c \in Threads /\ Goto(c, "check", "wait")
      /\ UNCHANGED <<queue, head, tail, val>>
      /\ fullSem' \in Nat /\ fullSem' = fullSem /\ emptySem' = emptySem
      /\ fullSem \in Nat /\ emptySem \in Nat /\ emptySem' \in Nat
  BY DEF Check, BufferInv, TypeOK, Threads
<1>2. /\ Gain(Before \cup Behind, "check", "wait") = 0
      /\ Gain(Behind, "check", "wait") = 0
      /\ Gain(Before, "check", "wait") = 0
  BY DEF Gain, Before, Behind
<1>3. /\ emptySem' + fullSem' + Gain(Before \cup Behind, "check", "wait") = emptySem + fullSem
      /\ fullSem' + (IF c \in Producers THEN Gain(Behind, "check", "wait")
                                  ELSE Gain(Before, "check", "wait")) = fullSem
  BY <1>1, <1>2, BufferAssumption
<1> QED BY <1>1, <1>3, SemaphoreStep

LEMMA CheckStep == ASSUME BufferInv, NEW c \in Consumers, Check(c) PROVE BufferInv'
<1> USE BufferAssumption DEF Threads
<1>1. /\ pc[c] = "check" /\ pc' = [pc EXCEPT ![c] = "wait"]
      /\ c \in Threads /\ c \notin Producers
  BY DEF Check, Goto
<1>2. TypeOK'
  <2>1. val[c] \in Items /\ i[c] + 1 \in 0 .. N
    BY <1>1 DEF BufferInv, ItemsInv, CallsInv, TypeOK
  <2> QED BY <1>1, <2>1 DEF Check, BufferInv, TypeOK
<1>3. MutexInv'
  BY <1>1 DEF Check, BufferInv, MutexInv, TypeOK, Inside
<1>4. SlotsInv' /\ RingInv'
  BY CheckStutters
<1>5. ItemsInv'
  BY <1>1, CheckStutters DEF Check, BufferInv, ItemsInv, TypeOK
<1>6. CallsInv'
  BY <1>1 DEF Check, BufferInv, CallsInv, TypeOK
<1> QED BY <1>2, <1>3, <1>4, <1>5, <1>6 DEF BufferInv

LEMMA LockStutters ==
  ASSUME BufferInv, NEW t \in Threads, Lock(t)
  PROVE  /\ UNCHANGED <<Stored, First, queue, val>> /\ SlotsInv' /\ RingInv'
         /\ \A k \in 1 .. Stored' : queue'[(First' + k - 1) % MaxSize] \in Items
<1>1. /\ t \in Threads /\ Goto(t, "lock", "access")
      /\ UNCHANGED <<queue, head, tail, val>>
      /\ fullSem' \in Nat /\ fullSem' = fullSem /\ emptySem' = emptySem
      /\ fullSem \in Nat /\ emptySem \in Nat /\ emptySem' \in Nat
  BY DEF Lock, BufferInv, TypeOK, Threads
<1>2. /\ Gain(Before \cup Behind, "lock", "access") = 0
      /\ Gain(Behind, "lock", "access") = 0
      /\ Gain(Before, "lock", "access") = 0
  BY DEF Gain, Before, Behind
<1>3. /\ emptySem' + fullSem' + Gain(Before \cup Behind, "lock", "access") = emptySem + fullSem
      /\ fullSem' + (IF t \in Producers THEN Gain(Behind, "lock", "access")
                                  ELSE Gain(Before, "lock", "access")) = fullSem
  BY <1>1, <1>2, BufferAssumption
<1> QED BY <1>1, <1>3, SemaphoreStep

LEMMA LockStep == ASSUME BufferInv, NEW t \in Threads, Lock(t) PROVE BufferInv'
<1> USE BufferAssumption DEF Threads
<1>1. /\ pc[t] = "lock" /\ pc' = [pc EXCEPT ![t] = "access"]
      /\ t \in Threads /\ (t \in Producers <=> t \notin Consumers)
  BY DEF Lock, Goto
<1>2. TypeOK'
  BY <1>1, Accounting DEF Lock, BufferInv, TypeOK, Before, Behind
<1>3. MutexInv'
  BY <1>1 DEF Lock, BufferInv, MutexInv, TypeOK, Inside
<1>4. SlotsInv' /\ RingInv'
  BY LockStutters
<1>5. ItemsInv'
  BY <1>1, LockStutters DEF Lock, BufferInv, ItemsInv, TypeOK
<1>6. CallsInv'
  BY <1>1 DEF Lock, BufferInv, CallsInv, TypeOK
<1> QED BY <1>2, <1>3, <1>4, <1>5, <1>6 DEF BufferInv

LEMMA UnlockStutters ==
  ASSUME BufferInv, NEW t \in Threads, Unlock(t)
  PROVE  /\ UNCHANGED <<Stored, First, queue, val>> /\ SlotsInv' /\ RingInv'
         /\ \A k \in 1 .. Stored' : queue'[(First' + k - 1) % MaxSize] \in Items
<1>1. /\ t \in Threads /\ Goto(t, "unlock", "post")
      /\ UNCHANGED <<queue, head, tail, val>>
      /\ fullSem' \in Nat /\ fullSem' = fullSem /\ emptySem' = emptySem
      /\ fullSem \in Nat /\ emptySem \in Nat /\ emptySem' \in Nat
  BY DEF Unlock, BufferInv, TypeOK, Threads
<1>2. /\ Gain(Before \cup Behind, "unlock", "post") = 0
      /\ Gain(Behind, "unlock", "post") = 0
      /\ Gain(Before, "unlock", "post") = 0
  BY DEF Gain, Before, Behind
<1>3. /\ emptySem' + fullSem' + Gain(Before \cup Behind, "unlock", "post") = emptySem + fullSem
      /\ fullSem' + (IF t \in Producers THEN Gain(Behind, "unlock", "post")
                                  ELSE Gain(Before, "unlock", "post")) = fullSem
  BY <1>1, <1>2, BufferAssumption
<1> QED BY <1>1, <1>3, SemaphoreStep

LEMMA UnlockStep == ASSUME BufferInv, NEW t \in Threads, Unlock(t) PROVE BufferInv'
<1> USE BufferAssumption DEF Threads
<1>1. /\ pc[t] = "unlock" /\ pc' = [pc EXCEPT ![t] = "post"]
      /\ t \in Threads /\ (t \in Producers <=> t \notin Consumers)
  BY DEF Unlock, Goto
<1>2. TypeOK'
  BY <1>1, Accounting DEF Unlock, BufferInv, TypeOK, Before, Behind
<1>3. MutexInv'
  BY <1>1 DEF Unlock, BufferInv, MutexInv, TypeOK, Inside
<1>4. SlotsInv' /\ RingInv'
  BY UnlockStutters
<1>5. ItemsInv'
  BY <1>1, UnlockStutters DEF Unlock, BufferInv, ItemsInv, TypeOK
<1>6. CallsInv'
  BY <1>1 DEF Unlock, BufferInv, CallsInv, TypeOK
<1> QED BY <1>2, <1>3, <1>4, <1>5, <1>6 DEF BufferInv

-----------------------------------------------------------------------------
(* The four statements that move the ring, each by the one thread inside.    *)

Slot(k) == (First + k - 1) % MaxSize

LEMMA AtOne ==
  ASSUME BufferInv, NEW t \in Threads, NEW S \in SUBSET Threads, pc[t] \in Inside
  PROVE  At(S, {"advance"}) = IF t \in S /\ pc[t] = "advance" THEN {t} ELSE {}
<1>1. \A u \in Threads : pc[u] = "advance" => u = t
  BY Alone DEF Inside
<1> QED BY <1>1 DEF At

LEMMA FirstInRing == ASSUME BufferInv
                     PROVE  First \in Ring /\ head \in Ring /\ tail \in Ring /\ NextFree \in Ring
BY SuccInRing DEF First, NextFree, BufferInv, TypeOK, Ring

LEMMA StoreRing ==
  ASSUME BufferInv, NEW p \in Producers, Store(p)
  PROVE  /\ Stored < MaxSize /\ Stored' = Stored + 1
         /\ First' = First /\ RingInv'
         /\ \A k \in 1 .. Stored : Slot(k) # tail /\ Slot(k) \in Ring
         /\ Slot(Stored + 1) = tail
<1> USE BufferAssumption
<1>1. /\ Goto(p, "access", "advance") /\ pc[p] = "access"
      /\ pc' = [pc EXCEPT ![p] = "advance"]
      /\ p \in Threads /\ p \notin Consumers
      /\ UNCHANGED <<head, tail, emptySem, fullSem>>
      /\ fullSem' \in Nat /\ fullSem \in Nat
  BY DEF Store, Goto, Threads, BufferInv, TypeOK
<1>2. Gain(Behind, "access", "advance") = 1
  BY DEF Gain, Behind
<1>3. Stored' = Stored + (fullSem' - fullSem) + Gain(Behind, "access", "advance")
  BY <1>1, Counts
<1>4. Stored \in Nat /\ Stored < MaxSize
  BY <1>1, Accounting DEF Before, BufferInv, TypeOK
<1>5. Stored' = Stored + 1
  BY <1>1, <1>2, <1>3, <1>4
<1>6. /\ At(Producers, {"advance"}) = {} /\ At(Consumers, {"advance"}) = {}
      /\ At(Producers, {"advance"})' = {p} /\ At(Consumers, {"advance"})' = {}
  <2>1. \A u \in Threads : pc[u] # "advance" /\ (pc'[u] = "advance" <=> u = p)
    BY <1>1, Alone DEF Inside, BufferInv, TypeOK
  <2> QED BY <2>1 DEF At, Threads
<1>7. /\ First = head /\ First' = head /\ NextFree = tail /\ NextFree' = Succ(tail)
      /\ head \in Ring /\ tail \in Ring
  BY <1>1, <1>6, FirstInRing DEF First, NextFree, Succ
<1>8. (head + Stored) % MaxSize = tail
  BY <1>7 DEF BufferInv, RingInv
<1>9. \A x \in 0 .. 2 * MaxSize - 1 : x % MaxSize = IF x < MaxSize THEN x ELSE x - MaxSize
  BY Modulo
<1>10. head + Stored \in 0 .. 2 * MaxSize - 1 /\ head + Stored + 1 \in 0 .. 2 * MaxSize - 1
  BY <1>4, <1>7 DEF Ring
<1>11. (head + (Stored + 1)) % MaxSize = Succ(tail)
  <2>1. head + (Stored + 1) = head + Stored + 1
    BY <1>4, <1>7 DEF Ring
  <2>2. (head + Stored) % MaxSize =
          IF head + Stored < MaxSize THEN head + Stored ELSE head + Stored - MaxSize
    BY <1>4, <1>7, <1>10, Modulo DEF Ring
  <2>3. (head + Stored + 1) % MaxSize =
          IF head + Stored + 1 < MaxSize THEN head + Stored + 1 ELSE head + Stored + 1 - MaxSize
    BY <1>4, <1>7, <1>10, Modulo DEF Ring
  <2>4. Succ(tail) = IF tail = MaxSize - 1 THEN 0 ELSE tail + 1
    BY <1>7, SuccInRing
  <2> QED BY <1>4, <1>7, <1>8, <2>1, <2>2, <2>3, <2>4 DEF Ring
<1>12. ASSUME NEW k \in 1 .. Stored PROVE Slot(k) # tail /\ Slot(k) \in Ring
  <2>1. head + k - 1 \in 0 .. 2 * MaxSize - 1
    BY <1>4, <1>7 DEF Ring
  <2>2. Slot(k) = IF head + k - 1 < MaxSize THEN head + k - 1 ELSE head + k - 1 - MaxSize
    <3>1. Slot(k) = (head + k - 1) % MaxSize
      BY <1>7 DEF Slot
    <3> QED BY <1>4, <1>7, <2>1, <3>1, Modulo DEF Ring
  <2>3. (head + Stored) % MaxSize =
          IF head + Stored < MaxSize THEN head + Stored ELSE head + Stored - MaxSize
    BY <1>4, <1>7, <1>10, Modulo DEF Ring
  <2> QED BY <1>4, <1>7, <1>8, <2>2, <2>3 DEF Ring
<1>13. Slot(Stored + 1) = tail
  <2>1. head + (Stored + 1) - 1 = head + Stored
    BY <1>4, <1>7 DEF Ring
  <2> QED BY <1>7, <1>8, <2>1 DEF Slot
<1> QED BY <1>4, <1>5, <1>7, <1>11, <1>12, <1>13 DEF RingInv

LEMMA LoadRing ==
  ASSUME BufferInv, NEW c \in Consumers, Load(c)
  PROVE  /\ Stored > 0 /\ Stored' = Stored - 1
         /\ First' = Succ(First) /\ RingInv'
         /\ \A k \in 1 .. Stored' : Slot(k)' = Slot(k + 1)
         /\ Slot(1) = head
<1> USE BufferAssumption
<1>1. /\ Goto(c, "access", "advance") /\ pc[c] = "access"
      /\ pc' = [pc EXCEPT ![c] = "advance"]
      /\ c \in Threads /\ c \notin Producers
      /\ UNCHANGED <<head, tail, emptySem, fullSem>>
      /\ fullSem' \in Nat /\ fullSem \in Nat
  BY DEF Load, Goto, Threads, BufferInv, TypeOK
<1>2. Gain(Before, "access", "advance") = -1
  BY DEF Gain, Before
<1>3. Stored' = Stored + (fullSem' - fullSem) + Gain(Before, "access", "advance")
  BY <1>1, Counts
<1>4. Stored \in Nat /\ Stored > 0 /\ Stored <= MaxSize
  BY <1>1, Accounting DEF Before, BufferInv, TypeOK
<1>5. Stored' = Stored - 1
  BY <1>1, <1>2, <1>3, <1>4
<1>6. /\ At(Producers, {"advance"}) = {} /\ At(Consumers, {"advance"}) = {}
      /\ At(Producers, {"advance"})' = {} /\ At(Consumers, {"advance"})' = {c}
  <2>1. \A u \in Threads : pc[u] # "advance" /\ (pc'[u] = "advance" <=> u = c)
    BY <1>1, Alone DEF Inside, BufferInv, TypeOK
  <2> QED BY <1>1, <2>1 DEF At, Threads
<1>7. /\ First = head /\ First' = Succ(head) /\ NextFree = tail /\ NextFree' = tail
      /\ head \in Ring /\ tail \in Ring
  BY <1>1, <1>6, FirstInRing DEF First, NextFree, Succ
<1>8. (head + Stored) % MaxSize = tail
  BY <1>7 DEF BufferInv, RingInv
<1>9. \A x \in 0 .. 2 * MaxSize - 1 : x % MaxSize = IF x < MaxSize THEN x ELSE x - MaxSize
  BY Modulo
<1>10. Succ(head) \in Ring /\ Succ(head) = IF head = MaxSize - 1 THEN 0 ELSE head + 1
  BY <1>7, SuccInRing
<1>11. ASSUME NEW k \in 0 .. Stored - 1
       PROVE  (Succ(head) + k) % MaxSize = (head + (k + 1)) % MaxSize
  <2>1. /\ head + (k + 1) \in 0 .. 2 * MaxSize - 1
        /\ Succ(head) + k \in 0 .. 2 * MaxSize - 1
    BY <1>4, <1>7, <1>10 DEF Ring
  <2> QED BY <1>4, <1>7, <1>9, <1>10, <2>1 DEF Ring
<1>12. (Succ(head) + (Stored - 1)) % MaxSize = tail
  <2>1. Stored - 1 \in 0 .. Stored - 1 /\ (Stored - 1) + 1 = Stored
    BY <1>4
  <2> QED BY <1>8, <1>11, <2>1
<1>13. ASSUME NEW k \in 1 .. Stored' PROVE Slot(k)' = Slot(k + 1)
  <2>1. /\ k - 1 \in 0 .. Stored - 1
        /\ Succ(head) + k - 1 = Succ(head) + (k - 1)
        /\ head + (k + 1) - 1 = head + ((k - 1) + 1)
    BY <1>4, <1>5, <1>7, <1>10 DEF Ring
  <2>2. Slot(k)' = (Succ(head) + k - 1) % MaxSize
    BY <1>7 DEF Slot
  <2>3. Slot(k + 1) = (head + (k + 1) - 1) % MaxSize
    BY <1>7 DEF Slot
  <2> QED BY <1>11, <2>1, <2>2, <2>3
<1>14. Slot(1) = head
  <2>1. head + 1 - 1 = head /\ head \in 0 .. 2 * MaxSize - 1
    BY <1>7 DEF Ring
  <2> QED BY <1>7, <1>9, <2>1 DEF Slot, Ring
<1> QED BY <1>4, <1>5, <1>7, <1>12, <1>13, <1>14 DEF RingInv

LEMMA AdvanceTailRing ==
  ASSUME BufferInv, NEW p \in Producers, AdvanceTail(p)
  PROVE  /\ Stored' = Stored /\ First' = First /\ RingInv'
         /\ \A k \in 1 .. Stored' : queue'[(First' + k - 1) % MaxSize] \in Items
<1> USE BufferAssumption
<1>1. /\ Goto(p, "advance", "unlock") /\ pc[p] = "advance"
      /\ pc' = [pc EXCEPT ![p] = "unlock"]
      /\ p \in Threads /\ p \notin Consumers
      /\ UNCHANGED <<queue, head, emptySem, fullSem>> /\ tail' = Succ(tail)
      /\ fullSem' \in Nat /\ fullSem \in Nat
  BY DEF AdvanceTail, Goto, Threads, BufferInv, TypeOK
<1>2. Stored' = Stored
  <2>1. Gain(Before, "advance", "unlock") = 0 /\ Gain(Behind, "advance", "unlock") = 0
    BY DEF Gain, Before, Behind
  <2>2. Stored' = Stored + (fullSem' - fullSem) + (IF p \in Producers
            THEN Gain(Behind, "advance", "unlock") ELSE Gain(Before, "advance", "unlock"))
    BY <1>1, Counts
  <2>3. Stored \in Nat
    BY Accounting DEF BufferInv, TypeOK
  <2> QED BY <1>1, <2>1, <2>2, <2>3
<1>3. /\ At(Producers, {"advance"}) = {p} /\ At(Consumers, {"advance"}) = {}
      /\ At(Producers, {"advance"})' = {} /\ At(Consumers, {"advance"})' = {}
  <2>1. \A u \in Threads : (pc[u] = "advance" <=> u = p) /\ pc'[u] # "advance"
    BY <1>1, Alone DEF Inside, BufferInv, TypeOK
  <2> QED BY <1>1, <2>1 DEF At, Threads
<1>4. First' = First /\ NextFree' = NextFree
  BY <1>1, <1>3 DEF First, NextFree, Succ
<1> QED BY <1>1, <1>2, <1>4 DEF BufferInv, RingInv, ItemsInv

LEMMA AdvanceHeadRing ==
  ASSUME BufferInv, NEW c \in Consumers, AdvanceHead(c)
  PROVE  /\ Stored' = Stored /\ First' = First /\ RingInv'
         /\ \A k \in 1 .. Stored' : queue'[(First' + k - 1) % MaxSize] \in Items
<1> USE BufferAssumption
<1>1. /\ Goto(c, "advance", "unlock") /\ pc[c] = "advance"
      /\ pc' = [pc EXCEPT ![c] = "unlock"]
      /\ c \in Threads /\ c \notin Producers
      /\ UNCHANGED <<queue, tail, emptySem, fullSem>> /\ head' = Succ(head)
      /\ fullSem' \in Nat /\ fullSem \in Nat
  BY DEF AdvanceHead, Goto, Threads, BufferInv, TypeOK
<1>2. Stored' = Stored
  <2>1. Gain(Before, "advance", "unlock") = 0 /\ Gain(Behind, "advance", "unlock") = 0
    BY DEF Gain, Before, Behind
  <2>2. Stored' = Stored + (fullSem' - fullSem) + (IF c \in Producers
            THEN Gain(Behind, "advance", "unlock") ELSE Gain(Before, "advance", "unlock"))
    BY <1>1, Counts
  <2>3. Stored \in Nat
    BY Accounting DEF BufferInv, TypeOK
  <2> QED BY <1>1, <2>1, <2>2, <2>3
<1>3. /\ At(Consumers, {"advance"}) = {c} /\ At(Producers, {"advance"}) = {}
      /\ At(Consumers, {"advance"})' = {} /\ At(Producers, {"advance"})' = {}
  <2>1. \A u \in Threads : (pc[u] = "advance" <=> u = c) /\ pc'[u] # "advance"
    BY <1>1, Alone DEF Inside, BufferInv, TypeOK
  <2> QED BY <1>1, <2>1 DEF At, Threads
<1>4. First' = First /\ NextFree' = NextFree
  BY <1>1, <1>3 DEF First, NextFree, Succ
<1> QED BY <1>1, <1>2, <1>4 DEF BufferInv, RingInv, ItemsInv

LEMMA AdvanceTailStep == ASSUME BufferInv, NEW p \in Producers, AdvanceTail(p) PROVE BufferInv'
<1> USE BufferAssumption DEF Threads
<1>1. /\ Goto(p, "advance", "unlock") /\ pc[p] = "advance" /\ pc' = [pc EXCEPT ![p] = "unlock"]
      /\ p \in Threads /\ p \notin Consumers
      /\ UNCHANGED <<mutex, emptySem, fullSem>> /\ fullSem' \in Nat
      /\ head \in Ring /\ tail \in Ring
  BY FirstInRing DEF AdvanceTail, Goto, BufferInv, TypeOK
<1>2. Claimed(Producers)' = Claimed(Producers) /\ Claimed(Consumers)' = Claimed(Consumers)
  <2>1. Gain(Before \cup Behind, "advance", "unlock") = 0
    BY DEF Gain, Before, Behind
  <2>2. /\ Claimed(Producers)' = Claimed(Producers) +
             (IF p \in Producers THEN Gain(Before \cup Behind, "advance", "unlock") ELSE 0)
        /\ Claimed(Consumers)' = Claimed(Consumers) +
             (IF p \in Consumers THEN Gain(Before \cup Behind, "advance", "unlock") ELSE 0)
    BY <1>1, Counts
  <2>3. Claimed(Producers) \in Nat /\ Claimed(Consumers) \in Nat
    BY Accounting
  <2> QED BY <2>1, <2>2, <2>3
<1>3. TypeOK'
  BY <1>1, SuccInRing DEF AdvanceTail, BufferInv, TypeOK, Ring
<1>4. MutexInv'
  BY <1>1 DEF BufferInv, MutexInv, TypeOK, Inside
<1>5. SlotsInv'
  BY <1>1, <1>2 DEF BufferInv, SlotsInv
<1>6. RingInv'
  BY AdvanceTailRing
<1>7. ItemsInv'
  BY <1>1, AdvanceTailRing DEF AdvanceTail, BufferInv, ItemsInv, TypeOK
<1>8. CallsInv'
  BY <1>1 DEF AdvanceTail, BufferInv, CallsInv, TypeOK
<1> QED BY <1>3, <1>4, <1>5, <1>6, <1>7, <1>8 DEF BufferInv

LEMMA AdvanceHeadStep == ASSUME BufferInv, NEW c \in Consumers, AdvanceHead(c) PROVE BufferInv'
<1> USE BufferAssumption DEF Threads
<1>1. /\ Goto(c, "advance", "unlock") /\ pc[c] = "advance" /\ pc' = [pc EXCEPT ![c] = "unlock"]
      /\ c \in Threads /\ c \notin Producers
      /\ UNCHANGED <<mutex, emptySem, fullSem>> /\ fullSem' \in Nat
      /\ head \in Ring /\ tail \in Ring
  BY FirstInRing DEF AdvanceHead, Goto, BufferInv, TypeOK
<1>2. Claimed(Producers)' = Claimed(Producers) /\ Claimed(Consumers)' = Claimed(Consumers)
  <2>1. Gain(Before \cup Behind, "advance", "unlock") = 0
    BY DEF Gain, Before, Behind
  <2>2. /\ Claimed(Producers)' = Claimed(Producers) +
             (IF c \in Producers THEN Gain(Before \cup Behind, "advance", "unlock") ELSE 0)
        /\ Claimed(Consumers)' = Claimed(Consumers) +
             (IF c \in Consumers THEN Gain(Before \cup Behind, "advance", "unlock") ELSE 0)
    BY <1>1, Counts
  <2>3. Claimed(Producers) \in Nat /\ Claimed(Consumers) \in Nat
    BY Accounting
  <2> QED BY <2>1, <2>2, <2>3
<1>3. TypeOK'
  BY <1>1, SuccInRing DEF AdvanceHead, BufferInv, TypeOK, Ring
<1>4. MutexInv'
  BY <1>1 DEF BufferInv, MutexInv, TypeOK, Inside
<1>5. SlotsInv'
  BY <1>1, <1>2 DEF BufferInv, SlotsInv
<1>6. RingInv'
  BY AdvanceHeadRing
<1>7. ItemsInv'
  BY <1>1, AdvanceHeadRing DEF AdvanceHead, BufferInv, ItemsInv, TypeOK
<1>8. CallsInv'
  BY <1>1 DEF AdvanceHead, BufferInv, CallsInv, TypeOK
<1> QED BY <1>3, <1>4, <1>5, <1>6, <1>7, <1>8 DEF BufferInv

LEMMA StoreStep == ASSUME BufferInv, NEW p \in Producers, Store(p) PROVE BufferInv'
<1> USE BufferAssumption DEF Threads
<1>1. /\ Goto(p, "access", "advance") /\ pc[p] = "access" /\ pc' = [pc EXCEPT ![p] = "advance"]
      /\ p \in Threads /\ p \notin Consumers
      /\ UNCHANGED <<mutex, emptySem, fullSem>> /\ fullSem' \in Nat
      /\ head \in Ring /\ tail \in Ring
  BY FirstInRing DEF Store, Goto, BufferInv, TypeOK
<1>2. Claimed(Producers)' = Claimed(Producers) /\ Claimed(Consumers)' = Claimed(Consumers)
  <2>1. Gain(Before \cup Behind, "access", "advance") = 0
    BY DEF Gain, Before, Behind
  <2>2. /\ Claimed(Producers)' = Claimed(Producers) +
             (IF p \in Producers THEN Gain(Before \cup Behind, "access", "advance") ELSE 0)
        /\ Claimed(Consumers)' = Claimed(Consumers) +
             (IF p \in Consumers THEN Gain(Before \cup Behind, "access", "advance") ELSE 0)
    BY <1>1, Counts
  <2>3. Claimed(Producers) \in Nat /\ Claimed(Consumers) \in Nat
    BY Accounting
  <2> QED BY <2>1, <2>2, <2>3
<1>3. TypeOK'
  <2>1. [by |-> p, n |-> i[p]] \in Items
    <3>1. i[p] \in 0 .. N /\ i[p] < N
      BY <1>1 DEF BufferInv, TypeOK, CallsInv
    <3> QED BY <3>1 DEF Items
  <2> QED BY <1>1, <2>1 DEF Store, BufferInv, TypeOK
<1>4. MutexInv'
  BY <1>1 DEF BufferInv, MutexInv, TypeOK, Inside
<1>5. SlotsInv'
  BY <1>1, <1>2 DEF BufferInv, SlotsInv
<1>6. RingInv'
  BY StoreRing
<1>7. ItemsInv'
  <2>1. [by |-> p, n |-> i[p]] \in Items
    <3>1. i[p] \in 0 .. N /\ i[p] < N
      BY <1>1 DEF BufferInv, TypeOK, CallsInv
    <3> QED BY <3>1 DEF Items
  <2>2. queue' = [queue EXCEPT ![tail] = [by |-> p, n |-> i[p]]] /\ tail \in DOMAIN queue
    BY <1>1 DEF Store, BufferInv, TypeOK, Ring
  <2>3. ASSUME NEW k \in 1 .. Stored' PROVE queue'[(First' + k - 1) % MaxSize] \in Items
    <3>1. /\ Stored' = Stored + 1 /\ First' = First /\ Stored \in Nat
          /\ \A j \in 1 .. Stored : Slot(j) # tail /\ Slot(j) \in Ring
          /\ Slot(Stored + 1) = tail
      BY StoreRing, Accounting DEF BufferInv, TypeOK
    <3>2. (First' + k - 1) % MaxSize = Slot(k)
      BY <3>1 DEF Slot
    <3>3. CASE k \in 1 .. Stored
      <4>1. queue[Slot(k)] \in Items /\ Slot(k) # tail /\ Slot(k) \in DOMAIN queue
        BY <3>1, <3>3 DEF BufferInv, ItemsInv, Slot, TypeOK, Ring
      <4> QED BY <2>2, <3>2, <4>1
    <3>4. CASE k = Stored + 1
      BY <2>1, <2>2, <3>1, <3>2, <3>4
    <3> QED BY <3>1, <3>3, <3>4
  <2> QED BY <1>1, <2>3 DEF Store, BufferInv, ItemsInv, TypeOK
<1>8. CallsInv'
  BY <1>1 DEF Store, BufferInv, CallsInv, TypeOK
<1> QED BY <1>3, <1>4, <1>5, <1>6, <1>7, <1>8 DEF BufferInv

LEMMA LoadStep == ASSUME BufferInv, NEW c \in Consumers, Load(c) PROVE BufferInv'
<1> USE BufferAssumption DEF Threads
<1>1. /\ Goto(c, "access", "advance") /\ pc[c] = "access" /\ pc' = [pc EXCEPT ![c] = "advance"]
      /\ c \in Threads /\ c \notin Producers
      /\ UNCHANGED <<mutex, emptySem, fullSem>> /\ fullSem' \in Nat
      /\ head \in Ring /\ tail \in Ring
  BY FirstInRing DEF Load, Goto, BufferInv, TypeOK
<1>2. Claimed(Producers)' = Claimed(Producers) /\ Claimed(Consumers)' = Claimed(Consumers)
  <2>1. Gain(Before \cup Behind, "access", "advance") = 0
    BY DEF Gain, Before, Behind
  <2>2. /\ Claimed(Producers)' = Claimed(Producers) +
             (IF c \in Producers THEN Gain(Before \cup Behind, "access", "advance") ELSE 0)
        /\ Claimed(Consumers)' = Claimed(Consumers) +
             (IF c \in Consumers THEN Gain(Before \cup Behind, "access", "advance") ELSE 0)
    BY <1>1, Counts
  <2>3. Claimed(Producers) \in Nat /\ Claimed(Consumers) \in Nat
    BY Accounting
  <2> QED BY <2>1, <2>2, <2>3
<1>3. TypeOK'
  BY <1>1 DEF Load, BufferInv, TypeOK, Ring
<1>4. MutexInv'
  BY <1>1 DEF BufferInv, MutexInv, TypeOK, Inside
<1>5. SlotsInv'
  BY <1>1, <1>2 DEF BufferInv, SlotsInv
<1>6. RingInv'
  BY LoadRing
<1>7. ItemsInv'
  <2>1. /\ Stored' = Stored - 1 /\ Stored > 0 /\ Stored \in Nat
        /\ \A k \in 1 .. Stored' : Slot(k)' = Slot(k + 1)
        /\ Slot(1) = head
    BY LoadRing, Accounting DEF BufferInv, TypeOK
  <2>2. \A k \in 1 .. Stored : queue[Slot(k)] \in Items
    BY DEF BufferInv, ItemsInv, Slot
  <2>3. queue[head] \in Items
    BY <2>1, <2>2
  <2>4. \A k \in 1 .. Stored' : k + 1 \in 1 .. Stored
    BY <2>1
  <2>5. queue' = queue /\ val' = [val EXCEPT ![c] = queue[head]]
    BY DEF Load
  <2>6. \A k \in 1 .. Stored' : queue'[(First' + k - 1) % MaxSize] \in Items
    BY <2>1, <2>2, <2>4, <2>5 DEF Slot
  <2> QED BY <1>1, <2>3, <2>5, <2>6 DEF BufferInv, ItemsInv, TypeOK
<1>8. CallsInv'
  BY <1>1 DEF Load, BufferInv, CallsInv, TypeOK
<1> QED BY <1>3, <1>4, <1>5, <1>6, <1>7, <1>8 DEF BufferInv

-----------------------------------------------------------------------------
(* Theorems.                                                                 *)

(* The inductive invariant: mutual exclusion, every slot accounted for, the  *)
(* stored items between head and tail.                                       *)
THEOREM BufferInvariant == Spec => []BufferInv
<1>1. BufferInv /\ [Next]_vars => BufferInv'
  <2> SUFFICES ASSUME BufferInv, [Next]_vars PROVE BufferInv'
    OBVIOUS
  <2>1. ASSUME NEW p \in Producers, Produce(p) PROVE BufferInv'
    BY <2>1, WaitEmptyStep, LockStep, StoreStep, AdvanceTailStep, UnlockStep, PostFullStep
       DEF Produce, Threads
  <2>2. ASSUME NEW c \in Consumers, Consume(c) PROVE BufferInv'
    BY <2>2, WaitFullStep, LockStep, LoadStep, AdvanceHeadStep, UnlockStep, PostEmptyStep,
       CheckStep DEF Consume, Threads
  <2>3. CASE UNCHANGED vars
    BY <2>3 DEF vars, BufferInv, TypeOK, MutexInv, SlotsInv, Claimed, RingInv, ItemsInv, CallsInv,
                Stored, First, NextFree, At
  <2> QED BY <2>1, <2>2, <2>3 DEF Next, Joined
<1> QED BY BufferInit, <1>1, PTL DEF Spec

(* Indices stay in the ring, semaphores between 0 and MaxSize, and only items*)
(* are ever taken.                                                           *)
THEOREM BufferTypes == Spec => []TypeOK
<1>1. BufferInv => TypeOK
  BY DEF BufferInv
<1> QED BY BufferInvariant, <1>1, PTL

-----------------------------------------------------------------------------
(* Refinement: the item is put by Store and taken by Load.                   *)

Contents == [k \in 1 .. Stored |-> queue[Slot(k)]]

ContentsOK == /\ Contents \in Seq(Items) /\ Len(Contents) = Stored /\ Stored \in Nat
              /\ \A k \in 1 .. Stored : Contents[k] = queue[Slot(k)]

LEMMA ContentsSeq == BufferInv => ContentsOK
<1> SUFFICES ASSUME BufferInv PROVE ContentsOK
  OBVIOUS
<1>1. Stored \in Nat
  BY Accounting DEF BufferInv, TypeOK
<1>2. Contents \in [1 .. Stored -> Items]
  BY DEF Contents, Slot, BufferInv, ItemsInv
<1>3. Contents \in Seq(Items)
  BY <1>1, <1>2, SeqDef
<1>4. Len(Contents) = Stored
  <2>1. DOMAIN Contents = 1 .. Len(Contents) /\ Len(Contents) \in Nat
    BY <1>3, LenProperties
  <2> QED BY <1>1, <1>2, <2>1
<1> QED BY <1>1, <1>3, <1>4 DEF Contents, ContentsOK

LEMMA StorePuts ==
  ASSUME BufferInv, BufferInv', NEW p \in Producers, Store(p)
  PROVE  Q!Put
<1> DEFINE v == [by |-> p, n |-> i[p]]
<1>1. /\ queue' = [queue EXCEPT ![tail] = v] /\ tail \in DOMAIN queue
      /\ val' = val
  BY FirstInRing DEF Store, BufferInv, TypeOK, Ring
<1>2. v \in Items
  <2>1. i[p] \in 0 .. N /\ i[p] < N
    BY DEF Store, Goto, BufferInv, TypeOK, CallsInv, Threads
  <2> QED BY <2>1, BufferAssumption DEF Items
<1> HIDE DEF v
<1>3. /\ Stored < MaxSize /\ Stored' = Stored + 1 /\ First' = First
      /\ \A k \in 1 .. Stored : Slot(k) # tail /\ Slot(k) \in DOMAIN queue
      /\ Slot(Stored + 1) = tail
  BY StoreRing DEF BufferInv, TypeOK, Ring
<1>4. /\ Contents \in Seq(Items) /\ Len(Contents) = Stored /\ Stored \in Nat
      /\ \A k \in 1 .. Stored : Contents[k] = queue[Slot(k)]
  BY ContentsSeq DEF ContentsOK
<1>5. /\ Contents' \in Seq(Items) /\ Len(Contents') = Stored + 1
      /\ \A k \in 1 .. Stored + 1 : Contents'[k] = queue'[Slot(k)']
  <2>1. BufferInv' => ContentsOK'
    BY ContentsSeq, PTL
  <2> QED BY <1>3, <2>1 DEF ContentsOK
<1>6. \A k \in 1 .. Stored + 1 : Slot(k)' = Slot(k)
  BY <1>3 DEF Slot
<1>7. /\ Append(Contents, v) \in Seq(Items) /\ Len(Append(Contents, v)) = Stored + 1
      /\ \A k \in 1 .. Stored + 1 : Append(Contents, v)[k] = IF k <= Stored THEN Contents[k] ELSE v
  BY <1>2, <1>4
<1>8. ASSUME NEW k \in 1 .. Stored + 1 PROVE Contents'[k] = Append(Contents, v)[k]
  <2>1. CASE k \in 1 .. Stored
    BY <1>1, <1>3, <1>4, <1>5, <1>6, <1>7, <2>1
  <2>2. CASE k = Stored + 1
    BY <1>1, <1>3, <1>4, <1>5, <1>6, <1>7, <2>2
  <2> QED BY <1>4, <2>1, <2>2
<1>9. Contents' = Append(Contents, v)
  BY <1>4, <1>5, <1>7, <1>8, SeqEqual
<1> QED BY <1>1, <1>2, <1>3, <1>4, <1>9 DEF Q!Put, Contents, Slot

LEMMA LoadGets ==
  ASSUME BufferInv, BufferInv', NEW c \in Consumers, Load(c)
  PROVE  Q!Get(c)
<1>1. queue' = queue /\ val' = [val EXCEPT ![c] = queue[head]]
  BY DEF Load
<1>2. /\ Stored > 0 /\ Stored' = Stored - 1
      /\ \A k \in 1 .. Stored' : Slot(k)' = Slot(k + 1)
      /\ Slot(1) = head
  BY LoadRing
<1>3. /\ Contents \in Seq(Items) /\ Len(Contents) = Stored /\ Stored \in Nat
      /\ \A k \in 1 .. Stored : Contents[k] = queue[Slot(k)]
  BY ContentsSeq DEF ContentsOK
<1>4. /\ Contents' \in Seq(Items) /\ Len(Contents') = Stored - 1
      /\ \A k \in 1 .. Stored - 1 : Contents'[k] = queue'[Slot(k)']
  <2>1. BufferInv' => ContentsOK'
    BY ContentsSeq, PTL
  <2> QED BY <1>2, <2>1 DEF ContentsOK
<1>5. Contents # <<>> /\ Head(Contents) = queue[head]
  <2>1. Contents # <<>>
    BY <1>2, <1>3, EmptySeq
  <2> QED BY <1>2, <1>3, <2>1
<1>6. /\ Tail(Contents) \in Seq(Items) /\ Len(Tail(Contents)) = Stored - 1
      /\ \A k \in 1 .. Stored - 1 : Tail(Contents)[k] = Contents[k + 1]
  BY <1>3, <1>5, HeadTailProperties
<1>7. ASSUME NEW k \in 1 .. Stored - 1 PROVE Contents'[k] = Tail(Contents)[k]
  <2>1. k + 1 \in 1 .. Stored
    BY <1>3
  <2> QED BY <1>1, <1>2, <1>3, <1>4, <1>6, <2>1
<1>8. Contents' = Tail(Contents)
  BY <1>4, <1>6, <1>7, SeqEqual
<1> QED BY <1>1, <1>5, <1>8 DEF Q!Get, Contents, Slot

LEMMA OthersStutter ==
  ASSUME BufferInv, Stored' = Stored, First' = First, queue' = queue, val' = val
  PROVE  UNCHANGED <<Contents, val>>
BY DEF Contents, Slot

(* Every behaviour of the threads is one of a first-in first-out queue of    *)
(* MaxSize items: none is lost, duplicated or overtaken.                     *)
THEOREM BufferIsQueue == Spec => ImplementsQueue
<1>1. Init => Q!Init
  <2> SUFFICES ASSUME Init PROVE Q!Init
    OBVIOUS
  <2>1. BufferInv
    BY BufferInit
  <2>2. Stored = 0
    <3>1. At(Producers, Behind) = {} /\ At(Consumers, Before) = {} /\ fullSem = 0
      BY DEF Init, At, Before, Behind, Threads
    <3>2. Stored = fullSem + Cardinality(At(Producers, Behind)) + Cardinality(At(Consumers, Before))
      BY DEF Stored, Before, Behind
    <3> QED BY <3>1, <3>2, FS_EmptySet
  <2>3. Contents = <<>>
    BY <2>1, <2>2, ContentsSeq, EmptySeq DEF ContentsOK
  <2>4. val \in [Consumers -> Items \cup {None}]
    BY DEF Init
  <2> QED BY <2>3, <2>4 DEF Q!Init, Contents, Slot
<1>2. BufferInv /\ BufferInv' /\ [Next]_vars => [Q!Next]_<<Contents, val>>
  <2> SUFFICES ASSUME BufferInv, BufferInv', [Next]_vars
               PROVE  Q!Next \/ UNCHANGED <<Contents, val>>
    OBVIOUS
  <2>1. ASSUME NEW p \in Producers, Produce(p)
        PROVE  Q!Next \/ UNCHANGED <<Contents, val>>
    <3>1. CASE WaitEmpty(p)
      BY <3>1, WaitEmptyStutters, OthersStutter
    <3>2. CASE Lock(p)
      BY <3>2, LockStutters, OthersStutter DEF Threads
    <3>3. CASE Store(p)
      BY <3>3, StorePuts DEF Q!Next
    <3>4. CASE AdvanceTail(p)
      BY <3>4, AdvanceTailRing, OthersStutter DEF AdvanceTail
    <3>5. CASE Unlock(p)
      BY <3>5, UnlockStutters, OthersStutter DEF Threads
    <3>6. CASE PostFull(p)
      BY <3>6, PostFullStutters, OthersStutter
    <3> QED BY <2>1, <3>1, <3>2, <3>3, <3>4, <3>5, <3>6 DEF Produce
  <2>2. ASSUME NEW c \in Consumers, Consume(c)
        PROVE  Q!Next \/ UNCHANGED <<Contents, val>>
    <3>1. CASE WaitFull(c)
      BY <3>1, WaitFullStutters, OthersStutter
    <3>2. CASE Lock(c)
      BY <3>2, LockStutters, OthersStutter DEF Threads
    <3>3. CASE Load(c)
      BY <3>3, LoadGets DEF Q!Next
    <3>4. CASE AdvanceHead(c)
      BY <3>4, AdvanceHeadRing, OthersStutter DEF AdvanceHead
    <3>5. CASE Unlock(c)
      BY <3>5, UnlockStutters, OthersStutter DEF Threads
    <3>6. CASE PostEmpty(c)
      BY <3>6, PostEmptyStutters, OthersStutter
    <3>7. CASE Check(c)
      BY <3>7, CheckStutters, OthersStutter
    <3> QED BY <2>2, <3>1, <3>2, <3>3, <3>4, <3>5, <3>6, <3>7 DEF Consume
  <2>3. CASE UNCHANGED vars
    BY <2>3 DEF vars, Contents, Slot, Stored, First, At
  <2> QED BY <2>1, <2>2, <2>3 DEF Next, Joined
<1> QED BY <1>1, <1>2, BufferInvariant, PTL DEF Spec, ImplementsQueue, Q!Spec, Contents, Slot

-----------------------------------------------------------------------------
(* The assert of consumerThread, for the one producer and the one consumer   *)
(* of main: the stored ints follow those the consumer has, up to the         *)
(* producer's counter.                                                       *)
Holding == {"advance", "unlock", "post", "check"}
Past(t, labels) == i[t] + (IF pc[t] \in labels THEN 1 ELSE 0)
OrderInv ==
  \A p \in Producers, c \in Consumers :
    /\ Past(p, Behind) = Past(c, Holding) + Stored
    /\ \A k \in 1 .. Stored : queue[Slot(k)].n = Past(c, Holding) + k - 1
    /\ pc[c] \in Holding => val[c].n = i[c]

LEMMA OnlyTwo ==
  ASSUME AsInMain, NEW p \in Producers, NEW c \in Consumers
  PROVE  Producers = {p} /\ Consumers = {c}
<1>1. \A S : IsFiniteSet(S) /\ Cardinality(S) = 1 => \E x : S = {x}
  BY FS_Singleton
<1> QED BY <1>1, BufferAssumption DEF AsInMain

(* A step that neither stores nor loads and leaves both counts as they are.  *)
LEMMA OrderKept ==
  ASSUME OrderInv, UNCHANGED <<Stored, First, queue, val>>,
         \A p \in Producers : Past(p, Behind)' = Past(p, Behind),
         \A c \in Consumers : /\ Past(c, Holding)' = Past(c, Holding)
                              /\ pc'[c] \in Holding => pc[c] \in Holding /\ i'[c] = i[c]
  PROVE  OrderInv'
<1>1. \A k : Slot(k)' = Slot(k)
  BY DEF Slot
<1> QED BY <1>1 DEF OrderInv

LEMMA StoreKeepsOrder ==
  ASSUME BufferInv, OrderInv, AsInMain, NEW p \in Producers, Store(p)
  PROVE  OrderInv'
<1>1. /\ Stored' = Stored + 1 /\ First' = First /\ Stored \in Nat
      /\ \A k \in 1 .. Stored : Slot(k) # tail
      /\ Slot(Stored + 1) = tail /\ tail \in DOMAIN queue
  BY StoreRing, Accounting, FirstInRing DEF BufferInv, TypeOK, Ring
<1>2. /\ queue' = [queue EXCEPT ![tail] = [by |-> p, n |-> i[p]]]
      /\ val' = val /\ i' = i /\ i \in [Threads -> 0 .. N]
      /\ pc[p] = "access" /\ pc'[p] = "advance"
      /\ \A c \in Consumers : pc'[c] = pc[c]
  BY BufferAssumption DEF Store, Goto, BufferInv, TypeOK, Threads
<1>3. SUFFICES ASSUME NEW c \in Consumers
               PROVE  /\ Past(p, Behind)' = Past(c, Holding)' + Stored'
                      /\ \A k \in 1 .. Stored' : queue'[Slot(k)'].n = Past(c, Holding)' + k - 1
                      /\ pc'[c] \in Holding => val'[c].n = i'[c]
  BY OnlyTwo DEF OrderInv
<1>4. /\ Past(p, Behind) = i[p] /\ Past(p, Behind)' = i[p] + 1
      /\ Past(c, Holding)' = Past(c, Holding) /\ Past(c, Holding) \in Nat /\ i[p] \in Nat
  BY <1>2, BufferAssumption DEF Past, Behind, Threads
<1>5. i[p] = Past(c, Holding) + Stored
  BY <1>4 DEF OrderInv
<1>6. ASSUME NEW k \in 1 .. Stored' PROVE queue'[Slot(k)'].n = Past(c, Holding)' + k - 1
  <2>1. Slot(k)' = Slot(k)
    BY <1>1 DEF Slot
  <2>2. CASE k \in 1 .. Stored
    BY <1>1, <1>2, <1>4, <2>1, <2>2 DEF OrderInv
  <2>3. CASE k = Stored + 1
    <3>1. queue'[Slot(k)'].n = i[p]
      BY <1>1, <1>2, <2>1, <2>3
    <3> QED BY <1>1, <1>4, <1>5, <2>3, <3>1
  <2> QED BY <1>1, <2>2, <2>3
<1> QED BY <1>1, <1>2, <1>4, <1>5, <1>6 DEF OrderInv

LEMMA LoadKeepsOrder ==
  ASSUME BufferInv, OrderInv, AsInMain, NEW c \in Consumers, Load(c)
  PROVE  OrderInv'
<1>1. /\ Stored' = Stored - 1 /\ Stored > 0 /\ Stored \in Nat
      /\ \A k \in 1 .. Stored' : Slot(k)' = Slot(k + 1)
      /\ Slot(1) = head
  BY LoadRing, Accounting DEF BufferInv, TypeOK
<1>2. /\ queue' = queue /\ val' = [val EXCEPT ![c] = queue[head]] /\ c \in DOMAIN val
      /\ i' = i /\ i \in [Threads -> 0 .. N]
      /\ pc[c] = "access" /\ pc'[c] = "advance"
      /\ \A p \in Producers : pc'[p] = pc[p]
  BY BufferAssumption DEF Load, Goto, BufferInv, TypeOK, Threads
<1>3. SUFFICES ASSUME NEW p \in Producers
               PROVE  /\ Past(p, Behind)' = Past(c, Holding)' + Stored'
                      /\ \A k \in 1 .. Stored' : queue'[Slot(k)'].n = Past(c, Holding)' + k - 1
                      /\ pc'[c] \in Holding => val'[c].n = i'[c]
  BY OnlyTwo DEF OrderInv
<1>4. /\ Past(c, Holding) = i[c] /\ Past(c, Holding)' = i[c] + 1
      /\ Past(p, Behind)' = Past(p, Behind) /\ Past(p, Behind) \in Nat /\ i[c] \in Nat
  BY <1>2, BufferAssumption DEF Past, Holding, Threads
<1>5. /\ Past(p, Behind) = i[c] + Stored
      /\ \A k \in 1 .. Stored : queue[Slot(k)].n = i[c] + k - 1
  BY <1>4 DEF OrderInv
<1>6. ASSUME NEW k \in 1 .. Stored' PROVE queue'[Slot(k)'].n = Past(c, Holding)' + k - 1
  <2>1. k + 1 \in 1 .. Stored
    BY <1>1
  <2>2. queue'[Slot(k)'].n = i[c] + (k + 1) - 1
    BY <1>1, <1>2, <1>5, <2>1
  <2> QED BY <1>1, <1>4, <2>2
<1>7. val'[c].n = i'[c]
  <2>1. queue[head].n = i[c] + 1 - 1
    BY <1>1, <1>5
  <2> QED BY <1>2, <1>4, <2>1
<1> QED BY <1>1, <1>4, <1>5, <1>6, <1>7

(* consumerThread's assert never fails in the program that main builds.      *)
THEOREM NoAssertFails == Spec => []AssertHolds
<1>1. Init => OrderInv
  <2> SUFFICES ASSUME Init PROVE OrderInv
    OBVIOUS
  <2>1. Stored = 0
    <3>1. At(Producers, Behind) = {} /\ At(Consumers, Before) = {} /\ fullSem = 0
      BY DEF Init, At, Before, Behind, Threads
    <3>2. Stored = fullSem + Cardinality(At(Producers, Behind)) + Cardinality(At(Consumers, Before))
      BY DEF Stored, Before, Behind
    <3> QED BY <3>1, <3>2, FS_EmptySet
  <2>2. \A t \in Threads : i[t] = 0 /\ pc[t] = "wait"
    BY DEF Init
  <2> QED BY <2>1, <2>2 DEF OrderInv, Past, Behind, Holding, Threads
<1>2. AsInMain /\ BufferInv /\ OrderInv /\ [Next]_vars => OrderInv'
  <2> SUFFICES ASSUME AsInMain, BufferInv, OrderInv, [Next]_vars PROVE OrderInv'
    OBVIOUS
  <2> USE BufferAssumption DEF Threads
  <2>1. ASSUME NEW p \in Producers, Produce(p) PROVE OrderInv'
    <3>1. CASE WaitEmpty(p)
      BY <3>1, WaitEmptyStutters, OrderKept
         DEF WaitEmpty, Goto, Past, Behind, Holding, BufferInv, TypeOK
    <3>2. CASE Lock(p)
      BY <3>2, LockStutters, OrderKept DEF Lock, Goto, Past, Behind, Holding, BufferInv, TypeOK
    <3>3. CASE Store(p)
      BY <3>3, StoreKeepsOrder
    <3>4. CASE AdvanceTail(p)
      BY <3>4, AdvanceTailRing, OrderKept
         DEF AdvanceTail, Goto, Past, Behind, Holding, BufferInv, TypeOK
    <3>5. CASE Unlock(p)
      BY <3>5, UnlockStutters, OrderKept
         DEF Unlock, Goto, Past, Behind, Holding, BufferInv, TypeOK
    <3>6. CASE PostFull(p)
      <4>1. /\ pc[p] = "post" /\ pc'[p] = "wait" /\ i'[p] = i[p] + 1 /\ i[p] \in Nat
            /\ \A t \in Threads \ {p} : pc'[t] = pc[t] /\ i'[t] = i[t]
        BY <3>6 DEF PostFull, Goto, BufferInv, TypeOK
      <4>2. \A q \in Producers : Past(q, Behind)' = Past(q, Behind)
        BY <4>1 DEF Past, Behind
      <4>3. \A c \in Consumers : /\ Past(c, Holding)' = Past(c, Holding)
                                 /\ pc'[c] = pc[c] /\ i'[c] = i[c]
        BY <4>1 DEF Past
      <4> QED BY <3>6, <4>2, <4>3, PostFullStutters, OrderKept
    <3> QED BY <2>1, <3>1, <3>2, <3>3, <3>4, <3>5, <3>6 DEF Produce
  <2>2. ASSUME NEW c \in Consumers, Consume(c) PROVE OrderInv'
    <3>1. CASE WaitFull(c)
      BY <3>1, WaitFullStutters, OrderKept
         DEF WaitFull, Goto, Past, Behind, Holding, BufferInv, TypeOK
    <3>2. CASE Lock(c)
      BY <3>2, LockStutters, OrderKept DEF Lock, Goto, Past, Behind, Holding, BufferInv, TypeOK
    <3>3. CASE Load(c)
      BY <3>3, LoadKeepsOrder
    <3>4. CASE AdvanceHead(c)
      BY <3>4, AdvanceHeadRing, OrderKept
         DEF AdvanceHead, Goto, Past, Behind, Holding, BufferInv, TypeOK
    <3>5. CASE Unlock(c)
      BY <3>5, UnlockStutters, OrderKept
         DEF Unlock, Goto, Past, Behind, Holding, BufferInv, TypeOK
    <3>6. CASE PostEmpty(c)
      BY <3>6, PostEmptyStutters, OrderKept
         DEF PostEmpty, Goto, Past, Behind, Holding, BufferInv, TypeOK
    <3>7. CASE Check(c)
      <4>1. /\ pc[c] = "check" /\ pc'[c] = "wait" /\ i'[c] = i[c] + 1 /\ i[c] \in Nat
            /\ \A t \in Threads \ {c} : pc'[t] = pc[t] /\ i'[t] = i[t]
        BY <3>7 DEF Check, Goto, BufferInv, TypeOK
      <4>2. \A p \in Producers : Past(p, Behind)' = Past(p, Behind)
        BY <4>1 DEF Past
      <4>3. \A d \in Consumers : /\ Past(d, Holding)' = Past(d, Holding)
                                 /\ pc'[d] \in Holding => pc[d] \in Holding /\ i'[d] = i[d]
        BY <4>1 DEF Past, Holding
      <4> QED BY <3>7, <4>2, <4>3, CheckStutters, OrderKept
    <3> QED BY <2>2, <3>1, <3>2, <3>3, <3>4, <3>5, <3>6, <3>7 DEF Consume
  <2>3. CASE UNCHANGED vars
    BY <2>3, OrderKept DEF vars, Stored, First, At, Past
  <2> QED BY <2>1, <2>2, <2>3 DEF Next, Joined
<1>3. OrderInv => AssertHolds
  <2> SUFFICES ASSUME OrderInv, AsInMain, NEW c \in Consumers, pc[c] = "check"
               PROVE  val[c].n = i[c]
    BY DEF AssertHolds
  <2>1. Producers # {}
    BY FS_EmptySet DEF AsInMain
  <2> QED BY <2>1 DEF OrderInv, Holding
<1>4. ~AsInMain => AssertHolds
  BY DEF AssertHolds
<1>5. CASE AsInMain
  BY <1>1, <1>2, <1>3, <1>5, BufferInvariant, PTL DEF Spec
<1>6. CASE ~AsInMain
  BY <1>4, <1>6, PTL
<1> QED BY <1>5, <1>6

-----------------------------------------------------------------------------
(* Narrowing changes nothing in the range main uses.                         *)
LEMMA ToIntInRange == ASSUME NEW x \in 0 .. 2 * ntimes PROVE LC!ToInt(x) = x
BY CounterAssumption DEF LC!ToInt

LEMMA CountInit == LC!Init => LC!CountInv
BY CounterAssumption DEF LC!Init, LC!CountInv, LC!TypeOK, LC!Done, CounterThreads, LC!CounterThreads

(* One step of a thread keeps the invariant: the other thread, outside its   *)
(* critical section while this one is inside, has not moved the count.       *)
LEMMA CountStep == ASSUME LC!CountInv, NEW t \in CounterThreads, LC!Increment(t)
                   PROVE  LC!CountInv'
<1> USE CounterAssumption DEF CounterThreads, LC!CounterThreads
<1>1. CASE LC!Lock(t)
  BY <1>1 DEF LC!Lock, LC!Goto, LC!CountInv, LC!TypeOK, LC!Done
<1>2. CASE LC!Read(t)
  <2>1. LC!ToInt(count) = count
    BY ToIntInRange DEF LC!CountInv, LC!TypeOK
  <2> QED BY <1>2, <2>1 DEF LC!Read, LC!Goto, LC!CountInv, LC!TypeOK, LC!Done
<1>3. CASE LC!Write(t)
  <2>1. /\ local[t] = count /\ count = rounds[1] + rounds[2]
        /\ holder = t /\ rounds[t] < ntimes
    BY <1>3 DEF LC!Write, LC!Goto, LC!CountInv, LC!TypeOK, LC!Done
  <2>2. local[t] + 1 \in 0 .. 2 * ntimes
    BY <2>1 DEF LC!CountInv, LC!TypeOK
  <2>3. LC!ToInt(local[t] + 1) = local[t] + 1
    BY <2>2, ToIntInRange
  <2> QED BY <1>3, <2>1, <2>2, <2>3 DEF LC!Write, LC!Goto, LC!CountInv, LC!TypeOK, LC!Done
<1>4. CASE LC!Unlock(t)
  BY <1>4 DEF LC!Unlock, LC!Goto, LC!CountInv, LC!TypeOK, LC!Done
<1> QED BY <1>1, <1>2, <1>3, <1>4 DEF LC!Increment

LEMMA CountNext == LC!CountInv /\ [LC!Next]_LC!vars => LC!CountInv'
<1> SUFFICES ASSUME LC!CountInv, [LC!Next]_LC!vars PROVE LC!CountInv'
  OBVIOUS
<1>1. CASE \E t \in CounterThreads : LC!Increment(t)
  BY <1>1, CountStep
<1>2. CASE UNCHANGED LC!vars
  BY <1>2 DEF LC!vars, LC!CountInv, LC!TypeOK, LC!Done, CounterThreads, LC!CounterThreads
<1> QED BY <1>1, <1>2 DEF LC!Next, LC!Joined, CounterThreads, LC!CounterThreads

(* Mutual exclusion and the exact count hold in every state of count.cc.     *)
THEOREM CountExact == LC!Spec => []LC!CountInv
BY CountInit, CountNext, PTL DEF LC!Spec

LEMMA CountEnds == LC!CountInv => LC!FinalCount
BY CounterAssumption
   DEF LC!CountInv, LC!TypeOK, LC!Done, LC!FinalCount, LC!AllJoined, CounterThreads, LC!CounterThreads

(* "Final count should be 2 * n": main of count.cc finds no lost increment.  *)
THEOREM NoIncrementLost == LC!Spec => []LC!FinalCount
BY CountExact, CountEnds, PTL

-----------------------------------------------------------------------------
(* A step of count_spin.cc is a step of count.cc or leaves it as it is: the  *)
(* exchange that finds 0 is its lock, one that finds 1 is no step at all.    *)
LEMMA SpinStep == ASSUME WordInv, [SpinNext]_spinVars
                  PROVE  WordInv' /\ [LC!Next]_LC!vars
<1>1. ASSUME NEW t \in CounterThreads, TestAndSet(t) PROVE WordInv' /\ [LC!Next]_LC!vars
  <2>1. CASE word = 0
    <3>1. LC!Lock(t) /\ word' = 1 /\ holder' = t
      BY <1>1, <2>1 DEF TestAndSet, WordInv, LC!Lock, LC!Goto
    <3> QED BY <3>1, <1>1, CounterAssumption
            DEF WordInv, LC!Next, LC!Increment, CounterThreads, LC!CounterThreads
  <2>2. CASE word = 1
    BY <1>1, <2>2 DEF TestAndSet, WordInv, LC!vars
  <2> QED BY <2>1, <2>2 DEF WordInv
<1>2. ASSUME NEW t \in CounterThreads, Read(t) \/ Write(t)
      PROVE  WordInv' /\ [LC!Next]_LC!vars
  <2>1. UNCHANGED <<word, holder>>
    BY <1>2 DEF Read, Write, LC!Read, LC!Write
  <2>2. LC!Increment(t)
    BY <1>2 DEF Read, Write, LC!Increment
  <2> QED BY <2>1, <2>2 DEF WordInv, LC!Next, CounterThreads, LC!CounterThreads
<1>3. ASSUME NEW t \in CounterThreads, SpinUnlock(t) PROVE WordInv' /\ [LC!Next]_LC!vars
  <2>1. word' = 0 /\ holder' = NoThread
    BY <1>3 DEF SpinUnlock, LC!Unlock
  <2>2. LC!Increment(t)
    BY <1>3 DEF SpinUnlock, LC!Increment
  <2> QED BY <2>1, <2>2 DEF WordInv, LC!Next, CounterThreads, LC!CounterThreads
<1>4. CASE UNCHANGED spinVars
  BY <1>4 DEF spinVars, LC!vars, WordInv
<1> QED BY <1>1, <1>2, <1>3, <1>4 DEF SpinNext, Increment, SpinJoined

LEMMA SpinStarts == SpinInit => WordInv /\ LC!Init
BY DEF SpinInit, LC!Init, WordInv

(* Refinement: every behaviour of count_spin.cc is one of count.cc.          *)
THEOREM SpinImplementsMutex == SpinSpec => ImplementsLockedCounter
<1>1. SpinInit /\ [][SpinNext]_spinVars => [][LC!Next]_LC!vars /\ []WordInv
  BY SpinStarts, SpinStep, PTL
<1> QED BY SpinStarts, <1>1, PTL DEF SpinSpec, ImplementsLockedCounter

(* "Final count should be 2 * n" under the spin lock as well.                *)
THEOREM SpinNoIncrementLost == SpinSpec => []SpinFinalCount
<1>1. ImplementsLockedCounter => []LC!CountInv
  BY CountInit, CountNext, PTL DEF ImplementsLockedCounter
<1>2. LC!CountInv => SpinFinalCount
  BY CountEnds DEF SpinFinalCount
<1> QED BY SpinImplementsMutex, <1>1, <1>2, PTL
=============================================================================
