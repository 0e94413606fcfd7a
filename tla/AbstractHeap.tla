---------------------------- MODULE AbstractHeap ----------------------------
(***************************************************************************)
(* What the allocator promises its clients: a call asks for a number of    *)
(* words and gets either nothing or a region of at least that many words,  *)
(* disjoint from every region a client owns; regions neither move nor      *)
(* change size until their owner gives them back.                          *)
(***************************************************************************)
EXTENDS Integers

CONSTANTS Words     \* bound: the addresses and the sizes of regions

VARIABLES
    owned,          \* start of each owned region -> its words
    asked           \* words the call in progress asked for, 0 between calls

vars == <<owned, asked>>

Init == owned = <<>> /\ asked = 0

Ask(n) == /\ asked = 0
          /\ asked' = n
          /\ UNCHANGED owned

\* Words p .. p + n - 1 belong to nobody.
Unowned(p, n) == \A q \in DOMAIN owned : p + n <= q \/ q + owned[q] <= p

Grant(p, n) == /\ asked # 0
               /\ n >= asked
               /\ Unowned(p, n)
               /\ owned' = [q \in DOMAIN owned \cup {p} |-> IF q = p THEN n ELSE owned[q]]
               /\ asked' = 0

Refuse == /\ asked # 0
          /\ asked' = 0
          /\ UNCHANGED owned

GiveBack(p) == /\ asked = 0
               /\ owned' = [q \in DOMAIN owned \ {p} |-> owned[q]]
               /\ UNCHANGED asked

Next == \/ \E n \in Words \ {0} : Ask(n)
        \/ \E p, n \in Words : Grant(p, n)
        \/ Refuse
        \/ \E p \in DOMAIN owned : GiveBack(p)

Spec == Init /\ [][Next]_vars
=============================================================================
