---------------------------- MODULE BoundedQueue ----------------------------
(* What BoundedBuffer (lab4/bounded-buffer.cc) promises: a queue of at most *)
(* Capacity items that hands every item to one consumer, oldest first.      *)
EXTENDS Naturals, Sequences

CONSTANTS Capacity, Items, Consumers, None

VARIABLES items, got

Init == items = <<>> /\ got \in [Consumers -> Items \cup {None}]

Put == /\ Len(items) < Capacity
       /\ \E v \in Items : items' = Append(items, v)
       /\ UNCHANGED got

Get(c) == /\ items # <<>>
          /\ got' = [got EXCEPT ![c] = Head(items)]
          /\ items' = Tail(items)

Next == Put \/ \E c \in Consumers : Get(c)

Spec == Init /\ [][Next]_<<items, got>>
=============================================================================
