------------------------------ MODULE Snapshots ------------------------------
(* What backupdir.sh promises (src/lab2/README:28-37): a row of copies of a     *)
(* directory, the oldest in front.  A copy is added at the end, only when the   *)
(* directory has changed; only the newest is ever written to; and only the      *)
(* oldest of more than "limit" copies is removed.                               *)
EXTENDS Integers, Sequences, Functions

CONSTANTS Files, Contents, Limits

VARIABLES source,    \* the directory: its files' contents
          store,     \* the copies, each of them a directory
          limit,     \* how many to keep
          others,    \* directories that count as copies and are none
          edited     \* the directory has changed since the limit was given

Directories == UNION {[S -> Contents] : S \in SUBSET Files}
Newest == store[Len(store)]

Init == /\ source \in Directories /\ store = <<>> /\ limit \in Limits
        /\ others \in Nat /\ edited = FALSE

Edit == source' \in Directories /\ edited' = TRUE /\ UNCHANGED <<store, limit, others>>

Ask == limit' \in Limits /\ edited' = FALSE /\ UNCHANGED <<source, store, others>>

Begin == /\ store = <<>> \/ edited \/ Newest # source
         /\ store' = Append(store, <<>>)
         /\ UNCHANGED <<source, limit, others, edited>>

Fill == /\ store # <<>>
        /\ \E f \in DOMAIN source \ DOMAIN Newest :
             store' = [store EXCEPT ![Len(store)] = [g \in DOMAIN Newest \cup {f} |->
                         IF g = f THEN source[f] ELSE Newest[g]]]
        /\ UNCHANGED <<source, limit, others, edited>>

\* The oldest copy goes file by file.
Expire == /\ Len(store) + others > limit
          /\ \/ \E f \in DOMAIN Head(store) :
                  store' = [store EXCEPT ![1] = Restrict(@, DOMAIN @ \ {f})]
             \/ Head(store) = <<>> /\ store' = Tail(store)
          /\ UNCHANGED <<source, limit, others, edited>>

Next == Edit \/ Ask \/ Begin \/ Fill \/ Expire

Spec == Init /\ [][Next]_<<source, store, limit, others, edited>>
==============================================================================
