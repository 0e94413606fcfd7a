------------------------------ MODULE BackupDir ------------------------------
(* src/lab2/backupdir.sh, run again and again on a directory that is edited at  *)
(* any time, with a copy that may fail halfway and a script that may be killed  *)
(* between any two steps.  A file's contents are one value; diff, cp and rm     *)
(* work file by file.  One script runs at a time.                               *)
EXTENDS Integers, FiniteSets, FiniteSetsExt, Functions

CONSTANTS Files, Contents,
          Limits,      \* the values of <max-backups>
          Others,      \* how many directories may be named like a backup, without a number
          MaxNumber    \* bound on the numbers of the backups

ASSUME LimitsAssumption == Limits \subseteq Nat \ {0} /\ Others \subseteq Nat

VARIABLES source, dirs,    \* the directory, and the numbered backups in bdir
          others, pc, max, last,
          left,            \* what cp or diff has still to look at
          bad,             \* diff found a difference, cp an error
          ids, remove, said,
          edited           \* history: the directory changed since the script started

vars == <<source, dirs, others, pc, max, last, left, bad, ids, remove, said, edited>>

\* The backups in the order of their numbers.
InOrder == [i \in 1..Cardinality(DOMAIN dirs) |->
              dirs[CHOOSE n \in DOMAIN dirs : Cardinality({m \in DOMAIN dirs : m <= n}) = i]]

S == INSTANCE Snapshots WITH store <- InOrder, limit <- max

Init == /\ source \in S!Directories /\ dirs = <<>> /\ others \in Others
        /\ pc = "idle" /\ max \in Limits /\ last = -1 /\ left = {} /\ bad = FALSE
        /\ ids = {} /\ remove = 0 /\ said = "nothing" /\ edited = FALSE

\* A function with one more value, or another one: a file in a directory, a backup in bdir.
With(d, k, v) == [j \in DOMAIN d \cup {k} |-> IF j = k THEN v ELSE d[j]]

Edit == /\ \E f \in Files : \/ \E c \in Contents : source' = With(source, f, c)
                            \/ source' = Restrict(source, DOMAIN source \ {f})
        /\ source' # source /\ edited' = TRUE
        /\ UNCHANGED <<dirs, others, pc, max, last, left, bad, ids, remove, said>>

\* The loop over the backups starts from -1.
LastNumber == Max(DOMAIN dirs \cup {-1})

ComparedOld(n) == DOMAIN dirs[n]                \* Mutant: files that are new are overlooked.
\* diff -r looks at the files of both sides.
Compared(n) == DOMAIN source \cup DOMAIN dirs[n]

Start == /\ pc = "idle" /\ max' \in Limits /\ last' = LastNumber
         /\ IF last' < 0 THEN pc' = "copy" /\ left' = {}
                         ELSE pc' = "diff" /\ left' = Compared(last')
         /\ bad' = FALSE /\ said' = "nothing" /\ edited' = FALSE
         /\ UNCHANGED <<source, dirs, others, ids, remove>>

Same(f) == /\ f \in DOMAIN source /\ f \in DOMAIN dirs[last]
           /\ source[f] = dirs[last][f]

Diff == /\ pc = "diff"
        /\ \/ \E f \in left : left' = left \ {f} /\ bad' = (bad \/ ~Same(f)) /\ UNCHANGED <<pc, said>>
           \/ left = {} /\ ~bad /\ pc' = "idle" /\ said' = "unnecessary" /\ UNCHANGED <<left, bad>>
           \/ left = {} /\ bad /\ pc' = "copy" /\ UNCHANGED <<left, bad, said>>
        /\ UNCHANGED <<source, dirs, others, max, last, ids, remove, edited>>

\* cp makes the directory first.
MakeDirectory == /\ pc = "copy" /\ last < MaxNumber
                 /\ dirs' = With(dirs, last + 1, <<>>)
                 /\ pc' = "files" /\ left' = DOMAIN source /\ bad' = FALSE
                 /\ UNCHANGED <<source, others, max, last, ids, remove, said, edited>>

CopyFile == /\ pc = "files"
            /\ \E f \in left \cap DOMAIN source :
                 /\ dirs' = [dirs EXCEPT ![last + 1] = With(@, f, source[f])]
                 /\ left' = left \ {f}
            /\ UNCHANGED <<source, others, pc, max, last, bad, ids, remove, said, edited>>

\* A file that cannot be copied, or has gone, does not stop cp.
CopyFileFails == /\ pc = "files"
                 /\ \E f \in left : left' = left \ {f}
                 /\ bad' = TRUE
                 /\ UNCHANGED <<source, dirs, others, pc, max, last, ids, remove, said, edited>>

CopyFails == /\ \/ pc = "copy"
                \/ pc = "files" /\ left = {} /\ bad
             /\ pc' = "idle" /\ said' = "failed"
             /\ UNCHANGED <<source, dirs, others, max, last, left, bad, ids, remove, edited>>

\* The first backup is not counted.
Created == /\ pc = "files" /\ left = {} /\ ~bad
           /\ said' = "created" /\ pc' = IF last < 0 THEN "idle" ELSE "count"
           /\ UNCHANGED <<source, dirs, others, max, last, left, bad, ids, remove, edited>>

Excess == Cardinality(DOMAIN dirs) + others - max

Count == /\ pc = "count"
         /\ IF Excess > 0 THEN pc' = "remove" /\ ids' = DOMAIN dirs /\ remove' = Excess
                          ELSE pc' = "idle" /\ UNCHANGED <<ids, remove>>
         /\ UNCHANGED <<source, dirs, others, max, last, left, bad, said, edited>>

FirstReversed == Max(ids)                     \* Mutant: sort -nr.
First == Min(ids)                             \* sort -n

\* rm -rf, file by file.  It does not fail here: the script ignores its status and counts the
\* directory as removed, so that one that cannot be removed would stay and the next would go.
RemoveOldest ==
  /\ pc = "remove" /\ remove > 0 /\ ids # {}
  /\ \/ \E f \in DOMAIN dirs[First] :
          /\ dirs' = [dirs EXCEPT ![First] = Restrict(@, DOMAIN @ \ {f})]
          /\ UNCHANGED <<ids, remove>>
     \/ /\ dirs[First] = <<>>
        /\ dirs' = Restrict(dirs, DOMAIN dirs \ {First})
        /\ ids' = ids \ {First} /\ remove' = remove - 1
  /\ UNCHANGED <<source, others, pc, max, last, left, bad, said, edited>>

Removed == /\ pc = "remove" /\ (remove = 0 \/ ids = {})
           /\ pc' = "idle" /\ ids' = {} /\ remove' = 0
           /\ UNCHANGED <<source, dirs, others, max, last, left, bad, said, edited>>

\* The script and its cp, diff or rm are killed together.
Killed == /\ pc # "idle" /\ pc' = "idle" /\ said' = "nothing"
          /\ left' = {} /\ bad' = FALSE /\ ids' = {} /\ remove' = 0
          /\ UNCHANGED <<source, dirs, others, max, last, edited>>

Next == \/ Edit \/ Start \/ Diff \/ MakeDirectory \/ CopyFile \/ CopyFileFails \/ CopyFails
        \/ Created \/ Count \/ RemoveOldest \/ Removed \/ Killed

Spec == Init /\ [][Next]_vars
------------------------------------------------------------------------------
(* A script that says "Backup created" or "No backup necessary" leaves a newest *)
(* backup that equals the directory, unless that was edited meanwhile, whatever *)
(* earlier scripts left half copied or half removed; and after a new backup no  *)
(* more than <max-backups> are left, as rm does not fail here.  Directories     *)
(* without a number take the place of backups: with max of them the new backup  *)
(* itself is removed.                                                           *)
EndsAsItSays ==
  /\ (pc = "idle" /\ said \in {"created", "unnecessary"} /\ ~edited /\ others < max)
       => dirs # <<>> /\ dirs[LastNumber] = source
  /\ (pc = "idle" /\ said = "created") => Cardinality(DOMAIN dirs) <= max

(* Over all scripts, killed and failed ones included, the backups are a row of  *)
(* copies: new ones are added at the end and only when there is a change, only  *)
(* the newest is written, only the oldest of too many are removed (rm does not  *)
(* fail; a directory it cannot remove would stay while the next one goes).      *)
ImplementsSnapshots == S!Spec
==============================================================================
