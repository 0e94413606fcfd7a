--------------------------- MODULE BackupDirProofs ---------------------------
(* backupdir.sh ends as it says and keeps a row of snapshots, for every set  *)
(* of files and contents and every limit.                                    *)
EXTENDS BackupDir, FiniteSetTheorems, SequenceTheorems, TLAPS

Typed ==
  /\ source \in S!Directories
  /\ DOMAIN dirs \subseteq Nat /\ IsFiniteSet(DOMAIN dirs)
  /\ dirs \in [DOMAIN dirs -> S!Directories]
  /\ others \in Nat /\ max \in Limits
  /\ last \in Nat \cup {-1} /\ left \subseteq Files /\ bad \in BOOLEAN
  /\ edited \in BOOLEAN

(* The backup a script compares with is the newest.                          *)
Newest(n) == n \in DOMAIN dirs /\ \A m \in DOMAIN dirs : m <= n

(* What diff has looked at so far is the same on both sides if nothing has   *)
(* been found.                                                               *)
Differing ==
  /\ Newest(last) /\ said = "nothing"
  /\ ~edited => left \subseteq Compared(last)
  /\ ~edited /\ ~bad => \A f \in Compared(last) \ left : Same(f)
  /\ ~edited /\ bad => dirs[last] # source

(* A copy is begun when there is no backup or the newest is not the source.  *)
Copying ==
  /\ said = "nothing"
  /\ last < 0 => dirs = <<>>
  /\ last >= 0 => Newest(last) /\ (~edited => dirs[last] # source)

(* The new backup is the newest and holds what has been copied of the source.*)
Filling ==
  /\ said = "nothing"
  /\ Newest(last + 1) /\ (last < 0 => DOMAIN dirs = {0})
  /\ DOMAIN dirs[last + 1] \cap left = {}
  /\ ~edited /\ ~bad => \A f \in DOMAIN source \ left :
                          f \in DOMAIN dirs[last + 1] /\ dirs[last + 1][f] = source[f]
  /\ ~edited => DOMAIN dirs[last + 1] \subseteq DOMAIN source

(* The newest backup is the source.                                          *)
UpToDate == \E n \in DOMAIN dirs : Newest(n) /\ dirs[n] = source

Counting == said = "created" /\ (~edited => UpToDate)

(* The script removes exactly the excess, from all the backups there are.    *)
Removing ==
  /\ said = "created" /\ (~edited /\ others < max => UpToDate)
  /\ ids = DOMAIN dirs /\ remove = Excess /\ remove \in Nat

Ended ==
  /\ said \in {"created", "unnecessary"} /\ ~edited /\ others < max => UpToDate
  /\ said = "created" => Cardinality(DOMAIN dirs) <= max

BackupInv ==
  /\ Typed
  /\ pc \in {"idle", "diff", "copy", "files", "count", "remove"}
  /\ pc = "idle" => Ended
  /\ pc = "diff" => Differing
  /\ pc = "copy" => Copying
  /\ pc = "files" => Filling
  /\ pc = "count" => Counting
  /\ pc = "remove" => Removing

-----------------------------------------------------------------------------
(* The order of a finite set of numbers.                                     *)

UpTo(D, n) == {m \in D : m <= n}
Rank(D, n) == Cardinality(UpTo(D, n))

LEMMA RankRange ==
  ASSUME NEW D \in SUBSET Nat, IsFiniteSet(D), NEW n \in D
  PROVE  /\ IsFiniteSet(UpTo(D, n)) /\ Cardinality(D) \in Nat
         /\ Rank(D, n) \in 1 .. Cardinality(D)
<1>1. IsFiniteSet(UpTo(D, n)) /\ Rank(D, n) <= Cardinality(D)
  BY FS_Subset DEF UpTo, Rank
<1>2. n \in UpTo(D, n)
  BY DEF UpTo
<1>3. Rank(D, n) \in Nat /\ Rank(D, n) # 0
  BY <1>1, <1>2, FS_CardinalityType, FS_EmptySet DEF Rank
<1> QED BY <1>1, <1>3, FS_CardinalityType

LEMMA RankMonotonic ==
  ASSUME NEW D \in SUBSET Nat, IsFiniteSet(D), NEW n \in D, NEW m \in D, n < m
  PROVE  Rank(D, n) < Rank(D, m)
<1>1. UpTo(D, n) \in SUBSET UpTo(D, m) /\ UpTo(D, n) # UpTo(D, m)
  <2>1. m \in UpTo(D, m) /\ m \notin UpTo(D, n)
    BY DEF UpTo
  <2>2. \A x \in UpTo(D, n) : x \in UpTo(D, m)
    BY DEF UpTo
  <2> QED BY <2>1, <2>2
<1>2. IsFiniteSet(UpTo(D, m)) /\ Rank(D, n) \in Nat /\ Rank(D, m) \in Nat
  BY RankRange
<1> QED BY <1>1, <1>2, FS_Subset DEF Rank

(* Every position is the rank of exactly one number.                         *)
LEMMA RankOnto ==
  ASSUME NEW D \in SUBSET Nat, IsFiniteSet(D), NEW i \in 1 .. Cardinality(D)
  PROVE  \E n \in D : Rank(D, n) = i
<1> DEFINE rank == [n \in D |-> Rank(D, n)]
           T == 1 .. Cardinality(D)
<1>1. Cardinality(D) \in Nat
  BY FS_CardinalityType
<1>2. rank \in [D -> T]
  BY RankRange
<1>3. \A n, m \in D : n # m => rank[n] # rank[m]
  <2> SUFFICES ASSUME NEW n \in D, NEW m \in D, n # m PROVE Rank(D, n) # Rank(D, m)
    OBVIOUS
  <2>1. n < m \/ m < n
    OBVIOUS
  <2>2. Rank(D, n) \in Nat /\ Rank(D, m) \in Nat
    BY RankRange
  <2> QED BY <2>1, <2>2, RankMonotonic
<1>4. rank \in Injection(D, T)
  BY <1>2, <1>3 DEF Injection, IsInjective
<1>5. IsFiniteSet(T) /\ Cardinality(T) = Cardinality(D)
  BY <1>1, FS_Interval
<1>6. rank \in Surjection(D, T)
  BY <1>4, <1>5, FS_Injection
<1> QED BY <1>6 DEF Surjection

LEMMA RankUnique ==
  ASSUME NEW D \in SUBSET Nat, IsFiniteSet(D), NEW n \in D, NEW m \in D,
         Rank(D, n) = Rank(D, m)
  PROVE  n = m
<1>1. n < m \/ m < n \/ n = m
  OBVIOUS
<1>2. Rank(D, n) \in Nat /\ Rank(D, m) \in Nat
  BY RankRange
<1> QED BY <1>1, <1>2, RankMonotonic

(* The number of the last rank is the largest, that of rank 1 the smallest.  *)
LEMMA Largest ==
  ASSUME NEW D \in SUBSET Nat, IsFiniteSet(D), NEW n \in D
  PROVE  Rank(D, n) = Cardinality(D) <=> \A m \in D : m <= n
<1>1. IsFiniteSet(D) /\ UpTo(D, n) \in SUBSET D
  BY DEF UpTo
<1>2. Cardinality(D) = Cardinality(UpTo(D, n)) => UpTo(D, n) = D
  BY <1>1, FS_Subset
<1> QED BY <1>2 DEF UpTo, Rank

LEMMA Smallest ==
  ASSUME NEW D \in SUBSET Nat, IsFiniteSet(D), NEW n \in D
  PROVE  Rank(D, n) = 1 <=> \A m \in D : n <= m
<1>1. IsFiniteSet(UpTo(D, n)) /\ n \in UpTo(D, n)
  BY RankRange DEF UpTo
<1>2. ASSUME Rank(D, n) = 1, NEW m \in D PROVE n <= m
  <2>1. PICK x : UpTo(D, n) = {x}
    BY <1>1, <1>2, FS_Singleton DEF Rank
  <2>2. x = n /\ (m <= n => m = n)
    BY <1>1, <2>1 DEF UpTo
  <2> QED BY <2>2
<1>3. ASSUME \A m \in D : n <= m PROVE Rank(D, n) = 1
  <2>1. \A m \in D : m <= n <=> m = n
    BY <1>3
  <2>2. UpTo(D, n) = {n}
    BY <2>1 DEF UpTo
  <2> QED BY <2>2, FS_Singleton DEF Rank
<1> QED BY <1>2, <1>3

LEMMA HasEnds ==
  ASSUME NEW D \in SUBSET Nat, IsFiniteSet(D), D # {}
  PROVE  /\ \E n \in D : \A m \in D : m <= n
         /\ \E n \in D : \A m \in D : n <= m
<1>1. Cardinality(D) \in Nat /\ Cardinality(D) # 0
  BY FS_CardinalityType, FS_EmptySet
<1>2. PICK n \in D : Rank(D, n) = Cardinality(D)
  BY <1>1, RankOnto
<1>3. PICK m \in D : Rank(D, m) = 1
  BY <1>1, RankOnto
<1> QED BY <1>2, <1>3, Largest, Smallest

LEMMA MaxIsLargest ==
  ASSUME NEW D \in SUBSET Nat, IsFiniteSet(D)
  PROVE  /\ D = {} => Max(D \cup {-1}) = -1
         /\ D # {} => /\ Max(D \cup {-1}) \in D
                      /\ \A m \in D : m <= Max(D \cup {-1})
<1>1. ASSUME D = {} PROVE Max(D \cup {-1}) = -1
  <2>1. D \cup {-1} = {-1}
    BY <1>1
  <2> QED BY <2>1 DEF Max
<1>2. ASSUME D # {} PROVE Max(D \cup {-1}) \in D /\ \A m \in D : m <= Max(D \cup {-1})
  <2>1. PICK n \in D : \A m \in D : m <= n
    BY <1>2, HasEnds
  <2>2. \E x \in D \cup {-1} : \A y \in D \cup {-1} : x >= y
    BY <2>1
  <2>3. /\ Max(D \cup {-1}) \in D \cup {-1}
        /\ \A y \in D \cup {-1} : Max(D \cup {-1}) >= y
    BY <2>2 DEF Max
  <2> QED BY <2>1, <2>3
<1> QED BY <1>1, <1>2

LEMMA MinIsSmallest ==
  ASSUME NEW D \in SUBSET Nat, IsFiniteSet(D), D # {}
  PROVE  Min(D) \in D /\ \A m \in D : Min(D) <= m
<1>1. \E x \in D : \A y \in D : x <= y
  BY HasEnds
<1> QED BY <1>1 DEF Min

-----------------------------------------------------------------------------
(* Directories and the row of backups.                                       *)

LEMMA DirectoryType ==
  ASSUME NEW d
  PROVE  d \in S!Directories <=> d \in [DOMAIN d -> Contents] /\ DOMAIN d \subseteq Files
BY DEF S!Directories

LEMMA SetFile ==
  ASSUME NEW d \in S!Directories, NEW f \in Files, NEW c \in Contents
  PROVE  With(d, f, c) \in S!Directories
<1> DEFINE e == With(d, f, c)
<1>1. e = [g \in DOMAIN d \cup {f} |-> IF g = f THEN c ELSE d[g]]
  BY DEF With
<1>2. d \in [DOMAIN d -> Contents] /\ DOMAIN d \subseteq Files
  BY DirectoryType
<1> HIDE DEF e
<1>3. e \in [DOMAIN e -> Contents] /\ DOMAIN e \subseteq Files
  BY <1>1, <1>2
<1> QED BY <1>3, DirectoryType DEF e

LEMMA DropFile ==
  ASSUME NEW d \in S!Directories, NEW f
  PROVE  Restrict(d, DOMAIN d \ {f}) \in S!Directories
<1> DEFINE e == Restrict(d, DOMAIN d \ {f})
<1>1. e = [g \in DOMAIN d \ {f} |-> d[g]]
  BY DEF Restrict
<1>2. d \in [DOMAIN d -> Contents] /\ DOMAIN d \subseteq Files
  BY DirectoryType
<1> HIDE DEF e
<1>3. e \in [DOMAIN e -> Contents] /\ DOMAIN e \subseteq Files
  BY <1>1, <1>2
<1> QED BY <1>3, DirectoryType DEF e

LEMMA EmptyDirectory == <<>> \in S!Directories /\ DOMAIN <<>> = {}
<1>1. DOMAIN <<>> = {} /\ <<>> \in [DOMAIN <<>> -> Contents]
  OBVIOUS
<1> QED BY <1>1, DirectoryType

(* LastNumber is the number of the newest backup, -1 when there is none.     *)
LEMMA LastIsNewest ==
  ASSUME Typed
  PROVE  /\ LastNumber \in Nat \cup {-1}
         /\ LastNumber = -1 <=> DOMAIN dirs = {}
         /\ DOMAIN dirs # {} => Newest(LastNumber)
         /\ \A n \in DOMAIN dirs : Newest(n) => n = LastNumber
<1>1. DOMAIN dirs \in SUBSET Nat /\ IsFiniteSet(DOMAIN dirs)
  BY DEF Typed
<1>2. CASE DOMAIN dirs = {}
  BY <1>1, <1>2, MaxIsLargest DEF LastNumber
<1>3. CASE DOMAIN dirs # {}
  <2>1. LastNumber \in DOMAIN dirs /\ \A m \in DOMAIN dirs : m <= LastNumber
    BY <1>1, <1>3, MaxIsLargest DEF LastNumber
  <2>2. ASSUME NEW n \in DOMAIN dirs, Newest(n) PROVE n = LastNumber
    <3>1. LastNumber <= n /\ n <= LastNumber /\ n \in Nat /\ LastNumber \in Nat
      BY <1>1, <2>1, <2>2 DEF Newest
    <3> QED BY <3>1
  <2> QED BY <1>1, <1>3, <2>1, <2>2 DEF Newest
<1> QED BY <1>2, <1>3

-----------------------------------------------------------------------------
(* The invariant is kept: one lemma per step of the script.                  *)

LEMMA BackupInit == Init => BackupInv
<1> SUFFICES ASSUME Init PROVE BackupInv
  OBVIOUS
<1>1. DOMAIN dirs = {} /\ IsFiniteSet(DOMAIN dirs) /\ Cardinality(DOMAIN dirs) = 0
  BY FS_EmptySet, EmptyDirectory DEF Init
<1>2. dirs \in [DOMAIN dirs -> S!Directories]
  BY <1>1 DEF Init
<1>3. Typed
  BY <1>1, <1>2, LimitsAssumption DEF Init, Typed
<1>4. Ended
  BY <1>1, LimitsAssumption DEF Init, Ended
<1> QED BY <1>3, <1>4 DEF Init, BackupInv

LEMMA EditStep == ASSUME BackupInv, Edit PROVE BackupInv'
<1>1. source' \in S!Directories
  <2>1. ASSUME NEW f \in Files, NEW c \in Contents, source' = With(source, f, c)
        PROVE  source' \in S!Directories
    BY <2>1, SetFile DEF BackupInv, Typed
  <2>2. ASSUME NEW f \in Files, source' = Restrict(source, DOMAIN source \ {f})
        PROVE  source' \in S!Directories
    BY <2>2, DropFile DEF BackupInv, Typed
  <2> QED BY <2>1, <2>2 DEF Edit
<1>2. edited' = TRUE /\ UNCHANGED <<dirs, others, pc, max, last, left, bad, ids, remove, said>>
  BY DEF Edit
<1>3. Typed'
  BY <1>1, <1>2 DEF BackupInv, Typed
<1> QED BY <1>2, <1>3 DEF BackupInv, Ended, Differing, Copying, Filling, Counting, Removing,
                          Newest, Excess

LEMMA StartStep == ASSUME BackupInv, Start PROVE BackupInv'
<1>1. /\ pc = "idle" /\ max' \in Limits /\ last' = LastNumber
      /\ bad' = FALSE /\ said' = "nothing" /\ edited' = FALSE
      /\ UNCHANGED <<source, dirs, others, ids, remove>>
  BY DEF Start
<1>2. /\ LastNumber \in Nat \cup {-1}
      /\ LastNumber = -1 <=> DOMAIN dirs = {}
      /\ DOMAIN dirs # {} => Newest(LastNumber)
  BY LastIsNewest DEF BackupInv
<1>3. source \in S!Directories /\ DOMAIN source \subseteq Files
  BY DirectoryType DEF BackupInv, Typed
<1>4. CASE last' < 0
  <2>1. pc' = "copy" /\ left' = {}
    BY <1>4 DEF Start
  <2>2. Typed'
    BY <1>1, <1>2, <2>1 DEF BackupInv, Typed
  <2>3. last' = -1 /\ DOMAIN dirs = {}
    BY <1>1, <1>2, <1>4
  <2>4. dirs = <<>>
    BY <2>3 DEF BackupInv, Typed
  <2>5. Copying'
    BY <1>1, <2>3, <2>4 DEF Copying
  <2> QED BY <2>1, <2>2, <2>5 DEF BackupInv
<1>5. CASE ~(last' < 0)
  <2>1. pc' = "diff" /\ left' = Compared(last')
    BY <1>5 DEF Start
  <2>2. Newest(LastNumber) /\ LastNumber \in DOMAIN dirs
    <3>1. LastNumber # -1
      BY <1>1, <1>5
    <3>2. Newest(LastNumber)
      BY <1>2, <3>1
    <3> QED BY <3>2 DEF Newest
  <2>3. left' \subseteq Files
    <3>1. dirs[last'] \in S!Directories
      BY <1>1, <2>2 DEF BackupInv, Typed
    <3>2. DOMAIN dirs[last'] \subseteq Files
      BY <3>1, DirectoryType
    <3> QED BY <1>3, <2>1, <3>2 DEF Compared
  <2>4. Typed'
    BY <1>1, <1>2, <2>3 DEF BackupInv, Typed
  <2>5. Compared(last)' = left'
    BY <1>1, <2>1 DEF Compared
  <2>6. Newest(last)'
    BY <1>1, <2>2 DEF Newest
  <2>7. Differing'
    BY <1>1, <2>5, <2>6 DEF Differing
  <2> QED BY <2>1, <2>4, <2>7 DEF BackupInv
<1> QED BY <1>4, <1>5

LEMMA DiffStep == ASSUME BackupInv, Diff PROVE BackupInv'
<1>1. Differing /\ Typed /\ pc = "diff" /\ last \in DOMAIN dirs /\ last \in Nat
  BY DEF Diff, BackupInv, Differing, Newest, Typed
<1>2. UNCHANGED <<source, dirs, others, max, last, ids, remove, edited>>
  BY DEF Diff
<1>3. source \in [DOMAIN source -> Contents] /\ dirs[last] \in [DOMAIN dirs[last] -> Contents]
  <2>1. source \in S!Directories /\ dirs[last] \in S!Directories
    BY <1>1 DEF Typed
  <2> QED BY <2>1, DirectoryType
<1>4. ASSUME NEW f \in left, left' = left \ {f}, bad' = (bad \/ ~Same(f)), UNCHANGED <<pc, said>>
      PROVE  BackupInv'
  <2>1. Typed'
    BY <1>1, <1>2, <1>4 DEF Typed
  <2>2. Newest(last)' /\ said' = "nothing" /\ Compared(last)' = Compared(last)
    BY <1>1, <1>2, <1>4 DEF Newest, Differing, Compared
  <2>3. \A g : Same(g)' <=> Same(g)
    BY <1>2 DEF Same
  <2>4. ASSUME ~edited' PROVE left' \subseteq Compared(last)
    BY <1>1, <1>2, <1>4, <2>4 DEF Differing
  <2>5. ASSUME ~edited', ~bad' PROVE \A g \in Compared(last) \ left' : Same(g)
    BY <1>1, <1>2, <1>4, <2>5 DEF Differing
  <2>6. ASSUME ~edited', bad' PROVE dirs[last] # source
    <3>1. CASE bad
      BY <1>1, <1>2, <2>6, <3>1 DEF Differing
    <3>2. CASE ~bad
      <4>1. ~Same(f) /\ f \in Compared(last)
        BY <1>1, <1>2, <1>4, <2>6, <3>2 DEF Differing
      <4> QED BY <4>1 DEF Same, Compared
    <3> QED BY <3>1, <3>2
  <2>7. Differing'
    BY <1>2, <2>2, <2>3, <2>4, <2>5, <2>6 DEF Differing
  <2> QED BY <1>1, <1>4, <2>1, <2>7 DEF BackupInv
<1>5. ASSUME left = {}, ~bad, pc' = "idle", said' = "unnecessary", UNCHANGED <<left, bad>>
      PROVE  BackupInv'
  <2>1. Typed'
    BY <1>1, <1>2, <1>5 DEF Typed
  <2>2. ASSUME ~edited PROVE dirs[last] = source
    <3>1. \A f \in Compared(last) : Same(f)
      BY <1>1, <1>5, <2>2 DEF Differing
    <3>2. DOMAIN source = DOMAIN dirs[last] /\ \A f \in DOMAIN source : source[f] = dirs[last][f]
      BY <3>1 DEF Same, Compared
    <3> QED BY <1>3, <3>2
  <2>3. ~edited' => UpToDate'
    BY <1>1, <1>2, <2>2 DEF Differing, UpToDate, Newest
  <2> QED BY <1>5, <2>1, <2>3 DEF BackupInv, Ended
<1>6. ASSUME left = {}, bad, pc' = "copy", UNCHANGED <<left, bad, said>> PROVE BackupInv'
  <2>1. Typed'
    BY <1>1, <1>2, <1>6 DEF Typed
  <2>2. Copying'
    BY <1>1, <1>2, <1>6 DEF Copying, Differing, Newest
  <2> QED BY <1>6, <2>1, <2>2 DEF BackupInv
<1> QED BY <1>4, <1>5, <1>6 DEF Diff

(* cp makes the new directory with a number above all the others.            *)
LEMMA MakeDirectoryStep == ASSUME BackupInv, MakeDirectory PROVE BackupInv'
<1>1. /\ pc = "copy" /\ dirs' = With(dirs, last + 1, <<>>)
      /\ pc' = "files" /\ left' = DOMAIN source /\ bad' = FALSE
      /\ UNCHANGED <<source, others, max, last, ids, remove, said, edited>>
  BY DEF MakeDirectory
<1>2. Typed /\ Copying
  BY <1>1 DEF BackupInv
<1>3. source \in S!Directories /\ DOMAIN source \subseteq Files
  BY <1>2, DirectoryType DEF Typed
<1>4. last \in Nat \cup {-1} /\ last + 1 \in Nat /\ DOMAIN dirs \subseteq Nat
  BY <1>2 DEF Typed
<1>5. dirs' = [n \in DOMAIN dirs \cup {last + 1} |-> IF n = last + 1 THEN <<>> ELSE dirs[n]]
  BY <1>1 DEF With
<1>6. DOMAIN dirs' = DOMAIN dirs \cup {last + 1} /\ dirs'[last + 1] = <<>>
  BY <1>5
<1>7. Typed'
  <2>1. IsFiniteSet(DOMAIN dirs')
    <3>1. IsFiniteSet(DOMAIN dirs)
      BY <1>2 DEF Typed
    <3>2. IsFiniteSet(DOMAIN dirs \cup {last + 1})
      BY <3>1, FS_AddElement
    <3> QED BY <1>6, <3>2
  <2>2. dirs' \in [DOMAIN dirs' -> S!Directories]
    BY <1>2, <1>5, <1>6, EmptyDirectory DEF Typed
  <2> QED BY <1>1, <1>2, <1>3, <1>4, <1>6, <2>1, <2>2 DEF Typed
<1>8. \A m \in DOMAIN dirs : m <= last
  <2>1. CASE last < 0
    BY <1>2, <2>1, EmptyDirectory DEF Copying
  <2>2. CASE last >= 0
    BY <1>2, <2>2 DEF Copying, Newest
  <2> QED BY <1>4, <2>1, <2>2
<1>9. Newest(last + 1)'
  <2>1. \A m \in DOMAIN dirs' : m <= last + 1
    BY <1>4, <1>6, <1>8
  <2> QED BY <1>1, <1>6, <2>1 DEF Newest
<1>10. last < 0 => DOMAIN dirs' = {0}
  <2> SUFFICES ASSUME last < 0 PROVE DOMAIN dirs' = {0}
    OBVIOUS
  <2>1. last + 1 = 0 /\ DOMAIN dirs = {}
    BY <1>2, <1>4, EmptyDirectory DEF Copying
  <2> QED BY <1>6, <2>1
<1>11. said' = "nothing"
  BY <1>1, <1>2 DEF Copying
<1>12. DOMAIN dirs'[last + 1] = {}
  BY <1>6, EmptyDirectory
<1>13. Filling'
  BY <1>1, <1>9, <1>10, <1>11, <1>12 DEF Filling
<1> QED BY <1>1, <1>7, <1>13 DEF BackupInv

LEMMA CopyFileStep == ASSUME BackupInv, CopyFile PROVE BackupInv'
<1>1. PICK f \in left \cap DOMAIN source :
        /\ dirs' = [dirs EXCEPT ![last + 1] = With(@, f, source[f])]
        /\ left' = left \ {f}
  BY DEF CopyFile
<1>2. /\ pc = "files"
      /\ UNCHANGED <<source, others, pc, max, last, bad, ids, remove, said, edited>>
  BY DEF CopyFile
<1>3. Typed /\ Filling /\ last + 1 \in DOMAIN dirs
  BY <1>2 DEF BackupInv, Filling, Newest
<1> DEFINE d == dirs[last + 1]
           e == With(d, f, source[f])
<1>4. d \in S!Directories /\ source[f] \in Contents /\ f \in Files
  <2>1. d \in S!Directories /\ source \in S!Directories
    BY <1>3 DEF Typed
  <2> QED BY <2>1, DirectoryType
<1>5. e \in S!Directories
  BY <1>4, SetFile
<1>6. e = [g \in DOMAIN d \cup {f} |-> IF g = f THEN source[f] ELSE d[g]]
  BY DEF With
<1>7. DOMAIN dirs' = DOMAIN dirs /\ dirs'[last + 1] = e
      /\ \A n \in DOMAIN dirs : n # last + 1 => dirs'[n] = dirs[n]
  BY <1>1, <1>3 DEF Typed
<1>8. dirs' \in [DOMAIN dirs' -> S!Directories]
  BY <1>1, <1>3, <1>5, <1>7 DEF Typed
<1> HIDE DEF d, e
<1>9. Typed'
  BY <1>1, <1>2, <1>3, <1>7, <1>8 DEF Typed
<1>10. DOMAIN e = DOMAIN d \cup {f} /\ e[f] = source[f]
       /\ \A g \in DOMAIN d : g # f => e[g] = d[g]
  BY <1>6
<1>11. Filling'
  <2>1. said' = "nothing" /\ Newest(last + 1)' /\ (last' < 0 => DOMAIN dirs' = {0})
    BY <1>2, <1>3, <1>7 DEF Filling, Newest
  <2>2. DOMAIN e \cap left' = {}
    BY <1>1, <1>3, <1>10 DEF Filling, d
  <2>3. ASSUME ~edited', ~bad'
        PROVE  \A g \in DOMAIN source \ left' : g \in DOMAIN e /\ e[g] = source[g]
    BY <1>1, <1>2, <1>3, <1>10, <2>3 DEF Filling, d
  <2>4. ~edited' => DOMAIN e \subseteq DOMAIN source
    BY <1>1, <1>2, <1>3, <1>10 DEF Filling, d
  <2> QED BY <1>2, <1>7, <2>1, <2>2, <2>3, <2>4 DEF Filling
<1> QED BY <1>2, <1>9, <1>11 DEF BackupInv

LEMMA CopyFileFailsStep == ASSUME BackupInv, CopyFileFails PROVE BackupInv'
<1>1. PICK f \in left : left' = left \ {f}
  BY DEF CopyFileFails
<1>2. /\ pc = "files" /\ bad' = TRUE
      /\ UNCHANGED <<source, dirs, others, pc, max, last, ids, remove, said, edited>>
  BY DEF CopyFileFails
<1>3. Typed'
  BY <1>1, <1>2 DEF BackupInv, Typed
<1>4. Filling'
  BY <1>1, <1>2 DEF BackupInv, Filling, Newest
<1> QED BY <1>2, <1>3, <1>4 DEF BackupInv

LEMMA CopyFailsStep == ASSUME BackupInv, CopyFails PROVE BackupInv'
<1>1. /\ pc' = "idle" /\ said' = "failed"
      /\ UNCHANGED <<source, dirs, others, max, last, left, bad, ids, remove, edited>>
  BY DEF CopyFails
<1>2. Typed'
  BY <1>1 DEF BackupInv, Typed
<1> QED BY <1>1, <1>2 DEF BackupInv, Ended

(* A copy without an error, of a directory that was not edited, is the same. *)
LEMMA CreatedStep == ASSUME BackupInv, Created PROVE BackupInv'
<1>1. /\ pc = "files" /\ left = {} /\ ~bad /\ said' = "created"
      /\ pc' = IF last < 0 THEN "idle" ELSE "count"
      /\ UNCHANGED <<source, dirs, others, max, last, left, bad, ids, remove, edited>>
  BY DEF Created
<1>2. Typed /\ Filling /\ last + 1 \in DOMAIN dirs
  BY <1>1 DEF BackupInv, Filling, Newest
<1>3. Typed'
  BY <1>1, <1>2 DEF Typed
<1>4. ~edited => dirs[last + 1] = source
  <2> SUFFICES ASSUME ~edited PROVE dirs[last + 1] = source
    OBVIOUS
  <2>1. source \in [DOMAIN source -> Contents]
        /\ dirs[last + 1] \in [DOMAIN dirs[last + 1] -> Contents]
    <3>1. source \in S!Directories /\ dirs[last + 1] \in S!Directories
      BY <1>2 DEF Typed
    <3> QED BY <3>1, DirectoryType
  <2>2. DOMAIN dirs[last + 1] = DOMAIN source
        /\ \A g \in DOMAIN source : dirs[last + 1][g] = source[g]
    BY <1>1, <1>2 DEF Filling
  <2> QED BY <2>1, <2>2
<1>5. ~edited' => UpToDate'
  BY <1>1, <1>2, <1>4 DEF Filling, UpToDate, Newest
<1>6. CASE last < 0
  <2>1. Cardinality(DOMAIN dirs) = 1
    BY <1>2, <1>6, FS_Singleton DEF Filling
  <2>2. max \in Nat \ {0}
    BY <1>2, LimitsAssumption DEF Typed
  <2>3. Cardinality(DOMAIN dirs') <= max'
    BY <1>1, <2>1, <2>2
  <2> QED BY <1>1, <1>3, <1>5, <1>6, <2>3 DEF BackupInv, Ended
<1>7. CASE ~(last < 0)
  BY <1>1, <1>3, <1>5, <1>7 DEF BackupInv, Counting
<1> QED BY <1>6, <1>7

LEMMA CountStep == ASSUME BackupInv, Count PROVE BackupInv'
<1>1. /\ pc = "count" /\ UNCHANGED <<source, dirs, others, max, last, left, bad, said, edited>>
  BY DEF Count
<1>2. Typed /\ Counting
  BY <1>1 DEF BackupInv
<1>3. Typed'
  BY <1>1, <1>2 DEF Typed
<1>4. UpToDate' <=> UpToDate
  BY <1>1 DEF UpToDate, Newest
<1>5. Cardinality(DOMAIN dirs) \in Nat /\ others \in Nat /\ max \in Nat
  BY <1>2, LimitsAssumption, FS_CardinalityType DEF Typed
<1>6. Excess' = Excess /\ Excess \in Int
  BY <1>1, <1>5 DEF Excess
<1>7. CASE Excess > 0
  <2>1. pc' = "remove" /\ ids' = DOMAIN dirs /\ remove' = Excess
    BY <1>7 DEF Count
  <2>2. Removing'
    BY <1>1, <1>2, <1>4, <1>6, <1>7, <2>1 DEF Counting, Removing
  <2> QED BY <1>3, <2>1, <2>2 DEF BackupInv
<1>8. CASE ~(Excess > 0)
  <2>1. pc' = "idle"
    BY <1>8 DEF Count
  <2>2. Cardinality(DOMAIN dirs) <= max
    BY <1>5, <1>8 DEF Excess
  <2>3. Ended'
    BY <1>1, <1>2, <1>4, <2>2 DEF Counting, Ended
  <2> QED BY <1>3, <2>1, <2>3 DEF BackupInv
<1> QED BY <1>7, <1>8

(* There are two backups at least while the newest must stay, so the oldest  *)
(* is another one.                                                           *)
LEMMA OldestIsNotNewest ==
  ASSUME Typed, Removing, remove > 0, ids # {}
  PROVE  /\ First \in DOMAIN dirs /\ \A m \in DOMAIN dirs : First <= m
         /\ others < max => ~Newest(First)
<1>1. DOMAIN dirs \in SUBSET Nat /\ IsFiniteSet(DOMAIN dirs) /\ ids = DOMAIN dirs
  BY DEF Typed, Removing
<1>2. First \in DOMAIN dirs /\ \A m \in DOMAIN dirs : First <= m
  BY <1>1, MinIsSmallest DEF First
<1>3. ASSUME others < max, Newest(First) PROVE FALSE
  <2>1. \A m \in DOMAIN dirs : m = First
    <3> SUFFICES ASSUME NEW m \in DOMAIN dirs PROVE m = First
      OBVIOUS
    <3>1. m <= First /\ First <= m /\ m \in Nat /\ First \in Nat
      BY <1>1, <1>2, <1>3 DEF Newest
    <3> QED BY <3>1
  <2>2. DOMAIN dirs = {First}
    BY <1>2, <2>1
  <2>3. Cardinality(DOMAIN dirs) = 1
    BY <2>2, FS_Singleton
  <2>4. others \in Nat /\ max \in Nat
    BY LimitsAssumption DEF Typed
  <2>5. 1 + others - max > 0
    BY <2>3 DEF Removing, Excess
  <2> QED BY <1>3, <2>4, <2>5
<1> QED BY <1>2, <1>3

LEMMA RemoveOldestStep == ASSUME BackupInv, RemoveOldest PROVE BackupInv'
<1>1. /\ pc = "remove" /\ remove > 0 /\ ids # {}
      /\ UNCHANGED <<source, others, pc, max, last, left, bad, said, edited>>
  BY DEF RemoveOldest
<1>2. Typed /\ Removing
  BY <1>1 DEF BackupInv
<1>3. /\ First \in DOMAIN dirs /\ First \in Nat
      /\ others < max => ~Newest(First)
  BY <1>1, <1>2, OldestIsNotNewest DEF Typed
<1>4. ASSUME NEW f \in DOMAIN dirs[First],
             dirs' = [dirs EXCEPT ![First] = Restrict(@, DOMAIN @ \ {f})],
             UNCHANGED <<ids, remove>>
      PROVE  BackupInv'
  <2> DEFINE e == Restrict(dirs[First], DOMAIN dirs[First] \ {f})
  <2>1. e \in S!Directories
    BY <1>2, <1>3, DropFile DEF Typed
  <2>2. /\ dirs' = [dirs EXCEPT ![First] = e]
    BY <1>4
  <2> HIDE DEF e
  <2>3. /\ DOMAIN dirs' = DOMAIN dirs /\ dirs' \in [DOMAIN dirs' -> S!Directories]
        /\ \A n \in DOMAIN dirs : n # First => dirs'[n] = dirs[n]
    BY <1>2, <2>1, <2>2 DEF Typed
  <2>4. Typed'
    BY <1>1, <1>2, <2>3 DEF Typed
  <2>5. others < max /\ UpToDate => UpToDate'
    BY <1>1, <1>3, <2>3 DEF UpToDate, Newest
  <2>6. Excess' = Excess
    BY <1>1, <2>3 DEF Excess
  <2>7. Removing'
    BY <1>1, <1>2, <1>4, <2>3, <2>5, <2>6 DEF Removing
  <2> QED BY <1>1, <2>4, <2>7 DEF BackupInv
<1>5. ASSUME dirs' = Restrict(dirs, DOMAIN dirs \ {First}),
             ids' = ids \ {First}, remove' = remove - 1
      PROVE  BackupInv'
  <2>1. dirs' = [n \in DOMAIN dirs \ {First} |-> dirs[n]]
    BY <1>5 DEF Restrict
  <2>2. /\ DOMAIN dirs' = DOMAIN dirs \ {First} /\ dirs' \in [DOMAIN dirs' -> S!Directories]
        /\ \A n \in DOMAIN dirs' : dirs'[n] = dirs[n]
    BY <1>2, <2>1 DEF Typed
  <2>3. IsFiniteSet(DOMAIN dirs') /\ Cardinality(DOMAIN dirs') = Cardinality(DOMAIN dirs) - 1
    BY <1>2, <1>3, <2>2, FS_RemoveElement DEF Typed
  <2>4. Typed'
    BY <1>1, <1>2, <2>2, <2>3 DEF Typed
  <2>5. others < max /\ UpToDate => UpToDate'
    BY <1>1, <1>3, <2>2 DEF UpToDate, Newest
  <2>6. Excess' = Excess - 1 /\ remove' \in Nat
    <3>1. /\ Cardinality(DOMAIN dirs) \in Nat /\ others \in Nat /\ max \in Nat
          /\ remove \in Nat /\ others' = others /\ max' = max
      BY <1>1, <1>2, LimitsAssumption, FS_CardinalityType DEF Typed, Removing
    <3> QED BY <1>1, <1>5, <2>3, <3>1 DEF Excess
  <2>7. Removing'
    BY <1>1, <1>2, <1>5, <2>2, <2>5, <2>6 DEF Removing
  <2> QED BY <1>1, <2>4, <2>7 DEF BackupInv
<1> QED BY <1>4, <1>5 DEF RemoveOldest

LEMMA RemovedStep == ASSUME BackupInv, Removed PROVE BackupInv'
<1>1. /\ pc = "remove" /\ (remove = 0 \/ ids = {}) /\ pc' = "idle"
      /\ UNCHANGED <<source, dirs, others, max, last, left, bad, said, edited>>
  BY DEF Removed
<1>2. Typed /\ Removing
  BY <1>1 DEF BackupInv
<1>3. Typed'
  BY <1>1, <1>2 DEF Typed
<1>4. /\ Cardinality(DOMAIN dirs) \in Nat /\ others \in Nat /\ max \in Nat
  BY <1>2, LimitsAssumption, FS_CardinalityType DEF Typed
<1>5. Cardinality(DOMAIN dirs) <= max
  <2>1. CASE remove = 0
    BY <1>2, <1>4, <2>1 DEF Removing, Excess
  <2>2. CASE ids = {}
    <3>1. Cardinality(DOMAIN dirs) = 0
      BY <1>2, <2>2, FS_EmptySet DEF Removing
    <3> QED BY <1>4, <3>1
  <2> QED BY <1>1, <2>1, <2>2
<1>6. Ended'
  BY <1>1, <1>2, <1>5 DEF Removing, Ended, UpToDate, Newest
<1> QED BY <1>1, <1>3, <1>6 DEF BackupInv

LEMMA KilledStep == ASSUME BackupInv, Killed PROVE BackupInv'
<1>1. /\ pc' = "idle" /\ said' = "nothing" /\ left' = {} /\ bad' = FALSE
      /\ UNCHANGED <<source, dirs, others, max, last, edited>>
  BY DEF Killed
<1>2. Typed'
  BY <1>1 DEF BackupInv, Typed
<1> QED BY <1>1, <1>2 DEF BackupInv, Ended

LEMMA BackupNext == ASSUME BackupInv, [Next]_vars PROVE BackupInv'
<1>1. CASE UNCHANGED vars
  BY <1>1 DEF vars, BackupInv, Typed, Ended, Differing, Copying, Filling, Counting, Removing,
              UpToDate, Newest, Excess, Compared, Same
<1>2. CASE Next
  BY <1>2, EditStep, StartStep, DiffStep, MakeDirectoryStep, CopyFileStep, CopyFileFailsStep,
     CopyFailsStep, CreatedStep, CountStep, RemoveOldestStep, RemovedStep, KilledStep DEF Next
<1> QED BY <1>1, <1>2

(* At every step of every script the backups are numbered directories and    *)
(* what it has compared, copied and counted agrees with what is on the disk. *)
THEOREM BackupInvariant == Spec => []BackupInv
<1>1. Init => BackupInv
  BY BackupInit
<1>2. BackupInv /\ [Next]_vars => BackupInv'
  BY BackupNext
<1> QED BY <1>1, <1>2, PTL DEF Spec

(* "Backup created" and "No backup necessary" are true of the directory, and *)
(* no more than <max-backups> are left, whatever earlier scripts left.       *)
THEOREM BackupEnds == Spec => []EndsAsItSays
<1>1. BackupInv => EndsAsItSays
  <2> SUFFICES ASSUME BackupInv PROVE EndsAsItSays
    OBVIOUS
  <2>1. Typed /\ (pc = "idle" => Ended)
    BY DEF BackupInv
  <2>2. \A n \in DOMAIN dirs : Newest(n) => n = LastNumber
    BY <2>1, LastIsNewest
  <2>3. UpToDate => dirs # <<>> /\ dirs[LastNumber] = source
    BY <2>2, EmptyDirectory DEF UpToDate
  <2> QED BY <2>1, <2>3 DEF Ended, EndsAsItSays
<1> QED BY <1>1, BackupInvariant, PTL

-----------------------------------------------------------------------------
(* The backups in the order of their numbers, for any set of them.           *)

Row(d) == [i \in 1 .. Cardinality(DOMAIN d) |->
             d[CHOOSE n \in DOMAIN d : Rank(DOMAIN d, n) = i]]

Numbered(d) == /\ DOMAIN d \in SUBSET Nat /\ IsFiniteSet(DOMAIN d)
               /\ d \in [DOMAIN d -> S!Directories]

LEMMA InOrderIsRow == InOrder = Row(dirs)
BY DEF InOrder, Row, Rank, UpTo

LEMMA RowType ==
  ASSUME NEW d, Numbered(d)
  PROVE  /\ Row(d) \in Seq(S!Directories) /\ Len(Row(d)) = Cardinality(DOMAIN d)
         /\ Cardinality(DOMAIN d) \in Nat
         /\ \A n \in DOMAIN d : Rank(DOMAIN d, n) \in 1 .. Cardinality(DOMAIN d)
                               /\ Row(d)[Rank(DOMAIN d, n)] = d[n]
<1> DEFINE D == DOMAIN d
           R(i) == CHOOSE n \in D : Rank(D, n) = i
<1>1. D \in SUBSET Nat /\ IsFiniteSet(D) /\ d \in [D -> S!Directories]
  BY DEF Numbered
<1>2. Cardinality(D) \in Nat
  BY <1>1, FS_CardinalityType
<1>3. \A i \in 1 .. Cardinality(D) : R(i) \in D /\ Rank(D, R(i)) = i
  <2> SUFFICES ASSUME NEW i \in 1 .. Cardinality(D) PROVE R(i) \in D /\ Rank(D, R(i)) = i
    OBVIOUS
  <2>1. \E n \in D : Rank(D, n) = i
    BY <1>1, RankOnto
  <2> QED BY <2>1
<1>4. \A n \in D : Rank(D, n) \in 1 .. Cardinality(D)
  BY <1>1, RankRange
<1>5. Row(d) = [i \in 1 .. Cardinality(D) |-> d[R(i)]]
  BY DEF Row
<1>6. \A n \in D : R(Rank(D, n)) = n
  <2> SUFFICES ASSUME NEW n \in D PROVE R(Rank(D, n)) = n
    OBVIOUS
  <2>1. R(Rank(D, n)) \in D /\ Rank(D, R(Rank(D, n))) = Rank(D, n)
    BY <1>3, <1>4
  <2> HIDE DEF R
  <2> QED BY <1>1, <2>1, RankUnique
<1> HIDE DEF R, D
<1>7. Row(d) \in [1 .. Cardinality(D) -> S!Directories]
  BY <1>1, <1>3, <1>5
<1>8. Row(d) \in Seq(S!Directories) /\ Len(Row(d)) = Cardinality(D)
  BY <1>2, <1>7
<1>9. \A n \in D : Row(d)[Rank(D, n)] = d[n]
  BY <1>4, <1>5, <1>6
<1> QED BY <1>2, <1>4, <1>8, <1>9 DEF D

(* A sequence with every backup at its rank is the row.                      *)
LEMMA RowUnique ==
  ASSUME NEW d, Numbered(d), NEW s \in Seq(S!Directories), Len(s) = Cardinality(DOMAIN d),
         \A n \in DOMAIN d : s[Rank(DOMAIN d, n)] = d[n]
  PROVE  Row(d) = s
<1>1. Row(d) \in Seq(S!Directories) /\ Len(Row(d)) = Len(s)
  BY RowType
<1>2. ASSUME NEW i \in 1 .. Len(s) PROVE Row(d)[i] = s[i]
  <2>1. PICK n \in DOMAIN d : Rank(DOMAIN d, n) = i
    BY <1>2, RankOnto DEF Numbered
  <2>2. Row(d)[Rank(DOMAIN d, n)] = d[n] /\ s[Rank(DOMAIN d, n)] = d[n]
    BY RowType
  <2> QED BY <2>1, <2>2
<1> QED BY <1>1, <1>2, SeqEqual

(* A backup with a number above all the others comes last.                   *)
LEMMA RowAppend ==
  ASSUME NEW d, Numbered(d), NEW n \in Nat, \A m \in DOMAIN d : m < n,
         NEW v \in S!Directories
  PROVE  Numbered(With(d, n, v)) /\ Row(With(d, n, v)) = Append(Row(d), v)
<1> DEFINE D == DOMAIN d
           e == With(d, n, v)
           s == Append(Row(d), v)
<1>1. D \in SUBSET Nat /\ IsFiniteSet(D) /\ d \in [D -> S!Directories] /\ n \notin D
  BY DEF Numbered
<1>2. e = [m \in D \cup {n} |-> IF m = n THEN v ELSE d[m]]
  BY DEF With
<1>3. DOMAIN e = D \cup {n} /\ e[n] = v /\ \A m \in D : e[m] = d[m]
  BY <1>1, <1>2
<1>4. IsFiniteSet(D \cup {n}) /\ Cardinality(D \cup {n}) = Cardinality(D) + 1
  BY <1>1, FS_AddElement
<1>5. Numbered(e)
  <2>1. e \in [DOMAIN e -> S!Directories]
    BY <1>1, <1>2, <1>3
  <2> HIDE DEF e
  <2> QED BY <1>1, <1>3, <1>4, <2>1 DEF Numbered
<1>6. /\ Row(d) \in Seq(S!Directories) /\ Len(Row(d)) = Cardinality(D) /\ Cardinality(D) \in Nat
      /\ \A m \in D : Rank(D, m) \in 1 .. Cardinality(D) /\ Row(d)[Rank(D, m)] = d[m]
  BY RowType
<1>7. /\ s \in Seq(S!Directories) /\ Len(s) = Cardinality(D) + 1 /\ s[Cardinality(D) + 1] = v
      /\ \A i \in 1 .. Cardinality(D) : s[i] = Row(d)[i]
  BY <1>6
<1>8. \A m \in D : Rank(D \cup {n}, m) = Rank(D, m)
  <2> SUFFICES ASSUME NEW m \in D PROVE UpTo(D \cup {n}, m) = UpTo(D, m)
    BY DEF Rank
  <2>1. ~(n <= m)
    BY <1>1
  <2> QED BY <2>1 DEF UpTo
<1>9. Rank(D \cup {n}, n) = Cardinality(D) + 1
  <2>1. \A m \in D \cup {n} : m <= n
    BY <1>1
  <2> QED BY <1>1, <1>4, <2>1, Largest
<1> HIDE DEF e, s, D
<1>10. \A m \in DOMAIN e : s[Rank(DOMAIN e, m)] = e[m]
  BY <1>3, <1>6, <1>7, <1>8, <1>9
<1>11. Row(e) = s
  BY <1>3, <1>4, <1>5, <1>7, <1>10, RowUnique
<1> QED BY <1>5, <1>11 DEF e, s

(* Without the backup of the smallest number the row is its tail.            *)
LEMMA RowTail ==
  ASSUME NEW d, Numbered(d), NEW n \in DOMAIN d, \A m \in DOMAIN d : n <= m
  PROVE  /\ Row(Restrict(d, DOMAIN d \ {n})) = Tail(Row(d))
         /\ Row(d) # <<>> /\ Head(Row(d)) = d[n]
<1> DEFINE D == DOMAIN d
           e == Restrict(d, DOMAIN d \ {n})
           s == Tail(Row(d))
<1>1. D \in SUBSET Nat /\ IsFiniteSet(D) /\ d \in [D -> S!Directories]
  BY DEF Numbered
<1>2. e = [m \in D \ {n} |-> d[m]]
  BY DEF Restrict
<1>3. DOMAIN e = D \ {n} /\ \A m \in D \ {n} : e[m] = d[m]
  BY <1>2
<1>4. IsFiniteSet(D \ {n}) /\ Cardinality(D \ {n}) = Cardinality(D) - 1
  BY <1>1, FS_RemoveElement
<1>5. Numbered(e)
  <2>1. e \in [DOMAIN e -> S!Directories]
    BY <1>1, <1>2, <1>3
  <2> HIDE DEF e
  <2> QED BY <1>1, <1>3, <1>4, <2>1 DEF Numbered
<1>6. /\ Row(d) \in Seq(S!Directories) /\ Len(Row(d)) = Cardinality(D) /\ Cardinality(D) \in Nat
      /\ \A m \in D : Rank(D, m) \in 1 .. Cardinality(D) /\ Row(d)[Rank(D, m)] = d[m]
  BY RowType
<1>7. Rank(D, n) = 1
  BY <1>1, Smallest
<1>8. Cardinality(D) >= 1 /\ Row(d) # <<>> /\ Head(Row(d)) = d[n]
  BY <1>6, <1>7
<1>9. /\ s \in Seq(S!Directories) /\ Len(s) = Cardinality(D) - 1
      /\ \A i \in 1 .. Cardinality(D) - 1 : s[i] = Row(d)[i + 1]
  BY <1>6, <1>8
<1>10. \A m \in D \ {n} : Rank(D \ {n}, m) = Rank(D, m) - 1
  <2> SUFFICES ASSUME NEW m \in D \ {n} PROVE Rank(D \ {n}, m) = Rank(D, m) - 1
    OBVIOUS
  <2>1. n \in UpTo(D, m) /\ UpTo(D \ {n}, m) = UpTo(D, m) \ {n}
    BY DEF UpTo
  <2>2. IsFiniteSet(UpTo(D, m))
    BY <1>1, RankRange
  <2>3. Cardinality(UpTo(D, m) \ {n}) = Cardinality(UpTo(D, m)) - 1
    BY <2>1, <2>2, FS_RemoveElement
  <2> QED BY <2>1, <2>3 DEF Rank
<1>11. \A m \in D \ {n} : Rank(D \ {n}, m) \in 1 .. Cardinality(D) - 1
  BY <1>1, <1>4, RankRange
<1> HIDE DEF e, s, D
<1>12. ASSUME NEW m \in D \ {n} PROVE s[Rank(D \ {n}, m)] = e[m]
  <2>1. s[Rank(D \ {n}, m)] = Row(d)[Rank(D \ {n}, m) + 1]
    BY <1>9, <1>11
  <2>2. Rank(D, m) \in 1 .. Cardinality(D) /\ Row(d)[Rank(D, m)] = d[m]
    BY <1>6
  <2>3. Rank(D \ {n}, m) = Rank(D, m) - 1
    BY <1>10
  <2>4. Rank(D \ {n}, m) + 1 = Rank(D, m)
    BY <1>6, <2>2, <2>3
  <2> QED BY <1>3, <2>1, <2>2, <2>4
<1>13. Row(e) = s
  <2>1. Len(s) = Cardinality(DOMAIN e)
    BY <1>3, <1>4, <1>9
  <2>2. \A m \in DOMAIN e : s[Rank(DOMAIN e, m)] = e[m]
    BY <1>3, <1>12
  <2> QED BY <1>5, <1>9, <2>1, <2>2, RowUnique
<1> QED BY <1>8, <1>13 DEF e, s, D

(* A change of one backup is a change at its rank.                           *)
LEMMA RowExcept ==
  ASSUME NEW d, Numbered(d), NEW n \in DOMAIN d, NEW v \in S!Directories
  PROVE  Row([d EXCEPT ![n] = v]) = [Row(d) EXCEPT ![Rank(DOMAIN d, n)] = v]
<1> DEFINE D == DOMAIN d
           e == [d EXCEPT ![n] = v]
           s == [Row(d) EXCEPT ![Rank(D, n)] = v]
<1>1. D \in SUBSET Nat /\ IsFiniteSet(D) /\ d \in [D -> S!Directories]
  BY DEF Numbered
<1>2. DOMAIN e = D /\ e[n] = v /\ \A m \in D : m # n => e[m] = d[m]
  BY <1>1
<1>3. Numbered(e)
  <2>1. e \in [D -> S!Directories]
    BY <1>1
  <2> HIDE DEF e
  <2> QED BY <1>1, <1>2, <2>1 DEF Numbered
<1>4. /\ Row(d) \in Seq(S!Directories) /\ Len(Row(d)) = Cardinality(D) /\ Cardinality(D) \in Nat
      /\ \A m \in D : Rank(D, m) \in 1 .. Cardinality(D) /\ Row(d)[Rank(D, m)] = d[m]
  BY RowType
<1>5. /\ s \in Seq(S!Directories) /\ Len(s) = Cardinality(D) /\ s[Rank(D, n)] = v
      /\ \A i \in 1 .. Cardinality(D) : i # Rank(D, n) => s[i] = Row(d)[i]
  BY <1>4
<1>6. \A m \in D : m # n => Rank(D, m) # Rank(D, n)
  BY <1>1, RankUnique
<1> HIDE DEF e, s
<1>7. \A m \in D : s[Rank(D, m)] = e[m]
  BY <1>2, <1>4, <1>5, <1>6
<1>8. Row(e) = s
  BY <1>2, <1>3, <1>5, <1>7, RowUnique
<1> QED BY <1>8 DEF e, s

-----------------------------------------------------------------------------
(* The row of backups as Snapshots sees it, before and after a step.         *)

LEMMA InOrderAfter == InOrder' = Row(dirs')
BY DEF InOrder, Row, Rank, UpTo

LEMMA TypedIsNumbered == ASSUME Typed PROVE Numbered(dirs)
BY DEF Typed, Numbered

LEMMA NewestInRow ==
  ASSUME Typed, NEW n \in DOMAIN dirs, Newest(n)
  PROVE  /\ InOrder \in Seq(S!Directories) /\ InOrder # <<>>
         /\ Rank(DOMAIN dirs, n) = Len(InOrder) /\ S!Newest = dirs[n]
<1>1. /\ InOrder \in Seq(S!Directories) /\ Len(InOrder) = Cardinality(DOMAIN dirs)
      /\ Rank(DOMAIN dirs, n) \in 1 .. Cardinality(DOMAIN dirs)
      /\ InOrder[Rank(DOMAIN dirs, n)] = dirs[n]
  BY TypedIsNumbered, InOrderIsRow, RowType
<1>2. Rank(DOMAIN dirs, n) = Cardinality(DOMAIN dirs)
  BY Largest DEF Typed, Newest
<1>3. InOrder # <<>>
  BY <1>1
<1> QED BY <1>1, <1>2, <1>3 DEF S!Newest

LEMMA NoBackupInRow == ASSUME Typed, DOMAIN dirs = {} PROVE InOrder = <<>>
<1>1. InOrder \in Seq(S!Directories) /\ Len(InOrder) = Cardinality(DOMAIN dirs)
  BY TypedIsNumbered, InOrderIsRow, RowType
<1>2. Len(InOrder) = 0
  BY <1>1, FS_EmptySet
<1> QED BY <1>1, <1>2

-----------------------------------------------------------------------------
(* Each step of the script is a step of Snapshots, or none.                  *)

Seen == <<source, InOrder, max, others, edited>>

LEMMA DirsUnchanged == ASSUME UNCHANGED dirs PROVE UNCHANGED InOrder
BY InOrderIsRow, InOrderAfter

LEMMA InitIsSnapshots == ASSUME Init PROVE S!Init
<1>1. Typed
  BY BackupInit DEF BackupInv
<1>2. InOrder = <<>>
  BY <1>1, NoBackupInRow, EmptyDirectory DEF Init
<1> QED BY <1>1, <1>2 DEF Init, Typed, S!Init

LEMMA EditIsEdit == ASSUME BackupInv, Edit PROVE S!Edit
<1>1. BackupInv'
  BY EditStep
<1>2. UNCHANGED InOrder
  BY DirsUnchanged DEF Edit
<1> QED BY <1>1, <1>2 DEF BackupInv, Typed, Edit, S!Edit

LEMMA StartIsAsk == ASSUME Start PROVE S!Ask
BY DirsUnchanged DEF Start, S!Ask

LEMMA MakeDirectoryIsBegin == ASSUME BackupInv, MakeDirectory PROVE S!Begin
<1>1. /\ pc = "copy" /\ dirs' = With(dirs, last + 1, <<>>)
      /\ UNCHANGED <<source, others, max, edited>>
  BY DEF MakeDirectory
<1>2. Typed /\ Copying /\ last \in Nat \cup {-1} /\ DOMAIN dirs \subseteq Nat
  BY <1>1 DEF BackupInv, Typed
<1>3. \A m \in DOMAIN dirs : m < last + 1
  <2>1. CASE last < 0
    BY <1>2, <2>1, EmptyDirectory DEF Copying
  <2>2. CASE last >= 0
    BY <1>2, <2>2 DEF Copying, Newest
  <2> QED BY <1>2, <2>1, <2>2
<1>4. Numbered(dirs) /\ last + 1 \in Nat
  BY <1>2, TypedIsNumbered
<1>5. Row(dirs') = Append(Row(dirs), <<>>)
  BY <1>1, <1>3, <1>4, EmptyDirectory, RowAppend
<1>6. InOrder = <<>> \/ edited \/ S!Newest # source
  <2>1. CASE last < 0
    BY <1>2, <2>1, NoBackupInRow, EmptyDirectory DEF Copying
  <2>2. CASE last >= 0
    <3>1. last \in DOMAIN dirs /\ Newest(last) /\ (~edited => dirs[last] # source)
      BY <1>2, <2>2 DEF Copying, Newest
    <3>2. S!Newest = dirs[last]
      BY <1>2, <3>1, NewestInRow
    <3> QED BY <3>1, <3>2
  <2> QED BY <1>2, <2>1, <2>2
<1> QED BY <1>1, <1>5, <1>6, InOrderIsRow, InOrderAfter DEF S!Begin

LEMMA CopyFileIsFill == ASSUME BackupInv, CopyFile PROVE S!Fill
<1>1. PICK f \in left \cap DOMAIN source :
        /\ dirs' = [dirs EXCEPT ![last + 1] = With(@, f, source[f])]
        /\ left' = left \ {f}
  BY DEF CopyFile
<1>2. pc = "files" /\ UNCHANGED <<source, others, max, edited>>
  BY DEF CopyFile
<1>3. Typed /\ Filling /\ last + 1 \in DOMAIN dirs /\ Newest(last + 1)
  BY <1>2 DEF BackupInv, Filling, Newest
<1> DEFINE d == dirs[last + 1]
           e == With(d, f, source[f])
<1>4. e \in S!Directories
  <2>1. d \in S!Directories /\ source \in S!Directories
    BY <1>3 DEF Typed
  <2>2. source[f] \in Contents /\ f \in Files
    BY <2>1, DirectoryType
  <2> QED BY <2>1, <2>2, SetFile
<1>5. /\ InOrder # <<>> /\ Rank(DOMAIN dirs, last + 1) = Len(InOrder) /\ S!Newest = d
  BY <1>3, NewestInRow
<1>6. e = [g \in DOMAIN S!Newest \cup {f} |-> IF g = f THEN source[f] ELSE S!Newest[g]]
  BY <1>5 DEF With
<1>7. f \in DOMAIN source \ DOMAIN S!Newest
  BY <1>1, <1>3, <1>5 DEF Filling
<1>8. dirs' = [dirs EXCEPT ![last + 1] = e]
  BY <1>1
<1> HIDE DEF d, e
<1>9. Row(dirs') = [Row(dirs) EXCEPT ![Rank(DOMAIN dirs, last + 1)] = e]
  BY <1>3, <1>4, <1>8, TypedIsNumbered, RowExcept
<1>10. InOrder' = [InOrder EXCEPT ![Len(InOrder)] = e]
  BY <1>5, <1>9, InOrderIsRow, InOrderAfter
<1> QED BY <1>2, <1>5, <1>6, <1>7, <1>10 DEF S!Fill

LEMMA RemoveOldestIsExpire == ASSUME BackupInv, RemoveOldest PROVE S!Expire
<1>1. /\ pc = "remove" /\ remove > 0 /\ ids # {}
      /\ UNCHANGED <<source, others, max, edited>>
  BY DEF RemoveOldest
<1>2. Typed /\ Removing /\ Numbered(dirs)
  BY <1>1, TypedIsNumbered DEF BackupInv
<1>3. First \in DOMAIN dirs /\ \A m \in DOMAIN dirs : First <= m
  BY <1>1, <1>2, OldestIsNotNewest
<1>4. Len(InOrder) + others > max
  <2>1. Len(InOrder) = Cardinality(DOMAIN dirs) /\ Cardinality(DOMAIN dirs) \in Nat
    BY <1>2, InOrderIsRow, RowType
  <2>2. others \in Nat /\ max \in Nat
    BY <1>2, LimitsAssumption DEF Typed
  <2> QED BY <1>1, <1>2, <2>1, <2>2 DEF Removing, Excess
<1>5. /\ Head(InOrder) = dirs[First]
      /\ Row(Restrict(dirs, DOMAIN dirs \ {First})) = Tail(InOrder)
  BY <1>2, <1>3, InOrderIsRow, RowTail
<1>6. ASSUME NEW f \in DOMAIN dirs[First],
             dirs' = [dirs EXCEPT ![First] = Restrict(@, DOMAIN @ \ {f})]
      PROVE  S!Expire
  <2> DEFINE e == Restrict(dirs[First], DOMAIN dirs[First] \ {f})
  <2>1. e \in S!Directories
    BY <1>2, <1>3, DropFile DEF Typed
  <2>2. dirs' = [dirs EXCEPT ![First] = e]
    BY <1>6
  <2>3. Rank(DOMAIN dirs, First) = 1
    BY <1>2, <1>3, Smallest DEF Typed
  <2>4. InOrder[1] = dirs[First]
    BY <1>2, <1>3, <2>3, InOrderIsRow, RowType
  <2>5. e = Restrict(InOrder[1], DOMAIN InOrder[1] \ {f})
    BY <2>4
  <2> HIDE DEF e
  <2>6. Row(dirs') = [Row(dirs) EXCEPT ![Rank(DOMAIN dirs, First)] = e]
    BY <1>2, <1>3, <2>1, <2>2, RowExcept
  <2>7. InOrder' = [InOrder EXCEPT ![1] = e]
    BY <2>3, <2>6, InOrderIsRow, InOrderAfter
  <2>8. InOrder' = [InOrder EXCEPT ![1] = Restrict(@, DOMAIN @ \ {f})]
    BY <2>5, <2>7
  <2>9. f \in DOMAIN Head(InOrder)
    BY <1>5
  <2> QED BY <1>1, <1>4, <2>8, <2>9 DEF S!Expire, Restrict, S!Restrict
<1>7. ASSUME dirs[First] = <<>>, dirs' = Restrict(dirs, DOMAIN dirs \ {First})
      PROVE  S!Expire
  <2>1. InOrder' = Tail(InOrder)
    BY <1>5, <1>7, InOrderAfter
  <2> QED BY <1>1, <1>4, <1>5, <1>7, <2>1 DEF S!Expire
<1> QED BY <1>6, <1>7 DEF RemoveOldest

LEMMA OtherStepsUnseen ==
  ASSUME Diff \/ CopyFileFails \/ CopyFails \/ Created \/ Count \/ Removed \/ Killed
  PROVE  UNCHANGED Seen
<1>1. UNCHANGED <<source, dirs, max, others, edited>>
  BY DEF Diff, CopyFileFails, CopyFails, Created, Count, Removed, Killed
<1> QED BY <1>1, DirsUnchanged DEF Seen

(* Over all scripts, with the killed and the failed ones, the numbered       *)
(* directories are the row of copies that the README promises.               *)
THEOREM BackupIsSnapshots == Spec => ImplementsSnapshots
<1>1. Init => S!Init
  BY InitIsSnapshots
<1>2. BackupInv /\ [Next]_vars => [S!Next]_Seen
  <2> SUFFICES ASSUME BackupInv, [Next]_vars PROVE [S!Next]_Seen
    OBVIOUS
  <2>1. CASE UNCHANGED vars
    <3>1. UNCHANGED <<source, dirs, max, others, edited>>
      BY <2>1 DEF vars
    <3> QED BY <3>1, DirsUnchanged DEF Seen
  <2>2. CASE Edit
    BY <2>2, EditIsEdit DEF S!Next
  <2>3. CASE Start
    BY <2>3, StartIsAsk DEF S!Next
  <2>4. CASE MakeDirectory
    BY <2>4, MakeDirectoryIsBegin DEF S!Next
  <2>5. CASE CopyFile
    BY <2>5, CopyFileIsFill DEF S!Next
  <2>6. CASE RemoveOldest
    BY <2>6, RemoveOldestIsExpire DEF S!Next
  <2>7. CASE Diff \/ CopyFileFails \/ CopyFails \/ Created \/ Count \/ Removed \/ Killed
    BY <2>7, OtherStepsUnseen
  <2> QED BY <2>1, <2>2, <2>3, <2>4, <2>5, <2>6, <2>7 DEF Next
<1> QED BY <1>1, <1>2, BackupInvariant, PTL DEF Spec, ImplementsSnapshots, S!Spec, Seen
=============================================================================
