--------------------------- MODULE MyMallocProofs ---------------------------
(***************************************************************************)
(* The heap of MyMalloc stays in order for every arena size, number of     *)
(* lists, set of requests and behaviour of sbrk, as long as no growth has  *)
(* kept an allocated left neighbour.                                       *)
(***************************************************************************)
EXTENDS MyMalloc, TLAPS, WellFoundedInduction, FiniteSetTheorems

Typed(m) == DOMAIN m \subseteq Nat /\ \A a \in DOMAIN m : m[a] \in TagType

\* A heap in order: the headers in B tile it and no two of them overlap.
Heap(m, B, end) == /\ Typed(m)
                   /\ B \subseteq Nat
                   /\ end \in Nat
                   /\ Tiled(m, B)
                   /\ Apart(m, B, end)

-----------------------------------------------------------------------------
(* Operations on the boundary tags.                                        *)

\* What the typing of a heap says of one of its headers.
LEMMA HeaderType ==
    ASSUME NEW m, NEW B, NEW end, Heap(m, B, end), NEW b \in B
    PROVE  /\ b \in Nat /\ b \in DOMAIN m /\ m[b] \in TagType
           /\ m[b].size \in Nat /\ m[b].left \in Nat /\ m[b].state \in States
           /\ m[b].size >= HEADER
BY DEF Heap, Typed, Tiled, TagType, HEADER, MIN_BLOCK, MIN_DATA

\* A heap is in order by the sizes of its headers and by which are fenceposts.
LEMMA SameSizes ==
    ASSUME NEW m, NEW B, NEW end, Heap(m, B, end), NEW n, Typed(n),
           \A b \in B : /\ b \in DOMAIN n
                        /\ n[b].size = m[b].size /\ n[b].left = m[b].left
                        /\ IsFence(n, b) <=> IsFence(m, b)
    PROVE  Heap(n, B, end)
<1>1. \A b \in B : /\ RightHeader(n, b) = RightHeader(m, b)
                   /\ LeftHeader(n, b) = LeftHeader(m, b)
                   /\ IsLeftFence(n, b) <=> IsLeftFence(m, b)
  BY DEF IsLeftFence, RightHeader, LeftHeader
<1>2. Tiled(n, B)
  <2>1. \A b \in B : IsFence(n, b) => n[b].size = HEADER
    BY DEF Heap, Tiled
  <2>2. ASSUME NEW b \in B, ~IsFence(n, b)
        PROVE  /\ n[b].size >= MIN_BLOCK
               /\ RightHeader(n, b) \in B
               /\ n[RightHeader(n, b)].left = n[b].size
    BY <1>1, <2>2, ZenonT(60) DEF Heap, Tiled
  <2>3. ASSUME NEW b \in B, ~IsLeftFence(n, b)
        PROVE  LeftHeader(n, b) \in B /\ n[LeftHeader(n, b)].size = n[b].left
    BY <1>1, <2>3 DEF Heap, Tiled
  <2> QED  BY <2>1, <2>2, <2>3 DEF Tiled
<1>3. Apart(n, B, end)
  BY DEF Heap, Apart
<1> QED  BY <1>2, <1>3 DEF Heap

\* Overwriting the inside of a block touches no header of the heap.
LEMMA ClobberHeap ==
    ASSUME NEW m, NEW B, NEW end, Heap(m, B, end),
           NEW lo \in B, NEW hi \in Nat, hi <= lo + m[lo].size
    PROVE  /\ Heap(Clobber(m, lo, hi), B, end)
           /\ B \subseteq DOMAIN Clobber(m, lo, hi)
           /\ DOMAIN Clobber(m, lo, hi) \subseteq DOMAIN m
           /\ \A a \in DOMAIN Clobber(m, lo, hi) : Clobber(m, lo, hi)[a] = m[a]
<1> DEFINE n == Clobber(m, lo, hi)
<1>1. /\ DOMAIN n = {x \in DOMAIN m : x <= lo \/ x >= hi}
      /\ \A a \in DOMAIN n : n[a] = m[a]
  BY DEF Clobber
<1> HIDE DEF n
<1>2. \A b \in B : b \in DOMAIN n
  <2> TAKE b \in B
  <2>1. b \in Nat /\ lo \in Nat /\ m[lo].size \in Nat /\ b \in DOMAIN m
    BY HeaderType
  <2>2. lo < b => lo + m[lo].size <= b
    BY DEF Heap, Apart
  <2>3. b <= lo \/ b >= hi
    BY <2>1, <2>2
  <2> QED  BY <1>1, <2>1, <2>3
<1>3. Typed(n)
  BY <1>1 DEF Heap, Typed
<1>4. \A b \in B : /\ b \in DOMAIN n
                   /\ n[b].size = m[b].size /\ n[b].left = m[b].left
                   /\ IsFence(n, b) <=> IsFence(m, b)
  BY <1>1, <1>2 DEF IsFence
<1>5. Heap(n, B, end)
  BY <1>3, <1>4, SameSizes
<1> QED  BY <1>1, <1>2, <1>5 DEF n

\* Changing the state of a block that stays a block.
LEMMA SetStateHeap ==
    ASSUME NEW m, NEW B, NEW end, Heap(m, B, end),
           NEW h \in B, ~IsFence(m, h), NEW s \in {"UNALLOCATED", "ALLOCATED"}
    PROVE  /\ Heap(SetState(m, h, s), B, end)
           /\ DOMAIN SetState(m, h, s) = DOMAIN m
           /\ \A a \in DOMAIN m : SetState(m, h, s)[a] =
                 Tag(m[a].size, IF a = h THEN s ELSE m[a].state, m[a].left)
<1> DEFINE n == SetState(m, h, s)
<1>1. /\ DOMAIN n = DOMAIN m
      /\ \A a \in DOMAIN m : n[a] = Tag(m[a].size, IF a = h THEN s ELSE m[a].state, m[a].left)
  BY DEF SetState, Tag, Heap, Typed, TagType, Tiled
<1> HIDE DEF n
<1>2. Typed(n)
  BY <1>1 DEF Heap, Typed, TagType, Tag, States
<1>3. \A b \in B : /\ b \in DOMAIN n
                   /\ n[b].size = m[b].size /\ n[b].left = m[b].left
                   /\ IsFence(n, b) <=> IsFence(m, b)
  BY <1>1 DEF Heap, Tiled, Tag, IsFence
<1>4. Heap(n, B, end)
  BY <1>2, <1>3, SameSizes
<1> QED  BY <1>1, <1>4 DEF n

\* Joining a block with the block on its right.
LEMMA AbsorbHeap ==
    ASSUME NEW m, NEW B, NEW end, Heap(m, B, end),
           NEW b \in B, NEW c \in B, c = RightHeader(m, b),
           ~IsFence(m, b), ~IsFence(m, c)
    PROVE  LET n == Absorb(m, b, c)
               size == m[b].size + m[c].size
           IN /\ Heap(n, B \ {c}, end)
              /\ DOMAIN n = DOMAIN m
              /\ \A a \in DOMAIN m : n[a].state = m[a].state
              /\ n[b].size = size
              /\ b + size = RightHeader(m, c)
              /\ \A a \in DOMAIN m \ {b} : n[a].size = m[a].size
              /\ \A a \in DOMAIN m \ {b + size} : n[a].left = m[a].left
<1> DEFINE n == Absorb(m, b, c)
           size == m[b].size + m[c].size
           r == b + size
<1>1. /\ b \in Nat /\ c \in Nat /\ m[b].size \in Nat /\ m[c].size \in Nat
      /\ m[b].size >= MIN_BLOCK /\ m[c].size >= MIN_BLOCK
      /\ c = b + m[b].size
      /\ b \in DOMAIN m
  BY HeaderType DEF Heap, Tiled, RightHeader
<1>2. size \in Nat /\ r \in Nat /\ r # b /\ r # c /\ b # c /\ r = RightHeader(m, c)
  BY <1>1 DEF RightHeader, MIN_BLOCK, HEADER, MIN_DATA
<1>3. /\ DOMAIN n = DOMAIN m
      /\ \A a \in DOMAIN m : n[a] = Tag(IF a = b THEN size ELSE m[a].size, m[a].state,
                                        IF a = r THEN size ELSE m[a].left)
  <2>1. \A a \in DOMAIN m : m[a] = Tag(m[a].size, m[a].state, m[a].left)
    BY DEF Heap, Typed, TagType, Tag
  <2> QED  BY <1>1, <2>1 DEF Absorb, SetLeft, SetSize, Tag
<1> HIDE DEF n, size, r
<1>4. Typed(n)
  BY <1>2, <1>3 DEF Heap, Typed, TagType, Tag
<1>5. r \in B
  BY <1>2 DEF Heap, Tiled
<1>6. \A a \in B : /\ a \in DOMAIN n
                   /\ n[a].size = (IF a = b THEN size ELSE m[a].size)
                   /\ n[a].left = (IF a = r THEN size ELSE m[a].left)
                   /\ n[a].state = m[a].state
  BY <1>3, HeaderType DEF Tag
<1>7. Apart(n, B \ {c}, end)
  <2> SUFFICES ASSUME NEW a \in B \ {c}
               PROVE  /\ a + n[a].size <= end
                      /\ \A d \in B \ {c} : a < d => a + n[a].size <= d
    BY DEF Apart
  <2>1. CASE a # b
    BY <2>1, <1>6 DEF Heap, Apart
  <2>2. CASE a = b
    <3>1. n[a].size = size /\ a + n[a].size = c + m[c].size
      BY <1>1, <1>6, <2>2 DEF size
    <3>2. ASSUME NEW d \in B \ {c}, a < d PROVE a + n[a].size <= d
      <4>1. d \in Nat /\ b + m[b].size <= d
        BY <3>2, <2>2, HeaderType DEF Heap, Apart
      <4>2. c < d
        BY <4>1, <1>1
      <4> QED  BY <4>2, <3>1 DEF Heap, Apart
    <3> QED  BY <3>1, <3>2 DEF Heap, Apart
  <2> QED  BY <2>1, <2>2
<1>8. Tiled(n, B \ {c})
  <2>1. ASSUME NEW a \in B \ {c} PROVE IsFence(n, a) => n[a].size = HEADER
    BY <1>6 DEF Heap, Tiled, IsFence
  <2>2. ASSUME NEW a \in B \ {c}, ~IsFence(n, a)
        PROVE  /\ n[a].size >= MIN_BLOCK
               /\ RightHeader(n, a) \in B \ {c}
               /\ n[RightHeader(n, a)].left = n[a].size
    <3>1. CASE a = b
      BY <3>1, <1>1, <1>2, <1>5, <1>6 DEF RightHeader, size, r, MIN_BLOCK, HEADER, MIN_DATA
    <3>2. CASE a # b
      <4>1. /\ m[a].size >= MIN_BLOCK /\ RightHeader(m, a) \in B
            /\ m[RightHeader(m, a)].left = m[a].size
            /\ RightHeader(n, a) = RightHeader(m, a)
            /\ n[a].size = m[a].size
        BY <2>2, <3>2, <1>6 DEF Heap, Tiled, IsFence, RightHeader
      <4>2. \A d \in B : m[d].size >= HEADER /\ m[d].size \in Nat /\ d \in Nat
        BY HeaderType
      <4>3. RightHeader(m, a) # c /\ RightHeader(m, a) # r
        <5>1. a < b => a + m[a].size <= b
          BY DEF Heap, Apart
        <5>2. b < a => c < a
          <6>1. b < a => b + m[b].size <= a
            BY DEF Heap, Apart
          <6> QED  BY <6>1, <1>1, <4>2
        <5>3. c < a => c + m[c].size <= a
          BY DEF Heap, Apart
        <5>4. r = c + m[c].size
          BY <1>2 DEF RightHeader
        <5> QED  BY <5>1, <5>2, <5>3, <5>4, <4>2, <1>1, <3>2 DEF RightHeader, HEADER, MIN_BLOCK, MIN_DATA
      <4> QED  BY <4>1, <4>3, <1>6
    <3> QED  BY <3>1, <3>2
  <2>3. ASSUME NEW a \in B \ {c}, ~IsLeftFence(n, a)
        PROVE  /\ LeftHeader(n, a) \in B \ {c}
               /\ n[LeftHeader(n, a)].size = n[a].left
    <3>1. CASE a = r
      BY <3>1, <1>1, <1>2, <1>6 DEF LeftHeader, r
    <3>2. CASE a # r
      <4>1. /\ LeftHeader(m, a) \in B /\ m[LeftHeader(m, a)].size = m[a].left
            /\ LeftHeader(n, a) = LeftHeader(m, a)
            /\ n[a].left = m[a].left
        BY <2>3, <3>2, <1>6 DEF Heap, Tiled, IsLeftFence, IsFence, LeftHeader
      <4>2. a \in Nat /\ m[a].left \in Nat
        BY HeaderType
      <4>3. LeftHeader(m, a) # c /\ LeftHeader(m, a) # b
        BY <4>1, <4>2, <3>2, <1>1, <1>2 DEF LeftHeader, RightHeader
      <4> QED  BY <4>1, <4>3, <1>6
    <3> QED  BY <3>1, <3>2
  <2> QED  BY <2>1, <2>2, <2>3, <1>6 DEF Tiled
<1>9. Heap(n, B \ {c}, end)
  BY <1>4, <1>7, <1>8 DEF Heap
<1>10. b \in DOMAIN m
  BY <1>1
<1> QED  BY <1>2, <1>3, <1>9, <1>10 DEF n, size, r, Tag

\* Cutting a block in two.
LEMMA SplitHeap ==
    ASSUME NEW m, NEW B, NEW end, Heap(m, B, end),
           NEW b \in B, ~IsFence(m, b),
           NEW k \in Nat, k >= MIN_BLOCK, k + MIN_BLOCK <= m[b].size,
           NEW s, s = b + k, NEW r, r = RightHeader(m, b),
           NEW n, Typed(n), B \cup {s} \subseteq DOMAIN n,
           n[s].size = m[b].size - k, n[s].left = k, ~IsFence(n, s),
           \A a \in B : /\ n[a].size = (IF a = b THEN k ELSE m[a].size)
                        /\ n[a].left = (IF a = r THEN m[b].size - k ELSE m[a].left)
                        /\ IsFence(n, a) <=> IsFence(m, a)
    PROVE  Heap(n, B \cup {s}, end) /\ s \notin B
<1>1. /\ b \in Nat /\ m[b].size \in Nat /\ r \in B /\ r \in Nat /\ s \in Nat
      /\ r = b + m[b].size /\ m[r].left = m[b].size
      /\ \A a \in B : m[a].size \in Nat /\ a \in Nat /\ m[a].left \in Nat /\ m[a].size >= HEADER
  <2>1. \A a \in B : m[a].size \in Nat /\ a \in Nat /\ m[a].left \in Nat /\ m[a].size >= HEADER
    BY HeaderType
  <2>2. r \in B /\ m[r].left = m[b].size
    BY DEF Heap, Tiled
  <2> QED  BY <2>1, <2>2 DEF RightHeader
<1>2. \A a \in B : a + m[a].size <= end /\ \A c \in B : a < c => a + m[a].size <= c
  BY DEF Heap, Apart
<1>3. s \notin B /\ b # s /\ r # s /\ r # b /\ b < s /\ s < r
  BY <1>1, <1>2 DEF MIN_BLOCK, HEADER, MIN_DATA
<1>4. Apart(n, B \cup {s}, end)
  <2>1. ASSUME NEW a \in B \cup {s} PROVE a + n[a].size <= end
    <3>1. CASE a = s
      <4>1. a + n[a].size = b + m[b].size
        BY <3>1, <1>1
      <4> QED  BY <4>1, <1>2
    <3>2. CASE a = b
      <4>1. a + n[a].size <= b + m[b].size
        BY <3>2, <1>1, <1>3 DEF MIN_BLOCK, HEADER, MIN_DATA
      <4>2. end \in Nat /\ b + m[b].size <= end
        BY <1>2 DEF Heap
      <4> QED  BY <4>1, <4>2, <3>2, <1>1
    <3>3. CASE a # s /\ a # b
      BY <3>3, <1>2
    <3> QED  BY <3>1, <3>2, <3>3
  <2>2. ASSUME NEW a \in B \cup {s}, NEW c \in B \cup {s}, a < c
        PROVE  a + n[a].size <= c
    <3>1. CASE a # s /\ c # s
      BY <3>1, <2>2, <1>1, <1>2 DEF MIN_BLOCK, HEADER, MIN_DATA
    <3>2. CASE a = s
      <4>1. c \in B /\ b < c
        BY <3>2, <2>2, <1>1, <1>3
      <4> QED  BY <4>1, <3>2, <1>1, <1>2
    <3>3. CASE a # s /\ c = s
      <4>1. a = b \/ a < b
        BY <3>3, <2>2, <1>1, <1>2, <1>3 DEF HEADER
      <4> QED  BY <4>1, <3>3, <1>1, <1>2
    <3> QED  BY <3>1, <3>2, <3>3
  <2> QED  BY <2>1, <2>2 DEF Apart
<1>5. Tiled(n, B \cup {s})
  <2>1. ASSUME NEW a \in B \cup {s}, IsFence(n, a) PROVE n[a].size = HEADER
    BY <2>1 DEF Heap, Tiled, IsFence
  <2>2. ASSUME NEW a \in B \cup {s}, ~IsFence(n, a)
        PROVE  /\ n[a].size >= MIN_BLOCK
               /\ RightHeader(n, a) \in B \cup {s}
               /\ n[RightHeader(n, a)].left = n[a].size
    <3>1. CASE a = s
      <4>1. RightHeader(n, a) = r
        BY <3>1, <1>1 DEF RightHeader
      <4> QED  BY <4>1, <3>1, <1>1 DEF MIN_BLOCK, HEADER, MIN_DATA
    <3>2. CASE a = b
      <4>1. RightHeader(n, a) = s
        BY <3>2, <1>1, <1>3 DEF RightHeader
      <4> QED  BY <4>1, <3>2, <1>1, <1>3
    <3>3. CASE a # s /\ a # b
      <4>1. /\ m[a].size >= MIN_BLOCK /\ RightHeader(m, a) \in B
            /\ m[RightHeader(m, a)].left = m[a].size
            /\ n[a].size = m[a].size
            /\ RightHeader(n, a) = RightHeader(m, a)
            /\ RightHeader(m, a) = a + m[a].size
        BY <2>2, <3>3 DEF Heap, Tiled, RightHeader
      <4>2. RightHeader(m, a) # r
        <5>1. a \in B /\ (a < b => a + m[a].size <= b) /\ (b < a => r <= a)
          BY <3>3, <1>1, <1>2
        <5>2. a \in Nat /\ m[a].size \in Nat /\ m[a].size >= 2 /\ m[b].size >= 4
          <6>1. a \in Nat /\ m[a].size \in Nat /\ m[a].size >= 2
            BY <5>1, <1>1 DEF HEADER
          <6>2. m[b].size >= 4
            BY <1>1 DEF HEADER, MIN_BLOCK, MIN_DATA
          <6> QED  BY <6>1, <6>2
        <5> QED  BY <5>1, <5>2, <4>1, <3>3, <1>1
      <4> QED  BY <4>1, <4>2, <1>3
    <3> QED  BY <3>1, <3>2, <3>3
  <2>3. ASSUME NEW a \in B \cup {s}, ~IsLeftFence(n, a)
        PROVE  LeftHeader(n, a) \in B \cup {s} /\ n[LeftHeader(n, a)].size = n[a].left
    <3>1. CASE a = s
      <4>1. LeftHeader(n, a) = b
        BY <3>1, <1>1 DEF LeftHeader
      <4> QED  BY <4>1, <3>1
    <3>2. CASE a = r
      <4>1. LeftHeader(n, a) = s
        BY <3>2, <1>1 DEF LeftHeader
      <4> QED  BY <4>1, <3>2, <1>1
    <3>3. CASE a # s /\ a # r
      <4>1. /\ LeftHeader(m, a) \in B /\ m[LeftHeader(m, a)].size = m[a].left
            /\ LeftHeader(n, a) = LeftHeader(m, a)
            /\ n[a].left = m[a].left
        BY <2>3, <3>3 DEF Heap, Tiled, IsLeftFence, LeftHeader
      <4>2. LeftHeader(m, a) # b
        <5>1. a \in B
          BY <3>3
        <5> QED  BY <5>1, <4>1, <3>3, <1>1 DEF LeftHeader
      <4> QED  BY <4>1, <4>2, <1>3
    <3> QED  BY <3>1, <3>2, <3>3
  <2> QED  BY <2>1, <2>2, <2>3 DEF Tiled
<1> QED  BY <1>1, <1>3, <1>4, <1>5 DEF Heap

-----------------------------------------------------------------------------
(* Operations on the free lists.                                           *)

\* Taking a block off its list.
LEMMA UnlinkLinked ==
    ASSUME NEW L, NEW F, Linked(L, F), NEW b \in F, b \notin Sentinels
    PROVE  Linked(Unlink(L, b), F \ {b})
<1> DEFINE p == L[b].prev
           n == L[b].next
           U == Unlink(L, b)
<1>1. /\ b \in DOMAIN L /\ p \in DOMAIN L /\ n \in DOMAIN L
      /\ L[p].next = b /\ L[n].prev = b
  BY DEF Linked
<1>2. /\ DOMAIN U = DOMAIN L \ {b}
      /\ \A x \in DOMAIN U : /\ U[x].next = (IF x = p THEN n ELSE L[x].next)
                             /\ U[x].prev = (IF x = n THEN p ELSE L[x].prev)
  BY DEF Unlink
<1>3. DOMAIN U = Sentinels \cup (F \ {b})
  BY <1>2 DEF Linked
<1>4. n = b <=> p = b
  BY <1>1
<1>5. Sentinels # {}
  BY ListsAssumption DEF Sentinels
<1> HIDE DEF U, p, n
<1>6. ASSUME NEW x \in DOMAIN U
      PROVE  /\ U[x].next \in DOMAIN U /\ U[U[x].next].prev = x
             /\ U[x].prev \in DOMAIN U /\ U[U[x].prev].next = x
  <2>1. /\ x \in DOMAIN L /\ x # b
        /\ L[x].next \in DOMAIN L /\ L[L[x].next].prev = x
        /\ L[x].prev \in DOMAIN L /\ L[L[x].prev].next = x
    BY <1>2 DEF Linked
  <2>2. U[x].next \in DOMAIN U /\ U[U[x].next].prev = x
    <3>1. CASE x = p
      BY <3>1, <2>1, <1>1, <1>2, <1>4
    <3>2. CASE x # p
      <4>1. L[x].next # b
        BY <3>2, <2>1, <1>1 DEF p
      <4>2. L[x].next # n
        BY <4>1, <2>1, <1>1
      <4> QED  BY <3>2, <4>1, <4>2, <2>1, <1>2
    <3> QED  BY <3>1, <3>2
  <2>3. U[x].prev \in DOMAIN U /\ U[U[x].prev].next = x
    <3>1. CASE x = n
      BY <3>1, <2>1, <1>1, <1>2, <1>4
    <3>2. CASE x # n
      <4>1. L[x].prev # b
        BY <3>2, <2>1, <1>1 DEF n
      <4>2. L[x].prev # p
        BY <4>1, <2>1, <1>1
      <4> QED  BY <3>2, <4>1, <4>2, <2>1, <1>2
    <3> QED  BY <3>1, <3>2
  <2> QED  BY <2>2, <2>3
<1> QED  BY <1>3, <1>6 DEF Linked, U

\* Putting a block at the tail of a list.
LEMMA LinkTailLinked ==
    ASSUME NEW L, NEW F, Linked(L, F), NEW b, b \notin DOMAIN L,
           NEW i \in 0..(N_LISTS - 1)
    PROVE  Linked(LinkTail(L, b, i), F \cup {b})
<1> DEFINE s == Sentinel(i)
           p == L[s].prev
           T == LinkTail(L, b, i)
<1>1. s \in DOMAIN L /\ p \in DOMAIN L /\ L[p].next = s /\ s # b /\ p # b
  BY DEF Linked, Sentinels
<1>2. /\ DOMAIN T = DOMAIN L \cup {b}
      /\ T[b].next = s /\ T[b].prev = p
      /\ \A x \in DOMAIN L : /\ T[x].next = (IF x = p THEN b ELSE L[x].next)
                             /\ T[x].prev = (IF x = s THEN b ELSE L[x].prev)
  BY DEF LinkTail
<1>3. DOMAIN T = Sentinels \cup (F \cup {b})
  BY <1>2 DEF Linked
<1> HIDE DEF T, s, p
<1>4. ASSUME NEW x \in DOMAIN T
      PROVE  /\ T[x].next \in DOMAIN T /\ T[T[x].next].prev = x
             /\ T[x].prev \in DOMAIN T /\ T[T[x].prev].next = x
  <2>1. CASE x = b
    BY <2>1, <1>1, <1>2
  <2>2. CASE x # b
    <3>1. /\ x \in DOMAIN L
          /\ L[x].next \in DOMAIN L /\ L[L[x].next].prev = x
          /\ L[x].prev \in DOMAIN L /\ L[L[x].prev].next = x
      BY <2>2, <1>2 DEF Linked
    <3>2. T[x].next \in DOMAIN T /\ T[T[x].next].prev = x
      <4>1. x # p => L[x].next # s
        BY <3>1 DEF p
      <4> QED  BY <4>1, <3>1, <1>1, <1>2
    <3>3. T[x].prev \in DOMAIN T /\ T[T[x].prev].next = x
      <4>1. x # s => L[x].prev # p
        BY <3>1, <1>1
      <4> QED  BY <4>1, <3>1, <1>1, <1>2
    <3> QED  BY <3>2, <3>3
  <2> QED  BY <2>1, <2>2
<1> QED  BY <1>3, <1>4 DEF Linked, T

\* Every entry of the lists is a pair of addresses.
LinksTyped(L) == /\ DOMAIN L \subseteq Int
                 /\ \A x \in DOMAIN L : L[x] \in [next : Int, prev : Int]

\* Linking and unlinking keep the shape of the list entries.
LEMMA ListsTyped ==
    ASSUME NEW L, LinksTyped(L), Sentinels \subseteq DOMAIN L, NEW b \in Int
    PROVE  /\ b \in DOMAIN L => LinksTyped(Unlink(L, b))
           /\ \A i \in 0..(N_LISTS - 1) : LinksTyped(LinkTail(L, b, i))
<1>1. ASSUME b \in DOMAIN L PROVE LinksTyped(Unlink(L, b))
  BY <1>1 DEF LinksTyped, Unlink
<1>2. ASSUME NEW i \in 0..(N_LISTS - 1) PROVE LinksTyped(LinkTail(L, b, i))
  <2>1. Sentinel(i) \in DOMAIN L /\ Sentinel(i) \in Int
    BY ListsAssumption DEF Sentinels, Sentinel
  <2> QED  BY <2>1 DEF LinksTyped, LinkTail
<1> QED  BY <1>1, <1>2

\* size_to_list_index names one of the lists.
LEMMA ListIndexRange ==
    ASSUME NEW size \in Nat PROVE ListIndex(size) \in 0..(N_LISTS - 1)
BY ListsAssumption DEF ListIndex, MIN_BLOCK, HEADER, MIN_DATA

\* No block is a sentinel.
LEMMA SentinelsNegative == \A x \in Sentinels : x \in Int /\ x < 0
BY ListsAssumption DEF Sentinels, Sentinel

-----------------------------------------------------------------------------
(* The heap and its lists together.                                        *)

FreeIn(m, B)  == {b \in B : IsFree(m, b)}
AllocIn(m, B) == {b \in B : m[b].state = "ALLOCATED"}

\* What holds between operations: blocks, lists and clients agree.
InOrder(m, L, B, H, end) ==
    /\ Heap(m, B, end)
    /\ LinksTyped(L)
    /\ Linked(L, FreeIn(m, B))
    /\ \A b \in FreeIn(m, B) : ~IsFree(m, RightHeader(m, b))
    /\ H = AllocIn(m, B)
    /\ \A a \in DOMAIN m \ B : m[a].state # "ALLOCATED"

\* What holds while block h is being freed: h is free and on no list, and
\* only h may have free neighbours.
Freeing(m, L, B, H, end, h) ==
    /\ Heap(m, B, end)
    /\ LinksTyped(L)
    /\ h \in B /\ IsFree(m, h)
    /\ Linked(L, FreeIn(m, B) \ {h})
    /\ \A b \in FreeIn(m, B) : IsFree(m, RightHeader(m, b)) => h \in {b, RightHeader(m, b)}
    /\ H = AllocIn(m, B)
    /\ \A a \in DOMAIN m \ B : m[a].state # "ALLOCATED"

\* my_free marks the block: it is free, on no list, between its neighbours.
LEMMA StartFreeing ==
    ASSUME NEW m, NEW L, NEW B, NEW H, NEW end, InOrder(m, L, B, H, end),
           NEW h \in H
    PROVE  Freeing(SetState(m, h, "UNALLOCATED"), L, B, H \ {h}, end, h)
<1> DEFINE n == SetState(m, h, "UNALLOCATED")
<1>1. h \in B /\ ~IsFence(m, h) /\ m[h].state = "ALLOCATED"
  BY DEF InOrder, AllocIn, IsFence
<1>2. /\ Heap(n, B, end)
      /\ DOMAIN n = DOMAIN m
      /\ \A a \in DOMAIN m : n[a] = Tag(m[a].size, IF a = h THEN "UNALLOCATED" ELSE m[a].state, m[a].left)
  BY <1>1, SetStateHeap DEF InOrder
<1> HIDE DEF n
<1>3. \A a \in DOMAIN m : /\ n[a].state = (IF a = h THEN "UNALLOCATED" ELSE m[a].state)
                          /\ n[a].size = m[a].size
  BY <1>2 DEF Tag
<1>4. B \subseteq DOMAIN m
  BY DEF InOrder, Heap, Tiled
<1>5. FreeIn(n, B) = FreeIn(m, B) \cup {h} /\ h \notin FreeIn(m, B)
  BY <1>1, <1>3, <1>4 DEF FreeIn, IsFree
<1>6. AllocIn(n, B) = AllocIn(m, B) \ {h}
  BY <1>1, <1>3, <1>4 DEF AllocIn
<1>7. ASSUME NEW b \in FreeIn(n, B), IsFree(n, RightHeader(n, b))
      PROVE  h \in {b, RightHeader(n, b)}
  <2>1. CASE b # h
    <3>1. b \in FreeIn(m, B) /\ RightHeader(n, b) = RightHeader(m, b)
      BY <2>1, <1>3, <1>4, <1>5 DEF FreeIn, RightHeader
    <3>2. RightHeader(m, b) \in B /\ ~IsFree(m, RightHeader(m, b))
      BY <3>1 DEF InOrder, Heap, Tiled, FreeIn, IsFree, IsFence
    <3> QED  BY <3>1, <3>2, <1>3, <1>4, <1>7 DEF IsFree
  <2> QED  BY <2>1
<1>8. \A a \in DOMAIN n \ B : n[a].state # "ALLOCATED"
  BY <1>2, <1>3, <1>1 DEF InOrder
<1>9. Linked(L, FreeIn(n, B) \ {h})
  <2>1. FreeIn(n, B) \ {h} = FreeIn(m, B)
    BY <1>5
  <2> QED  BY <2>1 DEF InOrder
<1>10. IsFree(n, h)
  BY <1>1, <1>3, <1>4 DEF IsFree
<1> QED
  BY <1>1, <1>2, <1>6, <1>7, <1>8, <1>9, <1>10 DEF Freeing, InOrder, n

\* Joining the right neighbour, when it is free.
LEMMA JoinRight ==
    ASSUME NEW m, NEW L, NEW B, NEW H, NEW end, NEW h, Freeing(m, L, B, H, end, h),
           NEW c, c = RightHeader(m, h), IsFree(m, c)
    PROVE  /\ Freeing(Absorb(m, h, c), Unlink(L, c), B \ {c}, H, end, h)
           /\ RightHeader(Absorb(m, h, c), h) = RightHeader(m, c)
           /\ RightHeader(m, c) \in B \ {c}
           /\ ~IsFree(Absorb(m, h, c), RightHeader(m, c))
           /\ LeftHeader(Absorb(m, h, c), h) = LeftHeader(m, h)
           /\ LeftHeader(m, h) # c
           /\ \A a \in DOMAIN m : Absorb(m, h, c)[a].state = m[a].state
           /\ DOMAIN Absorb(m, h, c) = DOMAIN m
<1> DEFINE n == Absorb(m, h, c)
           r == RightHeader(m, c)
<1>1. h \in B /\ c \in B /\ ~IsFence(m, h) /\ ~IsFence(m, c) /\ c \in FreeIn(m, B)
  BY DEF Freeing, Heap, Tiled, IsFree, IsFence, FreeIn
<1>2. /\ Heap(n, B \ {c}, end)
      /\ DOMAIN n = DOMAIN m
      /\ \A a \in DOMAIN m : n[a].state = m[a].state
      /\ n[h].size = m[h].size + m[c].size
      /\ h + (m[h].size + m[c].size) = RightHeader(m, c)
      /\ \A a \in DOMAIN m \ {h} : n[a].size = m[a].size
      /\ \A a \in DOMAIN m \ {h + (m[h].size + m[c].size)} : n[a].left = m[a].left
  BY <1>1, AbsorbHeap DEF Freeing
<1>3. /\ h \in Nat /\ c \in Nat /\ h \in DOMAIN m /\ c \in DOMAIN m /\ r \in B
      /\ m[h].size \in Nat /\ m[h].size >= HEADER /\ m[h].left \in Nat
      /\ m[c].size \in Nat /\ m[c].size >= HEADER /\ B \subseteq DOMAIN m
      /\ c = h + m[h].size /\ r = c + m[c].size
  BY <1>1, HeaderType DEF Freeing, Heap, Tiled, RightHeader
<1>4. h # c /\ r # h /\ r # c
  BY <1>3 DEF HEADER
<1>5. RightHeader(n, h) = r /\ LeftHeader(n, h) = LeftHeader(m, h) /\ LeftHeader(m, h) # c
  BY <1>2, <1>3, <1>4 DEF RightHeader, LeftHeader, HEADER
<1> HIDE DEF n, r
<1>6. ~IsFree(m, r)
  BY <1>1, <1>4 DEF Freeing, r
<1>7. \A a \in DOMAIN m : IsFree(n, a) <=> IsFree(m, a)
  BY <1>2 DEF IsFree
<1>8. /\ FreeIn(n, B \ {c}) = FreeIn(m, B) \ {c}
      /\ AllocIn(n, B \ {c}) = AllocIn(m, B)
  BY <1>1, <1>2, <1>3, <1>7 DEF FreeIn, AllocIn, IsFree
<1>9. Linked(Unlink(L, c), FreeIn(n, B \ {c}) \ {h})
  <2>1. c \in FreeIn(m, B) \ {h} /\ c \notin Sentinels
    BY <1>1, <1>3, <1>4, SentinelsNegative
  <2>2. Linked(Unlink(L, c), (FreeIn(m, B) \ {h}) \ {c})
    BY <2>1, UnlinkLinked DEF Freeing
  <2>3. (FreeIn(m, B) \ {h}) \ {c} = FreeIn(n, B \ {c}) \ {h}
    BY <1>8
  <2> QED  BY <2>2, <2>3
<1>10. LinksTyped(Unlink(L, c))
  <2>1. Sentinels \subseteq DOMAIN L /\ c \in DOMAIN L
    BY <1>1, <1>4 DEF Freeing, Linked
  <2> QED  BY <2>1, <1>3, ListsTyped DEF Freeing
<1>11. ASSUME NEW b \in FreeIn(n, B \ {c}), IsFree(n, RightHeader(n, b))
       PROVE  h \in {b, RightHeader(n, b)}
  <2>1. CASE b # h
    <3>1. b \in FreeIn(m, B) /\ RightHeader(n, b) = RightHeader(m, b)
      BY <2>1, <1>2, <1>3, <1>8 DEF RightHeader, FreeIn
    <3>2. RightHeader(m, b) \in B
      BY <3>1 DEF Freeing, Heap, Tiled, FreeIn, IsFree, IsFence
    <3>3. IsFree(m, RightHeader(m, b))
      BY <3>1, <3>2, <1>3, <1>7, <1>11
    <3> QED  BY <3>1, <3>3, <2>1 DEF Freeing
  <2> QED  BY <2>1
<1>12. \A a \in DOMAIN n \ (B \ {c}) : n[a].state # "ALLOCATED"
  BY <1>1, <1>2 DEF Freeing, FreeIn, IsFree
<1>13. IsFree(n, h) /\ ~IsFree(n, r)
  BY <1>3, <1>6, <1>7 DEF Freeing
<1>14. Freeing(n, Unlink(L, c), B \ {c}, H, end, h)
  BY <1>1, <1>2, <1>4, <1>8, <1>9, <1>10, <1>11, <1>12, <1>13 DEF Freeing
<1> QED  BY <1>2, <1>3, <1>4, <1>5, <1>13, <1>14 DEF n, r

\* Joining the left neighbour, after the right one.
LEMMA JoinLeft ==
    ASSUME NEW m, NEW L, NEW B, NEW H, NEW end, NEW h, Freeing(m, L, B, H, end, h),
           NEW l \in B, l = LeftHeader(m, h), IsFree(m, l),
           ~IsFree(m, RightHeader(m, h))
    PROVE  /\ Freeing(Absorb(m, l, h), Unlink(L, l), B \ {h}, H, end, l)
           /\ ~IsFree(Absorb(m, l, h), RightHeader(Absorb(m, l, h), l))
           /\ \A b \in FreeIn(Absorb(m, l, h), B \ {h}) : RightHeader(Absorb(m, l, h), b) # l
<1> DEFINE n == Absorb(m, l, h)
           r == RightHeader(m, h)
<1>1. h \in B /\ ~IsFence(m, h) /\ ~IsFence(m, l) /\ l \in FreeIn(m, B) /\ h \in FreeIn(m, B)
  BY DEF Freeing, IsFree, IsFence, FreeIn
<1>2. h = RightHeader(m, l)
  <2>1. ~IsLeftFence(m, h)
    BY <1>1 DEF IsLeftFence
  <2>2. m[l].size = m[h].left
    BY <1>1, <2>1 DEF Freeing, Heap, Tiled
  <2>3. h \in Nat /\ m[h].left \in Nat
    BY <1>1, HeaderType DEF Freeing
  <2> QED  BY <2>2, <2>3 DEF LeftHeader, RightHeader
<1>3. /\ Heap(n, B \ {h}, end)
      /\ DOMAIN n = DOMAIN m
      /\ \A a \in DOMAIN m : n[a].state = m[a].state
      /\ n[l].size = m[l].size + m[h].size
      /\ l + (m[l].size + m[h].size) = RightHeader(m, h)
      /\ \A a \in DOMAIN m \ {l} : n[a].size = m[a].size
  BY <1>1, <1>2, AbsorbHeap DEF Freeing
<1>4. /\ h \in Nat /\ l \in Nat /\ h \in DOMAIN m /\ l \in DOMAIN m /\ r \in B
      /\ m[h].size \in Nat /\ m[h].size >= HEADER
      /\ m[l].size \in Nat /\ m[l].size >= HEADER /\ B \subseteq DOMAIN m
      /\ h = l + m[l].size /\ r = h + m[h].size
  BY <1>1, <1>2, HeaderType DEF Freeing, Heap, Tiled, RightHeader
<1>5. h # l /\ r # h /\ r # l
  BY <1>4 DEF HEADER
<1>6. RightHeader(n, l) = r
  BY <1>3 DEF RightHeader
<1> HIDE DEF n, r
<1>7. \A a \in DOMAIN m : IsFree(n, a) <=> IsFree(m, a)
  BY <1>3 DEF IsFree
<1>8. /\ FreeIn(n, B \ {h}) = FreeIn(m, B) \ {h}
      /\ AllocIn(n, B \ {h}) = AllocIn(m, B)
  BY <1>1, <1>3, <1>4, <1>7 DEF FreeIn, AllocIn, IsFree
<1>9. Linked(Unlink(L, l), FreeIn(n, B \ {h}) \ {l})
  <2>1. l \in FreeIn(m, B) \ {h} /\ l \notin Sentinels
    BY <1>1, <1>4, <1>5, SentinelsNegative
  <2> QED  BY <2>1, <1>8, UnlinkLinked DEF Freeing
<1>10. LinksTyped(Unlink(L, l))
  <2>1. Sentinels \subseteq DOMAIN L /\ l \in DOMAIN L
    BY <1>1, <1>5 DEF Freeing, Linked
  <2> QED  BY <2>1, <1>4, ListsTyped DEF Freeing
<1>11. ~IsFree(n, r)
  BY <1>4, <1>7 DEF r
<1>12. ASSUME NEW b \in FreeIn(n, B \ {h})
       PROVE  ~IsFree(n, RightHeader(n, b)) /\ RightHeader(n, b) # l
  <2>1. CASE b = l
    BY <2>1, <1>5, <1>6, <1>11
  <2>2. CASE b # l
    <3>1. b \in FreeIn(m, B) /\ b # h /\ RightHeader(n, b) = RightHeader(m, b)
      BY <2>2, <1>3, <1>4, <1>8 DEF RightHeader, FreeIn
    <3>2. RightHeader(m, b) \in B
      BY <3>1 DEF Freeing, Heap, Tiled, FreeIn, IsFree, IsFence
    <3>3. RightHeader(m, b) # h
      <4>1. m[RightHeader(m, b)].left = m[b].size
        BY <3>1 DEF Freeing, Heap, Tiled, FreeIn, IsFree, IsFence
      <4>2. b \in Nat /\ m[b].size \in Nat
        BY <3>1, HeaderType DEF Freeing, FreeIn
      <4> QED  BY <4>1, <4>2, <2>2 DEF LeftHeader, RightHeader
    <3>4. ~IsFree(m, RightHeader(m, b))
      BY <3>1, <3>3 DEF Freeing
    <3> QED  BY <3>1, <3>2, <3>4, <1>4, <1>7 
  <2> QED  BY <2>1, <2>2
<1>13. \A a \in DOMAIN n \ (B \ {h}) : n[a].state # "ALLOCATED"
  BY <1>1, <1>3 DEF Freeing, IsFree
<1>14. Freeing(n, Unlink(L, l), B \ {h}, H, end, l)
  BY <1>1, <1>3, <1>4, <1>5, <1>7, <1>8, <1>9, <1>10, <1>12, <1>13 DEF Freeing
<1> QED  BY <1>6, <1>11, <1>12, <1>14 DEF n

\* Putting the joined block on its list puts the heap in order.
LEMMA FinishFreeing ==
    ASSUME NEW m, NEW L, NEW B, NEW H, NEW end, NEW h, Freeing(m, L, B, H, end, h),
           ~IsFree(m, RightHeader(m, h)),
           \A b \in FreeIn(m, B) : RightHeader(m, b) # h
    PROVE  InOrder(InsertMem(m, h), InsertLinks(m, L, h), B, H, end)
<1> DEFINE n == InsertMem(m, h)
<1>1. /\ h \in Nat /\ m[h].size \in Nat /\ m[h].size >= MIN_BLOCK /\ B \subseteq DOMAIN m
      /\ h \in B
  BY HeaderType DEF Freeing, Heap, Tiled, IsFree, IsFence
<1>2. /\ Heap(n, B, end)
      /\ B \subseteq DOMAIN n
      /\ DOMAIN n \subseteq DOMAIN m
      /\ \A a \in DOMAIN n : n[a] = m[a]
  <2>1. h + MIN_BLOCK \in Nat /\ h + MIN_BLOCK <= h + m[h].size
    BY <1>1 DEF MIN_BLOCK, HEADER, MIN_DATA
  <2> QED  BY <1>1, <2>1, ClobberHeap DEF Freeing, InsertMem
<1> HIDE DEF n
<1>3. FreeIn(n, B) = FreeIn(m, B) /\ AllocIn(n, B) = AllocIn(m, B)
  BY <1>2 DEF FreeIn, AllocIn, IsFree
<1>4. \A b \in FreeIn(n, B) : ~IsFree(n, RightHeader(n, b))
  <2> SUFFICES ASSUME NEW b \in FreeIn(n, B) PROVE ~IsFree(n, RightHeader(n, b))
    OBVIOUS
  <2>1. b \in FreeIn(m, B) /\ RightHeader(n, b) = RightHeader(m, b) /\ RightHeader(m, b) \in B
    BY <1>2, <1>3 DEF RightHeader, FreeIn, Freeing, Heap, Tiled, IsFree, IsFence
  <2>2. ~IsFree(m, RightHeader(m, b))
    BY <2>1 DEF Freeing
  <2> QED  BY <2>1, <2>2, <1>2 DEF IsFree
<1>5. ListIndex(m[h].size) \in 0..(N_LISTS - 1)
  BY <1>1, ListIndexRange
<1>6. Linked(InsertLinks(m, L, h), FreeIn(n, B))
  <2>1. h \notin DOMAIN L
    BY <1>1, SentinelsNegative DEF Freeing, Linked
  <2>2. Linked(InsertLinks(m, L, h), (FreeIn(m, B) \ {h}) \cup {h})
    BY <2>1, <1>5, LinkTailLinked DEF Freeing, InsertLinks
  <2>3. (FreeIn(m, B) \ {h}) \cup {h} = FreeIn(n, B)
    BY <1>3 DEF Freeing, FreeIn
  <2> QED  BY <2>2, <2>3
<1>7. LinksTyped(InsertLinks(m, L, h))
  BY <1>1, <1>5, ListsTyped DEF Freeing, Linked, InsertLinks
<1>8. \A a \in DOMAIN n \ B : n[a].state # "ALLOCATED"
  BY <1>2 DEF Freeing
<1> QED  BY <1>2, <1>3, <1>4, <1>6, <1>7, <1>8 DEF InOrder, Freeing, n

-----------------------------------------------------------------------------
(* The inductive invariant and the steps of my_free.                       *)

RightFenceAt(m, B, f) == f \in B /\ IsFence(m, f) /\ m[f].left # HEADER

\* The state between the steps of a heap in order.
Good ==
    /\ InOrder(mem, links, blocks, held, brk)
    /\ RightFenceAt(mem, blocks, lastFence)
    /\ want \in Nat /\ (want # 0 => want >= MIN_BLOCK)
    /\ chunks \in Seq(Nat) /\ Len(chunks) <= MAX_OS_CHUNKS
    /\ fault \in {"none", "aborted"}

HeapInv == seam \in BOOLEAN /\ (~seam => Good)

\* Joining two blocks keeps the last fencepost a right fencepost.
LEMMA AbsorbFence ==
    ASSUME NEW m, NEW B, NEW end, Heap(m, B, end),
           NEW b \in B, NEW c \in B, c = RightHeader(m, b),
           ~IsFence(m, b), ~IsFence(m, c), NEW f, RightFenceAt(m, B, f)
    PROVE  RightFenceAt(Absorb(m, b, c), B \ {c}, f)
<1> DEFINE n == Absorb(m, b, c)
<1>1. /\ Heap(n, B \ {c}, end)
      /\ DOMAIN n = DOMAIN m
      /\ \A a \in DOMAIN m : n[a].state = m[a].state
      /\ n[b].size = m[b].size + m[c].size
      /\ \A a \in DOMAIN m \ {b + (m[b].size + m[c].size)} : n[a].left = m[a].left
  BY AbsorbHeap
<1> HIDE DEF n
<1>2. f \in B \ {c} /\ IsFence(n, f) /\ f \in DOMAIN m
  BY <1>1 DEF RightFenceAt, IsFence, Heap, Tiled
<1>3. CASE f # RightHeader(n, b)
  BY <1>1, <1>2, <1>3 DEF RightFenceAt, RightHeader, n
<1>4. CASE f = RightHeader(n, b)
  <2>1. b \in B \ {c} /\ ~IsFence(n, b)
    <3>1. b \in Nat /\ m[b].size \in Nat /\ m[b].size >= HEADER /\ b \in DOMAIN m
      BY HeaderType
    <3> QED  BY <3>1, <1>1 DEF RightHeader, IsFence, HEADER
  <2>2. n[f].left = n[b].size /\ n[b].size >= MIN_BLOCK
    BY <2>1, <1>1, <1>4 DEF Heap, Tiled
  <2> QED  BY <2>2, <1>2 DEF RightFenceAt, n, MIN_BLOCK, HEADER, MIN_DATA
<1> QED  BY <1>3, <1>4

\* my_free keeps the invariant.
LEMMA FreeStep ==
    ASSUME Good, NEW h \in held, Free(h), ~seam
    PROVE  Good'
<1> DEFINE m0    == SetState(mem, h, "UNALLOCATED")
           right == RightHeader(m0, h)
           left  == LeftHeader(m0, h)
           H     == held \ {h}
<1>1. /\ h \in blocks /\ ~IsFence(mem, h) /\ mem[h].state = "ALLOCATED"
      /\ h \in DOMAIN mem /\ blocks \subseteq DOMAIN mem
      /\ Heap(mem, blocks, brk)
  BY DEF Good, InOrder, AllocIn, IsFence, Heap, Tiled
<1>2. /\ Heap(m0, blocks, brk)
      /\ DOMAIN m0 = DOMAIN mem
      /\ \A a \in DOMAIN mem : m0[a] = Tag(mem[a].size, IF a = h THEN "UNALLOCATED" ELSE mem[a].state, mem[a].left)
  BY <1>1, SetStateHeap
<1>3. Freeing(m0, links, blocks, H, brk, h)
  BY StartFreeing DEF Good
<1>4. RightFenceAt(m0, blocks, lastFence)
  <2> HIDE DEF m0
  <2>1. lastFence \in blocks /\ lastFence \in DOMAIN mem /\ lastFence # h
    BY <1>1 DEF Good, RightFenceAt
  <2> QED  BY <2>1, <1>2 DEF Good, RightFenceAt, IsFence, Tag
<1>5. /\ right = RightHeader(mem, h) /\ left = LeftHeader(mem, h)
      /\ right \in blocks /\ left \in blocks
      /\ right # h /\ left # h
      /\ m0[right].state = mem[right].state /\ m0[left].state = mem[left].state
  <2>1. right = RightHeader(mem, h) /\ left = LeftHeader(mem, h)
    <3> HIDE DEF m0
    <3> QED  BY <1>1, <1>2 DEF RightHeader, LeftHeader, Tag
  <2>2. RightHeader(mem, h) \in blocks /\ LeftHeader(mem, h) \in blocks
        /\ mem[LeftHeader(mem, h)].size = mem[h].left
    BY <1>1 DEF Heap, Tiled, IsLeftFence
  <2>3. RightHeader(mem, h) # h
    BY <1>1, HeaderType DEF RightHeader, HEADER
  <2>4. LeftHeader(mem, h) # h
    <3>1. mem[LeftHeader(mem, h)].size >= HEADER /\ mem[h].left \in Nat /\ h \in Nat
      BY <1>1, <2>2, HeaderType
    <3> QED  BY <2>2, <3>1 DEF LeftHeader, HEADER
  <2> HIDE DEF m0, right, left
  <2> QED  BY <2>1, <2>2, <2>3, <2>4, <1>1, <1>2 DEF Tag
<1>6. PICK jr \in BOOLEAN, jl \in BOOLEAN :
         /\ jr <=> IsFree(mem, right)
         /\ jl <=> IsFree(mem, left)
         /\ Coalesce(h, jr, jl)
         /\ UNCHANGED fault
  <2>1. StatesAt(mem, right) = {mem[right].state} /\ StatesAt(mem, left) = {mem[left].state}
    BY <1>1, <1>5 DEF StatesAt
  <2>2. IsFree(mem, right) => right \in DOMAIN links
    BY <1>1, <1>5 DEF Good, InOrder, Linked, FreeIn
  <2>3. IsFree(mem, left) => left \in DOMAIN links
    BY <1>1, <1>5 DEF Good, InOrder, Linked, FreeIn
  <2> HIDE DEF m0, right, left
  <2> QED  BY <2>1, <2>2, <2>3, <1>5 DEF Free, IsFree
<1> DEFINE m1 == IF jr THEN Absorb(m0, h, right) ELSE m0
           L1 == IF jr THEN Unlink(links, right) ELSE links
           B1 == IF jr THEN blocks \ {right} ELSE blocks
           m2 == IF jl THEN Absorb(m1, left, h) ELSE m1
           L2 == IF jl THEN Unlink(L1, left) ELSE L1
           B2 == IF jl THEN B1 \ {h} ELSE B1
           top == IF jl THEN left ELSE h
<1>7. /\ mem' = InsertMem(m2, top) /\ links' = InsertLinks(m2, L2, top) /\ blocks' = B2
  <2>1. /\ mem' = InsertMem(m2, top) /\ links' = InsertLinks(m2, L2, top)
        /\ blocks' = blocks \ ((IF jr THEN {right} ELSE {}) \cup (IF jl THEN {h} ELSE {}))
    BY <1>6 DEF Coalesce
  <2>2. blocks \ ((IF jr THEN {right} ELSE {}) \cup (IF jl THEN {h} ELSE {})) = B2
    OBVIOUS
  <2> QED  BY <2>1, <2>2
<1>8. /\ held' = H /\ UNCHANGED <<lastFence, chunks, brk, seam, want, fault>>
  BY <1>6 DEF Free, arenaVars
<1> HIDE DEF m0, right, left, H
<1>9. /\ Freeing(m1, L1, B1, H, brk, h)
      /\ ~IsFree(m1, RightHeader(m1, h))
      /\ left = LeftHeader(m1, h) /\ left \in B1
      /\ IsFree(m1, left) <=> jl
      /\ RightFenceAt(m1, B1, lastFence)
  <2>1. CASE jr
    <3>1. IsFree(m0, right)
      BY <2>1, <1>5, <1>6 DEF IsFree
    <3>2. /\ Freeing(m1, L1, B1, H, brk, h)
          /\ RightHeader(m1, h) = RightHeader(m0, right)
          /\ ~IsFree(m1, RightHeader(m0, right))
          /\ LeftHeader(m1, h) = LeftHeader(m0, h)
          /\ LeftHeader(m0, h) # right
          /\ \A a \in DOMAIN m0 : m1[a].state = m0[a].state
      BY <2>1, <3>1, <1>3, JoinRight DEF right
    <3>3. RightFenceAt(m1, B1, lastFence)
      <4>1. ~IsFence(m0, h) /\ ~IsFence(m0, right)
        BY <3>1, <1>3 DEF Freeing, IsFree, IsFence
      <4> QED  BY <4>1, <2>1, <1>1, <1>2, <1>4, <1>5, AbsorbFence DEF right
    <3> QED  BY <3>2, <3>3, <2>1, <1>1, <1>2, <1>5, <1>6 DEF left, IsFree
  <2>2. CASE ~jr
    BY <2>2, <1>3, <1>4, <1>5, <1>6 DEF left, right, IsFree
  <2> QED  BY <2>1, <2>2
<1> HIDE DEF m1, L1, B1
<1>10. /\ Freeing(m2, L2, B2, H, brk, top)
       /\ ~IsFree(m2, RightHeader(m2, top))
       /\ \A b \in FreeIn(m2, B2) : RightHeader(m2, b) # top
       /\ RightFenceAt(m2, B2, lastFence)
  <2>1. CASE jl
    <3>1. /\ Freeing(m2, L2, B2, H, brk, top)
          /\ ~IsFree(m2, RightHeader(m2, top))
          /\ \A b \in FreeIn(m2, B2) : RightHeader(m2, b) # top
      <4>1. m2 = Absorb(m1, left, h) /\ L2 = Unlink(L1, left) /\ B2 = B1 \ {h} /\ top = left
        BY <2>1
      <4> HIDE DEF m2, L2, B2, top
      <4>2. IsFree(m1, left)
        BY <2>1, <1>9
      <4> QED  BY <4>1, <4>2, <1>9, JoinLeft
    <3>2. RightFenceAt(m2, B2, lastFence)
      <4>1. ~IsFence(m1, h) /\ ~IsFence(m1, left) /\ h \in B1
        BY <2>1, <1>9 DEF Freeing, IsFree, IsFence
      <4>2. h = RightHeader(m1, left)
        <5>1. m1[left].size = m1[h].left /\ h \in Nat /\ m1[h].left \in Nat
          BY <4>1, <1>9, HeaderType DEF Freeing, Heap, Tiled, IsLeftFence
        <5> QED  BY <5>1, <1>9 DEF LeftHeader, RightHeader
      <4> QED  BY <4>1, <4>2, <2>1, <1>9, AbsorbFence DEF Freeing
    <3> QED  BY <3>1, <3>2
  <2>2. CASE ~jl
    <3>1. ASSUME NEW b \in FreeIn(m1, B1), RightHeader(m1, b) = h PROVE FALSE
      <4>1. m1[h].left = m1[b].size /\ b \in Nat /\ m1[b].size \in Nat
        BY <3>1, <1>9, HeaderType DEF Freeing, Heap, Tiled, FreeIn, IsFree, IsFence
      <4>2. left = b
        BY <4>1, <3>1, <1>9 DEF LeftHeader, RightHeader
      <4> QED  BY <4>2, <3>1, <2>2, <1>9 DEF FreeIn
    <3> QED  BY <3>1, <2>2, <1>9
  <2> QED  BY <2>1, <2>2
<1> HIDE DEF m2, L2, B2, top
<1>11. InOrder(mem', links', blocks', held', brk')
  BY <1>7, <1>8, <1>10, FinishFreeing
<1>12. RightFenceAt(mem', blocks', lastFence')
  <2>1. /\ top \in B2 /\ m2[top].size >= MIN_BLOCK /\ Heap(m2, B2, brk)
        /\ top \in Nat /\ m2[top].size \in Nat
    BY <1>10, HeaderType DEF Freeing, Heap, Tiled, IsFree, IsFence
  <2>2. top + MIN_BLOCK \in Nat /\ top + MIN_BLOCK <= top + m2[top].size
    BY <2>1 DEF MIN_BLOCK, HEADER, MIN_DATA
  <2>3. B2 \subseteq DOMAIN mem' /\ \A a \in DOMAIN mem' : mem'[a] = m2[a]
    BY <2>1, <2>2, <1>7, ClobberHeap DEF InsertMem
  <2> QED  BY <2>3, <1>7, <1>8, <1>10 DEF RightFenceAt, IsFence
<1> QED  BY <1>8, <1>11, <1>12 DEF Good

-----------------------------------------------------------------------------
(* The steps of my_malloc that find a block.                               *)

\* Handing out the front of a larger block keeps the heap in order.
LEMMA SplitStep ==
    ASSUME Good, NEW b \in DOMAIN links, Fits(b, want), want # 0, SplitFit(b),
           held' = held \cup {b}, brk' = brk
    PROVE  /\ InOrder(mem', links', blocks', held', brk')
           /\ RightFenceAt(mem', blocks', lastFence)
<1> DEFINE rest  == mem[b].size - want
           split == b + want
           r  == RightHeader(mem, b)
           m1 == Store(mem, split, Tag(rest, "UNALLOCATED", want))
           m2 == SetLeft(m1, r, rest)
           m3 == InsertMem(m2, split)
           m4 == SetState(SetSize(m3, b, want), b, "ALLOCATED")
           B  == blocks \cup {split}
<1>1. /\ Heap(mem, blocks, brk) /\ Linked(links, FreeIn(mem, blocks)) /\ LinksTyped(links)
      /\ b \in DOMAIN mem /\ IsFree(mem, b) /\ mem[b].size >= want
      /\ want \in Nat /\ want >= MIN_BLOCK /\ rest >= MIN_BLOCK
  BY DEF Good, InOrder, Fits, SplitFit, IsFree
<1>2. b \in FreeIn(mem, blocks) /\ b \in blocks
  <2>1. b \notin Sentinels
    BY <1>1, SentinelsNegative DEF Heap, Typed
  <2> QED  BY <1>1, <2>1 DEF Linked, FreeIn
<1>3. /\ b \in Nat /\ mem[b].size \in Nat /\ mem[b].left \in Nat /\ rest \in Nat
      /\ split \in Nat /\ r = split + rest /\ r \in blocks /\ ~IsFence(mem, b)
      /\ blocks \subseteq DOMAIN mem /\ want + MIN_BLOCK <= mem[b].size
      /\ b < split /\ split < r /\ split + MIN_BLOCK <= r /\ r \in Nat
  <2>1. b \in Nat /\ mem[b].size \in Nat /\ mem[b].left \in Nat
    BY <1>1, <1>2, HeaderType
  <2>2. ~IsFence(mem, b) /\ r \in blocks /\ blocks \subseteq DOMAIN mem
    BY <1>1, <1>2 DEF IsFree, IsFence, Heap, Tiled
  <2> QED  BY <1>1, <2>1, <2>2 DEF RightHeader, MIN_BLOCK, HEADER, MIN_DATA
<1>4. RightHeader(m1, split) = r
  BY <1>3 DEF Store, Tag, RightHeader
<1>5. /\ mem' = Clobber(m4, b, split)
      /\ links' = InsertLinks(m1, Unlink(links, b), split)
      /\ blocks' = B
  BY <1>4 DEF SplitFit
<1>6. \A a \in blocks : a <= b \/ a >= r
  <2>1. \A a \in blocks : a \in Nat /\ (b < a => b + mem[b].size <= a)
    BY <1>1, <1>2, HeaderType DEF Heap, Apart
  <2> QED  BY <2>1, <1>3 DEF RightHeader
<1>7. split \notin blocks
  BY <1>3, <1>6
<1>8. /\ DOMAIN m2 = DOMAIN mem \cup {split}
      /\ m2[split] = Tag(rest, "UNALLOCATED", want)
      /\ \A a \in DOMAIN mem \ {split} :
            m2[a] = Tag(mem[a].size, mem[a].state, IF a = r THEN rest ELSE mem[a].left)
  <2>1. \A a \in DOMAIN mem : mem[a] = Tag(mem[a].size, mem[a].state, mem[a].left)
    BY <1>1 DEF Heap, Typed, TagType, Tag
  <2>2. DOMAIN m1 = DOMAIN mem \cup {split} /\ m1[split] = Tag(rest, "UNALLOCATED", want)
        /\ \A a \in DOMAIN mem \ {split} : m1[a] = mem[a]
    BY DEF Store
  <2> HIDE DEF m1, rest, split, r
  <2> QED  BY <1>3, <2>1, <2>2 DEF SetLeft
<1> HIDE DEF m1, m2
<1>9. /\ DOMAIN m3 = {a \in DOMAIN m2 : a <= split \/ a >= split + MIN_BLOCK}
      /\ \A a \in DOMAIN m3 : m3[a] = m2[a]
  BY DEF InsertMem, Clobber
<1>10. B \subseteq DOMAIN m3
  <2> SUFFICES ASSUME NEW a \in B PROVE a \in DOMAIN m3
    OBVIOUS
  <2> HIDE DEF m3, r, rest, split
  <2>1. CASE a = split
    BY <2>1, <1>3, <1>8, <1>9
  <2>2. CASE a \in blocks
    <3>1. a \in Nat /\ a \in DOMAIN m2 /\ (a <= b \/ a >= r)
      BY <2>2, <1>1, <1>3, <1>6, <1>8, HeaderType
    <3>2. a <= split \/ a >= split + MIN_BLOCK
      BY <3>1, <1>3 DEF MIN_BLOCK, HEADER, MIN_DATA
    <3> QED  BY <3>1, <3>2, <1>9
  <2> QED  BY <2>1, <2>2
<1> HIDE DEF m3
<1>11. /\ DOMAIN m4 = DOMAIN m3
       /\ \A a \in DOMAIN m3 : m4[a] = IF a = b THEN Tag(want, "ALLOCATED", mem[b].left)
                                       ELSE m2[a]
  <2>1. m3[b] = Tag(mem[b].size, mem[b].state, mem[b].left) /\ b \in DOMAIN m3
    <3>1. b # split /\ b # r /\ b \in DOMAIN mem /\ b \in DOMAIN m3
      BY <1>2, <1>3, <1>10
    <3> QED  BY <3>1, <1>8, <1>9
  <2> HIDE DEF rest, split, r
  <2> QED  BY <2>1, <1>9 DEF SetState, SetSize, Tag
<1> HIDE DEF m4
<1>12. Typed(m4)
  <2>1. \A a \in DOMAIN m2 : m2[a] \in TagType
    BY <1>1, <1>3, <1>8 DEF Heap, Typed, TagType, Tag, States
  <2>2. Tag(want, "ALLOCATED", mem[b].left) \in TagType
    BY <1>1, <1>3 DEF TagType, Tag, States
  <2>3. DOMAIN m2 \subseteq Nat
    BY <1>1, <1>3, <1>8 DEF Heap, Typed
  <2> QED  BY <2>1, <2>2, <2>3, <1>9, <1>11 DEF Typed
<1> HIDE DEF rest, split, r
<1>13. \A a \in blocks :
          /\ m4[a].size = (IF a = b THEN want ELSE mem[a].size)
          /\ m4[a].left = (IF a = r THEN rest ELSE mem[a].left)
          /\ m4[a].state = (IF a = b THEN "ALLOCATED" ELSE mem[a].state)
  <2> SUFFICES ASSUME NEW a \in blocks
               PROVE  /\ m4[a].size = (IF a = b THEN want ELSE mem[a].size)
                      /\ m4[a].left = (IF a = r THEN rest ELSE mem[a].left)
                      /\ m4[a].state = (IF a = b THEN "ALLOCATED" ELSE mem[a].state)
    OBVIOUS
  <2>1. b # r /\ a \in DOMAIN m3 /\ a \in DOMAIN mem /\ a # split
    BY <1>3, <1>7, <1>10
  <2> QED  BY <2>1, <1>8, <1>11 DEF Tag
<1>14. m4[split].size = rest /\ m4[split].left = want /\ m4[split].state = "UNALLOCATED"
  BY <1>3, <1>8, <1>10, <1>11 DEF Tag
<1>15. Heap(m4, B, brk)
  <2>1. \A a \in blocks : IsFence(m4, a) <=> IsFence(mem, a)
    BY <1>1, <1>13 DEF IsFence, IsFree
  <2>2. ~IsFence(m4, split)
    BY <1>14 DEF IsFence
  <2>3. /\ blocks \cup {split} \subseteq DOMAIN m4
        /\ split = b + want /\ r = RightHeader(mem, b)
        /\ m4[split].size = mem[b].size - want /\ m4[split].left = want
    BY <1>10, <1>11, <1>14 DEF split, rest, r
  <2>4. \A a \in blocks :
           /\ m4[a].size = (IF a = b THEN want ELSE mem[a].size)
           /\ m4[a].left = (IF a = r THEN mem[b].size - want ELSE mem[a].left)
           /\ IsFence(m4, a) <=> IsFence(mem, a)
    BY <2>1, <1>13 DEF rest
  <2>5. /\ b \in blocks /\ ~IsFence(mem, b) /\ want \in Nat /\ want >= MIN_BLOCK
        /\ want + MIN_BLOCK <= mem[b].size /\ Heap(mem, blocks, brk) /\ Typed(m4)
    BY <1>1, <1>2, <1>3, <1>12
  <2>6. Heap(m4, blocks \cup {split}, brk)
    BY <2>2, <2>3, <2>4, <2>5, SplitHeap
  <2> QED  BY <2>6
<1> DEFINE n == Clobber(m4, b, split)
<1>16. /\ Heap(n, B, brk) /\ B \subseteq DOMAIN n /\ DOMAIN n \subseteq DOMAIN m4
       /\ \A a \in DOMAIN n : n[a] = m4[a]
  <2>1. split <= b + m4[b].size
    BY <1>2, <1>3, <1>13 DEF split
  <2>2. b \in B /\ split \in Nat
    BY <1>2, <1>3
  <2> HIDE DEF B
  <2> QED  BY <2>1, <2>2, <1>15, ClobberHeap
<1> HIDE DEF n
<1>17. /\ FreeIn(n, B) = (FreeIn(mem, blocks) \ {b}) \cup {split}
       /\ AllocIn(n, B) = AllocIn(mem, blocks) \cup {b}
  BY <1>1, <1>2, <1>7, <1>13, <1>14, <1>16 DEF FreeIn, AllocIn, IsFree
<1>18. ASSUME NEW a \in FreeIn(n, B) PROVE ~IsFree(n, RightHeader(n, a))
  <2>1. CASE a = split
    <3>1. RightHeader(n, a) = r /\ ~IsFree(mem, r) /\ r # b
      BY <2>1, <1>2, <1>3, <1>14, <1>16 DEF RightHeader, Good, InOrder, r
    <3> QED  BY <3>1, <1>3, <1>13, <1>16 DEF IsFree
  <2>2. CASE a # split
    <3>1. a \in FreeIn(mem, blocks) /\ a # b /\ a \in blocks
      BY <2>2, <1>7, <1>17 DEF FreeIn
    <3>2. RightHeader(n, a) = RightHeader(mem, a)
      BY <3>1, <1>13, <1>16 DEF RightHeader
    <3>3. RightHeader(mem, a) \in blocks /\ ~IsFree(mem, RightHeader(mem, a))
      BY <3>1 DEF FreeIn, Good, InOrder, Heap, Tiled, IsFree, IsFence
    <3> QED  BY <3>2, <3>3, <1>13, <1>16 DEF IsFree
  <2> QED  BY <2>1, <2>2
<1>19. /\ Linked(links', FreeIn(n, B))
       /\ LinksTyped(links')
  <2>1. Linked(Unlink(links, b), FreeIn(mem, blocks) \ {b}) /\ LinksTyped(Unlink(links, b))
    <3>1. b \notin Sentinels /\ Sentinels \subseteq DOMAIN links
      BY <1>1, <1>3, SentinelsNegative DEF Linked
    <3> QED  BY <3>1, <1>1, <1>2, <1>3, UnlinkLinked, ListsTyped
  <2>2. split \notin DOMAIN Unlink(links, b)
    BY <2>1, <1>3, <1>7, SentinelsNegative DEF Linked, FreeIn
  <2>3. m1[split].size \in Nat
    BY <1>3 DEF m1, Store, Tag
  <2>4. Linked(links', (FreeIn(mem, blocks) \ {b}) \cup {split})
    BY <2>1, <2>2, <2>3, <1>5, ListIndexRange, LinkTailLinked DEF InsertLinks
  <2>5. LinksTyped(links')
    <3>1. Sentinels \subseteq DOMAIN Unlink(links, b)
      BY <2>1 DEF Linked
    <3> QED  BY <3>1, <2>1, <2>3, <1>3, <1>5, ListIndexRange, ListsTyped DEF InsertLinks
  <2> QED  BY <2>4, <2>5, <1>17
<1>20. \A a \in DOMAIN n \ B : n[a].state # "ALLOCATED"
  <2> SUFFICES ASSUME NEW a \in DOMAIN n \ B PROVE n[a].state # "ALLOCATED"
    OBVIOUS
  <2>1. a # b /\ a # split /\ a \in DOMAIN m2 /\ a \in DOMAIN mem \ blocks
    BY <1>2, <1>8, <1>9, <1>11, <1>16
  <2>2. n[a] = m2[a]
    BY <2>1, <1>11, <1>16
  <2>3. mem[a].state # "ALLOCATED"
    BY <2>1 DEF Good, InOrder
  <2> QED  BY <2>1, <2>2, <2>3, <1>8 DEF Tag
<1>21. RightFenceAt(n, B, lastFence)
  <2>1. lastFence \in blocks /\ IsFence(mem, lastFence) /\ mem[lastFence].left # HEADER
    BY DEF Good, RightFenceAt
  <2>2. rest # HEADER
    BY <1>1, <1>3 DEF rest, MIN_BLOCK, MIN_DATA, HEADER
  <2>3. lastFence # b
    BY <2>1, <1>3
  <2> QED  BY <2>1, <2>2, <2>3, <1>13, <1>16 DEF RightFenceAt, IsFence
<1>22. held' = AllocIn(n, B)
  BY <1>17 DEF Good, InOrder
<1>23. InOrder(n, links', B, held', brk')
  BY <1>16, <1>18, <1>19, <1>20, <1>22 DEF InOrder
<1> QED  BY <1>5, <1>21, <1>23 DEF n

\* Handing out a whole block keeps the heap in order.
LEMMA WholeStep ==
    ASSUME Good, NEW b \in DOMAIN links, Fits(b, want), want # 0, WholeFit(b),
           held' = held \cup {b}, brk' = brk
    PROVE  /\ InOrder(mem', links', blocks', held', brk')
           /\ RightFenceAt(mem', blocks', lastFence)
<1> DEFINE r  == RightHeader(mem, b)
           m1 == SetState(mem, b, "ALLOCATED")
           m2 == SetLeft(m1, r, mem[b].size)
           n  == Clobber(m2, b, r)
<1>1. /\ Heap(mem, blocks, brk) /\ Linked(links, FreeIn(mem, blocks)) /\ LinksTyped(links)
      /\ b \in DOMAIN mem /\ IsFree(mem, b)
  BY DEF Good, InOrder, Fits, IsFree
<1>2. b \in FreeIn(mem, blocks) /\ b \in blocks /\ b \notin Sentinels
  <2>1. b \notin Sentinels
    BY <1>1, SentinelsNegative DEF Heap, Typed
  <2> QED  BY <1>1, <2>1 DEF Linked, FreeIn
<1>3. /\ b \in Nat /\ mem[b].size \in Nat /\ ~IsFence(mem, b)
      /\ r \in blocks /\ mem[r].left = mem[b].size /\ r = b + mem[b].size /\ r # b
      /\ blocks \subseteq DOMAIN mem /\ r \in Nat
  <2>1. b \in Nat /\ mem[b].size \in Nat /\ mem[b].size >= HEADER
    BY <1>1, <1>2, HeaderType
  <2>2. ~IsFence(mem, b) /\ r \in blocks /\ mem[r].left = mem[b].size /\ blocks \subseteq DOMAIN mem
    BY <1>1, <1>2 DEF IsFree, IsFence, Heap, Tiled
  <2> QED  BY <2>1, <2>2 DEF RightHeader, HEADER
<1>4. mem' = n /\ links' = Unlink(links, b) /\ blocks' = blocks
  BY DEF WholeFit
<1>5. /\ Heap(m1, blocks, brk)
      /\ DOMAIN m1 = DOMAIN mem
      /\ \A a \in DOMAIN mem : m1[a] = Tag(mem[a].size, IF a = b THEN "ALLOCATED" ELSE mem[a].state, mem[a].left)
  BY <1>1, <1>2, <1>3, SetStateHeap
<1> HIDE DEF m1, r
<1>6. DOMAIN m2 = DOMAIN mem /\ \A a \in DOMAIN mem : m2[a] = m1[a]
  BY <1>3, <1>5 DEF SetLeft, Tag
<1> HIDE DEF m2
<1>7. \A a \in blocks : /\ m2[a].size = mem[a].size /\ m2[a].left = mem[a].left
                        /\ m2[a].state = (IF a = b THEN "ALLOCATED" ELSE mem[a].state)
  BY <1>3, <1>5, <1>6 DEF Tag
<1>8. Heap(m2, blocks, brk)
  <2>1. Typed(m2)
    BY <1>5, <1>6 DEF Heap, Typed
  <2>2. \A a \in blocks : /\ a \in DOMAIN m2
                          /\ m2[a].size = mem[a].size /\ m2[a].left = mem[a].left
                          /\ IsFence(m2, a) <=> IsFence(mem, a)
    BY <1>3, <1>6, <1>7 DEF IsFence
  <2> QED  BY <2>1, <2>2, <1>1, SameSizes
<1>9. /\ Heap(n, blocks, brk) /\ blocks \subseteq DOMAIN n /\ DOMAIN n \subseteq DOMAIN m2
      /\ \A a \in DOMAIN n : n[a] = m2[a]
  BY <1>2, <1>3, <1>7, <1>8, ClobberHeap
<1> HIDE DEF n
<1>10. /\ FreeIn(n, blocks) = FreeIn(mem, blocks) \ {b}
       /\ AllocIn(n, blocks) = AllocIn(mem, blocks) \cup {b}
  BY <1>2, <1>7, <1>9 DEF FreeIn, AllocIn, IsFree
<1>11. ASSUME NEW a \in FreeIn(n, blocks) PROVE ~IsFree(n, RightHeader(n, a))
  <2>1. a \in FreeIn(mem, blocks) /\ a \in blocks /\ RightHeader(n, a) = RightHeader(mem, a)
    BY <1>7, <1>9, <1>10 DEF FreeIn, RightHeader
  <2>2. RightHeader(mem, a) \in blocks /\ ~IsFree(mem, RightHeader(mem, a))
    BY <2>1 DEF FreeIn, Good, InOrder, Heap, Tiled, IsFree, IsFence
  <2> QED  BY <2>1, <2>2, <1>7, <1>9 DEF IsFree
<1>12. Linked(links', FreeIn(n, blocks)) /\ LinksTyped(links')
  <2>1. Sentinels \subseteq DOMAIN links
    BY <1>1 DEF Linked
  <2> QED  BY <2>1, <1>1, <1>2, <1>3, <1>4, <1>10, UnlinkLinked, ListsTyped
<1>13. \A a \in DOMAIN n \ blocks : n[a].state # "ALLOCATED"
  <2> SUFFICES ASSUME NEW a \in DOMAIN n \ blocks PROVE n[a].state # "ALLOCATED"
    OBVIOUS
  <2>1. a # b /\ a \in DOMAIN mem \ blocks /\ n[a] = m1[a]
    BY <1>2, <1>6, <1>9
  <2>2. mem[a].state # "ALLOCATED"
    BY <2>1 DEF Good, InOrder
  <2> QED  BY <2>1, <2>2, <1>5 DEF Tag
<1>14. RightFenceAt(n, blocks, lastFence)
  <2>1. lastFence \in blocks /\ IsFence(mem, lastFence) /\ mem[lastFence].left # HEADER
    BY DEF Good, RightFenceAt
  <2>2. lastFence # b
    BY <2>1, <1>3
  <2> QED  BY <2>1, <2>2, <1>7, <1>9 DEF RightFenceAt, IsFence
<1>15. held' = AllocIn(n, blocks)
  BY <1>10 DEF Good, InOrder
<1>16. InOrder(n, links', blocks, held', brk')
  BY <1>9, <1>11, <1>12, <1>13, <1>15 DEF InOrder
<1> QED  BY <1>4, <1>14, <1>16

-----------------------------------------------------------------------------
(* The steps of my_malloc that grow the heap.                              *)

\* The headers of a new arena.
LEMMA ChunkHeaders ==
    ASSUME NEW m, Typed(m), NEW base \in Nat
    PROVE  LET n == ChunkTags(m, base)
               new == {base, base + HEADER, RightFence(base)}
           IN /\ Typed(n)
              /\ DOMAIN n = DOMAIN m \cup new
              /\ n[base] = Tag(HEADER, "FENCEPOST", HEADER)
              /\ n[base + HEADER] = Tag(ARENA - 2 * HEADER, "UNALLOCATED", HEADER)
              /\ n[RightFence(base)] = Tag(HEADER, "FENCEPOST", ARENA - 2 * HEADER)
              /\ \A a \in DOMAIN m \ new : n[a] = m[a]
              /\ RightFence(base) \in Nat /\ base + HEADER \in Nat
              /\ ARENA - 2 * HEADER \in Nat /\ ARENA - 2 * HEADER >= MIN_BLOCK
              /\ RightFence(base) # base /\ RightFence(base) # base + HEADER
<1> DEFINE n == ChunkTags(m, base)
           fence == RightFence(base)
           new == {base, base + HEADER, fence}
<1>1. /\ fence \in Nat /\ base + HEADER \in Nat /\ ARENA - 2 * HEADER \in Nat
      /\ base # base + HEADER /\ fence # base /\ fence # base + HEADER
      /\ ARENA - 2 * HEADER >= MIN_BLOCK
  BY ArenaAssumption DEF RightFence, HEADER, MIN_BLOCK, MIN_DATA
<1> HIDE DEF fence
<1>2. /\ DOMAIN n = DOMAIN m \cup new
      /\ n[base] = Tag(HEADER, "FENCEPOST", HEADER)
      /\ n[base + HEADER] = Tag(ARENA - 2 * HEADER, "UNALLOCATED", HEADER)
      /\ n[fence] = Tag(HEADER, "FENCEPOST", ARENA - 2 * HEADER)
      /\ \A a \in DOMAIN m \ new : n[a] = m[a]
  BY <1>1 DEF ChunkTags, Store, fence
<1>3. Typed(n)
  <2> HIDE DEF n
  <2>1. HEADER \in Nat
    BY DEF HEADER
  <2> QED  BY <2>1, <1>1, <1>2 DEF Typed, TagType, Tag, States
<1> QED  BY <1>1, <1>2, <1>3 DEF fence

\* An arena beyond the break leaves the heap in order.
LEMMA ChunkHeap ==
    ASSUME NEW m, NEW B, NEW end, Heap(m, B, end), NEW base \in Nat, end <= base
    PROVE  /\ Heap(ChunkTags(m, base), B \cup {base, base + HEADER, RightFence(base)}, base + ARENA)
           /\ \A a \in B : /\ a < base
                           /\ a \notin {base, base + HEADER, RightFence(base)}
                           /\ ChunkTags(m, base)[a] = m[a]
<1> DEFINE n == ChunkTags(m, base)
           block == base + HEADER
           fence == RightFence(base)
           new == {base, block, fence}
           free == ARENA - 2 * HEADER
<1>1. /\ Typed(n)
      /\ DOMAIN n = DOMAIN m \cup new
      /\ n[base] = Tag(HEADER, "FENCEPOST", HEADER)
      /\ n[block] = Tag(free, "UNALLOCATED", HEADER)
      /\ n[fence] = Tag(HEADER, "FENCEPOST", free)
      /\ \A a \in DOMAIN m \ new : n[a] = m[a]
      /\ fence \in Nat /\ block \in Nat /\ free \in Nat /\ free >= MIN_BLOCK
  BY ChunkHeaders DEF Heap
<1> HIDE DEF n
<1>2. /\ block = base + 2 /\ fence = block + free /\ fence + 2 = base + ARENA
      /\ base < block /\ block < fence /\ base + ARENA \in Nat /\ free >= 4
  BY <1>1, ArenaAssumption DEF RightFence, HEADER, MIN_BLOCK, MIN_DATA
<1>3. \A a \in B : /\ a \in Nat /\ a \in DOMAIN m /\ m[a].size \in Nat
                   /\ a + m[a].size <= base /\ a < base
  <2> SUFFICES ASSUME NEW a \in B
               PROVE  /\ a \in Nat /\ a \in DOMAIN m /\ m[a].size \in Nat
                      /\ a + m[a].size <= base /\ a < base
    OBVIOUS
  <2>1. a \in Nat /\ a \in DOMAIN m /\ m[a].size \in Nat /\ m[a].size >= 2 /\ end \in Nat
    BY HeaderType DEF HEADER, Heap
  <2>2. a + m[a].size <= end
    BY DEF Heap, Apart
  <2> QED  BY <2>1, <2>2
<1> HIDE DEF block, fence, free
<1>4. \A a \in B : a \notin new /\ n[a] = m[a]
  <2>1. \A a \in B : a # base /\ a # block /\ a # fence
    BY <1>1, <1>2, <1>3
  <2> QED  BY <2>1, <1>1, <1>3
<1>5. /\ n[base].size = 2 /\ n[base].left = 2 /\ n[base].state = "FENCEPOST"
      /\ n[block].size = free /\ n[block].left = 2 /\ n[block].state = "UNALLOCATED"
      /\ n[fence].size = 2 /\ n[fence].left = free /\ n[fence].state = "FENCEPOST"
  BY <1>1 DEF Tag, HEADER
<1>6. Apart(n, B \cup new, base + ARENA)
  <2>1. ASSUME NEW a \in B \cup new PROVE a + n[a].size <= base + ARENA
    BY <1>1, <1>2, <1>3, <1>4, <1>5
  <2>2. ASSUME NEW a \in B \cup new, NEW c \in B \cup new, a < c
        PROVE  a + n[a].size <= c
    <3>1. CASE a \in B /\ c \in B
      BY <3>1, <2>2, <1>4 DEF Heap, Apart
    <3>2. CASE a \in B /\ c \in new
      BY <3>2, <1>1, <1>2, <1>3, <1>4
    <3>3. CASE a \in new /\ c \in B
      BY <3>3, <2>2, <1>1, <1>2, <1>3
    <3>4. CASE a \in new /\ c \in new
      BY <3>4, <2>2, <1>1, <1>2, <1>5
    <3> QED  BY <3>1, <3>2, <3>3, <3>4
  <2> QED  BY <2>1, <2>2 DEF Apart
<1>7. Tiled(n, B \cup new)
  <2>1. B \cup new \subseteq DOMAIN n
    BY <1>1, <1>3
  <2>2. ASSUME NEW a \in B \cup new, IsFence(n, a) PROVE n[a].size = HEADER
    <3>1. CASE a \in B
      BY <3>1, <2>2, <1>4 DEF Heap, Tiled, IsFence
    <3>2. CASE a \in new
      BY <3>2, <2>2, <1>5 DEF IsFence, HEADER
    <3> QED  BY <3>1, <3>2
  <2>3. ASSUME NEW a \in B \cup new, ~IsFence(n, a)
        PROVE  /\ n[a].size >= MIN_BLOCK
               /\ RightHeader(n, a) \in B \cup new
               /\ n[RightHeader(n, a)].left = n[a].size
    <3>1. CASE a \in B
      <4>1. /\ m[a].size >= MIN_BLOCK /\ RightHeader(m, a) \in B
            /\ m[RightHeader(m, a)].left = m[a].size
            /\ RightHeader(n, a) = RightHeader(m, a) /\ n[a] = m[a]
        BY <3>1, <2>3, <1>4 DEF Heap, Tiled, IsFence, RightHeader
      <4> QED  BY <4>1, <1>4
    <3>2. CASE a \in new
      <4>1. a = block
        BY <3>2, <2>3, <1>5 DEF IsFence
      <4>2. RightHeader(n, a) = fence
        BY <4>1, <1>2, <1>5 DEF RightHeader
      <4> QED  BY <4>1, <4>2, <1>2, <1>5 DEF MIN_BLOCK, HEADER, MIN_DATA
    <3> QED  BY <3>1, <3>2
  <2>4. ASSUME NEW a \in B \cup new, ~IsLeftFence(n, a)
        PROVE  LeftHeader(n, a) \in B \cup new /\ n[LeftHeader(n, a)].size = n[a].left
    <3>1. CASE a \in B
      <4>1. /\ LeftHeader(m, a) \in B /\ m[LeftHeader(m, a)].size = m[a].left
            /\ LeftHeader(n, a) = LeftHeader(m, a) /\ n[a] = m[a]
        BY <3>1, <2>4, <1>4 DEF Heap, Tiled, IsLeftFence, IsFence, LeftHeader
      <4> QED  BY <4>1, <1>4
    <3>2. CASE a = block
      <4>1. LeftHeader(n, a) = base
        BY <3>2, <1>2, <1>5 DEF LeftHeader
      <4> QED  BY <4>1, <3>2, <1>5
    <3>3. CASE a = fence
      <4>1. LeftHeader(n, a) = block
        BY <3>3, <1>1, <1>2, <1>5 DEF LeftHeader
      <4> QED  BY <4>1, <3>3, <1>5
    <3>4. CASE a = base
      BY <3>4, <2>4, <1>5 DEF IsLeftFence, IsFence, HEADER
    <3> QED  BY <3>1, <3>2, <3>3, <3>4
  <2> QED  BY <2>1, <2>2, <2>3, <2>4 DEF Tiled
<1>8. Heap(n, B \cup new, base + ARENA)
  <2>1. B \cup new \subseteq Nat
    BY <1>1, <1>3
  <2> QED  BY <2>1, <1>1, <1>2, <1>6, <1>7 DEF Heap
<1> QED  BY <1>3, <1>4, <1>8 DEF n, block, fence

\* An arena of its own keeps the heap in order.
LEMMA ApartStep ==
    ASSUME Good, GrowApart
    PROVE  /\ InOrder(mem', links', blocks', held', brk')
           /\ RightFenceAt(mem', blocks', lastFence')
<1> DEFINE base  == brk + 1
           block == base + HEADER
           fence == RightFence(base)
           new   == {base, block, fence}
           n     == ChunkTags(mem, base)
<1>1. /\ Heap(mem, blocks, brk) /\ Linked(links, FreeIn(mem, blocks)) /\ LinksTyped(links)
      /\ base \in Nat /\ brk <= base
  BY DEF Good, InOrder, Heap
<1>2. /\ mem' = n /\ links' = InsertLinks(n, links, block)
      /\ blocks' = blocks \cup new /\ held' = held
      /\ brk' = base + ARENA /\ lastFence' = fence
  BY DEF GrowApart, TakeArena
<1>3. /\ Heap(n, blocks \cup new, base + ARENA)
      /\ \A a \in blocks : a < base /\ a \notin new /\ n[a] = mem[a]
  BY <1>1, ChunkHeap
<1>4. /\ DOMAIN n = DOMAIN mem \cup new
      /\ n[base] = Tag(HEADER, "FENCEPOST", HEADER)
      /\ n[block] = Tag(ARENA - 2 * HEADER, "UNALLOCATED", HEADER)
      /\ n[fence] = Tag(HEADER, "FENCEPOST", ARENA - 2 * HEADER)
      /\ \A a \in DOMAIN mem \ new : n[a] = mem[a]
      /\ fence \in Nat /\ block \in Nat
      /\ ARENA - 2 * HEADER \in Nat /\ ARENA - 2 * HEADER >= MIN_BLOCK
  BY <1>1, ChunkHeaders DEF Heap
<1>5. /\ n[base].state = "FENCEPOST" /\ n[block].state = "UNALLOCATED" /\ n[fence].state = "FENCEPOST"
      /\ n[block].size = ARENA - 2 * HEADER /\ n[fence].left = ARENA - 2 * HEADER
      /\ fence = block + (ARENA - 2 * HEADER)
  BY <1>1, <1>4, ArenaAssumption DEF Tag, RightFence, HEADER
<1> HIDE DEF n, block, fence, base
<1>6. FreeIn(n, blocks \cup new) = FreeIn(mem, blocks) \cup {block}
  BY <1>3, <1>5 DEF FreeIn, IsFree
<1>7. AllocIn(n, blocks \cup new) = AllocIn(mem, blocks)
  BY <1>3, <1>5 DEF AllocIn
<1>8. ASSUME NEW a \in FreeIn(n, blocks \cup new) PROVE ~IsFree(n, RightHeader(n, a))
  <2>1. CASE a = block
    BY <2>1, <1>5 DEF RightHeader, IsFree
  <2>2. CASE a # block
    <3>1. a \in FreeIn(mem, blocks) /\ a \in blocks /\ RightHeader(n, a) = RightHeader(mem, a)
      BY <2>2, <1>3, <1>6 DEF FreeIn, RightHeader
    <3>2. RightHeader(mem, a) \in blocks /\ ~IsFree(mem, RightHeader(mem, a))
      BY <3>1 DEF FreeIn, Good, InOrder, Heap, Tiled, IsFree, IsFence
    <3> QED  BY <3>1, <3>2, <1>3 DEF IsFree
  <2> QED  BY <2>1, <2>2
<1>9. /\ Linked(InsertLinks(n, links, block), FreeIn(n, blocks \cup new))
      /\ LinksTyped(InsertLinks(n, links, block))
  <2>1. block \notin DOMAIN links /\ Sentinels \subseteq DOMAIN links
    BY <1>1, <1>3, <1>4, SentinelsNegative DEF Linked, FreeIn
  <2>2. ListIndex(n[block].size) \in 0..(N_LISTS - 1)
    BY <1>4, <1>5, ListIndexRange
  <2>3. Linked(InsertLinks(n, links, block), FreeIn(mem, blocks) \cup {block})
    BY <2>1, <2>2, <1>1, LinkTailLinked DEF InsertLinks
  <2>4. LinksTyped(InsertLinks(n, links, block))
    BY <2>1, <2>2, <1>1, <1>4, ListsTyped DEF InsertLinks
  <2> QED  BY <2>3, <2>4, <1>6
<1>10. \A a \in DOMAIN n \ (blocks \cup new) : n[a].state # "ALLOCATED"
  BY <1>4 DEF Good, InOrder
<1>11. RightFenceAt(n, blocks \cup new, fence)
  BY <1>4, <1>5 DEF RightFenceAt, IsFence, MIN_BLOCK, HEADER, MIN_DATA
<1>12. InOrder(n, links', blocks \cup new, held', base + ARENA)
  BY <1>2, <1>3, <1>7, <1>8, <1>9, <1>10 DEF InOrder, Good
<1> QED  BY <1>2, <1>11, <1>12

\* An arena merged into a free last block keeps the heap in order.
LEMMA MergeStep ==
    ASSUME Good, GrowMerge
    PROVE  /\ InOrder(mem', links', blocks', held', brk')
           /\ RightFenceAt(mem', blocks', lastFence')
<1> DEFINE base   == brk
           left   == LeftHeader(mem, lastFence)
           fence  == RightFence(base)
           merged == fence - left
           n0 == ChunkTags(mem, base)
           n1 == Store(n0, left, Tag(merged, "UNALLOCATED", mem[left].left))
           n2 == SetLeft(n1, fence, merged)
           n  == InsertMem(n2, left)
           B  == (blocks \ {lastFence}) \cup {fence}
           end == base + ARENA
<1>1. /\ Heap(mem, blocks, brk) /\ Linked(links, FreeIn(mem, blocks)) /\ LinksTyped(links)
      /\ base \in Nat /\ lastFence + HEADER = base
      /\ lastFence \in blocks /\ IsFence(mem, lastFence) /\ mem[lastFence].left # HEADER
      /\ left \in DOMAIN mem /\ mem[left].state # "ALLOCATED"
  BY DEF Good, InOrder, Heap, GrowMerge, RightFenceAt
<1>2. /\ left \in blocks /\ mem[left].size = mem[lastFence].left /\ IsFree(mem, left)
      /\ left \in FreeIn(mem, blocks)
  <2>1. left \in blocks /\ mem[left].size = mem[lastFence].left
    BY <1>1 DEF Heap, Tiled, IsLeftFence
  <2>2. ~IsFence(mem, left)
    BY <2>1, <1>1 DEF Heap, Tiled
  <2>3. mem[left].state \in States
    BY <2>1, <1>1, HeaderType
  <2> QED  BY <2>1, <2>2, <2>3, <1>1 DEF States, IsFence, IsFree, FreeIn
<1>3. /\ mem' = n /\ links' = InsertLinks(n2, Unlink(links, left), left)
      /\ blocks' = B /\ held' = held /\ brk' = end /\ lastFence' = fence
  BY DEF GrowMerge, TakeArena
<1>4. /\ left \in Nat /\ lastFence \in Nat /\ mem[left].size \in Nat /\ mem[left].size >= MIN_BLOCK
      /\ left + mem[left].size = lastFence /\ mem[left].left \in Nat
      /\ blocks \subseteq DOMAIN mem
  <2>1. /\ left \in Nat /\ lastFence \in Nat /\ mem[left].size \in Nat /\ mem[left].left \in Nat
        /\ mem[lastFence].left \in Nat
    BY <1>1, <1>2, HeaderType
  <2>2. mem[left].size >= MIN_BLOCK /\ blocks \subseteq DOMAIN mem
    BY <1>1, <1>2 DEF Heap, Tiled, IsFree, IsFence
  <2> QED  BY <2>1, <2>2, <1>2 DEF LeftHeader
<1>5. /\ DOMAIN n0 = DOMAIN mem \cup {base, base + HEADER, fence}
      /\ n0[base].state # "ALLOCATED" /\ n0[base + HEADER].state # "ALLOCATED"
      /\ n0[fence] = Tag(HEADER, "FENCEPOST", ARENA - 2 * HEADER)
      /\ \A a \in DOMAIN mem \ {base, base + HEADER, fence} : n0[a] = mem[a]
      /\ fence \in Nat /\ Typed(n0)
  <2>1. Typed(mem)
    BY <1>1 DEF Heap
  <2>2. /\ Typed(n0)
        /\ DOMAIN n0 = DOMAIN mem \cup {base, base + HEADER, fence}
        /\ n0[base] = Tag(HEADER, "FENCEPOST", HEADER)
        /\ n0[base + HEADER] = Tag(ARENA - 2 * HEADER, "UNALLOCATED", HEADER)
        /\ n0[fence] = Tag(HEADER, "FENCEPOST", ARENA - 2 * HEADER)
        /\ \A a \in DOMAIN mem \ {base, base + HEADER, fence} : n0[a] = mem[a]
        /\ fence \in Nat
    BY <2>1, <1>1, ChunkHeaders
  <2> HIDE DEF n0, fence, base
  <2> QED  BY <2>2 DEF Tag
<1>6. /\ fence + 2 = end /\ lastFence + 2 = base /\ base + 4 < fence /\ end \in Nat
      /\ merged \in Nat /\ merged = mem[left].size + (fence - lastFence)
      /\ merged >= MIN_BLOCK /\ merged # HEADER /\ left + merged = fence
      /\ left < lastFence /\ fence # left
  BY <1>1, <1>4, ArenaAssumption DEF RightFence, HEADER, MIN_BLOCK, MIN_DATA
<1> HIDE DEF n0, left, fence, merged, base
<1>7. \A a \in blocks : /\ a \in Nat /\ mem[a].size \in Nat /\ a \in DOMAIN mem
                        /\ a + mem[a].size <= base
                        /\ a < base
                        /\ a < left => a + mem[a].size <= left
                        /\ left < a => lastFence <= a
                        /\ a < lastFence => a + mem[a].size <= lastFence
                        /\ lastFence < a => FALSE
  <2> SUFFICES ASSUME NEW a \in blocks
               PROVE  /\ a \in Nat /\ mem[a].size \in Nat /\ a \in DOMAIN mem
                      /\ a + mem[a].size <= base
                      /\ a < base
                      /\ a < left => a + mem[a].size <= left
                      /\ left < a => lastFence <= a
                      /\ a < lastFence => a + mem[a].size <= lastFence
                      /\ lastFence < a => FALSE
    OBVIOUS
  <2>1. /\ a \in Nat /\ mem[a].size \in Nat /\ mem[a].size >= 2 /\ a \in DOMAIN mem
    BY <1>1, HeaderType DEF HEADER
  <2>2. /\ a + mem[a].size <= base
        /\ a < left => a + mem[a].size <= left
        /\ left < a => left + mem[left].size <= a
        /\ a < lastFence => a + mem[a].size <= lastFence
        /\ lastFence < a => lastFence + mem[lastFence].size <= a
    BY <1>1, <1>2 DEF Heap, Apart, base
  <2>3. mem[lastFence].size = 2
    BY <1>1 DEF Heap, Tiled, HEADER
  <2> QED  BY <2>1, <2>2, <2>3, <1>1, <1>4, <1>6
<1>8. /\ DOMAIN n1 = DOMAIN n0
      /\ n1[left] = Tag(merged, "UNALLOCATED", mem[left].left)
      /\ \A a \in DOMAIN n0 \ {left} : n1[a] = n0[a]
  <2>1. left \in DOMAIN n0
    BY <1>1, <1>5
  <2> QED  BY <2>1 DEF Store
<1> HIDE DEF n1
<1>9. /\ DOMAIN n2 = DOMAIN n0
      /\ n2[left] = Tag(merged, "UNALLOCATED", mem[left].left)
      /\ n2[fence] = Tag(HEADER, "FENCEPOST", merged)
      /\ \A a \in DOMAIN n0 \ {left, fence} : n2[a] = n0[a]
  <2>1. fence \in DOMAIN n0 /\ left \in DOMAIN n0
    BY <1>1, <1>5
  <2>2. n1[fence] = Tag(HEADER, "FENCEPOST", ARENA - 2 * HEADER)
    BY <2>1, <1>5, <1>6, <1>8
  <2> QED  BY <2>1, <2>2, <1>6, <1>8 DEF SetLeft, Tag
<1> HIDE DEF n2
<1>10. \A a \in blocks \ {left} : a # fence /\ n2[a] = mem[a]
  <2> SUFFICES ASSUME NEW a \in blocks \ {left} PROVE a # fence /\ n2[a] = mem[a]
    OBVIOUS
  <2>1. a \in DOMAIN mem /\ a \in Nat /\ a < base
    BY <1>7
  <2>2. a \notin {base, base + HEADER, fence} /\ a \in DOMAIN n0
    BY <2>1, <1>1, <1>5, <1>6 DEF HEADER
  <2> QED  BY <2>1, <2>2, <1>5, <1>9
<1>11. /\ n2[left].size = merged /\ n2[left].state = "UNALLOCATED" /\ n2[left].left = mem[left].left
       /\ n2[fence].size = 2 /\ n2[fence].state = "FENCEPOST" /\ n2[fence].left = merged
  BY <1>9 DEF Tag, HEADER
<1>12. Typed(n2)
  <2>1. Tag(merged, "UNALLOCATED", mem[left].left) \in TagType
        /\ Tag(HEADER, "FENCEPOST", merged) \in TagType
    BY <1>4, <1>6 DEF TagType, Tag, States, HEADER
  <2> QED  BY <2>1, <1>5, <1>9 DEF Typed
<1>13. Apart(n2, B, end)
  <2>1. ASSUME NEW a \in B PROVE a + n2[a].size <= end
    <3>1. CASE a = left
      BY <3>1, <1>4, <1>5, <1>6, <1>11
    <3>2. CASE a = fence
      BY <3>2, <1>6, <1>11
    <3>3. CASE a # left /\ a # fence
      <4>1. a \in blocks /\ n2[a] = mem[a]
        BY <3>3, <1>10
      <4> QED  BY <4>1, <1>1, <1>5, <1>6, <1>7
    <3> QED  BY <3>1, <3>2, <3>3
  <2>2. ASSUME NEW a \in B, NEW c \in B, a < c PROVE a + n2[a].size <= c
    <3>1. CASE c = fence
      <4>1. CASE a = left
        BY <4>1, <3>1, <1>4, <1>6, <1>11
      <4>2. CASE a # left
        <5>1. a \in blocks /\ n2[a] = mem[a]
          BY <4>2, <3>1, <2>2, <1>5, <1>10
        <5> QED  BY <5>1, <3>1, <1>1, <1>5, <1>6, <1>7
      <4> QED  BY <4>1, <4>2
    <3>2. CASE c # fence
      <4>1. c \in blocks /\ c # lastFence
        BY <3>2
      <4>2. a # fence
        BY <4>1, <2>2, <1>1, <1>5, <1>6, <1>7
      <4>3. a \in blocks /\ a # left
        <5>1. a # left
          BY <4>1, <2>2, <1>4, <1>7
        <5> QED  BY <5>1, <4>2
      <4>4. a + mem[a].size <= c
        BY <4>1, <4>3, <2>2, <1>1 DEF Heap, Apart
      <4> QED  BY <4>3, <4>4, <1>10
    <3> QED  BY <3>1, <3>2
  <2> QED  BY <2>1, <2>2 DEF Apart
<1>14. Tiled(n2, B)
  <2>1. B \subseteq DOMAIN n2
    BY <1>5, <1>7, <1>9
  <2>2. ASSUME NEW a \in B, IsFence(n2, a) PROVE n2[a].size = HEADER
    <3>1. CASE a = fence
      BY <3>1, <1>11 DEF HEADER
    <3>2. CASE a # fence
      <4>1. a # left
        BY <2>2, <1>11 DEF IsFence
      <4>2. a \in blocks /\ n2[a] = mem[a]
        BY <3>2, <4>1, <1>10
      <4> QED  BY <4>2, <2>2, <1>1 DEF Heap, Tiled, IsFence
    <3> QED  BY <3>1, <3>2
  <2>3. ASSUME NEW a \in B, ~IsFence(n2, a)
        PROVE  /\ n2[a].size >= MIN_BLOCK
               /\ RightHeader(n2, a) \in B
               /\ n2[RightHeader(n2, a)].left = n2[a].size
    <3>1. CASE a = left
      <4>1. RightHeader(n2, a) = fence
        BY <3>1, <1>6, <1>11 DEF RightHeader
      <4> QED  BY <4>1, <3>1, <1>6, <1>11
    <3>2. CASE a # left
      <4>1. a \in blocks /\ n2[a] = mem[a]
        BY <3>2, <2>3, <1>10, <1>11 DEF IsFence
      <4>2. /\ mem[a].size >= MIN_BLOCK /\ RightHeader(mem, a) \in blocks
            /\ mem[RightHeader(mem, a)].left = mem[a].size
            /\ RightHeader(n2, a) = RightHeader(mem, a)
        BY <4>1, <2>3, <1>1 DEF Heap, Tiled, IsFence, RightHeader
      <4>3. RightHeader(mem, a) # lastFence
        <5>1. mem[lastFence].left = mem[left].size
          BY <1>2
        <5> QED  BY <5>1, <4>1, <4>2, <3>2, <1>4, <1>7 DEF RightHeader
      <4>4. n2[RightHeader(mem, a)].left = mem[RightHeader(mem, a)].left
        BY <4>2, <1>10, <1>11
      <4> QED  BY <4>1, <4>2, <4>3, <4>4
    <3> QED  BY <3>1, <3>2
  <2>4. ASSUME NEW a \in B, ~IsLeftFence(n2, a)
        PROVE  LeftHeader(n2, a) \in B /\ n2[LeftHeader(n2, a)].size = n2[a].left
    <3>1. CASE a = fence
      <4>1. LeftHeader(n2, a) = left
        BY <3>1, <1>4, <1>5, <1>6, <1>11 DEF LeftHeader
      <4>2. left \in B
        BY <1>2, <1>4, <1>6
      <4> QED  BY <4>1, <4>2, <3>1, <1>11
    <3>2. CASE a # fence
      <4>1. a \in blocks /\ a # lastFence /\ n2[a].left = mem[a].left
        BY <3>2, <1>10, <1>11
      <4>2. /\ LeftHeader(mem, a) \in blocks /\ mem[LeftHeader(mem, a)].size = mem[a].left
            /\ LeftHeader(n2, a) = LeftHeader(mem, a)
        <5>1. ~IsLeftFence(mem, a)
          <6>1. CASE a = left
            BY <6>1, <1>2 DEF IsLeftFence, IsFence, IsFree
          <6>2. CASE a # left
            BY <6>2, <4>1, <2>4, <1>10 DEF IsLeftFence, IsFence
          <6> QED  BY <6>1, <6>2
        <5> QED  BY <5>1, <4>1, <1>1 DEF Heap, Tiled, LeftHeader
      <4>3. a \in Nat /\ mem[a].left \in Nat /\ a < lastFence
        <5>1. a \in Nat /\ mem[a].left \in Nat
          BY <4>1, <1>1, HeaderType
        <5> QED  BY <5>1, <4>1, <1>4, <1>7
      <4>4. LeftHeader(mem, a) # lastFence /\ LeftHeader(mem, a) # left
        <5>1. LeftHeader(mem, a) <= a
          BY <4>3 DEF LeftHeader
        <5>2. LeftHeader(mem, a) = left => a = lastFence
          BY <4>2, <4>3, <1>4 DEF LeftHeader
        <5> QED  BY <5>1, <5>2, <4>1, <4>2, <4>3, <1>4, <1>7
      <4> QED  BY <4>1, <4>2, <4>4, <1>10
    <3> QED  BY <3>1, <3>2
  <2> QED  BY <2>1, <2>2, <2>3, <2>4 DEF Tiled
<1>15. Heap(n2, B, end)
  <2>1. B \subseteq Nat
    BY <1>5, <1>7
  <2> QED  BY <2>1, <1>6, <1>12, <1>13, <1>14 DEF Heap
<1>16. left \in B /\ FreeIn(n2, B) = FreeIn(mem, blocks) /\ AllocIn(n2, B) = AllocIn(mem, blocks)
  <2>1. left \in B
    BY <1>2, <1>4, <1>6
  <2>2. \A a \in B \ {left, fence} : a \in blocks /\ a # lastFence /\ n2[a] = mem[a]
    BY <1>10
  <2>3. \A a \in blocks \ {left, lastFence} : a \in B \ {left, fence}
    BY <1>10
  <2>4. ~IsFree(mem, lastFence) /\ mem[lastFence].state # "ALLOCATED"
    BY <1>1 DEF IsFence, IsFree
  <2>5. left \in blocks /\ IsFree(mem, left) /\ mem[left].state # "ALLOCATED"
    BY <1>1, <1>2
  <2> HIDE DEF B
  <2>6. FreeIn(n2, B) = FreeIn(mem, blocks)
    BY <2>1, <2>2, <2>3, <2>4, <2>5, <1>11 DEF FreeIn, IsFree
  <2>7. AllocIn(n2, B) = AllocIn(mem, blocks)
    BY <2>1, <2>2, <2>3, <2>4, <2>5, <1>11 DEF AllocIn
  <2> QED  BY <2>1, <2>6, <2>7
<1>17. Freeing(n2, Unlink(links, left), B, held, end, left)
  <2>1. left \notin Sentinels /\ Sentinels \subseteq DOMAIN links /\ left \in DOMAIN links
    BY <1>1, <1>2, <1>4, SentinelsNegative DEF Linked
  <2>2. Linked(Unlink(links, left), FreeIn(n2, B) \ {left}) /\ LinksTyped(Unlink(links, left))
    <3>1. Linked(Unlink(links, left), FreeIn(mem, blocks) \ {left})
      BY <2>1, <1>1, <1>2, UnlinkLinked
    <3>2. LinksTyped(Unlink(links, left))
      BY <2>1, <1>1, <1>4, ListsTyped
    <3> QED  BY <3>1, <3>2, <1>16
  <2>3. ASSUME NEW a \in FreeIn(n2, B), a # left PROVE ~IsFree(n2, RightHeader(n2, a))
    <3>1. a \in FreeIn(mem, blocks) /\ a \in blocks /\ n2[a] = mem[a] /\ a # lastFence
      BY <2>3, <1>1, <1>10, <1>16 DEF FreeIn, IsFree, IsFence
    <3>2. RightHeader(mem, a) \in blocks /\ ~IsFree(mem, RightHeader(mem, a))
          /\ RightHeader(n2, a) = RightHeader(mem, a)
      BY <3>1 DEF FreeIn, Good, InOrder, Heap, Tiled, IsFree, IsFence, RightHeader
    <3> QED  BY <3>2, <1>2, <1>10 DEF IsFree
  <2>4. \A a \in DOMAIN n2 \ B : n2[a].state # "ALLOCATED"
    <3> SUFFICES ASSUME NEW a \in DOMAIN n2 \ B PROVE n2[a].state # "ALLOCATED"
      OBVIOUS
    <3>1. a # left /\ a # fence /\ n2[a] = n0[a]
      BY <1>9, <1>16
    <3>2. CASE a \in {base, base + HEADER}
      BY <3>1, <3>2, <1>5
    <3>3. CASE a \notin {base, base + HEADER}
      <4>1. a \in DOMAIN mem /\ n2[a] = mem[a]
        BY <3>1, <3>3, <1>5, <1>9
      <4>2. a = lastFence \/ a \notin blocks
        BY <3>1
      <4> QED  BY <4>1, <4>2, <1>1 DEF Good, InOrder, IsFence
    <3> QED  BY <3>2, <3>3
  <2>5. held = AllocIn(n2, B)
    BY <1>16 DEF Good, InOrder
  <2>6. IsFree(n2, left)
    BY <1>11 DEF IsFree
  <2> QED  BY <2>2, <2>3, <2>4, <2>5, <2>6, <1>15, <1>16 DEF Freeing
<1>18. ~IsFree(n2, RightHeader(n2, left))
  BY <1>6, <1>11 DEF IsFree, RightHeader
<1>19. \A a \in FreeIn(n2, B) : RightHeader(n2, a) # left
  <2> SUFFICES ASSUME NEW a \in FreeIn(n2, B), RightHeader(n2, a) = left PROVE FALSE
    OBVIOUS
  <2>1. a # left
    BY <1>4, <1>6, <1>11 DEF RightHeader, MIN_BLOCK, HEADER, MIN_DATA
  <2>2. a \in FreeIn(mem, blocks) /\ a \in blocks /\ n2[a] = mem[a]
    BY <2>1, <1>10, <1>16 DEF FreeIn
  <2>3. RightHeader(mem, a) = left
    BY <2>2 DEF RightHeader
  <2> QED  BY <2>2, <2>3, <1>2 DEF Good, InOrder
<1>20. InOrder(n, links', B, held, end)
  BY <1>3, <1>17, <1>18, <1>19, FinishFreeing
<1>21. RightFenceAt(n, B, fence)
  <2>1. left + MIN_BLOCK \in Nat /\ left + MIN_BLOCK <= left + n2[left].size
    BY <1>4, <1>6, <1>11 DEF MIN_BLOCK, HEADER, MIN_DATA
  <2>2. B \subseteq DOMAIN n /\ \A a \in DOMAIN n : n[a] = n2[a]
    BY <2>1, <1>15, <1>16, ClobberHeap DEF InsertMem
  <2> QED  BY <2>2, <1>6, <1>11 DEF RightFenceAt, IsFence
<1> QED  BY <1>3, <1>20, <1>21

-----------------------------------------------------------------------------
(* The invariant holds at the start and every step keeps it.               *)

\* init leaves the heap in order.
LEMMA InitGood == Init => HeapInv
<1> SUFFICES ASSUME Init PROVE HeapInv
  OBVIOUS
<1> DEFINE block == BASE + HEADER
           fence == RightFence(BASE)
           last  == Sentinel(N_LISTS - 1)
           empty == <<>>
<1>1. Typed(empty) /\ Heap(empty, {}, BASE) /\ BASE \in Nat /\ BASE <= BASE
  BY DEF Typed, Heap, Tiled, Apart, BASE
<1>2. Heap(mem, blocks, brk)
  <2>1. Heap(ChunkTags(empty, BASE), {} \cup {BASE, block, fence}, BASE + ARENA)
    BY <1>1, ChunkHeap
  <2> QED  BY <2>1 DEF Init
<1>3. /\ DOMAIN mem = blocks
      /\ blocks = {BASE, block, fence}
      /\ mem[BASE].state = "FENCEPOST" /\ mem[block].state = "UNALLOCATED"
      /\ mem[fence].state = "FENCEPOST" /\ mem[fence].left >= MIN_BLOCK
      /\ mem[block].size = ARENA - 2 * HEADER
      /\ block \in Nat
  <2>1. /\ mem = ChunkTags(empty, BASE) /\ blocks = {BASE, block, fence}
    BY DEF Init
  <2>2. /\ DOMAIN mem = DOMAIN empty \cup {BASE, block, fence}
        /\ mem[BASE] = Tag(HEADER, "FENCEPOST", HEADER)
        /\ mem[block] = Tag(ARENA - 2 * HEADER, "UNALLOCATED", HEADER)
        /\ mem[fence] = Tag(HEADER, "FENCEPOST", ARENA - 2 * HEADER)
        /\ block \in Nat /\ ARENA - 2 * HEADER >= MIN_BLOCK
    BY <2>1, <1>1, ChunkHeaders
  <2> HIDE DEF block, fence
  <2> QED  BY <2>1, <2>2 DEF Tag
<1>4. last \in Sentinels /\ last # block /\ last \in Int
  <2>1. last \in Sentinels
    BY ListsAssumption DEF Sentinels
  <2> QED  BY <2>1, <1>3, SentinelsNegative
<1>5. /\ DOMAIN links = Sentinels \cup {block}
      /\ links[block] = [next |-> last, prev |-> last]
      /\ links[last] = [next |-> block, prev |-> block]
      /\ \A x \in Sentinels \ {last} : links[x] = [next |-> x, prev |-> x]
  <2>1. links = [x \in Sentinels \cup {block} |->
                   CASE x = block -> [next |-> last, prev |-> last]
                     [] x = last  -> [next |-> block, prev |-> block]
                     [] OTHER     -> [next |-> x, prev |-> x]]
    BY DEF Init
  <2>2. block \notin Sentinels
    BY <1>3, SentinelsNegative
  <2> HIDE DEF block, last
  <2> QED  BY <2>1, <2>2, <1>4
<1>6. fence = block + (ARENA - 2 * HEADER)
  BY ArenaAssumption DEF RightFence, HEADER, BASE
<1>7. block \notin Sentinels
  BY <1>3, SentinelsNegative
<1>8. want = 0 /\ held = {} /\ seam = FALSE /\ fault = "none" /\ chunks = <<BASE>>
      /\ lastFence = fence
  BY DEF Init
<1> HIDE DEF block, fence, last
<1>9. block # BASE /\ block # fence
  BY <1>3
<1>10. FreeIn(mem, blocks) = {block} /\ AllocIn(mem, blocks) = {}
  BY <1>3 DEF FreeIn, AllocIn, IsFree
<1>11. Linked(links, {block}) /\ LinksTyped(links)
  <2>1. Linked(links, {block})
    <3>1. /\ links[block].next = last /\ links[block].prev = last
          /\ links[last].next = block /\ links[last].prev = block
          /\ \A x \in Sentinels \ {last} : links[x].next = x /\ links[x].prev = x
      BY <1>5
    <3>2. ASSUME NEW x \in DOMAIN links
          PROVE  /\ links[x].next \in DOMAIN links /\ links[links[x].next].prev = x
                 /\ links[x].prev \in DOMAIN links /\ links[links[x].prev].next = x
      BY <3>1, <1>4, <1>5
    <3> QED  BY <3>2, <1>5 DEF Linked
  <2>2. \A x \in DOMAIN links : x \in Int
    BY <1>3, <1>5, SentinelsNegative
  <2>3. ASSUME NEW x \in DOMAIN links PROVE links[x] \in [next : Int, prev : Int]
    <3>1. CASE x = block
      BY <3>1, <1>4, <1>5
    <3>2. CASE x = last
      BY <3>2, <1>3, <1>5
    <3>3. CASE x \notin {block, last}
      BY <3>3, <2>2, <1>5
    <3> QED  BY <3>1, <3>2, <3>3
  <2>4. LinksTyped(links)
    BY <2>2, <2>3 DEF LinksTyped
  <2> QED  BY <2>1, <2>4
<1>12. \A b \in FreeIn(mem, blocks) : ~IsFree(mem, RightHeader(mem, b))
  BY <1>3, <1>6, <1>10 DEF IsFree, RightHeader
<1>13. InOrder(mem, links, blocks, held, brk)
  BY <1>2, <1>3, <1>8, <1>10, <1>11, <1>12 DEF InOrder
<1>14. RightFenceAt(mem, blocks, lastFence)
  BY <1>3, <1>8 DEF RightFenceAt, IsFence, MIN_BLOCK, MIN_DATA, HEADER
<1>15. chunks \in Seq(Nat) /\ Len(chunks) <= MAX_OS_CHUNKS
  BY <1>1, <1>8, ChunksAssumption
<1> QED  BY <1>8, <1>13, <1>14, <1>15 DEF HeapInv, Good

\* osChunkList never holds more than MAX_OS_CHUNKS headers.
LEMMA ChunksTyped ==
    ASSUME chunks \in Seq(Nat), Len(chunks) <= MAX_OS_CHUNKS, NEW base \in Nat
    PROVE  InsertChunk(base) \in Seq(Nat) /\ Len(InsertChunk(base)) <= MAX_OS_CHUNKS
BY ChunksAssumption DEF InsertChunk

\* Every step of the allocator keeps the invariant.
\* A listed block of a heap in order has no other block inside it.
LEMMA NothingInside ==
    ASSUME InOrder(mem, links, blocks, held, brk), NEW b \in DOMAIN links, Fits(b, want)
    PROVE  ~Shared(b)
<1>1. b \in blocks
  BY DEF InOrder, Linked, FreeIn, Fits, Heap, Typed, Sentinels, Sentinel
<1>2. /\ \A c \in blocks : b < c => b + mem[b].size <= c
      /\ b \in Nat /\ mem[b].size \in Nat /\ blocks \subseteq Nat
  BY <1>1 DEF InOrder, Heap, Tiled, Apart, Typed, TagType
<1> QED  BY <1>2 DEF Shared

LEMMA NextGood == HeapInv /\ [Next]_vars => HeapInv'
<1> SUFFICES ASSUME HeapInv, [Next]_vars PROVE HeapInv'
  OBVIOUS
<1>1. CASE UNCHANGED vars
  BY <1>1 DEF vars, heapVars, arenaVars, HeapInv, Good
<1>2. ASSUME Next, seam PROVE HeapInv'
  <2>1. seam' = TRUE
    BY <1>2 DEF Next, CallMalloc, Allocate, Fit, GrowFails, GrowApart, GrowMerge, GrowSeam,
       GrowWild, Free, InvalidFree, arenaVars, HeapInv
  <2> QED  BY <2>1 DEF HeapInv
<1>3. ASSUME ~seam, Next PROVE HeapInv'
  <2>1. Good
    BY <1>3 DEF HeapInv
  <2>2. ASSUME NEW raw \in Requests, CallMalloc(raw) PROVE HeapInv'
    <3>1. Total(raw) \in Nat /\ Total(raw) >= MIN_BLOCK
      <4>1. raw \in Nat
        BY RequestsAssumption
      <4>2. (raw + 7) \div 8 \in Nat
        BY <4>1
      <4> QED  BY <4>2 DEF Total, MIN_BLOCK, HEADER, MIN_DATA
    <3>2. want' = Total(raw) /\ UNCHANGED <<mem, links, blocks, lastFence, chunks, brk, seam, held, fault>>
      BY <2>2 DEF CallMalloc, heapVars, arenaVars
    <3> QED  BY <3>1, <3>2, <2>1, <1>3 DEF HeapInv, Good
  <2>3. ASSUME Fit PROVE HeapInv'
    <3>1. /\ UNCHANGED <<lastFence, chunks, brk, seam>>
          /\ want # 0 /\ want' = 0
      BY <2>3 DEF Fit, ReturnBlock, arenaVars
    <3>2. PICK b \in DOMAIN links : /\ Fits(b, want) /\ (SplitFit(b) \/ WholeFit(b))
                                    /\ held' = held \cup {b}
                                    /\ fault' = IF Shared(b) THEN "shared" ELSE fault
      BY <2>3 DEF Fit, ReturnBlock
    <3>4. fault' = fault
      BY <3>2, <2>1, NothingInside DEF Good
    <3>3. InOrder(mem', links', blocks', held', brk') /\ RightFenceAt(mem', blocks', lastFence)
      BY <3>1, <3>2, <2>1, SplitStep, WholeStep
    <3> QED  BY <3>1, <3>3, <3>4, <2>1 DEF HeapInv, Good
  <2>4. CASE GrowFails
    BY <2>4, <2>1, <1>3 DEF GrowFails, HeapInv, Good, heapVars, arenaVars
  <2>5. ASSUME GrowApart PROVE HeapInv'
    <3>1. InOrder(mem', links', blocks', held', brk') /\ RightFenceAt(mem', blocks', lastFence')
      BY <2>5, <2>1, ApartStep
    <3>2. chunks' = InsertChunk(brk + 1) /\ UNCHANGED <<want, seam, fault>> /\ brk + 1 \in Nat
      BY <2>1, <2>5 DEF GrowApart, TakeArena, Good, InOrder, Heap
    <3> QED  BY <3>1, <3>2, <2>1, <1>3, ChunksTyped DEF HeapInv, Good
  <2>6. ASSUME GrowMerge PROVE HeapInv'
    <3>1. InOrder(mem', links', blocks', held', brk') /\ RightFenceAt(mem', blocks', lastFence')
      BY <2>6, <2>1, MergeStep
    <3>2. chunks' = InsertChunk(brk) /\ UNCHANGED <<want, seam, fault>> /\ brk \in Nat
      BY <2>1, <2>6 DEF GrowMerge, TakeArena, Good, InOrder, Heap
    <3> QED  BY <3>1, <3>2, <2>1, <1>3, ChunksTyped DEF HeapInv, Good
  <2>7. CASE GrowSeam
    BY <2>7 DEF GrowSeam, HeapInv
  <2>8. ASSUME GrowWild PROVE FALSE
    <3> DEFINE left == LeftHeader(mem, lastFence)
    <3>1. StatesAt(mem, left) # {"ALLOCATED"} /\ left \notin DOMAIN links
      BY <2>8 DEF GrowWild
    <3>2. /\ left \in blocks /\ mem[left].size = mem[lastFence].left
          /\ mem[lastFence].left # HEADER
      BY <2>1 DEF Good, InOrder, Heap, Tiled, RightFenceAt, IsLeftFence
    <3>3. left \in DOMAIN mem /\ mem[left].state \in States /\ ~IsFence(mem, left)
      BY <3>2, <2>1, HeaderType DEF Good, InOrder, Heap, Tiled
    <3>4. IsFree(mem, left)
      BY <3>1, <3>3 DEF StatesAt, IsFence, IsFree, States
    <3> QED  BY <3>1, <3>2, <3>4, <2>1 DEF Good, InOrder, Linked, FreeIn
  <2>9. ASSUME NEW h \in held, Free(h) PROVE HeapInv'
    <3>1. seam' = seam
      BY <2>9 DEF Free, arenaVars
    <3> QED  BY <3>1, <2>1, <2>9, <1>3, FreeStep DEF HeapInv
  <2>10. ASSUME NEW p \in DOMAIN mem, InvalidFree(p) PROVE HeapInv'
    <3>1. mem[p].state # "ALLOCATED"
      BY <2>1, <2>10 DEF InvalidFree, Good, InOrder, AllocIn
    <3>2. fault' = "aborted" /\ UNCHANGED <<mem, links, blocks, lastFence, chunks, brk, seam, held, want>>
      BY <3>1, <2>10 DEF InvalidFree, heapVars, arenaVars
    <3> QED  BY <3>2, <2>1, <1>3 DEF HeapInv, Good
  <2> QED  BY <1>3, <2>2, <2>3, <2>4, <2>5, <2>6, <2>7, <2>8, <2>9, <2>10 DEF Next, Allocate
<1>4. seam \in BOOLEAN
  BY DEF HeapInv
<1> QED  BY <1>1, <1>2, <1>3, <1>4

-----------------------------------------------------------------------------
(* The client's view: every step of a heap in order is a step of           *)
(* AbstractHeap or none.                                                   *)

Regions == [p \in {h + HEADER : h \in held} |-> mem[p - HEADER].size - HEADER]
Asked   == IF want = 0 THEN 0 ELSE want - HEADER

\* The clients' blocks: no two overlap, none passes the break, and each is a
\* header of at least HEADER words.
HeldApart(m, H, end) ==
    /\ H \subseteq Nat
    /\ \A h \in H : m[h].size \in Nat /\ m[h].size >= HEADER
    /\ \A h \in H : h + m[h].size <= end
    /\ \A h \in H, g \in H : h < g => h + m[h].size <= g

\* The break never passes the bound on the heap.
BreakBounded == brk \in Nat /\ brk <= HeapLimit

\* What a heap in order says of the blocks clients hold.
LEMMA HeldBlocks ==
    ASSUME NEW m, NEW L, NEW B, NEW H, NEW end, InOrder(m, L, B, H, end)
    PROVE  /\ H \subseteq B /\ B \subseteq DOMAIN m
           /\ \A h \in H : m[h].state = "ALLOCATED"
           /\ HeldApart(m, H, end)
<1>1. H \subseteq B /\ B \subseteq DOMAIN m /\ \A h \in H : m[h].state = "ALLOCATED"
  BY DEF InOrder, AllocIn, Heap, Tiled
<1>2. Heap(m, B, end)
  BY DEF InOrder
<1>3. \A h \in H : h \in Nat /\ m[h].size \in Nat /\ m[h].size >= HEADER
  BY <1>1, <1>2, HeaderType
<1>4. \A h \in H : h + m[h].size <= end
  BY <1>1, <1>2 DEF Heap, Apart
<1>5. \A h \in H, g \in H : h < g => h + m[h].size <= g
  BY <1>1, <1>2 DEF Heap, Apart
<1> QED  BY <1>1, <1>3, <1>4, <1>5 DEF HeldApart

\* A left size can be set without changing a size.
LEMMA LeftStays ==
    ASSUME NEW m, Typed(m), NEW h, NEW n \in Nat
    PROVE  /\ DOMAIN SetLeft(m, h, n) = DOMAIN m
           /\ \A a \in DOMAIN m : SetLeft(m, h, n)[a].size = m[a].size
           /\ Typed(SetLeft(m, h, n))
<1>1. \A a \in DOMAIN m : m[a] \in TagType
  BY DEF Typed
<1>2. /\ DOMAIN SetLeft(m, h, n) = DOMAIN m
      /\ \A a \in DOMAIN m : SetLeft(m, h, n)[a].size = m[a].size
  BY <1>1 DEF SetLeft, Tag
<1>3. Typed(SetLeft(m, h, n))
  BY <1>1 DEF SetLeft, Tag, Typed, TagType
<1> QED  BY <1>2, <1>3

\* A state can be set without changing a size.
LEMMA StateStays ==
    ASSUME NEW m, Typed(m), NEW h, NEW s \in States
    PROVE  /\ DOMAIN SetState(m, h, s) = DOMAIN m
           /\ \A a \in DOMAIN m : SetState(m, h, s)[a].size = m[a].size
           /\ Typed(SetState(m, h, s))
<1>1. \A a \in DOMAIN m : m[a] \in TagType
  BY DEF Typed
<1>2. /\ DOMAIN SetState(m, h, s) = DOMAIN m
      /\ \A a \in DOMAIN m : SetState(m, h, s)[a].size = m[a].size
  BY <1>1 DEF SetState, TagType
<1>3. Typed(SetState(m, h, s))
  BY <1>1 DEF SetState, Typed, TagType
<1> QED  BY <1>2, <1>3

\* Joining two blocks changes the size of the first one only.
LEMMA OnlyOneGrows ==
    ASSUME NEW m, Typed(m), NEW b \in DOMAIN m, NEW c \in DOMAIN m
    PROVE  /\ Typed(Absorb(m, b, c))
           /\ DOMAIN Absorb(m, b, c) = DOMAIN m
           /\ \A a \in DOMAIN m \ {b} : Absorb(m, b, c)[a].size = m[a].size
<1> DEFINE size == m[b].size + m[c].size
           n == SetSize(m, b, size)
<1>1. size \in Nat /\ \A a \in DOMAIN m : m[a] \in TagType
  BY DEF Typed, TagType
<1>2. Absorb(m, b, c) = SetLeft(n, b + size, size)
  BY DEF Absorb
<1> HIDE DEF size
<1>3. /\ DOMAIN n = DOMAIN m /\ \A a \in DOMAIN m \ {b} : n[a] = m[a]
      /\ \A a \in DOMAIN m : n[a] \in TagType
  BY <1>1 DEF SetSize, TagType
<1>4. Typed(n)
  BY <1>3 DEF Typed
<1> HIDE DEF n
<1>6. /\ DOMAIN SetLeft(n, b + size, size) = DOMAIN n
      /\ \A a \in DOMAIN n : SetLeft(n, b + size, size)[a].size = n[a].size
      /\ Typed(SetLeft(n, b + size, size))
  BY <1>1, <1>4, LeftStays
<1> QED  BY <1>2, <1>3, <1>6

\* What is left of the headers after a store over them is unchanged.
LEMMA ClobberKeeps ==
    ASSUME NEW m, NEW lo, NEW hi
    PROVE  /\ DOMAIN Clobber(m, lo, hi) \subseteq DOMAIN m
           /\ \A a \in DOMAIN Clobber(m, lo, hi) : Clobber(m, lo, hi)[a] = m[a]
BY DEF Clobber

\* The block my_free puts on a list: the freed one, or the left neighbour that
\* took it in.
Top(h, joinLeft) == IF joinLeft THEN LeftHeader(mem, h) ELSE h

\* Coalescing changes the size of no block but the freed one and the one that
\* takes it in, whose new size says which list it goes to.
LEMMA CoalesceSizes ==
    ASSUME Good, NEW h \in held, NEW joinRight \in BOOLEAN, NEW joinLeft \in BOOLEAN,
           Coalesce(h, joinRight, joinLeft)
    PROVE  LET top == Top(h, joinLeft)
               L1  == IF joinRight THEN Unlink(links, RightHeader(mem, h)) ELSE links
               L2  == IF joinLeft THEN Unlink(L1, top) ELSE L1
           IN /\ \A a \in DOMAIN mem' : a \notin {h, top} => mem'[a].size = mem[a].size
              /\ \E j \in 0..(N_LISTS - 1) :
                    /\ links' = LinkTail(L2, top, j)
                    /\ top \in DOMAIN mem' => j = ListIndex(mem'[top].size)
<1>1. /\ Typed(mem) /\ held \subseteq blocks /\ blocks \subseteq DOMAIN mem
      /\ \A a \in held : mem[a].state = "ALLOCATED"
  BY HeldBlocks DEF Good, InOrder, Heap
<1>2. RightHeader(mem, h) \in blocks /\ LeftHeader(mem, h) \in blocks
  <2>1. Tiled(mem, blocks) /\ h \in blocks /\ ~IsFence(mem, h)
    BY <1>1 DEF Good, InOrder, Heap, IsFence
  <2> QED  BY <2>1 DEF Tiled, IsLeftFence
<1> DEFINE m0    == SetState(mem, h, "UNALLOCATED")
           right == RightHeader(m0, h)
           left  == LeftHeader(m0, h)
           m1 == IF joinRight THEN Absorb(m0, h, right) ELSE m0
           L1 == IF joinRight THEN Unlink(links, right) ELSE links
           m2 == IF joinLeft THEN Absorb(m1, left, h) ELSE m1
           L2 == IF joinLeft THEN Unlink(L1, left) ELSE L1
           top == IF joinLeft THEN left ELSE h
<1>3. mem' = InsertMem(m2, top) /\ links' = LinkTail(L2, top, ListIndex(m2[top].size))
  BY DEF Coalesce, InsertLinks
<1>4. /\ Typed(m0) /\ DOMAIN m0 = DOMAIN mem
      /\ \A a \in DOMAIN mem : m0[a].size = mem[a].size
  BY <1>1, StateStays DEF States
<1>5. right = RightHeader(mem, h) /\ left = LeftHeader(mem, h)
  <2>1. mem[h] \in TagType /\ h \in DOMAIN mem
    BY <1>1 DEF Typed
  <2>2. m0[h].size = mem[h].size /\ m0[h].left = mem[h].left
    BY <2>1 DEF SetState, TagType
  <2> QED  BY <2>2 DEF RightHeader, LeftHeader
<1>6. top = Top(h, joinLeft)
  BY <1>5 DEF Top
<1> HIDE DEF m0, right, left
<1>7. h \in DOMAIN m0 /\ right \in DOMAIN m0 /\ left \in DOMAIN m0
  BY <1>1, <1>2, <1>4, <1>5
<1>8. /\ Typed(m1) /\ DOMAIN m1 = DOMAIN m0
      /\ \A a \in DOMAIN m0 \ {h} : m1[a].size = m0[a].size
  BY <1>4, <1>7, OnlyOneGrows
<1> HIDE DEF m1
<1>9. /\ Typed(m2) /\ DOMAIN m2 = DOMAIN m0
      /\ \A a \in DOMAIN m0 \ {h, top} : m2[a].size = m0[a].size
  BY <1>7, <1>8, OnlyOneGrows, SMTT(60)
<1> HIDE DEF m2
<1>10. \A a \in DOMAIN mem' : mem'[a] = m2[a] /\ a \in DOMAIN m2
  BY <1>3, ClobberKeeps DEF InsertMem
<1>11. ASSUME NEW a \in DOMAIN mem', a \notin {h, top} PROVE mem'[a].size = mem[a].size
  BY <1>4, <1>9, <1>10, <1>11
<1>12. ListIndex(m2[top].size) \in 0..(N_LISTS - 1)
  <2>1. m2[top].size \in Nat
    BY <1>7, <1>9 DEF Typed, TagType
  <2> QED  BY <2>1, ListIndexRange
<1>13. top \in DOMAIN mem' => ListIndex(m2[top].size) = ListIndex(mem'[top].size)
  BY <1>10
<1> QED  BY <1>3, <1>5, <1>6, <1>11, <1>12, <1>13

\* What my_free of a block does in a heap in order.
LEMMA FreeCases ==
    ASSUME Good, NEW h \in held, Free(h), Good'
    PROVE  \E joinRight \in BOOLEAN, joinLeft \in BOOLEAN :
              /\ joinRight <=> mem[RightHeader(mem, h)].state = "UNALLOCATED"
              /\ joinLeft <=> mem[LeftHeader(mem, h)].state = "UNALLOCATED"
              /\ Coalesce(h, joinRight, joinLeft)
<1>1. /\ held \subseteq blocks /\ blocks \subseteq DOMAIN mem
      /\ \A a \in held : mem[a].state = "ALLOCATED"
  BY HeldBlocks DEF Good, InOrder, Heap
<1>2. RightHeader(mem, h) \in blocks /\ LeftHeader(mem, h) \in blocks
  <2>1. Tiled(mem, blocks) /\ h \in blocks /\ ~IsFence(mem, h)
    BY <1>1 DEF Good, InOrder, Heap, IsFence
  <2> QED  BY <2>1 DEF Tiled, IsLeftFence
<1>3. /\ StatesAt(mem, RightHeader(mem, h)) = {mem[RightHeader(mem, h)].state}
      /\ StatesAt(mem, LeftHeader(mem, h)) = {mem[LeftHeader(mem, h)].state}
  BY <1>1, <1>2 DEF StatesAt
<1> DEFINE jr == mem[RightHeader(mem, h)].state = "UNALLOCATED"
           jl == mem[LeftHeader(mem, h)].state = "UNALLOCATED"
<1>4. Coalesce(h, jr, jl)
  <2>1. fault' # "wild"
    BY DEF Good
  <2> QED  BY <1>3, <2>1 DEF Free
<1>5. jr \in BOOLEAN /\ jl \in BOOLEAN
  OBVIOUS
<1> QED  BY <1>4, <1>5

\* my_free leaves the other clients' blocks as they are.
LEMMA FreeSizes ==
    ASSUME Good, NEW h \in held, Free(h), Good'
    PROVE  held' = held \ {h} /\ \A a \in held' : mem'[a].size = mem[a].size
<1>1. held' = held \ {h}
  BY DEF Free
<1>2. held' \subseteq DOMAIN mem' /\ \A a \in held : mem[a].state = "ALLOCATED"
  <2>1. held' \subseteq blocks' /\ blocks' \subseteq DOMAIN mem'
    BY DEF Good, InOrder, AllocIn, Heap, Tiled
  <2> QED  BY <2>1, HeldBlocks DEF Good
<1>3. PICK joinRight \in BOOLEAN, joinLeft \in BOOLEAN :
         /\ joinLeft => mem[LeftHeader(mem, h)].state = "UNALLOCATED"
         /\ Coalesce(h, joinRight, joinLeft)
  BY FreeCases
<1>4. \A a \in DOMAIN mem' : a \notin {h, Top(h, joinLeft)} => mem'[a].size = mem[a].size
  BY <1>3, CoalesceSizes
<1>5. \A a \in held' : a # h /\ a # Top(h, joinLeft)
  BY <1>1, <1>2, <1>3 DEF Top
<1> QED  BY <1>1, <1>2, <1>4, <1>5

\* A block that is found is handed out with at least the size asked for, and
\* the other clients' blocks stay as they are.
LEMMA FitSizes ==
    ASSUME Good, Good', want # 0, NEW b \in DOMAIN links, Fits(b, want),
           SplitFit(b) \/ WholeFit(b), held' = held \cup {b}
    PROVE  /\ b \notin held
           /\ mem'[b].size >= want
           /\ \A a \in blocks \cap DOMAIN mem' : a # b => mem'[a].size = mem[a].size
           /\ SplitFit(b) => /\ b + want \notin blocks
                             /\ b + want \in DOMAIN mem' =>
                                   mem'[b + want].size = mem[b].size - want
<1>1. /\ Typed(mem) /\ held \subseteq blocks /\ blocks \subseteq DOMAIN mem
      /\ \A a \in held : mem[a].state = "ALLOCATED"
      /\ want \in Nat /\ want >= MIN_BLOCK
  BY HeldBlocks DEF Good, InOrder, Heap
<1>2. /\ b \in DOMAIN mem /\ mem[b].state = "UNALLOCATED" /\ mem[b].size >= want
      /\ b \notin held /\ b \in Nat /\ mem[b] \in TagType /\ mem[b].size \in Nat
  BY <1>1 DEF Fits, Typed, TagType
<1>3. held' \subseteq DOMAIN mem'
  <2>1. held' \subseteq blocks' /\ blocks' \subseteq DOMAIN mem'
    BY DEF Good, InOrder, AllocIn, Heap, Tiled
  <2> QED  BY <2>1
<1>4. b \in blocks
  <2>1. b \in blocks \/ b \in Sentinels
    BY DEF Good, InOrder, Linked, FreeIn
  <2> QED  BY <2>1, <1>2, SentinelsNegative
<1>5. CASE WholeFit(b)
  <2> DEFINE m1 == SetState(mem, b, "ALLOCATED")
             m2 == SetLeft(m1, RightHeader(mem, b), mem[b].size)
  <2>1. mem' = Clobber(m2, b, RightHeader(mem, b))
    BY <1>5 DEF WholeFit
  <2>2. Typed(m1) /\ DOMAIN m1 = DOMAIN mem /\ \A a \in DOMAIN mem : m1[a].size = mem[a].size
    BY <1>1, StateStays DEF States
  <2> HIDE DEF m1
  <2>3. DOMAIN m2 = DOMAIN mem /\ \A a \in DOMAIN mem : m2[a].size = mem[a].size
    BY <1>2, <2>2, LeftStays
  <2> HIDE DEF m2
  <2>4. \A a \in DOMAIN mem' : mem'[a] = m2[a] /\ a \in DOMAIN mem
    BY <2>1, <2>3, ClobberKeeps
  <2>5. \A a \in DOMAIN mem' : mem'[a].size = mem[a].size
    BY <2>3, <2>4
  <2>6. b \in DOMAIN mem'
    BY <1>3
  <2>7. ~SplitFit(b)
    <3>1. mem[b].size - want < MIN_BLOCK
      BY <1>5 DEF WholeFit
    <3>2. SplitFit(b) => mem[b].size - want >= MIN_BLOCK
      BY DEF SplitFit
    <3> QED  BY <3>1, <3>2, <1>1, <1>2 DEF MIN_BLOCK, HEADER, MIN_DATA
  <2> QED  BY <2>5, <2>6, <2>7, <1>2
<1>6. CASE SplitFit(b)
  <2> DEFINE rest  == mem[b].size - want
             split == b + want
             m1 == Store(mem, split, Tag(rest, "UNALLOCATED", want))
             m2 == SetLeft(m1, RightHeader(m1, split), rest)
             m3 == InsertMem(m2, split)
             m4 == SetSize(m3, b, want)
             m5 == SetState(m4, b, "ALLOCATED")
  <2>1. mem' = Clobber(m5, b, split) /\ rest >= MIN_BLOCK
    BY <1>6 DEF SplitFit
  <2>2. rest \in Nat /\ split \in Nat /\ split < b + mem[b].size /\ b < split
    BY <1>1, <1>2, <2>1 DEF MIN_BLOCK, HEADER, MIN_DATA
  <2>3. split \notin blocks
    <3> SUFFICES ASSUME split \in blocks PROVE FALSE
      OBVIOUS
    <3>1. b + mem[b].size <= split
      BY <1>4, <2>2 DEF Good, InOrder, Heap, Apart
    <3> QED  BY <3>1, <2>2, <1>2
  <2>4. /\ Typed(m1) /\ DOMAIN m1 = DOMAIN mem \cup {split}
        /\ \A a \in DOMAIN mem \ {split} : m1[a] = mem[a]
        /\ m1[split].size = rest
    BY <1>1, <2>2 DEF Typed, Store, Tag, TagType, States
  <2> HIDE DEF m1
  <2>5. Typed(m2) /\ DOMAIN m2 = DOMAIN m1 /\ \A a \in DOMAIN m1 : m2[a].size = m1[a].size
    BY <2>2, <2>4, LeftStays
  <2> HIDE DEF m2
  <2>6. DOMAIN m3 \subseteq DOMAIN m2 /\ \A a \in DOMAIN m3 : m3[a] = m2[a]
    BY ClobberKeeps DEF InsertMem
  <2>7. \A a \in DOMAIN m3 : m3[a] \in TagType
    BY <2>5, <2>6 DEF Typed
  <2> HIDE DEF m3
  <2>8. /\ DOMAIN m4 = DOMAIN m3 /\ Typed(m4)
        /\ \A a \in DOMAIN m3 \ {b} : m4[a].size = m3[a].size
        /\ b \in DOMAIN m3 => m4[b].size = want
    <3>1. /\ DOMAIN m4 = DOMAIN m3
          /\ \A a \in DOMAIN m3 \ {b} : m4[a].size = m3[a].size
          /\ b \in DOMAIN m3 => m4[b].size = want
      BY <2>7 DEF SetSize, TagType
    <3>2. Typed(m4)
      BY <1>1, <2>5, <2>6, <2>7 DEF SetSize, TagType, Typed
    <3> QED  BY <3>1, <3>2
  <2> HIDE DEF m4
  <2>9. DOMAIN m5 = DOMAIN m4 /\ \A a \in DOMAIN m4 : m5[a].size = m4[a].size
    BY <2>8, StateStays DEF States
  <2> HIDE DEF m5, split, rest
  <2>10. \A a \in DOMAIN mem' : mem'[a] = m5[a] /\ a \in DOMAIN m3
    BY <2>1, <2>8, <2>9, ClobberKeeps
  <2>11. mem'[b].size = want
    <3>1. b \in DOMAIN mem'
      BY <1>3
    <3> QED  BY <3>1, <2>8, <2>9, <2>10
  <2>12. ASSUME NEW a \in DOMAIN mem', a # b PROVE a \in DOMAIN m1 /\ mem'[a].size = m1[a].size
    <3>1. mem'[a].size = m3[a].size
      BY <2>12, <2>8, <2>9, <2>10
    <3>2. a \in DOMAIN m1 /\ m3[a].size = m1[a].size
      BY <2>5, <2>6, <2>10
    <3> QED  BY <3>1, <3>2
  <2>13. ASSUME NEW a \in blocks \cap DOMAIN mem', a # b PROVE mem'[a].size = mem[a].size
    BY <2>12, <2>13, <2>3, <2>4
  <2>14. split \in DOMAIN mem' => mem'[split].size = rest
    <3>1. split # b
      BY <2>2, <1>2
    <3> QED  BY <3>1, <2>4, <2>12
  <2> QED  BY <2>3, <2>11, <2>13, <2>14, <1>1, <1>2 DEF split, rest
<1> QED  BY <1>5, <1>6

\* A new arena writes no header of the heap below it.
LEMMA ChunkKeeps ==
    ASSUME NEW m, NEW B, NEW end, Heap(m, B, end), NEW base \in Nat, end <= base,
           NEW a \in B
    PROVE  /\ a < base
           /\ a \notin {base, base + HEADER, RightFence(base)}
           /\ ChunkTags(m, base)[a] = m[a]
<1>1. /\ Heap(ChunkTags(m, base), B \cup {base, base + HEADER, RightFence(base)}, base + ARENA)
      /\ \A x \in B : /\ x < base
                      /\ x \notin {base, base + HEADER, RightFence(base)}
                      /\ ChunkTags(m, base)[x] = m[x]
  BY ChunkHeap
<1> QED  BY <1>1

\* A growth that stands apart, merges, or keeps an allocated neighbour writes
\* no header of a client's block.
LEMMA GrowSizes ==
    ASSUME Good,
           \/ GrowApart /\ Good'
           \/ GrowMerge /\ Good'
           \/ GrowSeam /\ UNCHANGED held
           \/ GrowSeam /\ want # 0 /\ held' = held \cup {brk}
    PROVE  /\ \A a \in held : mem'[a].size = mem[a].size
           /\ held' # held => mem'[brk].size = want /\ brk + want <= brk'
<1>1. /\ Typed(mem) /\ held \subseteq blocks /\ blocks \subseteq DOMAIN mem
      /\ \A a \in held : mem[a].state = "ALLOCATED"
      /\ want \in Nat /\ brk \in Nat /\ Heap(mem, blocks, brk)
  BY HeldBlocks DEF Good, InOrder, Heap
<1>2. Good' => held' \subseteq DOMAIN mem'
  <2>1. Good' => held' \subseteq blocks' /\ blocks' \subseteq DOMAIN mem'
    BY DEF Good, InOrder, AllocIn, Heap, Tiled
  <2> QED  BY <2>1
<1>3. CASE GrowApart /\ Good'
  <2>1. mem' = ChunkTags(mem, brk + 1) /\ held' = held
    BY <1>3 DEF GrowApart
  <2>2. \A a \in blocks : ChunkTags(mem, brk + 1)[a] = mem[a]
    <3>1. brk + 1 \in Nat /\ brk <= brk + 1
      BY <1>1
    <3> QED  BY <1>1, <3>1, ChunkKeeps
  <2> QED  BY <1>1, <2>1, <2>2
<1> DEFINE base  == brk
           left  == LeftHeader(mem, lastFence)
           fence == RightFence(base)
           new   == {base, base + HEADER, fence}
           n     == ChunkTags(mem, base)
<1>4. /\ \A a \in blocks : a < base /\ a \notin new /\ n[a] = mem[a] /\ a \in Nat
      /\ fence \in Nat /\ DOMAIN n = DOMAIN mem \cup new /\ Typed(n)
  <2>1. brk \in Nat /\ brk <= brk
    BY <1>1
  <2>2. \A a \in blocks : a < base /\ a \notin new /\ n[a] = mem[a]
    BY <1>1, <2>1, ChunkKeeps
  <2>3. fence \in Nat /\ DOMAIN n = DOMAIN mem \cup new /\ Typed(n)
    BY <1>1, ChunkHeaders
  <2>4. \A a \in blocks : a \in Nat
    BY <1>1 DEF Typed
  <2> QED  BY <2>2, <2>3, <2>4
<1>5. CASE GrowMerge /\ Good'
  <2> DEFINE merged == fence - left
             m1 == Store(n, left, Tag(merged, "UNALLOCATED", mem[left].left))
             m2 == SetLeft(m1, fence, merged)
  <2>1. /\ mem' = InsertMem(m2, left) /\ held' = held
        /\ mem[left].state # "ALLOCATED"
    BY <1>5 DEF GrowMerge
  <2> HIDE DEF left, n, fence
  <2>2. DOMAIN m1 = DOMAIN n \cup {left} /\ \A a \in DOMAIN n \ {left} : m1[a] = n[a]
    BY DEF Store
  <2> HIDE DEF m1, merged
  <2>3. DOMAIN m2 = DOMAIN m1 /\ \A a \in DOMAIN m1 : m2[a].size = m1[a].size
    BY DEF SetLeft, Tag
  <2> HIDE DEF m2
  <2>4. \A a \in DOMAIN mem' : mem'[a] = m2[a]
    BY <2>1, ClobberKeeps DEF InsertMem
  <2> SUFFICES ASSUME NEW a \in held PROVE mem'[a].size = mem[a].size
    BY <2>1
  <2>5. a # left /\ a \in blocks /\ a \in DOMAIN mem' /\ a \in DOMAIN n
    BY <1>1, <1>2, <1>4, <1>5, <2>1
  <2> QED  BY <2>2, <2>3, <2>4, <2>5, <1>4
<1>6. CASE GrowSeam
  <2> DEFINE free  == base + want
             rest  == fence - free
             m1 == Store(n, base, Tag(want, "ALLOCATED",
                           IF left \in DOMAIN mem THEN mem[left].size ELSE 1))
             m2 == Store(m1, free, Tag(rest, "UNALLOCATED", want))
             m3 == SetLeft(m2, fence, rest)
             m4 == SetLeft(m1, fence, want)
  <2>1. /\ brk' = base + ARENA
        /\ rest < 0 => UNCHANGED <<mem, held>>
        /\ ~(rest < 0) /\ rest >= MIN_BLOCK => mem' = Clobber(InsertMem(m3, free), base, free)
        /\ ~(rest < 0) /\ ~(rest >= MIN_BLOCK) => mem' = Clobber(m4, base, free)
    BY <1>6 DEF GrowSeam, TakeArena, heapVars
  <2>2. free \in Nat /\ rest \in Int /\ base + ARENA = fence + HEADER
    BY <1>1, <1>4, ArenaAssumption DEF RightFence, HEADER
  <2>3. want # 0 => base < free
    BY <1>1
  <2>4. want >= MIN_BLOCK
    <3>1. want # 0
      BY <1>6 DEF GrowSeam, NothingFits
    <3> QED  BY <3>1 DEF Good
  <2>5. base < free /\ base # fence
    <3>1. base # fence
      BY <1>1, ArenaAssumption DEF RightFence, HEADER, MIN_BLOCK, MIN_DATA
    <3> QED  BY <2>3, <2>4, <3>1 DEF MIN_BLOCK, HEADER, MIN_DATA
  <2> HIDE DEF left, n, fence
  <2>6. /\ DOMAIN m1 = DOMAIN n \cup {base} /\ m1[base].size = want
        /\ \A a \in DOMAIN n \ {base} : m1[a] = n[a]
    BY DEF Store, Tag
  <2> HIDE DEF m1
  <2>7. DOMAIN m2 = DOMAIN m1 \cup {free} /\ \A a \in DOMAIN m1 \ {free} : m2[a] = m1[a]
    BY DEF Store
  <2> HIDE DEF m2
  <2>8. /\ DOMAIN m3 = DOMAIN m2 /\ \A a \in DOMAIN m2 : m3[a].size = m2[a].size
        /\ DOMAIN m4 = DOMAIN m1 /\ \A a \in DOMAIN m1 : m4[a].size = m1[a].size
    BY DEF SetLeft, Tag
  <2> HIDE DEF m3, m4
  <2>9. ASSUME NEW m, NEW a \in DOMAIN m, a <= base
        PROVE  a \in DOMAIN Clobber(m, base, free) /\ Clobber(m, base, free)[a] = m[a]
    BY <2>9 DEF Clobber
  <2>10. ASSUME NEW m, NEW a \in DOMAIN m, a <= free
         PROVE  a \in DOMAIN InsertMem(m, free) /\ InsertMem(m, free)[a] = m[a]
    BY <2>10 DEF Clobber, InsertMem
  <2>11. ASSUME ~(rest < 0), NEW a \in DOMAIN m1, a \in Nat, a <= base
         PROVE  mem'[a].size = m1[a].size
    <3>1. a < free /\ a # free /\ a <= free
      BY <1>1, <2>2, <2>5, <2>11
    <3>2. CASE rest >= MIN_BLOCK
      <4>1. a \in DOMAIN m3 /\ m3[a].size = m1[a].size
        BY <2>11, <2>7, <2>8, <3>1
      <4>2. a \in DOMAIN InsertMem(m3, free) /\ InsertMem(m3, free)[a] = m3[a]
        BY <4>1, <3>1, <2>10
      <4>3. Clobber(InsertMem(m3, free), base, free)[a] = InsertMem(m3, free)[a]
        BY <4>2, <2>11, <2>9
      <4> QED  BY <4>1, <4>2, <4>3, <3>2, <2>1, <2>11
    <3>3. CASE ~(rest >= MIN_BLOCK)
      <4>1. a \in DOMAIN m4 /\ m4[a].size = m1[a].size
        BY <2>11, <2>8
      <4>2. Clobber(m4, base, free)[a] = m4[a]
        BY <4>1, <2>11, <2>9
      <4> QED  BY <4>1, <4>2, <3>3, <2>1, <2>11
    <3> QED  BY <3>2, <3>3
  <2>12. ASSUME NEW a \in held PROVE mem'[a].size = mem[a].size
    <3>1. a \in blocks /\ a < base /\ a # base /\ a \in Nat /\ a \in DOMAIN n /\ n[a] = mem[a]
      BY <1>1, <1>4
    <3>2. CASE rest < 0
      BY <3>2, <2>1
    <3>3. CASE ~(rest < 0)
      <4>1. a \in DOMAIN m1 /\ m1[a] = mem[a] /\ a <= base
        BY <3>1, <2>6, <1>1
      <4> QED  BY <4>1, <3>1, <3>3, <2>11
    <3> QED  BY <3>2, <3>3
  <2>13. ASSUME held' # held PROVE mem'[brk].size = want /\ brk + want <= brk'
    <3>1. ~(rest < 0)
      BY <2>13, <2>1
    <3>2. mem'[base].size = want
      BY <3>1, <2>6, <2>11, <1>1
    <3>3. brk + want <= brk'
      BY <3>1, <2>1, <2>2, <1>1, <1>4 DEF HEADER
    <3> QED  BY <3>2, <3>3
  <2> QED  BY <2>12, <2>13
<1> QED  BY <1>3, <1>5, <1>6

\* The data words of every request are addresses of the bounded heap.
RequestsFit == \A raw \in Requests : Total(raw) - HEADER <= HeapLimit

\* While the headers of the clients' blocks keep their sizes, a block more is
\* a region granted, a block less a region given back.
LEMMA RegionsFollow ==
    ASSUME held \subseteq Nat, \A a \in held \cap held' : mem'[a].size = mem[a].size
    PROVE  /\ held' = held => Regions' = Regions
           /\ \A h \in Nat : h \notin held /\ held' = held \cup {h} =>
                 Regions' = [q \in DOMAIN Regions \cup {h + HEADER} |->
                               IF q = h + HEADER THEN mem'[h].size - HEADER ELSE Regions[q]]
           /\ \A h \in held : held' = held \ {h} =>
                 /\ h + HEADER \in DOMAIN Regions
                 /\ Regions' = [q \in DOMAIN Regions \ {h + HEADER} |-> Regions[q]]
<1> DEFINE D(H) == {a + HEADER : a \in H}
<1>1. Regions = [p \in D(held) |-> mem[p - HEADER].size - HEADER]
  BY DEF Regions
<1>2. Regions' = [p \in D(held') |-> mem'[p - HEADER].size - HEADER]
  BY DEF Regions
<1>3. \A a \in Nat : (a + HEADER) - HEADER = a
  BY DEF HEADER
<1>4. held' = held => Regions' = Regions
  <2> SUFFICES ASSUME held' = held PROVE Regions' = Regions
    OBVIOUS
  <2>1. \A p \in D(held) : mem'[p - HEADER].size = mem[p - HEADER].size
    BY <1>3
  <2> QED  BY <2>1, <1>1, <1>2
<1>5. ASSUME NEW h \in Nat, h \notin held, held' = held \cup {h}
      PROVE  Regions' = [q \in DOMAIN Regions \cup {h + HEADER} |->
                           IF q = h + HEADER THEN mem'[h].size - HEADER ELSE Regions[q]]
  <2>1. D(held') = DOMAIN Regions \cup {h + HEADER}
    BY <1>1, <1>5
  <2>2. ASSUME NEW q \in D(held'), q # h + HEADER
        PROVE  mem'[q - HEADER].size - HEADER = Regions[q]
    <3>1. PICK a \in held : q = a + HEADER
      BY <2>2, <1>5
    <3>2. q - HEADER = a /\ mem'[a].size = mem[a].size
      BY <3>1, <1>3, <1>5
    <3> QED  BY <3>1, <3>2, <1>1
  <2>3. (h + HEADER) - HEADER = h
    BY <1>3
  <2> HIDE DEF D
  <2> QED  BY <2>1, <2>2, <2>3, <1>2
<1>6. ASSUME NEW h \in held, held' = held \ {h}
      PROVE  /\ h + HEADER \in DOMAIN Regions
             /\ Regions' = [q \in DOMAIN Regions \ {h + HEADER} |-> Regions[q]]
  <2>1. h + HEADER \in DOMAIN Regions
    BY <1>1
  <2>2. D(held') = DOMAIN Regions \ {h + HEADER}
    <3>1. ASSUME NEW a \in held, a + HEADER = h + HEADER PROVE a = h
      <4>1. a \in Nat /\ h \in Nat
        OBVIOUS
      <4> QED  BY <3>1, <4>1 DEF HEADER
    <3> QED  BY <3>1, <1>1, <1>6
  <2>3. ASSUME NEW q \in D(held') PROVE mem'[q - HEADER].size - HEADER = Regions[q]
    <3>1. PICK a \in held \ {h} : q = a + HEADER
      BY <2>3, <1>6
    <3>2. q - HEADER = a /\ mem'[a].size = mem[a].size
      BY <3>1, <1>3, <1>6
    <3> QED  BY <3>1, <3>2, <1>1
  <2> HIDE DEF D
  <2> QED  BY <2>1, <2>2, <2>3, <1>2
<1> QED  BY <1>4, <1>5, <1>6

\* A block that is handed out is a region granted.
LEMMA GrantStep ==
    ASSUME HeldApart(mem, held, brk), NEW h \in Nat, h \notin held,
           HeldApart(mem', held', brk'), held' = held \cup {h},
           \A a \in held : mem'[a].size = mem[a].size,
           mem'[h].size >= want, want \in Nat, want >= MIN_BLOCK, want' = 0,
           brk' \in Nat, brk' <= HeapLimit
    PROVE  [Abstract!Next]_Abstract!vars
<1>1. mem'[h].size \in Nat /\ mem'[h].size >= HEADER /\ h + mem'[h].size <= brk'
  BY DEF HeldApart
<1>2. h + HEADER \in Nat /\ mem'[h].size - HEADER \in Nat
  BY <1>1 DEF HEADER
<1>3. PICK p \in Nat, n \in Nat : p = h + HEADER /\ n = mem'[h].size - HEADER
  BY <1>2
<1>4. p \in 0..HeapLimit /\ n \in 0..HeapLimit /\ n >= want - HEADER /\ want - HEADER # 0
      /\ p + n = h + mem'[h].size
  BY <1>1, <1>3, LimitAssumption DEF HEADER, MIN_BLOCK, MIN_DATA
<1>5. Regions' = [q \in DOMAIN Regions \cup {p} |-> IF q = p THEN n ELSE Regions[q]]
  BY <1>3, RegionsFollow DEF HeldApart
<1>6. ASSUME NEW q \in DOMAIN Regions PROVE p + n <= q \/ q + Regions[q] <= p
  <2>1. PICK a \in held : q = a + HEADER
    BY DEF Regions
  <2>2. a \in Nat /\ a # h /\ mem[a].size \in Nat /\ a \in held' /\ h \in held'
    BY DEF HeldApart
  <2>3. q - HEADER = a /\ q \in Nat
    BY <2>1, <2>2 DEF HEADER
  <2>4. Regions[q] = mem[a].size - HEADER
    BY <2>3 DEF Regions
  <2>5. q + Regions[q] = a + mem[a].size
    BY <2>1, <2>2, <2>4 DEF HEADER
  <2>6. h < a => h + mem'[h].size <= a
    BY <2>2 DEF HeldApart
  <2>7. a < h => a + mem[a].size <= h
    BY <2>2 DEF HeldApart
  <2>8. h < a => p + n <= q
    BY <1>1, <1>4, <1>3, <2>1, <2>2, <2>6 DEF HEADER
  <2>9. a < h => q + Regions[q] <= p
    BY <1>3, <2>2, <2>5, <2>7 DEF HEADER
  <2> QED  BY <2>2, <2>8, <2>9
<1>7. Abstract!Grant(p, n)
  <2>1. Asked = want - HEADER /\ Asked' = 0
    BY <1>4 DEF Asked, MIN_BLOCK, HEADER, MIN_DATA
  <2>2. Abstract!Unowned(p, n)
    BY <1>6 DEF Abstract!Unowned, Regions
  <2> QED  BY <1>4, <1>5, <2>1, <2>2 DEF Abstract!Grant, Asked, Regions
<1>8. Abstract!Next
  BY <1>4, <1>7 DEF Abstract!Next
<1> QED  BY <1>8

\* The break stays below the bound: sbrk grants nothing beyond it.
LEMMA BreakStep == BreakBounded /\ [Next]_vars => BreakBounded'
<1> SUFFICES ASSUME BreakBounded, [Next]_vars PROVE BreakBounded'
  OBVIOUS
<1>1. ASSUME NEW base \in {brk, brk + 1}, TakeArena(base) PROVE BreakBounded'
  BY <1>1, ArenaAssumption DEF BreakBounded, TakeArena
<1>2. CASE GrowApart \/ GrowMerge \/ GrowSeam \/ GrowWild
  BY <1>1, <1>2 DEF GrowApart, GrowMerge, GrowSeam, GrowWild
<1>3. CASE brk' = brk
  BY <1>3 DEF BreakBounded
<1> QED
  BY <1>2, <1>3 DEF Next, CallMalloc, Allocate, Fit, GrowFails, Free, InvalidFree, arenaVars, vars

\* A step that changes neither the clients' blocks nor the call changes
\* nothing the clients see.
LEMMA SameView ==
    ASSUME held \subseteq Nat, \A a \in held : mem'[a].size = mem[a].size,
           held' = held, want' = want
    PROVE  [Abstract!Next]_Abstract!vars
<1>1. Regions' = Regions
  BY RegionsFollow
<1> QED  BY <1>1 DEF Abstract!vars, Regions

\* Every step from a heap in order is one the clients may expect: a request,
\* a region granted, a refusal, a region given back, or nothing they see.
LEMMA AbstractStep ==
    ASSUME RequestsFit, HeapInv, HeapInv', BreakBounded, BreakBounded', [Next]_vars, ~seam
    PROVE  [Abstract!Next]_Abstract!vars
<1>1. /\ Good /\ HeldApart(mem, held, brk) /\ held \subseteq Nat /\ held \subseteq blocks
      /\ want \in Nat /\ (want # 0 => want >= MIN_BLOCK)
  <2>1. Good
    BY DEF HeapInv
  <2> QED  BY <2>1, HeldBlocks DEF Good, HeldApart
<1>2. ~seam' => Good' /\ HeldApart(mem', held', brk')
  <2>1. ~seam' => Good'
    BY DEF HeapInv
  <2>2. Good' => HeldApart(mem', held', brk')
    BY HeldBlocks DEF Good
  <2> QED  BY <2>1, <2>2
<1>3. want # 0 => Asked = want - HEADER /\ Asked # 0
  BY <1>1 DEF Asked, MIN_BLOCK, HEADER, MIN_DATA
<1>4. CASE UNCHANGED vars
  BY <1>1, <1>4, SameView DEF vars, heapVars
<1>5. ASSUME NEW raw \in Requests, CallMalloc(raw) PROVE [Abstract!Next]_Abstract!vars
  <2>1. want = 0 /\ want' = Total(raw) /\ held' = held /\ mem' = mem
    BY <1>5 DEF CallMalloc, heapVars
  <2>2. Total(raw) \in Nat /\ Total(raw) >= MIN_BLOCK
    <3>1. raw \in Nat
      BY RequestsAssumption
    <3>2. (raw + 7) \div 8 \in Nat
      BY <3>1
    <3> QED  BY <3>2 DEF Total, MIN_BLOCK, HEADER, MIN_DATA
  <2>3. Total(raw) - HEADER \in (0..HeapLimit) \ {0} /\ Total(raw) # 0
    BY <2>2, LimitAssumption DEF RequestsFit, MIN_BLOCK, HEADER, MIN_DATA
  <2>4. Regions' = Regions
    BY <1>1, <2>1, RegionsFollow
  <2>5. Abstract!Ask(Total(raw) - HEADER)
    BY <2>1, <2>3, <2>4 DEF Abstract!Ask, Regions
  <2> QED  BY <2>3, <2>5 DEF Abstract!Next
<1>6. ASSUME Fit PROVE [Abstract!Next]_Abstract!vars
  <2>1. want # 0 /\ want' = 0 /\ ~seam' /\ brk' = brk
    BY <1>6 DEF Fit, ReturnBlock, arenaVars
  <2>2. PICK b \in DOMAIN links : /\ Fits(b, want) /\ (SplitFit(b) \/ WholeFit(b))
                                  /\ held' = held \cup {b}
    BY <1>6 DEF Fit, ReturnBlock
  <2>3. b \notin held /\ mem'[b].size >= want /\ \A a \in held : mem'[a].size = mem[a].size
    <3>1. b \notin held /\ mem'[b].size >= want
          /\ \A a \in blocks \cap DOMAIN mem' : a # b => mem'[a].size = mem[a].size
      BY <1>1, <1>2, <2>1, <2>2, FitSizes
    <3>2. held' \subseteq DOMAIN mem'
      BY <1>2, <2>1, HeldBlocks DEF Good
    <3> QED  BY <1>1, <2>2, <3>1, <3>2
  <2>4. b \in Nat
    BY <1>1, <2>2 DEF Fits, Good, InOrder, Heap, Typed
  <2>5. brk' \in Nat /\ brk' <= HeapLimit
    BY DEF BreakBounded
  <2> QED  BY <1>1, <1>2, <2>1, <2>2, <2>3, <2>4, <2>5, GrantStep
<1>7. ASSUME GrowFails PROVE [Abstract!Next]_Abstract!vars
  <2>1. want # 0 /\ want' = 0 /\ held' = held /\ mem' = mem
    BY <1>7 DEF GrowFails, NothingFits, heapVars
  <2>2. Regions' = Regions
    BY <1>1, <2>1, RegionsFollow
  <2>3. Abstract!Refuse
    BY <1>3, <2>1, <2>2 DEF Abstract!Refuse, Regions, Asked
  <2> QED  BY <2>3 DEF Abstract!Next
<1>8. ASSUME GrowApart \/ GrowMerge PROVE [Abstract!Next]_Abstract!vars
  <2>1. ~seam' /\ held' = held /\ want' = want
    BY <1>8 DEF GrowApart, GrowMerge
  <2>2. \A a \in held : mem'[a].size = mem[a].size
    BY <1>1, <1>2, <1>8, <2>1, GrowSizes
  <2> QED  BY <1>1, <2>1, <2>2, SameView
<1>9. ASSUME GrowSeam PROVE [Abstract!Next]_Abstract!vars
  <2>1. want # 0
    BY <1>9 DEF GrowSeam, NothingFits
  <2>2. CASE held' = held /\ want' = want
    <3>1. \A a \in held : mem'[a].size = mem[a].size
      BY <1>1, <1>9, <2>2, GrowSizes
    <3> QED  BY <1>1, <2>2, <3>1, SameView
  <2>3. CASE held' = held \cup {brk} /\ want' = 0
    <3>1. \A a \in held : a + mem[a].size <= brk /\ a \in Nat /\ mem[a].size \in Nat /\ mem[a].size >= HEADER
      BY <1>1 DEF HeldApart
    <3>2. brk \in Nat /\ brk \notin held
      <4>1. brk \in Nat
        BY DEF BreakBounded
      <4> QED  BY <3>1, <4>1 DEF HEADER
    <3>3. /\ \A a \in held : mem'[a].size = mem[a].size
          /\ mem'[brk].size = want /\ brk + want <= brk'
      BY <1>1, <1>9, <2>1, <2>3, <3>2, GrowSizes
    <3>4. brk' \in Nat /\ brk' <= HeapLimit /\ brk <= brk'
      BY <1>1, <3>2, <3>3 DEF BreakBounded
    <3>5. HeldApart(mem', held', brk')
      <4>1. held' \subseteq Nat
        BY <1>1, <2>3, <3>2
      <4>2. \A h \in held' : mem'[h].size \in Nat /\ mem'[h].size >= HEADER
        BY <1>1, <2>1, <2>3, <3>1, <3>3 DEF MIN_BLOCK, HEADER, MIN_DATA
      <4>3. ASSUME NEW h \in held' PROVE h + mem'[h].size <= brk'
        <5>1. CASE h = brk
          BY <5>1, <3>3
        <5>2. CASE h # brk
          <6>1. h \in held /\ mem'[h].size = mem[h].size
            BY <5>2, <2>3, <3>3
          <6> QED  BY <6>1, <3>1, <3>2, <3>4
        <5> QED  BY <5>1, <5>2
      <4>4. ASSUME NEW h \in held', NEW g \in held', h < g PROVE h + mem'[h].size <= g
        <5>1. h \in held
          BY <2>3, <3>1, <3>2, <4>1, <4>4
        <5>2. g = brk \/ g \in held
          BY <2>3
        <5> QED  BY <5>1, <5>2, <4>4, <3>1, <3>3, <1>1 DEF HeldApart
      <4> QED  BY <4>1, <4>2, <4>3, <4>4 DEF HeldApart
    <3>6. mem'[brk].size >= want
      BY <1>1, <3>3
    <3> QED  BY <1>1, <2>1, <2>3, <3>2, <3>3, <3>4, <3>5, <3>6, GrantStep
  <2> QED  BY <1>9, <2>2, <2>3 DEF GrowSeam, ReturnBlock
<1>10. CASE GrowWild
  BY <1>1, <1>10, SameView DEF GrowWild, heapVars
<1>11. ASSUME NEW h \in held, Free(h) PROVE [Abstract!Next]_Abstract!vars
  <2>1. want = 0 /\ want' = want /\ ~seam'
    BY <1>11 DEF Free, arenaVars
  <2>2. held' = held \ {h} /\ \A a \in held' : mem'[a].size = mem[a].size
    BY <1>1, <1>2, <1>11, <2>1, FreeSizes
  <2>3. /\ h + HEADER \in DOMAIN Regions
        /\ Regions' = [q \in DOMAIN Regions \ {h + HEADER} |-> Regions[q]]
    BY <1>1, <2>2, RegionsFollow
  <2>4. Abstract!GiveBack(h + HEADER)
    BY <2>1, <2>3 DEF Abstract!GiveBack, Regions
  <2>5. h + HEADER \in DOMAIN Regions => Abstract!Next
    BY <2>4 DEF Abstract!Next, Regions
  <2> QED  BY <2>3, <2>5
<1>12. ASSUME NEW p \in DOMAIN mem, InvalidFree(p) PROVE [Abstract!Next]_Abstract!vars
  BY <1>1, <1>12, SameView DEF InvalidFree, heapVars
<1> QED
  BY <1>4, <1>5, <1>6, <1>7, <1>8, <1>9, <1>10, <1>11, <1>12 DEF Next, Allocate

\* At the start no client owns anything and no call is in progress.
LEMMA AbstractStart == Init => Abstract!Init
<1> SUFFICES ASSUME Init PROVE Abstract!Init
  OBVIOUS
<1>1. held = {} /\ want = 0
  BY DEF Init
<1>2. Regions = <<>>
  BY <1>1 DEF Regions
<1> QED  BY <1>1, <1>2 DEF Abstract!Init, Regions
-----------------------------------------------------------------------------
(* The first-fit search.  A block is on a list when every set of entries   *)
(* that holds the list's sentinel and is closed under next holds it.       *)

Follows(L, S, i)   == Sentinel(i) \in S /\ \A x \in S : L[x].next \in S
OnList(L, i, b)    == \A S \in SUBSET DOMAIN L : Follows(L, S, i) => b \in S

\* The tail of each list is on it.
TailsOn(L) == \A i \in 0..(N_LISTS - 1) : OnList(L, i, L[Sentinel(i)].prev)

\* Each free block is on a list that a search for its size comes to.
Findable(m, L, B) ==
    \A b \in B : \E i \in ListIndex(m[b].size)..(N_LISTS - 1) : OnList(L, i, b)

\* Taking a block off its list leaves the others on theirs.
LEMMA UnlinkOnList ==
    ASSUME NEW L, NEW F, Linked(L, F), NEW b \in F, b \notin Sentinels,
           NEW i \in 0..(N_LISTS - 1)
    PROVE  /\ \A x : x # b /\ OnList(L, i, x) => OnList(Unlink(L, b), i, x)
           /\ OnList(L, i, b) => OnList(Unlink(L, b), i, L[b].prev)
<1> DEFINE p == L[b].prev
           n == L[b].next
           U == Unlink(L, b)
<1>1. /\ b \in DOMAIN L /\ p \in DOMAIN L /\ n \in DOMAIN L
      /\ L[p].next = b /\ \A x \in DOMAIN L : L[x].next \in DOMAIN L
  BY DEF Linked
<1>2. /\ DOMAIN U = DOMAIN L \ {b}
      /\ \A x \in DOMAIN U : U[x].next = (IF x = p THEN n ELSE L[x].next)
  BY DEF Unlink
<1> HIDE DEF U, p, n
<1>3. ASSUME NEW S \in SUBSET DOMAIN U, Follows(U, S, i)
      PROVE  /\ p \in S => S \cup {b} \in SUBSET DOMAIN L /\ Follows(L, S \cup {b}, i)
             /\ p \notin S => S \in SUBSET DOMAIN L /\ Follows(L, S, i)
  <2>1. S \in SUBSET DOMAIN L /\ b \notin S /\ Sentinel(i) \in S
    BY <1>2, <1>3 DEF Follows
  <2>2. \A x \in S : x # p => L[x].next \in S
    BY <1>2, <1>3 DEF Follows
  <2>3. p \in S => n \in S
    BY <1>2, <1>3 DEF Follows
  <2> QED  BY <2>1, <2>2, <2>3, <1>1 DEF Follows, n
<1>4. ASSUME NEW x, x # b, OnList(L, i, x) PROVE OnList(U, i, x)
  BY <1>3, <1>4 DEF OnList
<1>5. ASSUME OnList(L, i, b) PROVE OnList(U, i, p)
  <2> SUFFICES ASSUME NEW S \in SUBSET DOMAIN U, Follows(U, S, i), p \notin S PROVE FALSE
    BY DEF OnList
  <2>1. b \in S
    BY <1>3, <1>5 DEF OnList
  <2> QED  BY <2>1, <1>2
<1> QED  BY <1>4, <1>5 DEF U, p

\* A block put at the tail of a list is on it, the others stay on theirs.
LEMMA LinkOnList ==
    ASSUME NEW L, NEW F, Linked(L, F), TailsOn(L), NEW b, b \notin DOMAIN L,
           NEW j \in 0..(N_LISTS - 1), NEW i \in 0..(N_LISTS - 1)
    PROVE  /\ \A x : x # b /\ OnList(L, i, x) => OnList(LinkTail(L, b, j), i, x)
           /\ OnList(LinkTail(L, b, j), j, b)
<1> DEFINE s == Sentinel(j)
           p == L[s].prev
           T == LinkTail(L, b, j)
<1>1. /\ s \in DOMAIN L /\ p \in DOMAIN L /\ L[p].next = s
      /\ \A x \in DOMAIN L : L[x].next \in DOMAIN L
      /\ \A k \in 0..(N_LISTS - 1) : Sentinel(k) \in DOMAIN L
  BY DEF Linked, Sentinels
<1>2. /\ DOMAIN T = DOMAIN L \cup {b} /\ T[b].next = s
      /\ \A x \in DOMAIN L : T[x].next = (IF x = p THEN b ELSE L[x].next)
  <2>1. b # s /\ b # p
    BY <1>1
  <2> QED  BY <2>1 DEF LinkTail
<1> HIDE DEF T, p
<1>3. ASSUME NEW S \in SUBSET DOMAIN T, NEW k \in 0..(N_LISTS - 1), Follows(T, S, k)
      PROVE  S \ {b} \in SUBSET DOMAIN L /\ Follows(L, S \ {b}, k)
  <2>1. S \ {b} \in SUBSET DOMAIN L /\ Sentinel(k) \in S \ {b}
    BY <1>1, <1>2, <1>3 DEF Follows
  <2>2. ASSUME NEW x \in S \ {b} PROVE L[x].next \in S \ {b}
    <3>1. x \in DOMAIN L /\ L[x].next # b
      BY <2>1, <1>1
    <3>2. T[x].next \in S
      BY <1>3 DEF Follows
    <3>3. CASE x # p
      BY <3>1, <3>2, <3>3, <1>2
    <3>4. CASE x = p
      <4>1. b \in S
        BY <3>1, <3>2, <3>4, <1>2
      <4>2. s \in S
        BY <4>1, <1>2, <1>3 DEF Follows
      <4> QED  BY <4>2, <3>1, <3>4, <1>1
    <3> QED  BY <3>3, <3>4
  <2> QED  BY <2>1, <2>2 DEF Follows
<1>4. ASSUME NEW x, x # b, OnList(L, i, x) PROVE OnList(T, i, x)
  BY <1>3, <1>4 DEF OnList
<1>5. OnList(T, j, b)
  <2> SUFFICES ASSUME NEW S \in SUBSET DOMAIN T, Follows(T, S, j) PROVE b \in S
    BY DEF OnList
  <2>1. p \in S
    <3>1. OnList(L, j, p)
      BY DEF TailsOn, p
    <3> QED  BY <3>1, <1>3 DEF OnList
  <2> QED  BY <2>1, <1>1, <1>2 DEF Follows
<1> QED  BY <1>4, <1>5 DEF T

\* Taking a block off leaves a tail on each list.
LEMMA UnlinkTails ==
    ASSUME NEW L, NEW F, Linked(L, F), TailsOn(L), NEW b \in F, b \notin Sentinels
    PROVE  TailsOn(Unlink(L, b))
<1> SUFFICES ASSUME NEW i \in 0..(N_LISTS - 1)
             PROVE  OnList(Unlink(L, b), i, Unlink(L, b)[Sentinel(i)].prev)
  BY DEF TailsOn
<1> DEFINE s == Sentinel(i)
           U == Unlink(L, b)
<1>1. s \in Sentinels /\ s \in DOMAIN L /\ s # b /\ b \in DOMAIN L
  BY DEF Linked, Sentinels
<1>2. U[s].prev = (IF s = L[b].next THEN L[b].prev ELSE L[s].prev)
  BY <1>1 DEF Unlink
<1>3. OnList(L, i, L[s].prev)
  BY DEF TailsOn
<1>4. L[L[b].next].prev = b /\ L[L[s].prev].next = s /\ L[s].prev \in DOMAIN L
  BY <1>1 DEF Linked
<1>5. CASE s = L[b].next
  <2>1. OnList(L, i, b)
    BY <1>3, <1>4, <1>5
  <2>2. OnList(U, i, L[b].prev)
    BY <2>1, UnlinkOnList
  <2> QED  BY <2>2, <1>2, <1>5
<1>6. CASE s # L[b].next
  <2>1. L[s].prev # b
    BY <1>4, <1>6
  <2>2. OnList(U, i, L[s].prev)
    BY <2>1, <1>3, UnlinkOnList
  <2> QED  BY <2>2, <1>2, <1>6
<1> QED  BY <1>5, <1>6

\* Putting a block at a tail makes it the tail of its list.
LEMMA LinkTails ==
    ASSUME NEW L, NEW F, Linked(L, F), TailsOn(L), NEW b, b \notin DOMAIN L,
           NEW j \in 0..(N_LISTS - 1)
    PROVE  TailsOn(LinkTail(L, b, j))
<1> SUFFICES ASSUME NEW i \in 0..(N_LISTS - 1)
             PROVE  OnList(LinkTail(L, b, j), i, LinkTail(L, b, j)[Sentinel(i)].prev)
  BY DEF TailsOn
<1> DEFINE s == Sentinel(i)
           T == LinkTail(L, b, j)
<1>1. s \in DOMAIN L /\ s # b /\ L[s].prev \in DOMAIN L
  BY DEF Linked, Sentinels
<1>2. T[s].prev = (IF s = Sentinel(j) THEN b ELSE L[s].prev)
  BY <1>1 DEF LinkTail
<1>3. CASE i = j
  BY <1>2, <1>3, LinkOnList
<1>4. CASE i # j
  <2>1. s # Sentinel(j)
    BY <1>4, ListsAssumption DEF Sentinel
  <2>2. OnList(L, i, L[s].prev) /\ L[s].prev # b
    BY <1>1 DEF TailsOn
  <2>3. OnList(T, i, L[s].prev)
    BY <2>2, LinkOnList
  <2> QED  BY <2>1, <2>3, <1>2
<1> QED  BY <1>3, <1>4

\* A nonempty set of natural numbers has a least element.
LEMMA LeastExists ==
    ASSUME NEW S \in SUBSET Nat, S # {}
    PROVE  \E x \in S : \A y \in S : x <= y
<1> DEFINE T == {0..x : x \in S}
<1>1. \A x \in S : 0..x \in FiniteSubsetsOf(Nat)
  BY FS_Interval DEF FiniteSubsetsOf
<1>2. T \subseteq FiniteSubsetsOf(Nat) /\ T # {}
  BY <1>1
<1>3. IsWellFoundedOn(StrictSubsetOrdering(Nat), FiniteSubsetsOf(Nat))
  BY FS_StrictSubsetOrderingWellFounded
<1>4. \E I \in T : \A J \in T : ~(<<J, I>> \in StrictSubsetOrdering(Nat))
  <2> HIDE DEF T
  <2> QED  BY <1>2, <1>3, WFMin
<1>5. PICK x \in S : \A y \in S : ~(<<0..y, 0..x>> \in StrictSubsetOrdering(Nat))
  BY <1>4
<1>6. ASSUME NEW y \in S, y < x PROVE FALSE
  <2>1. x \in Nat /\ y \in Nat
    OBVIOUS
  <2>2. 0..y \subseteq 0..x /\ x \in 0..x /\ x \notin 0..y
    BY <2>1, <1>6
  <2>3. <<0..y, 0..x>> \in StrictSubsetOrdering(Nat)
    BY <2>1, <2>2 DEF StrictSubsetOrdering
  <2> QED  BY <2>3, <1>5
<1> QED  BY <1>6

\* What the search of list i computes, block by block.
Searches(f, i, size) ==
    f = [x \in DOMAIN links |->
           IF x = Sentinel(i) THEN NULL
           ELSE IF Fits(x, size) THEN x ELSE f[links[x].next]]

\* The walk along the list ends, at a block that fits or at the sentinel.
LEMMA SearchExists ==
    ASSUME \A x \in DOMAIN links : links[x].next \in DOMAIN links,
           NEW i, NEW size, ~Fits(Sentinel(i), size)
    PROVE  \E f : Searches(f, i, size)
<1> DEFINE Stops(x)  == x = Sentinel(i) \/ Fits(x, size)
           Closed(S) == \A z \in S : Stops(z) \/ links[z].next \in S
           Walk(x)   == {y \in DOMAIN links :
                           \A S \in SUBSET DOMAIN links : x \in S /\ Closed(S) => y \in S}
           Hits(x)   == {y \in Walk(x) : Fits(y, size)}
           g         == [x \in DOMAIN links |->
                           IF Hits(x) = {} THEN NULL ELSE CHOOSE y : y \in Hits(x)]
<1>1. ASSUME NEW x \in DOMAIN links, Stops(x) PROVE Walk(x) = {x}
  <2>1. x \in Walk(x)
    OBVIOUS
  <2>2. {x} \in SUBSET DOMAIN links /\ x \in {x} /\ Closed({x})
    BY <1>1
  <2>3. \A y \in Walk(x) : y \in {x}
    BY <2>2
  <2> QED  BY <2>1, <2>3
<1>2. ASSUME NEW x \in DOMAIN links, ~Stops(x) PROVE Hits(x) = Hits(links[x].next)
  <2> DEFINE n == links[x].next
  <2>1. n \in DOMAIN links
    OBVIOUS
  <2>2. ASSUME NEW y \in Walk(n) PROVE y \in Walk(x)
    <3>1. \A S \in SUBSET DOMAIN links : x \in S /\ Closed(S) => n \in S
      BY <1>2
    <3> QED  BY <3>1
  <2>3. ASSUME NEW y \in Walk(x), y # x PROVE y \in Walk(n)
    <3> SUFFICES ASSUME NEW S \in SUBSET DOMAIN links, n \in S, Closed(S) PROVE y \in S
      OBVIOUS
    <3>1. S \cup {x} \in SUBSET DOMAIN links /\ Closed(S \cup {x})
      OBVIOUS
    <3>2. y \in S \cup {x}
      BY <3>1
    <3> QED  BY <3>2, <2>3
  <2> HIDE DEF Walk, n
  <2>4. ~Fits(x, size)
    BY <1>2
  <2>5. \A y : y \in Hits(x) <=> y \in Hits(n)
    BY <2>2, <2>3, <2>4
  <2> QED  BY <2>5 DEF n
<1>3. ASSUME NEW x \in DOMAIN links
      PROVE  g[x] = (IF x = Sentinel(i) THEN NULL
                     ELSE IF Fits(x, size) THEN x ELSE g[links[x].next])
  <2>1. CASE x = Sentinel(i)
    <3>1. Hits(x) = {}
      BY <1>1, <2>1
    <3> QED  BY <3>1, <2>1
  <2>2. CASE x # Sentinel(i) /\ Fits(x, size)
    <3>1. Hits(x) = {x}
      BY <1>1, <2>2
    <3> HIDE DEF Hits
    <3>2. g[x] = CHOOSE y : y \in {x}
      BY <3>1
    <3> QED  BY <3>2, <2>2
  <2>3. CASE x # Sentinel(i) /\ ~Fits(x, size)
    <3>1. Hits(x) = Hits(links[x].next) /\ links[x].next \in DOMAIN links
      BY <1>2, <2>3
    <3> HIDE DEF Hits
    <3> QED  BY <3>1, <2>3
  <2> QED  BY <2>1, <2>2, <2>3
<1> HIDE DEF g
<1>4. DOMAIN g = DOMAIN links /\ g = [x \in DOMAIN g |-> g[x]]
  BY DEF g
<1>5. g = [x \in DOMAIN links |->
             IF x = Sentinel(i) THEN NULL
             ELSE IF Fits(x, size) THEN x ELSE g[links[x].next]]
  BY <1>3, <1>4
<1> QED  BY <1>5 DEF Searches

\* A list without a hit holds no block that fits.
LEMMA NoHit ==
    ASSUME Good, \A b \in blocks : b # NULL, NEW i \in 0..(N_LISTS - 1), NEW size,
           FirstFitIn(i, size) = NULL,
           NEW b \in FreeIn(mem, blocks), OnList(links, i, b)
    PROVE  ~Fits(b, size)
<1>1. /\ Linked(links, FreeIn(mem, blocks)) /\ Typed(mem) /\ FreeIn(mem, blocks) \subseteq blocks
      /\ blocks \subseteq Nat
  BY DEF Good, InOrder, Heap, FreeIn
<1>2. /\ \A x \in DOMAIN links : links[x].next \in DOMAIN links
      /\ Sentinel(i) \in DOMAIN links /\ Sentinel(i) \in Sentinels
      /\ DOMAIN links = Sentinels \cup FreeIn(mem, blocks)
  BY <1>1 DEF Linked, Sentinels
<1>3. ~Fits(Sentinel(i), size) /\ b # Sentinel(i)
  BY <1>1, <1>2, SentinelsNegative DEF Fits, Typed
<1>4. \A x \in DOMAIN links : Fits(x, size) => x # NULL
  <2> SUFFICES ASSUME NEW x \in DOMAIN links, Fits(x, size) PROVE x # NULL
    OBVIOUS
  <2>1. CASE x \in Sentinels
    BY <2>1, <1>1, SentinelsNegative DEF Fits, Typed, NULL
  <2>2. CASE x \in FreeIn(mem, blocks)
    BY <2>2, <1>1
  <2> QED  BY <2>1, <2>2, <1>2
<1>5. \E f : Searches(f, i, size)
  BY <1>2, <1>3, SearchExists
<1>6. FirstFitIn(i, size) = (CHOOSE f : Searches(f, i, size))[links[Sentinel(i)].next]
  BY DEF FirstFitIn, Searches
<1>7. PICK f : Searches(f, i, size) /\ f[links[Sentinel(i)].next] = NULL
  BY <1>5, <1>6
<1> DEFINE S == {x \in DOMAIN links : x = Sentinel(i) \/ f[x] = NULL}
<1>8. \A x \in DOMAIN links :
         f[x] = (IF x = Sentinel(i) THEN NULL
                 ELSE IF Fits(x, size) THEN x ELSE f[links[x].next])
  BY <1>7 DEF Searches
<1>9. ASSUME NEW x \in S PROVE links[x].next \in S
  <2>1. CASE x = Sentinel(i)
    BY <2>1, <1>2, <1>7
  <2>2. CASE x # Sentinel(i)
    <3>1. x \in DOMAIN links /\ f[x] = NULL
      BY <2>2
    <3>2. ~Fits(x, size)
      BY <3>1, <2>2, <1>4, <1>8
    <3> QED  BY <3>1, <3>2, <2>2, <1>2, <1>8
  <2> QED  BY <2>1, <2>2
<1>10. S \in SUBSET DOMAIN links /\ Follows(links, S, i)
  BY <1>2, <1>9 DEF Follows
<1>11. b \in S
  BY <1>10 DEF OnList
<1>12. f[b] = NULL /\ b \in DOMAIN links
  BY <1>3, <1>11
<1> QED  BY <1>3, <1>4, <1>8, <1>12

\* A search that finds nothing has looked at every free block that is large
\* enough.
LEMMA NothingFound ==
    ASSUME Good, \A b \in blocks : b # NULL, NEW size \in Nat,
           Findable(mem, links, FreeIn(mem, blocks)), FirstFit(size) = NULL
    PROVE  \A b \in FreeIn(mem, blocks) : mem[b].size < size
<1> DEFINE hits == {i \in ListIndex(size)..(N_LISTS - 1) : FirstFitIn(i, size) # NULL}
<1>1. ListIndex(size) \in 0..(N_LISTS - 1)
  BY ListIndexRange
<1>2. hits = {}
  <2> SUFFICES ASSUME hits # {} PROVE FALSE
    OBVIOUS
  <2>1. FirstFit(size) = FirstFitIn(Min(hits), size)
    BY DEF FirstFit
  <2>2. hits \in SUBSET Nat
    BY <1>1, ListsAssumption
  <2>3. \E i \in hits : \A j \in hits : i <= j
    <3> HIDE DEF hits
    <3> QED  BY <2>2, LeastExists
  <2>4. Min(hits) \in hits
    <3> HIDE DEF hits
    <3> QED  BY <2>3 DEF Min
  <2> QED  BY <2>1, <2>4
<1> SUFFICES ASSUME NEW b \in FreeIn(mem, blocks), ~(mem[b].size < size) PROVE FALSE
  OBVIOUS
<1>3. b \in DOMAIN mem /\ mem[b].size \in Nat /\ mem[b].state = "UNALLOCATED"
  <2>1. Heap(mem, blocks, brk) /\ b \in blocks
    BY DEF Good, InOrder, FreeIn
  <2> QED  BY <2>1, HeaderType DEF FreeIn, IsFree
<1>4. Fits(b, size) /\ size <= mem[b].size
  BY <1>3 DEF Fits
<1>5. PICK i \in ListIndex(mem[b].size)..(N_LISTS - 1) : OnList(links, i, b)
  BY DEF Findable
<1>6. ListIndex(size) <= ListIndex(mem[b].size) /\ ListIndex(mem[b].size) \in 0..(N_LISTS - 1)
  <2>1. ListIndex(mem[b].size) \in 0..(N_LISTS - 1)
    BY <1>3, ListIndexRange
  <2>2. ListIndex(size) <= ListIndex(mem[b].size)
    BY <1>3, <1>4, ListsAssumption DEF ListIndex, MIN_BLOCK, HEADER, MIN_DATA
  <2> QED  BY <2>1, <2>2
<1>7. i \in ListIndex(size)..(N_LISTS - 1) /\ i \in 0..(N_LISTS - 1)
  BY <1>1, <1>5, <1>6, ListsAssumption
<1>8. FirstFitIn(i, size) = NULL
  BY <1>2, <1>7
<1> QED  BY <1>4, <1>5, <1>7, <1>8, NoHit

\* The lists lead to every free block from where a search for its size starts.
ListsLead ==
    /\ TailsOn(links)
    /\ Findable(mem, links, FreeIn(mem, blocks))
    /\ brk >= BASE /\ \A b \in blocks : b >= BASE

SearchInv == ~seam => ListsLead

\* A list that loses a block still leads to the others.
LEMMA UnlinkFindable ==
    ASSUME NEW m, NEW L, NEW F, Linked(L, F), Findable(m, L, F), F \subseteq Nat,
           \A b \in F : m[b].size \in Nat, NEW b \in F
    PROVE  Findable(m, Unlink(L, b), F \ {b})
<1> SUFFICES ASSUME NEW a \in F \ {b}
             PROVE  \E i \in ListIndex(m[a].size)..(N_LISTS - 1) : OnList(Unlink(L, b), i, a)
  BY DEF Findable
<1>1. PICK i \in ListIndex(m[a].size)..(N_LISTS - 1) : OnList(L, i, a)
  BY DEF Findable
<1>2. i \in 0..(N_LISTS - 1)
  <2>1. ListIndex(m[a].size) \in 0..(N_LISTS - 1)
    BY ListIndexRange
  <2> QED  BY <2>1, ListsAssumption
<1>3. b \notin Sentinels
  BY SentinelsNegative
<1> QED  BY <1>1, <1>2, <1>3, UnlinkOnList

\* An operation that ends by putting block b on the list of its size, out of a
\* state of the lists L that leads to the other free blocks F.
LEMMA LinkStep ==
    ASSUME Good', NEW L, NEW F, Linked(L, F), TailsOn(L), F \subseteq Nat,
           Findable(mem, L, F), \A a \in F : mem[a].size \in Nat,
           NEW b \in Nat, b \notin F, NEW j \in 0..(N_LISTS - 1),
           links' = LinkTail(L, b, j),
           b \in DOMAIN mem' => j = ListIndex(mem'[b].size),
           \A a \in F \cap DOMAIN mem' : mem'[a].size = mem[a].size
    PROVE  TailsOn(links') /\ Findable(mem', links', FreeIn(mem', blocks'))
<1>1. /\ DOMAIN links' = Sentinels \cup FreeIn(mem', blocks')
      /\ blocks' \subseteq DOMAIN mem' /\ blocks' \subseteq Nat /\ Typed(mem')
  BY DEF Good, InOrder, Linked, Heap, Tiled
<1>2. DOMAIN links' = Sentinels \cup (F \cup {b}) /\ DOMAIN L = Sentinels \cup F
  BY DEF LinkTail, Linked
<1>3. b \notin DOMAIN L
  BY <1>2, SentinelsNegative
<1>4. FreeIn(mem', blocks') = F \cup {b}
  <2>1. FreeIn(mem', blocks') \subseteq Nat
    BY <1>1 DEF FreeIn
  <2> QED  BY <2>1, <1>1, <1>2, SentinelsNegative
<1>5. F \cup {b} \subseteq DOMAIN mem'
  BY <1>1, <1>4 DEF FreeIn
<1>6. ASSUME NEW a \in F
      PROVE  \E i \in ListIndex(mem'[a].size)..(N_LISTS - 1) : OnList(links', i, a)
  <2>1. PICK i \in ListIndex(mem[a].size)..(N_LISTS - 1) : OnList(L, i, a)
    BY DEF Findable
  <2>2. ListIndex(mem[a].size) \in 0..(N_LISTS - 1) /\ mem'[a].size = mem[a].size
    BY <1>5, ListIndexRange
  <2>3. i \in 0..(N_LISTS - 1)
    BY <2>1, <2>2, ListsAssumption
  <2> QED  BY <2>1, <2>2, <2>3, <1>3, LinkOnList
<1>7. \E i \in ListIndex(mem'[b].size)..(N_LISTS - 1) : OnList(links', i, b)
  <2>1. j = ListIndex(mem'[b].size)
    BY <1>5
  <2>2. OnList(links', j, b)
    BY <1>3, LinkOnList
  <2> QED  BY <2>1, <2>2, ListsAssumption
<1>8. TailsOn(links')
  BY <1>3, LinkTails
<1> QED  BY <1>4, <1>6, <1>7, <1>8 DEF Findable

\* What the steps below use of a heap in order.
LEMMA FreeFacts ==
    ASSUME Good
    PROVE  /\ Linked(links, FreeIn(mem, blocks)) /\ Typed(mem)
           /\ blocks \subseteq Nat /\ blocks \subseteq DOMAIN mem /\ brk \in Nat
           /\ FreeIn(mem, blocks) \subseteq blocks
           /\ \A a \in blocks : mem[a].size \in Nat
           /\ \A a \in FreeIn(mem, blocks) : a \notin Sentinels /\ mem[a].state = "UNALLOCATED"
<1>1. /\ Linked(links, FreeIn(mem, blocks)) /\ Heap(mem, blocks, brk)
      /\ Typed(mem) /\ blocks \subseteq Nat /\ blocks \subseteq DOMAIN mem /\ brk \in Nat
  BY DEF Good, InOrder, Heap, Tiled
<1>2. \A a \in blocks : mem[a].size \in Nat
  BY <1>1, HeaderType
<1>3. \A a \in FreeIn(mem, blocks) : a \in blocks /\ mem[a].state = "UNALLOCATED"
  BY DEF FreeIn, IsFree
<1> QED  BY <1>1, <1>2, <1>3, SentinelsNegative

\* my_malloc takes the block it returns off its list and puts the rest back.
LEMMA FitLeads ==
    ASSUME Good, Good', ListsLead, want # 0, NEW b \in DOMAIN links, Fits(b, want),
           SplitFit(b) \/ WholeFit(b), held' = held \cup {b}, brk' = brk
    PROVE  ListsLead'
<1>1. b \in FreeIn(mem, blocks) /\ b \in Nat /\ want \in Nat
  <2>1. b \in DOMAIN mem /\ DOMAIN links = Sentinels \cup FreeIn(mem, blocks)
    BY FreeFacts DEF Fits, Linked
  <2> QED  BY <2>1, FreeFacts, SentinelsNegative DEF Typed, Good
<1> DEFINE L == Unlink(links, b)
           F == FreeIn(mem, blocks) \ {b}
<1>2. /\ Linked(L, F) /\ TailsOn(L) /\ Findable(mem, L, F)
      /\ F \subseteq Nat /\ F \subseteq blocks /\ \A a \in F : mem[a].size \in Nat
  BY <1>1, FreeFacts, UnlinkLinked, UnlinkTails, UnlinkFindable DEF ListsLead
<1>3. /\ \A a \in blocks \cap DOMAIN mem' : a # b => mem'[a].size = mem[a].size
      /\ SplitFit(b) => /\ b + want \notin blocks
                        /\ b + want \in DOMAIN mem' => mem'[b + want].size = mem[b].size - want
  BY FitSizes
<1> HIDE DEF L, F
<1>4. \A a \in F \cap DOMAIN mem' : mem'[a].size = mem[a].size
  BY <1>1, <1>2, <1>3 DEF F
<1>5. CASE WholeFit(b)
  <2>1. links' = L /\ blocks' = blocks
    BY <1>5 DEF WholeFit, L
  <2>2. DOMAIN links' = Sentinels \cup FreeIn(mem', blocks') /\ DOMAIN L = Sentinels \cup F
    BY <1>2 DEF Good, InOrder, Linked
  <2>3. FreeIn(mem', blocks') = F
    <3>1. FreeIn(mem', blocks') \subseteq Nat
      BY <2>1, FreeFacts DEF FreeIn
    <3> QED  BY <3>1, <2>1, <2>2, <1>2, SentinelsNegative, SMTT(60)
  <2>4. F \subseteq DOMAIN mem'
    <3>1. blocks' \subseteq DOMAIN mem'
      BY DEF Good, InOrder, Heap, Tiled
    <3> QED  BY <3>1, <2>3 DEF FreeIn
  <2>5. Findable(mem', L, F)
    BY <1>2, <1>4, <2>4 DEF Findable
  <2> QED  BY <2>1, <2>3, <2>5, <1>2 DEF ListsLead
<1>6. CASE SplitFit(b)
  <2> DEFINE split == b + want
             rest  == mem[b].size - want
  <2>1. /\ links' = LinkTail(L, split, ListIndex(rest)) /\ blocks' = blocks \cup {split}
        /\ rest >= MIN_BLOCK
    <3>1. Store(mem, split, Tag(rest, "UNALLOCATED", want))[split].size = rest
      BY DEF Store, Tag
    <3> QED  BY <3>1, <1>6 DEF SplitFit, InsertLinks, L
  <2>2. rest \in Nat /\ split \in Nat /\ split >= b
    <3>1. mem[b].size \in Nat /\ b \in Nat
      BY <1>1, FreeFacts
    <3> QED  BY <3>1, <2>1, <1>1 DEF MIN_BLOCK, HEADER, MIN_DATA
  <2>3. ListIndex(rest) \in 0..(N_LISTS - 1)
    BY <2>2, ListIndexRange
  <2>4. split \notin F /\ (split \in DOMAIN mem' => ListIndex(rest) = ListIndex(mem'[split].size))
    BY <1>2, <1>3, <1>6
  <2>5. split >= BASE
    <3>1. b >= BASE
      BY <1>1, FreeFacts DEF ListsLead
    <3> QED  BY <3>1, <2>2, <1>1 DEF BASE
  <2> HIDE DEF split, rest
  <2>6. TailsOn(links') /\ Findable(mem', links', FreeIn(mem', blocks'))
    BY <1>2, <1>4, <2>1, <2>2, <2>3, <2>4, LinkStep
  <2> QED  BY <2>1, <2>5, <2>6 DEF ListsLead
<1> QED  BY <1>5, <1>6

\* my_free takes the neighbours it joins off their lists and puts the whole
\* on the list of its size.
LEMMA FreeLeads ==
    ASSUME Good, Good', ListsLead, NEW h \in held, Free(h)
    PROVE  ListsLead'
<1> DEFINE right == RightHeader(mem, h)
           left  == LeftHeader(mem, h)
<1>1. PICK joinRight \in BOOLEAN, joinLeft \in BOOLEAN :
         /\ joinRight <=> mem[right].state = "UNALLOCATED"
         /\ joinLeft <=> mem[left].state = "UNALLOCATED"
         /\ Coalesce(h, joinRight, joinLeft)
  BY FreeCases
<1>2. /\ h \in blocks /\ mem[h].state = "ALLOCATED" /\ h \in Nat
      /\ right \in blocks /\ left \in blocks /\ left # right
  <2>1. h \in blocks /\ mem[h].state = "ALLOCATED" /\ Heap(mem, blocks, brk)
    BY HeldBlocks DEF Good, InOrder
  <2>2. right \in blocks /\ left \in blocks
    BY <2>1 DEF Heap, Tiled, IsLeftFence, IsFence
  <2>3. /\ h \in Nat /\ mem[h].size \in Nat /\ mem[h].size >= HEADER /\ mem[h].left \in Nat
    BY <2>1, HeaderType
  <2>4. left # right
    BY <2>3 DEF RightHeader, LeftHeader, HEADER
  <2> QED  BY <2>1, <2>2, <2>3, <2>4
<1> DEFINE top == Top(h, joinLeft)
           F0 == FreeIn(mem, blocks)
           F1 == IF joinRight THEN F0 \ {right} ELSE F0
           F2 == IF joinLeft THEN F1 \ {left} ELSE F1
           L1 == IF joinRight THEN Unlink(links, right) ELSE links
           L2 == IF joinLeft THEN Unlink(L1, top) ELSE L1
<1>3. /\ Linked(links, F0) /\ TailsOn(links) /\ Findable(mem, links, F0)
      /\ F0 \subseteq Nat /\ \A a \in F0 : mem[a].size \in Nat /\ a \notin Sentinels
      /\ h \notin F0 /\ F0 \subseteq blocks
  BY <1>2, FreeFacts DEF ListsLead
<1>4. /\ joinRight => right \in F0
      /\ joinLeft => left \in F0 /\ left \in F1 /\ top = left
      /\ ~joinLeft => top = h
  BY <1>1, <1>2 DEF FreeIn, IsFree, Top
<1>5. \E j \in 0..(N_LISTS - 1) : /\ links' = LinkTail(L2, top, j)
                                  /\ top \in DOMAIN mem' => j = ListIndex(mem'[top].size)
  BY <1>1, CoalesceSizes
<1>6. \A a \in DOMAIN mem' : a \notin {h, top} => mem'[a].size = mem[a].size
  BY <1>1, CoalesceSizes
<1>7. blocks' \subseteq blocks /\ brk' = brk
  BY <1>1 DEF Coalesce, Free, arenaVars
<1> HIDE DEF F0, right, left, top
<1>8. Linked(L1, F1) /\ TailsOn(L1) /\ Findable(mem, L1, F1) /\ F1 \subseteq F0
  BY <1>3, <1>4, UnlinkLinked, UnlinkTails, UnlinkFindable
<1> HIDE DEF L1, F1
<1>9. Linked(L2, F2) /\ TailsOn(L2) /\ Findable(mem, L2, F2) /\ F2 \subseteq F0
  BY <1>3, <1>4, <1>8, UnlinkLinked, UnlinkTails, UnlinkFindable
<1>10. top \notin F2 /\ h \notin F2 /\ top \in Nat
  BY <1>2, <1>3, <1>4, <1>8
<1> HIDE DEF L2, F2
<1>11. \A a \in F2 \cap DOMAIN mem' : mem'[a].size = mem[a].size
  BY <1>6, <1>10
<1>12. F2 \subseteq Nat /\ \A a \in F2 : mem[a].size \in Nat
  BY <1>3, <1>9
<1>13. TailsOn(links') /\ Findable(mem', links', FreeIn(mem', blocks'))
  BY <1>5, <1>9, <1>10, <1>11, <1>12, LinkStep
<1> QED  BY <1>7, <1>13 DEF ListsLead

\* An arena that stands apart brings one free block, the old ones stay.
LEMMA ApartLeads ==
    ASSUME Good, Good', ListsLead, GrowApart
    PROVE  ListsLead'
<1> DEFINE base  == brk + 1
           block == base + HEADER
           new   == {base, block, RightFence(base)}
           n     == ChunkTags(mem, base)
           F     == FreeIn(mem, blocks)
<1>1. /\ mem' = n /\ links' = LinkTail(links, block, ListIndex(n[block].size))
      /\ blocks' = blocks \cup new /\ brk' = base + ARENA
  BY DEF GrowApart, TakeArena, InsertLinks
<1>2. /\ Linked(links, F) /\ TailsOn(links) /\ Findable(mem, links, F)
      /\ F \subseteq Nat /\ F \subseteq blocks /\ \A a \in F : mem[a].size \in Nat
      /\ brk \in Nat /\ brk >= BASE /\ \A a \in blocks : a >= BASE
  BY FreeFacts DEF ListsLead
<1>3. /\ \A a \in blocks : a \notin new /\ n[a] = mem[a]
      /\ base \in Nat
  <2>1. base \in Nat /\ brk <= base
    BY <1>2
  <2> QED  BY <2>1, ChunkKeeps DEF Good, InOrder
<1>4. n[block].size \in Nat /\ block \in Nat /\ \A a \in new : a >= BASE
  <2>1. Typed(mem)
    BY FreeFacts
  <2>2. /\ n[block] = Tag(ARENA - 2 * HEADER, "UNALLOCATED", HEADER)
        /\ RightFence(base) \in Nat /\ block \in Nat /\ ARENA - 2 * HEADER \in Nat
    BY <2>1, <1>3, ChunkHeaders
  <2>3. \A a \in new : a >= BASE
    BY <1>2, <2>2, ArenaAssumption DEF RightFence, HEADER, BASE, MIN_BLOCK, MIN_DATA
  <2> QED  BY <2>2, <2>3 DEF Tag
<1>5. ListIndex(n[block].size) \in 0..(N_LISTS - 1) /\ block \in new
  BY <1>4, ListIndexRange
<1> HIDE DEF n, F, block, new
<1>6. TailsOn(links') /\ Findable(mem', links', FreeIn(mem', blocks'))
  BY <1>1, <1>2, <1>3, <1>4, <1>5, LinkStep
<1>7. brk' >= BASE
  BY <1>1, <1>2, ArenaAssumption DEF BASE
<1> QED  BY <1>1, <1>2, <1>4, <1>6, <1>7 DEF ListsLead

\* An arena that is merged moves the block before it to the list of its new
\* size.
LEMMA MergeLeads ==
    ASSUME Good, Good', ListsLead, GrowMerge
    PROVE  ListsLead'
<1> DEFINE base   == brk
           left   == LeftHeader(mem, lastFence)
           fence  == RightFence(base)
           merged == fence - left
           n0 == ChunkTags(mem, base)
           n1 == Store(n0, left, Tag(merged, "UNALLOCATED", mem[left].left))
           n2 == SetLeft(n1, fence, merged)
           F  == FreeIn(mem, blocks) \ {left}
           L  == Unlink(links, left)
<1>1. /\ mem' = InsertMem(n2, left)
      /\ links' = LinkTail(L, left, ListIndex(n2[left].size))
      /\ blocks' = (blocks \ {lastFence}) \cup {fence} /\ brk' = base + ARENA
      /\ left \in DOMAIN links /\ left \in DOMAIN mem /\ lastFence + HEADER = base
  BY DEF GrowMerge, TakeArena, InsertLinks
<1>2. left \in FreeIn(mem, blocks)
  BY <1>1, FreeFacts, SentinelsNegative DEF Linked, Typed
<1>3. /\ Linked(L, F) /\ TailsOn(L) /\ Findable(mem, L, F)
      /\ F \subseteq Nat /\ F \subseteq blocks /\ \A a \in F : mem[a].size \in Nat
      /\ brk \in Nat /\ brk >= BASE /\ \A a \in blocks : a >= BASE
      /\ left \in Nat /\ left \notin F
  BY <1>2, FreeFacts, UnlinkLinked, UnlinkTails, UnlinkFindable DEF ListsLead
<1>4. /\ \A a \in blocks : a \in DOMAIN mem /\ a < base /\ n0[a] = mem[a]
      /\ fence \in Nat /\ DOMAIN n0 = DOMAIN mem \cup {base, base + HEADER, fence} /\ base < fence
  <2>1. Heap(mem, blocks, brk) /\ brk <= brk /\ Typed(mem) /\ blocks \subseteq DOMAIN mem
    BY <1>3, FreeFacts DEF Good, InOrder
  <2>2. \A a \in blocks : a < base /\ n0[a] = mem[a]
    BY <2>1, <1>3, ChunkKeeps
  <2>3. fence \in Nat /\ DOMAIN n0 = DOMAIN mem \cup {base, base + HEADER, fence}
    BY <2>1, <1>3, ChunkHeaders
  <2>4. base < fence
    BY <1>3, ArenaAssumption DEF RightFence, HEADER, MIN_BLOCK, MIN_DATA
  <2> QED  BY <2>1, <2>2, <2>3, <2>4
<1>5. left < fence /\ merged \in Nat
  <2>1. left < base
    BY <1>2, <1>4, FreeFacts
  <2> QED  BY <2>1, <1>3, <1>4
<1> HIDE DEF n0, F, L, left, fence
<1>6. n1[left].size = merged /\ \A a \in DOMAIN n0 \ {left} : n1[a] = n0[a] /\ a \in DOMAIN n1
  BY DEF Store, Tag
<1>7. left \in DOMAIN n1 /\ DOMAIN n1 = DOMAIN n0 \cup {left}
  BY DEF Store
<1> HIDE DEF n1, merged
<1>8. DOMAIN n2 = DOMAIN n1 /\ \A a \in DOMAIN n1 : n2[a].size = n1[a].size
  BY DEF SetLeft, Tag
<1> HIDE DEF n2
<1>9. \A a \in DOMAIN mem' : mem'[a] = n2[a]
  BY <1>1, ClobberKeeps DEF InsertMem
<1>10. ListIndex(n2[left].size) \in 0..(N_LISTS - 1)
  BY <1>5, <1>6, <1>7, <1>8, ListIndexRange
<1>11. \A a \in F \cap DOMAIN mem' : mem'[a].size = mem[a].size
  BY <1>3, <1>4, <1>6, <1>8, <1>9
<1>12. left \in DOMAIN mem' => ListIndex(n2[left].size) = ListIndex(mem'[left].size)
  BY <1>9
<1>13. TailsOn(links') /\ Findable(mem', links', FreeIn(mem', blocks'))
  BY <1>1, <1>3, <1>10, <1>11, <1>12, LinkStep
<1>14. brk' >= BASE /\ fence >= BASE
  BY <1>1, <1>3, <1>4, ArenaAssumption DEF BASE
<1> QED  BY <1>1, <1>3, <1>13, <1>14 DEF ListsLead

\* init puts the first block on the last list, where every search ends.
LEMMA InitLeads == Init => ListsLead
<1> SUFFICES ASSUME Init PROVE ListsLead
  OBVIOUS
<1> DEFINE block == BASE + HEADER
           fence == RightFence(BASE)
           last  == Sentinel(N_LISTS - 1)
<1>1. Good /\ seam = FALSE
  BY InitGood DEF Init, HeapInv
<1>2. blocks = {BASE, block, fence} /\ brk = BASE + ARENA
      /\ links = [x \in Sentinels \cup {block} |->
                    CASE x = block -> [next |-> last, prev |-> last]
                      [] x = last  -> [next |-> block, prev |-> block]
                      [] OTHER     -> [next |-> x, prev |-> x]]
  BY DEF Init
<1>3. /\ DOMAIN links = Sentinels \cup FreeIn(mem, blocks)
      /\ FreeIn(mem, blocks) \subseteq Nat /\ \A a \in blocks : mem[a].size \in Nat
      /\ FreeIn(mem, blocks) \subseteq blocks
  BY <1>1, FreeFacts DEF Linked
<1>4. block \in Nat /\ block \notin Sentinels /\ last \in Sentinels /\ block # last
  <2>1. last \in Sentinels
    BY ListsAssumption DEF Sentinels
  <2>2. block \in Nat
    BY DEF BASE, HEADER
  <2> QED  BY <2>1, <2>2, SentinelsNegative
<1>5. brk >= BASE /\ \A b \in blocks : b >= BASE
  BY <1>2, ArenaAssumption DEF RightFence, BASE, HEADER, MIN_BLOCK, MIN_DATA
<1> HIDE DEF block, fence, last
<1>6. /\ links[last].next = block /\ links[last].prev = block
      /\ \A x \in Sentinels \ {last} : links[x].prev = x
  BY <1>2, <1>4
<1>7. FreeIn(mem, blocks) = {block}
  <2>1. DOMAIN links = Sentinels \cup {block}
    BY <1>2
  <2> QED  BY <2>1, <1>3, <1>4, SentinelsNegative
<1>8. OnList(links, N_LISTS - 1, block)
  BY <1>6 DEF OnList, Follows, last
<1>9. TailsOn(links)
  <2> SUFFICES ASSUME NEW i \in 0..(N_LISTS - 1) PROVE OnList(links, i, links[Sentinel(i)].prev)
    BY DEF TailsOn
  <2>1. CASE i = N_LISTS - 1
    BY <2>1, <1>6, <1>8 DEF last
  <2>2. CASE i # N_LISTS - 1
    <3>1. Sentinel(i) \in Sentinels \ {last}
      BY <2>2, ListsAssumption DEF Sentinels, Sentinel, last
    <3>2. links[Sentinel(i)].prev = Sentinel(i)
      BY <3>1, <1>6
    <3> QED  BY <3>2 DEF OnList, Follows
  <2> QED  BY <2>1, <2>2
<1>10. Findable(mem, links, FreeIn(mem, blocks))
  <2>1. ListIndex(mem[block].size) \in 0..(N_LISTS - 1)
    BY <1>3, <1>7, ListIndexRange
  <2>2. N_LISTS - 1 \in ListIndex(mem[block].size)..(N_LISTS - 1)
    BY <2>1, ListsAssumption
  <2> QED  BY <2>2, <1>7, <1>8 DEF Findable
<1> QED  BY <1>5, <1>9, <1>10 DEF ListsLead

\* Every step keeps the lists leading to the free blocks.
LEMMA NextLeads == HeapInv /\ HeapInv' /\ SearchInv /\ [Next]_vars => SearchInv'
<1> SUFFICES ASSUME HeapInv, HeapInv', SearchInv, [Next]_vars, ~seam' PROVE ListsLead'
  BY DEF SearchInv
<1>1. ~seam
  BY DEF HeapInv, Next, CallMalloc, Allocate, Fit, GrowFails, GrowApart, GrowMerge, GrowSeam,
     GrowWild, Free, InvalidFree, arenaVars, vars
<1>2. Good /\ Good' /\ ListsLead
  BY <1>1 DEF HeapInv, SearchInv
<1>3. CASE UNCHANGED <<mem, links, blocks, brk>>
  BY <1>2, <1>3 DEF ListsLead
<1>4. CASE Fit
  <2>1. want # 0 /\ brk' = brk
    BY <1>4 DEF Fit, arenaVars
  <2>2. PICK b \in DOMAIN links : /\ Fits(b, want) /\ (SplitFit(b) \/ WholeFit(b))
                                  /\ held' = held \cup {b}
    BY <1>4 DEF Fit, ReturnBlock
  <2> QED  BY <1>2, <2>1, <2>2, FitLeads
<1>5. CASE GrowApart
  BY <1>2, <1>5, ApartLeads
<1>6. CASE GrowMerge
  BY <1>2, <1>6, MergeLeads
<1>7. ASSUME GrowSeam PROVE FALSE
  BY <1>7 DEF GrowSeam
<1>8. ASSUME GrowWild PROVE FALSE
  <2>1. fault' = "wild"
    BY <1>8 DEF GrowWild
  <2> QED  BY <2>1, <1>2 DEF Good
<1>9. ASSUME NEW h \in held, Free(h) PROVE ListsLead'
  BY <1>2, <1>9, FreeLeads
<1>10. ASSUME NEW p \in DOMAIN mem, InvalidFree(p) PROVE UNCHANGED <<mem, links, blocks, brk>>
  BY <1>10 DEF InvalidFree, heapVars, arenaVars
<1>11. ASSUME NEW raw \in Requests, CallMalloc(raw) PROVE UNCHANGED <<mem, links, blocks, brk>>
  BY <1>11 DEF CallMalloc, heapVars, arenaVars
<1>12. GrowFails => UNCHANGED <<mem, links, blocks, brk>>
  BY DEF GrowFails, heapVars, arenaVars
<1>13. UNCHANGED vars => UNCHANGED <<mem, links, blocks, brk>>
  BY DEF vars, heapVars, arenaVars
<1> QED
  BY <1>3, <1>4, <1>5, <1>6, <1>7, <1>8, <1>9, <1>10, <1>11, <1>12, <1>13 DEF Next, Allocate

\* The heap grows only after a search that found nothing.
LEMMA GrowsWhenFull ==
    ASSUME HeapInv, SearchInv, ~seam, [Next]_vars, brk' # brk
    PROVE  \A b \in FreeBlocks : mem[b].size < want
<1>1. NothingFits
  BY DEF Next, CallMalloc, Allocate, Fit, GrowFails, GrowApart, GrowMerge, GrowSeam, GrowWild,
     Free, InvalidFree, arenaVars, vars
<1>2. Good /\ ListsLead /\ want \in Nat /\ FirstFit(want) = NULL
  BY <1>1 DEF HeapInv, SearchInv, Good, NothingFits
<1>3. \A b \in blocks : b # NULL
  <2>1. \A b \in blocks : b \in Nat /\ b >= BASE
    BY <1>2, FreeFacts DEF ListsLead
  <2> QED  BY <2>1 DEF BASE, NULL
<1>4. \A b \in FreeIn(mem, blocks) : mem[b].size < want
  BY <1>2, <1>3, NothingFound DEF ListsLead
<1> QED  BY <1>4 DEF FreeIn, FreeBlocks

-----------------------------------------------------------------------------
(* Theorems.                                                               *)

\* The invariant of the allocator: the heap is in order after every step of
\* my_malloc and my_free, until a growth keeps an allocated left neighbour.
THEOREM HeapInvariant == Spec => []HeapInv
<1>1. Init => HeapInv
  BY InitGood
<1>2. HeapInv /\ [Next]_vars => HeapInv'
  BY NextGood
<1> QED  BY <1>1, <1>2, PTL DEF Spec

\* Every variable keeps its type, until then.
THEOREM HeapTypes == Spec => [](~seam => TypeOK)
<1>1. HeapInv => (~seam => TypeOK)
  <2> SUFFICES ASSUME HeapInv, ~seam PROVE TypeOK
    OBVIOUS
  <2>1. Good
    BY DEF HeapInv
  <2>2. Heap(mem, blocks, brk) /\ Typed(mem) /\ blocks \subseteq Nat /\ brk \in Nat
    BY <2>1 DEF Good, InOrder, Heap
  <2>3. held \subseteq Nat /\ lastFence \in Nat
    BY <2>1, <2>2 DEF Good, InOrder, AllocIn, RightFenceAt
  <2> QED  BY <2>1, <2>2, <2>3 DEF TypeOK, HeapInv, Good, InOrder, Typed, LinksTyped, Faults
<1> QED  BY <1>1, HeapInvariant, PTL

\* Left and right sizes agree and the headers tile the heap, after any
\* sequence of splits, joins and merging growth, before growth beside an
\* allocated block.
THEOREM TagsAgree == Spec => []BoundaryTagsAgree
<1>1. HeapInv => BoundaryTagsAgree
  BY DEF HeapInv, Good, InOrder, Heap, BoundaryTagsAgree
<1> QED  BY <1>1, HeapInvariant, PTL

\* No two blocks overlap: no word is given to two clients, before such a
\* growth; after it the code does (ClientsApart).
THEOREM NoOverlap == Spec => []BlocksApart
<1>1. HeapInv => BlocksApart
  BY DEF HeapInv, Good, InOrder, Heap, BlocksApart
<1> QED  BY <1>1, HeapInvariant, PTL

\* The free lists hold the free blocks, each once, linked both ways, before
\* such a growth.
THEOREM ListsAreTheFreeBlocks == Spec => []ListsHoldFreeBlocks
<1>1. HeapInv => ListsHoldFreeBlocks
  BY DEF HeapInv, Good, InOrder, FreeIn, FreeBlocks, ListsHoldFreeBlocks
<1> QED  BY <1>1, HeapInvariant, PTL

\* deallocate_object joins every pair of free neighbours, before such a growth.
THEOREM AlwaysCoalesced == Spec => []Coalesced
<1>1. HeapInv => Coalesced
  BY DEF HeapInv, Good, InOrder, FreeIn, FreeBlocks, Coalesced
<1> QED  BY <1>1, HeapInvariant, PTL

\* Every pointer that is no allocation is caught when it is freed, as long as
\* the header in front of it is intact: no other header reads ALLOCATED, before
\* such a growth.
THEOREM InvalidFreesCaught == Spec => [](HeldAreAllocated /\ StaleTagsNotAllocated)
<1>1. HeapInv => HeldAreAllocated /\ StaleTagsNotAllocated
  BY DEF HeapInv, Good, InOrder, AllocIn, HeldAreAllocated, StaleTagsNotAllocated
<1> QED  BY <1>1, HeapInvariant, PTL

\* Neither my_malloc nor my_free follows a pointer that is none, before such a
\* growth.
THEOREM NoWildPointer == Spec => []NoWildAccess
<1>1. HeapInv => NoWildAccess
  BY DEF HeapInv, Good, NoWildAccess
<1> QED  BY <1>1, HeapInvariant, PTL

\* What my_malloc and my_free do to a heap in order is what an allocator
\* promises: no word belongs to two clients, and no block is smaller than the
\* request, moves or changes its size.  This covers the step that keeps an
\* allocated left neighbour, which ends the order of the heap.
THEOREM HeapKeepsPromises == RequestsFit => (Spec => ImplementsAbstractHeap)
<1> SUFFICES ASSUME RequestsFit PROVE Spec => ImplementsAbstractHeap
  OBVIOUS
<1>1. Init => HeapInv /\ BreakBounded /\ Abstract!Init
  <2>1. Init => BreakBounded
    BY LimitAssumption, ArenaAssumption DEF Init, BreakBounded, BASE
  <2> QED  BY <2>1, InitGood, AbstractStart
<1>2. HeapInv /\ BreakBounded /\ [Next]_vars => HeapInv' /\ BreakBounded'
  BY NextGood, BreakStep
<1>3. HeapInv /\ BreakBounded /\ [Next]_vars => (~seam => [Abstract!Next]_Abstract!vars)
  BY <1>2, AbstractStep
<1> QED  BY <1>1, <1>2, <1>3, PTL DEF Spec, ImplementsAbstractHeap

\* allocate_object asks the system for memory only when no free block would
\* do: the first fit search overlooks none, on whichever list it is.
THEOREM SearchIsComplete == Spec => GrowsOnlyWhenFull
<1>1. Init => HeapInv /\ SearchInv
  BY InitGood, InitLeads DEF SearchInv
<1>2. HeapInv /\ SearchInv /\ [Next]_vars => HeapInv' /\ SearchInv'
  BY NextGood, NextLeads
<1>3. HeapInv /\ SearchInv /\ [Next]_vars =>
        (~seam /\ brk' # brk => \A b \in FreeBlocks : mem[b].size < want)
  BY GrowsWhenFull
<1> QED  BY <1>1, <1>2, <1>3, PTL DEF Spec, GrowsOnlyWhenFull
=============================================================================
