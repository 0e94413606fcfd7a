------------------------------ MODULE MyMalloc ------------------------------
(***************************************************************************)
(* The allocator of src/lab1/myMalloc.c: boundary tags in the heap, the    *)
(* doubly linked free lists threaded through the free blocks, and the      *)
(* growth of the heap by arenas taken from sbrk.                           *)
(*                                                                         *)
(* Addresses and sizes count 8-byte words, the unit every size is a        *)
(* multiple of.  A critical section under `mutex` runs from CallMalloc to  *)
(* the action that resets `want`; each turn of the `while (1)` loop of     *)
(* allocate_object is one action.                                          *)
(***************************************************************************)
EXTENDS Integers, Sequences, FiniteSetsExt

CONSTANTS
    ARENA,          \* ARENA_SIZE, in words
    N_LISTS,        \* number of free lists
    MAX_OS_CHUNKS,  \* capacity of osChunkList
    Requests,       \* raw sizes clients ask for, in bytes
    HeapLimit,      \* bound: the highest break sbrk grants
    Sbrk            \* what sbrk may do: "fail", "adjacent", "apart"

HEADER    == 2      \* ALLOC_HEADER_SIZE: 16 bytes
MIN_DATA  == 2      \* 16 bytes, room for the two list pointers
MIN_BLOCK == HEADER + MIN_DATA
NULL      == 0
BASE      == 1      \* the break when the program starts

ASSUME ArenaAssumption    == ARENA \in Nat /\ ARENA >= 2 * HEADER + MIN_BLOCK
ASSUME ListsAssumption    == N_LISTS \in Nat \ {0}
ASSUME ChunksAssumption   == MAX_OS_CHUNKS \in Nat \ {0}
ASSUME RequestsAssumption == Requests \subseteq Nat
ASSUME LimitAssumption    == HeapLimit \in Nat /\ HeapLimit >= BASE + ARENA
ASSUME SbrkAssumption     == Sbrk \subseteq {"fail", "adjacent", "apart"}

VARIABLES
    mem,        \* the intact headers: address -> [size, state, left]
    links,      \* next and prev of the sentinels and of the listed blocks
    lastFence,  \* lastFencePost
    chunks,     \* osChunkList
    brk,        \* the program break
    want,       \* total_size of the my_malloc call holding the mutex, else 0
    held,       \* headers of the allocations clients own
    blocks,     \* auxiliary: headers the tiling of the heap consists of
    seam,       \* auxiliary: TRUE once growth kept an allocated left neighbour
    fault       \* how the program went wrong, "none" while it has not

heapVars   == <<mem, links, blocks>>
arenaVars  == <<lastFence, chunks, brk, seam>>
vars       == <<heapVars, arenaVars, held, want, fault>>

States == {"UNALLOCATED", "ALLOCATED", "FENCEPOST"}
Faults == {"none", "aborted", "wild", "overrun", "shared"}

-----------------------------------------------------------------------------
(* Boundary tags.  An address outside DOMAIN mem holds client data or      *)
(* memory fresh from the system: a store there changes no header, a load   *)
(* there returns whatever the bytes are.                                   *)

Tag(size, state, left) == [size |-> size, state |-> state, left |-> left]

RightHeader(m, h) == h + m[h].size
LeftHeader(m, h)  == h - m[h].left

SetSize(m, h, n)  == [m EXCEPT ![h].size = n]
SetState(m, h, s) == [m EXCEPT ![h].state = s]
SetLeft(m, h, n)  == [a \in DOMAIN m |->
                        IF a = h THEN Tag(m[a].size, m[a].state, n) ELSE m[a]]

Store(m, h, tag)  == [a \in DOMAIN m \cup {h} |-> IF a = h THEN tag ELSE m[a]]

\* Headers lying strictly between lo and hi are overwritten.
Clobber(m, lo, hi) == [a \in {x \in DOMAIN m : x <= lo \/ x >= hi} |-> m[a]]

\* What get_state may return at address a.
StatesAt(m, a) == IF a \in DOMAIN m THEN {m[a].state} ELSE States

-----------------------------------------------------------------------------
(* Free lists.  Sentinels are negative, so that no block is one.           *)

Sentinel(i) == -1 - i
Sentinels   == {Sentinel(i) : i \in 0..(N_LISTS - 1)}

\* size_to_list_index
ListIndex(size) ==
    IF size <= MIN_BLOCK THEN 0
    ELSE IF size - MIN_BLOCK >= N_LISTS THEN N_LISTS - 1
    ELSE size - MIN_BLOCK

\* insert_into_freelist, on list i: the block becomes the last of the list.
LinkTail(L, b, i) ==
    LET s == Sentinel(i)
        p == L[s].prev
    IN [x \in DOMAIN L \cup {b} |->
          IF x = b THEN [next |-> s, prev |-> p]
          ELSE [next |-> IF x = p THEN b ELSE L[x].next,
                prev |-> IF x = s THEN b ELSE L[x].prev]]

\* Mutant: the right neighbour keeps its prev pointer.
UnlinkOneWay(L, b) ==
    [x \in DOMAIN L \ {b} |->
        [next |-> IF x = L[b].prev THEN L[b].next ELSE L[x].next, prev |-> L[x].prev]]

\* remove_from_freelist
Unlink(L, b) ==
    LET n == L[b].next
        p == L[b].prev
    IN [x \in DOMAIN L \ {b} |->
          [next |-> IF x = p THEN n ELSE L[x].next,
           prev |-> IF x = n THEN p ELSE L[x].prev]]

\* The pointers of a listed block lie in the first words of its data.
InsertMem(m, b)   == Clobber(m, b, b + MIN_BLOCK)

\* Mutant: every block goes to the first list.
InsertLinksFirst(m, L, b) == LinkTail(L, b, 0)

InsertLinks(m, L, b) == LinkTail(L, b, ListIndex(m[b].size))

-----------------------------------------------------------------------------
(* Requests and the first-fit search.                                      *)

\* total_size for a raw request: whole words, room for the list pointers.
Total(raw) ==
    LET words == (raw + 7) \div 8
    IN HEADER + (IF words < MIN_DATA THEN MIN_DATA ELSE words)

\* Mutant: the header is not counted.
FitsData(b, size) == /\ b \in DOMAIN mem
                     /\ mem[b].state = "UNALLOCATED"
                     /\ mem[b].size + HEADER >= size

Fits(b, size) == /\ b \in DOMAIN mem
                 /\ mem[b].state = "UNALLOCATED"
                 /\ mem[b].size >= size

\* The first block of list i that fits, NULL when the list has none.
FirstFitIn(i, size) ==
    LET scan[x \in DOMAIN links] ==
            IF x = Sentinel(i) THEN NULL
            ELSE IF Fits(x, size) THEN x ELSE scan[links[x].next]
    IN scan[links[Sentinel(i)].next]

\* Lists are searched upwards from the one of the size asked for.
FirstFit(size) ==
    LET hits == {i \in ListIndex(size)..(N_LISTS - 1) : FirstFitIn(i, size) # NULL}
    IN IF hits = {} THEN NULL ELSE FirstFitIn(Min(hits), size)

-----------------------------------------------------------------------------
(* A new arena: fenceposts at both ends and one free block between them.   *)

RightFence(base) == base + ARENA - HEADER

ChunkTags(m, base) ==
    Store(Store(Store(m, base, Tag(HEADER, "FENCEPOST", HEADER)),
                RightFence(base), Tag(HEADER, "FENCEPOST", ARENA - 2 * HEADER)),
          base + HEADER, Tag(ARENA - 2 * HEADER, "UNALLOCATED", HEADER))

\* Mutant: no check against MAX_OS_CHUNKS.
InsertChunkUnbounded(base) == Append(chunks, base)

\* insert_os_chunk
InsertChunk(base) == IF Len(chunks) < MAX_OS_CHUNKS THEN Append(chunks, base) ELSE chunks

\* What allocate_chunk does to the globals when sbrk returns base.
TakeArena(base) ==
    /\ base + ARENA <= HeapLimit
    /\ brk' = base + ARENA
    /\ lastFence' = RightFence(base)
    /\ chunks' = InsertChunk(base)

\* init: the first block goes to the last list, whatever its size.
Init ==
    LET block == BASE + HEADER
        last  == Sentinel(N_LISTS - 1)
    IN /\ mem = ChunkTags(<<>>, BASE)
       /\ links = [x \in Sentinels \cup {block} |->
                     CASE x = block -> [next |-> last, prev |-> last]
                       [] x = last  -> [next |-> block, prev |-> block]
                       [] OTHER     -> [next |-> x, prev |-> x]]
       /\ lastFence = RightFence(BASE)
       /\ chunks = <<BASE>>
       /\ brk = BASE + ARENA
       /\ blocks = {BASE, block, RightFence(BASE)}
       /\ held = {}
       /\ want = 0
       /\ seam = FALSE
       /\ fault = "none"

-----------------------------------------------------------------------------
(* my_malloc                                                               *)

\* my_malloc(raw) takes the mutex; a request for 0 bytes returns at once.
CallMalloc(raw) ==
    /\ fault = "none" /\ want = 0
    /\ raw > 0
    /\ want' = Total(raw)
    /\ UNCHANGED <<heapVars, arenaVars, held, fault>>

\* The call returns block h and releases the mutex.
ReturnBlock(h) ==
    /\ held' = held \cup {h}
    /\ want' = 0

\* Mutant: the chosen block keeps its size when its tail is split off.
SplitFitKeepsSize(b) ==
    LET rest  == mem[b].size - want
        split == b + want
        m1 == Store(mem, split, Tag(rest, "UNALLOCATED", want))
        m2 == SetLeft(m1, RightHeader(m1, split), rest)
    IN /\ rest >= MIN_BLOCK
       /\ mem' = InsertMem(SetState(m2, b, "ALLOCATED"), split)
       /\ links' = InsertLinks(m1, Unlink(links, b), split)
       /\ blocks' = blocks \cup {split}

\* The chosen block is larger by at least MIN_BLOCK: its tail stays free.
SplitFit(b) ==
    LET rest  == mem[b].size - want
        split == b + want
        m1 == Store(mem, split, Tag(rest, "UNALLOCATED", want))
        m2 == InsertMem(SetLeft(m1, RightHeader(m1, split), rest), split)
        m3 == SetState(SetSize(m2, b, want), b, "ALLOCATED")
    IN /\ rest >= MIN_BLOCK
       /\ mem' = Clobber(m3, b, split)
       /\ links' = InsertLinks(m1, Unlink(links, b), split)
       /\ blocks' = blocks \cup {split}

\* The chosen block is handed out whole.
WholeFit(b) ==
    LET right == RightHeader(mem, b)
        m1 == SetLeft(SetState(mem, b, "ALLOCATED"), right, mem[b].size)
    IN /\ mem[b].size - want < MIN_BLOCK
       /\ mem' = Clobber(m1, b, right)
       /\ links' = Unlink(links, b)
       /\ UNCHANGED blocks

\* The header of another block lies inside block b.
Shared(b) == \E c \in blocks : b < c /\ c < b + mem[b].size

\* allocate_object finds a block in the lists.  If another block lies inside
\* it, words are given out twice, and the run ends with that fault.
Fit ==
    /\ fault = "none" /\ want # 0
    /\ \E b \in DOMAIN links :
         /\ b = FirstFit(want)
         /\ Fits(b, want)
         /\ SplitFit(b) \/ WholeFit(b)
         /\ ReturnBlock(b)
         /\ fault' = IF Shared(b) THEN "shared" ELSE fault
    /\ UNCHANGED arenaVars

NothingFits == fault = "none" /\ want # 0 /\ FirstFit(want) = NULL

\* Mutant: the result of sbrk is not checked and the loop goes round again.
GrowFailsRetry ==
    /\ NothingFits
    /\ "fail" \in Sbrk \/ brk + 1 + ARENA > HeapLimit
    /\ UNCHANGED vars

\* sbrk fails: my_malloc returns NULL.
GrowFails ==
    /\ NothingFits
    /\ "fail" \in Sbrk \/ brk + 1 + ARENA > HeapLimit
    /\ want' = 0
    /\ UNCHANGED <<heapVars, arenaVars, held, fault>>

\* Another user of sbrk moved the break: the new arena stands apart.
GrowApart ==
    LET base == brk + 1
        m1   == ChunkTags(mem, base)
    IN /\ NothingFits /\ "apart" \in Sbrk
       /\ TakeArena(base)
       /\ mem' = m1
       /\ links' = InsertLinks(m1, links, base + HEADER)
       /\ blocks' = blocks \cup {base, base + HEADER, RightFence(base)}
       /\ UNCHANGED <<held, want, seam, fault>>

\* The new arena continues the last one, whose last block is free: that
\* block absorbs both fenceposts and the whole arena.
GrowMerge ==
    LET base   == brk
        left   == LeftHeader(mem, lastFence)
        merged == RightFence(base) - left
        m1 == Store(ChunkTags(mem, base), left,
                    Tag(merged, "UNALLOCATED", mem[left].left))
        m2 == SetLeft(m1, RightFence(base), merged)
    IN /\ NothingFits /\ "adjacent" \in Sbrk
       /\ lastFence + HEADER = base
       /\ left \in DOMAIN mem /\ mem[left].state # "ALLOCATED"
       /\ left \in DOMAIN links
       /\ TakeArena(base)
       /\ mem' = InsertMem(m2, left)
       /\ links' = InsertLinks(m2, Unlink(links, left), left)
       /\ blocks' = (blocks \ {lastFence}) \cup {RightFence(base)}
       /\ UNCHANGED <<held, want, seam, fault>>

\* The new arena continues the last one, whose last block is allocated: the
\* request is served from the arena's first word on.  free_size is unsigned,
\* so a request that passes the new fencepost overruns the arena.
GrowSeam ==
    LET base  == brk
        left  == LeftHeader(mem, lastFence)
        fence == RightFence(base)
        free  == base + want
        rest  == fence - free
        m1 == Store(ChunkTags(mem, base), base,
                    Tag(want, "ALLOCATED",
                        IF left \in DOMAIN mem THEN mem[left].size ELSE 1))
        m2 == Store(m1, free, Tag(rest, "UNALLOCATED", want))
        m3 == SetLeft(m2, fence, rest)
    IN /\ NothingFits /\ "adjacent" \in Sbrk
       /\ lastFence + HEADER = base
       /\ "ALLOCATED" \in StatesAt(mem, left)
       /\ TakeArena(base)
       /\ seam' = TRUE
       /\ IF rest < 0
          THEN fault' = "overrun" /\ UNCHANGED <<heapVars, held, want>>
          ELSE /\ IF rest >= MIN_BLOCK
                  THEN /\ mem' = Clobber(InsertMem(m3, free), base, free)
                       /\ links' = InsertLinks(m3, links, free)
                       /\ blocks' = blocks \cup {base, free, fence}
                  ELSE /\ mem' = Clobber(SetLeft(m1, fence, want), base, free)
                       /\ blocks' = blocks \cup {base, fence}
                       /\ UNCHANGED links
               /\ ReturnBlock(base)
               /\ UNCHANGED fault

\* The header left of the last fencepost is not a listed block: what
\* remove_from_freelist follows are not list pointers.
GrowWild ==
    LET left == LeftHeader(mem, lastFence)
    IN /\ NothingFits /\ "adjacent" \in Sbrk
       /\ lastFence + HEADER = brk
       /\ StatesAt(mem, left) # {"ALLOCATED"}
       /\ left \notin DOMAIN links
       /\ TakeArena(brk)
       /\ fault' = "wild"
       /\ UNCHANGED <<heapVars, held, want, seam>>

Allocate == Fit \/ GrowFails \/ GrowApart \/ GrowMerge \/ GrowSeam \/ GrowWild

-----------------------------------------------------------------------------
(* my_free                                                                 *)

\* Mutant: the next header's left size is not updated.
AbsorbForgetful(m, b, c) == SetSize(m, b, m[b].size + m[c].size)

\* Block b takes in its right neighbour c.
Absorb(m, b, c) ==
    LET size == m[b].size + m[c].size
    IN SetLeft(SetSize(m, b, size), b + size, size)

\* Mutant: the left neighbour is never joined.
CoalesceRight(h, joinRight, joinLeft) ==
    LET m0    == SetState(mem, h, "UNALLOCATED")
        right == RightHeader(m0, h)
        m1 == IF joinRight THEN Absorb(m0, h, right) ELSE m0
        L1 == IF joinRight THEN Unlink(links, right) ELSE links
    IN /\ mem' = InsertMem(m1, h)
       /\ links' = InsertLinks(m1, L1, h)
       /\ blocks' = blocks \ (IF joinRight THEN {right} ELSE {})

\* Mutant: a block its left neighbour takes in is never marked free.
CoalesceUnmarked(h, joinRight, joinLeft) ==
    LET m0    == IF joinLeft THEN mem ELSE SetState(mem, h, "UNALLOCATED")
        right == RightHeader(m0, h)
        left  == LeftHeader(m0, h)
        m1 == IF joinRight THEN Absorb(m0, h, right) ELSE m0
        L1 == IF joinRight THEN Unlink(links, right) ELSE links
        m2 == IF joinLeft THEN Absorb(m1, left, h) ELSE m1
        L2 == IF joinLeft THEN Unlink(L1, left) ELSE L1
        top == IF joinLeft THEN left ELSE h
    IN /\ mem' = InsertMem(m2, top)
       /\ links' = InsertLinks(m2, L2, top)
       /\ blocks' = blocks \ ((IF joinRight THEN {right} ELSE {})
                               \cup (IF joinLeft THEN {h} ELSE {}))

\* Free block h, joined to the neighbours that read UNALLOCATED, right first.
Coalesce(h, joinRight, joinLeft) ==
    LET m0    == SetState(mem, h, "UNALLOCATED")
        right == RightHeader(m0, h)
        left  == LeftHeader(m0, h)
        m1 == IF joinRight THEN Absorb(m0, h, right) ELSE m0
        L1 == IF joinRight THEN Unlink(links, right) ELSE links
        m2 == IF joinLeft THEN Absorb(m1, left, h) ELSE m1
        L2 == IF joinLeft THEN Unlink(L1, left) ELSE L1
        top == IF joinLeft THEN left ELSE h
    IN /\ mem' = InsertMem(m2, top)
       /\ links' = InsertLinks(m2, L2, top)
       /\ blocks' = blocks \ ((IF joinRight THEN {right} ELSE {})
                               \cup (IF joinLeft THEN {h} ELSE {}))

\* my_free of an allocation the client owns.  A neighbour that reads
\* UNALLOCATED without being a listed block makes remove_from_freelist
\* follow pointers that are none.
Free(h) ==
    LET right == RightHeader(mem, h)
        left  == LeftHeader(mem, h)
    IN /\ fault = "none" /\ want = 0
       /\ h \in held
       /\ held' = held \ {h}
       /\ \E rs \in StatesAt(mem, right), ls \in StatesAt(mem, left) :
            LET joinRight == rs = "UNALLOCATED"
                joinLeft  == ls = "UNALLOCATED"
            IN IF /\ joinRight => right \in DOMAIN links
                  /\ joinLeft => left \in DOMAIN links
               THEN Coalesce(h, joinRight, joinLeft) /\ UNCHANGED fault
               ELSE fault' = "wild" /\ UNCHANGED heapVars
       /\ UNCHANGED <<arenaVars, want>>

\* my_free of a pointer that is no allocation, while a header is still
\* intact in front of it: a second free, or a stray pointer.
InvalidFree(p) ==
    /\ fault = "none" /\ want = 0
    /\ p \in DOMAIN mem \ held
    /\ fault' = IF mem[p].state # "ALLOCATED" THEN "aborted" ELSE "wild"
    /\ UNCHANGED <<heapVars, arenaVars, held, want>>

Next == \/ \E raw \in Requests : CallMalloc(raw)
        \/ Allocate
        \/ \E h \in held : Free(h)
        \/ \E p \in DOMAIN mem : InvalidFree(p)

\* Whoever holds the mutex keeps running: nothing in the loop blocks.
Spec == Init /\ [][Next]_vars /\ WF_vars(Allocate)

-----------------------------------------------------------------------------
(* Properties.  A growth that keeps an allocated left neighbour leaves an  *)
(* old fencepost inside the heap that no header leads back to; from then   *)
(* on (seam) the tags do not agree, and in the end blocks overlap:         *)
(* ClientsApart, the last property, is false.  The others speak of the     *)
(* heap up to that growth (~seam), except TypeOK and CallsReturn.          *)

TagType == [size : Nat, state : States, left : Nat]

\* The type of every variable.
TypeOK ==
    /\ DOMAIN mem \subseteq Nat
    /\ \A a \in DOMAIN mem : mem[a] \in TagType
    /\ DOMAIN links \subseteq Int
    /\ \A x \in DOMAIN links : links[x] \in [next : Int, prev : Int]
    /\ lastFence \in Nat /\ brk \in Nat /\ want \in Nat
    /\ chunks \in Seq(Nat) /\ Len(chunks) <= MAX_OS_CHUNKS
    /\ held \subseteq Nat /\ blocks \subseteq Nat
    /\ seam \in BOOLEAN /\ fault \in Faults

IsFree(m, b)      == m[b].state = "UNALLOCATED"
IsFence(m, b)     == m[b].state = "FENCEPOST"
IsLeftFence(m, b) == IsFence(m, b) /\ m[b].left = HEADER
FreeBlocks        == {b \in blocks : IsFree(mem, b)}

\* The boundary tags agree: the block at the end of a block is a block and
\* records its size, and a block's left size leads to its left neighbour.
Tiled(m, B) ==
    /\ B \subseteq DOMAIN m
    /\ \A b \in B : IsFence(m, b) => m[b].size = HEADER
    /\ \A b \in B : ~IsFence(m, b) =>
          /\ m[b].size >= MIN_BLOCK
          /\ RightHeader(m, b) \in B
          /\ m[RightHeader(m, b)].left = m[b].size
    /\ \A b \in B : ~IsLeftFence(m, b) =>
          /\ LeftHeader(m, b) \in B
          /\ m[LeftHeader(m, b)].size = m[b].left

\* No two blocks overlap and none passes the break.
Apart(m, B, end) ==
    \A b \in B : /\ b + m[b].size <= end
                 /\ \A c \in B : b < c => b + m[b].size <= c

\* The listed blocks, the sentinels beside them, form doubly linked rings.
Linked(L, F) ==
    /\ DOMAIN L = Sentinels \cup F
    /\ \A x \in DOMAIN L :
          /\ L[x].next \in DOMAIN L /\ L[L[x].next].prev = x
          /\ L[x].prev \in DOMAIN L /\ L[L[x].prev].next = x

\* README "Heap structure invariants preserved": after every operation the
\* headers of the heap tile it and left and right sizes agree.
BoundaryTagsAgree == ~seam => Tiled(mem, blocks)

\* No allocation overlaps another block, a fencepost or the break.
BlocksApart == ~seam => Apart(mem, blocks, brk)

\* The lists hold exactly the free blocks and can be walked both ways: what
\* verify_pointers looks for never happens.
ListsHoldFreeBlocks == ~seam => Linked(links, FreeBlocks)

\* README "Adjacent free blocks are coalesced": no operation leaves two free
\* neighbours, whichever neighbours are free when a block is freed.
Coalesced == ~seam => \A b \in FreeBlocks : ~IsFree(mem, RightHeader(mem, b))

\* The blocks marked allocated are the ones clients hold; none is lost by a
\* growth or given to two clients.
HeldAreAllocated == ~seam => held = {b \in blocks : mem[b].state = "ALLOCATED"}

\* README "Detection of invalid and double free operations": a header left
\* behind by merging or splitting never reads ALLOCATED, so the check of
\* deallocate_object catches every pointer that is no allocation and has such
\* a header in front of it.  Before growth beside an allocated block only.
StaleTagsNotAllocated ==
    ~seam => \A a \in DOMAIN mem \ blocks : mem[a].state # "ALLOCATED"

\* No load or store through a header that is none, and no block given out that
\* has another inside it, before growth beside an allocated block.
NoWildAccess == ~seam => fault \in {"none", "aborted"}

\* The heap grows only when no free block is large enough, up to and including
\* the first growth beside an allocated block.
GrowsOnlyWhenFull ==
    [][~seam /\ brk' # brk => \A b \in FreeBlocks : mem[b].size < want]_vars

\* Every my_malloc call returns, with a block or with NULL, unless a request
\* overran the heap or a wild pointer was followed: the growth loop ends.
CallsReturn == (want # 0) ~> (want = 0 \/ fault # "none")

\* The client's view: the data of the blocks it holds, and the data words
\* the call in progress must return.
Abstract == INSTANCE AbstractHeap WITH
    Words <- 0..HeapLimit,
    owned <- [p \in {h + HEADER : h \in held} |-> mem[p - HEADER].size - HEADER],
    asked <- IF want = 0 THEN 0 ELSE want - HEADER

\* The allocator implements AbstractHeap up to the first growth that keeps an
\* allocated neighbour, and in that step: no two clients own the same word,
\* a block is never too small, and only its owner's free ends it.
ImplementsAbstractHeap ==
    Abstract!Init /\ [][~seam => [Abstract!Next]_Abstract!vars]_vars

\* README "Heap structure invariants preserved", whatever has grown: the
\* blocks that clients hold have no word in common and keep their headers.
\* The code violates it: the block that starts an arena beside an allocated
\* one records that block's size as its left size, which is off by the
\* fencepost between them, and is joined to what happens to be there.
ClientsApart == held \subseteq DOMAIN mem /\ Apart(mem, held, brk)

=============================================================================
