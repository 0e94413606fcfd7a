\* Three arenas of 12 words, next to each other (or two, apart); three free lists.
CONSTANTS
  ARENA = 12
  N_LISTS = 3
  MAX_OS_CHUNKS = 1
  HeapLimit = 37
  Requests <- MixedRequests
  Sbrk <- AnySbrk
SPECIFICATION Spec
INVARIANTS
  TypeOK
  BoundaryTagsAgree
  BlocksApart
  ListsHoldFreeBlocks
  Coalesced
  StaleTagsNotAllocated
  NoWildAccess
PROPERTIES
  GrowsOnlyWhenFull
  CallsReturn
  ImplementsAbstractHeap
CHECK_DEADLOCK FALSE
