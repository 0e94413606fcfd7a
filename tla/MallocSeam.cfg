\* Two arenas of 18 words; three free lists.
CONSTANTS
  ARENA = 18
  N_LISTS = 3
  MAX_OS_CHUNKS = 2
  HeapLimit = 37
  Requests <- SeamRequests
  Sbrk <- AnySbrk
SPECIFICATION Spec
INVARIANTS
  ClientsApart
CHECK_DEADLOCK FALSE
