\* Two threads of each kind and fewer slots than items.
CONSTANTS
  MaxSize = 2
  Producers = {p1, p2}
  Consumers = {c1, c2}
  N = 2
  None = None
SPECIFICATION Spec
PROPERTIES
  ImplementsQueue
  AllThreadsEnd
