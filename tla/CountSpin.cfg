\* Six iterations; the count just fits in an int.
CONSTANTS
  ntimes = 6
  IntMax = 12
  NoThread = NoThread
SPECIFICATION SpinSpec
INVARIANTS
  SpinFinalCount
PROPERTIES
  ImplementsLockedCounter
  SpinBothEnd
