\* Two files, up to three backups at a time of which one or two are kept, with and without
\* a directory that only looks like a backup.
CONSTANTS
  Files = {f, g}
  Contents = {1, 2}
  Limits = {1, 2}
  Others = {0, 1}
  MaxNumber = 2
SPECIFICATION Spec
INVARIANTS
  EndsAsItSays
PROPERTIES
  ImplementsSnapshots
