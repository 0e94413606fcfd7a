\* Plain, malformed and source lines, from a pipe and at a terminal.
CONSTANTS
  Lexemes <- Words
  Scripts <- Scripted
  FileLines <- NestedFile
  MaxFrames = 4
SPECIFICATION SessionSpec
INVARIANTS
  RunsWhatItSays
PROPERTIES
  SessionEnds
