CONSTANTS
  Keys = {"b", " "}
  MAX_BUFFER_LINE = 5
  MAX_HISTORY = 2
  Commands <- MCCommands
  Tree <- MCTree
  Home <- MCHome
  MaxEntered = 3
  MaxEnteredLength = 1
CHECK_DEADLOCK FALSE
SPECIFICATION Spec
INVARIANT
  ScreenShowsLine
PROPERTY
  ImplementsEditedLine
