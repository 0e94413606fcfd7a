\* Only the input and error files cannot be opened, or any call may fail; every
\* combination of redirections.
CONSTANTS
  Pipelines <- Commands
  Failures <- FilesOrAny
  MaxSubstitutions = 2
  PipeSize = 2
  Output = 3
SPECIFICATION Spec
INVARIANTS
  DescriptorsRestored
  PipesConnect
  FifosRemoved
PROPERTIES
  EverythingEnds
CHECK_DEADLOCK FALSE
