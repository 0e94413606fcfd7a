\* Two pids, handed out again and again; pipelines of two, some of whose forks
\* fail for want of a pid.
CONSTANTS
  Pids = {p1, p2}
  Codes = {0, 2}
  Signalled = Signalled
  Garbage = {0}
  MaxLen = 2
SPECIFICATION Spec
INVARIANTS
  ReturnCodeUnlessTaken
  JobsAreNoted
PROPERTIES
  ZombiesAreReaped
  PromptReturns
