SPECIFICATION FairSpec
CONSTANTS
  MaxChanges = 2
  MaxDispatches = 1
INVARIANTS
  RunsWellFormed
  HeadsInOrder
  ReadyHeadHasRun
PROPERTIES
  RequestAnswered
  NoSilentMiss
CHECK_DEADLOCK FALSE
