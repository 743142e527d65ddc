SPECIFICATION Spec
CONSTANTS
  MaxChanges = 1
  MaxDispatches = 1
INVARIANT
  MissIsRetried
CHECK_DEADLOCK FALSE
