\* The condition after a status update that failed.
CONSTANTS
  Duration = 1
  Cap = 2
  SilencedCap = 3
  MaxJitter = 1
SPECIFICATION Spec
INVARIANT ConditionCurrent
