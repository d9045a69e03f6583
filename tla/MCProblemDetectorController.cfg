\* The backoff doubles once before it is capped; the silenced delay is longer
\* than the cap, also after a round; a round may outlast the shortest delay.
CONSTANTS
  Duration = 1
  Cap = 2
  SilencedCap = 5
  MaxJitter = 1
SPECIFICATION FairSpec
INVARIANTS
  WakeUpPending
  DelayFitsMode
PROPERTIES
  RoundsAreSpaced
  ChecksRecur
