\* The same pool when the round may end without calling Wait.
CONSTANTS
  Task = {t1, t2}
  Worker = {w1, w2}
  BufferSize = 1
  NoTask = NoTask
SPECIFICATION FairSpec
PROPERTY WorkersFinishWhenDone
