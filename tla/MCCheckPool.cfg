\* Two workers, a channel with one slot and four units of work: the buffer
\* fills, the submitter blocks, and workers compete.
CONSTANTS
  Task = {t1, t2, t3, t4}
  Worker = {w1, w2}
  BufferSize = 1
  NoTask = NoTask
SPECIFICATION FairSpec
INVARIANTS
  TypeOK
  WgExact
  NoSendOnClosed
  NilMeansAllOver
  EachWorkOnce
  ExitOnlyWhenDrained
PROPERTIES
  WaitAnswers
  WorkersFinish
  BarrierSpec
