SPECIFICATION ReaderFairSpec
CONSTANTS
  t1 = t1
  t2 = t2
  fa = fa
  None = None
  Threads = {t1, t2}
  Paths = {fa}
  Size = 3
  Footer = 2
  Columns = 2
  ChunkStart <- MCStart
  ChunkEnd <- MCEnd
  MinBuffer = 3
  Slack = 2
INVARIANTS ReaderTypeOK ReadsAreFile OpenedOnce
PROPERTIES ReaderOrFailure
CHECK_DEADLOCK FALSE
