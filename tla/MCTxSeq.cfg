\* One thread, every transaction free to abort: adds with displacement
\* (successful and failed), removes and contains over a table holding 0
\* (bucket 0) and 1 (bucket 1).
CONSTANTS
  Threads = {t1}
  Keys = {0, 1, 2, 4}
  MAX_SEGMENTS = 2
  HOP_RANGE = 2
  ADD_RANGE = 3
  SPURIOUS_ABORTS = TRUE
  MaxOps = 4
  CallKinds = {"contains", "add", "remove"}
  FillKeys <- FillMove
SPECIFICATION FairSpec
INVARIANT TypeOK
INVARIANT HopInfoExact
PROPERTY AllCallsComplete
