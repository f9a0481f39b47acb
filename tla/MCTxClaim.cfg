\* Two threads, no spurious aborts: adds of two keys of different homes
\* probe the same free bucket; each stores *BUSY (-1) over what it read.
CONSTANTS
  Threads = {t1, t2}
  Keys = {0, 1, 2, 3}
  MAX_SEGMENTS = 2
  HOP_RANGE = 2
  ADD_RANGE = 3
  SPURIOUS_ABORTS = FALSE
  MaxOps = 2
  CallKinds = {"contains", "add", "remove"}
  FillKeys <- FillMove
SPECIFICATION Spec
INVARIANT HopInfoExact
