\* Two threads, no spurious aborts: an add of a present key runs
\* contains() under the home lock, which releases the lock, then unlocks again.
CONSTANTS
  Threads = {t1, t2}
  Keys = {0, 1, 2, 3}
  MAX_SEGMENTS = 2
  HOP_RANGE = 2
  ADD_RANGE = 3
  SPURIOUS_ABORTS = FALSE
  MaxOps = 2
  CallKinds = {"contains", "add", "remove"}
  FillKeys <- FillMove
SPECIFICATION Spec
INVARIANT MutualExclusion
