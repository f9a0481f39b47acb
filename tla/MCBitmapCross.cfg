\* Two segments, Capacity 8, HOP_RANGE 2: putIfAbsent(k5) holds segment 0 and
\* displaces through bucket 1 (segment 1) while putIfAbsent(k6) holds segment
\* 1 and displaces through bucket 4 (segment 0).
CONSTANTS
  Threads = {t1, t2}
  k1 = k1
  k2 = k2
  k3 = k3
  k4 = k4
  k5 = k5
  k6 = k6
  Keys = {k1, k2, k3, k4, k5, k6}
  Hash <- HashCross
  Capacity = 8
  ConcurrencyLevel = 2
  HOP_RANGE = 2
  INSERT_RANGE = 3
  TS_BITS = 2
  MaxOps = 1
  FillKeys <- FillCross
  NoKey = NoKey
  NoThread = NoThread

SPECIFICATION Spec

INVARIANT NoCircularWait
