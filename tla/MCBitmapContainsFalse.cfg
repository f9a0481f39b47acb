\* One segment, HOP_RANGE 2: containsKey(k2) races a putIfAbsent(k3) whose
\* displacement moves k2 from bucket 1 to bucket 2 and reuses bucket 1.
CONSTANTS
  Threads = {t1, t2}
  k1 = k1
  k2 = k2
  k3 = k3
  k4 = k4
  k5 = k5
  k6 = k6
  Keys = {k1, k2, k3}
  Hash <- HashCore
  Capacity = 2
  ConcurrencyLevel = 1
  HOP_RANGE = 2
  INSERT_RANGE = 3
  TS_BITS = 3
  MaxOps = 2
  FillKeys <- FillCore
  NoKey = NoKey
  NoThread = NoThread

SPECIFICATION Spec








INVARIANT ContainsFalseSound
