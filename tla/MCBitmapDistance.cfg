\* One thread, Capacity 4, HOP_RANGE 3: putIfAbsent(k4) must move k3, which
\* sits at distance 1 from its home, and then places k4 under the wrong bit.
CONSTANTS
  Threads = {t1}
  k1 = k1
  k2 = k2
  k3 = k3
  k4 = k4
  k5 = k5
  k6 = k6
  Keys = {k1, k2, k3, k4}
  Hash <- HashDist
  Capacity = 4
  ConcurrencyLevel = 1
  HOP_RANGE = 3
  INSERT_RANGE = 4
  TS_BITS = 2
  MaxOps = 2
  FillKeys <- FillDist
  NoKey = NoKey
  NoThread = NoThread

SPECIFICATION Spec

PROPERTY Linearizable
