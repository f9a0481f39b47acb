\* One segment, Capacity 2, HOP_RANGE 3: putIfAbsent(k4) moves k2 two buckets
\* on, past a concurrent containsKey(k2) scan, into its timestamp fallback.
\* With one segment every put, remove and displacement holds the same lock, so
\* remove's stores cannot meet another segment's claim of the bucket.
CONSTANTS
  Threads = {t1, t2}
  k1 = k1
  k2 = k2
  k3 = k3
  k4 = k4
  k5 = k5
  k6 = k6
  Keys = {k1, k2, k3, k4}
  Hash <- HashHop3
  Capacity = 2
  ConcurrencyLevel = 1
  HOP_RANGE = 3
  INSERT_RANGE = 4
  TS_BITS = 3
  MaxOps = 2
  FillKeys <- FillHop3
  NoKey = NoKey
  NoThread = NoThread

SPECIFICATION Spec

INVARIANT HopInfoSound
INVARIANT QuiescentSizeExact
INVARIANT ContainsTrueSound
PROPERTY Linearizable
