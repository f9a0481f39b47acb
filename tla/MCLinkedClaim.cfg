\* hopd with two segments: puts of two segments claim the same free bucket
CONSTANTS
  k1 = k1  k2 = k2  k3 = k3  k4 = k4  k5 = k5  k6 = k6
  Threads = {t1, t2}
  Keys = {k1, k2, k3, k4}
  Hash <- HashClaim
  FillKeys <- FillClaim
  Capacity = 4
  ConcurrencyLevel = 2
  CACHE_LINE_SIZE = 32
  CachelineModes = {TRUE}
  TS_BITS = 3
  MaxOps = 1
  CallKinds = {"put"}
  NoKey = NoKey
  NoThread = NoThread
SPECIFICATION Spec
PROPERTY Linearizable
