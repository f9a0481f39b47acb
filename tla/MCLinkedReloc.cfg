\* hopd with two segments: a remove relocates a key of the other segment
CONSTANTS
  k1 = k1  k2 = k2  k3 = k3  k4 = k4  k5 = k5  k6 = k6
  Threads = {t1, t2}
  Keys = {k1, k2, k3, k4, k5}
  Hash <- HashReloc
  FillKeys <- FillReloc
  Capacity = 8
  ConcurrencyLevel = 2
  CACHE_LINE_SIZE = 32
  CachelineModes = {TRUE}
  TS_BITS = 3
  MaxOps = 1
  CallKinds = {"contains", "remove"}
  NoKey = NoKey
  NoThread = NoThread
SPECIFICATION Spec
INVARIANT ContainsFalseSound
