\* hopd with one segment, one call per thread: containsKey racing remove and
\* the cache-line relocation answers false only for an absent key, and its
\* retry loop ends
CONSTANTS
  k1 = k1  k2 = k2  k3 = k3  k4 = k4  k5 = k5  k6 = k6
  Threads = {t1, t2}
  Keys = {k1, k2, k3}
  Hash <- HashCore
  FillKeys <- FillCore
  Capacity = 4
  ConcurrencyLevel = 1
  CACHE_LINE_SIZE = 32
  CachelineModes = {TRUE}
  TS_BITS = 3
  MaxOps = 1
  CallKinds = {"contains", "put", "remove"}
  NoKey = NoKey
  NoThread = NoThread
SPECIFICATION Spec
INVARIANT ContainsFalseSound
PROPERTY AllCallsComplete
