\* hopd and hopnd (the map built with cache-line alignment on or off), one
\* segment: two threads put and remove over a table holding k1 and k3
CONSTANTS
  k1 = k1  k2 = k2  k3 = k3  k4 = k4  k5 = k5  k6 = k6
  Threads = {t1, t2}
  Keys = {k1, k2, k3, k4}
  Hash <- HashNd
  FillKeys <- FillNd
  Capacity = 4
  ConcurrencyLevel = 1
  CACHE_LINE_SIZE = 32
  CachelineModes = {TRUE, FALSE}
  TS_BITS = 1
  MaxOps = 2
  CallKinds = {"put", "remove"}
  NoKey = NoKey
  NoThread = NoThread
SPECIFICATION Spec
 
INVARIANT ListsSound
INVARIANT QuiescentSizeExact
PROPERTY Linearizable
