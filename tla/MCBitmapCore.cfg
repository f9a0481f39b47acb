\* Two segments over capacity 4, HOP_RANGE 2, INSERT_RANGE 4: after
\* FillChain putIfAbsent(k4) needs two displacements, and a displacement
\* locks the other segment; two threads interleave contains, put and remove.
CONSTANTS
  Threads = {t1, t2}
  k1 = k1
  k2 = k2
  k3 = k3
  k4 = k4
  k5 = k5
  k6 = k6
  Keys = {k1, k2, k3, k4}
  Hash <- HashChain
  Capacity = 4
  ConcurrencyLevel = 2
  HOP_RANGE = 2
  INSERT_RANGE = 4
  TS_BITS = 3
  MaxOps = 2
  FillKeys <- FillChain
  NoKey = NoKey
  NoThread = NoThread

SPECIFICATION Spec

INVARIANT TypeOK
PROPERTY AllCallsComplete
