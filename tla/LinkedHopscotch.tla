--------------------------- MODULE LinkedHopscotch ---------------------------
(***************************************************************************)
(* HopscotchHashMap (data_structures/HopscotchHashMap.h), the linked      *)
(* variant run by the hopd / hopnd benchmarks: every home bucket heads a  *)
(* list of the buckets holding its keys, linked by relative offsets       *)
(* (_first_delta in the home, _next_delta in each member).  One TTAS lock *)
(* and one timestamp per segment; a segment is a contiguous range of home *)
(* buckets.  putIfAbsent and remove lock the key's segment; containsKey   *)
(* walks the list without a lock and retries while the timestamp moves.   *)
(* putIfAbsent claims a free bucket by reading its hash as EMPTY: no CAS, *)
(* and the bucket may lie in another segment.  remove may relocate a key  *)
(* of the freed bucket's cache line into it (optimize_cacheline_use).     *)
(*                                                                         *)
(* A step of a thread is one access to shared memory, or consecutive      *)
(* reads under the thread's segment lock (the list walks of putIfAbsent   *)
(* and remove, the free-bucket search, the cache-line scan).  A bucket's  *)
(* (data, key, hash) triple is written as one step.  Memory is            *)
(* sequentially consistent.  The buckets past _bucketMask (the            *)
(* _INSERT_RANGE tail of the allocation) are never reached: the forward   *)
(* search stops at _table + _bucketMask and a home's cache line lies in   *)
(* 0 .. _bucketMask (assumed below), so they are not modelled.            *)
(***************************************************************************)
EXTENDS Integers, Sequences, FiniteSets, SequencesExt

CONSTANTS
  Threads,               \* benchmark threads
  Keys,                  \* keys; putIfAbsent(k, k) stores k as its own data
  Hash,                  \* [Keys -> Nat]: _tHash::Calc
  Capacity,              \* inCapacity
  ConcurrencyLevel,      \* concurrencyLevel
  CACHE_LINE_SIZE,       \* cache_line_size (64 in test/main.cpp)
  CachelineModes,        \* is_optimize_cacheline values built with (hopd TRUE, hopnd FALSE)
  TS_BITS,               \* width of Segment::_timestamp (32 in the code)
  MaxOps,                \* bound: calls made by each thread
  CallKinds,             \* calls the driver makes: "contains" only if update_ops < 100
  FillKeys,              \* keys put by FillTable before the threads start
  NoKey,                 \* _EMPTY_KEY = _EMPTY_DATA
  NoThread               \* owner of a free lock

EMPTY_HASH == 0          \* HASH_INT::_EMPTY_HASH
EMPTY_KEY  == NoKey
EMPTY_DATA == NoKey
NULL_DELTA == -32768     \* _NULL_DELTA = SHRT_MIN
SHRT_MAX   == 32767
BUCKET_SIZE == 16        \* sizeof(Bucket): two shorts and three 32-bit words
NoBucket   == -1         \* a NULL Bucket*

(* NearestPowerOfTwo, and first_msb_bit_indx (framework/sparc_defns.h).    *)
RECURSIVE NPOTFrom(_, _)
NPOTFrom(rc, value) == IF rc < value THEN NPOTFrom(2 * rc, value) ELSE rc
NearestPowerOfTwo(value) == NPOTFrom(1, value)

RECURSIVE first_msb_bit_indx(_)
first_msb_bit_indx(x) ==
  IF x = 0 THEN -1 ELSE IF x = 1 THEN 0 ELSE 1 + first_msb_bit_indx(x \div 2)

(* The fields set by the constructor.  A mask is 2^n - 1, so x & mask is   *)
(* x % (mask + 1), and x >> s is x \div 2^s.                               *)
cache_mask   == CACHE_LINE_SIZE \div BUCKET_SIZE - 1
segmentMask  == NearestPowerOfTwo(ConcurrencyLevel) - 1
bucketMask   == NearestPowerOfTwo(Capacity) - 1
segmentShift == first_msb_bit_indx(bucketMask) - first_msb_bit_indx(segmentMask)

Buckets  == 0 .. bucketMask
Segments == 0 .. segmentMask
TsModulus == 2 ^ TS_BITS

HomeOf(k)      == Hash[k] % (bucketMask + 1)
SegOfKey(k)    == (Hash[k] \div 2 ^ segmentShift) % (segmentMask + 1)
SegOfBucket(b) == (b \div 2 ^ segmentShift) % (segmentMask + 1)

\* get_start_cacheline_bucket
StartCacheline(b) == b - (b % (cache_mask + 1))

EmptyBucket == [first |-> NULL_DELTA, next |-> NULL_DELTA, hash |-> EMPTY_HASH,
                key |-> EMPTY_KEY, data |-> EMPTY_DATA]

-----------------------------------------------------------------------------
(* The list of home h: the buckets reached from h by _first_delta, then    *)
(* by each member's _next_delta.  The walk stops at a bucket outside the  *)
(* table and after more steps than there are buckets, so that a corrupt   *)
(* list (a cycle, a stray offset) is a finite sequence that shows it.     *)
RECURSIVE Walk(_, _, _, _)
Walk(tbl, b, d, n) ==
  IF d = NULL_DELTA \/ n = 0 THEN <<>>
  ELSE IF b + d \notin Buckets THEN <<b + d>>
  ELSE <<b + d>> \o Walk(tbl, b + d, tbl[b + d].next, n - 1)

ListOf(tbl, h) == Walk(tbl, h, tbl[h].first, Cardinality(Buckets) + 1)

\* index in list l of the bucket holding k (hash and IsEqual), 0 if none
FindIn(tbl, l, k) ==
  SelectInSeq(l, LAMBDA b : b \in Buckets /\ tbl[b].hash = Hash[k] /\ tbl[b].key = k)

\* the bucket before position i of l, last_bucket of the walks
Before(l, i) == IF i = 1 THEN NoBucket ELSE l[i - 1]

(* putIfAbsent's search for a bucket whose hash is EMPTY: the home's cache *)
(* line cyclically from the home (only with cache-line alignment), then   *)
(* forward from start + cache_mask + 1 up to _table + _bucketMask, then   *)
(* backward from start - (cache_mask + 1) down to _table.  A cache-line   *)
(* bucket goes to the head of the list, a forward or backward one to its  *)
(* end.                                                                    *)
CachelineOrder(h) ==
  [i \in 1 .. cache_mask + 1 |->
     StartCacheline(h) + ((h - StartCacheline(h) + i - 1) % (cache_mask + 1))]
ForwardOrder(h) ==
  LET lo == h + cache_mask + 1
      hi == Min({h + SHRT_MAX - 1, bucketMask})
  IN  [i \in 1 .. hi - lo + 1 |-> lo + i - 1]
BackwardOrder(h) ==
  LET hi == h - (cache_mask + 1)
      lo == Max({h - (SHRT_MAX - 1), 0})
  IN  [i \in 1 .. hi - lo + 1 |-> hi - i + 1]

FreeSearch(tbl, h, cla) ==
  LET IsFree(b) == tbl[b].hash = EMPTY_HASH
      cl == IF cla THEN SelectInSeq(CachelineOrder(h), IsFree) ELSE 0
      fw == SelectInSeq(ForwardOrder(h), IsFree)
      bw == SelectInSeq(BackwardOrder(h), IsFree)
  IN  CASE cl # 0 -> [bucket |-> CachelineOrder(h)[cl], mode |-> "begin"]
        [] fw # 0 -> [bucket |-> ForwardOrder(h)[fw], mode |-> "end"]
        [] bw # 0 -> [bucket |-> BackwardOrder(h)[bw], mode |-> "end"]
        [] OTHER  -> [bucket |-> NoBucket, mode |-> "none"]

\* the (data, key, hash) stores of add_key_to_*; the end variant also
\* stores _next_delta = _NULL_DELTA before linking
WriteTriple(tbl, b, k) ==
  [tbl EXCEPT ![b].data = k, ![b].key = k, ![b].hash = Hash[k]]

(* add_key_to_begining_of_list after the triple: when the home bucket is   *)
(* the first of its own list (_first_delta == 0) the new bucket goes      *)
(* right after it, otherwise it becomes the list head.                     *)
LinkBeginning(tbl, kb, fb) ==
  LET e == tbl[kb] IN
  IF e.first = 0
    THEN [tbl EXCEPT ![fb].next = IF e.next = NULL_DELTA THEN NULL_DELTA
                                  ELSE kb + e.next - fb,
                     ![kb].next = fb - kb]
    ELSE [tbl EXCEPT ![fb].next = IF e.first = NULL_DELTA THEN NULL_DELTA
                                  ELSE kb + e.first - fb,
                     ![kb].first = fb - kb]

\* add_key_to_end_of_list after the stores to the free bucket
(* Mutant: the new bucket always becomes the head's first member. *)
LinkEndAtHead(tbl, kb, fb, last) == [tbl EXCEPT ![kb].first = fb - kb]

LinkEnd(tbl, kb, fb, last) ==
  IF last = NoBucket THEN [tbl EXCEPT ![kb].first = fb - kb]
  ELSE [tbl EXCEPT ![last].next = fb - last]

(* FillTable (test/main.cpp) puts FillKeys one after the other before any  *)
(* benchmark thread runs: a sequential putIfAbsent of an absent key.       *)
PutAlone(cla, tbl, k) ==
  LET h  == HomeOf(k)
      l  == ListOf(tbl, h)
      fs == FreeSearch(tbl, h, cla)
      fb == fs.bucket
  IN  IF fs.mode = "begin"
        THEN LinkBeginning(WriteTriple(tbl, fb, k), h, fb)
        ELSE LinkEnd([WriteTriple(tbl, fb, k) EXCEPT ![fb].next = NULL_DELTA],
                     h, fb, IF l = <<>> THEN NoBucket ELSE Last(l))

FillPrefix(cla, n) ==
  FoldLeft(LAMBDA tbl, k : PutAlone(cla, tbl, k), [b \in Buckets |-> EmptyBucket],
           SubSeq(FillKeys, 1, n))
FillTable(cla) == FillPrefix(cla, Len(FillKeys))

\* No put of FillTable reaches exit(1): the process would end before the
\* benchmark threads start.
ASSUME \A cla \in CachelineModes, n \in 1 .. Len(FillKeys) :
         FreeSearch(FillPrefix(cla, n - 1), HomeOf(FillKeys[n]), cla).mode # "none"

ASSUME /\ \A k \in Keys : Hash[k] \in Nat \ {EMPTY_HASH}
       /\ CachelineModes \subseteq BOOLEAN /\ CachelineModes # {}
       /\ ConcurrencyLevel <= Capacity
       /\ CallKinds \subseteq {"contains", "put", "remove"}
       /\ cache_mask + 1 <= bucketMask + 1
       /\ FillKeys \in Seq(Keys) /\ Len(FillKeys) = Cardinality(ToSet(FillKeys))
       /\ Cardinality(ToSet(FillKeys)) <= bucketMask + 1

VARIABLES
  table,        \* _table: [Buckets -> bucket record]
  timestamp,    \* Segment::_timestamp
  owner,        \* Segment::_lock: the holding thread or NoThread
  pc,           \* where each thread is in its current call
  arg,          \* the key of the current call
  opsDone,      \* calls started so far
  ret,          \* value returned by the last putIfAbsent/remove
  cret,         \* value returned by the last containsKey
  lastOp,       \* kind of the last call ("contains", "put", "remove")
  loc,          \* the current call's locals, reset when it returns
  seen,         \* history: was arg out of the map during containsKey
  is_cacheline_alignment \* _is_cacheline_alignment, set by the constructor

vars == <<table, timestamp, owner, pc, arg, opsDone, ret, cret, lastOp, loc, seen,
          is_cacheline_alignment>>

(* Locals: free_bucket and whether it goes to the head or the end of the  *)
(* list (putIfAbsent); the current bucket, last_bucket and the returned    *)
(* data (remove); start_timestamp and next_delta (containsKey); and       *)
(* opt_bucket, relocate_key, relocate_key_last (optimize_cacheline_use).  *)
NoLocals == [fb |-> NoBucket, mode |-> "none", pos |-> NoBucket,
             last |-> NoBucket, rc |-> EMPTY_DATA, ts |-> 0,
             delta |-> NULL_DELTA, opt |-> NoBucket, reloc |-> NoBucket,
             rlast |-> NoBucket]

PcStates == {"idle", "c_ts", "c_first", "c_walk", "c_check",
             "p_write", "p_link", "r_clear", "r_unlink", "r_ts", "r_next",
             "o_scan", "o_copy", "o_link", "o_ts", "o_clear", "exit"}
ContainsStates == {"c_ts", "c_first", "c_walk", "c_check"}

(* Bucket b holds key k: hash == _hash && IsEqual(key, _key).              *)
Matches(b, k) == table[b].hash = Hash[k] /\ table[b].key = k

Halted == \E t \in Threads : pc[t] = "exit"

Call(t, k, kind) ==
  /\ pc[t] = "idle"
  /\ opsDone[t] < MaxOps
  /\ opsDone' = [opsDone EXCEPT ![t] = @ + 1]
  /\ arg' = [arg EXCEPT ![t] = k]
  /\ lastOp' = [lastOp EXCEPT ![t] = kind]

Goto(t, p) == pc' = [pc EXCEPT ![t] = p]
SetLoc(t, l) == loc' = [loc EXCEPT ![t] = l]
Return(t) == Goto(t, "idle") /\ SetLoc(t, NoLocals)
Release(t) == owner' = [owner EXCEPT ![SegOfKey(arg[t])] = NoThread]

Init ==
  /\ is_cacheline_alignment \in CachelineModes
  /\ table = FillTable(is_cacheline_alignment)
  /\ timestamp = [s \in Segments |-> 0]
  /\ owner = [s \in Segments |-> NoThread]
  /\ pc = [t \in Threads |-> "idle"]
  /\ arg = [t \in Threads |-> NoKey]
  /\ opsDone = [t \in Threads |-> 0]
  /\ ret = [t \in Threads |-> NoKey]
  /\ cret = [t \in Threads |-> FALSE]
  /\ lastOp = [t \in Threads |-> "none"]
  /\ loc = [t \in Threads |-> NoLocals]
  /\ seen = [t \in Threads |-> FALSE]

-----------------------------------------------------------------------------
(* containsKey: no lock.  Read the segment timestamp, walk the home's      *)
(* list comparing each member, and when the walk ends without a match     *)
(* return false if the timestamp is unchanged, else start over.  A member *)
(* is read (triple and _next_delta) in one step.  Walking off the table   *)
(* (a corrupt offset) is undefined behaviour: the thread takes no further *)
(* step, as with a relocation source off the table.                       *)
CReturn(t, b) == cret' = [cret EXCEPT ![t] = b] /\ Return(t)

CUnchanged == UNCHANGED <<table, timestamp, owner, opsDone, ret, lastOp, arg>>

ContainsStart(t, k) ==
  /\ Call(t, k, "contains")
  /\ SetLoc(t, [NoLocals EXCEPT !.ts = timestamp[SegOfKey(k)]])
  /\ Goto(t, "c_first")
  /\ UNCHANGED <<table, timestamp, owner, ret, cret>>

ContainsReadTs(t) ==
  /\ pc[t] = "c_ts"
  /\ SetLoc(t, [loc[t] EXCEPT !.ts = timestamp[SegOfKey(arg[t])]])
  /\ Goto(t, "c_first")
  /\ UNCHANGED cret /\ CUnchanged

ContainsFirst(t) ==
  LET h == HomeOf(arg[t])
      d == table[h].first
  IN
  /\ pc[t] = "c_first"
  /\ SetLoc(t, [loc[t] EXCEPT !.pos = h, !.delta = d])
  /\ Goto(t, IF d = NULL_DELTA THEN "c_check" ELSE "c_walk")
  /\ UNCHANGED cret /\ CUnchanged

ContainsWalk(t) ==
  LET b == loc[t].pos + loc[t].delta IN
  /\ pc[t] = "c_walk"
  /\ b \in Buckets
  /\ \/ Matches(b, arg[t]) /\ CReturn(t, TRUE)
     \/ ~Matches(b, arg[t]) /\ UNCHANGED cret
        /\ SetLoc(t, [loc[t] EXCEPT !.pos = b, !.delta = table[b].next])
        /\ Goto(t, IF table[b].next = NULL_DELTA THEN "c_check" ELSE "c_walk")
  /\ CUnchanged

(* Mutant: the retry keeps the old start_timestamp. *)
ContainsCheckStale(t) ==
  /\ pc[t] = "c_check"
  /\ \/ timestamp[SegOfKey(arg[t])] = loc[t].ts /\ CReturn(t, FALSE)
     \/ timestamp[SegOfKey(arg[t])] # loc[t].ts /\ Goto(t, "c_first")
        /\ UNCHANGED <<cret, loc>>
  /\ CUnchanged

ContainsCheck(t) ==
  /\ pc[t] = "c_check"
  /\ \/ timestamp[SegOfKey(arg[t])] = loc[t].ts /\ CReturn(t, FALSE)
     \/ timestamp[SegOfKey(arg[t])] # loc[t].ts /\ Goto(t, "c_ts")
        /\ UNCHANGED <<cret, loc>>
  /\ CUnchanged

-----------------------------------------------------------------------------
(* putIfAbsent(k, k): lock the segment and walk the home's list; a member  *)
(* holding k: unlock and return its data.  Otherwise find a bucket whose  *)
(* hash is EMPTY (FreeSearch), store data, key and hash into it, then     *)
(* link it into the list, unlock and return _EMPTY_DATA.  No free bucket: *)
(* exit(1), with the lock held.                                            *)
PUnchanged == UNCHANGED <<timestamp, opsDone, lastOp, arg, cret>>

(* Mutant: the walk for an existing key left out. *)
PutStartNoCheck(t, k) ==
  LET fs == FreeSearch(table, HomeOf(k), is_cacheline_alignment)
      l  == ListOf(table, HomeOf(k))
  IN
  /\ Call(t, k, "put")
  /\ owner[SegOfKey(k)] = NoThread
  /\ owner' = [owner EXCEPT ![SegOfKey(k)] = t] /\ UNCHANGED ret
  /\ \/ fs.mode = "none" /\ Goto(t, "exit") /\ UNCHANGED loc
     \/ fs.mode # "none" /\ Goto(t, "p_write")
        /\ SetLoc(t, [NoLocals EXCEPT !.fb = fs.bucket, !.mode = fs.mode,
                             !.last = IF l = <<>> THEN NoBucket ELSE Last(l)])
  /\ UNCHANGED <<table, timestamp, cret>>

PutStart(t, k) ==
  LET h  == HomeOf(k)
      l  == ListOf(table, h)
      i  == FindIn(table, l, k)
      fs == FreeSearch(table, h, is_cacheline_alignment)
  IN
  /\ Call(t, k, "put")
  /\ owner[SegOfKey(k)] = NoThread
  /\ \/ i # 0 /\ ret' = [ret EXCEPT ![t] = table[l[i]].data] /\ Return(t)
        /\ UNCHANGED owner
     \/ i = 0 /\ owner' = [owner EXCEPT ![SegOfKey(k)] = t] /\ UNCHANGED ret
        /\ \/ fs.mode = "none" /\ Goto(t, "exit") /\ UNCHANGED loc
           \/ fs.mode # "none" /\ Goto(t, "p_write")
              /\ SetLoc(t, [NoLocals EXCEPT !.fb = fs.bucket, !.mode = fs.mode,
                                   !.last = IF l = <<>> THEN NoBucket ELSE Last(l)])
  /\ UNCHANGED <<table, timestamp, cret>>

PutWrite(t) ==
  LET fb == loc[t].fb IN
  /\ pc[t] = "p_write"
  /\ table' = IF loc[t].mode = "begin" THEN WriteTriple(table, fb, arg[t])
              ELSE [WriteTriple(table, fb, arg[t]) EXCEPT ![fb].next = NULL_DELTA]
  /\ Goto(t, "p_link")
  /\ UNCHANGED <<owner, ret, loc>> /\ PUnchanged

PutLink(t) ==
  LET h  == HomeOf(arg[t])
      fb == loc[t].fb
  IN
  /\ pc[t] = "p_link"
  /\ table' = IF loc[t].mode = "begin" THEN LinkBeginning(table, h, fb)
              ELSE LinkEnd(table, h, fb, loc[t].last)
  /\ Release(t)
  /\ ret' = [ret EXCEPT ![t] = EMPTY_DATA]
  /\ Return(t)
  /\ PUnchanged
-----------------------------------------------------------------------------
(* remove(k): lock the segment and walk the home's list; no member holds   *)
(* k: unlock and return _EMPTY_DATA.  Otherwise remove_key: clear the     *)
(* bucket's hash, key and data, unlink it (the predecessor, or the home's *)
(* _first_delta, takes over its _next_delta), bump the timestamp and      *)
(* clear its _next_delta; then, with cache-line alignment,                 *)
(* optimize_cacheline_use; unlock and return the data.                     *)
RemoveStart(t, k) ==
  LET l == ListOf(table, HomeOf(k))
      i == FindIn(table, l, k)
  IN
  /\ Call(t, k, "remove")
  /\ owner[SegOfKey(k)] = NoThread
  /\ \/ i = 0 /\ ret' = [ret EXCEPT ![t] = EMPTY_DATA] /\ Return(t)
        /\ UNCHANGED owner
     \/ i # 0 /\ owner' = [owner EXCEPT ![SegOfKey(k)] = t] /\ UNCHANGED ret
        /\ SetLoc(t, [NoLocals EXCEPT !.pos = l[i], !.last = Before(l, i),
                                      !.rc = table[l[i]].data])
        /\ Goto(t, "r_clear")
  /\ UNCHANGED <<table, timestamp, cret>>

RUnchanged == UNCHANGED <<owner, ret, loc>> /\ PUnchanged

(* Mutant: the bucket keeps its hash and key. *)
RemoveClearKeep(t) ==
  /\ pc[t] = "r_clear"
  /\ table' = [table EXCEPT ![loc[t].pos].data = EMPTY_DATA]
  /\ Goto(t, "r_unlink")
  /\ RUnchanged

RemoveClear(t) ==
  LET b == loc[t].pos IN
  /\ pc[t] = "r_clear"
  /\ table' = [table EXCEPT ![b].hash = EMPTY_HASH, ![b].key = EMPTY_KEY,
                            ![b].data = EMPTY_DATA]
  /\ Goto(t, "r_unlink")
  /\ RUnchanged

\* the predecessor's offset plus the removed member's, or NULL at the end
Skip(d, kb) == IF table[kb].next = NULL_DELTA THEN NULL_DELTA ELSE d + table[kb].next

(* Mutant: the predecessor ignored; the head's offset is always changed. *)
RemoveUnlinkHead(t) ==
  /\ pc[t] = "r_unlink"
  /\ table' = [table EXCEPT ![HomeOf(arg[t])].first = Skip(@, loc[t].pos)]
  /\ Goto(t, "r_ts")
  /\ RUnchanged

RemoveUnlink(t) ==
  LET kb   == loc[t].pos
      from == HomeOf(arg[t])
      prev == loc[t].last
  IN
  /\ pc[t] = "r_unlink"
  /\ table' = IF prev = NoBucket
                THEN [table EXCEPT ![from].first = Skip(@, kb)]
                ELSE [table EXCEPT ![prev].next = Skip(@, kb)]
  /\ Goto(t, "r_ts")
  /\ RUnchanged

(* Mutant: the timestamp is not bumped. *)
RemoveTsSkip(t) ==
  /\ pc[t] = "r_ts"
  /\ Goto(t, "r_next")
  /\ UNCHANGED <<table, timestamp, owner, ret, loc, opsDone, lastOp, arg, cret>>

RemoveTs(t) ==
  /\ pc[t] = "r_ts"
  /\ timestamp' = [timestamp EXCEPT ![SegOfKey(arg[t])] = (@ + 1) % TsModulus]
  /\ Goto(t, "r_next")
  /\ UNCHANGED <<table, owner, ret, loc, opsDone, lastOp, arg, cret>>

\* unlock and return the removed data
RemoveDone(t) ==
  /\ Release(t)
  /\ ret' = [ret EXCEPT ![t] = loc[t].rc]
  /\ Return(t)

RemoveNext(t) ==
  /\ pc[t] = "r_next"
  /\ table' = [table EXCEPT ![loc[t].pos].next = NULL_DELTA]
  /\ IF is_cacheline_alignment
       THEN Goto(t, "o_scan") /\ UNCHANGED <<owner, ret, loc>>
       ELSE RemoveDone(t)
  /\ PUnchanged

-----------------------------------------------------------------------------
(* optimize_cacheline_use(segment, free_bucket): for each bucket of the    *)
(* freed bucket's cache line, in order, walk its list with curr_delta, the *)
(* offset from that bucket; the first member with curr_delta < 0 or       *)
(* > cache_mask is copied into the free bucket, which takes its place in  *)
(* the list; the timestamp of the remover's segment is bumped and the old *)
(* bucket cleared.  At most one key moves.                                 *)
OutsideAt(tbl, o) ==
  SelectInSeq(ListOf(tbl, o), LAMBDA b : b - o < 0 \/ b - o > cache_mask)

RelocateSearch(tbl, fb) ==
  LET opts == [j \in 1 .. cache_mask + 1 |-> StartCacheline(fb) + j - 1]
      j    == SelectInSeq(opts, LAMBDA o : OutsideAt(tbl, o) # 0)
  IN  IF j = 0 THEN [opt |-> NoBucket, reloc |-> NoBucket, rlast |-> NoBucket]
      ELSE LET o == opts[j]
               l == ListOf(tbl, o)
               i == OutsideAt(tbl, o)
           IN  [opt |-> o, reloc |-> l[i], rlast |-> Before(l, i)]

OptimizeScan(t) ==
  LET r == RelocateSearch(table, loc[t].pos) IN
  /\ pc[t] = "o_scan"
  /\ \/ r.opt = NoBucket /\ RemoveDone(t)
     \/ r.opt # NoBucket /\ r.reloc \in Buckets /\ Goto(t, "o_copy")
        /\ SetLoc(t, [loc[t] EXCEPT !.opt = r.opt, !.reloc = r.reloc,
                                    !.rlast = r.rlast])
        /\ UNCHANGED <<owner, ret>>
  /\ UNCHANGED table /\ PUnchanged

OptimizeCopy(t) ==
  LET fb == loc[t].pos
      rk == loc[t].reloc
      r  == table[rk]
  IN
  /\ pc[t] = "o_copy"
  /\ table' = [table EXCEPT ![fb].data = r.data, ![fb].key = r.key,
                            ![fb].hash = r.hash,
                            ![fb].next = IF r.next = NULL_DELTA THEN NULL_DELTA
                                         ELSE rk + r.next - fb]
  /\ Goto(t, "o_link")
  /\ RUnchanged

OptimizeLink(t) ==
  LET fb == loc[t].pos
      o  == loc[t].opt
      rl == loc[t].rlast
  IN
  /\ pc[t] = "o_link"
  /\ table' = IF rl = NoBucket THEN [table EXCEPT ![o].first = fb - o]
              ELSE [table EXCEPT ![rl].next = fb - rl]
  /\ Goto(t, "o_ts")
  /\ RUnchanged

OptimizeTs(t) ==
  /\ pc[t] = "o_ts"
  /\ timestamp' = [timestamp EXCEPT ![SegOfKey(arg[t])] = (@ + 1) % TsModulus]
  /\ Goto(t, "o_clear")
  /\ UNCHANGED <<table, owner, ret, loc, opsDone, lastOp, arg, cret>>

(* Mutant: the relocated key's old bucket is left occupied. *)
OptimizeClearKeep(t) ==
  LET rk == loc[t].reloc IN
  /\ pc[t] = "o_clear"
  /\ table' = [table EXCEPT ![rk].next = NULL_DELTA]
  /\ RemoveDone(t)
  /\ PUnchanged

OptimizeClear(t) ==
  LET rk == loc[t].reloc IN
  /\ pc[t] = "o_clear"
  /\ table' = [table EXCEPT ![rk].hash = EMPTY_HASH, ![rk].key = EMPTY_KEY,
                            ![rk].data = EMPTY_DATA, ![rk].next = NULL_DELTA]
  /\ RemoveDone(t)
  /\ PUnchanged

-----------------------------------------------------------------------------
(* The map the table stands for: a key is in it when a member of its home *)
(* list holds it.  putIfAbsent takes effect when it links the bucket,     *)
(* remove when it clears the bucket's hash; a relocation swaps one member *)
(* for another holding the same key in one store (OptimizeLink).          *)
InMap(tbl, k) == FindIn(tbl, ListOf(tbl, HomeOf(k)), k) # 0
LogicalKeys == {k \in Keys : InMap(table, k)}

(* History of containsKey calls: whether the key was out of the map in    *)
(* some state from the call's invocation to its return.                    *)
Observe ==
  seen' = [u \in Threads |->
    LET a       == arg'[u]
        started == opsDone'[u] # opsDone[u]
        base    == IF started THEN ~InMap(table, a) ELSE seen[u]
    IN
    IF lastOp'[u] = "contains" /\ (started \/ pc[u] \in ContainsStates)
      THEN base \/ ~InMap(table', a)
      ELSE IF started THEN FALSE ELSE seen[u]]

Step(t) ==
  \/ \E k \in Keys :
        \/ "contains" \in CallKinds /\ ContainsStart(t, k)
        \/ "put" \in CallKinds /\ PutStart(t, k)
        \/ "remove" \in CallKinds /\ RemoveStart(t, k)
  \/ ContainsReadTs(t) \/ ContainsFirst(t) \/ ContainsWalk(t) \/ ContainsCheck(t)
  \/ PutWrite(t) \/ PutLink(t)
  \/ RemoveClear(t) \/ RemoveUnlink(t) \/ RemoveTs(t) \/ RemoveNext(t)
  \/ OptimizeScan(t) \/ OptimizeCopy(t) \/ OptimizeLink(t) \/ OptimizeTs(t)
  \/ OptimizeClear(t)

ThreadStep(t) == Step(t) /\ Observe /\ UNCHANGED is_cacheline_alignment

(* Every thread has made its calls, or one has called exit(1).            *)
Terminated == Halted \/ \A t \in Threads : pc[t] = "idle" /\ opsDone[t] = MaxOps

Next ==
  \/ ~Halted /\ \E t \in Threads : ThreadStep(t)
  \/ Terminated /\ UNCHANGED vars

(* The OS scheduler runs every runnable thread eventually.                 *)
Fairness == \A t \in Threads : WF_vars(ThreadStep(t))

Spec == Init /\ [][Next]_vars /\ Fairness

-----------------------------------------------------------------------------
TypeOK ==
  /\ table \in [Buckets -> [first : Int, next : Int, hash : Nat,
                            key : Keys \cup {NoKey}, data : Keys \cup {NoKey}]]
  /\ timestamp \in [Segments -> 0 .. TsModulus - 1]
  /\ owner \in [Segments -> Threads \cup {NoThread}]
  /\ pc \in [Threads -> PcStates]
  /\ opsDone \in [Threads -> 0 .. MaxOps]
  /\ \A t \in Threads : loc[t].fb \in Buckets \cup {NoBucket}
                        /\ loc[t].pos \in Buckets \cup {NoBucket}
  /\ seen \in [Threads -> BOOLEAN] /\ is_cacheline_alignment \in BOOLEAN

(* Refinement.  putIfAbsent and remove are linearisable: with the         *)
(* linearisation points above, the lists' contents and the calls' return  *)
(* values follow AtomicMap.  A relocation must never change the map.       *)
LogicalMap == [k \in LogicalKeys |-> k]

PendingOp(t) ==
  CASE pc[t] \in {"p_write", "p_link"} \/ (pc[t] = "exit" /\ lastOp[t] = "put")
         -> [kind |-> "put", key |-> arg[t], data |-> arg[t]]
    [] pc[t] = "r_clear" -> [kind |-> "remove", key |-> arg[t], data |-> arg[t]]
    [] OTHER -> NoThread

RemovedStates == {"r_unlink", "r_ts", "r_next", "o_scan", "o_copy", "o_link",
                  "o_ts", "o_clear"}
ResultOf(t) == IF pc[t] \in RemovedStates THEN loc[t].rc ELSE ret[t]

AM == INSTANCE AtomicMap WITH
        map <- LogicalMap, pending <- [t \in Threads |-> PendingOp(t)],
        result <- [t \in Threads |-> ResultOf(t)],
        NoOp <- NoThread, InitMap <- [k \in ToSet(FillKeys) |-> k]

Linearizable == AM!ASpec

(* The lists are the map's structure (spec section 4.2): whenever no       *)
(* thread holds the lock of a home's segment, the home's list is finite   *)
(* and stays in the table, every member holds a key of that home, no      *)
(* bucket is on two lists, and every occupied bucket whose key's segment  *)
(* is unlocked is on its home's list.  putIfAbsent's free-bucket claim,   *)
(* remove_key's unlinking and the relocation must all keep it.            *)
Unlocked(h) == owner[SegOfBucket(h)] = NoThread
Member(b, h) ==
  /\ b \in Buckets /\ table[b].hash # EMPTY_HASH /\ table[b].key \in Keys
  /\ table[b].hash = Hash[table[b].key] /\ HomeOf(table[b].key) = h

ListsSound ==
  LET U == {h \in Buckets : Unlocked(h)} IN
  /\ \A h \in U : LET l == ListOf(table, h) IN
       Len(l) <= Cardinality(Buckets) /\ \A i \in 1 .. Len(l) : Member(l[i], h)
  /\ \A h1, h2 \in U : LET l1 == ListOf(table, h1)
                           l2 == ListOf(table, h2)
                       IN  \A i \in 1 .. Len(l1), j \in 1 .. Len(l2) :
                             l1[i] = l2[j] => h1 = h2 /\ i = j
  /\ \A b \in Buckets : table[b].hash # EMPTY_HASH /\ table[b].key \in Keys
                        /\ Unlocked(HomeOf(table[b].key))
                        => b \in ToSet(ListOf(table, HomeOf(table[b].key)))

(* containsKey returning false saw its key out of the map at some instant  *)
(* of the call: an unlink or relocation that can hide a member from the   *)
(* walk must move the timestamp the walk re-checks.                       *)
ContainsFalseSound ==
  \A t \in Threads : pc[t] = "idle" /\ lastOp[t] = "contains" /\ ~cret[t]
                       => seen[t]

(* size(): the buckets whose hash is not EMPTY.  Once every thread is      *)
(* between calls it counts exactly the keys of the map: no relocated copy *)
(* or half-removed bucket is left behind.                                  *)
size == Cardinality({b \in Buckets : table[b].hash # EMPTY_HASH})

QuiescentSizeExact ==
  (\A t \in Threads : pc[t] = "idle") => size = Cardinality(LogicalKeys)

(* Every thread completes its calls (or the process exits) under the      *)
(* scheduler's weak fairness: containsKey's retry loop ends.              *)
AllCallsComplete == <>Terminated
=============================================================================
