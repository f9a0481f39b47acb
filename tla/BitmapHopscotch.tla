--------------------------- MODULE BitmapHopscotch ---------------------------
(***************************************************************************)
(* BitmapHopscotchHashMap (data_structures/BitmapHopscotchHashMap.h):      *)
(* hopscotch hashing with a bitmap neighbourhood per home bucket, one      *)
(* TTAS lock and one timestamp per segment, lock-free containsKey with a   *)
(* timestamp re-check, and the displacement search                        *)
(* find_closer_free_backet that may lock a second segment.                 *)
(*                                                                         *)
(* Each thread runs the benchmark loop of test/main.cpp: up to MaxOps      *)
(* calls of containsKey, putIfAbsent(k, k) or remove(k).  A step of a      *)
(* thread is one access to shared memory (or several consecutive accesses  *)
(* that no other thread can tell apart from one, e.g. reads of buckets     *)
(* guarded by a lock the thread holds).  putIfAbsent and the displacement  *)
(* write a bucket's (data, key, hash) triple as one step, the hash last,   *)
(* publishing it; remove's hash, key and data stores are separate steps,  *)
(* since another segment's probe may claim the bucket between them.        *)
(* Memory is sequentially consistent: the code orders its stores with      *)
(* write_barrier and volatile.                                             *)
(***************************************************************************)
EXTENDS Integers, Sequences, FiniteSets, SequencesExt

CONSTANTS
  Threads,          \* benchmark threads
  Keys,             \* keys; putIfAbsent(k, k) stores k as its own data
  Hash,             \* [Keys -> Nat]: _tHash::Calc
  Capacity,         \* inCapacity
  ConcurrencyLevel, \* concurrencyLevel
  HOP_RANGE,        \* _HOP_RANGE (32 in the code)
  INSERT_RANGE,     \* _INSERT_RANGE (4096 in the code)
  TS_BITS,          \* width of Segment::_timestamp (32 in the code)
  MaxOps,           \* bound: calls made by each thread
  FillKeys,         \* keys put by FillTable before the threads start
  NoKey,            \* _EMPTY_KEY = _EMPTY_DATA
  NoThread          \* owner of a free lock

EMPTY_HASH == 0     \* HASH_INT::_EMPTY_HASH
BUSY_HASH  == 1     \* HASH_INT::_BUSY_HASH
EMPTY_KEY  == NoKey
EMPTY_DATA == NoKey

(* NearestPowerOfTwo and CalcDivideShift, the constructor's helpers.       *)
RECURSIVE NPOTFrom(_, _)
NPOTFrom(rc, value) == IF rc < value THEN NPOTFrom(2 * rc, value) ELSE rc
NearestPowerOfTwo(value) == NPOTFrom(1, value)

RECURSIVE ShiftFrom(_, _, _)
ShiftFrom(curr, numShift, value) ==
  IF curr < value THEN ShiftFrom(2 * curr, numShift + 1, value) ELSE numShift
CalcDivideShift(value) == ShiftFrom(1, 0, value)

(* The fields set by the constructor.  A mask is 2^n - 1, so x & mask is   *)
(* x % (mask + 1), and x >> s is x \div 2^s.                               *)
segmentMask  == NearestPowerOfTwo(ConcurrencyLevel) - 1
segmentShift == CalcDivideShift(NearestPowerOfTwo(
                  ConcurrencyLevel \div NearestPowerOfTwo(ConcurrencyLevel)) - 1)
bucketMask   == NearestPowerOfTwo(Capacity) - 1
num_buckets  == (bucketMask + 1) + INSERT_RANGE + 1

Buckets  == 0 .. num_buckets - 1
Segments == 0 .. segmentMask
TsModulus == 2 ^ TS_BITS

HomeOf(k)      == Hash[k] % (bucketMask + 1)
SegOfKey(k)    == (Hash[k] \div 2 ^ segmentShift) % (segmentMask + 1)
SegOfBucket(b) == (b \div 2 ^ segmentShift) % (segmentMask + 1)

EmptyBucket ==
  [hopInfo |-> {}, hash |-> EMPTY_HASH, key |-> EMPTY_KEY, data |-> EMPTY_DATA]

(* FillTable (test/main.cpp) puts FillKeys one after the other before any  *)
(* benchmark thread runs; each lands in the first empty bucket from its   *)
(* home, within HOP_RANGE (assumed below), so no displacement is needed.   *)
FirstEmpty(tbl, h) ==
  Min({d \in 0 .. INSERT_RANGE - 1 : tbl[h + d].hash = EMPTY_HASH})

RECURSIVE FillFrom(_, _)
FillFrom(tbl, s) ==
  IF s = <<>> THEN tbl
  ELSE LET k == Head(s)
           h == HomeOf(k)
           d == FirstEmpty(tbl, h)
       IN  FillFrom([tbl EXCEPT ![h + d].data = k, ![h + d].key = k,
                                ![h + d].hash = Hash[k],
                                ![h].hopInfo = @ \cup {d}], Tail(s))

FillTable == FillFrom([b \in Buckets |-> EmptyBucket], FillKeys)

ASSUME /\ \A k \in Keys : Hash[k] \in Nat \ {EMPTY_HASH, BUSY_HASH}
       /\ HOP_RANGE <= INSERT_RANGE
       /\ FillKeys \in Seq(Keys) /\ Len(FillKeys) = Cardinality(ToSet(FillKeys))
       /\ \A k \in ToSet(FillKeys) :
            \E d \in 0 .. HOP_RANGE - 1 : FillTable[HomeOf(k) + d].key = k

VARIABLES
  table,        \* _table: [Buckets -> bucket record]
  timestamp,    \* Segment::_timestamp
  owner,        \* Segment::_lock: the holding thread or NoThread
  pc,           \* where each thread is in its current call
  arg,          \* the key of the current call
  opsDone,      \* calls started so far
  ret,          \* value returned by the last putIfAbsent/remove
  cret,         \* value returned by the last containsKey
  lastOp,       \* kind of the last call ("contains", "put", "remove")
  free_bucket, free_distance,        \* putIfAbsent locals
  move_backet, move_free_dist,       \* find_closer_free_backet locals
  move_new_free_distance, start_hop_info,
  hopInfo, startTimestamp, pos,      \* containsKey locals
  seen          \* history: was arg in / out of the map during containsKey

locals == <<arg, free_bucket, free_distance, move_backet, move_free_dist,
            move_new_free_distance, start_hop_info,
            hopInfo, startTimestamp, pos>>
vars == <<table, timestamp, owner, pc, opsDone, ret, cret, lastOp, locals, seen>>

PcStates == {"idle", "c_home", "c_ts", "c_scan", "c_recheck", "c_fallback",
             "p_probe", "p_place", "p_setbit", "d_scan", "d_lock", "d_copy",
             "d_ts", "d_setbit", "d_clrbit", "r_hash", "r_key", "r_data",
             "exit"}
ContainsStates == {"c_home", "c_ts", "c_scan", "c_recheck", "c_fallback"}
RemoveStates == {"r_hash", "r_key", "r_data"}
PutStates == {"p_probe", "p_place", "p_setbit", "d_scan", "d_lock", "d_copy",
              "d_ts", "d_setbit", "d_clrbit"}

(* Bucket b holds key k: hash == _hash && IsEqual(key, _key).              *)
Matches(b, k) == table[b].hash = Hash[k] /\ table[b].key = k

-----------------------------------------------------------------------------
(* The map the table stands for.  A key is reachable when a bit of its     *)
(* home's hopInfo points to a bucket holding it.  putIfAbsent takes effect *)
(* when it publishes the new bucket (its hash store), remove when it       *)
(* clears the bit.  MustKeys are in the map under every linearisation of   *)
(* the calls in progress, MayKeys under some.                              *)
Reachable(k) ==
  {HomeOf(k) + i : i \in {j \in table[HomeOf(k)].hopInfo : Matches(HomeOf(k) + j, k)}}
PublishedBy(k) == {t \in Threads : pc[t] = "p_setbit" /\ arg[t] = k}
RemovingBy(k)  == {t \in Threads : pc[t] \in RemoveStates /\ arg[t] = k}

MustKeys    == {k \in Keys : Reachable(k) # {}}
LogicalKeys == {k \in Keys : Reachable(k) # {} \/ PublishedBy(k) # {}}
MayKeys     == {k \in Keys : Reachable(k) # {} \/ PublishedBy(k) # {}
                             \/ RemovingBy(k) # {}}

Halted == \E t \in Threads : pc[t] = "exit"

Call(t, k, kind) ==
  /\ pc[t] = "idle"
  /\ opsDone[t] < MaxOps
  /\ opsDone' = [opsDone EXCEPT ![t] = @ + 1]
  /\ arg' = [arg EXCEPT ![t] = k]
  /\ lastOp' = [lastOp EXCEPT ![t] = kind]

Goto(t, p) == pc' = [pc EXCEPT ![t] = p]
Release(s)  == owner' = [owner EXCEPT ![s] = NoThread]

Init ==
  /\ table = FillTable
  /\ timestamp = [s \in Segments |-> 0]
  /\ owner = [s \in Segments |-> NoThread]
  /\ pc = [t \in Threads |-> "idle"]
  /\ arg = [t \in Threads |-> NoKey]
  /\ opsDone = [t \in Threads |-> 0]
  /\ ret = [t \in Threads |-> NoKey]
  /\ cret = [t \in Threads |-> FALSE]
  /\ lastOp = [t \in Threads |-> "none"]
  /\ free_bucket = [t \in Threads |-> 0]
  /\ free_distance = [t \in Threads |-> 0]
  /\ move_backet = [t \in Threads |-> 0]
  /\ move_free_dist = [t \in Threads |-> 0]
  /\ move_new_free_distance = [t \in Threads |-> 0]
  /\ start_hop_info = [t \in Threads |-> {}]
  /\ hopInfo = [t \in Threads |-> {}]
  /\ startTimestamp = [t \in Threads |-> 0]
  /\ pos = [t \in Threads |-> 0]
  /\ seen = [t \in Threads |-> [in |-> FALSE, out |-> FALSE]]

-----------------------------------------------------------------------------
(* containsKey: no lock.  Reads the home's hopInfo; 0 returns false, 1     *)
(* compares the home bucket only; otherwise reads the segment timestamp,  *)
(* scans the snapshot's bits lowest first, and when nothing matched and   *)
(* the timestamp moved, scans the HOP_RANGE buckets from home.             *)
\* first_lsb_bit_indx (framework/sparc_defns.h): the lowest set bit of a
\* hop_info word, held as the set of its bit positions; -1 for none.
first_lsb_bit_indx(bits) == IF bits = {} THEN -1 ELSE Min(bits)

CReturn(t, b) ==
  /\ cret' = [cret EXCEPT ![t] = b]
  /\ Goto(t, "idle")

ContainsStart(t, k) ==
  LET hop == table[HomeOf(k)].hopInfo IN
  /\ Call(t, k, "contains")
  /\ \/ hop = {} /\ CReturn(t, FALSE) /\ UNCHANGED hopInfo
     \/ hop = {0} /\ Goto(t, "c_home") /\ UNCHANGED <<hopInfo, cret>>
     \/ hop \notin {{}, {0}} /\ Goto(t, "c_ts") /\ UNCHANGED cret
        /\ hopInfo' = [hopInfo EXCEPT ![t] = hop]
  /\ UNCHANGED <<table, timestamp, owner, ret, free_bucket, free_distance,
                 move_backet, move_free_dist, move_new_free_distance,
                 start_hop_info, startTimestamp, pos>>

CUnchanged == UNCHANGED <<table, timestamp, owner, opsDone, ret, lastOp, arg,
                          free_bucket, free_distance, move_backet, move_free_dist,
                          move_new_free_distance, start_hop_info>>

ContainsHome(t) ==
  /\ pc[t] = "c_home"
  /\ CReturn(t, Matches(HomeOf(arg[t]), arg[t]))
  /\ UNCHANGED <<hopInfo, startTimestamp, pos>> /\ CUnchanged

ContainsReadTs(t) ==
  /\ pc[t] = "c_ts"
  /\ startTimestamp' = [startTimestamp EXCEPT ![t] = timestamp[SegOfKey(arg[t])]]
  /\ Goto(t, "c_scan")
  /\ UNCHANGED <<hopInfo, pos, cret>> /\ CUnchanged

ContainsScan(t) ==
  LET i == first_lsb_bit_indx(hopInfo[t]) IN
  /\ pc[t] = "c_scan"
  /\ \/ Matches(HomeOf(arg[t]) + i, arg[t]) /\ CReturn(t, TRUE)
        /\ UNCHANGED hopInfo
     \/ ~Matches(HomeOf(arg[t]) + i, arg[t]) /\ UNCHANGED cret
        /\ hopInfo' = [hopInfo EXCEPT ![t] = @ \ {i}]
        /\ Goto(t, IF hopInfo'[t] = {} THEN "c_recheck" ELSE "c_scan")
  /\ UNCHANGED <<startTimestamp, pos>> /\ CUnchanged

ContainsRecheck(t) ==
  /\ pc[t] = "c_recheck"
  /\ \/ timestamp[SegOfKey(arg[t])] = startTimestamp[t] /\ CReturn(t, FALSE)
        /\ UNCHANGED pos
     \/ timestamp[SegOfKey(arg[t])] # startTimestamp[t] /\ Goto(t, "c_fallback")
        /\ pos' = [pos EXCEPT ![t] = 0] /\ UNCHANGED cret
  /\ UNCHANGED <<hopInfo, startTimestamp>> /\ CUnchanged

ContainsFallback(t) ==
  LET hit == Matches(HomeOf(arg[t]) + pos[t], arg[t]) IN
  /\ pc[t] = "c_fallback"
  /\ \/ hit /\ CReturn(t, TRUE) /\ UNCHANGED pos
     \/ ~hit /\ pos[t] + 1 = HOP_RANGE /\ CReturn(t, FALSE) /\ UNCHANGED pos
     \/ ~hit /\ pos[t] + 1 < HOP_RANGE /\ UNCHANGED <<pc, cret>>
        /\ pos' = [pos EXCEPT ![t] = @ + 1]
  /\ UNCHANGED <<hopInfo, startTimestamp>> /\ CUnchanged

-----------------------------------------------------------------------------
(* putIfAbsent(k, k): lock the key's segment, return the data of a key     *)
(* already in the neighbourhood, else claim the first EMPTY bucket within *)
(* INSERT_RANGE by CAS to BUSY, displace until it is within HOP_RANGE,     *)
(* publish it and set its bit.  No free bucket: exit(1).                   *)
PUnchanged == UNCHANGED <<timestamp, opsDone, lastOp, arg, cret, hopInfo,
                          startTimestamp, pos>>

(* Mutant: the HOP_RANGE test off by one (<= for <). *)
ToPlaceOffByOne(t, fb, fd) ==
  /\ free_bucket' = [free_bucket EXCEPT ![t] = fb]
  /\ free_distance' = [free_distance EXCEPT ![t] = fd]
  /\ IF fd <= HOP_RANGE
       THEN Goto(t, "p_place") /\ UNCHANGED <<move_backet, move_free_dist>>
       ELSE /\ Goto(t, "d_scan")
            /\ move_backet' = [move_backet EXCEPT ![t] = fb - (HOP_RANGE - 1)]
            /\ move_free_dist' = [move_free_dist EXCEPT ![t] = HOP_RANGE - 1]

\* the do { ... } while (0 != free_bucket) loop head
ToPlace(t, fb, fd) ==
  /\ free_bucket' = [free_bucket EXCEPT ![t] = fb]
  /\ free_distance' = [free_distance EXCEPT ![t] = fd]
  /\ IF fd < HOP_RANGE
       THEN Goto(t, "p_place") /\ UNCHANGED <<move_backet, move_free_dist>>
       ELSE /\ Goto(t, "d_scan")
            /\ move_backet' = [move_backet EXCEPT ![t] = fb - (HOP_RANGE - 1)]
            /\ move_free_dist' = [move_free_dist EXCEPT ![t] = HOP_RANGE - 1]

PutStart(t, k) ==
  LET h     == HomeOf(k)
      found == {i \in table[h].hopInfo : Matches(h + i, k)}
  IN
  /\ Call(t, k, "put")
  /\ owner[SegOfKey(k)] = NoThread
  /\ \/ found # {} /\ ret' = [ret EXCEPT ![t] = table[h + Min(found)].data]
        /\ Goto(t, "idle") /\ UNCHANGED <<owner, free_bucket, free_distance>>
     \/ found = {} /\ owner' = [owner EXCEPT ![SegOfKey(k)] = t]
        /\ Goto(t, "p_probe") /\ UNCHANGED ret
        /\ free_bucket' = [free_bucket EXCEPT ![t] = h]
        /\ free_distance' = [free_distance EXCEPT ![t] = 0]
  /\ UNCHANGED <<table, timestamp, cret, hopInfo, startTimestamp, pos,
                 move_backet, move_free_dist, move_new_free_distance, start_hop_info>>

PutProbe(t) ==
  LET b == free_bucket[t]
      d == free_distance[t]
  IN
  /\ pc[t] = "p_probe"
  /\ \/ table[b].hash = EMPTY_HASH
        /\ table' = [table EXCEPT ![b].hash = BUSY_HASH]
        /\ ToPlace(t, b, d)
     \/ table[b].hash # EMPTY_HASH /\ d + 1 < INSERT_RANGE
        /\ free_bucket' = [free_bucket EXCEPT ![t] = b + 1]
        /\ free_distance' = [free_distance EXCEPT ![t] = d + 1]
        /\ UNCHANGED <<table, pc, move_backet, move_free_dist>>
     \/ table[b].hash # EMPTY_HASH /\ d + 1 = INSERT_RANGE
        /\ Goto(t, "exit")
        /\ UNCHANGED <<table, free_bucket, free_distance, move_backet, move_free_dist>>
  /\ UNCHANGED <<owner, ret, move_new_free_distance, start_hop_info>> /\ PUnchanged

PutPlace(t) ==
  LET b == free_bucket[t]
      k == arg[t]
  IN
  /\ pc[t] = "p_place"
  /\ table' = [table EXCEPT ![b].data = k, ![b].key = k, ![b].hash = Hash[k]]
  /\ Goto(t, "p_setbit")
  /\ UNCHANGED <<owner, ret, free_bucket, free_distance, move_backet,
                 move_free_dist, move_new_free_distance, start_hop_info>>
  /\ PUnchanged

PutSetBit(t) ==
  /\ pc[t] = "p_setbit"
  /\ table' = [table EXCEPT ![HomeOf(arg[t])].hopInfo = @ \cup {free_distance[t]}]
  /\ Release(SegOfKey(arg[t]))
  /\ ret' = [ret EXCEPT ![t] = EMPTY_DATA]
  /\ Goto(t, "idle")
  /\ UNCHANGED <<free_bucket, free_distance, move_backet, move_free_dist,
                 move_new_free_distance, start_hop_info>>
  /\ PUnchanged

-----------------------------------------------------------------------------
(* find_closer_free_backet: move_backet walks from free - (HOP_RANGE-1)    *)
(* towards the free bucket while move_free_dist counts down; the lowest   *)
(* bit below move_free_dist of an (unlocked) hopInfo snapshot names the   *)
(* key to move.  The move locks the bucket's segment when it is not the   *)
(* caller's, re-checks the snapshot, copies the key into the free bucket, *)
(* bumps the timestamp, sets the new bit and clears the old one.  The     *)
(* moved-from bucket becomes the free bucket; its copy is left in place.  *)
Foreign(t) == SegOfBucket(move_backet[t]) # SegOfKey(arg[t])

DUnchanged == UNCHANGED <<ret, free_bucket, free_distance, move_backet,
                          move_free_dist, move_new_free_distance,
                          start_hop_info>> /\ PUnchanged

(* Mutant: an exhausted search starts over instead of giving up. *)
AdvanceRetry(t) ==
  IF move_free_dist[t] - 1 > 0
    THEN /\ move_backet' = [move_backet EXCEPT ![t] = @ + 1]
         /\ move_free_dist' = [move_free_dist EXCEPT ![t] = @ - 1]
         /\ Goto(t, "d_scan")
    ELSE /\ move_backet' = [move_backet EXCEPT ![t] = free_bucket[t] - (HOP_RANGE - 1)]
         /\ move_free_dist' = [move_free_dist EXCEPT ![t] = HOP_RANGE - 1]
         /\ Goto(t, "d_scan")

\* ++move_backet, --move_free_dist; the loop ends with free_backet = 0
Advance(t) ==
  IF move_free_dist[t] - 1 > 0
    THEN /\ move_backet' = [move_backet EXCEPT ![t] = @ + 1]
         /\ move_free_dist' = [move_free_dist EXCEPT ![t] = @ - 1]
         /\ Goto(t, "d_scan")
    ELSE Goto(t, "exit") /\ UNCHANGED <<move_backet, move_free_dist>>

DisplaceScan(t) ==
  LET snap == table[move_backet[t]].hopInfo
      cand == {i \in snap : i < move_free_dist[t]}
  IN
  /\ pc[t] = "d_scan"
  /\ \/ cand # {} /\ Goto(t, "d_lock")
        /\ start_hop_info' = [start_hop_info EXCEPT ![t] = snap]
        /\ move_new_free_distance' = [move_new_free_distance EXCEPT ![t] = Min(cand)]
        /\ UNCHANGED <<move_backet, move_free_dist>>
     \/ cand = {} /\ Advance(t)
        /\ UNCHANGED <<start_hop_info, move_new_free_distance>>
  /\ UNCHANGED <<table, owner, ret, free_bucket, free_distance>> /\ PUnchanged

DisplaceLock(t) ==
  LET ms == SegOfBucket(move_backet[t]) IN
  /\ pc[t] = "d_lock"
  /\ Foreign(t) => owner[ms] = NoThread
  /\ \/ start_hop_info[t] = table[move_backet[t]].hopInfo /\ Goto(t, "d_copy")
        /\ owner' = (IF Foreign(t) THEN [owner EXCEPT ![ms] = t] ELSE owner)
        /\ UNCHANGED <<move_backet, move_free_dist>>
     \/ start_hop_info[t] # table[move_backet[t]].hopInfo /\ Advance(t)
        /\ UNCHANGED owner
  /\ UNCHANGED <<table, ret, free_bucket, free_distance, move_new_free_distance,
                 start_hop_info>> /\ PUnchanged

DisplaceCopy(t) ==
  LET src == table[move_backet[t] + move_new_free_distance[t]]
      fb  == free_bucket[t]
  IN
  /\ pc[t] = "d_copy"
  /\ table' = [table EXCEPT ![fb].data = src.data, ![fb].key = src.key,
                            ![fb].hash = src.hash]
  /\ Goto(t, "d_ts")
  /\ UNCHANGED owner /\ DUnchanged

DisplaceTs(t) ==
  LET ms == SegOfBucket(move_backet[t]) IN
  /\ pc[t] = "d_ts"
  /\ timestamp' = [timestamp EXCEPT ![ms] = (@ + 1) % TsModulus]
  /\ Goto(t, "d_setbit")
  /\ UNCHANGED <<table, owner, opsDone, lastOp, arg, cret, hopInfo,
                 startTimestamp, pos, ret, free_bucket, free_distance,
                 move_backet, move_free_dist, move_new_free_distance,
                 start_hop_info>>

(* Mutant: the new bit set one position short. *)
DisplaceSetBitOffByOne(t) ==
  /\ pc[t] = "d_setbit"
  /\ table' = [table EXCEPT ![move_backet[t]].hopInfo = @ \cup {move_free_dist[t] - 1}]
  /\ Goto(t, "d_clrbit")
  /\ UNCHANGED owner /\ DUnchanged

DisplaceSetBit(t) ==
  /\ pc[t] = "d_setbit"
  /\ table' = [table EXCEPT ![move_backet[t]].hopInfo = @ \cup {move_free_dist[t]}]
  /\ Goto(t, "d_clrbit")
  /\ UNCHANGED owner /\ DUnchanged

(* Mutant: the old bit is not cleared. *)
DisplaceClrBitKeep(t) ==
  LET mb == move_backet[t] IN
  /\ pc[t] = "d_clrbit"
  /\ UNCHANGED table
  /\ owner' = IF Foreign(t) THEN [owner EXCEPT ![SegOfBucket(mb)] = NoThread]
              ELSE owner
  /\ ToPlace(t, mb + move_new_free_distance[t],
             free_distance[t] - move_free_dist[t])
  /\ UNCHANGED <<ret, move_new_free_distance, start_hop_info>> /\ PUnchanged

\* *free_backet = new_free_backet; *free_distance -= move_free_dist;
DisplaceClrBit(t) ==
  LET mb == move_backet[t] IN
  /\ pc[t] = "d_clrbit"
  /\ table' = [table EXCEPT ![mb].hopInfo = @ \ {move_new_free_distance[t]}]
  /\ owner' = IF Foreign(t) THEN [owner EXCEPT ![SegOfBucket(mb)] = NoThread]
              ELSE owner
  /\ ToPlace(t, mb + move_new_free_distance[t],
             free_distance[t] - move_free_dist[t])
  /\ UNCHANGED <<ret, move_new_free_distance, start_hop_info>> /\ PUnchanged

-----------------------------------------------------------------------------
(* remove(k): lock the segment, find the lowest bit whose bucket holds k   *)
(* (hopInfo 1: the home bucket only), clear the bit, then clear the       *)
(* bucket's hash, key and data, unlock and return the data.  The three    *)
(* stores are separate steps: once the hash is EMPTY another segment's    *)
(* putIfAbsent may claim the bucket by CAS (line 276) and write it before *)
(* the key and data stores land.                                          *)
RemoveStart(t, k) ==
  LET h     == HomeOf(k)
      found == {i \in table[h].hopInfo : Matches(h + i, k)}
  IN
  /\ Call(t, k, "remove")
  /\ owner[SegOfKey(k)] = NoThread
  /\ \/ found = {} /\ ret' = [ret EXCEPT ![t] = EMPTY_DATA] /\ Goto(t, "idle")
        /\ UNCHANGED <<table, owner, pos>>
     \/ found # {} /\ owner' = [owner EXCEPT ![SegOfKey(k)] = t]
        /\ table' = [table EXCEPT ![h].hopInfo = @ \ {Min(found)}]
        /\ pos' = [pos EXCEPT ![t] = h + Min(found)]
        /\ Goto(t, "r_hash") /\ UNCHANGED ret
  /\ UNCHANGED <<timestamp, cret, hopInfo, startTimestamp, free_bucket,
                 free_distance, move_backet, move_free_dist,
                 move_new_free_distance, start_hop_info>>

RDone(t) ==
  /\ Goto(t, "idle")
  /\ UNCHANGED <<free_bucket, free_distance, move_backet, move_free_dist,
                 move_new_free_distance, start_hop_info>> /\ PUnchanged

RUnchanged == UNCHANGED <<owner, ret, free_bucket, free_distance, move_backet,
                          move_free_dist, move_new_free_distance,
                          start_hop_info>> /\ PUnchanged

(* Mutant: the bucket's stores left out; the bucket keeps the removed key. *)
RemoveHashKeep(t) ==
  /\ pc[t] = "r_hash"
  /\ ret' = [ret EXCEPT ![t] = table[pos[t]].data]
  /\ UNCHANGED table
  /\ Release(SegOfKey(arg[t]))
  /\ RDone(t)

\* currElm->_hash = _EMPTY_HASH
RemoveHash(t) ==
  /\ pc[t] = "r_hash"
  /\ table' = [table EXCEPT ![pos[t]].hash = EMPTY_HASH]
  /\ Goto(t, "r_key") /\ RUnchanged

\* currElm->_key = _EMPTY_KEY
RemoveKey(t) ==
  /\ pc[t] = "r_key"
  /\ table' = [table EXCEPT ![pos[t]].key = EMPTY_KEY]
  /\ Goto(t, "r_data") /\ RUnchanged

\* rc = currElm->_data; currElm->_data = _EMPTY_DATA; unlock; return rc
RemoveData(t) ==
  /\ pc[t] = "r_data"
  /\ ret' = [ret EXCEPT ![t] = table[pos[t]].data]
  /\ table' = [table EXCEPT ![pos[t]].data = EMPTY_DATA]
  /\ Release(SegOfKey(arg[t]))
  /\ RDone(t)

-----------------------------------------------------------------------------
(* History of containsKey calls: whether the key was in MayKeys, and       *)
(* outside MustKeys, in some state from the call's invocation to its      *)
(* return.                                                                 *)
Observe ==
  seen' = [u \in Threads |->
    LET a       == arg'[u]
        started == opsDone'[u] # opsDone[u]
        base    == IF started THEN [in |-> a \in MayKeys, out |-> a \notin MustKeys]
                   ELSE seen[u]
    IN
    IF lastOp'[u] = "contains" /\ (started \/ pc[u] \in ContainsStates)
      THEN [in |-> base.in \/ a \in MayKeys', out |-> base.out \/ a \notin MustKeys']
      ELSE IF started THEN [in |-> FALSE, out |-> FALSE] ELSE seen[u]]

Step(t) ==
  \/ \E k \in Keys : ContainsStart(t, k) \/ PutStart(t, k) \/ RemoveStart(t, k)
  \/ ContainsHome(t) \/ ContainsReadTs(t) \/ ContainsScan(t)
  \/ ContainsRecheck(t) \/ ContainsFallback(t)
  \/ PutProbe(t) \/ PutPlace(t) \/ PutSetBit(t)
  \/ DisplaceScan(t) \/ DisplaceLock(t) \/ DisplaceCopy(t) \/ DisplaceTs(t)
  \/ DisplaceSetBit(t) \/ DisplaceClrBit(t)
  \/ RemoveHash(t) \/ RemoveKey(t) \/ RemoveData(t)

(* Every thread has made its calls, or one has called exit(1).            *)
Terminated == Halted \/ \A t \in Threads : pc[t] = "idle" /\ opsDone[t] = MaxOps

Next ==
  \/ ~Halted /\ \E t \in Threads : Step(t) /\ Observe
  \/ Terminated /\ UNCHANGED vars

(* The OS scheduler runs every runnable thread eventually.                 *)
Fairness == \A t \in Threads : WF_vars(Step(t) /\ Observe)

Spec == Init /\ [][Next]_vars /\ Fairness

-----------------------------------------------------------------------------
TypeOK ==
  /\ table \in [Buckets -> [hopInfo : SUBSET (0 .. HOP_RANGE - 1),
                            hash : Nat, key : Keys \cup {NoKey},
                            data : Keys \cup {NoKey}]]
  /\ timestamp \in [Segments -> 0 .. TsModulus - 1]
  /\ owner \in [Segments -> Threads \cup {NoThread}]
  /\ pc \in [Threads -> PcStates]
  /\ opsDone \in [Threads -> 0 .. MaxOps]
  /\ free_bucket \in [Threads -> Buckets]
  /\ free_distance \in [Threads -> 0 .. INSERT_RANGE]
  /\ seen \in [Threads -> [in : BOOLEAN, out : BOOLEAN]]

(* Refinement.  putIfAbsent and remove are linearisable: with the         *)
(* linearisation points above (publishing the bucket, clearing the bit),  *)
(* the table's contents and the calls' return values follow AtomicMap.    *)
(* A displacement (find_closer_free_backet) must never change the map.    *)
LogicalMap == [k \in LogicalKeys |-> k]

PendingOp(t) ==
  IF pc[t] \in (PutStates \ {"p_setbit"}) \cup {"exit"}
    THEN [kind |-> "put", key |-> arg[t], data |-> arg[t]]
    ELSE NoThread

ResultOf(t) ==
  CASE pc[t] = "p_setbit" -> EMPTY_DATA
    [] pc[t] \in RemoveStates -> table[pos[t]].data
    [] OTHER              -> ret[t]

AM == INSTANCE AtomicMap WITH
        map <- LogicalMap, pending <- [t \in Threads |-> PendingOp(t)],
        result <- [t \in Threads |-> ResultOf(t)],
        NoOp <- NoThread, InitMap <- [k \in ToSet(FillKeys) |-> k]

Linearizable == AM!ASpec

(* The corruption invariant of the design (spec section 7): every set bit  *)
(* of a home bucket points to a published bucket holding a key of that    *)
(* home.  Holds only if put, remove and displacement order their bucket   *)
(* and bit stores right and displacement keeps its distance arithmetic.   *)
HopInfoSound ==
  \A h \in 0 .. bucketMask : \A i \in table[h].hopInfo :
    /\ table[h + i].hash \notin {EMPTY_HASH, BUSY_HASH}
    /\ table[h + i].key \in Keys
    /\ HomeOf(table[h + i].key) = h

(* containsKey returning true saw its key in the map at some instant of    *)
(* the call (the timestamp fallback scan must not find a stale copy).      *)
ContainsTrueSound ==
  \A t \in Threads : pc[t] = "idle" /\ lastOp[t] = "contains" /\ cret[t]
                       => seen[t].in

(* containsKey returning false saw its key out of the map at some instant  *)
(* of the call (a concurrent displacement must not hide a present key).    *)
ContainsFalseSound ==
  \A t \in Threads : pc[t] = "idle" /\ lastOp[t] = "contains" /\ ~cret[t]
                       => seen[t].out

(* size(): buckets 0 .. _bucketMask + _INSERT_RANGE - 1 not EMPTY.  Once   *)
(* every thread is between calls, it counts exactly the keys of the map:  *)
(* no BUSY claim, displaced copy or half-removed bucket is left behind.   *)
size == Cardinality({b \in 0 .. bucketMask + INSERT_RANGE - 1 :
                       table[b].hash # EMPTY_HASH})

QuiescentSizeExact ==
  (\A t \in Threads : pc[t] = "idle") => size = Cardinality(LogicalKeys)

(* The displacement may lock a second segment while holding its own: no    *)
(* two threads may each wait for the segment lock the other holds.         *)
WaitsFor(t) ==
  IF pc[t] = "d_lock" /\ Foreign(t) THEN owner[SegOfBucket(move_backet[t])]
  ELSE NoThread

NoCircularWait ==
  ~\E t1, t2 \in Threads : t1 # t2 /\ WaitsFor(t1) = t2 /\ WaitsFor(t2) = t1

(* Every thread completes its calls (or the process exits) under the      *)
(* scheduler's weak fairness.                                             *)
AllCallsComplete == <>Terminated

=============================================================================
