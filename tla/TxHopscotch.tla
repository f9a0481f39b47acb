----------------------------- MODULE TxHopscotch -----------------------------
(***************************************************************************)
(* Hopscotch (data_structures/hopscotch.hpp), the transactional variant:  *)
(* a bucket holds _hop_info (a bitmap of the distances at which its home's *)
(* keys lie), _key, _data and a lock (a flag guarded by a mutex and a     *)
(* condition variable).  A key's home is key & (MAX_SEGMENTS - 1); -1     *)
(* *BUSY marks an empty key or datum.    Every mutation first runs its    *)
(* body between _xbegin() and _xend(); when the transaction aborts it     *)
(* runs the same body under the lock of the home (or move) bucket.        *)
(*                                                                         *)
(* A committed transaction is one atomic step: the hardware aborts it on  *)
(* any conflicting access, so the accesses of other threads are ordered   *)
(* before or after it.  It does not read the lock flag, so it may commit  *)
(* inside another thread's locked section.  A transaction may abort at    *)
(* any time (SPURIOUS_ABORTS); one that returns without _xend (add when   *)
(* contains() finds the key, find_closer_bucket when the hop_info check   *)
(* fails) cannot commit, and its abort rolls it back to its _xbegin,      *)
(* which then takes the locked path.  Outside transactions, a step is one *)
(* C++ statement's access to shared memory; memory is sequentially        *)
(* consistent (the fields are std::atomic).                                *)
(***************************************************************************)
EXTENDS Integers, FiniteSets, SequencesExt, Bitwise

CONSTANTS
  Threads,          \* calling threads
  Keys,             \* keys (ints >= 0); add(k, k) stores k as its own data
  MAX_SEGMENTS,     \* Hopscotch::MAX_SEGMENTS (1048576 in the code)
  HOP_RANGE,        \* Hopscotch::HOP_RANGE (32)
  ADD_RANGE,        \* Hopscotch::ADD_RANGE (256), also the table's tail
  SPURIOUS_ABORTS,  \* whether a transaction may abort for no visible reason
  MaxOps,           \* bound: calls made by each thread
  CallKinds,        \* calls the threads make, a subset of {"contains", "add", "remove"}
  FillKeys          \* keys added one after the other before the threads start

BUSY == -1          \* *BUSY, also the empty _key / _data of Bucket()

ASSUME /\ Keys \subseteq Nat /\ MAX_SEGMENTS \in {2 ^ n : n \in 0 .. 10}
       /\ HOP_RANGE \in 1 .. 32 /\ ADD_RANGE \in HOP_RANGE .. 256
       /\ SPURIOUS_ABORTS \in BOOLEAN
       /\ CallKinds \subseteq {"contains", "add", "remove"}

\* segments_arys = new Bucket[MAX_SEGMENTS + 256]
Buckets == 0 .. MAX_SEGMENTS + ADD_RANGE - 1
Home(k) == k & (MAX_SEGMENTS - 1)

\* The first set bit of a hop_info (the loops scan from mask 1 upwards).
First(bits) == Min(bits)

-----------------------------------------------------------------------------
VARIABLES
  hop_info,   \* [Buckets -> SUBSET 0 .. HOP_RANGE - 1]: Bucket::_hop_info
  key,        \* [Buckets -> Keys \cup {BUSY}]: Bucket::_key
  data,       \* [Buckets -> Keys \cup {BUSY}]: Bucket::_data
  lock,       \* [Buckets -> BOOLEAN]: Bucket::_lock
  pc, arg, opsDone, lastOp,
  ret,        \* int returned by the last completed remove
  ok,         \* bool returned by the last completed contains or add
  loc         \* locals of the running call

vars == <<hop_info, key, data, lock, pc, arg, opsDone, lastOp, ret, ok, loc>>
shared == <<hop_info, key, data, lock>>

NoLocals == [bits |-> {}, i |-> 0, from |-> "call", fb |-> 0, fd |-> 0,
             mb |-> 0, free_dist |-> 0, shi |-> {}, mfd |-> 0, rc |-> BUSY]

\* FillKeys: a sequential add of an absent key, placed in the first empty
\* bucket from its home (the ASSUME below rules out displacement).
FirstEmptyFrom(k, kb) == Min({b \in Home(k) .. Home(k) + ADD_RANGE - 1 : kb[b] = BUSY})
AddAlone(st, k) ==
  LET b == FirstEmptyFrom(k, st.key) IN
  [hop_info |-> [st.hop_info EXCEPT ![Home(k)] = @ \cup {b - Home(k)}],
   key |-> [st.key EXCEPT ![b] = k], data |-> [st.data EXCEPT ![b] = k]]
Empty == [hop_info |-> [b \in Buckets |-> {}], key |-> [b \in Buckets |-> BUSY],
          data |-> [b \in Buckets |-> BUSY]]
Filled == FoldLeft(AddAlone, Empty, FillKeys)

ASSUME \A n \in 1 .. Len(FillKeys) :
         LET st == FoldLeft(AddAlone, Empty, SubSeq(FillKeys, 1, n - 1)) IN
         FirstEmptyFrom(FillKeys[n], st.key) - Home(FillKeys[n]) < HOP_RANGE

Init ==
  /\ hop_info = Filled.hop_info /\ key = Filled.key /\ data = Filled.data
  /\ lock = [b \in Buckets |-> FALSE]
  /\ pc = [t \in Threads |-> "idle"]
  /\ arg = [t \in Threads |-> BUSY]
  /\ opsDone = [t \in Threads |-> 0]
  /\ lastOp = [t \in Threads |-> "none"]
  /\ ret = [t \in Threads |-> BUSY]
  /\ ok = [t \in Threads |-> FALSE]
  /\ loc = [t \in Threads |-> NoLocals]

-----------------------------------------------------------------------------
Call(t, k, kind) ==
  /\ pc[t] = "idle" /\ opsDone[t] < MaxOps /\ kind \in CallKinds
  /\ opsDone' = [opsDone EXCEPT ![t] = @ + 1]
  /\ arg' = [arg EXCEPT ![t] = k]
  /\ lastOp' = [lastOp EXCEPT ![t] = kind]
Goto(t, p) == pc' = [pc EXCEPT ![t] = p]
SetLoc(t, l) == loc' = [loc EXCEPT ![t] = l]
Return(t, v) ==
  /\ ret' = [ret EXCEPT ![t] = v] /\ Goto(t, "idle") /\ SetLoc(t, NoLocals)
  /\ UNCHANGED ok
Answer(t, b) ==
  /\ ok' = [ok EXCEPT ![t] = b] /\ Goto(t, "idle") /\ SetLoc(t, NoLocals)
  /\ UNCHANGED ret
Unchanged == UNCHANGED <<opsDone, lastOp, arg>>
\* Bucket::lock(): wait on lock_cv until _lock is false, then set it.
Acquire(b) == ~lock[b] /\ lock' = [lock EXCEPT ![b] = TRUE]
\* Bucket::unlock(): clear _lock and signal, whoever holds it.
Release(b) == lock' = [lock EXCEPT ![b] = FALSE]
Abort == SPURIOUS_ABORTS

-----------------------------------------------------------------------------
(* contains(key): read the home's hop_info, then the key of each set bit  *)
(* in turn; on a match call start_bucket->unlock() (although contains     *)
(* never locked it) and return true.  add calls it under its lock or in a *)
(* transaction; then the answer goes back to add.                          *)
ContainsStart(t, k) ==
  /\ Call(t, k, "contains")
  /\ Goto(t, "c_scan")
  /\ SetLoc(t, [NoLocals EXCEPT !.bits = hop_info[Home(k)]])
  /\ UNCHANGED <<shared, ret, ok>>

\* contains() returns b to its caller
ContainsAnswer(t, b) ==
  IF loc[t].from = "call" THEN Answer(t, b)
  ELSE /\ Goto(t, IF b THEN "a_unlock2" ELSE "a_bit") /\ UNCHANGED <<ret, ok>>
       /\ UNCHANGED loc

(* Mutant: the scan does not advance past a bit whose key differs. *)
ContainsScanNoAdvance(t) ==
  LET h == Home(arg[t])
      i == First(loc[t].bits)
  IN
  /\ pc[t] = "c_scan"
  /\ \/ loc[t].bits = {} /\ ContainsAnswer(t, FALSE)
     \/ loc[t].bits # {} /\ key[h + i] = arg[t] /\ Goto(t, "c_unlock")
        /\ UNCHANGED <<ret, ok, loc>>
     \/ loc[t].bits # {} /\ key[h + i] # arg[t] /\ UNCHANGED <<pc, ret, ok, loc>>
  /\ UNCHANGED shared /\ Unchanged

ContainsScan(t) ==
  LET h == Home(arg[t])
      i == First(loc[t].bits)
  IN
  /\ pc[t] = "c_scan"
  /\ \/ loc[t].bits = {} /\ ContainsAnswer(t, FALSE)
     \/ loc[t].bits # {} /\ key[h + i] = arg[t] /\ Goto(t, "c_unlock")
        /\ UNCHANGED <<ret, ok, loc>>
     \/ loc[t].bits # {} /\ key[h + i] # arg[t]
        /\ SetLoc(t, [loc[t] EXCEPT !.bits = @ \ {i}]) /\ UNCHANGED <<pc, ret, ok>>
  /\ UNCHANGED shared /\ Unchanged

ContainsUnlock(t) ==
  /\ pc[t] = "c_unlock"
  /\ Release(Home(arg[t]))
  /\ ContainsAnswer(t, TRUE)
  /\ UNCHANGED <<hop_info, key, data>> /\ Unchanged

-----------------------------------------------------------------------------
(* remove(key): read the home's hop_info; at its FIRST set bit i the call *)
(* returns whatever it finds there: in a transaction, or under the home's *)
(* lock, -1 if the key of bucket home + i is -1 or another key, else the  *)
(* data, after clearing key, data and bit i.  A key at a later bit is not *)
(* looked for.  With no bit set it returns -1.                             *)
RemoveStart(t, k) ==
  LET bits == hop_info[Home(k)] IN
  /\ Call(t, k, "remove")
  /\ IF bits = {} THEN Return(t, BUSY)
     ELSE Goto(t, "r_try") /\ SetLoc(t, [NoLocals EXCEPT !.i = First(bits)])
          /\ UNCHANGED <<ret, ok>>
  /\ UNCHANGED shared

\* The transaction of lines 213-230, committed as one step.
RemoveTx(t) ==
  LET h == Home(arg[t])
      cb == h + loc[t].i
  IN
  /\ pc[t] = "r_try"
  /\ IF key[cb] = arg[t]
     THEN /\ key' = [key EXCEPT ![cb] = BUSY]
          /\ data' = [data EXCEPT ![cb] = BUSY]
          /\ hop_info' = [hop_info EXCEPT ![h] = @ \ {loc[t].i}]
          /\ Return(t, data[cb])
     ELSE Return(t, BUSY) /\ UNCHANGED <<hop_info, key, data>>
  /\ UNCHANGED lock /\ Unchanged

\* _xbegin() returns an abort code: take the lock path.
RemoveAbort(t) ==
  /\ pc[t] = "r_try" /\ Abort
  /\ Goto(t, "r_lock") /\ UNCHANGED <<shared, ret, ok, loc>> /\ Unchanged

RemoveLock(t) ==
  /\ pc[t] = "r_lock" /\ Acquire(Home(arg[t]))
  /\ Goto(t, "r_check") /\ UNCHANGED <<hop_info, key, data, ret, ok, loc>> /\ Unchanged

\* The two loads of check_bucket->_key: -1 returns -1; then a key other
\* than *key returns -1 too.
RemoveCheck(t) ==
  LET cb == Home(arg[t]) + loc[t].i IN
  /\ \/ pc[t] = "r_check" /\ Goto(t, IF key[cb] = BUSY THEN "r_unlock" ELSE "r_match")
     \/ pc[t] = "r_match" /\ Goto(t, IF key[cb] = arg[t] THEN "r_data" ELSE "r_unlock")
  /\ UNCHANGED <<shared, ret, ok, loc>> /\ Unchanged

\* The locked removal, one statement per step: rc = _data, _key = -1,
\* _data = -1, fetch_and of hop_info.
RemoveStep(t) ==
  LET h == Home(arg[t])
      cb == h + loc[t].i
  IN
  /\ \/ pc[t] = "r_data" /\ Goto(t, "r_key")
        /\ SetLoc(t, [loc[t] EXCEPT !.rc = data[cb]]) /\ UNCHANGED <<hop_info, key, data>>
     \/ pc[t] = "r_key" /\ Goto(t, "r_dat") /\ key' = [key EXCEPT ![cb] = BUSY]
        /\ UNCHANGED <<hop_info, data, loc>>
     \/ pc[t] = "r_dat" /\ Goto(t, "r_bit") /\ data' = [data EXCEPT ![cb] = BUSY]
        /\ UNCHANGED <<hop_info, key, loc>>
     \/ pc[t] = "r_bit" /\ Goto(t, "r_unlock")
        /\ hop_info' = [hop_info EXCEPT ![h] = @ \ {loc[t].i}] /\ UNCHANGED <<key, data, loc>>
  /\ UNCHANGED <<lock, ret, ok>> /\ Unchanged

RemoveUnlock(t) ==
  /\ pc[t] = "r_unlock" /\ Release(Home(arg[t]))
  /\ Return(t, loc[t].rc) /\ UNCHANGED <<hop_info, key, data>> /\ Unchanged

-----------------------------------------------------------------------------
(* add(key, data): probe from the home for a bucket whose key reads -1   *)
(* and store *BUSY (also -1) into it; then, while the free bucket is      *)
(* HOP_RANGE or more away, let find_closer_bucket move it closer.  Within *)
(* range, insert in a transaction, or under the home's lock, if contains *)
(* (key) is false.                                                         *)
AddStart(t, k) ==
  /\ Call(t, k, "add")
  /\ Goto(t, "a_probe")
  /\ SetLoc(t, [NoLocals EXCEPT !.from = "add", !.fb = Home(k)])
  /\ UNCHANGED <<shared, ret, ok>>

\* The probe loop reads one key per step; ADD_RANGE misses return false.
AddProbe(t) ==
  LET l == loc[t] IN
  /\ pc[t] = "a_probe"
  /\ \/ key[l.fb] = BUSY /\ Goto(t, "a_claim") /\ UNCHANGED <<loc, ret, ok>>
     \/ key[l.fb] # BUSY /\ l.fd + 1 < ADD_RANGE /\ UNCHANGED <<pc, ret, ok>>
        /\ SetLoc(t, [l EXCEPT !.fd = @ + 1, !.fb = @ + 1])
     \/ key[l.fb] # BUSY /\ l.fd + 1 = ADD_RANGE /\ Answer(t, FALSE)
  /\ UNCHANGED shared /\ Unchanged

\* The head of the do-while loop, with free bucket fb at distance fd.
(* Mutant: a free bucket at distance HOP_RANGE is taken as in range. *)
AddLoopOffByOne(t, l) ==
  IF l.fd <= HOP_RANGE THEN Goto(t, "a_try") /\ SetLoc(t, l)
  ELSE Goto(t, "f_scan")
       /\ SetLoc(t, [l EXCEPT !.mb = l.fb - (HOP_RANGE - 1),
                              !.free_dist = Min({HOP_RANGE - 1, l.fd})])

AddLoop(t, l) ==
  IF l.fd < HOP_RANGE THEN Goto(t, "a_try") /\ SetLoc(t, l)
  ELSE Goto(t, "f_scan")
       /\ SetLoc(t, [l EXCEPT !.mb = l.fb - (HOP_RANGE - 1),
                              !.free_dist = Min({HOP_RANGE - 1, l.fd})])

\* free_bucket->_key.store(*BUSY): a plain store of -1, no claim at all.
AddClaim(t) ==
  /\ pc[t] = "a_claim"
  /\ key' = [key EXCEPT ![loc[t].fb] = BUSY]
  /\ AddLoop(t, loc[t])
  /\ UNCHANGED <<hop_info, data, lock, ret, ok>> /\ Unchanged

\* What contains(key) answers when it runs inside a transaction.
ContainsNow(k) == \E i \in hop_info[Home(k)] : key[Home(k) + i] = k

\* The transaction of lines 345-352; with contains(key) true it never
\* reaches _xend and can only abort.
AddTx(t) ==
  LET h == Home(arg[t])
      l == loc[t]
  IN
  /\ pc[t] = "a_try" /\ ~ContainsNow(arg[t])
  /\ hop_info' = [hop_info EXCEPT ![h] = @ \cup {l.fd}]
  /\ data' = [data EXCEPT ![l.fb] = arg[t]]
  /\ key' = [key EXCEPT ![l.fb] = arg[t]]
  /\ Answer(t, TRUE) /\ UNCHANGED lock /\ Unchanged

AddAbort(t) ==
  /\ pc[t] = "a_try" /\ (Abort \/ ContainsNow(arg[t]))
  /\ Goto(t, "a_lock") /\ UNCHANGED <<shared, ret, ok, loc>> /\ Unchanged

\* start_bucket->lock(), then contains(key) under it.
AddLock(t) ==
  /\ pc[t] = "a_lock" /\ Acquire(Home(arg[t]))
  /\ Goto(t, "a_contains") /\ UNCHANGED <<hop_info, key, data, ret, ok, loc>> /\ Unchanged

AddContains(t) ==
  /\ pc[t] = "a_contains"
  /\ Goto(t, "c_scan")
  /\ SetLoc(t, [loc[t] EXCEPT !.bits = hop_info[Home(arg[t])]])
  /\ UNCHANGED <<shared, ret, ok>> /\ Unchanged

\* contains(key) was false: fetch_or of bit fd, _data, then _key.
AddStep(t) ==
  LET l == loc[t] IN
  /\ \/ pc[t] = "a_bit" /\ Goto(t, "a_data")
        /\ hop_info' = [hop_info EXCEPT ![Home(arg[t])] = @ \cup {l.fd}]
        /\ UNCHANGED <<key, data>>
     \/ pc[t] = "a_data" /\ Goto(t, "a_key")
        /\ data' = [data EXCEPT ![l.fb] = arg[t]] /\ UNCHANGED <<hop_info, key>>
     \/ pc[t] = "a_key" /\ Goto(t, "a_unlock")
        /\ key' = [key EXCEPT ![l.fb] = arg[t]] /\ UNCHANGED <<hop_info, data>>
  /\ UNCHANGED <<lock, ret, ok, loc>> /\ Unchanged

\* start_bucket->unlock(), returning true after an insert (line 357) and
\* false after contains(key) was true (line 360), although contains has
\* already unlocked the bucket once.
AddUnlock(t) ==
  /\ pc[t] \in {"a_unlock", "a_unlock2"}
  /\ Release(Home(arg[t]))
  /\ Answer(t, pc[t] = "a_unlock")
  /\ UNCHANGED <<hop_info, key, data>> /\ Unchanged

-----------------------------------------------------------------------------
(* find_closer_bucket: for free_dist from min(HOP_RANGE-1, fd) down to 1, *)
(* with move_bucket from free - (HOP_RANGE-1) upwards, read move_bucket's *)
(* hop_info and take its lowest bit below free_dist; move that key and    *)
(* data into the free bucket, in a transaction or under move_bucket's     *)
(* lock, provided hop_info is unchanged.  With no move left, store -1    *)
(* into the free bucket and make add return false.                        *)
FcScan(t) ==
  LET l == loc[t]
      shi == hop_info[l.mb]
      cand == {i \in shi : i < l.free_dist}
  IN
  /\ pc[t] = "f_scan"
  /\ \/ l.free_dist = 0 /\ key' = [key EXCEPT ![l.fb] = BUSY] /\ Answer(t, FALSE)
     \/ l.free_dist > 0 /\ cand = {} /\ UNCHANGED <<key, pc, ret, ok>>
        /\ SetLoc(t, [l EXCEPT !.mb = @ + 1, !.free_dist = @ - 1])
     \/ l.free_dist > 0 /\ cand # {} /\ Goto(t, "f_try") /\ UNCHANGED <<key, ret, ok>>
        /\ SetLoc(t, [l EXCEPT !.shi = shi, !.mfd = First(cand)])
  /\ UNCHANGED <<hop_info, data, lock>> /\ Unchanged

\* The free bucket after the move, and its new distance from the home.

Moved(l) == [l EXCEPT !.fb = l.mb + l.mfd, !.fd = l.fd - l.free_dist + l.mfd]

(* Mutant: the moved key's old bit is not cleared (no fetch_and). *)
FcTxKeepBit(t) ==
  LET l == loc[t]
      nfb == l.mb + l.mfd
  IN
  /\ pc[t] = "f_try" /\ hop_info[l.mb] = l.shi
  /\ hop_info' = [hop_info EXCEPT ![l.mb] = @ \cup {l.free_dist}]
  /\ data' = [data EXCEPT ![l.fb] = data[nfb], ![nfb] = BUSY]
  /\ key' = [key EXCEPT ![l.fb] = key[nfb], ![nfb] = BUSY]
  /\ AddLoop(t, Moved(l))
  /\ UNCHANGED <<lock, ret, ok>> /\ Unchanged

\* The transaction of lines 281-296, committed as one step; when the
\* re-read hop_info differs it never reaches _xend and can only abort.
FcTx(t) ==
  LET l == loc[t]
      nfb == l.mb + l.mfd
  IN
  /\ pc[t] = "f_try" /\ hop_info[l.mb] = l.shi
  /\ hop_info' = [hop_info EXCEPT ![l.mb] = (@ \cup {l.free_dist}) \ {l.mfd}]
  /\ data' = [data EXCEPT ![l.fb] = data[nfb], ![nfb] = BUSY]
  /\ key' = [key EXCEPT ![l.fb] = key[nfb], ![nfb] = BUSY]
  /\ AddLoop(t, Moved(l))
  /\ UNCHANGED <<lock, ret, ok>> /\ Unchanged

FcAbort(t) ==
  /\ pc[t] = "f_try" /\ (Abort \/ hop_info[loc[t].mb] # loc[t].shi)
  /\ Goto(t, "f_lock") /\ UNCHANGED <<shared, ret, ok, loc>> /\ Unchanged

FcLock(t) ==
  /\ pc[t] = "f_lock" /\ Acquire(loc[t].mb)
  /\ Goto(t, "f_check") /\ UNCHANGED <<hop_info, key, data, ret, ok, loc>> /\ Unchanged

FcCheck(t) ==
  /\ pc[t] = "f_check"
  /\ Goto(t, IF hop_info[loc[t].mb] = loc[t].shi THEN "f_setbit" ELSE "f_unlock_next")
  /\ UNCHANGED <<shared, ret, ok, loc>> /\ Unchanged

\* The locked move, one statement per step.  A copy (load of the new free
\* bucket's field, store into the free one) is one step: no other step
\* between them changes what the model can reach.
FcStep(t) ==
  LET l == loc[t]
      nfb == l.mb + l.mfd
  IN
  /\ \/ pc[t] = "f_setbit" /\ Goto(t, "f_cpdata")
        /\ hop_info' = [hop_info EXCEPT ![l.mb] = @ \cup {l.free_dist}]
        /\ UNCHANGED <<key, data, loc>>
     \/ pc[t] = "f_cpdata" /\ Goto(t, "f_cpkey")
        /\ data' = [data EXCEPT ![l.fb] = data[nfb]] /\ UNCHANGED <<hop_info, key, loc>>
     \/ pc[t] = "f_cpkey" /\ Goto(t, "f_busykey")
        /\ key' = [key EXCEPT ![l.fb] = key[nfb]] /\ UNCHANGED <<hop_info, data, loc>>
     \/ pc[t] = "f_busykey" /\ Goto(t, "f_busydata")
        /\ key' = [key EXCEPT ![nfb] = BUSY] /\ UNCHANGED <<hop_info, data, loc>>
     \/ pc[t] = "f_busydata" /\ Goto(t, "f_clrbit")
        /\ data' = [data EXCEPT ![nfb] = BUSY] /\ UNCHANGED <<hop_info, key, loc>>
     \/ pc[t] = "f_clrbit" /\ Goto(t, "f_unlock")
        /\ hop_info' = [hop_info EXCEPT ![l.mb] = @ \ {l.mfd}]
        /\ SetLoc(t, Moved(l)) /\ UNCHANGED <<key, data>>
  /\ UNCHANGED <<lock, ret, ok>> /\ Unchanged

\* move_bucket->unlock() after the move (back to the do-while head) or
\* after a changed hop_info (on to the next move_bucket).
FcUnlock(t) ==
  LET l == loc[t] IN
  /\ pc[t] \in {"f_unlock", "f_unlock_next"}
  /\ Release(l.mb)
  /\ IF pc[t] = "f_unlock" THEN AddLoop(t, l)
     ELSE Goto(t, "f_scan") /\ SetLoc(t, [l EXCEPT !.mb = @ + 1, !.free_dist = @ - 1])
  /\ UNCHANGED <<hop_info, key, data, ret, ok>> /\ Unchanged

-----------------------------------------------------------------------------
Step(t) ==
  \/ \E k \in Keys : ContainsStart(t, k) \/ RemoveStart(t, k) \/ AddStart(t, k)
  \/ ContainsScan(t) \/ ContainsUnlock(t)
  \/ RemoveTx(t) \/ RemoveAbort(t) \/ RemoveLock(t) \/ RemoveCheck(t)
  \/ RemoveStep(t) \/ RemoveUnlock(t)
  \/ AddProbe(t) \/ AddClaim(t) \/ AddTx(t) \/ AddAbort(t) \/ AddLock(t)
  \/ AddContains(t) \/ AddStep(t) \/ AddUnlock(t)
  \/ FcScan(t) \/ FcTx(t) \/ FcAbort(t) \/ FcLock(t) \/ FcCheck(t)
  \/ FcStep(t) \/ FcUnlock(t)

Terminated == \A t \in Threads : pc[t] = "idle" /\ opsDone[t] = MaxOps

Next ==
  \/ \E t \in Threads : Step(t)
  \/ Terminated /\ UNCHANGED vars

Spec == Init /\ [][Next]_vars
Fairness == \A t \in Threads : WF_vars(Step(t))
FairSpec == Spec /\ Fairness

-----------------------------------------------------------------------------
TypeOK ==
  /\ hop_info \in [Buckets -> SUBSET (0 .. HOP_RANGE - 1)]
  /\ key \in [Buckets -> Keys \cup {BUSY}] /\ data \in [Buckets -> Keys \cup {BUSY}]
  /\ lock \in [Buckets -> BOOLEAN]
  /\ opsDone \in [Threads -> 0 .. MaxOps]
  /\ ret \in [Threads -> Keys \cup {BUSY}] /\ ok \in [Threads -> BOOLEAN]
  /\ \A t \in Threads : loc[t].fb \in Buckets /\ loc[t].mb \in Buckets

(* Between calls the hop_info bitmaps describe the table exactly: bit i   *)
(* of home h is set iff bucket h + i holds a key whose home is h, that   *)
(* bucket's data is that key's, and no key is stored twice.  add's claim, *)
(* its find_closer_bucket moves and remove's clearing must each leave     *)
(* this so; a bit left behind or a key moved out of its neighbourhood     *)
(* makes later calls miss or misplace keys.                               *)
HopInfoExact ==
  (\A t \in Threads : pc[t] = "idle") =>
    /\ \A h \in Buckets, i \in 0 .. HOP_RANGE - 1 :
         h + i \in Buckets =>
           (i \in hop_info[h] <=> key[h + i] # BUSY /\ Home(key[h + i]) = h)
    /\ \A b \in Buckets : key[b] # BUSY => data[b] = key[b] /\ b - Home(key[b]) \in 0 .. HOP_RANGE - 1
    /\ \A b, c \in Buckets : b # c /\ key[b] # BUSY => key[b] # key[c]

\* The bucket whose lock thread t holds by the code's lock/unlock pairs.
RemoveLocked == {"r_check", "r_match", "r_data", "r_key", "r_dat", "r_bit", "r_unlock"}
AddLocked == {"a_contains", "a_bit", "a_data", "a_key", "a_unlock"}
FcLocked == {"f_check", "f_setbit", "f_cpdata", "f_cpkey", "f_busykey",
             "f_busydata", "f_clrbit", "f_unlock", "f_unlock_next"}
LockedBucket(t) ==
  CASE pc[t] \in RemoveLocked \cup AddLocked -> Home(arg[t])
    [] pc[t] \in {"c_scan", "c_unlock"} /\ loc[t].from = "add" -> Home(arg[t])
    [] pc[t] \in FcLocked -> loc[t].mb
    [] OTHER -> BUSY

(* Bucket::lock() excludes: two threads are never both between a lock()   *)
(* of one bucket and their unlock() of it.                                *)
MutualExclusion ==
  \A t, u \in Threads :
    t # u /\ LockedBucket(t) # BUSY => LockedBucket(t) # LockedBucket(u)

(* Every call returns: the probe, the do-while and find_closer_bucket's  *)
(* loop all end, and no thread waits forever on a bucket lock.            *)
AllCallsComplete == \A t \in Threads : [](pc[t] # "idle" => <>(pc[t] = "idle"))
====
