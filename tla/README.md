# TLA+ models of CHT-bench's concurrent hopscotch hash maps

This directory holds TLA+ specifications of the concurrent hash maps in
`src/src/hopscotch`, the TLC configurations that check them, and
`PROJECT.json`. `PROJECT.json` lists the components, runs, mutants, the
definition-to-source map, findings and hazards.

## 1. The system

| Part | Source | What it is |
|---|---|---|
| Bitmap hopscotch map | `data_structures/BitmapHopscotchHashMap.h` | Open addressing. Each home bucket has a 32-bit `_hopInfo` bitmap of where its keys are (within `_HOP_RANGE`). A bucket goes EMPTY → BUSY by CAS. One TTAS lock and one `_timestamp` per segment. `containsKey` takes no lock and re-checks the timestamp. `find_closer_free_backet` displaces keys and may lock a second segment. |
| Linked hopscotch map | `data_structures/HopscotchHashMap.h` | The same engine with `first_delta`/`next_delta` lists instead of bitmaps. Inserts prefer the home cache line, then search the whole table forward and backward. `optimize_cacheline_use` runs on remove. `containsKey` retries while the timestamp moves. |
| Transactional map | `data_structures/hopscotch.hpp`, `src/hop.cpp` | Fixed-size bitmap map. Each mutation first runs inside `_xbegin/_xend`; on abort it falls back to a per-bucket mutex/condvar lock. `hop.cpp` repeats the member definitions of the header. |
| BHop | `data_structures/BHop.h` | A broken partial copy of the bitmap map. The class is `BHop` but its constructor is named `BitmapHopscotchHashMap`, and it uses undeclared members. It does not compile. |
| Hash capability | `HASH_INT` in `test/main.cpp` and in the headers | `Calc` mixes bits. The sentinels are `_EMPTY_HASH = 0`, `_BUSY_HASH = 1` and `_EMPTY_KEY = _EMPTY_DATA = 0`. |
| Benchmark driver | `test/main.cpp`, `src/Configuration.h` | `FillTable` makes sequential puts. Then N threads loop over remove/put/contains pairs until stopped. The bitmap map is built with `(initial_count, no_of_threads)`. |
| Platform | `framework/*`, `src/ia64_defns.h` | TTAS lock, CAS, barriers, aligned allocation. |

How the parts interact: the driver calls `containsKey`, `putIfAbsent` and
`remove` from several threads. The map hashes the key, finds its home
bucket and segment, and runs the protocol below. The threads share only
the table, the segments and the locks.

Behaviours that are hard to test, for each map:

* **Bitmap.**
  * The lock-free `containsKey` runs against displacements.
  * A displacement locks a second segment.
  * The probe claims buckets guarded by other segments.
  * `exit(1)` is the only answer to a full neighbourhood.
  * The timestamp is 32 bits wide.
* **Linked.**
  * Free buckets are taken without CAS across segments.
  * The timestamp retry loop may never end.
  * `optimize_cacheline_use` relinks lists.
* **Transactional.**
  * `contains()` unlocks a bucket it never locked.
  * BUSY equals the empty key (-1).
  * A transaction does not read the lock word.
  * `remove` looks only at the first set bit.

## 2. Modules

### `AtomicMap.tla`: the abstract specification

This is what every variant promises for `putIfAbsent(k, d)` and
`remove(k)`. Each call takes effect atomically. The variables are:

* `map`: a function from the mapped keys.
* `pending`: an invoked but not yet applied operation, per thread.
* `result`: what each thread's last call returned.

The actions are:

* `Invoke`: a thread invokes a call.
* `Apply`: the pending call takes effect.
* `Call`: a call is invoked and takes effect in one step, for calls whose
  detailed step is a single action (a put of a present key, a remove of an
  absent key).

`containsKey` is not in the abstract map. Its correctness is stated as a
window property (below), because the code allows it to overlap writers.

### `HashInt.tla`: `HASH_INT::Calc`

`Calc` is six xor-shift rounds on a signed 32-bit int. TLC's integers
stop at 2^31 - 1, so a word is a function from bit index to bit:

* `ShiftL` drops the bits shifted out of the word.
* `ShiftRA` copies the sign bit in, as gcc's `>>` on an int does.
* `AddW` loses the carry out of bit 31. This is signed overflow, which
  gcc compiles as the two's complement wrap.
* `Salt` is the constant 0xcd7dcd7d.

The tables get `Calc`'s low 31 bits. They use a hash only through
`& _bucketMask` and `& _segmentMask`, both below 2^31, and through `==`.
The translation was compared with the C function on keys 2-19,
981996139 and 2^31 - 1.

Two facts about `Calc` bear on the hazards:

* It is not a bijection. Over all 2^32 ints, two keys hash to
  `_EMPTY_HASH` and four to `_BUSY_HASH`. The smallest positive one is
  981996139, which hashes to 1. The driver's keys are 2 to
  2 * initial_count + 1, so it does not reach them.
* Its low bits are poorly mixed. Keys 2-5 all have even hashes, so with
  the driver's `initial_count = 2` every key has home 0.

### `BitmapHopscotch.tla`: the bitmap map

**State.**

* `table`: the buckets, each a record of `hopInfo` (a set of distances),
  `hash`, `key` and `data`.
* `timestamp` and `owner`: the timestamp and the lock of each segment.
* Per thread: `pc`, plus the locals of the C++ functions under the same
  names (`free_bucket`, `free_distance`, `move_backet`, `move_free_dist`,
  `move_new_free_distance`, `start_hop_info`, `hopInfo`,
  `startTimestamp`).
* `seen`: a history variable. It records whether the key of a running
  `containsKey` was in, or out of, the map at some instant of the call.

`Init` is the constructor followed by `FillTable`. The fill places each key
in the first empty bucket from its home. An `ASSUME` checks that this
needs no displacement.

**Steps.** One step is one access to shared memory, or several accesses by
a lock holder that no other thread can tell apart from one.
`remove`'s three bucket stores are separate steps. After the hash store,
the bucket is EMPTY to another segment's probe (line 276), which may
claim it and write it before the key and data stores land.
`putIfAbsent`'s data/key/hash stores (284-286) stay one step. This is a
coarsening: it drops the interleavings in which a racing remove's stores
fall between them. Every run that checks a property those interleavings
could break has one segment, so there no remove overlaps a put.

| Action | Code |
|---|---|
| `ContainsStart`, `ContainsHome`, `ContainsReadTs`, `ContainsScan`, `ContainsRecheck`, `ContainsFallback` | `containsKey` 205-247: the hopInfo read, the `== 1` fast path, the timestamp read, the bit scan, the re-check, the fallback scan |
| `PutStart` | `putIfAbsent` 250-270: lock, duplicate check (unlock and return on a hit) |
| `PutProbe` | 272-278, 295-297: the EMPTY→BUSY CAS probe over INSERT_RANGE; `exit` when none is free |
| `ToPlace` | the `do { ... } while` head 281-293: place when within HOP_RANGE, else displace |
| `PutPlace`, `PutSetBit` | 284-289: write data/key/hash, then set the home bit and unlock |
| `DisplaceScan` … `DisplaceClrBit`, `Advance` | `find_closer_free_backet` 124-168, one action per shared access, as the code orders them |
| `RemoveStart` | `remove` 301-316, 328-334: lock, find the key's bit, clear it |
| `RemoveHash`, `RemoveKey`, `RemoveData` | 317-322 and 335-340: the hash store, the key store, then the data read, the data store, unlock and return, as three steps |

Data is abstracted:

* A key is a model value, and `putIfAbsent(k, k)` stores the key as its
  own data, as the driver does.
* The hash is a constant function `Hash`. In the MC module each key
  model value stands for an int key, and `Hash` is `HASH_INT::Calc` of
  that int (`HashInt.tla`). The ints are chosen so that keys collide where
  the displacement search runs.
* `first_lsb_bit_indx` (`sparc_defns.h`) picks the next bit of the
  containsKey scan; a `hop_info` word is the set of its bit positions.
* The masks come from the constructor's `NearestPowerOfTwo` and
  `CalcDivideShift`, which are translated as RECURSIVE operators. With
  them `segmentShift` is always 0, so segments are stripes: bucket b
  belongs to segment `b & segmentMask`.

`MCBitmapHopscotch.tla` supplies the key model values and, for each
configuration, the int keys, their hashes and a fill sequence. The hash
tables are literals, and an ASSUME checks each against `Calc`, so that
TLC does not evaluate `Calc` at every look-up.

### `LinkedHopscotch.tla`: the linked map (hopd, hopnd)

**State.**

* `table`: the buckets, each a record of `first` (`_first_delta`), `next`
  (`_next_delta`), `hash`, `key` and `data`. The offsets are relative, as
  in the code, and `NULL_DELTA` is `SHRT_MIN`.
* `timestamp` and `owner`: each segment's `_timestamp` (mod
  `2^TS_BITS`) and its lock.
* Per thread: `pc`, `arg`, and `loc`. `loc` holds the function's locals:
  the free bucket and its placement mode, the current bucket, the
  predecessor, the removed data, `start_timestamp`, and the relocation's
  `opt_bucket`, source and predecessor.
* `seen`: a history variable. It records whether the key of a running
  `containsKey` was out of the map at some instant of the call.

The constructor is translated as the code has it. `_cache_mask` is
`CACHE_LINE_SIZE / 16 - 1`, and `_segmentShift` is
`first_msb_bit_indx(_bucketMask) - first_msb_bit_indx(_segmentMask)`. A
segment is therefore a contiguous range of homes. A cache line or a
forward range can span two segments.

`Init` is followed by `FillTable`: a fold of sequential `putIfAbsent`
calls (`PutAlone`) over `FillKeys`. An ASSUME checks, for both values of
the cache-line flag, that no put of the fill reaches `exit(1)`
(`FillPrefix`). Without it, `Init` could be a table that the program
never builds, because the process would have ended first.

**Steps.**

| Action | Code (`HopscotchHashMap.h`) |
|---|---|
| `ContainsStart`, `ContainsReadTs`, `ContainsFirst`, `ContainsWalk`, `ContainsCheck` | `containsKey` 291-313: the timestamp read, `_first_delta`, one list member per step, the re-check (retry from the timestamp read) |
| `PutStart` | `putIfAbsent` 317-338 and the search 339-388: lock, walk (return on a hit), then `FreeSearch` picks the bucket. The search tries the cache line cyclically (hopd only), then forward from `start + cache_mask + 1` up to `_bucketMask`, then backward. If none is free the thread exits, holding the lock. |
| `PutWrite`, `PutLink` | `add_key_to_begining_of_list` 164-187 / `add_key_to_end_of_list` 189-205: store the triple and the new `_next_delta`; then link the bucket into the list, unlock and return |
| `RemoveStart`, `RemoveClear`, `RemoveUnlink`, `RemoveTs`, `RemoveNext` | `remove` 391-420 and `remove_key` 139-163: lock and walk; clear the triple; unlink through the predecessor or `_first_delta`; `++timestamp`; clear `_next_delta`; then (hopd) `optimize_cacheline_use`, or unlock and return |
| `OptimizeScan`, `OptimizeCopy`, `OptimizeLink`, `OptimizeTs`, `OptimizeClear` | `optimize_cacheline_use` 207-250: find the first member whose offset from its `opt_bucket` is outside the cache line; copy it into the freed bucket; link the copy in its place; bump the remover's segment timestamp; clear the old bucket; unlock |

The model cuts the steps as follows:

* A lock holder's walks are one step each: the walk of `putIfAbsent` or
  `remove`, the free search, and the cache-line scan. Another thread
  cannot tell these apart from one step, except for the unsynchronised
  claim. The claim's read is in `PutStart` and its write in `PutWrite`,
  so another put can slip in between.
* A reader's walk takes one step per member.

The buckets past `_bucketMask` (the `_INSERT_RANGE` tail) are never
reached, so they are not modelled.

The constant `CallKinds` restricts which calls a run makes. The driver's
`update_ops = 100` makes no `containsKey` calls, so the put/remove runs
use `{"put", "remove"}`.

**Refinement.** `Linearizable` refines `AtomicMap` (`AM!ASpec`), with
these linearization points:

* `putIfAbsent` takes effect at `PutLink`.
* `remove` takes effect at `RemoveClear`. Until it returns, its result is
  the removed data.
* The map is the set of keys on their home lists. A relocation replaces
  one member by its copy in one store, so it must leave the map unchanged.

`MCLinkedHopscotch.tla` supplies the key model values and, for each
configuration, the int keys, their `Calc` hashes (checked by ASSUME) and a
fill sequence. `CACHE_LINE_SIZE` is
32 (2 buckets) rather than the driver's 64, so that a 4- or 8-bucket table
has several cache lines and the forward and backward searches run.

### `TxHopscotch.tla`: the transactional map

**State.** `hop_info`, `key`, `data` and `lock` are the fields of
`Bucket`, over `MAX_SEGMENTS + ADD_RANGE` buckets. `hop_info` is a set of
distances. `BUSY` is -1, which is also the empty key and datum that
`Bucket()` stores. A key's home is `k & (MAX_SEGMENTS - 1)` (Bitwise).
Per thread there is `pc`, `arg`, the results `ret` (remove) and `ok`
(contains, add), and `loc`, the locals of the running call. A call made
by `add` to `contains` remembers its caller in `loc.from`.

**Steps.**

| Action | Code (`hopscotch.hpp`; `hop.cpp` is the same text) |
|---|---|
| `ContainsStart`, `ContainsScan`, `ContainsUnlock`, `ContainsAnswer` | `contains` 181-198: read the home's `hop_info`, test one bit per step, on a match `start_bucket->unlock()` and return true |
| `RemoveStart`, `RemoveTx` | `remove` 203-230: the first set bit, then the whole transaction as one step |
| `RemoveAbort`, `RemoveLock`, `RemoveCheck`, `RemoveStep`, `RemoveUnlock` | 231-249: the locked path, one load or store per step |
| `AddStart`, `AddProbe`, `AddClaim`, `AddLoop` | `add` 327-343, 366-370: probe for `_key == -1`, store `*BUSY`, then insert or call `find_closer_bucket` |
| `AddTx`, `AddAbort`, `AddLock`, `AddContains`, `AddStep`, `AddUnlock` | 345-364: the transactional insert (commits only when `contains` is false), or the locked path that calls `contains` under the lock |
| `FcScan`, `FcTx`, `FcAbort`, `FcLock`, `FcCheck`, `FcStep`, `FcUnlock` | `find_closer_bucket` 265-322: pick the first movable key, move it in a transaction or under the move bucket's lock, or release the claim with -1 and give up |

A committed transaction is one step. The hardware aborts it on any
conflicting access, so the other threads' accesses fall before or after
it. It does not read `_lock`, so it can commit inside another thread's
locked section. `SPURIOUS_ABORTS` lets any transaction abort. A
transaction that returns without `_xend` (add when `contains` is true;
`find_closer_bucket` when the re-check fails) cannot commit: its abort
rolls it back to `_xbegin`, and the locked path runs instead.
`Bucket::lock` waits until `_lock` is false and sets it. `unlock` clears
it with no owner check.

No driver instantiates `Hopscotch`. Each thread makes up to `MaxOps`
calls of the kinds in `CallKinds`. The initial table (`Filled`) is a
fold of sequential adds.

## 3. Properties

* `TypeOK`: the type invariant.
* `Linearizable` (`AM!ASpec` under a refinement mapping).
  * The abstract `map` is the set of keys reachable from their home's bits.
  * A put whose bucket is published (at `p_setbit`) is in the map.
  * `putIfAbsent` takes effect when it publishes the hash. `remove` takes
    effect when it clears the bit.
  * A displacement must not change the abstract map.
  * Every return value must match the atomic map's.
* `HopInfoSound`: every set bit of a home points to a published bucket
  holding a key of that home. This is the corruption invariant of the spec,
  section 7.
* `ContainsTrueSound` / `ContainsFalseSound`: a `containsKey` that returns
  true (false) saw its key in (out of) the map at some instant of the call.
  Using `MayKeys`/`MustKeys` keeps this from flagging calls whose answer
  depends on how overlapping puts and removes are linearized.
* `QuiescentSizeExact`: when every thread is between calls, `size()`
  equals the number of keys in the map. A BUSY claim, a leftover displaced
  copy or a half-removed bucket would break it.
* `NoCircularWait`: no two threads each wait, inside a displacement, for
  the segment lock the other holds.
* `AllCallsComplete`: eventually every thread has made its calls, or one
  has reached `exit(1)`.
* `ListsSound` (linked): for every home whose segment is unlocked:
  * the list is finite and stays in the table;
  * every member holds a key of that home;
  * no bucket is on two lists;
  * every occupied bucket of an unlocked segment's key is on its home's
    list.

The linked module also has `TypeOK`, `Linearizable`, `ContainsFalseSound`,
`QuiescentSizeExact` and `AllCallsComplete`, in the same sense.
`ContainsTrueSound` is not stated for the linked map. A bucket holds k
only after a `putIfAbsent(k)` or a relocation of k, so no plausible change
of this code could make it fail.

* `HopInfoExact` (transactional): when every thread is idle, bit i of
  home h is set exactly when bucket h+i holds a key of home h, each
  bucket's datum is its key, and no key is stored twice.
* `MutualExclusion` (transactional): no two threads are in a section
  locked by the same bucket lock.
* `AllCallsComplete` (transactional): every call returns. It covers the
  retry of `add` around `find_closer_bucket` and the aborts.

**Fairness.** `Fairness` is weak fairness of each thread's step. The OS
keeps scheduling every runnable thread. A thread waiting for a lock is not
runnable, so weak fairness is enough, and the TTAS lock is not assumed fair
(no strong fairness).

## 4. Runs

All runs use two threads unless stated otherwise, and one thread's calls
are bounded by `MaxOps`.

| Run | cfg | Expect | Configuration | Shows |
|---|---|---|---|---|
| bitmap_core | MCBitmapCore | pass | 2 segments, Capacity 4, HOP_RANGE 2, INSERT_RANGE 4, fill k1..k3, 4 keys, MaxOps 2 (144,521 states) | `putIfAbsent(k4)` needs two displacements in a row. A displacement locks the other segment and fails its re-check when that segment changed the snapshot. Under weak fairness every call returns (`AllCallsComplete`); no lock cycle arises with these homes. The run also reaches `exit(1)`. `HopInfoSound`, `QuiescentSizeExact` and `Linearizable` are not checked here: the remove race of finding 11 breaks all three |
| bitmap_hop3 | MCBitmapHop3 | pass | 1 segment, Capacity 2, HOP_RANGE 3, INSERT_RANGE 4 (192,529 states) | A key moved two buckets on, past a `containsKey` scan, is found by the timestamp fallback. `containsKey` never says true of an absent key. With puts, removes and displacements serialised by the one lock, every hopInfo bit points at a key of its home (`HopInfoSound`), idle `size()` is exact, and the calls refine `AtomicMap` |
| bitmap_contains_false | MCBitmapContainsFalse | violation | as core | `ContainsFalseSound` fails (finding 2) |
| bitmap_distance | MCBitmapDistance | violation | 1 thread, Capacity 4, HOP_RANGE 3 | `Linearizable` fails: k4 is lost (finding 1) |
| bitmap_cross_lock | MCBitmapCross | violation | 2 segments, Capacity 8, MaxOps 1 | `NoCircularWait` fails (finding 3) |
| linked_core | MCLinkedCore | pass | hopd and hopnd (the flag chosen in `Init`), 1 segment, Capacity 4, fill k1, k3; puts and removes, MaxOps 2, TS_BITS 1 (28,043 states) | Cache-line, forward and backward placement, end-of-list placement (hopnd), head and middle unlinks, relocations and `exit(1)` on a full table keep `ListsSound` and `QuiescentSizeExact` and refine `AtomicMap` |
| linked_live | MCLinkedLive | pass | hopd, 1 segment, all three calls, MaxOps 1 (1,708 states) | `containsKey` racing a remove, a relocation or a put answers false only for a key that was absent at some instant (`ContainsFalseSound`), and under weak fairness every call returns (`AllCallsComplete`) |
| linked_claim | MCLinkedClaim | violation | hopd, 2 segments, Capacity 4, puts only, MaxOps 1 | `Linearizable` fails: two segments' puts store into the same free bucket (finding 4) |
| linked_reloc | MCLinkedReloc | violation | hopd, 2 segments, Capacity 8, contains and remove, MaxOps 1 | `ContainsFalseSound` fails: a relocation into segment 0's freed bucket moves a key of segment 1 and bumps segment 0's timestamp (finding 5) |
| tx_seq | MCTxSeq | pass | 1 thread, MAX_SEGMENTS 2, HOP_RANGE 2, ADD_RANGE 3, fill 0, 1, keys 0, 1, 2, 4, aborts allowed, MaxOps 4 (8,538 states) | Every path of every call, transactional and locked, with successful and failed displacement, keeps `HopInfoExact`, and every call returns |
| tx_claim | MCTxClaim | violation | 2 threads, keys 0..3, no spurious aborts, MaxOps 2 | `HopInfoExact` fails: a stale `*BUSY` claim erases a key (finding 6) |
| tx_unlock | MCTxUnlock | violation | as tx_claim | `MutualExclusion` fails: `contains` releases another thread's lock (finding 7) |

Why these bounds are enough:

* Each configuration is built so that the case it is about happens. In
  each one a displacement runs, a second segment is locked, the fallback
  scan runs, or the table is full.
* Together the passing runs fire every action and every disjunct of
  `Next`.
* The linked runs use one segment where they pass. With two segments and
  cache-line placement, the claim race (finding 4) breaks linearizability
  within a few steps, so nothing else can be checked there.
* A 4-bucket table with 2-bucket cache lines is the smallest table in
  which all three placements and a relocation happen.
* HOP_RANGE 2 is the smallest range in which displacement happens. HOP_RANGE
  3 is the smallest in which a key moves by more than one bucket, and
  the smallest in which the distance bug (finding 1) shows.
* More threads or calls per thread multiply the interleavings without
  adding a new kind of step. The 5-key and 6-key variants of hop3 and of a
  full-table configuration took 6–11 minutes and found nothing new.
* The transactional runs use MAX_SEGMENTS 2, HOP_RANGE 2 and ADD_RANGE 3:
  with 0 and 1 filled, adding 2 or 4 finds bucket 2 free at distance 2
  from home 0 and needs `find_closer_bucket`, and a second such add finds
  no movable key. `tx_seq` has one thread because with two the claim race
  (finding 6) breaks `HopInfoExact` within a few steps.
* The timestamp is 3 bits wide (2 in some runs). No run performs 2^TS_BITS
  displacements inside one `containsKey`, so the wrap-around never occurs
  in these runs (see the hazards).

Each passing property has a mutant in `BitmapHopscotch.tla`, `LinkedHopscotch.tla` or `TxHopscotch.tla`: an operator
named `...OffByOne`, `...Keep`, `...NoCheck`, `...Unguarded`,
`...Retry`, `...Skip`, `...NoAdvance`, `...KeepBit`, `...NoWrap`, `...Head`, `...AtHead` or `...Stale`, defined just before the action it mutates. `PROJECT.json`
pairs each mutant with the property TLC then finds violated.

## 5. Findings

1. **Displacement distance.** `BitmapHopscotchHashMap.h:155` sets
   `*free_distance -= move_free_dist` and drops `+ move_new_free_distance`.
   When the moved key was not at distance 0, the new key's home bit is set
   for the wrong distance and the key is unreachable, even with one
   thread. `hopscotch.hpp:309` has the correct formula.
2. **containsKey false negative.** containsKey reads `hopInfo` (212)
   before the timestamp (227). The `hopInfo == 1` path (216-219) has no
   re-check at all. With one segment and HOP_RANGE 2, `containsKey(k2)`
   sees `hopInfo == {0}`. A concurrent `putIfAbsent(k3)` then moves k2
   from bucket 1 to bucket 2 and writes k3 into bucket 1, and
   `containsKey` returns false.
3. **Lock order.** The displacement locks a second segment (139-140) with
   no order. Two inserters in different segments can each hold their own
   segment and wait for the other's. The spec (section 5) asks for a
   global order.

4. **Linked map: free bucket claimed across segments.**
   `HopscotchHashMap.h:345` (and the forward search at 363) takes a bucket
   whose `_hash` reads EMPTY. It holds only the caller's segment lock and
   uses no CAS. A cache line can span two segments. Two puts of keys in
   different segments can both write the same bucket, and then both link
   it. The first key is lost although its put returned `_EMPTY_DATA`. The
   spec (sections 5 and 8) says a lock holder mutates only its own buckets,
   and that disjoint-key operations lose no key.
5. **Linked map: relocation bumps the wrong timestamp.**
   `optimize_cacheline_use` (207-250) may relocate a member of a list
   whose home is in another segment, and bumps the remover's timestamp
   (233). A `containsKey` of the relocated key re-checks its own segment's
   timestamp, finds it unchanged, and returns false although the key never
   left the map. The spec (section 3) says the owning segment's timestamp
   is bumped. The relocation also rewrites that list without its
   segment's lock (hazard, not yet checked separately).

6. **Transactional map: the `*BUSY` claim erases a key.**
   `hopscotch.hpp:334-335` loads `_key`, and if it is -1 stores `*BUSY`,
   which is also -1. The claim is a plain load and store and does not
   change the bucket's value. Trace: t1 and t2 both add, t2 reads
   bucket 1 empty, t1 claims it and publishes key 1 there; t2 stores -1
   over it and writes key 2. Key 1 is lost although `add(1)` returned
   true, and bit 0 of home 1 points at a key of home 0.
7. **Transactional map: `contains` releases a lock it does not hold.**
   `hopscotch.hpp:191` calls `start_bucket->unlock()` on a match, and
   `Bucket::unlock` has no owner check. While t2's `add` holds bucket 1's
   lock, t1's `contains(1)` clears it, and t1's `add(1)` then takes the
   same lock and runs alongside t2. In `add`'s own locked path the lock is
   released twice (191, then 362).
8. **Transactional map: `remove` misses keys past the first bit** (no
   run). `remove` returns -1 at the first set bit whose bucket holds a
   different key (209-230). One thread shows it: fill 0 and 1, `add(3)`
   stores 3 in bucket 2 (bit 1 of home 1), and `remove(3)` returns -1.
   The passing runs' properties do not compare return values, and no run
   of the set is given to this single-thread bug; `PROJECT.json` lists it
   as a hazard.
9. **Bitmap map: ConcurrencyLevel > Capacity** (no run).
   * `putIfAbsent` and `remove` lock the segment of the key's hash (210).
     `find_closer_free_backet` locks the segment of the move bucket's
     index (137). The two agree only when there are no more segments than
     buckets.
   * `TestBitmapHopscotch` passes `no_of_threads` and `initial_count`
     through unchecked, so the driver can build such a map.
   * The `bitmap_hop3` instance with `ConcurrencyLevel = 4` violates
     `HopInfoSound` in 12 steps:
     * `putIfAbsent(k4)` displaces k2 out of bucket 1 while holding
       segment 1;
     * meanwhile `remove(k2)` holds segment 3, k2's hash segment, and
       clears the bucket;
     * the displacement then sets a bit of home 1 that points at an empty
       bucket.
   * Spec section 3 says a segment owns the keys whose hash selects it.
   * The run set holds no slot for this configuration;
     `PROJECT.json` lists it as a hazard with this trace.
10. **Linked map, hopnd: exit with free buckets** (no run).
    * With `_is_cacheline_alignment` off, `putIfAbsent` skips the
      cache-line search (340). Its forward and backward searches start at
      home + (`_cache_mask` + 1) and home - (`_cache_mask` + 1) (361,
      375).
    * The home bucket and its neighbours within `_cache_mask` are
      therefore never taken.
    * In `linked_core`'s hopnd instance, `putIfAbsent(k4)` (home 1) calls
      `exit(1)` while bucket 0 is EMPTY. The spec treats only a full table
      as fatal.
    * `AllCallsComplete` counts the exit as termination, as the code
      does, so no passing property objects.

11. **Bitmap map: remove's bucket stores race a foreign claim** (no run).
    * `remove` stores the bucket's hash as EMPTY (317/335), then its key
      (318/336), then reads the data it returns and clears it (319-320 /
      337-338). It holds only its own segment's lock.
    * `putIfAbsent`'s probe (276) claims any bucket whose hash is EMPTY
      by CAS, whichever segment owns it.
    * The `bitmap_core` instance fails three properties this way:
      * t1's `remove(k2)` (home 1, segment 1) stores EMPTY into bucket
        1's hash;
      * t2's `putIfAbsent(k4)` (home 0, segment 0; bucket 0 holds k1)
        claims bucket 1, writes k4 there and sets bit 1 of home 0;
      * t1 then clears the key and data.
    * `HopInfoSound` fails: home 0's bit points at a bucket whose key is
      EMPTY. `remove(k2)` returns k4, and k4 is lost although its put
      returned `EMPTY_DATA`, so `Linearizable` fails. When idle, `size()`
      counts a bucket holding no key, so `QuiescentSizeExact` fails.
    * These three properties are therefore checked in `bitmap_hop3`,
      whose one segment serialises puts and removes.
    * There is no run for the violation itself. The project holds 12
      runs, and each existing one is needed: `bitmap_core` is the only
      passing bitmap run whose re-check, search exhaustion and full-table
      exit fire.
    * `LinkedHopscotch` clears the triple in one step (`remove_key`
      145-147). The code has the same window there. Every linked run that
      reaches `remove` has one segment or no puts, so no property depends
      on it.

## 6. Not modelled, and why

1. **BHop.h.** It does not compile: its constructor is named after the
   bitmap class and it uses undeclared members. No driver instantiates
   it.
2. **Benchmark driver.** `FillTable` is modelled as the initial table.
   `PrepareRandomNumbers` (keys 2, 3, ...) and `BenchmarkThread::run`'s
   fixed key schedule are widened: each thread makes `MaxOps` calls of
   any operation on any key. This covers every schedule of the driver,
   and every other client of the maps. Argument parsing
   (`Configuration.h`), timing and output are I/O.
3. **Platform layer.**
   * Modelled: the bit-index helpers (`first_lsb_bit_indx`,
     `first_msb_bit_indx`).
   * Taken as capabilities: locks, CAS and barriers, as an atomic CAS, a
     mutual-exclusion lock and sequentially consistent memory.
   * The lock and memory-model code is not under `src/`. The spec
     excludes it.
4. **`percentKeysInCacheline`.** A statistic that no driver calls.
5. **Checks the runs cannot make.**
   * Timestamp wrap-around. The models keep the modulus, but a wrong
     answer needs 2^TS_BITS bumps inside one call. In the code that is
     2^32.
   * Short offsets over more than 2^15 buckets.
   * The relocation's unlocked rewrite of another segment's list in
     isolation. Every two-segment instance that reaches it also reaches
     finding 4.
   * A refinement of `AtomicMap` for the transactional map. Finding 8
     breaks it with one thread.
