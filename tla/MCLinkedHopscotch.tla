-------------------------- MODULE MCLinkedHopscotch --------------------------
(***************************************************************************)
(* Model-checking instances of LinkedHopscotch.  Each key, a model value, *)
(* stands for an int key and is hashed by HASH_INT::Calc (HashInt); the   *)
(* ints are chosen so that homes share cache lines, lists run out of their *)
(* cache line and keys of two segments compete for a bucket.               *)
(***************************************************************************)
EXTENDS LinkedHopscotch

CONSTANTS k1, k2, k3, k4, k5, k6

H == INSTANCE HashInt

\* The hash of each model key: Calc of the int key it stands for.
CalcHash(ints) == [k \in DOMAIN ints |-> H!Calc(ints[k])]

(* Capacity 4 with 32-byte cache lines (cache_mask 1): k1 and k2 share    *)
(* home 0 and fill its cache line, so k3 (home 1) goes forward to bucket 3 *)
(* and is out of its cache line; removing k2 relocates k3 into bucket 1.   *)
CoreInts == (k1 :> 3) @@ (k2 :> 4) @@ (k3 :> 17) @@ (k4 :> 2)
HashCore == (k1 :> 555598360) @@ (k2 :> 319647432) @@ (k3 :> 733826621)
            @@ (k4 :> 859385946)
FillCore == <<k1, k2, k3>>

(* Capacity 4, cache_mask 1, for hopd and hopnd.  hopnd searches home h  *)
(* forward from h + 2 and backward from h - 2 only: k1 goes to bucket 2   *)
(* and k3 (home 3) back to bucket 1; k2 then takes bucket 3 and k4 (home  *)
(* 1, candidates {3}) finds no bucket: exit(1).  hopd places k1 and k3   *)
(* in their own cache lines (buckets 0 and 3); puts then fill the lines   *)
(* and removes relocate keys into freed cache-line buckets.               *)
NdInts == (k1 :> 3) @@ (k2 :> 4) @@ (k3 :> 7) @@ (k4 :> 17)
HashNd == (k1 :> 555598360) @@ (k2 :> 319647432) @@ (k3 :> 1097311219)
          @@ (k4 :> 733826621)
FillNd == <<k1, k3>>

(* Two segments over capacity 4 (homes 0-1 and 2-3), cache_mask 1.  k1, k2 *)
(* fill home 0's cache line, so a put of k3 (home 1, segment 0) searches  *)
(* forward to bucket 3, the first bucket of k4's (home 3, segment 1)      *)
(* cache line search.                                                      *)
ClaimInts == (k1 :> 3) @@ (k2 :> 4) @@ (k3 :> 17) @@ (k4 :> 7)
HashClaim == (k1 :> 555598360) @@ (k2 :> 319647432) @@ (k3 :> 733826621)
             @@ (k4 :> 1097311219)
FillClaim == <<k1, k2>>

(* Two segments over capacity 8 (homes 0-3 and 4-7), cache_mask 1.  k1, k2 *)
(* fill cache line {2, 3}; k4 (home 3, segment 0) goes forward to bucket  *)
(* 5, into the cache line of home 4; k5 (home 4, segment 1) finds {4, 5}   *)
(* taken and goes to bucket 6, out of its cache line.  Removing k4 frees  *)
(* bucket 5 and optimize_cacheline_use moves k5 there.                     *)
RelocInts == (k1 :> 2) @@ (k2 :> 11) @@ (k3 :> 5) @@ (k4 :> 7) @@ (k5 :> 12)
HashReloc == (k1 :> 859385946) @@ (k2 :> 889787690) @@ (k3 :> 1998624124)
             @@ (k4 :> 1097311219) @@ (k5 :> 1762699276)
FillReloc == <<k1, k2, k3, k4, k5>>
(* Each table of hashes above is HASH_INT::Calc of its int keys; the     *)
(* tables are literals so that TLC does not recompute Calc at a look-up.  *)
ASSUME /\ HashCore = CalcHash(CoreInts)
       /\ HashNd = CalcHash(NdInts)
       /\ HashClaim = CalcHash(ClaimInts)
       /\ HashReloc = CalcHash(RelocInts)

=============================================================================
