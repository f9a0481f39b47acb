-------------------------- MODULE MCBitmapHopscotch --------------------------
(***************************************************************************)
(* Instances of BitmapHopscotch for TLC.  Each key, a model value, stands *)
(* for an int key and is hashed by HASH_INT::Calc (HashInt).  The ints are *)
(* chosen so that keys collide on home buckets and the table is nearly    *)
(* full after FillTable, which is where the displacement search runs.     *)
(* BitmapHopscotch assumes no hash is EMPTY_HASH (0) or BUSY_HASH (1).     *)
(***************************************************************************)
EXTENDS BitmapHopscotch

CONSTANTS k1, k2, k3, k4, k5, k6

H == INSTANCE HashInt

\* The hash of each model key: Calc of the int key it stands for.
CalcHash(ints) == [k \in DOMAIN ints |-> H!Calc(ints[k])]

\* Capacity 2: k1, k3 home at bucket 0; k2, k4 at bucket 1.
CoreInts == (k1 :> 2) @@ (k2 :> 7) @@ (k3 :> 3) @@ (k4 :> 8)
HashCore == (k1 :> 859385946) @@ (k2 :> 1097311219) @@ (k3 :> 555598360)
            @@ (k4 :> 442948331)
FillCore == <<k1, k2>>

\* Capacity 4: k1, k4 home 0, k2 home 1, k3 home 2.  After FillChain,
\* putIfAbsent(k4) finds bucket 3 free and displaces twice.
ChainInts == (k1 :> 3) @@ (k2 :> 17) @@ (k3 :> 2) @@ (k4 :> 4)
HashChain == (k1 :> 555598360) @@ (k2 :> 733826621) @@ (k3 :> 859385946)
             @@ (k4 :> 319647432)
FillChain == <<k1, k2, k3>>

\* Capacity 2, HOP_RANGE 3: k1, k4 home 0; k2, k3 home 1.  FillHop3 leaves
\* k2 and k3 at distances 0 and 1 of bucket 1; putIfAbsent(k4) finds bucket
\* 3 free and moves k2 from bucket 1 to bucket 3.
Hop3Ints == (k1 :> 2) @@ (k2 :> 7) @@ (k3 :> 8) @@ (k4 :> 3)
HashHop3 == (k1 :> 859385946) @@ (k2 :> 1097311219) @@ (k3 :> 442948331)
            @@ (k4 :> 555598360)
FillHop3 == <<k1, k2, k3>>

\* Capacity 4, HOP_RANGE 3: k1, k2, k4 home 0, k3 home 1.  After FillDist
\* bucket 2 holds k3 at distance 1 from its home.
DistInts == (k1 :> 3) @@ (k2 :> 4) @@ (k3 :> 17) @@ (k4 :> 5)
HashDist == (k1 :> 555598360) @@ (k2 :> 319647432) @@ (k3 :> 733826621)
            @@ (k4 :> 1998624124)
FillDist == <<k1, k2, k3>>

\* Capacity 8, two segments (even and odd buckets): k1..k4 sit at their
\* homes 0, 1, 3, 4; k5 (home 0, segment 0) and k6 (home 3, segment 1) each
\* need a displacement through a bucket of the other segment.
CrossInts == (k1 :> 3) @@ (k2 :> 23) @@ (k3 :> 7) @@ (k4 :> 5) @@ (k5 :> 4)
             @@ (k6 :> 8)
HashCross == (k1 :> 555598360) @@ (k2 :> 1895863769) @@ (k3 :> 1097311219)
             @@ (k4 :> 1998624124) @@ (k5 :> 319647432) @@ (k6 :> 442948331)
FillCross == <<k1, k2, k3, k4>>

(* Each table of hashes above is HASH_INT::Calc of its int keys; the     *)
(* tables are literals so that TLC does not recompute Calc at a look-up.  *)
ASSUME /\ HashCore = CalcHash(CoreInts)
       /\ HashChain = CalcHash(ChainInts)
       /\ HashHop3 = CalcHash(Hop3Ints)
       /\ HashDist = CalcHash(DistInts)
       /\ HashCross = CalcHash(CrossInts)

=============================================================================
