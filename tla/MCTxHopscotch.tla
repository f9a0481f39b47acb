---------------------------- MODULE MCTxHopscotch ----------------------------
(***************************************************************************)
(* Model-checking instances of TxHopscotch: two segments (MAX_SEGMENTS 2, *)
(* homes 0 and 1), HOP_RANGE 2 and ADD_RANGE 3, so buckets 0 .. 4.  Keys  *)
(* are small ints; key k has home k % 2.                                  *)
(***************************************************************************)
EXTENDS TxHopscotch

(* 0 in bucket 0 and 1 in bucket 1: an add of 2 (home 0) finds bucket 2  *)
(* free at distance 2 = HOP_RANGE, and find_closer_bucket moves 1 from   *)
(* bucket 1 to bucket 2 to free bucket 1 for it.                          *)
FillMove == <<0, 1>>
=============================================================================
