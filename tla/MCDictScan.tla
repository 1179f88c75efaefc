----------------------------- MODULE MCDictScan -----------------------------
(***************************************************************************)
(* A small dictionary under SCAN: tables of 1, 2, 4 and 8 buckets, cursors *)
(* of four bits.  With MinFill = 30 a table with one key in four buckets   *)
(* shrinks to one bucket.                                                  *)
(***************************************************************************)
EXTENDS DictScan, TLC

MCKeys == {"a", "b", "c"}
MCHash == "a" :> 1 @@ "b" :> 2 @@ "c" :> 7
MCSizes == {1, 2, 4, 8}
=============================================================================
