------------------------------- MODULE MCDict -------------------------------
(***************************************************************************)
(* A small dictionary for TLC, seen by its callers.  The constants of the  *)
(* tables are scaled down so that three keys make them grow and shrink by  *)
(* several factors of two: the first table has 1 bucket instead of 4, a    *)
(* table is shrunk below 30 % load instead of 10 %, and a timer batch      *)
(* moves 1 bucket instead of 100.  With two values a write that is lost,   *)
(* or hits the wrong table, shows.                                         *)
(***************************************************************************)
EXTENDS DictCalls, TLC

\* k1 and k2 share a bucket in every table but the largest; k3 leaves them when
\* the tables have four.
MCHash == "k1" :> 0 @@ "k2" :> 4 @@ "k3" :> 6

MCSizes == {1, 2, 4, 8}

\* The state without the history of calls.
MCView == <<d, it, seen, owed>>
=============================================================================
