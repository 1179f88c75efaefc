----------------------------- MODULE MCKeyspace -----------------------------
(***************************************************************************)
(* Small databases: two keys for RENAME, two databases for MOVE.           *)
(***************************************************************************)
EXTENDS Keyspace, TLC

CONSTANTS a, b, v1, v2

MCKeys == {a, b}
MCVals == {v1, v2}
MCSymmetry == Permutations(MCKeys) \cup Permutations(MCVals)

\* The state without the history of commands.
MCView == <<ks, now, cron>>
=============================================================================
