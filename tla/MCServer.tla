------------------------------ MODULE MCServer ------------------------------
(***************************************************************************)
(* A small server: two clients at most and a third that is refused, a      *)
(* timer that looks at one client at a time, background jobs of one type   *)
(* (the types share nothing but the main thread).  Jobs and connections    *)
(* meet in the main thread only, so a load has many of the one or the      *)
(* other.                                                                  *)
(***************************************************************************)
EXTENDS Server

MCLoads ==
  {[conns |-> 3, jobs |-> 0, signals |-> 0, wakeups |-> 0],
   [conns |-> 1, jobs |-> 2, signals |-> 1, wakeups |-> 1],
   [conns |-> 0, jobs |-> 4, signals |-> 0, wakeups |-> 2]}
=============================================================================
