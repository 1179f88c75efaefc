------------------------------ MODULE DictMap -------------------------------
(***************************************************************************)
(* What a dictionary of dict.c promises its callers: a finite map and a    *)
(* safe iteration over it that misses nothing and repeats nothing.         *)
(***************************************************************************)
CONSTANTS Keys, Vals, NoVal, NoKey

VARIABLES
  map,        \* the value of every key, NoVal for a key that is not stored
  call,       \* the last call: function, arguments and result
  iterating,  \* a safe iterator is open
  given,      \* the keys it has returned that have been stored ever since
  owed        \* the keys that have been stored since it was opened

vars == <<map, call, iterating, given, owed>>

Calls(op, k, v) ==
  /\ call'.op = op
  /\ call'.key = k
  /\ call'.val = v

Init ==
  /\ map = [k \in Keys |-> NoVal]
  /\ iterating = FALSE
  /\ given = {}
  /\ owed = {}

\* dictAdd
Add(k, v) ==
  /\ Calls("add", k, v)
  /\ \/ call'.ret = "ERR" /\ map[k] # NoVal /\ UNCHANGED map
     \/ call'.ret = "OK" /\ map[k] = NoVal /\ map' = [map EXCEPT ![k] = v]
  /\ UNCHANGED <<iterating, given, owed>>

\* dictReplace
Replace(k, v) ==
  /\ Calls("replace", k, v)
  /\ call'.ret = IF map[k] = NoVal THEN "1" ELSE "0"
  /\ map' = [map EXCEPT ![k] = v]
  /\ UNCHANGED <<iterating, given, owed>>

\* dictFind, dictFetchValue
Fetch(k) ==
  /\ Calls("fetch", k, NoVal)
  /\ call'.ret = map[k]
  /\ UNCHANGED <<map, iterating, given, owed>>

\* dictDelete, dictDeleteNoFree
Delete(k) ==
  /\ Calls("delete", k, NoVal)
  /\ \/ call'.ret = "OK" /\ map[k] # NoVal /\ map' = [map EXCEPT ![k] = NoVal]
     \/ call'.ret = "ERR" /\ map[k] = NoVal /\ UNCHANGED map
  /\ given' = given \ {k}
  /\ owed' = owed \ {k}
  /\ UNCHANGED iterating

\* dictGetRandomKey
GetRandomKey ==
  /\ Calls("random", NoKey, NoVal)
  /\ map[call'.ret] # NoVal
  /\ UNCHANGED <<map, iterating, given, owed>>

\* dictEmpty
Empty ==
  /\ Calls("empty", NoKey, NoVal)
  /\ ~ iterating
  /\ map' = [k \in Keys |-> NoVal]
  /\ UNCHANGED <<iterating, given, owed>>

\* dictGetSafeIterator
IterStart ==
  /\ Calls("start", NoKey, NoVal)
  /\ ~ iterating
  /\ iterating' = TRUE
  /\ given' = {}
  /\ owed' = {k \in Keys : map[k] # NoVal}
  /\ UNCHANGED map

\* dictNext returns a key it has not returned yet.
IterNext ==
  /\ Calls("next", NoKey, NoVal)
  /\ iterating
  /\ call'.ret \in Keys \ given
  /\ map[call'.ret] # NoVal
  /\ given' = given \cup {call'.ret}
  /\ UNCHANGED <<map, iterating, owed>>

\* dictNext returns NULL: every key that was there all the time was returned.
IterEnd ==
  /\ Calls("next", NoKey, NoVal)
  /\ call'.ret = NoKey
  /\ iterating
  /\ owed \subseteq given
  /\ iterating' = FALSE
  /\ given' = {}
  /\ owed' = {}
  /\ UNCHANGED map

Next ==
  \/ \E k \in Keys, v \in Vals : Add(k, v) \/ Replace(k, v)
  \/ \E k \in Keys : Fetch(k) \/ Delete(k)
  \/ GetRandomKey
  \/ Empty
  \/ IterStart
  \/ IterNext
  \/ IterEnd

Spec == Init /\ [][Next]_vars
=============================================================================
