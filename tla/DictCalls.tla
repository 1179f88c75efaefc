----------------------------- MODULE DictCalls ------------------------------
(***************************************************************************)
(* The dictionary of module Dict with the calls its users see: which       *)
(* function was called last, with which arguments, and what it returned.   *)
(* Seen this way it implements the finite map of module DictMap.           *)
(***************************************************************************)
EXTENDS Dict

CONSTANT NoVal   \* dictFetchValue of a key that is not stored (NULL)

ASSUME NoValAssumption == NoVal \notin Vals

VARIABLE call    \* the last call: function, arguments and result

callVars == <<d, it, seen, owed, call>>

Called(op, k, v, r) == [op |-> op, key |-> k, val |-> v, ret |-> r]

\* The value dictFetchValue reads from the structure the lookup leaves.
FetchedValue(h, k) ==
  IF Found(h, k) = {} THEN NoVal ELSE (CHOOSE e \in Found(h, k) : TRUE).val

\* What dictAdd, dictReplace and dictDelete return: did the lookup find the key?
AddResult(k) == IF Found(Prepared(d), k) = {} THEN "OK" ELSE "ERR"
ReplaceResult(k) == IF AddResult(k) = "OK" THEN "1" ELSE "0"
DeleteResult(k) == IF Found(dictLookup(d), k) = {} THEN "ERR" ELSE "OK"
-----------------------------------------------------------------------------
CallInit == Init /\ call = Called("create", NoKey, NoVal, "OK")

CallAdd(k, v) == Add(k, v) /\ call' = Called("add", k, v, AddResult(k))

CallReplace(k, v) == Replace(k, v) /\ call' = Called("replace", k, v, ReplaceResult(k))

CallFetch(k) == Fetch(k) /\ call' = Called("fetch", k, NoVal, FetchedValue(d', k))

CallDelete(k) == Delete(k) /\ call' = Called("delete", k, NoVal, DeleteResult(k))

\* The random bucket may be any occupied one of the two tables.
CallGetRandomKey ==
  /\ GetRandomKey
  /\ \E k \in StoredKeys(d') : call' = Called("random", NoKey, NoVal, k)

CallEmpty == Empty /\ call' = Called("empty", NoKey, NoVal, "OK")

CallIterStart == IterStart /\ call' = Called("start", NoKey, NoVal, "OK")

CallIterNext == IterNext /\ call' = Called("next", NoKey, NoVal, it'.cur)

CallIterEnd == IterEnd /\ call' = Called("next", NoKey, NoVal, NoKey)

\* What the timer does is no call a user of the dictionary sees.
Timer == (Resize \/ RehashMilliseconds) /\ UNCHANGED call

CallNext ==
  \/ \E k \in Keys, v \in Vals : CallAdd(k, v) \/ CallReplace(k, v)
  \/ \E k \in Keys : CallFetch(k) \/ CallDelete(k)
  \/ CallGetRandomKey
  \/ CallEmpty
  \/ CallIterStart
  \/ CallIterNext
  \/ CallIterEnd
  \/ Timer

CallSpec == CallInit /\ [][CallNext]_callVars

FairSpec == CallSpec /\ Fairness
-----------------------------------------------------------------------------
\* The map two tables stand for: the value of a stored key, in whichever table.
Map ==
  LET ValuesOf(k) == {e.val : e \in {f \in StoredEntries(d) : f.key = k}}
  IN  [k \in Keys |-> IF ValuesOf(k) = {} THEN NoVal
                      ELSE CHOOSE v \in ValuesOf(k) : TRUE]

Abstract == INSTANCE DictMap WITH
  map <- Map, iterating <- it.open, given <- seen

\* The calls a user makes and the results it gets are those of one finite map,
\* at every stage of every rehash, and a safe iteration returns each key that
\* stays stored exactly once.  What the timer does is invisible.
ImplementsMap == Abstract!Spec
=============================================================================
