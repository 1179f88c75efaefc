------------------------------ MODULE MCValues -----------------------------
(***************************************************************************)
(* Values for TLC.  Sorted sets: four members, one of them too long for a *)
(* ziplist, two scores.  ZADD with one argument does everything to a skip  *)
(* list; those with two change the encoding between their arguments, name  *)
(* a member twice, or exchange two scores.  Lists: entries of the least and *)
(* of the greatest length that a ziplist lets in, and an element that is   *)
(* too long.  Two things are kept out of the arguments, each with a run of *)
(* its own: numbers that become REDIS_SHARED_INTEGERS and are made objects *)
(* (values_shared), and new fields of another length than their values     *)
(* (values_hash).                                                          *)
(***************************************************************************)
EXTENDS Values

P(m, s) == [ele |-> m, score |-> s]

MCMembers == 1 .. 4
MCLong == {2}
MCHeights == 1 .. 3
MCAdditions ==
  {<<P(m, s)>> : m \in MCMembers, s \in 1 .. 2}
    \cup {<<P(1, 2), P(3, 1)>>, <<P(2, 1), P(2, 2)>>, <<P(3, 2), P(2, 2)>>}
MCRemovals == {<<m>> : m \in MCMembers} \cup {<<1, 2>>, <<3, 3>>}

MCElements == 1 .. 3
MCLongElements == {3}
MCBytes == <<1, 8, 12>>
MCPushes == {<<v>> : v \in MCElements} \cup {<<1, 1>>, <<2, 3>>}
MCIndices == {-5, -2, -1, 0, 1, 4}

MCTexts == {"a", "b", "long"}
MCFields == MCTexts
MCLength == [t \in MCTexts |-> IF t = "long" THEN 4 ELSE 1]
MCLengths == [t \in MCTexts |-> IF t = "long" THEN 4 ELSE IF t = "b" THEN 2 ELSE 1]
MCSharedTexts == MCTexts \cup {"header"}
MCSharedLength == [t \in MCSharedTexts |-> IF t = "long" THEN 4 ELSE 1]
MCLongTexts == {"long"}

MCHalf == <<2, 4, 8>>
MCWords == {100}
MCSetMembers == {-7, -1, 0, 3, 100}
MCSetAdditions == {<<v>> : v \in MCSetMembers} \cup {<<100, 0>>}
MCSharedAdditions == MCSetAdditions \cup {<<5>>}
MCSetRemovals == {<<v>> : v \in MCSetMembers \cup {6}} \cup {<<0, 3>>}
MCOthers ==
  [small |-> [enc |-> "intset", is |-> [encoding |-> 2, contents |-> <<-3, 3>>]],
   large |-> [enc |-> "ht", members |-> {-7, 0, 1, 100}],
   none |-> [enc |-> "none"]]

MCMinLL == -8
MCIncrements == {-8, -5, 3, 7}
MCDecrements == MCIncrements \ {MCMinLL}
=============================================================================
