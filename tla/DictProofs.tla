----------------------------- MODULE DictProofs -----------------------------
(***************************************************************************)
(* Proofs about Dict and DictCalls, for any finite set of keys, any hash   *)
(* function and any tuning constants: the two tables stay sound under      *)
(* every call, a safe iteration returns what it owes exactly once, the     *)
(* tables stand still under an open iterator, and the dictionary its       *)
(* callers see is the finite map of module DictMap.                        *)
(***************************************************************************)
EXTENDS DictCalls, FiniteSetTheorems, WellFoundedInduction, TLAPS

\* One table on its own.
TableOK(t) ==
  /\ IsTable(t)
  /\ Placed(t)
  /\ KeysOnce(t)
  /\ t.used = Cardinality(Entries(t))

\* The inductive invariant: everything Dict claims of the structure at once.
\* No part is inductive alone: a move keeps the count right only because the
\* entries are placed, and a rehash ends with no entry lost only because the
\* count is right.
Good(h) ==
  /\ IsDict(h)
  /\ TableOK(h.ht0) /\ TableOK(h.ht1)
  /\ Apart(h)
  /\ RehashBounds(h)
-----------------------------------------------------------------------------
(* Numbers.                                                                *)

\* hash & sizemask is a bucket of the table.
LEMMA IndexBound ==
  ASSUME NEW n \in Nat \ {0}, NEW k \in Keys
  PROVE  Index(n, k) \in 0 .. n - 1
  BY HashAssumption DEF Index

\* A nonempty set of numbers has a least element, and Min is it.
LEMMA MinIsLeast ==
  ASSUME NEW S, S \subseteq Nat, S # {}
  PROVE  Min(S) \in S /\ \A x \in S : Min(S) <= x
<1> DEFINE R == {ss \in Nat \X Nat : ss[1] < ss[2]}
<1>1. OpToRel(<, Nat) = R
  BY DEF OpToRel
<1>2. IsWellFoundedOn(R, Nat)
  BY <1>1, NatLessThanWellFounded
<1>3. PICK x \in S : \A y \in S : ~ (<<y, x>> \in R)
  BY <1>2, WFMin
<1>4. ASSUME NEW y \in S PROVE x <= y
  <2>1. x \in Nat /\ y \in Nat /\ <<y, x>> \in Nat \X Nat
    OBVIOUS
  <2>2. <<y, x>> \notin R
    BY <1>3
  <2>3. ~ (<<y, x>>[1] < <<y, x>>[2])
    BY <2>1, <2>2, Zenon
  <2>4. QED
    BY <2>1, <2>3
<1>5. QED
  BY <1>4 DEF Min

\* The size dictExpand picks is a table size and is large enough.
LEMMA NextPowerIsSize ==
  ASSUME NEW n \in Nat, \E s \in Sizes : s >= n
  PROVE  NextPower(n) \in Sizes /\ NextPower(n) >= n /\ NextPower(n) \in Nat \ {0}
<1> DEFINE S == {s \in Sizes : s >= n}
<1>1. S \subseteq Nat /\ S # {}
  BY SizesAssumption
<1>2. Min(S) \in S
  BY <1>1, MinIsLeast
<1>3. QED
  BY <1>2, SizesAssumption DEF NextPower
-----------------------------------------------------------------------------
(* Tables.                                                                 *)

LEMMA TableType ==
  ASSUME NEW t, IsTable(t)
  PROVE  /\ t.size \in Nat /\ t.used \in Nat /\ t.size \in Sizes \cup {0}
         /\ t.table \in [0 .. t.size - 1 -> SUBSET Entry]
  BY SizesAssumption DEF IsTable

\* A table in which no key is twice holds at most one entry per key.
LEMMA TableFinite ==
  ASSUME NEW t, IsTable(t), KeysOnce(t)
  PROVE  /\ Entries(t) \subseteq Entry
         /\ IsFiniteSet(Entries(t))
         /\ Cardinality(Entries(t)) \in Nat
         /\ Cardinality(Entries(t)) <= Cardinality(Keys)
<1> DEFINE f == [e \in Entries(t) |-> e.key]
<1>1. Entries(t) \subseteq Entry
  BY DEF Entries, IsTable
<1>2. f \in Injection(Entries(t), Keys)
  BY <1>1 DEF Injection, IsInjective, KeysOnce, Entry
<1>3. QED
  BY <1>1, <1>2, FS_Injection, FS_CardinalityType, KeysAssumption

\* A new table is sound and empty.
LEMMA NewTableOK ==
  ASSUME NEW n \in Sizes \cup {0}
  PROVE  TableOK(NewTable(n)) /\ Entries(NewTable(n)) = {} /\ NewTable(n).size = n
<1>1. Entries(NewTable(n)) = {}
  BY DEF Entries, NewTable
<1>2. IsTable(NewTable(n)) /\ Placed(NewTable(n)) /\ KeysOnce(NewTable(n))
  BY <1>1 DEF IsTable, NewTable, Placed, KeysOnce
<1>3. QED
  BY <1>1, <1>2, FS_EmptySet DEF TableOK, NewTable

\* A lookup sees exactly the entries of its key: they can be in one chain only.
LEMMA MatchingIsExact ==
  ASSUME NEW t, TableOK(t), NEW k \in Keys
  PROVE  Matching(t, k) = {e \in Entries(t) : e.key = k}
<1>1. CASE t.size = 0
  BY <1>1 DEF Matching, Chain, Entries
<1>2. CASE t.size # 0
  <2>1. t.size \in Nat \ {0}
    BY <1>2, SizesAssumption DEF TableOK, IsTable
  <2>2. Index(t.size, k) \in 0 .. t.size - 1
    BY <2>1, IndexBound
  <2>3. QED
    BY <1>2, <2>2 DEF Matching, Chain, Entries, TableOK, Placed
<1>3. QED
  BY <1>1, <1>2

\* Linking an entry of a new key adds exactly that entry.
LEMMA LinkOK ==
  ASSUME NEW t, TableOK(t), t.size # 0, NEW e \in Entry, e.key \notin KeysOf(t)
  PROVE  /\ TableOK(Link(t, e))
         /\ Entries(Link(t, e)) = Entries(t) \cup {e}
         /\ Link(t, e).size = t.size
<1> DEFINE i == Index(t.size, e.key)
           u == [size |-> t.size, used |-> t.used + 1,
                 table |-> [t.table EXCEPT ![i] = @ \cup {e}]]
<1>1. /\ t.size \in Nat \ {0} /\ t.used \in Nat
      /\ t.table \in [0 .. t.size - 1 -> SUBSET Entry]
      /\ t = [size |-> t.size, used |-> t.used, table |-> t.table]
  BY SizesAssumption DEF TableOK, IsTable
<1>2. i \in 0 .. t.size - 1
  BY <1>1, IndexBound DEF Entry
<1>3. Link(t, e) = u
  BY DEF Link
<1> HIDE DEF i
<1>4. /\ u.size = t.size /\ u.used = t.used + 1
      /\ u.table = [b \in 0 .. t.size - 1 |->
                      IF b = i THEN t.table[b] \cup {e} ELSE t.table[b]]
  BY <1>1, <1>2
<1> HIDE DEF u
<1>5. Entries(u) = Entries(t) \cup {e}
  BY <1>2, <1>4 DEF Entries
<1>6. IsTable(u)
  BY <1>1, <1>2, <1>4 DEF IsTable, TableOK, u
<1>7. Placed(u)
  <2> SUFFICES ASSUME NEW b \in 0 .. t.size - 1, NEW f \in u.table[b]
               PROVE  Index(t.size, f.key) = b
    BY <1>4 DEF Placed
  <2>1. CASE f \in t.table[b]
    BY <2>1 DEF TableOK, Placed
  <2>2. CASE f \notin t.table[b]
    BY <2>2, <1>4 DEF i
  <2>3. QED
    BY <2>1, <2>2
<1>8. KeysOnce(u)
  BY <1>5 DEF KeysOnce, TableOK, KeysOf
<1>9. u.used = Cardinality(Entries(u))
  <2>1. IsFiniteSet(Entries(t)) /\ e \notin Entries(t)
    BY TableFinite DEF TableOK, KeysOf
  <2>2. QED
    BY <1>4, <1>5, <2>1, FS_AddElement DEF TableOK
<1>10. QED
  BY <1>3, <1>4, <1>5, <1>6, <1>7, <1>8, <1>9 DEF TableOK

\* Taking out a key that is there removes its one entry.
LEMMA UnlinkOK ==
  ASSUME NEW t, TableOK(t), NEW k \in Keys, Matching(t, k) # {}
  PROVE  /\ TableOK(Unlink(t, k))
         /\ Entries(Unlink(t, k)) = {e \in Entries(t) : e.key # k}
         /\ Unlink(t, k).size = t.size
         /\ Unlink(t, k).used < t.used
         /\ \A b \in 0 .. t.size - 1 : t.table[b] = {} => Unlink(t, k).table[b] = {}
<1> DEFINE i == Index(t.size, k)
           m == Matching(t, k)
           u == [size |-> t.size, used |-> t.used - 1,
                 table |-> [t.table EXCEPT ![i] = @ \ m]]
<1>1. /\ t.size \in Nat \ {0} /\ t.used \in Nat
      /\ t.table \in [0 .. t.size - 1 -> SUBSET Entry]
      /\ t = [size |-> t.size, used |-> t.used, table |-> t.table]
  BY SizesAssumption DEF TableOK, IsTable, Matching, Chain
<1>2. i \in 0 .. t.size - 1
  BY <1>1, IndexBound
<1>3. Unlink(t, k) = u
  BY DEF Unlink
<1>4. PICK e : m = {e} /\ e \in Entries(t) /\ e.key = k
  BY MatchingIsExact DEF TableOK, KeysOnce
<1>5. m = {f \in Entries(t) : f.key = k}
  BY MatchingIsExact
<1> HIDE DEF i, m
<1>6. /\ u.size = t.size /\ u.used = t.used - 1
      /\ u.table = [b \in 0 .. t.size - 1 |->
                      IF b = i THEN t.table[b] \ m ELSE t.table[b]]
  BY <1>1, <1>2
<1> HIDE DEF u
<1>7. \A b \in 0 .. t.size - 1 : u.table[b] = t.table[b] \ m
  <2> SUFFICES ASSUME NEW b \in 0 .. t.size - 1, b # i
               PROVE  t.table[b] \cap m = {}
    BY <1>6
  <2>1. ASSUME NEW f \in t.table[b], f \in m PROVE FALSE
    BY <2>1, <1>5 DEF TableOK, Placed, i
  <2>2. QED
    BY <2>1
<1>8. Entries(u) = Entries(t) \ m
  <2>1. ASSUME NEW f
        PROVE  f \in Entries(u) <=> \E b \in 0 .. t.size - 1 : f \in u.table[b]
    BY <1>6 DEF Entries
  <2>2. ASSUME NEW f
        PROVE  f \in Entries(t) <=> \E b \in 0 .. t.size - 1 : f \in t.table[b]
    BY DEF Entries
  <2>3. ASSUME NEW f
        PROVE  f \in Entries(u) <=> f \in Entries(t) \ m
    BY <2>1, <2>2, <1>7
  <2>4. QED
    BY <2>3
<1>9. IsTable(u)
  <2>1. IsFiniteSet(Entries(t)) /\ t.used = Cardinality(Entries(t))
    BY TableFinite DEF TableOK
  <2>2. t.used # 0
    BY <2>1, <1>4, FS_EmptySet
  <2>3. t.size \in Sizes \cup {0}
    BY DEF TableOK, IsTable
  <2>4. u.table \in [0 .. t.size - 1 -> SUBSET Entry]
    BY <1>1, <1>6
  <2>5. u = [size |-> u.size, used |-> u.used, table |-> u.table]
    BY DEF u
  <2>6. QED
    BY <2>2, <2>3, <2>4, <2>5, <1>1, <1>6 DEF IsTable
<1>10. Placed(u) /\ KeysOnce(u)
  BY <1>6, <1>7, <1>8 DEF Placed, KeysOnce, TableOK
<1>11. u.used = Cardinality(Entries(u))
  <2>1. IsFiniteSet(Entries(t))
    BY TableFinite DEF TableOK
  <2>2. QED
    BY <2>1, <1>4, <1>6, <1>8, FS_RemoveElement DEF TableOK
<1>12. QED
  BY <1>1, <1>3, <1>5, <1>6, <1>7, <1>8, <1>9, <1>10, <1>11 DEF TableOK

\* Overwriting the value of a key that is there replaces its one entry.
LEMMA SetValOK ==
  ASSUME NEW t, TableOK(t), NEW k \in Keys, NEW v \in Vals, Matching(t, k) # {}
  PROVE  /\ TableOK(SetVal(t, k, v))
         /\ Entries(SetVal(t, k, v)) =
              {e \in Entries(t) : e.key # k} \cup {[key |-> k, val |-> v]}
         /\ SetVal(t, k, v).size = t.size
         /\ SetVal(t, k, v).used = t.used
         /\ \A b \in 0 .. t.size - 1 :
              t.table[b] = {} => SetVal(t, k, v).table[b] = {}
<1> DEFINE i == Index(t.size, k)
           m == Matching(t, k)
           n == [key |-> k, val |-> v]
           u == [size |-> t.size, used |-> t.used,
                 table |-> [t.table EXCEPT ![i] = (@ \ m) \cup {n}]]
<1>1. /\ t.size \in Nat \ {0} /\ t.used \in Nat
      /\ t.table \in [0 .. t.size - 1 -> SUBSET Entry]
      /\ t.size \in Sizes \cup {0}
  BY SizesAssumption DEF TableOK, IsTable, Matching, Chain
<1>2. i \in 0 .. t.size - 1 /\ n \in Entry /\ n.key = k
  BY <1>1, IndexBound DEF Entry
<1>3. SetVal(t, k, v) = u
  BY DEF SetVal
<1>4. PICK e : m = {e} /\ e \in Entries(t) /\ e.key = k
  BY MatchingIsExact DEF TableOK, KeysOnce
<1>5. m = {f \in Entries(t) : f.key = k} /\ t.table[i] # {}
  BY MatchingIsExact, <1>1, <1>4 DEF Matching, Chain
<1> HIDE DEF i, m, n
<1>6. /\ u.size = t.size /\ u.used = t.used
      /\ u.table = [b \in 0 .. t.size - 1 |->
                      IF b = i THEN (t.table[b] \ m) \cup {n} ELSE t.table[b]]
      /\ u = [size |-> u.size, used |-> u.used, table |-> u.table]
  BY <1>1, <1>2
<1> HIDE DEF u
<1>7. \A b \in 0 .. t.size - 1 :
        u.table[b] = (t.table[b] \ m) \cup (IF b = i THEN {n} ELSE {})
  <2> SUFFICES ASSUME NEW b \in 0 .. t.size - 1, b # i
               PROVE  t.table[b] \cap m = {}
    BY <1>6
  <2>1. ASSUME NEW f \in t.table[b], f \in m PROVE FALSE
    BY <2>1, <1>5 DEF TableOK, Placed, i
  <2>2. QED
    BY <2>1
<1>8. Entries(u) = (Entries(t) \ m) \cup {n}
  <2>1. ASSUME NEW f
        PROVE  f \in Entries(u) <=> \E b \in 0 .. t.size - 1 : f \in u.table[b]
    BY <1>6 DEF Entries
  <2>2. ASSUME NEW f
        PROVE  f \in Entries(t) <=> \E b \in 0 .. t.size - 1 : f \in t.table[b]
    BY DEF Entries
  <2>3. ASSUME NEW f
        PROVE  f \in Entries(u) <=> f \in (Entries(t) \ m) \cup {n}
    BY <2>1, <2>2, <1>2, <1>7
  <2>4. QED
    BY <2>3
<1>9. IsTable(u)
  <2>1. u.table \in [0 .. t.size - 1 -> SUBSET Entry]
    BY <1>1, <1>2, <1>6
  <2>2. QED
    BY <2>1, <1>1, <1>6 DEF IsTable
<1>10. Placed(u)
  <2> SUFFICES ASSUME NEW b \in 0 .. t.size - 1, NEW f \in u.table[b]
               PROVE  Index(t.size, f.key) = b
    BY <1>6 DEF Placed
  <2>1. CASE f \in t.table[b]
    BY <2>1 DEF TableOK, Placed
  <2>2. CASE f \notin t.table[b]
    BY <2>2, <1>2, <1>7 DEF i
  <2>3. QED
    BY <2>1, <2>2
<1>11. KeysOnce(u)
  BY <1>2, <1>5, <1>8 DEF KeysOnce, TableOK
<1>12. u.used = Cardinality(Entries(u))
  <2> DEFINE E == Entries(t)
  <2>1. IsFiniteSet(E) /\ t.used = Cardinality(E) /\ Cardinality(E) \in Nat
    BY TableFinite DEF TableOK
  <2>2. Cardinality(E \ {e}) = Cardinality(E) - 1 /\ IsFiniteSet(E \ {e})
    BY <2>1, <1>4, FS_RemoveElement
  <2>3. n \notin E \ {e}
    BY <1>2, <1>4, <1>5
  <2> HIDE DEF E
  <2>4. Cardinality((E \ {e}) \cup {n}) = Cardinality(E \ {e}) + 1
    BY <2>2, <2>3, FS_AddElement
  <2>5. Cardinality((E \ {e}) \cup {n}) = Cardinality(E)
    BY <2>1, <2>2, <2>4
  <2>6. QED
    BY <2>1, <2>5, <1>4, <1>6, <1>8 DEF E
<1>13. \A b \in 0 .. t.size - 1 : t.table[b] = {} => u.table[b] = {}
  BY <1>5, <1>7
<1>14. Entries(u) = {f \in Entries(t) : f.key # k} \cup {n}
  BY <1>5, <1>8
<1>15. QED
  BY <1>3, <1>6, <1>9, <1>10, <1>11, <1>12, <1>13, <1>14 DEF TableOK, n
-----------------------------------------------------------------------------
(* Moving entries.                                                         *)

\* Cutting a slice out removes its entries and nothing else.
LEMMA CutOK ==
  ASSUME NEW t, TableOK(t), NEW lo \in Nat, NEW hi \in 0 .. t.size
  PROVE  /\ TableOK(Cut(t, lo, hi)) /\ Cut(t, lo, hi).size = t.size
         /\ Entries(Cut(t, lo, hi)) = Entries(t) \ Slice(t, lo, hi)
         /\ \A b \in 0 .. t.size - 1 :
              t.table[b] = {} \/ b \in lo .. hi - 1 => Cut(t, lo, hi).table[b] = {}
         /\ Slice(t, lo, hi) \subseteq Entries(t)
         /\ IsFiniteSet(Slice(t, lo, hi))
<1> DEFINE m == Slice(t, lo, hi)
           u == Cut(t, lo, hi)
<1>1. /\ t.size \in Nat /\ t.used \in Nat /\ t.size \in Sizes \cup {0}
      /\ t.table \in [0 .. t.size - 1 -> SUBSET Entry]
      /\ t.used = Cardinality(Entries(t))
  BY TableType DEF TableOK
<1>2. m \subseteq Entries(t) /\ IsFiniteSet(Entries(t)) /\ Entries(t) \subseteq Entry
  BY <1>1, TableFinite DEF TableOK, Slice, Entries
<1>3. /\ IsFiniteSet(m) /\ IsFiniteSet(Entries(t) \ m)
      /\ Cardinality(m) \in Nat /\ Cardinality(Entries(t) \ m) \in Nat
      /\ Cardinality(Entries(t) \ m) = t.used - Cardinality(m)
  <2>1. IsFiniteSet(m) /\ IsFiniteSet(Entries(t) \ m)
    BY <1>2, FS_Subset
  <2>2. (Entries(t) \ m) \cup m = Entries(t) /\ (Entries(t) \ m) \cap m = {}
    BY <1>2
  <2>3. Cardinality(Entries(t)) =
          Cardinality(Entries(t) \ m) + Cardinality(m) - Cardinality({})
    BY <2>1, <2>2, FS_Union
  <2>4. Cardinality(m) \in Nat /\ Cardinality(Entries(t) \ m) \in Nat
    BY <2>1, FS_CardinalityType
  <2>5. QED
    BY <2>1, <2>3, <2>4, <1>1, FS_EmptySet
<1>4. /\ u.size = t.size /\ u.used = t.used - Cardinality(m)
      /\ u.table = [b \in 0 .. t.size - 1 |->
                      IF b \in lo .. hi - 1 THEN {} ELSE t.table[b]]
      /\ u = [size |-> u.size, used |-> u.used, table |-> u.table]
  BY DEF Cut
<1>5. \A b \in 0 .. t.size - 1 : u.table[b] = t.table[b] \ m
  <2> SUFFICES ASSUME NEW b \in 0 .. t.size - 1
               PROVE  u.table[b] = t.table[b] \ m
    OBVIOUS
  <2>1. \A e \in t.table[b] : e \in Entries(t) /\ Index(t.size, e.key) = b
    BY DEF Entries, TableOK, Placed
  <2>2. \A e \in t.table[b] : e \in m <=> b \in lo .. hi - 1
    BY <2>1, <1>1 DEF Slice, TableOK, Placed
  <2>3. CASE b \in lo .. hi - 1
    BY <2>2, <2>3, <1>4
  <2>4. CASE b \notin lo .. hi - 1
    BY <2>2, <2>4, <1>4
  <2>5. QED
    BY <2>3, <2>4
<1> HIDE DEF m, u
<1>6. Entries(u) = Entries(t) \ m
  <2>1. ASSUME NEW f
        PROVE  f \in Entries(u) <=> \E b \in 0 .. t.size - 1 : f \in u.table[b]
    BY <1>4 DEF Entries
  <2>2. ASSUME NEW f
        PROVE  f \in Entries(t) <=> \E b \in 0 .. t.size - 1 : f \in t.table[b]
    BY DEF Entries
  <2>3. ASSUME NEW f
        PROVE  f \in Entries(u) <=> f \in Entries(t) \ m
    BY <2>1, <2>2, <1>5
  <2>4. QED
    BY <2>3
<1>7. IsTable(u)
  <2>1. u.table \in [0 .. t.size - 1 -> SUBSET Entry]
    BY <1>1, <1>4
  <2>2. u.used \in Nat
    BY <1>3, <1>4
  <2>3. QED
    BY <2>1, <2>2, <1>1, <1>4 DEF IsTable
<1>8. Placed(u) /\ KeysOnce(u)
  BY <1>4, <1>5, <1>6 DEF Placed, KeysOnce, TableOK
<1>9. u.used = Cardinality(Entries(u))
  BY <1>3, <1>4, <1>6
<1>10. \A b \in 0 .. t.size - 1 :
         t.table[b] = {} \/ b \in lo .. hi - 1 => u.table[b] = {}
  BY <1>4, <1>5
<1>11. QED
  BY <1>2, <1>3, <1>4, <1>6, <1>7, <1>8, <1>9, <1>10 DEF m, u, TableOK

\* Pasting entries of new keys adds exactly those entries.
LEMMA PasteOK ==
  ASSUME NEW t, TableOK(t), t.size # 0,
         NEW m, IsFiniteSet(m), m \subseteq Entry,
         \A e, f \in m : e.key = f.key => e = f,
         \A e \in m, f \in Entries(t) : e.key # f.key
  PROVE  /\ TableOK(Paste(t, m)) /\ Paste(t, m).size = t.size
         /\ Entries(Paste(t, m)) = Entries(t) \cup m
<1> DEFINE u == Paste(t, m)
<1>1. /\ t.size \in Nat \ {0} /\ t.used \in Nat /\ t.size \in Sizes \cup {0}
      /\ t.table \in [0 .. t.size - 1 -> SUBSET Entry]
      /\ t.used = Cardinality(Entries(t))
  BY SizesAssumption DEF TableOK, IsTable
<1>2. /\ u.size = t.size /\ u.used = t.used + Cardinality(m)
      /\ u.table = [b \in 0 .. t.size - 1 |->
                      t.table[b] \cup {e \in m : Index(t.size, e.key) = b}]
      /\ u = [size |-> u.size, used |-> u.used, table |-> u.table]
  BY DEF Paste
<1> HIDE DEF u
<1>3. Entries(u) = Entries(t) \cup m
  <2>1. ASSUME NEW f
        PROVE  f \in Entries(u) <=> \E b \in 0 .. t.size - 1 : f \in u.table[b]
    BY <1>2 DEF Entries
  <2>2. ASSUME NEW f
        PROVE  f \in Entries(t) <=> \E b \in 0 .. t.size - 1 : f \in t.table[b]
    BY DEF Entries
  <2>3. \A f \in m : Index(t.size, f.key) \in 0 .. t.size - 1
    BY <1>1, IndexBound DEF Entry
  <2>4. ASSUME NEW f
        PROVE  f \in Entries(u) <=> f \in Entries(t) \cup m
    BY <2>1, <2>2, <2>3, <1>2
  <2>5. QED
    BY <2>4
<1>4. IsTable(u)
  <2>1. u.table \in [0 .. t.size - 1 -> SUBSET Entry]
    BY <1>1, <1>2
  <2>2. Cardinality(m) \in Nat
    BY FS_CardinalityType
  <2>3. QED
    BY <2>1, <2>2, <1>1, <1>2 DEF IsTable
<1>5. Placed(u)
  BY <1>2 DEF Placed, TableOK
<1>6. KeysOnce(u)
  BY <1>3 DEF KeysOnce, TableOK
<1>7. u.used = Cardinality(Entries(u))
  <2>1. IsFiniteSet(Entries(t)) /\ Entries(t) \cap m = {}
    BY TableFinite DEF TableOK
  <2>2. Cardinality(Entries(t) \cup m) =
          Cardinality(Entries(t)) + Cardinality(m) - Cardinality({})
    BY <2>1, FS_Union
  <2>3. Cardinality(m) \in Nat
    BY FS_CardinalityType
  <2>4. QED
    BY <2>2, <2>3, <1>1, <1>2, <1>3, FS_EmptySet
<1>8. QED
  BY <1>2, <1>3, <1>4, <1>5, <1>6, <1>7 DEF u, TableOK
-----------------------------------------------------------------------------
(* The rehash.                                                             *)

All(h) == Entries(h.ht0) \cup Entries(h.ht1)

\* What a step that only reorganises the tables keeps.
Same(h, g) == Good(g) /\ All(g) = All(h) /\ g.iterators = h.iterators

LEMMA EmptyMeansUnused ==
  ASSUME NEW t, TableOK(t)
  PROVE  t.used = 0 <=> Entries(t) = {}
  BY TableFinite, FS_EmptySet DEF TableOK

\* The loop of dictRehash up to bucket i: all parts hold but the bound of
\* rehashidx, and everything before bucket i has moved.
LEMMA MoveToOK ==
  ASSUME NEW h, Good(h), dictIsRehashing(h), NEW i \in 0 .. h.ht0.size
  PROVE  LET m == MoveTo(h, i)
         IN  /\ IsDict(m) /\ TableOK(m.ht0) /\ TableOK(m.ht1) /\ Apart(m)
             /\ All(m) = All(h) /\ m.iterators = h.iterators /\ m.rehashidx = i
             /\ m.ht0.size = h.ht0.size /\ m.ht1.size = h.ht1.size
             /\ \A b \in 0 .. m.ht0.size - 1 : b < i => m.ht0.table[b] = {}
<1> DEFINE lo == h.rehashidx
           es == Slice(h.ht0, lo, i)
           m == MoveTo(h, i)
<1>1. /\ lo \in Nat /\ h.iterators \in {0, 1}
      /\ TableOK(h.ht0) /\ TableOK(h.ht1) /\ Apart(h) /\ h.ht1.size # 0
      /\ \A b \in 0 .. h.ht0.size - 1 : b < lo => h.ht0.table[b] = {}
      /\ h.ht0.size \in Nat
  BY TableType DEF Good, IsDict, RehashBounds, dictIsRehashing
<1>2. /\ m.ht0 = Cut(h.ht0, lo, i) /\ m.ht1 = Paste(h.ht1, es)
      /\ m.rehashidx = i /\ m.iterators = h.iterators
      /\ m = [ht0 |-> m.ht0, ht1 |-> m.ht1,
              rehashidx |-> m.rehashidx, iterators |-> m.iterators]
  BY DEF MoveTo
<1> HIDE DEF m, es, lo
<1>3. /\ TableOK(m.ht0) /\ m.ht0.size = h.ht0.size
      /\ Entries(m.ht0) = Entries(h.ht0) \ es
      /\ es \subseteq Entries(h.ht0) /\ IsFiniteSet(es)
      /\ \A b \in 0 .. h.ht0.size - 1 :
           h.ht0.table[b] = {} \/ b \in lo .. i - 1 => m.ht0.table[b] = {}
  <2>1. /\ TableOK(Cut(h.ht0, lo, i)) /\ Cut(h.ht0, lo, i).size = h.ht0.size
        /\ Entries(Cut(h.ht0, lo, i)) = Entries(h.ht0) \ es
        /\ \A b \in 0 .. h.ht0.size - 1 : h.ht0.table[b] = {} \/ b \in lo .. i - 1
             => Cut(h.ht0, lo, i).table[b] = {}
        /\ es \subseteq Entries(h.ht0) /\ IsFiniteSet(es)
    BY <1>1, CutOK, Zenon DEF es
  <2>2. QED
    BY <2>1, <1>2
<1>4. es \subseteq Entry
  BY <1>1, <1>3, TableFinite DEF TableOK
<1>5. /\ TableOK(m.ht1) /\ m.ht1.size = h.ht1.size
      /\ Entries(m.ht1) = Entries(h.ht1) \cup es
  <2>1. \A e, f \in es : e.key = f.key => e = f
    BY <1>1, <1>3 DEF TableOK, KeysOnce
  <2>2. \A e \in es, f \in Entries(h.ht1) : e.key # f.key
    BY <1>1, <1>3 DEF Apart
  <2>3. QED
    BY <1>1, <1>2, <1>3, <1>4, <2>1, <2>2, PasteOK
<1>6. Apart(m)
  BY <1>1, <1>3, <1>5 DEF Apart, TableOK, KeysOnce
<1>7. All(m) = All(h)
  BY <1>3, <1>5 DEF All
<1>8. \A b \in 0 .. m.ht0.size - 1 : b < i => m.ht0.table[b] = {}
  BY <1>1, <1>3
<1>9. IsDict(m)
  BY <1>1, <1>2, <1>3, <1>5 DEF IsDict, TableOK
<1>10. QED
  BY <1>2, <1>3, <1>5, <1>6, <1>7, <1>8, <1>9 DEF m

\* A whole ht[0] passed is an empty ht[0].
LEMMA PrefixIsAll ==
  ASSUME NEW t, TableOK(t),
         \A b \in 0 .. t.size - 1 : b < t.size => t.table[b] = {}
  PROVE  t.used = 0
<1>1. t.size \in Nat
  BY TableType DEF TableOK
<1>2. Entries(t) = {}
  BY <1>1 DEF Entries
<1>3. QED
  BY <1>2, EmptyMeansUnused

\* A rehash of n buckets, finishing or not, loses no entry and doubles none.
LEMMA RehashOK ==
  ASSUME NEW h, Good(h), NEW n \in Nat \ {0}
  PROVE  Same(h, dictRehash(h, n))
<1>1. CASE ~ dictIsRehashing(h)
  BY <1>1 DEF dictRehash, Same
<1>2. CASE dictIsRehashing(h) /\ Cardinality(Occupied(h)) >= n
  <2> DEFINE Below(i) == {b \in Occupied(h) : b < i}
             S == {i \in 0 .. h.ht0.size : Cardinality(Below(i)) >= n}
             i == Min(S)
             m == MoveTo(h, i)
  <2>1. h.ht0.size \in Nat /\ h.rehashidx \in Nat /\ h.ht0.size > 0 /\ h.ht1.size > 0
    BY <1>2, TableType DEF Good, IsDict, dictIsRehashing, RehashBounds
  <2>2. h.ht0.size \in S
    <3>1. Below(h.ht0.size) = Occupied(h)
      BY <2>1 DEF Occupied
    <3>2. QED
      BY <1>2, <2>1, <3>1
  <2>3. i \in S
    <3> HIDE DEF Below
    <3>1. S \subseteq Nat /\ S # {}
      BY <2>1, <2>2
    <3> HIDE DEF S
    <3>2. QED
      BY <3>1, MinIsLeast
  <2>4. i > h.rehashidx /\ i \in 0 .. h.ht0.size
    <3>1. i \in 0 .. h.ht0.size /\ Cardinality(Below(i)) >= n
      BY <2>3
    <3> HIDE DEF S, i
    <3>2. SUFFICES ASSUME i <= h.rehashidx PROVE FALSE
      BY <2>1, <3>1
    <3>3. Below(i) = {}
      BY <2>1, <3>1, <3>2 DEF Occupied
    <3>4. QED
      BY <3>1, <3>3, FS_EmptySet
  <2>5. dictRehash(h, n) = m
    BY <1>2 DEF dictRehash
  <2> HIDE DEF i, S, Below, m
  <2>6. /\ IsDict(m) /\ TableOK(m.ht0) /\ TableOK(m.ht1) /\ Apart(m)
        /\ All(m) = All(h) /\ m.iterators = h.iterators /\ m.rehashidx = i
        /\ m.ht0.size = h.ht0.size /\ m.ht1.size = h.ht1.size
        /\ \A b \in 0 .. m.ht0.size - 1 : b < i => m.ht0.table[b] = {}
    BY <1>2, <2>4, MoveToOK DEF m
  <2>7. m.ht0.used > 0 => i < m.ht0.size
    <3>1. i = m.ht0.size => m.ht0.used = 0
      BY <2>6, PrefixIsAll
    <3>2. m.ht0.used \in Nat
      BY <2>6, TableType DEF TableOK
    <3>3. QED
      BY <2>1, <2>4, <2>6, <3>1, <3>2
  <2>8. RehashBounds(m)
    BY <2>1, <2>4, <2>6, <2>7 DEF RehashBounds, dictIsRehashing
  <2>9. QED
    BY <2>5, <2>6, <2>8 DEF Same, Good
<1>3. CASE dictIsRehashing(h) /\ ~ (Cardinality(Occupied(h)) >= n)
  <2> DEFINE m == MoveTo(h, h.ht0.size)
             g == FinishRehash(m)
  <2>1. h.ht0.size \in Nat
    BY TableType DEF Good, IsDict
  <2>2. /\ IsDict(m) /\ TableOK(m.ht0) /\ TableOK(m.ht1) /\ Apart(m)
        /\ All(m) = All(h) /\ m.iterators = h.iterators
        /\ m.ht0.size = h.ht0.size
        /\ \A b \in 0 .. m.ht0.size - 1 : b < h.ht0.size => m.ht0.table[b] = {}
    BY <1>3, <2>1, MoveToOK
  <2>3. m.ht0.used = 0
    BY <2>2, PrefixIsAll
  <2>4. dictRehash(h, n) = g
    BY <1>3, <2>3 DEF dictRehash
  <2> HIDE DEF m
  <2>5. /\ g.ht0 = m.ht1 /\ g.ht1 = NewTable(0) /\ g.rehashidx = -1
        /\ g.iterators = m.iterators
        /\ g = [ht0 |-> g.ht0, ht1 |-> g.ht1,
                rehashidx |-> g.rehashidx, iterators |-> g.iterators]
    BY DEF FinishRehash
  <2> HIDE DEF g
  <2>6. TableOK(NewTable(0)) /\ Entries(NewTable(0)) = {}
    BY NewTableOK
  <2>7. Entries(m.ht0) = {}
    BY <2>2, <2>3, EmptyMeansUnused
  <2>8. All(g) = All(h)
    BY <2>2, <2>5, <2>6, <2>7 DEF All
  <2>9. IsDict(g) /\ Apart(g) /\ RehashBounds(g)
    BY <2>2, <2>5, <2>6 DEF IsDict, Apart, RehashBounds, dictIsRehashing, TableOK
  <2>10. QED
    BY <2>2, <2>4, <2>5, <2>6, <2>8, <2>9 DEF Same, Good
<1>4. QED
  BY <1>1, <1>2, <1>3

LEMMA RehashStepOK ==
  ASSUME NEW h, Good(h)
  PROVE  Same(h, dictRehashStep(h)) /\ Same(h, dictLookup(h))
  BY RehashOK DEF dictRehashStep, dictLookup, Same
-----------------------------------------------------------------------------
(* Resizing.                                                               *)

\* What the fields of a sound dictionary are.
LEMMA GoodFields ==
  ASSUME NEW h, Good(h)
  PROVE  /\ h.ht0.size \in Nat /\ h.ht1.size \in Nat /\ h.ht0.used \in Nat
         /\ h.rehashidx \in Nat \cup {-1} /\ h.iterators \in {0, 1}
         /\ dictIsRehashing(h) => h.ht0.size # 0 /\ h.ht1.size # 0
         /\ ~ dictIsRehashing(h) => h.ht1 = NewTable(0) /\ Entries(h.ht1) = {}
         /\ h.ht0.used <= Cardinality(Keys)
<1>1. IsTable(h.ht0) /\ IsTable(h.ht1) /\ TableOK(h.ht0)
  BY DEF Good, IsDict
<1>2. h.ht0.used <= Cardinality(Keys)
  BY <1>1, TableFinite DEF TableOK
<1>3. h.rehashidx \in Nat \cup {-1} /\ h.iterators \in {0, 1}
  BY DEF Good, IsDict
<1>4. /\ dictIsRehashing(h) => h.ht0.size # 0 /\ h.ht1.size # 0
      /\ ~ dictIsRehashing(h) => h.ht1 = NewTable(0)
  BY <1>1, TableType DEF Good, RehashBounds
<1>5. QED
  BY <1>1, <1>2, <1>3, <1>4, TableType, NewTableOK

\* A size that fits the entries exists, and dictExpand to it loses nothing.
LEMMA ExpandOK ==
  ASSUME NEW h, Good(h), NEW n \in Nat, n <= 2 * Cardinality(Keys) \/ n = InitialSize
  PROVE  /\ Same(h, dictExpand(h, n))
         /\ dictIsRehashing(h) \/ h.ht0.used <= n => dictExpand(h, n).ht0.size # 0
<1> DEFINE new == NewTable(NextPower(n))
           g0 == [h EXCEPT !.ht0 = new]
           g1 == [ht0 |-> h.ht0, ht1 |-> new, rehashidx |-> 0,
                  iterators |-> h.iterators]
<1>1. \E s \in Sizes : s >= n
  <2>1. CASE n <= 2 * Cardinality(Keys)
    <3>1. PICK s \in Sizes : s >= 2 * Cardinality(Keys)
      BY SizesAssumption
    <3>2. Cardinality(Keys) \in Nat /\ s \in Nat
      BY <3>1, SizesAssumption, KeysAssumption, FS_CardinalityType
    <3>3. QED
      BY <2>1, <3>1, <3>2
  <2>2. CASE n = InitialSize
    BY <2>2, SizesAssumption
  <2>3. QED
    BY <2>1, <2>2
<1>2. NextPower(n) \in Sizes /\ NextPower(n) \in Nat \ {0}
  BY <1>1, NextPowerIsSize
<1>3. TableOK(new) /\ Entries(new) = {} /\ new.size # 0
  BY <1>2, NewTableOK
<1> HIDE DEF new
<1>4. /\ TableOK(h.ht0) /\ TableOK(h.ht1) /\ Apart(h) /\ IsDict(h)
      /\ h = [ht0 |-> h.ht0, ht1 |-> h.ht1,
              rehashidx |-> h.rehashidx, iterators |-> h.iterators]
  BY DEF Good, IsDict
<1>5. CASE dictIsRehashing(h) \/ h.ht0.used > n
  <2>1. dictExpand(h, n) = h
    BY <1>5 DEF dictExpand
  <2>2. h.ht0.used \in Nat
    BY GoodFields
  <2>3. QED
    BY <1>5, <2>1, <2>2, GoodFields DEF Same
<1>6. CASE ~ dictIsRehashing(h) /\ ~ (h.ht0.used > n) /\ h.ht0.size = 0
  <2>1. dictExpand(h, n) = g0
    BY <1>6 DEF dictExpand, new
  <2>2. /\ g0.ht0 = new /\ g0.ht1 = h.ht1 /\ g0.rehashidx = h.rehashidx
        /\ g0.iterators = h.iterators
        /\ g0 = [ht0 |-> g0.ht0, ht1 |-> g0.ht1,
                 rehashidx |-> g0.rehashidx, iterators |-> g0.iterators]
    BY <1>4
  <2> HIDE DEF g0
  <2>3. Entries(h.ht0) = {}
    BY <1>6 DEF Entries
  <2>4. All(g0) = All(h)
    BY <1>3, <2>2, <2>3 DEF All
  <2>5. IsDict(g0) /\ Apart(g0)
    BY <1>3, <1>4, <2>2 DEF IsDict, Apart, TableOK
  <2>6. RehashBounds(g0)
    BY <1>6, <2>2, GoodFields DEF RehashBounds, dictIsRehashing
  <2>7. QED
    BY <1>3, <1>4, <2>1, <2>2, <2>4, <2>5, <2>6 DEF Same, Good
<1>7. CASE ~ dictIsRehashing(h) /\ ~ (h.ht0.used > n) /\ h.ht0.size # 0
  <2>1. dictExpand(h, n) = g1
    BY <1>7 DEF dictExpand, new
  <2>2. /\ g1.ht0 = h.ht0 /\ g1.ht1 = new /\ g1.rehashidx = 0
        /\ g1.iterators = h.iterators
        /\ g1 = [ht0 |-> g1.ht0, ht1 |-> g1.ht1,
                 rehashidx |-> g1.rehashidx, iterators |-> g1.iterators]
    BY <1>4
  <2> HIDE DEF g1
  <2>3. Entries(h.ht1) = {}
    BY <1>7, GoodFields
  <2>4. All(g1) = All(h)
    BY <1>3, <2>2, <2>3 DEF All
  <2>5. IsDict(g1) /\ Apart(g1)
    BY <1>3, <1>4, <2>2 DEF IsDict, Apart, TableOK
  <2>6. RehashBounds(g1)
    <3>1. h.ht0.size \in Nat /\ h.ht0.size > 0 /\ new.size \in Nat /\ new.size > 0
      BY <1>3, <1>7, GoodFields, TableType DEF TableOK
    <3>2. QED
      BY <2>2, <3>1 DEF RehashBounds, dictIsRehashing
  <2>7. QED
    BY <1>3, <1>4, <1>7, <2>1, <2>2, <2>4, <2>5, <2>6 DEF Same, Good
<1>8. QED
  BY <1>5, <1>6, <1>7

\* The structure _dictKeyIndex searches holds what the dictionary held, and has
\* buckets to link into.
LEMMA PreparedOK ==
  ASSUME NEW h, Good(h)
  PROVE  Same(h, Prepared(h)) /\ Prepared(h).ht0.size # 0
<1> DEFINE s == dictRehashStep(h)
<1>1. Same(h, s) /\ Good(s)
  BY RehashStepOK DEF Same
<1> HIDE DEF s
<1>2. /\ s.ht0.size \in Nat /\ s.ht0.used \in Nat
      /\ dictIsRehashing(s) => s.ht0.size # 0
      /\ s.ht0.used <= Cardinality(Keys) /\ Cardinality(Keys) \in Nat
      /\ InitialSize \in Nat
  BY <1>1, GoodFields, KeysAssumption, FS_CardinalityType, SizesAssumption
<1>3. Same(s, dictExpandIfNeeded(s)) /\ dictExpandIfNeeded(s).ht0.size # 0
  <2>1. CASE dictIsRehashing(s)
    BY <2>1, <1>1, <1>2 DEF dictExpandIfNeeded, Same
  <2>2. CASE ~ dictIsRehashing(s) /\ s.ht0.size = 0
    <3>1. s.ht0.used = 0
      BY <2>2, <1>1, EmptyMeansUnused DEF Good, Entries
    <3>2. dictExpandIfNeeded(s) = dictExpand(s, InitialSize)
      BY <2>2 DEF dictExpandIfNeeded
    <3>3. s.ht0.used <= InitialSize
      BY <3>1, <1>2
    <3>4. QED
      BY <3>2, <3>3, <1>1, <1>2, ExpandOK
  <2>3. CASE ~ dictIsRehashing(s) /\ s.ht0.size # 0 /\ s.ht0.used >= s.ht0.size
    <3>1. dictExpandIfNeeded(s) = dictExpand(s, s.ht0.used * 2)
      BY <2>3 DEF dictExpandIfNeeded
    <3>2. /\ s.ht0.used * 2 \in Nat /\ s.ht0.used <= s.ht0.used * 2
          /\ s.ht0.used * 2 <= 2 * Cardinality(Keys)
      BY <1>2
    <3>3. QED
      BY <3>1, <3>2, <1>1, ExpandOK
  <2>4. CASE ~ dictIsRehashing(s) /\ s.ht0.size # 0 /\ ~ (s.ht0.used >= s.ht0.size)
    BY <2>4, <1>1 DEF dictExpandIfNeeded, Same
  <2>5. QED
    BY <2>1, <2>2, <2>3, <2>4
<1>4. QED
  BY <1>1, <1>3 DEF Prepared, s, Same

\* The timer's shrink.
LEMMA ResizeOK ==
  ASSUME NEW h, Good(h)
  PROVE  Same(h, dictResize(h))
<1> DEFINE n == IF h.ht0.used < InitialSize THEN InitialSize ELSE h.ht0.used
<1>1. CASE dictIsRehashing(h)
  BY <1>1 DEF dictResize, Same
<1>2. CASE ~ dictIsRehashing(h)
  <2>1. dictResize(h) = dictExpand(h, n)
    BY <1>2 DEF dictResize
  <2>2. n \in Nat /\ (n <= 2 * Cardinality(Keys) \/ n = InitialSize)
    BY GoodFields, KeysAssumption, FS_CardinalityType, SizesAssumption
  <2>3. QED
    BY <2>1, <2>2, ExpandOK
<1>3. QED
  BY <1>1, <1>2
-----------------------------------------------------------------------------
(* The calls.                                                              *)

\* A lookup finds exactly what is stored under its key, in either table.
LEMMA FoundIsExact ==
  ASSUME NEW h, Good(h), NEW k \in Keys
  PROVE  /\ Found(h, k) = {e \in All(h) : e.key = k}
         /\ Found(h, k) # {} /\ Matching(h.ht0, k) = {} => Matching(h.ht1, k) # {}
         /\ Matching(h.ht1, k) # {} => dictIsRehashing(h)
<1>1. /\ Matching(h.ht0, k) = {e \in Entries(h.ht0) : e.key = k}
      /\ Matching(h.ht1, k) = {e \in Entries(h.ht1) : e.key = k}
  BY MatchingIsExact DEF Good
<1>2. Matching(h.ht0, k) # {} => Matching(h.ht1, k) = {}
  BY <1>1 DEF Good, Apart
<1>3. ~ dictIsRehashing(h) => Matching(h.ht1, k) = {}
  BY <1>1, GoodFields
<1>4. QED
  BY <1>1, <1>2, <1>3 DEF Found, All

\* Changing ht[0] in place.
LEMMA Update0OK ==
  ASSUME NEW h, Good(h), NEW t, TableOK(t), t.size = h.ht0.size,
         dictIsRehashing(h) =>
           /\ t.used <= h.ht0.used
           /\ \A b \in 0 .. t.size - 1 : h.ht0.table[b] = {} => t.table[b] = {},
         \A e \in Entries(t), f \in Entries(h.ht1) : e.key # f.key
  PROVE  LET g == [h EXCEPT !.ht0 = t]
         IN  Good(g) /\ All(g) = Entries(t) \cup Entries(h.ht1)
             /\ g.iterators = h.iterators
<1> DEFINE g == [h EXCEPT !.ht0 = t]
<1>1. /\ TableOK(h.ht0) /\ TableOK(h.ht1) /\ IsDict(h) /\ RehashBounds(h)
      /\ h = [ht0 |-> h.ht0, ht1 |-> h.ht1,
              rehashidx |-> h.rehashidx, iterators |-> h.iterators]
  BY DEF Good, IsDict
<1>2. /\ g.ht0 = t /\ g.ht1 = h.ht1 /\ g.rehashidx = h.rehashidx
      /\ g.iterators = h.iterators
      /\ g = [ht0 |-> g.ht0, ht1 |-> g.ht1,
              rehashidx |-> g.rehashidx, iterators |-> g.iterators]
  BY <1>1
<1> HIDE DEF g
<1>3. IsDict(g) /\ Apart(g)
  BY <1>1, <1>2 DEF IsDict, Apart, TableOK
<1>4. RehashBounds(g)
  <2>1. CASE dictIsRehashing(h)
    <3>1. /\ t.used \in Nat /\ h.ht0.used \in Nat /\ h.ht0.size \in Nat
          /\ t.used <= h.ht0.used
      BY <1>1, <2>1, TableType DEF TableOK
    <3>2. /\ h.ht0.size > 0 /\ h.ht1.size > 0
          /\ \A b \in 0 .. h.ht0.size - 1 :
               b < h.rehashidx => h.ht0.table[b] = {}
          /\ h.ht0.used > 0 => h.rehashidx < h.ht0.size
      BY <1>1, <2>1 DEF RehashBounds
    <3>3. \A b \in 0 .. t.size - 1 : b < h.rehashidx => t.table[b] = {}
      BY <2>1, <3>2
    <3>4. t.used > 0 => h.ht0.used > 0
      BY <3>1
    <3>5. QED
      BY <1>2, <2>1, <3>2, <3>3, <3>4 DEF RehashBounds, dictIsRehashing
  <2>2. CASE ~ dictIsRehashing(h)
    BY <1>1, <1>2, <2>2 DEF RehashBounds, dictIsRehashing
  <2>3. QED
    BY <2>1, <2>2
<1>5. QED
  BY <1>1, <1>2, <1>3, <1>4 DEF Good, All, g

\* Changing ht[1] in place.
LEMMA Update1OK ==
  ASSUME NEW h, Good(h), dictIsRehashing(h), NEW t, TableOK(t), t.size = h.ht1.size,
         \A e \in Entries(h.ht0), f \in Entries(t) : e.key # f.key
  PROVE  LET g == [h EXCEPT !.ht1 = t]
         IN  Good(g) /\ All(g) = Entries(h.ht0) \cup Entries(t)
             /\ g.iterators = h.iterators
<1> DEFINE g == [h EXCEPT !.ht1 = t]
<1>1. /\ TableOK(h.ht0) /\ TableOK(h.ht1) /\ IsDict(h) /\ RehashBounds(h)
      /\ h = [ht0 |-> h.ht0, ht1 |-> h.ht1,
              rehashidx |-> h.rehashidx, iterators |-> h.iterators]
  BY DEF Good, IsDict
<1>2. /\ g.ht0 = h.ht0 /\ g.ht1 = t /\ g.rehashidx = h.rehashidx
      /\ g.iterators = h.iterators
      /\ g = [ht0 |-> g.ht0, ht1 |-> g.ht1,
              rehashidx |-> g.rehashidx, iterators |-> g.iterators]
  BY <1>1
<1> HIDE DEF g
<1>3. IsDict(g) /\ Apart(g)
  BY <1>1, <1>2 DEF IsDict, Apart, TableOK
<1>4. RehashBounds(g)
  BY <1>1, <1>2 DEF RehashBounds, dictIsRehashing
<1>5. QED
  BY <1>1, <1>2, <1>3, <1>4 DEF Good, All, g

\* What a call makes of the entries: the new structure is sound, holds the
\* entries E and keeps the iterator count.
Becomes(h, g, E) == Good(g) /\ All(g) = E /\ g.iterators = h.iterators

\* dictAdd stores a new key and leaves a known one alone.
LEMMA AddOK ==
  ASSUME NEW h, Good(h), NEW k \in Keys, NEW v \in Vals
  PROVE  /\ Found(Prepared(h), k) = {e \in All(h) : e.key = k}
         /\ Becomes(h, dictAdd(h, k, v),
              IF Found(Prepared(h), k) = {} THEN All(h) \cup {[key |-> k, val |-> v]}
              ELSE All(h))
<1> DEFINE p == Prepared(h)
           e == [key |-> k, val |-> v]
<1>1. /\ Good(p) /\ All(p) = All(h) /\ p.iterators = h.iterators
      /\ p.ht0.size # 0
  BY PreparedOK DEF Same
<1>2. Found(p, k) = {f \in All(h) : f.key = k}
  BY <1>1, FoundIsExact
<1>3. e \in Entry /\ e.key = k
  BY DEF Entry
<1> HIDE DEF p, e
<1>4. CASE Found(p, k) # {}
  BY <1>1, <1>2, <1>4 DEF dictAdd, Becomes, p
<1>5. CASE Found(p, k) = {} /\ dictIsRehashing(p)
  <2>1. \A f \in Entries(p.ht0) \cup Entries(p.ht1) : f.key # k
    BY <1>1, <1>2, <1>5 DEF All
  <2>2. p.ht1.size # 0 /\ TableOK(p.ht1)
    BY <1>1, <1>5, GoodFields DEF Good
  <2>3. /\ TableOK(Link(p.ht1, e)) /\ Link(p.ht1, e).size = p.ht1.size
        /\ Entries(Link(p.ht1, e)) = Entries(p.ht1) \cup {e}
    BY <1>3, <2>1, <2>2, LinkOK DEF KeysOf
  <2>4. \A f \in Entries(p.ht0), f2 \in Entries(Link(p.ht1, e)) : f.key # f2.key
    BY <1>1, <1>3, <2>1, <2>3 DEF Good, Apart
  <2>5. dictAdd(h, k, v) = [p EXCEPT !.ht1 = Link(p.ht1, e)]
    BY <1>5 DEF dictAdd, p, e
  <2>6. /\ Good(dictAdd(h, k, v)) /\ dictAdd(h, k, v).iterators = p.iterators
        /\ All(dictAdd(h, k, v)) = Entries(p.ht0) \cup Entries(Link(p.ht1, e))
    BY <1>1, <1>5, <2>3, <2>4, <2>5, Update1OK
  <2>7. QED
    BY <1>1, <1>2, <1>5, <2>3, <2>6 DEF Becomes, All, p, e
<1>6. CASE Found(p, k) = {} /\ ~ dictIsRehashing(p)
  <2>1. \A f \in Entries(p.ht0) \cup Entries(p.ht1) : f.key # k
    BY <1>1, <1>2, <1>6 DEF All
  <2>2. TableOK(p.ht0)
    BY <1>1 DEF Good
  <2>3. /\ TableOK(Link(p.ht0, e)) /\ Link(p.ht0, e).size = p.ht0.size
        /\ Entries(Link(p.ht0, e)) = Entries(p.ht0) \cup {e}
    BY <1>1, <1>3, <2>1, <2>2, LinkOK DEF KeysOf
  <2>4. \A f \in Entries(Link(p.ht0, e)), f2 \in Entries(p.ht1) : f.key # f2.key
    BY <1>1, <1>3, <2>1, <2>3 DEF Good, Apart
  <2>5. dictAdd(h, k, v) = [p EXCEPT !.ht0 = Link(p.ht0, e)]
    BY <1>6 DEF dictAdd, p, e
  <2>6. /\ Good(dictAdd(h, k, v)) /\ dictAdd(h, k, v).iterators = p.iterators
        /\ All(dictAdd(h, k, v)) = Entries(Link(p.ht0, e)) \cup Entries(p.ht1)
    BY <1>1, <1>6, <2>3, <2>4, <2>5, Update0OK
  <2>7. QED
    BY <1>1, <1>2, <1>6, <2>3, <2>6 DEF Becomes, All, p, e
<1>7. QED
  BY <1>4, <1>5, <1>6

\* dictReplace leaves one entry under its key, with the new value.
LEMMA ReplaceOK ==
  ASSUME NEW h, Good(h), NEW k \in Keys, NEW v \in Vals
  PROVE  Becomes(h, dictReplace(h, k, v),
                 {e \in All(h) : e.key # k} \cup {[key |-> k, val |-> v]})
<1> DEFINE a == dictAdd(h, k, v)
           f == dictRehashStep(a)
           n == [key |-> k, val |-> v]
<1>1. /\ Found(Prepared(h), k) = {e \in All(h) : e.key = k}
      /\ Good(a) /\ a.iterators = h.iterators
      /\ Found(Prepared(h), k) = {} => All(a) = All(h) \cup {n}
      /\ Found(Prepared(h), k) # {} => All(a) = All(h)
  BY AddOK DEF Becomes
<1>2. Good(f) /\ All(f) = All(a) /\ f.iterators = h.iterators
  BY <1>1, RehashStepOK DEF Same
<1>3. n.key = k
  OBVIOUS
<1> HIDE DEF a, f, n
<1>4. CASE Found(Prepared(h), k) = {}
  BY <1>1, <1>4 DEF dictReplace, Becomes, a, n
<1>5. CASE Found(Prepared(h), k) # {} /\ Matching(f.ht0, k) # {}
  <2> DEFINE t == SetVal(f.ht0, k, v)
  <2>1. TableOK(f.ht0) /\ TableOK(f.ht1) /\ Apart(f) /\ f.ht0.used \in Nat
    BY <1>2, GoodFields DEF Good
  <2>2. /\ TableOK(t) /\ t.size = f.ht0.size /\ t.used = f.ht0.used
        /\ Entries(t) = {e \in Entries(f.ht0) : e.key # k} \cup {n}
        /\ \A b \in 0 .. f.ht0.size - 1 : f.ht0.table[b] = {} => t.table[b] = {}
    BY <1>5, <2>1, SetValOK DEF n
  <2> HIDE DEF t
  <2>3. PICK o \in Entries(f.ht0) : o.key = k
    BY <1>5, <2>1, MatchingIsExact
  <2>4. \A e \in Entries(t), e2 \in Entries(f.ht1) : e.key # e2.key
    BY <1>3, <2>1, <2>2, <2>3 DEF Apart
  <2>5. dictReplace(h, k, v) = [f EXCEPT !.ht0 = t]
    BY <1>5 DEF dictReplace, a, f, t
  <2>6. /\ Good(dictReplace(h, k, v)) /\ dictReplace(h, k, v).iterators = f.iterators
        /\ All(dictReplace(h, k, v)) = Entries(t) \cup Entries(f.ht1)
    BY <1>2, <2>1, <2>2, <2>4, <2>5, Update0OK
  <2>7. \A e \in Entries(f.ht1) : e.key # k
    BY <2>1, <2>3 DEF Apart
  <2>8. All(f) = All(h)
    BY <1>1, <1>2, <1>5
  <2>9. All(dictReplace(h, k, v)) = {e \in All(h) : e.key # k} \cup {n}
    BY <2>2, <2>6, <2>7, <2>8 DEF All
  <2>10. QED
    BY <1>2, <2>6, <2>9 DEF Becomes, n
<1>6. CASE Found(Prepared(h), k) # {} /\ Matching(f.ht0, k) = {}
  <2> DEFINE t == SetVal(f.ht1, k, v)
  <2>1. TableOK(f.ht0) /\ TableOK(f.ht1) /\ Apart(f)
    BY <1>2 DEF Good
  <2>2. All(f) = All(h)
    BY <1>1, <1>2, <1>6
  <2>3. Matching(f.ht1, k) # {} /\ dictIsRehashing(f)
    BY <1>1, <1>2, <1>6, <2>2, FoundIsExact
  <2>4. /\ TableOK(t) /\ t.size = f.ht1.size
        /\ Entries(t) = {e \in Entries(f.ht1) : e.key # k} \cup {n}
    BY <2>1, <2>3, SetValOK DEF n
  <2> HIDE DEF t
  <2>5. \A e \in Entries(f.ht0) : e.key # k
    BY <1>6, <2>1, MatchingIsExact
  <2>6. \A e \in Entries(f.ht0), e2 \in Entries(t) : e.key # e2.key
    BY <1>3, <2>1, <2>4, <2>5 DEF Apart
  <2>7. dictReplace(h, k, v) = [f EXCEPT !.ht1 = t]
    BY <1>6 DEF dictReplace, a, f, t
  <2>8. /\ Good(dictReplace(h, k, v)) /\ dictReplace(h, k, v).iterators = f.iterators
        /\ All(dictReplace(h, k, v)) = Entries(f.ht0) \cup Entries(t)
    BY <1>2, <2>3, <2>4, <2>6, <2>7, Update1OK
  <2>9. All(dictReplace(h, k, v)) = {e \in All(h) : e.key # k} \cup {n}
    BY <2>2, <2>4, <2>5, <2>8 DEF All
  <2>10. QED
    BY <1>2, <2>8, <2>9 DEF Becomes, n
<1>7. QED
  BY <1>4, <1>5, <1>6

\* dictDelete removes what is stored under its key, and only that.
LEMMA DeleteOK ==
  ASSUME NEW h, Good(h), NEW k \in Keys
  PROVE  Becomes(h, dictDelete(h, k), {e \in All(h) : e.key # k})
<1> DEFINE s == dictLookup(h)
<1>1. Good(s) /\ All(s) = All(h) /\ s.iterators = h.iterators
  BY RehashStepOK DEF Same
<1> HIDE DEF s
<1>2. /\ Found(s, k) = {e \in All(h) : e.key = k}
      /\ TableOK(s.ht0) /\ TableOK(s.ht1) /\ Apart(s) /\ s.ht0.used \in Nat
  BY <1>1, FoundIsExact, GoodFields DEF Good
<1>3. CASE Found(s, k) = {}
  BY <1>1, <1>2, <1>3 DEF dictDelete, Becomes, s
<1>4. CASE Found(s, k) # {} /\ Matching(s.ht0, k) # {}
  <2> DEFINE t == Unlink(s.ht0, k)
  <2>1. /\ TableOK(t) /\ t.size = s.ht0.size /\ t.used < s.ht0.used
        /\ Entries(t) = {e \in Entries(s.ht0) : e.key # k}
        /\ \A b \in 0 .. s.ht0.size - 1 : s.ht0.table[b] = {} => t.table[b] = {}
    BY <1>2, <1>4, UnlinkOK
  <2> HIDE DEF t
  <2>2. PICK o \in Entries(s.ht0) : o.key = k
    BY <1>2, <1>4, MatchingIsExact
  <2>3. \A e \in Entries(t), e2 \in Entries(s.ht1) : e.key # e2.key
    BY <1>2, <2>1 DEF Apart
  <2>4. dictDelete(h, k) = [s EXCEPT !.ht0 = t]
    BY <1>4 DEF dictDelete, s, t
  <2>5. t.used \in Nat
    BY <2>1, TableType DEF TableOK
  <2>6. /\ Good(dictDelete(h, k)) /\ dictDelete(h, k).iterators = s.iterators
        /\ All(dictDelete(h, k)) = Entries(t) \cup Entries(s.ht1)
    BY <1>1, <1>2, <2>1, <2>3, <2>4, <2>5, Update0OK
  <2>7. \A e \in Entries(s.ht1) : e.key # k
    BY <1>2, <2>2 DEF Apart
  <2>8. All(dictDelete(h, k)) = {e \in All(h) : e.key # k}
    BY <1>1, <2>1, <2>6, <2>7 DEF All
  <2>9. QED
    BY <1>1, <2>6, <2>8 DEF Becomes
<1>5. CASE Found(s, k) # {} /\ Matching(s.ht0, k) = {}
  <2> DEFINE t == Unlink(s.ht1, k)
  <2>1. Matching(s.ht1, k) # {} /\ dictIsRehashing(s)
    BY <1>1, <1>5, FoundIsExact
  <2>2. /\ TableOK(t) /\ t.size = s.ht1.size
        /\ Entries(t) = {e \in Entries(s.ht1) : e.key # k}
    BY <1>2, <2>1, UnlinkOK
  <2> HIDE DEF t
  <2>3. \A e \in Entries(s.ht0) : e.key # k
    BY <1>2, <1>5, MatchingIsExact
  <2>4. \A e \in Entries(s.ht0), e2 \in Entries(t) : e.key # e2.key
    BY <1>2, <2>2 DEF Apart
  <2>5. dictDelete(h, k) = [s EXCEPT !.ht1 = t]
    BY <1>5 DEF dictDelete, s, t
  <2>6. /\ Good(dictDelete(h, k)) /\ dictDelete(h, k).iterators = s.iterators
        /\ All(dictDelete(h, k)) = Entries(s.ht0) \cup Entries(t)
    BY <1>1, <2>1, <2>2, <2>4, <2>5, Update1OK
  <2>7. All(dictDelete(h, k)) = {e \in All(h) : e.key # k}
    BY <1>1, <2>2, <2>3, <2>6 DEF All
  <2>8. QED
    BY <1>1, <2>6, <2>7 DEF Becomes
<1>6. QED
  BY <1>3, <1>4, <1>5
-----------------------------------------------------------------------------
(* The iterator.                                                           *)

IterType(i) ==
  i \in [open : BOOLEAN, table : {0, 1}, index : Nat \cup {-1},
         cur : Keys \cup {NoKey}, rest : SUBSET Keys]

\* Where dictNext goes on is a chain of keys, and once there the iterator counts
\* as begun.
LEMMA NextChainType ==
  ASSUME NEW h, Good(h), NEW i, IterType(i), i.rest # {} => Begun(i),
         NEW c, c = NextChain(h, i), c.chain # {}
  PROVE  /\ c.table \in {0, 1} /\ c.index \in Nat \cup {-1} /\ c.chain \subseteq Keys
         /\ ~ (c.index = -1 /\ c.table = 0)
<1>1. ASSUME NEW t, IsTable(t), NEW b \in Int, After(t, b) # {}
      PROVE  /\ Min(After(t, b)) \in Nat
             /\ {e.key : e \in t.table[Min(After(t, b))]} \subseteq Keys
  <2>1. After(t, b) \subseteq 0 .. t.size - 1 /\ t.size \in Nat
    BY <1>1, TableType DEF After
  <2>2. Min(After(t, b)) \in 0 .. t.size - 1
    BY <1>1, <2>1, MinIsLeast
  <2>3. QED
    BY <1>1, <2>1, <2>2, TableType DEF Entry
<1>2. IsTable(h.ht0) /\ IsTable(h.ht1) /\ i.index \in Int /\ i.table \in {0, 1}
      /\ i.index \in Nat \cup {-1} /\ i.rest \subseteq Keys
  BY DEF Good, IsDict, IterType
<1> DEFINE now == IF i.table = 0 THEN h.ht0 ELSE h.ht1
<1>3. IsTable(now)
  BY <1>2
<1> HIDE DEF now
<1>4. CASE i.rest # {}
  <2>1. c = [table |-> i.table, index |-> i.index, chain |-> i.rest]
    BY <1>4 DEF NextChain
  <2>2. QED
    BY <1>2, <1>4, <2>1 DEF Begun
<1>5. CASE i.rest = {} /\ After(now, i.index) # {}
  <2> DEFINE b == Min(After(now, i.index))
  <2>1. c = [table |-> i.table, index |-> b, chain |-> {e.key : e \in now.table[b]}]
    BY <1>5 DEF NextChain, now
  <2>2. b \in Nat /\ {e.key : e \in now.table[b]} \subseteq Keys
    BY <1>1, <1>2, <1>3, <1>5
  <2> HIDE DEF b
  <2>3. QED
    BY <1>2, <2>1, <2>2
<1>6. CASE i.rest = {} /\ After(now, i.index) = {}
  <2> DEFINE b == Min(After(h.ht1, -1))
  <2>1. /\ After(h.ht1, -1) # {}
        /\ c = [table |-> 1, index |-> b, chain |-> {e.key : e \in h.ht1.table[b]}]
    BY <1>6 DEF NextChain, now
  <2>2. b \in Nat /\ {e.key : e \in h.ht1.table[b]} \subseteq Keys
    BY <1>1, <1>2, <2>1
  <2> HIDE DEF b
  <2>3. QED
    BY <2>1, <2>2
<1>7. QED
  BY <1>4, <1>5, <1>6
-----------------------------------------------------------------------------
(* The invariant.                                                          *)

IterCount(h, i) == h.iterators = IF i.open /\ Begun(i) THEN 1 ELSE 0

Inv ==
  /\ Good(d)
  /\ IterType(it) /\ IterCount(d, it) /\ (it.rest # {} => Begun(it))
  /\ seen \subseteq Keys /\ owed \subseteq Keys

\* What is stored, is stored in one of the two tables.
LEMMA StoredIsAll ==
  ASSUME NEW h, Good(h)
  PROVE  StoredEntries(h) = All(h) /\ All(h) \subseteq Entry /\ StoredKeys(h) \subseteq Keys
<1>1. StoredEntries(h) = All(h)
  BY GoodFields DEF StoredEntries, All
<1>2. All(h) \subseteq Entry
  BY TableFinite DEF Good, TableOK, All
<1>3. QED
  BY <1>1, <1>2 DEF StoredKeys, Entry

LEMMA InitOK == Init => Inv
<1> SUFFICES ASSUME Init PROVE Inv
  OBVIOUS
<1>1. TableOK(NewTable(0)) /\ Entries(NewTable(0)) = {}
  BY NewTableOK
<1>2. Good(EmptyDict) /\ EmptyDict.iterators = 0
  BY <1>1 DEF Good, EmptyDict, IsDict, TableOK, Apart, RehashBounds, dictIsRehashing
<1>3. QED
  BY <1>2 DEF Init, Inv, IterType, IterCount, NoIter, Begun

\* Every action preserves the invariant.
LEMMA NextOK == Inv /\ [Next]_vars => Inv'
<1> SUFFICES ASSUME Inv, [Next]_vars PROVE Inv'
  OBVIOUS
<1> USE DEF Inv
<1>1. ASSUME NEW k \in Keys, NEW v \in Vals, Add(k, v) PROVE Inv'
  <2>1. Good(d') /\ d'.iterators = d.iterators
    BY <1>1, AddOK DEF Add, Becomes
  <2>2. QED
    BY <1>1, <2>1 DEF Add, IterCount
<1>2. ASSUME NEW k \in Keys, NEW v \in Vals, Replace(k, v) PROVE Inv'
  <2>1. Good(d') /\ d'.iterators = d.iterators
    BY <1>2, ReplaceOK DEF Replace, Becomes
  <2>2. QED
    BY <1>2, <2>1 DEF Replace, IterCount
<1>3. ASSUME NEW k \in Keys, Fetch(k) PROVE Inv'
  <2>1. Good(d') /\ d'.iterators = d.iterators
    BY <1>3, RehashStepOK DEF Fetch, Same
  <2>2. QED
    BY <1>3, <2>1 DEF Fetch, IterCount
<1>4. ASSUME NEW k \in Keys, Delete(k) PROVE Inv'
  <2>1. Good(d') /\ d'.iterators = d.iterators
    BY <1>4, DeleteOK DEF Delete, Becomes
  <2>2. QED
    BY <1>4, <2>1 DEF Delete, IterCount
<1>5. CASE GetRandomKey
  <2>1. Good(d') /\ d'.iterators = d.iterators
    BY <1>5, RehashStepOK DEF GetRandomKey, Same
  <2>2. QED
    BY <1>5, <2>1 DEF GetRandomKey, IterCount
<1>6. CASE Empty
  <2>1. TableOK(NewTable(0)) /\ Entries(NewTable(0)) = {}
    BY NewTableOK
  <2>2. Good(d') /\ d'.iterators = 0
    BY <1>6, <2>1 DEF Empty, Good, EmptyDict, IsDict, TableOK, Apart, RehashBounds,
                      dictIsRehashing
  <2>3. QED
    BY <1>6, <2>2 DEF Empty, IterCount
<1>7. CASE Resize
  <2>1. Good(d') /\ d'.iterators = d.iterators
    BY <1>7, ResizeOK DEF Resize, Same
  <2>2. QED
    BY <1>7, <2>1 DEF Resize, IterCount
<1>8. CASE RehashMilliseconds
  <2>1. Good(d') /\ d'.iterators = d.iterators
    BY <1>8, RehashOK, TuningAssumption DEF RehashMilliseconds, Same
  <2>2. QED
    BY <1>8, <2>1 DEF RehashMilliseconds, IterCount
<1>9. CASE IterStart
  <2>1. IterType(it') /\ ~ Begun(it') /\ it'.rest = {} /\ d.iterators = 0
    BY <1>9 DEF IterStart, IterType, NoIter, Begun, IterCount
  <2>2. owed' \subseteq Keys /\ seen' \subseteq Keys
    BY <1>9, StoredIsAll DEF IterStart
  <2>3. QED
    BY <1>9, <2>1, <2>2 DEF IterStart, IterCount
<1>10. CASE IterNext
  <2> DEFINE c == NextChain(d, it)
  <2>1. PICK k \in c.chain :
          /\ it' = [it EXCEPT !.table = c.table, !.index = c.index,
                              !.cur = k, !.rest = c.chain \ {k}]
          /\ seen' = seen \cup {k}
    BY <1>10 DEF IterNext
  <2>2. /\ c.table \in {0, 1} /\ c.index \in Nat \cup {-1} /\ c.chain \subseteq Keys
        /\ ~ (c.index = -1 /\ c.table = 0)
    BY <2>1, NextChainType
  <2> HIDE DEF c
  <2>3. IterType(it') /\ Begun(it') /\ it'.open
    BY <1>10, <2>1, <2>2 DEF IterNext, IterType, Begun
  <2>4. Good(d') /\ d'.iterators = 1
    <3>1. CASE Begun(it)
      BY <1>10, <3>1 DEF IterNext, IterCount
    <3>2. CASE ~ Begun(it)
      <4>1. /\ d' = [d EXCEPT !.iterators = 0 + 1]
            /\ d = [ht0 |-> d.ht0, ht1 |-> d.ht1,
                    rehashidx |-> d.rehashidx, iterators |-> d.iterators]
        BY <1>10, <3>2 DEF IterNext, IterCount, Good, IsDict
      <4>2. d' = [ht0 |-> d.ht0, ht1 |-> d.ht1,
                  rehashidx |-> d.rehashidx, iterators |-> 1]
        BY <4>1
      <4>3. QED
        BY <4>2 DEF Good, IsDict, Apart, RehashBounds, dictIsRehashing
    <3>3. QED
      BY <3>1, <3>2
  <2>5. seen' \subseteq Keys /\ owed' \subseteq Keys
    BY <1>10, <2>1, <2>2 DEF IterNext
  <2>6. QED
    BY <2>3, <2>4, <2>5 DEF IterCount
<1>11. CASE IterEnd
  <2>1. it' = NoIter /\ IterType(it') /\ it'.rest = {} /\ ~ it'.open
    BY <1>11 DEF IterEnd, IterType, NoIter
  <2>2. Good(d') /\ d'.iterators = 0
    <3>1. CASE Begun(it)
      <4>1. /\ d' = [d EXCEPT !.iterators = 1 - 1]
            /\ d = [ht0 |-> d.ht0, ht1 |-> d.ht1,
                    rehashidx |-> d.rehashidx, iterators |-> d.iterators]
        BY <1>11, <3>1 DEF IterEnd, IterCount, Good, IsDict
      <4>2. d' = [ht0 |-> d.ht0, ht1 |-> d.ht1,
                  rehashidx |-> d.rehashidx, iterators |-> 0]
        BY <4>1
      <4>3. QED
        BY <4>2 DEF Good, IsDict, Apart, RehashBounds, dictIsRehashing
    <3>2. CASE ~ Begun(it)
      BY <1>11, <3>2 DEF IterEnd, IterCount
    <3>3. QED
      BY <3>1, <3>2
  <2>3. QED
    BY <1>11, <2>1, <2>2 DEF IterEnd, IterCount
<1>12. CASE UNCHANGED vars
  BY <1>12 DEF vars, IterCount, IterType, Begun
<1>13. QED
  BY <1>1, <1>2, <1>3, <1>4, <1>5, <1>6, <1>7, <1>8, <1>9, <1>10, <1>11, <1>12 DEF Next
-----------------------------------------------------------------------------
(* The theorems.                                                           *)

\* The invariant holds in every state of every behaviour.
THEOREM Invariance == Spec => []Inv
<1>1. Init => Inv
  BY InitOK
<1>2. Inv /\ [Next]_vars => Inv'
  BY NextOK
<1>3. QED
  BY <1>1, <1>2, PTL DEF Spec

\* The variables always have their types: in particular no count of entries
\* drops below zero and rehashidx never below -1.
THEOREM TypeCorrect == Spec => []TypeOK
<1>1. Inv => TypeOK
  BY DEF Inv, TypeOK, Good, IterType
<1>2. QED
  BY <1>1, Invariance, PTL

\* No call at any stage of a rehash leaves an entry where no lookup finds it.
THEOREM NothingMisplaced == Spec => []Reachable
<1>1. Inv => Reachable
  BY DEF Inv, Reachable, Good, TableOK
<1>2. QED
  BY <1>1, Invariance, PTL

\* No key is ever stored twice, within a table or across the two.
THEOREM NoKeyTwice == Spec => []KeysUnique
<1>1. Inv => KeysUnique
  BY DEF Inv, KeysUnique, Good, TableOK
<1>2. QED
  BY <1>1, Invariance, PTL

\* The used fields count the entries, so that the test used = 0 that ends a
\* rehash never drops an entry.
THEOREM CountsExact == Spec => []UsedExact
<1>1. Inv => UsedExact
  BY DEF Inv, UsedExact, Good, TableOK
<1>2. QED
  BY <1>1, Invariance, PTL

\* The assert of dictRehash never fires and its search for an occupied bucket
\* never leaves the table.
THEOREM RehashInBounds == Spec => []RehashSound
<1>1. Inv => RehashSound
  BY DEF Inv, RehashSound, Good
<1>2. QED
  BY <1>1, Invariance, PTL

-----------------------------------------------------------------------------
(* What is ahead of an iterator, told by hashes instead of buckets.        *)

\* The keys of table t whose buckets come after bucket b.
Later(t, b) == {k \in KeysOf(t) : Index(t.size, k) > b}

\* The table iterator i is in.
Now(h, i) == IF i.table = 0 THEN h.ht0 ELSE h.ht1

\* What iterator i over h will still return if nothing else happens.
AheadOf(h, i) ==
  i.rest \cup Later(Now(h, i), i.index) \cup
    (IF i.table = 0 THEN KeysOf(h.ht1) ELSE {})

\* The rest of the chain an iterator is in lies between what it has passed and
\* the buckets to come.
RestOK(h, i) == i.rest \subseteq KeysOf(Now(h, i)) \ Later(Now(h, i), i.index)

\* The invariant of an iteration: what is claimed of it, and that what was
\* returned is still stored, that the rest of a chain is where the iterator is,
\* and that nothing is returned before the first dictNext.
IterInv ==
  it.open =>
    /\ owed \subseteq seen \cup AheadOf(d, it)
    /\ seen \cap AheadOf(d, it) = {}
    /\ seen \subseteq StoredKeys(d)
    /\ RestOK(d, it)
    /\ it.cur \notin it.rest
    /\ ~ Begun(it) => seen = {}

\* The keys in the buckets after b are the keys that hash behind b.
LEMMA LaterIs ==
  ASSUME NEW t, TableOK(t), NEW b \in Nat \cup {-1}
  PROVE  UNION {{e.key : e \in t.table[c]} : c \in After(t, b)} = Later(t, b)
<1> DEFINE K == UNION {{e.key : e \in t.table[c]} : c \in After(t, b)}
<1>1. ASSUME NEW k
      PROVE  k \in K <=> \E c \in 0 .. t.size - 1 : c > b /\ \E e \in t.table[c] : k = e.key
  BY DEF After
<1>2. ASSUME NEW k
      PROVE  k \in Later(t, b) <=>
               /\ \E c \in 0 .. t.size - 1 : \E e \in t.table[c] : k = e.key
               /\ Index(t.size, k) > b
  BY DEF Later, KeysOf, Entries
<1>3. \A c \in 0 .. t.size - 1 : \A e \in t.table[c] : Index(t.size, e.key) = c
  BY DEF TableOK, Placed
<1> HIDE DEF K
<1>4. ASSUME NEW k PROVE k \in K <=> k \in Later(t, b)
  BY <1>1, <1>2, <1>3
<1>5. K = Later(t, b)
  BY <1>4
<1>6. QED
  BY <1>5 DEF K

\* A key of a table with buckets hashes to one of them.
LEMMA KeysIndex ==
  ASSUME NEW t, TableOK(t), NEW k \in KeysOf(t)
  PROVE  t.size \in Nat \ {0} /\ k \in Keys /\ Index(t.size, k) \in 0 .. t.size - 1
<1>1. PICK c \in 0 .. t.size - 1 : \E e \in t.table[c] : k = e.key
  BY DEF KeysOf, Entries
<1>2. t.size \in Nat /\ Entries(t) \subseteq Entry
  BY TableType, TableFinite DEF TableOK
<1>3. k \in Keys
  BY <1>2 DEF KeysOf, Entry
<1>4. QED
  BY <1>1, <1>2, <1>3, IndexBound

\* All keys lie behind bucket -1.
LEMMA LaterAll ==
  ASSUME NEW t, TableOK(t)
  PROVE  Later(t, -1) = KeysOf(t)
<1>1. \A k \in KeysOf(t) : Index(t.size, k) > -1
  <2> SUFFICES ASSUME NEW k \in KeysOf(t) PROVE Index(t.size, k) > -1
    OBVIOUS
  <2>1. t.size \in Nat /\ Index(t.size, k) \in 0 .. t.size - 1
    BY KeysIndex
  <2>2. QED
    BY <2>1
<1>2. QED
  BY <1>1 DEF Later

\* Ahead, as the model states it bucket by bucket, is AheadOf.
LEMMA AheadIs ==
  ASSUME Good(d), IterType(it)
  PROVE  Ahead = AheadOf(d, it)
<1> DEFINE KeysIn(t, b) == UNION {{e.key : e \in t.table[c]} : c \in After(t, b)}
           now == IF it.table = 0 THEN d.ht0 ELSE d.ht1
<1>1. TableOK(d.ht0) /\ TableOK(d.ht1) /\ TableOK(now)
  BY DEF Good
<1>2. it.index \in Nat \cup {-1}
  BY DEF IterType
<1>3. KeysIn(now, it.index) = Later(now, it.index)
  BY <1>1, <1>2, LaterIs
<1>4. KeysIn(d.ht1, -1) = KeysOf(d.ht1)
  BY <1>1, LaterIs, LaterAll
<1>5. ~ dictIsRehashing(d) => KeysOf(d.ht1) = {}
  BY GoodFields DEF KeysOf
<1>6. Ahead = it.rest \cup KeysIn(now, it.index) \cup
                (IF it.table = 0 /\ dictIsRehashing(d) THEN KeysIn(d.ht1, -1) ELSE {})
  BY DEF Ahead
<1> HIDE DEF KeysIn
<1>7. AheadOf(d, it) = it.rest \cup Later(now, it.index) \cup
                         (IF it.table = 0 THEN KeysOf(d.ht1) ELSE {})
  BY DEF AheadOf, Now
<1> HIDE DEF now
<1>8. QED
  BY <1>3, <1>4, <1>5, <1>6, <1>7

\* Nothing but stored keys is ahead, and before the first dictNext all are.
LEMMA AheadStored ==
  ASSUME NEW h, Good(h), NEW i, IterType(i), RestOK(h, i)
  PROVE  /\ StoredKeys(h) = KeysOf(h.ht0) \cup KeysOf(h.ht1)
         /\ AheadOf(h, i) \subseteq StoredKeys(h)
         /\ ~ Begun(i) => AheadOf(h, i) = StoredKeys(h)
<1>1. StoredKeys(h) = KeysOf(h.ht0) \cup KeysOf(h.ht1)
  <2>1. StoredEntries(h) = All(h)
    BY StoredIsAll
  <2>2. QED
    BY <2>1 DEF StoredKeys, All, KeysOf
<1>2. AheadOf(h, i) \subseteq StoredKeys(h)
  BY <1>1 DEF AheadOf, RestOK, Now, Later
<1>3. ASSUME ~ Begun(i) PROVE AheadOf(h, i) = StoredKeys(h)
  <2>1. i.table = 0 /\ i.index = -1
    BY <1>3 DEF Begun
  <2>2. Later(h.ht0, -1) = KeysOf(h.ht0)
    BY LaterAll DEF Good
  <2>3. KeysOf(h.ht0) \cup KeysOf(h.ht1) \subseteq AheadOf(h, i)
    BY <2>1, <2>2 DEF AheadOf, Now
  <2>4. QED
    BY <2>3, <1>1, <1>2
<1>4. QED
  BY <1>1, <1>2, <1>3
-----------------------------------------------------------------------------
(* The calls under an open iterator.                                       *)

\* Table u differs from t in the keys D only, and the others hash to the same
\* buckets.
Near(t, u, D) ==
  /\ KeysOf(t) \ D = KeysOf(u) \ D
  /\ u.size = t.size \/ KeysOf(t) = {}

\* Such a change leaves what is ahead as it is, but for D.
LEMMA AheadNear ==
  ASSUME NEW h, NEW g, NEW D, Near(h.ht0, g.ht0, D), Near(h.ht1, g.ht1, D),
         NEW i, D \cap i.rest = {}, RestOK(h, i)
  PROVE  RestOK(g, i) /\ AheadOf(g, i) \ D = AheadOf(h, i) \ D
<1>1. ASSUME NEW t, NEW u, Near(t, u, D), NEW b
      PROVE  Later(t, b) \ D = Later(u, b) \ D
  BY <1>1 DEF Near, Later
<1>2. /\ KeysOf(Now(h, i)) \ D = KeysOf(Now(g, i)) \ D
      /\ Later(Now(h, i), i.index) \ D = Later(Now(g, i), i.index) \ D
  <2>1. CASE i.table = 0
    BY <2>1, <1>1 DEF Now, Near
  <2>2. CASE i.table # 0
    BY <2>2, <1>1 DEF Now, Near
  <2>3. QED
    BY <2>1, <2>2
<1>3. KeysOf(h.ht1) \ D = KeysOf(g.ht1) \ D
  BY DEF Near
<1>4. RestOK(g, i)
  BY <1>2 DEF RestOK
<1>5. AheadOf(g, i) \ D = AheadOf(h, i) \ D
  BY <1>2, <1>3 DEF AheadOf
<1>6. QED
  BY <1>4, <1>5

\* dictExpandIfNeeded moves nothing: it adds an empty second table, or gives an
\* empty dictionary its first buckets.
LEMMA ExpandNear ==
  ASSUME NEW h, Good(h), NEW n
  PROVE  /\ Near(h.ht0, dictExpand(h, n).ht0, {})
         /\ Near(h.ht1, dictExpand(h, n).ht1, {})
<1> DEFINE new == NewTable(NextPower(n))
           g == dictExpand(h, n)
<1>1. KeysOf(new) = {}
  BY DEF KeysOf, Entries, NewTable
<1>2. h = [ht0 |-> h.ht0, ht1 |-> h.ht1,
           rehashidx |-> h.rehashidx, iterators |-> h.iterators]
  BY DEF Good, IsDict
<1> HIDE DEF new
<1>3. CASE dictIsRehashing(h) \/ h.ht0.used > n
  <2>1. g = h
    BY <1>3 DEF dictExpand
  <2>2. QED
    BY <2>1 DEF Near
<1>4. CASE ~ dictIsRehashing(h) /\ ~ (h.ht0.used > n) /\ h.ht0.size = 0
  <2>1. g = [h EXCEPT !.ht0 = new]
    BY <1>4 DEF dictExpand, new
  <2>2. g.ht0 = new /\ g.ht1 = h.ht1
    BY <2>1, <1>2
  <2>3. KeysOf(h.ht0) = {}
    BY <1>4 DEF KeysOf, Entries
  <2>4. QED
    BY <2>2, <2>3, <1>1 DEF Near
<1>5. CASE ~ dictIsRehashing(h) /\ ~ (h.ht0.used > n) /\ h.ht0.size # 0
  <2>1. g.ht0 = h.ht0 /\ g.ht1 = new
    BY <1>5 DEF dictExpand, new
  <2>2. KeysOf(h.ht1) = {}
    BY <1>5, GoodFields DEF KeysOf
  <2>3. QED
    BY <2>1, <2>2, <1>1 DEF Near
<1>6. QED
  BY <1>3, <1>4, <1>5

\* With an iterator open nothing is rehashed on the way to a lookup.
LEMMA PreparedNear ==
  ASSUME NEW h, Good(h), h.iterators = 1
  PROVE  Near(h.ht0, Prepared(h).ht0, {}) /\ Near(h.ht1, Prepared(h).ht1, {})
<1>1. dictRehashStep(h) = h
  BY DEF dictRehashStep
<1>2. Near(h.ht0, h.ht0, {}) /\ Near(h.ht1, h.ht1, {})
  BY DEF Near
<1>3. QED
  BY <1>1, <1>2, ExpandNear DEF Prepared, dictExpandIfNeeded

\* What dictAdd changes: the one key, if it is new.
NewKey(h, k) == IF Found(Prepared(h), k) = {} THEN {k} ELSE {}

\* dictAdd changes the tables in the new key only.
LEMMA AddNear ==
  ASSUME NEW h, Good(h), h.iterators = 1, NEW k \in Keys, NEW v \in Vals
  PROVE  /\ Near(h.ht0, dictAdd(h, k, v).ht0, NewKey(h, k))
         /\ Near(h.ht1, dictAdd(h, k, v).ht1, NewKey(h, k))
<1> DEFINE p == Prepared(h)
           e == [key |-> k, val |-> v]
           g == dictAdd(h, k, v)
<1>1. /\ Good(p) /\ p.ht0.size # 0
      /\ p = [ht0 |-> p.ht0, ht1 |-> p.ht1,
              rehashidx |-> p.rehashidx, iterators |-> p.iterators]
  BY PreparedOK DEF Same, Good, IsDict
<1>2. Near(h.ht0, p.ht0, {}) /\ Near(h.ht1, p.ht1, {})
  BY PreparedNear
<1>3. e \in Entry /\ e.key = k
  BY DEF Entry
<1>4. TableOK(p.ht0) /\ TableOK(p.ht1)
  BY <1>1 DEF Good
<1>5. Found(p, k) = {} => k \notin KeysOf(p.ht0) /\ k \notin KeysOf(p.ht1)
  <2>1. Found(p, k) = {f \in All(p) : f.key = k}
    BY <1>1, FoundIsExact
  <2>2. QED
    BY <2>1 DEF All, KeysOf
<1>6. dictIsRehashing(p) => p.ht1.size # 0
  BY <1>1, GoodFields
<1>7. g = IF Found(p, k) # {} THEN p
          ELSE IF dictIsRehashing(p) THEN [p EXCEPT !.ht1 = Link(p.ht1, e)]
          ELSE [p EXCEPT !.ht0 = Link(p.ht0, e)]
  BY DEF dictAdd
<1> HIDE DEF p, e, g
<1>8. CASE Found(p, k) # {}
  BY <1>2, <1>7, <1>8 DEF NewKey, p, g
<1>9. ASSUME NEW t, TableOK(t), t.size # 0, k \notin KeysOf(t)
      PROVE  KeysOf(Link(t, e)) = KeysOf(t) \cup {k} /\ Link(t, e).size = t.size
  <2>1. /\ Entries(Link(t, e)) = Entries(t) \cup {e}
        /\ Link(t, e).size = t.size
    BY <1>3, <1>9, LinkOK
  <2>2. QED
    BY <2>1, <1>3 DEF KeysOf
<1>10. CASE Found(p, k) = {} /\ dictIsRehashing(p)
  <2>1. g.ht0 = p.ht0 /\ g.ht1 = Link(p.ht1, e)
    BY <1>1, <1>7, <1>10
  <2>2. KeysOf(g.ht1) = KeysOf(p.ht1) \cup {k} /\ g.ht1.size = p.ht1.size
    BY <2>1, <1>4, <1>5, <1>6, <1>9, <1>10
  <2>3. NewKey(h, k) = {k}
    BY <1>10 DEF NewKey, p
  <2>4. QED
    BY <2>1, <2>2, <2>3, <1>2 DEF Near, g
<1>11. CASE Found(p, k) = {} /\ ~ dictIsRehashing(p)
  <2>1. g.ht1 = p.ht1 /\ g.ht0 = Link(p.ht0, e)
    BY <1>1, <1>7, <1>11
  <2>2. KeysOf(g.ht0) = KeysOf(p.ht0) \cup {k} /\ g.ht0.size = p.ht0.size
    BY <2>1, <1>1, <1>4, <1>5, <1>9, <1>11
  <2>3. NewKey(h, k) = {k}
    BY <1>11 DEF NewKey, p
  <2>4. QED
    BY <2>1, <2>2, <2>3, <1>2 DEF Near, g
<1>12. QED
  BY <1>8, <1>10, <1>11

\* Overwriting a value changes no key.
LEMMA SetValKeys ==
  ASSUME NEW t, TableOK(t), NEW k \in Keys, NEW v \in Vals, Matching(t, k) # {}
  PROVE  KeysOf(SetVal(t, k, v)) = KeysOf(t) /\ SetVal(t, k, v).size = t.size
<1> DEFINE n == [key |-> k, val |-> v]
<1>1. /\ Entries(SetVal(t, k, v)) = {e \in Entries(t) : e.key # k} \cup {n}
      /\ SetVal(t, k, v).size = t.size
  BY SetValOK
<1>2. PICK o \in Entries(t) : o.key = k
  BY MatchingIsExact
<1>3. n.key = k
  OBVIOUS
<1> HIDE DEF n
<1>4. QED
  BY <1>1, <1>2, <1>3 DEF KeysOf

\* So does dictReplace: an overwritten value leaves the keys alone.
LEMMA ReplaceNear ==
  ASSUME NEW h, Good(h), h.iterators = 1, NEW k \in Keys, NEW v \in Vals
  PROVE  /\ Near(h.ht0, dictReplace(h, k, v).ht0, NewKey(h, k))
         /\ Near(h.ht1, dictReplace(h, k, v).ht1, NewKey(h, k))
<1> DEFINE a == dictAdd(h, k, v)
           g == dictReplace(h, k, v)
<1>1. /\ Good(a) /\ a.iterators = 1
      /\ Found(Prepared(h), k) # {} => All(a) = All(h)
      /\ Found(Prepared(h), k) = {e \in All(h) : e.key = k}
      /\ a = [ht0 |-> a.ht0, ht1 |-> a.ht1,
              rehashidx |-> a.rehashidx, iterators |-> a.iterators]
  BY AddOK DEF Becomes, Good, IsDict
<1>2. Near(h.ht0, a.ht0, NewKey(h, k)) /\ Near(h.ht1, a.ht1, NewKey(h, k))
  BY AddNear
<1>3. dictRehashStep(a) = a
  BY <1>1 DEF dictRehashStep
<1>4. g = IF Found(Prepared(h), k) = {} THEN a
          ELSE IF Matching(a.ht0, k) # {} THEN [a EXCEPT !.ht0 = SetVal(a.ht0, k, v)]
          ELSE [a EXCEPT !.ht1 = SetVal(a.ht1, k, v)]
  BY <1>3 DEF dictReplace
<1>5. TableOK(a.ht0) /\ TableOK(a.ht1)
  BY <1>1 DEF Good
<1> HIDE DEF a, g
<1>6. CASE Found(Prepared(h), k) = {}
  BY <1>2, <1>4, <1>6 DEF g
<1>7. CASE Found(Prepared(h), k) # {} /\ Matching(a.ht0, k) # {}
  <2>1. g.ht0 = SetVal(a.ht0, k, v) /\ g.ht1 = a.ht1
    BY <1>1, <1>4, <1>7
  <2>2. KeysOf(g.ht0) = KeysOf(a.ht0) /\ g.ht0.size = a.ht0.size
    BY <2>1, <1>5, <1>7, SetValKeys
  <2>3. QED
    BY <2>1, <2>2, <1>2 DEF Near, g
<1>8. CASE Found(Prepared(h), k) # {} /\ Matching(a.ht0, k) = {}
  <2>1. g.ht1 = SetVal(a.ht1, k, v) /\ g.ht0 = a.ht0
    BY <1>1, <1>4, <1>8
  <2>2. Matching(a.ht1, k) # {}
    <3>1. Found(a, k) # {}
      BY <1>1, <1>8, FoundIsExact
    <3>2. QED
      BY <3>1, <1>1, <1>8, FoundIsExact
  <2>3. KeysOf(g.ht1) = KeysOf(a.ht1) /\ g.ht1.size = a.ht1.size
    BY <2>1, <2>2, <1>5, SetValKeys
  <2>4. QED
    BY <2>1, <2>3, <1>2 DEF Near, g
<1>9. QED
  BY <1>6, <1>7, <1>8

\* dictDelete changes the tables in the deleted key only.
LEMMA DeleteNear ==
  ASSUME NEW h, Good(h), h.iterators = 1, NEW k \in Keys
  PROVE  /\ Near(h.ht0, dictDelete(h, k).ht0, {k})
         /\ Near(h.ht1, dictDelete(h, k).ht1, {k})
<1> DEFINE g == dictDelete(h, k)
<1>1. dictLookup(h) = h
  BY DEF dictLookup, dictRehashStep
<1>2. /\ TableOK(h.ht0) /\ TableOK(h.ht1)
      /\ h = [ht0 |-> h.ht0, ht1 |-> h.ht1,
              rehashidx |-> h.rehashidx, iterators |-> h.iterators]
  BY DEF Good, IsDict
<1>3. g = IF Found(h, k) = {} THEN h
          ELSE IF Matching(h.ht0, k) # {} THEN [h EXCEPT !.ht0 = Unlink(h.ht0, k)]
          ELSE [h EXCEPT !.ht1 = Unlink(h.ht1, k)]
  BY <1>1 DEF dictDelete
<1> HIDE DEF g
<1>4. ASSUME NEW t, TableOK(t), Matching(t, k) # {}
      PROVE  Near(t, Unlink(t, k), {k})
  <2>1. /\ Entries(Unlink(t, k)) = {e \in Entries(t) : e.key # k}
        /\ Unlink(t, k).size = t.size
    BY <1>4, UnlinkOK
  <2>2. QED
    BY <2>1 DEF Near, KeysOf
<1>5. Near(h.ht0, h.ht0, {k}) /\ Near(h.ht1, h.ht1, {k})
  BY DEF Near
<1>6. CASE Found(h, k) = {}
  BY <1>3, <1>5, <1>6 DEF g
<1>7. CASE Found(h, k) # {} /\ Matching(h.ht0, k) # {}
  <2>1. g.ht0 = Unlink(h.ht0, k) /\ g.ht1 = h.ht1
    BY <1>2, <1>3, <1>7
  <2>2. QED
    BY <2>1, <1>2, <1>4, <1>5, <1>7 DEF g
<1>8. CASE Found(h, k) # {} /\ Matching(h.ht0, k) = {}
  <2>1. g.ht1 = Unlink(h.ht1, k) /\ g.ht0 = h.ht0
    BY <1>2, <1>3, <1>8
  <2>2. Matching(h.ht1, k) # {}
    BY <1>8, FoundIsExact
  <2>3. QED
    BY <2>1, <2>2, <1>2, <1>4, <1>5 DEF g
<1>9. QED
  BY <1>6, <1>7, <1>8
-----------------------------------------------------------------------------
(* The steps of the iterator.                                              *)

KeysAt(t, b) == {e.key : e \in t.table[b]}
FirstAfter(t, x) == Min(After(t, x))

\* The next occupied bucket splits what is later into its keys and the rest.
LEMMA BucketSplits ==
  ASSUME NEW t, TableOK(t), NEW x \in Nat \cup {-1}, After(t, x) # {}
  PROVE  LET b == FirstAfter(t, x)
         IN  /\ Later(t, x) = KeysAt(t, b) \cup Later(t, b)
             /\ KeysAt(t, b) \cap Later(t, b) = {}
             /\ KeysAt(t, b) \subseteq KeysOf(t) /\ KeysAt(t, b) # {}
             /\ b \in Nat
<1> DEFINE b == FirstAfter(t, x)
           K == KeysAt(t, b)
<1>1. t.size \in Nat
  BY TableType DEF TableOK
<1>2. /\ b \in 0 .. t.size - 1 /\ b > x /\ t.table[b] # {}
      /\ \A c \in 0 .. t.size - 1 : c > x /\ t.table[c] # {} => b <= c
  <2>1. After(t, x) \subseteq Nat
    BY <1>1 DEF After
  <2>2. b \in After(t, x) /\ \A c \in After(t, x) : b <= c
    BY <2>1, MinIsLeast DEF FirstAfter
  <2>3. QED
    BY <2>2 DEF After
<1>0. \A k : k \in K <=> \E e \in t.table[b] : k = e.key
  BY DEF KeysAt
<1> HIDE DEF b, K
<1>3. ASSUME NEW k
      PROVE  k \in KeysOf(t) <=> \E c \in 0 .. t.size - 1 : \E e \in t.table[c] : k = e.key
  BY DEF KeysOf, Entries
<1>4. \A c \in 0 .. t.size - 1 : \A e \in t.table[c] : Index(t.size, e.key) = c
  BY DEF TableOK, Placed
<1>5. ASSUME NEW k PROVE k \in Later(t, x) <=> k \in K \cup Later(t, b)
  BY <1>0, <1>1, <1>2, <1>3, <1>4 DEF Later
<1>6. ASSUME NEW k \in K PROVE k \notin Later(t, b) /\ k \in KeysOf(t)
  BY <1>0, <1>1, <1>2, <1>3, <1>4 DEF Later
<1>7. b \in Nat /\ K # {}
  BY <1>0, <1>1, <1>2
<1>8. QED
  BY <1>5, <1>6, <1>7 DEF b, K

\* Without a next bucket nothing is later.
LEMMA NothingLater ==
  ASSUME NEW t, TableOK(t), NEW x \in Nat \cup {-1}, After(t, x) = {}
  PROVE  Later(t, x) = {}
<1>1. \A c \in 0 .. t.size - 1 : c > x => t.table[c] = {}
  BY DEF After
<1>2. ASSUME NEW k \in Later(t, x) PROVE FALSE
  <2>1. PICK c \in 0 .. t.size - 1 : \E e \in t.table[c] : k = e.key
    BY DEF Later, KeysOf, Entries
  <2>2. Index(t.size, k) = c /\ Index(t.size, k) > x
    BY <2>1 DEF TableOK, Placed, Later
  <2>3. QED
    BY <2>1, <2>2, <1>1
<1>3. QED
  BY <1>2

\* What is behind the position an iterator goes on to.
Behind(h, c) ==
  Later(Now(h, c), c.index) \cup (IF c.table = 0 THEN KeysOf(h.ht1) ELSE {})

\* dictNext goes on in what is ahead and leaves nothing of it behind.
LEMMA NextChainSplits ==
  ASSUME NEW h, Good(h), NEW i, IterType(i), RestOK(h, i),
         NEW c, c = NextChain(h, i)
  PROVE  /\ c.chain = {} => AheadOf(h, i) = {}
         /\ c.chain # {} =>
              /\ AheadOf(h, i) = c.chain \cup Behind(h, c)
              /\ c.chain \cap Behind(h, c) = {}
              /\ c.chain \subseteq KeysOf(Now(h, c)) \ Later(Now(h, c), c.index)
<1> DEFINE now == Now(h, i)
<1>1. /\ i.index \in Nat \cup {-1} /\ i.table \in {0, 1}
      /\ TableOK(h.ht0) /\ TableOK(h.ht1) /\ TableOK(now)
  BY DEF Good, IterType, Now
<1>2. \A k \in KeysOf(h.ht0) : k \notin KeysOf(h.ht1)
  BY DEF Good, Apart, KeysOf
<1>3. AheadOf(h, i) = i.rest \cup Later(now, i.index) \cup
                        (IF i.table = 0 THEN KeysOf(h.ht1) ELSE {})
  BY DEF AheadOf
<1>4. i.rest \subseteq KeysOf(now) \ Later(now, i.index)
  BY DEF RestOK
<1>5. i.table = 0 => now = h.ht0
  BY DEF Now
<1> HIDE DEF now
<1>6. CASE i.rest # {}
  <2>1. c.table = i.table /\ c.index = i.index /\ c.chain = i.rest
    BY <1>6 DEF NextChain
  <2>2. Now(h, c) = now
    BY <2>1 DEF Now, now
  <2>3. Behind(h, c) = Later(now, i.index) \cup
                         (IF i.table = 0 THEN KeysOf(h.ht1) ELSE {})
    BY <2>1, <2>2 DEF Behind
  <2>4. QED
    BY <2>1, <2>2, <2>3, <1>2, <1>3, <1>4, <1>5, <1>6
<1>7. CASE i.rest = {} /\ After(now, i.index) # {}
  <2> DEFINE b == FirstAfter(now, i.index)
             K == KeysAt(now, b)
  <2>1. c.table = i.table /\ c.index = b /\ c.chain = K
    BY <1>7 DEF NextChain, Now, now, FirstAfter, KeysAt
  <2>2. /\ Later(now, i.index) = K \cup Later(now, b) /\ K \cap Later(now, b) = {}
        /\ K \subseteq KeysOf(now) /\ K # {}
    BY <1>1, <1>7, BucketSplits
  <2> HIDE DEF b, K
  <2>3. Now(h, c) = now
    BY <2>1 DEF Now, now
  <2>4. Behind(h, c) = Later(now, b) \cup (IF i.table = 0 THEN KeysOf(h.ht1) ELSE {})
    BY <2>1, <2>3 DEF Behind
  <2>5. QED
    BY <2>1, <2>2, <2>3, <2>4, <1>2, <1>3, <1>5, <1>7
<1>8. CASE i.rest = {} /\ After(now, i.index) = {}
  <2>1. Later(now, i.index) = {}
    BY <1>1, <1>8, NothingLater
  <2>2. KeysOf(h.ht1) = Later(h.ht1, -1)
    BY <1>1, LaterAll
  <2>3. CASE i.table = 0 /\ dictIsRehashing(h) /\ After(h.ht1, -1) # {}
    <3> DEFINE b == FirstAfter(h.ht1, -1)
               K == KeysAt(h.ht1, b)
    <3>1. c.table = 1 /\ c.index = b /\ c.chain = K
      BY <1>8, <2>3 DEF NextChain, Now, now, FirstAfter, KeysAt
    <3>2. /\ Later(h.ht1, -1) = K \cup Later(h.ht1, b) /\ K \cap Later(h.ht1, b) = {}
          /\ K \subseteq KeysOf(h.ht1) /\ K # {}
      BY <1>1, <2>3, BucketSplits
    <3> HIDE DEF b, K
    <3>3. Now(h, c) = h.ht1 /\ Behind(h, c) = Later(h.ht1, b)
      BY <3>1 DEF Now, Behind
    <3>4. QED
      BY <3>1, <3>2, <3>3, <2>1, <2>2, <2>3, <1>3, <1>8
  <2>4. CASE ~ (i.table = 0 /\ dictIsRehashing(h) /\ After(h.ht1, -1) # {})
    <3>1. c.chain = {}
      BY <1>8, <2>4 DEF NextChain, Now, now
    <3>2. i.table = 0 => KeysOf(h.ht1) = {}
      <4>1. CASE ~ dictIsRehashing(h)
        BY <4>1, GoodFields DEF KeysOf
      <4>2. CASE After(h.ht1, -1) = {}
        BY <4>2, <2>2, <1>1, NothingLater
      <4>3. QED
        BY <4>1, <4>2, <2>4
    <3>3. QED
      BY <3>1, <3>2, <2>1, <1>3, <1>8
  <2>5. QED
    BY <2>3, <2>4
<1>9. QED
  BY <1>6, <1>7, <1>8
-----------------------------------------------------------------------------
(* The iteration.                                                          *)

\* A call that changes the tables in the keys D only, D neither returned nor
\* owed any more, keeps what is claimed of the iteration.  Before the first
\* dictNext it may also rehash.
LEMMA CallKeeps ==
  ASSUME Inv, IterInv, Inv', it' = it, it.open, NEW D,
         seen' = seen \ D, owed' = owed \ D,
         StoredKeys(d) \ D \subseteq StoredKeys(d'),
         Begun(it) => /\ Near(d.ht0, d'.ht0, D) /\ Near(d.ht1, d'.ht1, D)
                      /\ D \cap it.rest = {}
  PROVE  IterInv'
<1>1. /\ Good(d) /\ Good(d') /\ IterType(it) /\ IterType(it')
      /\ it.rest # {} => Begun(it)
  BY DEF Inv
<1>2. /\ owed \subseteq seen \cup AheadOf(d, it) /\ seen \cap AheadOf(d, it) = {}
      /\ seen \subseteq StoredKeys(d) /\ RestOK(d, it) /\ it.cur \notin it.rest
      /\ ~ Begun(it) => seen = {}
  BY DEF IterInv
<1>3. seen' \subseteq StoredKeys(d')
  BY <1>2
<1>4. CASE Begun(it)
  <2>1. RestOK(d', it) /\ AheadOf(d', it) \ D = AheadOf(d, it) \ D
    BY <1>2, <1>4, AheadNear
  <2>2. owed' \subseteq seen' \cup AheadOf(d', it)
    BY <1>2, <2>1
  <2>3. seen' \cap AheadOf(d', it) = {}
    BY <1>2, <2>1
  <2>4. QED
    BY <1>2, <1>3, <1>4, <2>1, <2>2, <2>3 DEF IterInv
<1>5. CASE ~ Begun(it)
  <2>1. it.rest = {} /\ seen = {} /\ seen' = {}
    BY <1>1, <1>2, <1>5
  <2>2. RestOK(d', it)
    BY <2>1 DEF RestOK
  <2>3. AheadOf(d, it) = StoredKeys(d)
    BY <1>1, <1>2, <1>5, AheadStored
  <2>4. AheadOf(d', it) = StoredKeys(d')
    BY <1>1, <1>5, <2>2, AheadStored
  <2>5. owed' \subseteq AheadOf(d', it)
    BY <1>2, <2>1, <2>3, <2>4
  <2>6. QED
    BY <1>2, <1>3, <2>1, <2>2, <2>5 DEF IterInv
<1>6. QED
  BY <1>4, <1>5

\* What an open iterator has begun with, the dictionary holds back for.
LEMMA Held ==
  ASSUME Inv, it.open, Begun(it)
  PROVE  d.iterators = 1 /\ dictRehashStep(d) = d /\ dictLookup(d) = d
  BY DEF Inv, IterCount, dictRehashStep, dictLookup

\* Two structures with equal entries store equal keys.
LEMMA KeysOfAll ==
  ASSUME NEW h, Good(h)
  PROVE  StoredKeys(h) = {e.key : e \in All(h)}
  BY StoredIsAll DEF StoredKeys

\* A key that dictAdd finds to be new is not stored.
LEMMA NewKeyIsNew ==
  ASSUME NEW h, Good(h), NEW k \in Keys
  PROVE  NewKey(h, k) \cap StoredKeys(h) = {}
<1>1. Found(Prepared(h), k) = {e \in All(h) : e.key = k}
  <2>1. Good(Prepared(h)) /\ All(Prepared(h)) = All(h)
    BY PreparedOK DEF Same
  <2>2. QED
    BY <2>1, FoundIsExact
<1>2. QED
  BY <1>1, KeysOfAll DEF NewKey

\* Every action keeps what is claimed of an open iteration.
LEMMA IterStepOK == Inv /\ IterInv /\ [Next]_vars => IterInv'
<1> SUFFICES ASSUME Inv, IterInv, [Next]_vars, it'.open PROVE IterInv'
  BY DEF IterInv
<1>1. Inv' /\ Good(d) /\ Good(d') /\ IterType(it)
  BY NextOK DEF Inv
<1>2. it.open =>
        /\ owed \subseteq StoredKeys(d) /\ seen \subseteq StoredKeys(d)
        /\ it.rest \subseteq StoredKeys(d) /\ it.cur \notin it.rest
  BY <1>1, AheadStored DEF IterInv, AheadOf
<1>3. ASSUME NEW k \in Keys, NEW v \in Vals, Add(k, v) \/ Replace(k, v) PROVE IterInv'
  <2> DEFINE D == NewKey(d, k)
  <2>1. /\ d' = dictAdd(d, k, v) \/ d' = dictReplace(d, k, v)
        /\ it' = it /\ seen' = seen /\ owed' = owed /\ it.open
    BY <1>3 DEF Add, Replace
  <2>2. StoredKeys(d) \subseteq StoredKeys(d')
    <3>1. \A e \in All(d) : \E f \in All(d') : f.key = e.key
      <4> DEFINE n == [key |-> k, val |-> v]
      <4>1. n.key = k
        OBVIOUS
      <4>2. CASE d' = dictAdd(d, k, v)
        <5>1. All(d') = All(d) \cup {n} \/ All(d') = All(d)
          BY <1>1, <4>2, AddOK DEF Becomes
        <5>2. QED
          BY <5>1
      <4>3. CASE d' = dictReplace(d, k, v)
        <5>1. All(d') = {e \in All(d) : e.key # k} \cup {n}
          BY <1>1, <4>3, ReplaceOK DEF Becomes
        <5> HIDE DEF n
        <5>2. QED
          BY <4>1, <5>1
      <4>4. QED
        BY <2>1, <4>2, <4>3
    <3>2. QED
      BY <1>1, <3>1, KeysOfAll
  <2>3. D \cap StoredKeys(d) = {}
    BY <1>1, NewKeyIsNew
  <2>4. Begun(it) => Near(d.ht0, d'.ht0, D) /\ Near(d.ht1, d'.ht1, D)
    BY <1>1, <2>1, Held, AddNear, ReplaceNear
  <2> HIDE DEF D
  <2>5. seen' = seen \ D /\ owed' = owed \ D /\ D \cap it.rest = {}
    BY <1>2, <2>1, <2>3
  <2>6. QED
    BY <1>1, <2>1, <2>2, <2>4, <2>5, CallKeeps
<1>4. ASSUME NEW k \in Keys, Delete(k) PROVE IterInv'
  <2>1. /\ d' = dictDelete(d, k) /\ it' = it /\ it.open /\ k = it.cur
        /\ seen' = seen \ {k} /\ owed' = owed \ {k}
    BY <1>4 DEF Delete
  <2>2. StoredKeys(d) \ {k} \subseteq StoredKeys(d')
    <3>1. All(d') = {e \in All(d) : e.key # k}
      BY <1>1, <2>1, DeleteOK DEF Becomes
    <3>2. QED
      BY <1>1, <3>1, KeysOfAll
  <2>3. Begun(it) => Near(d.ht0, d'.ht0, {k}) /\ Near(d.ht1, d'.ht1, {k})
    BY <1>1, <2>1, Held, DeleteNear
  <2>4. {k} \cap it.rest = {}
    BY <1>2, <2>1
  <2>5. QED
    BY <1>1, <2>1, <2>2, <2>3, <2>4, CallKeeps
<1>5. ASSUME (\E k \in Keys : Fetch(k)) \/ GetRandomKey PROVE IterInv'
  <2>1. /\ d' = dictLookup(d) \/ d' = dictRehashStep(d)
        /\ it' = it /\ seen' = seen /\ owed' = owed /\ it.open
    BY <1>5 DEF Fetch, GetRandomKey
  <2>2. StoredKeys(d) \subseteq StoredKeys(d')
    <3>1. All(d') = All(d)
      BY <1>1, <2>1, RehashStepOK DEF Same
    <3>2. QED
      BY <1>1, <3>1, KeysOfAll
  <2>3. Begun(it) => Near(d.ht0, d'.ht0, {}) /\ Near(d.ht1, d'.ht1, {})
    BY <2>1, Held DEF Near
  <2>4. seen' = seen \ {} /\ owed' = owed \ {} /\ {} \cap it.rest = {}
    BY <2>1
  <2>5. QED
    BY <1>1, <2>1, <2>2, <2>3, <2>4, CallKeeps
<1>6. ASSUME Empty \/ Resize \/ RehashMilliseconds \/ IterEnd PROVE IterInv'
  BY <1>6 DEF Empty, Resize, RehashMilliseconds, IterEnd, NoIter
<1>7. CASE IterStart
  <2>1. /\ it' = [NoIter EXCEPT !.open = TRUE]
        /\ d' = d /\ seen' = {} /\ owed' = StoredKeys(d)
    BY <1>7 DEF IterStart
  <2>2. it'.rest = {} /\ ~ Begun(it') /\ IterType(it')
    BY <2>1 DEF NoIter, Begun, IterType
  <2>3. RestOK(d', it')
    BY <2>2 DEF RestOK
  <2>4. AheadOf(d', it') = StoredKeys(d')
    BY <1>1, <2>2, <2>3, AheadStored
  <2>5. QED
    BY <2>1, <2>2, <2>3, <2>4 DEF IterInv
<1>8. CASE IterNext
  <2> DEFINE c == NextChain(d, it)
  <2>1. /\ it.open /\ owed' = owed
        /\ d'.ht0 = d.ht0 /\ d'.ht1 = d.ht1
    <3>1. d' = IF Begun(it) THEN d ELSE [d EXCEPT !.iterators = d.iterators + 1]
      BY <1>8 DEF IterNext
    <3>2. d = [ht0 |-> d.ht0, ht1 |-> d.ht1,
               rehashidx |-> d.rehashidx, iterators |-> d.iterators]
      BY <1>1 DEF Good, IsDict
    <3>3. QED
      BY <3>1, <3>2, <1>8 DEF IterNext
  <2>2. PICK k \in c.chain :
          /\ it' = [it EXCEPT !.table = c.table, !.index = c.index,
                              !.cur = k, !.rest = c.chain \ {k}]
          /\ seen' = seen \cup {k}
    BY <1>8 DEF IterNext
  <2>3. /\ owed \subseteq seen \cup AheadOf(d, it) /\ seen \cap AheadOf(d, it) = {}
        /\ seen \subseteq StoredKeys(d) /\ RestOK(d, it)
    BY <2>1 DEF IterInv
  <2>4. /\ AheadOf(d, it) = c.chain \cup Behind(d, c)
        /\ c.chain \cap Behind(d, c) = {}
        /\ c.chain \subseteq KeysOf(Now(d, c)) \ Later(Now(d, c), c.index)
    BY <1>1, <2>2, <2>3, NextChainSplits
  <2>5. c.table \in {0, 1} /\ ~ (c.index = -1 /\ c.table = 0)
    BY <1>1, <2>2, NextChainType DEF Inv
  <2> HIDE DEF c
  <2>6. /\ it'.table = c.table /\ it'.index = c.index /\ it'.cur = k
        /\ it'.rest = c.chain \ {k}
    BY <1>1, <2>2 DEF IterType
  <2>7. Now(d', it') = Now(d, c)
    BY <2>1, <2>6 DEF Now
  <2>8. AheadOf(d', it') = (c.chain \ {k}) \cup Behind(d, c)
    BY <2>1, <2>6, <2>7 DEF AheadOf, Behind
  <2>9. RestOK(d', it')
    BY <2>4, <2>6, <2>7 DEF RestOK
  <2>10. StoredKeys(d') = StoredKeys(d)
    <3>1. All(d') = All(d)
      BY <2>1 DEF All
    <3>2. QED
      BY <3>1, <1>1, KeysOfAll
  <2>11. seen' \subseteq StoredKeys(d')
    <3>1. AheadOf(d, it) \subseteq StoredKeys(d)
      BY <1>1, <2>3, AheadStored
    <3>2. QED
      BY <3>1, <2>2, <2>3, <2>4, <2>10
  <2>12. owed' \subseteq seen' \cup AheadOf(d', it')
    BY <2>1, <2>2, <2>3, <2>4, <2>8
  <2>13. seen' \cap AheadOf(d', it') = {}
    BY <2>2, <2>3, <2>4, <2>8
  <2>14. Begun(it') /\ it'.cur \notin it'.rest
    BY <2>5, <2>6 DEF Begun
  <2>15. QED
    BY <2>9, <2>11, <2>12, <2>13, <2>14 DEF IterInv
<1>9. CASE UNCHANGED vars
  BY <1>9 DEF vars, IterInv, AheadOf, RestOK, Now, Later, Begun, StoredKeys,
              StoredEntries, dictIsRehashing
<1>10. QED
  BY <1>3, <1>4, <1>5, <1>6, <1>7, <1>8, <1>9 DEF Next

\* A step under an open iterator that has begun takes no key out of a table but
\* the one the iterator returned last.
LEMMA FrozenStep ==
  ASSUME Inv, Next, it.open, Begun(it)
  PROVE  /\ KeysOf(d.ht0) \ KeysOf(d'.ht0) \subseteq {it.cur}
         /\ KeysOf(d.ht1) \ KeysOf(d'.ht1) \subseteq {it.cur}
<1>1. /\ Good(d) /\ d.iterators = 1 /\ dictRehashStep(d) = d /\ dictLookup(d) = d
      /\ d = [ht0 |-> d.ht0, ht1 |-> d.ht1,
              rehashidx |-> d.rehashidx, iterators |-> d.iterators]
  BY Held DEF Inv, Good, IsDict
<1>2. StoredKeys(d) = {e.key : e \in All(d)}
  BY <1>1, KeysOfAll
<1>3. KeysOf(d.ht0) \subseteq StoredKeys(d) /\ KeysOf(d.ht1) \subseteq StoredKeys(d)
  BY <1>2 DEF KeysOf, All
<1>4. ASSUME NEW k \in Keys, NEW v \in Vals, Add(k, v) \/ Replace(k, v)
      PROVE  KeysOf(d.ht0) \subseteq KeysOf(d'.ht0) /\ KeysOf(d.ht1) \subseteq KeysOf(d'.ht1)
  <2>1. d' = dictAdd(d, k, v) \/ d' = dictReplace(d, k, v)
    BY <1>4 DEF Add, Replace
  <2>2. NewKey(d, k) \cap StoredKeys(d) = {}
    BY <1>1, NewKeyIsNew
  <2>3. Near(d.ht0, d'.ht0, NewKey(d, k)) /\ Near(d.ht1, d'.ht1, NewKey(d, k))
    BY <1>1, <2>1, AddNear, ReplaceNear
  <2>4. QED
    BY <1>3, <2>2, <2>3 DEF Near
<1>5. ASSUME NEW k \in Keys, Delete(k)
      PROVE  /\ KeysOf(d.ht0) \ KeysOf(d'.ht0) \subseteq {it.cur}
             /\ KeysOf(d.ht1) \ KeysOf(d'.ht1) \subseteq {it.cur}
  <2>1. d' = dictDelete(d, k) /\ k = it.cur
    BY <1>5 DEF Delete
  <2>2. Near(d.ht0, d'.ht0, {k}) /\ Near(d.ht1, d'.ht1, {k})
    BY <1>1, <2>1, DeleteNear
  <2>3. QED
    BY <2>1, <2>2 DEF Near
<1>6. ASSUME (\E k \in Keys : Fetch(k)) \/ GetRandomKey PROVE d' = d
  BY <1>1, <1>6 DEF Fetch, GetRandomKey
<1>7. ASSUME IterNext \/ IterEnd PROVE d'.ht0 = d.ht0 /\ d'.ht1 = d.ht1
  BY <1>1, <1>7 DEF IterNext, IterEnd
<1>8. ~ (Empty \/ Resize \/ RehashMilliseconds \/ IterStart)
  BY DEF Empty, Resize, RehashMilliseconds, IterStart
<1>9. QED
  BY <1>4, <1>5, <1>6, <1>7, <1>8 DEF Next
-----------------------------------------------------------------------------
(* The theorems about the iteration.                                       *)

\* The invariant of the structure and of the iteration hold in every state.
THEOREM IterInvariance == Spec => [](Inv /\ IterInv)
<1>1. Init => Inv /\ IterInv
  BY InitOK DEF Init, IterInv, NoIter
<1>2. Inv /\ IterInv /\ [Next]_vars => Inv' /\ IterInv'
  BY NextOK, IterStepOK
<1>3. QED
  BY <1>1, <1>2, PTL DEF Spec

\* A safe iterator misses no key that was stored all the time, returns none
\* twice, and holds the rehash back from its first step to its release.
THEOREM IterationIsExact == Spec => []IterationExact
<1>1. Inv /\ IterInv => IterationExact
  <2> SUFFICES ASSUME Inv, IterInv PROVE IterationExact
    OBVIOUS
  <2>1. Ahead = AheadOf(d, it)
    BY AheadIs DEF Inv
  <2>2. QED
    BY <2>1 DEF IterInv, IterationExact, Inv, IterCount
<1>2. QED
  BY <1>1, IterInvariance, PTL

\* Under an open iterator no key changes its table.
THEOREM TablesFrozen == Spec => FrozenWhileIterating
<1>1. Inv /\ [Next]_vars =>
        [it.open /\ Begun(it) =>
           /\ KeysOf(d.ht0) \ KeysOf(d'.ht0) \subseteq {it.cur}
           /\ KeysOf(d.ht1) \ KeysOf(d'.ht1) \subseteq {it.cur}]_vars
  BY FrozenStep
<1>2. QED
  BY <1>1, Invariance, PTL DEF Spec, FrozenWhileIterating
-----------------------------------------------------------------------------
(* The map the tables stand for.                                           *)

ValuesOf(E, k) == {e.val : e \in {f \in E : f.key = k}}

\* The map of the entries E.
MapOf(E) ==
  [k \in Keys |-> IF ValuesOf(E, k) = {} THEN NoVal
                  ELSE CHOOSE v \in ValuesOf(E, k) : TRUE]

\* The map of module DictCalls is that of the stored entries.
LEMMA MapIs ==
  /\ Map = MapOf(StoredEntries(d))
  /\ Map' = MapOf(StoredEntries(d'))
  BY DEF Map, MapOf, ValuesOf, StoredEntries, dictIsRehashing

\* The map has the value of the one entry of a key, and NoVal without one.
LEMMA MapAt ==
  ASSUME NEW h, Good(h), NEW k \in Keys
  PROVE  /\ \A e \in All(h) : e.key = k => MapOf(All(h))[k] = e.val
         /\ (\A e \in All(h) : e.key # k) => MapOf(All(h))[k] = NoVal
         /\ MapOf(All(h))[k] # NoVal <=> k \in StoredKeys(h)
<1> DEFINE V == ValuesOf(All(h), k)
           m == MapOf(All(h))[k]
<1>1. m = IF V = {} THEN NoVal ELSE CHOOSE v \in V : TRUE
  BY DEF MapOf
<1>2. \A e, f \in All(h) : e.key = f.key => e = f
  BY DEF Good, TableOK, KeysOnce, Apart, All
<1>3. All(h) \subseteq Entry /\ StoredKeys(h) = {e.key : e \in All(h)}
  BY StoredIsAll, KeysOfAll
<1> HIDE DEF m
<1>4. ASSUME NEW e \in All(h), e.key = k PROVE m = e.val
  <2>1. V = {e.val}
    BY <1>2, <1>4 DEF ValuesOf
  <2>2. QED
    BY <2>1, <1>1
<1>5. ASSUME \A e \in All(h) : e.key # k PROVE m = NoVal
  <2>1. V = {}
    BY <1>5 DEF ValuesOf
  <2>2. QED
    BY <2>1, <1>1
<1>6. \A e \in All(h) : e.val \in Vals
  BY <1>3 DEF Entry
<1>7. m # NoVal <=> k \in StoredKeys(h)
  BY <1>3, <1>4, <1>5, <1>6, NoValAssumption
<1>8. QED
  BY <1>4, <1>5, <1>7 DEF m

\* The entries of the other keys.
Others(E, k) == {e \in E : e.key # k}

\* Entries that differ under one key only are maps that differ at it only.
LEMMA MapChange ==
  ASSUME NEW E, NEW F, NEW k \in Keys,
         Others(E, k) = Others(F, k)
  PROVE  MapOf(F) = [MapOf(E) EXCEPT ![k] = MapOf(F)[k]]
<1>1. ASSUME NEW x \in Keys, x # k PROVE MapOf(E)[x] = MapOf(F)[x]
  <2>1. {e \in E : e.key = x} = {e \in F : e.key = x}
    BY <1>1 DEF Others
  <2>2. ValuesOf(E, x) = ValuesOf(F, x)
    BY <2>1 DEF ValuesOf
  <2>3. QED
    BY <2>2 DEF MapOf
<1>2. /\ MapOf(E) = [x \in Keys |-> MapOf(E)[x]]
      /\ MapOf(F) = [x \in Keys |-> MapOf(F)[x]]
  BY DEF MapOf
<1>3. QED
  BY <1>1, <1>2

\* The map before and after a step of the dictionary.
LEMMA MapStep ==
  ASSUME Inv, Inv'
  PROVE  /\ Map = MapOf(All(d)) /\ Map' = MapOf(All(d'))
         /\ \A k \in Keys : Map[k] # NoVal <=> k \in StoredKeys(d)
  BY MapIs, StoredIsAll, MapAt DEF Inv

\* A call seen by a user is a call of the dictionary.
LEMMA CallIsCall ==
  /\ CallInit => Init
  /\ [CallNext]_callVars => [Next]_vars
<1> USE DEF callVars, vars
<1>1. CallInit => Init
  BY DEF CallInit
<1>2. CallNext => Next
  BY DEF CallNext, Next, CallAdd, CallReplace, CallFetch, CallDelete,
         CallGetRandomKey, CallEmpty, CallIterStart, CallIterNext, CallIterEnd, Timer
<1>3. QED
  BY <1>1, <1>2

\* dictAdd stores a key the map does not have, and refuses one it has.
LEMMA AddImplements ==
  ASSUME Inv, Inv', NEW k \in Keys, NEW v \in Vals, CallAdd(k, v)
  PROVE  Abstract!Add(k, v)
<1> DEFINE n == [key |-> k, val |-> v]
           found == Found(Prepared(d), k)
<1>1. /\ Map = MapOf(All(d)) /\ Map' = MapOf(All(d'))
      /\ Good(d) /\ Good(d')
  BY MapStep DEF Inv
<1>2. /\ d' = dictAdd(d, k, v) /\ it' = it /\ seen' = seen /\ owed' = owed
      /\ call' = Called("add", k, v, IF found = {} THEN "OK" ELSE "ERR")
  BY DEF CallAdd, Add, AddResult
<1>3. /\ found = {e \in All(d) : e.key = k}
      /\ All(d') = IF found = {} THEN All(d) \cup {n} ELSE All(d)
  BY <1>1, <1>2, AddOK DEF Becomes
<1>4. n.key = k /\ n.val = v
  OBVIOUS
<1> HIDE DEF n, found
<1>5. CASE found = {}
  <2>1. Map[k] = NoVal
    BY <1>1, <1>3, <1>5, MapAt
  <2>2. Map'[k] = v
    <3>1. n \in All(d')
      BY <1>3, <1>5
    <3>2. QED
      BY <3>1, <1>1, <1>4, MapAt
  <2>3. Others(All(d), k) = Others(All(d'), k)
    BY <1>3, <1>4, <1>5 DEF Others
  <2>4. Map' = [Map EXCEPT ![k] = v]
    <3>1. MapOf(All(d')) = [MapOf(All(d)) EXCEPT ![k] = MapOf(All(d'))[k]]
      BY <2>3, MapChange
    <3>2. QED
      BY <3>1, <2>2, <1>1
  <2>5. QED
    BY <1>2, <1>5, <2>1, <2>4 DEF Abstract!Add, Abstract!Calls, Called
<1>6. CASE found # {}
  <2>1. Map' = Map
    BY <1>1, <1>3, <1>6
  <2>2. Map[k] # NoVal
    <3>1. k \in StoredKeys(d)
      BY <1>1, <1>3, <1>6, KeysOfAll
    <3>2. QED
      BY <3>1, MapStep
  <2>3. QED
    BY <1>2, <1>6, <2>1, <2>2 DEF Abstract!Add, Abstract!Calls, Called
<1>7. QED
  BY <1>5, <1>6

\* dictReplace sets the value, whichever table the key is in.
LEMMA ReplaceImplements ==
  ASSUME Inv, Inv', NEW k \in Keys, NEW v \in Vals, CallReplace(k, v)
  PROVE  Abstract!Replace(k, v)
<1> DEFINE n == [key |-> k, val |-> v]
           found == Found(Prepared(d), k)
<1>1. /\ Map = MapOf(All(d)) /\ Map' = MapOf(All(d'))
      /\ Good(d) /\ Good(d')
  BY MapStep DEF Inv
<1>2. /\ d' = dictReplace(d, k, v) /\ it' = it /\ seen' = seen /\ owed' = owed
      /\ call' = Called("replace", k, v, IF found = {} THEN "1" ELSE "0")
  BY DEF CallReplace, Replace, ReplaceResult, AddResult
<1>3. All(d') = {e \in All(d) : e.key # k} \cup {n}
  BY <1>1, <1>2, ReplaceOK DEF Becomes
<1>4. n.key = k /\ n.val = v
  OBVIOUS
<1>5. found = {e \in All(d) : e.key = k}
  BY <1>1, AddOK
<1> HIDE DEF n, found
<1>6. found = {} <=> Map[k] = NoVal
  <2>1. found = {} <=> k \notin StoredKeys(d)
    BY <1>1, <1>5, KeysOfAll
  <2>2. QED
    BY <2>1, MapStep
<1>7. Map'[k] = v
  <2>1. n \in All(d')
    BY <1>3
  <2>2. QED
    BY <2>1, <1>1, <1>4, MapAt
<1>8. Others(All(d), k) = Others(All(d'), k)
  BY <1>3, <1>4 DEF Others
<1>9. Map' = [Map EXCEPT ![k] = v]
  <2>1. MapOf(All(d')) = [MapOf(All(d)) EXCEPT ![k] = MapOf(All(d'))[k]]
    BY <1>8, MapChange
  <2>2. QED
    BY <2>1, <1>1, <1>7
<1>10. QED
  BY <1>2, <1>9, <1>6 DEF Abstract!Replace, Abstract!Calls, Called

\* dictFetchValue returns the value of the map.
LEMMA FetchImplements ==
  ASSUME Inv, Inv', NEW k \in Keys, CallFetch(k)
  PROVE  Abstract!Fetch(k)
<1>1. /\ Map = MapOf(All(d)) /\ Map' = MapOf(All(d'))
      /\ Good(d) /\ Good(d')
  BY MapStep DEF Inv
<1>2. /\ d' = dictLookup(d) /\ it' = it /\ seen' = seen /\ owed' = owed
      /\ call' = Called("fetch", k, NoVal, FetchedValue(d', k))
  BY DEF CallFetch, Fetch
<1>3. All(d') = All(d)
  BY <1>1, <1>2, RehashStepOK DEF Same
<1>4. Found(d', k) = {e \in All(d) : e.key = k}
  BY <1>1, <1>3, FoundIsExact
<1>5. FetchedValue(d', k) = Map[k]
  <2>1. CASE Found(d', k) = {}
    BY <2>1, <1>1, <1>4, MapAt DEF FetchedValue
  <2>2. CASE Found(d', k) # {}
    <3>1. PICK e \in Found(d', k) : FetchedValue(d', k) = e.val
      BY <2>2 DEF FetchedValue
    <3>2. QED
      BY <3>1, <1>1, <1>4, MapAt
  <2>3. QED
    BY <2>1, <2>2
<1>6. QED
  BY <1>1, <1>2, <1>3, <1>5 DEF Abstract!Fetch, Abstract!Calls, Called

\* dictDelete removes the key from the map and says whether it was there.
LEMMA DeleteImplements ==
  ASSUME Inv, Inv', NEW k \in Keys, CallDelete(k)
  PROVE  Abstract!Delete(k)
<1>1. /\ Map = MapOf(All(d)) /\ Map' = MapOf(All(d'))
      /\ Good(d) /\ Good(d')
  BY MapStep DEF Inv
<1>2. /\ d' = dictDelete(d, k) /\ it' = it
      /\ seen' = seen \ {k} /\ owed' = owed \ {k}
      /\ call' = Called("delete", k, NoVal,
                        IF Found(dictLookup(d), k) = {} THEN "ERR" ELSE "OK")
  BY DEF CallDelete, Delete, DeleteResult
<1>3. All(d') = {e \in All(d) : e.key # k}
  BY <1>1, <1>2, DeleteOK DEF Becomes
<1>4. Found(dictLookup(d), k) = {e \in All(d) : e.key = k}
  BY <1>1, RehashStepOK, FoundIsExact DEF Same
<1>5. Map[k] # NoVal <=> Found(dictLookup(d), k) # {}
  BY <1>1, <1>4, MapAt, KeysOfAll
<1>6. Map'[k] = NoVal
  BY <1>1, <1>3, MapAt
<1>7. Map' = [Map EXCEPT ![k] = NoVal]
  <2>1. Others(All(d), k) = Others(All(d'), k)
    BY <1>3 DEF Others
  <2>2. MapOf(All(d')) = [MapOf(All(d)) EXCEPT ![k] = MapOf(All(d'))[k]]
    BY <2>1, MapChange
  <2>3. QED
    BY <2>2, <1>1, <1>6
<1>8. CASE Found(dictLookup(d), k) = {}
  <2>1. All(d') = All(d)
    BY <1>3, <1>4, <1>8
  <2>2. QED
    BY <2>1, <1>1, <1>2, <1>5, <1>8 DEF Abstract!Delete, Abstract!Calls, Called
<1>9. CASE Found(dictLookup(d), k) # {}
  BY <1>2, <1>5, <1>7, <1>9 DEF Abstract!Delete, Abstract!Calls, Called
<1>10. QED
  BY <1>8, <1>9

\* dictGetRandomKey returns a key of the map.
LEMMA RandomImplements ==
  ASSUME Inv, Inv', CallGetRandomKey
  PROVE  Abstract!GetRandomKey
<1>1. /\ Map = MapOf(All(d)) /\ Map' = MapOf(All(d'))
      /\ Good(d) /\ Good(d')
      /\ \A x \in Keys : Map[x] # NoVal <=> x \in StoredKeys(d)
  BY MapStep DEF Inv
<1>2. /\ d' = dictRehashStep(d) /\ it' = it /\ seen' = seen /\ owed' = owed
      /\ \E k \in StoredKeys(d') : call' = Called("random", NoKey, NoVal, k)
  BY DEF CallGetRandomKey, GetRandomKey
<1>3. All(d') = All(d)
  BY <1>1, <1>2, RehashStepOK DEF Same
<1>4. StoredKeys(d') = StoredKeys(d) /\ StoredKeys(d) \subseteq Keys
  BY <1>1, <1>3, KeysOfAll, StoredIsAll
<1>5. QED
  BY <1>1, <1>2, <1>3, <1>4 DEF Abstract!GetRandomKey, Abstract!Calls, Called

\* dictEmpty empties the map.
LEMMA EmptyImplements ==
  ASSUME Inv, Inv', CallEmpty
  PROVE  Abstract!Empty
<1>1. d' = EmptyDict /\ ~ it.open /\ call' = Called("empty", NoKey, NoVal, "OK")
      /\ it' = it /\ seen' = seen /\ owed' = owed
  BY DEF CallEmpty, Empty
<1>2. All(d') = {}
  BY <1>1, NewTableOK DEF All, EmptyDict
<1>3. Map' = [k \in Keys |-> NoVal]
  <2>1. Map' = MapOf({})
    BY <1>2, MapStep
  <2>2. \A k \in Keys : ValuesOf({}, k) = {}
    BY DEF ValuesOf
  <2>3. QED
    BY <2>1, <2>2 DEF MapOf
<1>4. QED
  BY <1>1, <1>3 DEF Abstract!Empty, Abstract!Calls, Called

\* The iterator returns a stored key it has not returned, and ends only when
\* every key it owes has been returned.
LEMMA IterImplements ==
  ASSUME Inv, Inv', IterInv, IterInv'
  PROVE  /\ CallIterStart => Abstract!IterStart
         /\ CallIterNext => Abstract!IterNext
         /\ CallIterEnd => Abstract!IterEnd
<1>1. /\ Map = MapOf(All(d)) /\ Map' = MapOf(All(d'))
      /\ Good(d) /\ Good(d') /\ IterType(it)
      /\ StoredKeys(d) \subseteq Keys
      /\ \A x \in Keys : Map[x] # NoVal <=> x \in StoredKeys(d)
  BY MapStep, StoredIsAll DEF Inv
<1>2. d = [ht0 |-> d.ht0, ht1 |-> d.ht1,
           rehashidx |-> d.rehashidx, iterators |-> d.iterators]
  BY <1>1 DEF Good, IsDict
<1>3. ASSUME CallIterStart PROVE Abstract!IterStart
  <2>1. /\ d' = d /\ it' = [NoIter EXCEPT !.open = TRUE] /\ ~ it.open
        /\ seen' = {} /\ owed' = StoredKeys(d)
        /\ call' = Called("start", NoKey, NoVal, "OK")
    BY <1>3 DEF CallIterStart, IterStart
  <2>2. it'.open = TRUE
    BY <2>1 DEF NoIter
  <2>3. Map' = Map
    BY <1>1, <2>1
  <2>4. StoredKeys(d) = {k \in Keys : Map[k] # NoVal}
    BY <1>1
  <2>5. QED
    BY <2>1, <2>2, <2>3, <2>4 DEF Abstract!IterStart, Abstract!Calls, Called
<1>4. ASSUME CallIterNext PROVE Abstract!IterNext
  <2> DEFINE c == NextChain(d, it)
  <2>1. PICK k \in c.chain :
          /\ it' = [it EXCEPT !.table = c.table, !.index = c.index,
                              !.cur = k, !.rest = c.chain \ {k}]
          /\ seen' = seen \cup {k}
    BY <1>4 DEF CallIterNext, IterNext
  <2>2. /\ it.open /\ owed' = owed
        /\ d' = IF Begun(it) THEN d ELSE [d EXCEPT !.iterators = d.iterators + 1]
        /\ call' = Called("next", NoKey, NoVal, it'.cur)
    BY <1>4 DEF CallIterNext, IterNext
  <2>3. /\ AheadOf(d, it) \subseteq StoredKeys(d) /\ k \in AheadOf(d, it)
        /\ seen \cap AheadOf(d, it) = {}
    BY <1>1, <2>1, <2>2, NextChainSplits, AheadStored DEF IterInv
  <2> HIDE DEF c
  <2>4. it'.cur = k /\ it'.open = it.open
    BY <1>1, <2>1 DEF IterType
  <2>5. k \in Keys \ seen /\ Map[k] # NoVal
    BY <1>1, <2>3
  <2>6. Map' = Map
    <3>1. All(d') = All(d)
      BY <1>2, <2>2 DEF All
    <3>2. QED
      BY <1>1, <3>1
  <2>7. call'.ret = k /\ call'.op = "next" /\ call'.key = NoKey /\ call'.val = NoVal
    BY <2>2, <2>4 DEF Called
  <2>8. QED
    BY <2>1, <2>2, <2>4, <2>5, <2>6, <2>7 DEF Abstract!IterNext, Abstract!Calls
<1>5. ASSUME CallIterEnd PROVE Abstract!IterEnd
  <2>1. /\ it.open /\ NextChain(d, it).chain = {} /\ it' = NoIter
        /\ seen' = {} /\ owed' = {}
        /\ d' = IF Begun(it) THEN [d EXCEPT !.iterators = d.iterators - 1] ELSE d
        /\ call' = Called("next", NoKey, NoVal, NoKey)
    BY <1>5 DEF CallIterEnd, IterEnd
  <2>2. AheadOf(d, it) = {} /\ owed \subseteq seen \cup AheadOf(d, it)
    BY <1>1, <2>1, NextChainSplits DEF IterInv
  <2>3. All(d') = All(d)
    BY <1>2, <2>1 DEF All
  <2>4. Map' = Map
    BY <1>1, <2>3
  <2>5. it'.open = FALSE
    BY <2>1 DEF NoIter
  <2>6. QED
    BY <2>1, <2>2, <2>4, <2>5 DEF Abstract!IterEnd, Abstract!Calls, Called
<1>6. QED
  BY <1>3, <1>4, <1>5

\* What the timer does changes nothing a user sees.
LEMMA TimerInvisible ==
  ASSUME Inv, Inv', Timer
  PROVE  UNCHANGED Abstract!vars
<1>1. All(d') = All(d)
  BY ResizeOK, RehashOK, TuningAssumption
  DEF Timer, Resize, RehashMilliseconds, Same, Inv
<1>2. Map' = Map
  BY <1>1, MapStep
<1>3. QED
  BY <1>2 DEF Abstract!vars, Timer, Resize, RehashMilliseconds

\* Every step of the calls is a step of the map or leaves the map alone.
LEMMA StepImplements ==
  ASSUME Inv, Inv', IterInv, IterInv', [CallNext]_callVars
  PROVE  [Abstract!Next]_(Abstract!vars)
<1>1. ASSUME NEW k \in Keys, NEW v \in Vals, CallAdd(k, v) \/ CallReplace(k, v)
      PROVE  Abstract!Next
  BY <1>1, AddImplements, ReplaceImplements DEF Abstract!Next
<1>2. ASSUME NEW k \in Keys, CallFetch(k) \/ CallDelete(k)
      PROVE  Abstract!Next
  BY <1>2, FetchImplements, DeleteImplements DEF Abstract!Next
<1>3. ASSUME CallGetRandomKey \/ CallEmpty PROVE Abstract!Next
  BY <1>3, RandomImplements, EmptyImplements DEF Abstract!Next
<1>4. ASSUME CallIterStart \/ CallIterNext \/ CallIterEnd PROVE Abstract!Next
  BY <1>4, IterImplements DEF Abstract!Next
<1>5. CASE Timer
  BY <1>5, TimerInvisible
<1>6. CASE UNCHANGED callVars
  BY <1>6 DEF callVars, Abstract!vars, Map, StoredEntries, dictIsRehashing
<1>7. QED
  BY <1>1, <1>2, <1>3, <1>4, <1>5, <1>6 DEF CallNext

\* A new dictionary is the empty map.
LEMMA InitImplements == CallInit => Abstract!Init
<1> SUFFICES ASSUME CallInit PROVE Abstract!Init
  OBVIOUS
<1>1. d = EmptyDict /\ it = NoIter /\ seen = {} /\ owed = {}
  BY DEF CallInit, Init
<1>2. StoredEntries(d) = {}
  BY <1>1, NewTableOK DEF StoredEntries, EmptyDict, dictIsRehashing
<1>3. Map = [k \in Keys |-> NoVal]
  <2>1. \A k \in Keys : ValuesOf({}, k) = {}
    BY DEF ValuesOf
  <2>2. QED
    BY <2>1, <1>2, MapIs DEF MapOf
<1>4. QED
  BY <1>1, <1>3 DEF Abstract!Init, NoIter

\* At every stage of every rehash the calls and their results are those of one
\* finite map, a safe iteration returns each key that stays exactly once, and
\* the work of the timer is invisible.
THEOREM Refinement == CallSpec => ImplementsMap
<1>1. CallInit => Abstract!Init
  BY InitImplements
<1>2. CallInit => Inv /\ IterInv
  BY CallIsCall, InitOK DEF CallInit, Init, IterInv, NoIter
<1>3. Inv /\ IterInv /\ [CallNext]_callVars => Inv' /\ IterInv'
  BY CallIsCall, NextOK, IterStepOK
<1>4. Inv /\ IterInv /\ Inv' /\ IterInv' /\ [CallNext]_callVars
        => [Abstract!Next]_(Abstract!vars)
  BY StepImplements
<1>5. QED
  BY <1>1, <1>2, <1>3, <1>4, PTL DEF CallSpec, ImplementsMap, Abstract!Spec
=============================================================================
