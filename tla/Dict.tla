-------------------------------- MODULE Dict --------------------------------
(***************************************************************************)
(* The incrementally rehashed hash table of dict.c, one dictionary with    *)
(* its two tables ht[0] and ht[1], used by one thread.                     *)
(*                                                                         *)
(* A bucket is the SET of the entries chained in it: no caller of dict.c   *)
(* depends on the order of a chain.  An operator named after a C function  *)
(* maps the structure before the call to the structure after it.           *)
(***************************************************************************)
EXTENDS Integers, FiniteSets, FiniteSetsExt

CONSTANTS
  Keys,          \* the keys the program uses
  Vals,          \* the values the program stores
  NoKey,         \* the current key of an iterator that has returned nothing
  Hash,          \* dictHashKey: the hash of every key
  InitialSize,   \* DICT_HT_INITIAL_SIZE
  Sizes,         \* the table sizes: InitialSize doubled some number of times
  MinFill,       \* REDIS_HT_MINFILL, in percent
  RehashBatch    \* buckets per round of dictRehashMilliseconds (100)

ASSUME KeysAssumption == IsFiniteSet(Keys) /\ Keys # {} /\ NoKey \notin Keys
ASSUME HashAssumption == Hash \in [Keys -> Nat]
ASSUME SizesAssumption ==
  /\ InitialSize \in Sizes
  /\ Sizes \subseteq Nat \ {0}
  /\ \A s \in Sizes : s = InitialSize \/ \E h \in Sizes : s = 2 * h
  /\ \E s \in Sizes : s >= 2 * Cardinality(Keys)
ASSUME TuningAssumption == MinFill \in Nat /\ RehashBatch \in Nat \ {0}

VARIABLES
  d,     \* the struct dict
  it,    \* the safe iterator over it, if one is open
  seen,  \* history: the keys the iterator returned that are still stored
  owed   \* history: the keys stored since the iterator was opened

vars == <<d, it, seen, owed>>

Entry == [key : Keys, val : Vals]
-----------------------------------------------------------------------------
(* Hash tables.                                                            *)

\* zcalloc of n buckets; NewTable(0) is what _dictReset leaves.
NewTable(n) == [size |-> n, used |-> 0, table |-> [b \in 0 .. n - 1 |-> {}]]

\* The bucket of key k in a table of n buckets: hash & sizemask.
Index(n, k) == Hash[k] % n

Chain(t, k) == IF t.size = 0 THEN {} ELSE t.table[Index(t.size, k)]

Matching(t, k) == {e \in Chain(t, k) : e.key = k}

\* Faulty: the entry is linked and not counted.
LinkUncounted(t, e) ==
  [size |-> t.size, used |-> t.used,
   table |-> [t.table EXCEPT ![Index(t.size, e.key)] = @ \cup {e}]]

Link(t, e) ==
  [size |-> t.size, used |-> t.used + 1,
   table |-> [t.table EXCEPT ![Index(t.size, e.key)] = @ \cup {e}]]

Unlink(t, k) ==
  [size |-> t.size, used |-> t.used - 1,
   table |-> [t.table EXCEPT ![Index(t.size, k)] = @ \ Matching(t, k)]]

\* dictSetVal on the entry of key k.
SetVal(t, k, v) ==
  [size |-> t.size, used |-> t.used,
   table |-> [t.table EXCEPT ![Index(t.size, k)] =
                (@ \ Matching(t, k)) \cup {[key |-> k, val |-> v]}]]

\* The entries chained in the buckets of table t.
Entries(t) == UNION {t.table[b] : b \in 0 .. t.size - 1}
KeysOf(t) == {e.key : e \in Entries(t)}

\* The entries of the buckets from lo to hi - 1, table t without them, and a
\* table that has taken entries over, each into its own bucket.
Slice(t, lo, hi) == UNION {t.table[b] : b \in lo .. hi - 1}

Cut(t, lo, hi) ==
  [size |-> t.size, used |-> t.used - Cardinality(Slice(t, lo, hi)),
   table |-> [b \in 0 .. t.size - 1 |->
                IF b \in lo .. hi - 1 THEN {} ELSE t.table[b]]]

\* Faulty: the moved entries are filed with the mask of a table of InitialSize.
PasteStaleMask(t, es) ==
  [size |-> t.size, used |-> t.used + Cardinality(es),
   table |-> [b \in 0 .. t.size - 1 |->
                t.table[b] \cup {e \in es : Index(InitialSize, e.key) = b}]]

Paste(t, es) ==
  [size |-> t.size, used |-> t.used + Cardinality(es),
   table |-> [b \in 0 .. t.size - 1 |->
                t.table[b] \cup {e \in es : Index(t.size, e.key) = b}]]
-----------------------------------------------------------------------------
(* The dictionary.                                                         *)

EmptyDict ==
  [ht0 |-> NewTable(0), ht1 |-> NewTable(0), rehashidx |-> -1, iterators |-> 0]

dictIsRehashing(h) == h.rehashidx # -1
dictSize(h) == h.ht0.used + h.ht1.used
dictSlots(h) == h.ht0.size + h.ht1.size

\* _dictNextPower: the first table size that holds n entries.
NextPower(n) == Min({s \in Sizes : s >= n})

\* Faulty: the rehash starts behind the first bucket.
dictExpandSkipsFirst(h, n) ==
  LET new == NewTable(NextPower(n))
  IN  IF dictIsRehashing(h) \/ h.ht0.used > n THEN h
      ELSE IF h.ht0.size = 0 THEN [h EXCEPT !.ht0 = new]
      ELSE [ht0 |-> h.ht0, ht1 |-> new, rehashidx |-> 1, iterators |-> h.iterators]

dictExpand(h, n) ==
  LET new == NewTable(NextPower(n))
  IN  IF dictIsRehashing(h) \/ h.ht0.used > n THEN h
      ELSE IF h.ht0.size = 0 THEN [h EXCEPT !.ht0 = new]
      ELSE [ht0 |-> h.ht0, ht1 |-> new, rehashidx |-> 0, iterators |-> h.iterators]

\* dict_can_resize stays 1: nothing in this code base ever starts the child
\* process that updateDictResizePolicy looks for.
dictExpandIfNeeded(h) ==
  IF dictIsRehashing(h) THEN h
  ELSE IF h.ht0.size = 0 THEN dictExpand(h, InitialSize)
  ELSE IF h.ht0.used >= h.ht0.size THEN dictExpand(h, h.ht0.used * 2)
  ELSE h

htNeedsResize(h) ==
  /\ dictSlots(h) > InitialSize
  /\ dictSize(h) > 0
  /\ (dictSize(h) * 100) \div dictSlots(h) < MinFill

dictResize(h) ==
  IF dictIsRehashing(h) THEN h
  ELSE dictExpand(h, IF h.ht0.used < InitialSize THEN InitialSize ELSE h.ht0.used)

\* The buckets of ht[0] that still hold entries, from rehashidx on.
Occupied(h) == {b \in 0 .. h.ht0.size - 1 : b >= h.rehashidx /\ h.ht0.table[b] # {}}

\* The rehash loop has gone from rehashidx to i: the entries of the buckets it
\* passed hang in ht[1].
MoveTo(h, i) ==
  [ht0 |-> Cut(h.ht0, h.rehashidx, i),
   ht1 |-> Paste(h.ht1, Slice(h.ht0, h.rehashidx, i)),
   rehashidx |-> i, iterators |-> h.iterators]

\* The loop found ht[0] empty: ht[1] takes its place.
FinishRehash(h) ==
  [ht0 |-> h.ht1, ht1 |-> NewTable(0), rehashidx |-> -1, iterators |-> h.iterators]

\* Faulty: an emptied ht[0] is never given up.
dictRehashUnfinished(h, n) ==
  IF ~ dictIsRehashing(h) THEN h
  ELSE IF Cardinality(Occupied(h)) >= n
  THEN MoveTo(h, Min({i \in 0 .. h.ht0.size :
                        Cardinality({b \in Occupied(h) : b < i}) >= n}))
  ELSE MoveTo(h, h.ht0.size)

\* dictRehash(d, n): move the next n occupied buckets.  The test used = 0
\* heads every round, so a table whose last bucket has just been moved is
\* given up one round later.
dictRehash(h, n) ==
  IF ~ dictIsRehashing(h) THEN h
  ELSE IF Cardinality(Occupied(h)) >= n
  THEN MoveTo(h, Min({i \in 0 .. h.ht0.size :
                        Cardinality({b \in Occupied(h) : b < i}) >= n}))
  ELSE LET all == MoveTo(h, h.ht0.size)
       IN  IF all.ht0.used = 0 THEN FinishRehash(all) ELSE all

\* Faulty: iterators do not hold the rehash back.
dictRehashStepAlways(h) == dictRehash(h, 1)

\* _dictRehashStep: an open safe iterator holds the rehash back.
dictRehashStep(h) == IF h.iterators = 0 THEN dictRehash(h, 1) ELSE h

\* Faulty: during a rehash only ht[1] is searched.
FoundInSecond(h, k) == Matching(IF dictIsRehashing(h) THEN h.ht1 ELSE h.ht0, k)

\* dictFind searches ht[1] only while a rehash is going on.
Found(h, k) ==
  IF Matching(h.ht0, k) # {} \/ ~ dictIsRehashing(h) THEN Matching(h.ht0, k)
  ELSE Matching(h.ht1, k)

\* The structure _dictKeyIndex searches: after the step and the expansion.
\* (It expands even when the key turns out to be there.)
Prepared(h) == dictExpandIfNeeded(dictRehashStep(h))

dictAdd(h, k, v) ==
  LET p == Prepared(h)
      e == [key |-> k, val |-> v]
  IN  IF Found(p, k) # {} THEN p
      ELSE IF dictIsRehashing(p) THEN [p EXCEPT !.ht1 = Link(@, e)]
      ELSE [p EXCEPT !.ht0 = Link(@, e)]

\* Faulty: the second lookup does not go on into ht[1].
dictReplaceFirst(h, k, v) ==
  LET a == dictAdd(h, k, v)
      f == dictRehashStep(a)
  IN  IF Found(Prepared(h), k) = {} THEN a
      ELSE IF Matching(f.ht0, k) # {} THEN [f EXCEPT !.ht0 = SetVal(@, k, v)]
      ELSE f

\* dictAdd first; when the key exists, a second lookup (with its own step).
dictReplace(h, k, v) ==
  LET a == dictAdd(h, k, v)
      f == dictRehashStep(a)
  IN  IF Found(Prepared(h), k) = {} THEN a
      ELSE IF Matching(f.ht0, k) # {} THEN [f EXCEPT !.ht0 = SetVal(@, k, v)]
      ELSE [f EXCEPT !.ht1 = SetVal(@, k, v)]

\* Faulty: a lookup steps even while an iterator is open.
dictLookupUnpaused(h) == IF h.ht0.size = 0 THEN h ELSE dictRehash(h, 1)

\* dictFind and dictGenericDelete return at once on a table without buckets.
dictLookup(h) == IF h.ht0.size = 0 THEN h ELSE dictRehashStep(h)

\* Faulty: a deletion in ht[1] is counted in ht[0].
dictDeleteMiscounts(h, k) ==
  LET s == dictLookup(h)
  IN  IF Found(s, k) = {} THEN s
      ELSE IF Matching(s.ht0, k) # {} THEN [s EXCEPT !.ht0 = Unlink(@, k)]
      ELSE [s EXCEPT !.ht0.used = @ - 1,
                     !.ht1 = [Unlink(@, k) EXCEPT !.used = @ + 1]]

dictDelete(h, k) ==
  LET s == dictLookup(h)
  IN  IF Found(s, k) = {} THEN s
      ELSE IF Matching(s.ht0, k) # {} THEN [s EXCEPT !.ht0 = Unlink(@, k)]
      ELSE [s EXCEPT !.ht1 = Unlink(@, k)]

StoredEntries(h) ==
  Entries(h.ht0) \cup (IF dictIsRehashing(h) THEN Entries(h.ht1) ELSE {})
StoredKeys(h) == {e.key : e \in StoredEntries(h)}
-----------------------------------------------------------------------------
(* The safe iterator.                                                      *)

NoIter == [open |-> FALSE, table |-> 0, index |-> -1, cur |-> NoKey, rest |-> {}]

\* dictNext has been called: it has raised d->iterators.
Begun(i) == ~ (i.index = -1 /\ i.table = 0)

\* The occupied buckets of table t after bucket b.
After(t, b) == {c \in 0 .. t.size - 1 : c > b /\ t.table[c] # {}}

\* Where dictNext goes on: the rest of the chain it is in, else the next
\* occupied bucket of its table, else ht[1] if the iterator is in ht[0] and a
\* rehash is going on, else nowhere (an empty chain).
NextChain(h, i) ==
  LET now == IF i.table = 0 THEN h.ht0 ELSE h.ht1
      At(n, t, b) ==
        [table |-> n, index |-> b, chain |-> {e.key : e \in t.table[b]}]
      goOn == i.table = 0 /\ dictIsRehashing(h)
  IN  IF i.rest # {}
        THEN [table |-> i.table, index |-> i.index, chain |-> i.rest]
      ELSE IF After(now, i.index) # {}
        THEN At(i.table, now, Min(After(now, i.index)))
      ELSE IF goOn /\ After(h.ht1, -1) # {}
        THEN At(1, h.ht1, Min(After(h.ht1, -1)))
      ELSE [table |-> i.table, index |-> i.index, chain |-> {}]
-----------------------------------------------------------------------------
Init ==
  /\ d = EmptyDict
  /\ it = NoIter
  /\ seen = {}
  /\ owed = {}

Add(k, v) ==
  /\ d' = dictAdd(d, k, v)
  /\ UNCHANGED <<it, seen, owed>>

Replace(k, v) ==
  /\ d' = dictReplace(d, k, v)
  /\ UNCHANGED <<it, seen, owed>>

\* dictFind, dictFetchValue
Fetch(k) ==
  /\ d' = dictLookup(d)
  /\ UNCHANGED <<it, seen, owed>>

\* While an iterator is open its user deletes only the entry it was given:
\* dictNext has saved the pointer to the one after it.
Delete(k) ==
  /\ it.open => k = it.cur
  /\ d' = dictDelete(d, k)
  /\ seen' = seen \ {k}
  /\ owed' = owed \ {k}
  /\ UNCHANGED it

GetRandomKey ==
  /\ dictSize(d) # 0
  /\ d' = dictRehashStep(d)
  /\ UNCHANGED <<it, seen, owed>>

\* dictEmpty clears both tables and resets rehashidx and iterators; nobody calls
\* it with an iterator open.
Empty ==
  /\ ~ it.open
  /\ d' = EmptyDict
  /\ UNCHANGED <<it, seen, owed>>

\* tryResizeHashTables, from the timer: never in the middle of a command.
Resize ==
  /\ ~ it.open
  /\ htNeedsResize(d)
  /\ d' = dictResize(d)
  /\ UNCHANGED <<it, seen, owed>>

\* dictRehashMilliseconds, from the timer: batches until the time is up or
\* the rehash is over.  Time may be up after any batch: one batch is an
\* action of the model.
RehashMilliseconds ==
  /\ ~ it.open
  /\ dictIsRehashing(d)
  /\ d' = dictRehash(d, RehashBatch)
  /\ UNCHANGED <<it, seen, owed>>

IterStart ==
  /\ ~ it.open
  /\ it' = [NoIter EXCEPT !.open = TRUE]
  /\ seen' = {}
  /\ owed' = StoredKeys(d)
  /\ UNCHANGED d

\* dictNext returns an entry.
IterNext ==
  /\ it.open
  /\ \E k \in NextChain(d, it).chain :
       /\ it' = [it EXCEPT !.table = NextChain(d, it).table,
                           !.index = NextChain(d, it).index,
                           !.cur = k,
                           !.rest = NextChain(d, it).chain \ {k}]
       /\ seen' = seen \cup {k}
  /\ d' = IF Begun(it) THEN d ELSE [d EXCEPT !.iterators = @ + 1]
  /\ UNCHANGED owed

\* dictNext returns NULL and the loop around it releases the iterator.  (On
\* an empty dictionary the one call raises the count the release lowers.)
IterEnd ==
  /\ it.open
  /\ NextChain(d, it).chain = {}
  /\ it' = NoIter
  /\ d' = IF Begun(it) THEN [d EXCEPT !.iterators = @ - 1] ELSE d
  /\ seen' = {}
  /\ owed' = {}

Next ==
  \/ \E k \in Keys, v \in Vals : Add(k, v) \/ Replace(k, v)
  \/ \E k \in Keys : Fetch(k) \/ Delete(k)
  \/ GetRandomKey
  \/ Empty
  \/ Resize
  \/ RehashMilliseconds
  \/ IterStart
  \/ IterNext
  \/ IterEnd

Spec == Init /\ [][Next]_vars

\* A loop over an iterator runs to its end inside one command, and the event
\* loop calls serverCron between commands again and again.
Fairness == WF_vars(IterNext \/ IterEnd) /\ SF_vars(RehashMilliseconds)
-----------------------------------------------------------------------------
(* Properties.                                                             *)

(* The parts of a sound dictionary, for any structure h.                   *)

IsTable(t) ==
  /\ t = [size |-> t.size, used |-> t.used, table |-> t.table]
  /\ t.size \in Sizes \cup {0} /\ t.used \in Nat
  /\ t.table \in [0 .. t.size - 1 -> SUBSET Entry]

IsDict(h) ==
  /\ h = [ht0 |-> h.ht0, ht1 |-> h.ht1,
          rehashidx |-> h.rehashidx, iterators |-> h.iterators]
  /\ IsTable(h.ht0) /\ IsTable(h.ht1)
  /\ h.rehashidx \in Nat \cup {-1} /\ h.iterators \in {0, 1}

Placed(t) ==
  \A b \in 0 .. t.size - 1 : \A e \in t.table[b] : Index(t.size, e.key) = b

KeysOnce(t) == \A e, f \in Entries(t) : e.key = f.key => e = f

Apart(h) == \A e \in Entries(h.ht0), f \in Entries(h.ht1) : e.key # f.key

RehashBounds(h) ==
  IF dictIsRehashing(h)
  THEN /\ h.ht0.size > 0 /\ h.ht1.size > 0
       /\ \A b \in 0 .. h.ht0.size - 1 : b < h.rehashidx => h.ht0.table[b] = {}
       /\ h.ht0.used > 0 => h.rehashidx < h.ht0.size
  ELSE h.ht1 = NewTable(0)
-----------------------------------------------------------------------------
\* The types of the variables.
TypeOK ==
  /\ IsDict(d)
  /\ it \in [open : BOOLEAN, table : {0, 1}, index : Nat \cup {-1},
             cur : Keys \cup {NoKey}, rest : SUBSET Keys]
  /\ seen \subseteq Keys
  /\ owed \subseteq Keys

\* No call, at any stage of a rehash, leaves an entry in a bucket its hash does
\* not lead to, where every lookup would miss it.
Reachable == Placed(d.ht0) /\ Placed(d.ht1)

\* No key is stored twice, within a table or in both: dictAdd looks into both
\* tables before it links, and a move takes an entry out of ht[0].
KeysUnique == KeysOnce(d.ht0) /\ KeysOnce(d.ht1) /\ Apart(d)

\* used counts the entries of each table.  The end of a rehash, dictSize, and
\* the endless search of dictGetRandomKey for an occupied bucket rely on it.
UsedExact ==
  /\ d.ht0.used = Cardinality(Entries(d.ht0))
  /\ d.ht1.used = Cardinality(Entries(d.ht1))

\* While a rehash goes on the buckets before rehashidx are empty and, as the
\* assert in dictRehash says, rehashidx is inside ht[0] until ht[0] is empty;
\* otherwise ht[1] does not exist.
RehashSound == RehashBounds(d)

\* The keys an open iterator will still return if nothing else happens.
Ahead ==
  LET now == IF it.table = 0 THEN d.ht0 ELSE d.ht1
      KeysIn(t, b) == UNION {{e.key : e \in t.table[c]} : c \in After(t, b)}
  IN  it.rest \cup KeysIn(now, it.index) \cup
        (IF it.table = 0 /\ dictIsRehashing(d) THEN KeysIn(d.ht1, -1) ELSE {})

\* A safe iterator, at every point: each key that has been stored all the time
\* has been returned or is still ahead, none that was returned is ahead, and
\* the rehash is held back from the first dictNext to the release.
IterationExact ==
  /\ it.open => owed \subseteq seen \cup Ahead /\ seen \cap Ahead = {}
  /\ d.iterators = IF it.open /\ Begun(it) THEN 1 ELSE 0

\* An open iterator freezes the tables: a key stays in the table it is in until
\* it is deleted, so that a bucket the iterator has passed is done with.
FrozenWhileIterating ==
  [][it.open /\ Begun(it) =>
       /\ KeysOf(d.ht0) \ KeysOf(d'.ht0) \subseteq {it.cur}
       /\ KeysOf(d.ht1) \ KeysOf(d'.ht1) \subseteq {it.cur}]_vars

\* Every rehash ends, even if no call but the timer's touches the dictionary.
RehashEnds == dictIsRehashing(d) ~> ~ dictIsRehashing(d)
=============================================================================
