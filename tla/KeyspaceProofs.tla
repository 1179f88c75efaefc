--------------------------- MODULE KeyspaceProofs ---------------------------
(***************************************************************************)
(* Proofs about Keyspace, for any databases, keys, values and expire       *)
(* times: the expires dictionary of every database stays a part of its key *)
(* dictionary and borrows its strings, and no assertion of db.c fails; and *)
(* as long as no expire time overflows the keyspace implements LogicalDb,  *)
(* where keys vanish by themselves.                                        *)
(***************************************************************************)
EXTENDS Keyspace, TLAPS

\* The invariant, of any keyspace s.  It is inductive as it stands, but only as
\* a whole: getExpire's assertion needs that expires is a part of dict.
Sound(s) ==
  /\ s = [dict |-> s.dict, expires |-> s.expires, ok |-> s.ok]
  /\ s.dict \in [DBs -> [Keys -> KeyEntry \cup {None}]]
  /\ s.expires \in [DBs -> [Keys -> ExpireEntry \cup {None}]]
  /\ s.ok = TRUE
  /\ \A i \in DBs, k \in Keys :
       s.expires[i][k] # None =>
         s.dict[i][k] # None /\ s.expires[i][k].str = s.dict[i][k].str

CronType ==
  cron \in [current : DBs, left : 0 .. dbnum, at : DBs \cup {None},
            round : 0 .. CheckEvery - 1, exit : BOOLEAN]

Inv == Sound(ks) /\ now \in 0 .. MaxTime
-----------------------------------------------------------------------------
(* Fields.                                                                 *)

LEMMA GetExpireType ==
  ASSUME NEW s, Sound(s), NEW i \in DBs, NEW k \in Keys
  PROVE  getExpire(s, i, k) \in Times
<1>1. -1 \in Times
  BY TimeAssumption DEF Times
<1>2. s.expires[i][k] \in ExpireEntry \cup {None}
  BY DEF Sound
<1>3. QED
  BY <1>1, <1>2 DEF getExpire, ExpireEntry

\* A key that is present has a string and a value.
LEMMA EntryType ==
  ASSUME NEW s, Sound(s), NEW i \in DBs, NEW k \in Keys, Present(s, i, k)
  PROVE  s.dict[i][k].str \in Strs /\ s.dict[i][k].val \in Vals
<1>1. s.dict[i][k] \in KeyEntry
  BY DEF Sound, Present
<1>2. QED
  BY <1>1 DEF KeyEntry

\* A sound keyspace is sound again when the entries it puts fit each other.
LEMMA PutOK ==
  ASSUME NEW s, Sound(s), NEW i \in DBs, NEW k \in Keys,
         NEW e \in KeyEntry \cup {None}, NEW x \in ExpireEntry \cup {None},
         x # None => e # None /\ x.str = e.str
  PROVE  /\ Sound(Put(s, i, k, e, x))
         /\ Put(s, i, k, e, x).dict[i][k] = e
         /\ \A j \in DBs, m \in Keys :
              j # i \/ m # k => Put(s, i, k, e, x).dict[j][m] = s.dict[j][m]
<1> DEFINE r == Put(s, i, k, e, x)
<1>1. /\ s.dict \in [DBs -> [Keys -> KeyEntry \cup {None}]]
      /\ s.expires \in [DBs -> [Keys -> ExpireEntry \cup {None}]]
      /\ s.ok = TRUE
  BY DEF Sound
<1>2. /\ r = [dict |-> r.dict, expires |-> r.expires, ok |-> r.ok]
      /\ r.dict = [s.dict EXCEPT ![i] = [s.dict[i] EXCEPT ![k] = e]]
      /\ r.expires = [s.expires EXCEPT ![i] = [s.expires[i] EXCEPT ![k] = x]]
      /\ r.ok = TRUE
  BY <1>1 DEF Put
<1> HIDE DEF r
<1>3. /\ r.dict \in [DBs -> [Keys -> KeyEntry \cup {None}]]
      /\ r.expires \in [DBs -> [Keys -> ExpireEntry \cup {None}]]
  BY <1>1, <1>2
<1>4. \A j \in DBs, m \in Keys :
        /\ r.dict[j][m] = IF j = i /\ m = k THEN e ELSE s.dict[j][m]
        /\ r.expires[j][m] = IF j = i /\ m = k THEN x ELSE s.expires[j][m]
  BY <1>1, <1>2
<1>5. \A j \in DBs, m \in Keys :
        r.expires[j][m] # None =>
          r.dict[j][m] # None /\ r.expires[j][m].str = r.dict[j][m].str
  BY <1>4 DEF Sound
<1>6. Sound(r)
  BY <1>2, <1>3, <1>5 DEF Sound
<1>7. QED
  BY <1>4, <1>6 DEF r
-----------------------------------------------------------------------------
(* The functions of db.c.                                                  *)

\* expires first, then dict: the key string is there as long as it is needed.
LEMMA DeleteIs ==
  ASSUME NEW s, Sound(s), NEW i \in DBs, NEW k \in Keys
  PROVE  dbDelete(s, i, k) = Put(s, i, k, None, None)
<1> DEFINE r == DropExpire(s, i, k)
<1>1. /\ s.dict \in [DBs -> [Keys -> KeyEntry \cup {None}]]
      /\ s.expires \in [DBs -> [Keys -> ExpireEntry \cup {None}]]
  BY DEF Sound
<1>2. r = Put(s, i, k, s.dict[i][k], None)
  BY DEF DropExpire, Sound, Present
<1> HIDE DEF r
<1>3. /\ r.dict = s.dict
      /\ r.expires = [s.expires EXCEPT ![i] = [s.expires[i] EXCEPT ![k] = None]]
      /\ r.ok = s.ok
  BY <1>1, <1>2 DEF Put
<1>4. r.expires[i][k] = None
  BY <1>1, <1>3
<1>5. [r.expires EXCEPT ![i] = [r.expires[i] EXCEPT ![k] = None]] = r.expires
  BY <1>1, <1>3
<1>6. dbDelete(s, i, k) = Put(r, i, k, None, None)
  BY <1>4 DEF dbDelete, DropKey, r
<1>7. Put(r, i, k, None, None) =
        [dict |-> [r.dict EXCEPT ![i] = [r.dict[i] EXCEPT ![k] = None]],
         expires |-> r.expires, ok |-> r.ok]
  BY <1>1, <1>3, <1>5 DEF Put
<1>8. Put(s, i, k, None, None) =
        [dict |-> [s.dict EXCEPT ![i] = [s.dict[i] EXCEPT ![k] = None]],
         expires |-> [s.expires EXCEPT ![i] = [s.expires[i] EXCEPT ![k] = None]],
         ok |-> s.ok]
  BY <1>1 DEF Put
<1>9. QED
  BY <1>3, <1>6, <1>7, <1>8

LEMMA DeleteOK ==
  ASSUME NEW s, Sound(s), NEW i \in DBs, NEW k \in Keys
  PROVE  /\ Sound(dbDelete(s, i, k))
         /\ ~ Present(dbDelete(s, i, k), i, k)
         /\ \A j \in DBs, m \in Keys :
              j # i \/ m # k => dbDelete(s, i, k).dict[j][m] = s.dict[j][m]
  BY DeleteIs, PutOK DEF Present

\* A key that is not there has no entry in expires, so a new string is easily
\* found for it.
LEMMA AddOK ==
  ASSUME NEW s, Sound(s), NEW i \in DBs, NEW k \in Keys, NEW v \in Vals,
         ~ Present(s, i, k)
  PROVE  /\ Sound(dbAdd(s, i, k, v))
         /\ Present(dbAdd(s, i, k, v), i, k)
         /\ \A j \in DBs, m \in Keys :
              j # i \/ m # k => dbAdd(s, i, k, v).dict[j][m] = s.dict[j][m]
<1> DEFINE e == [str |-> NewStr(s, i, k), val |-> v]
<1>1. s.expires[i][k] = None
  BY DEF Sound, Present
<1>2. NewStr(s, i, k) \in Strs
  BY <1>1 DEF NewStr, Strs
<1>3. e \in KeyEntry /\ e # None
  BY <1>2, NoneAssumption DEF KeyEntry
<1>4. dbAdd(s, i, k, v) = Put(s, i, k, e, None)
  BY <1>1 DEF dbAdd
<1> HIDE DEF e
<1>5. QED
  BY <1>3, <1>4, PutOK DEF Present

LEMMA OverwriteOK ==
  ASSUME NEW s, Sound(s), NEW i \in DBs, NEW k \in Keys, NEW v \in Vals,
         Present(s, i, k)
  PROVE  /\ Sound(dbOverwrite(s, i, k, v))
         /\ Present(dbOverwrite(s, i, k, v), i, k)
<1> DEFINE e == [str |-> s.dict[i][k].str, val |-> v]
           x == s.expires[i][k]
<1>1. e \in KeyEntry /\ e # None
  BY EntryType, NoneAssumption DEF KeyEntry
<1>2. x \in ExpireEntry \cup {None} /\ (x # None => x.str = e.str)
  BY DEF Sound
<1>3. dbOverwrite(s, i, k, v) = Put(s, i, k, e, x)
  BY DEF dbOverwrite
<1> HIDE DEF e, x
<1>4. QED
  BY <1>1, <1>2, <1>3, PutOK DEF Present

LEMMA RemoveExpireOK ==
  ASSUME NEW s, Sound(s), NEW i \in DBs, NEW k \in Keys, Present(s, i, k)
  PROVE  Sound(removeExpire(s, i, k)) /\ Present(removeExpire(s, i, k), i, k)
<1>1. s.dict[i][k] \in KeyEntry \cup {None} /\ s.dict[i][k] # None
  BY DEF Sound, Present
<1>2. removeExpire(s, i, k) = Put(s, i, k, s.dict[i][k], None)
  BY DEF removeExpire
<1>3. QED
  BY <1>1, <1>2, PutOK DEF Present

LEMMA SetExpireOK ==
  ASSUME NEW s, Sound(s), NEW i \in DBs, NEW k \in Keys, Present(s, i, k),
         NEW w \in Times
  PROVE  Sound(setExpire(s, i, k, w))
<1> DEFINE e == s.dict[i][k]
           x == [str |-> e.str, when |-> w]
<1>1. e.str \in Strs
  BY EntryType
<1>2. e \in KeyEntry /\ e # None
  BY DEF Sound, Present
<1>3. x \in ExpireEntry /\ x.str = e.str
  BY <1>1 DEF ExpireEntry
<1>4. (IF s.expires[i][k] = None THEN e.str ELSE s.expires[i][k].str) = e.str
  BY DEF Sound
<1>5. setExpire(s, i, k, w) = Put(s, i, k, e, x)
  BY <1>4 DEF setExpire
<1> HIDE DEF e, x
<1>6. QED
  BY <1>2, <1>3, <1>5, PutOK

LEMMA ExpireIfNeededOK ==
  ASSUME NEW s, Sound(s), NEW i \in DBs, NEW k \in Keys, NEW t
  PROVE  /\ Sound(expireIfNeeded(s, i, k, t))
         /\ \A j \in DBs, m \in Keys : j # i \/ m # k =>
              expireIfNeeded(s, i, k, t).dict[j][m] = s.dict[j][m]
<1>1. expireIfNeeded(s, i, k, t) = s \/ expireIfNeeded(s, i, k, t) = dbDelete(s, i, k)
  BY DEF expireIfNeeded, Sound, Present
<1>2. QED
  BY <1>1, DeleteOK

LEMMA SetKeyOK ==
  ASSUME NEW s, Sound(s), NEW i \in DBs, NEW k \in Keys, NEW v \in Vals, NEW t
  PROVE  Sound(setKey(s, i, k, v, t)) /\ Present(setKey(s, i, k, v, t), i, k)
<1> DEFINE l == expireIfNeeded(s, i, k, t)
           w == IF Present(l, i, k) THEN dbOverwrite(l, i, k, v) ELSE dbAdd(l, i, k, v)
<1>1. Sound(l)
  BY ExpireIfNeededOK
<1>2. Sound(w) /\ Present(w, i, k)
  <2> HIDE DEF l
  <2>1. CASE Present(l, i, k)
    BY <1>1, <2>1, OverwriteOK
  <2>2. CASE ~ Present(l, i, k)
    BY <1>1, <2>2, AddOK
  <2>3. QED
    BY <2>1, <2>2
<1> HIDE DEF w
<1>3. QED
  BY <1>2, RemoveExpireOK DEF setKey, w

LEMMA WithoutOK ==
  ASSUME NEW s, Sound(s), NEW i \in DBs, NEW D
  PROVE  Sound(Without(s, i, D))
<1> DEFINE r == Without(s, i, D)
<1>1. /\ s.dict \in [DBs -> [Keys -> KeyEntry \cup {None}]]
      /\ s.expires \in [DBs -> [Keys -> ExpireEntry \cup {None}]]
      /\ s.ok = TRUE
  BY DEF Sound
<1>2. /\ r = [dict |-> r.dict, expires |-> r.expires, ok |-> r.ok]
      /\ r.dict = [s.dict EXCEPT ![i] =
                     [k \in Keys |-> IF k \in D THEN None ELSE s.dict[i][k]]]
      /\ r.expires = [s.expires EXCEPT ![i] =
                        [k \in Keys |-> IF k \in D THEN None ELSE s.expires[i][k]]]
      /\ r.ok = TRUE
  BY <1>1 DEF Without, Sound
<1> HIDE DEF r
<1>3. /\ r.dict \in [DBs -> [Keys -> KeyEntry \cup {None}]]
      /\ r.expires \in [DBs -> [Keys -> ExpireEntry \cup {None}]]
  BY <1>1, <1>2
<1>4. \A j \in DBs, m \in Keys :
        /\ r.dict[j][m] = IF j = i /\ m \in D THEN None ELSE s.dict[j][m]
        /\ r.expires[j][m] = IF j = i /\ m \in D THEN None ELSE s.expires[j][m]
  BY <1>1, <1>2
<1>5. \A j \in DBs, m \in Keys :
        r.expires[j][m] # None =>
          r.dict[j][m] # None /\ r.expires[j][m].str = r.dict[j][m].str
  BY <1>4 DEF Sound
<1>6. Sound(r)
  BY <1>2, <1>3, <1>5 DEF Sound
<1>7. QED
  BY <1>6 DEF r
-----------------------------------------------------------------------------
(* Commands.                                                               *)

LEMMA ClockType ==
  ASSUME now \in 0 .. MaxTime, NEW t \in now .. MaxTime
  PROVE  t \in 0 .. MaxTime
  BY TimeAssumption

\* The sum of a reading of the clock and a relative time is stored as a time.
LEMMA WrapType ==
  ASSUME NEW t \in 0 .. MaxTime, NEW ttl \in TTLs
  PROVE  Wrap(t + ttl) \in Times
<1>1. /\ t \in Int /\ ttl \in Int /\ LLMax \in Nat
      /\ 0 <= t /\ t <= LLMax /\ -LLMax <= ttl /\ ttl <= LLMax
  BY TimeAssumption
<1> HIDE DEF Wrap
<1>2. CASE t + ttl > LLMax
  BY <1>1, <1>2 DEF Wrap, Times
<1>3. CASE ~ (t + ttl > LLMax)
  BY <1>1, <1>3 DEF Wrap, Times
<1>4. QED
  BY <1>2, <1>3

LEMMA SetStep ==
  ASSUME Inv, NEW i \in DBs, NEW k \in Keys, NEW v \in Vals,
         NEW flags \in SUBSET {"NX", "XX"}, NEW ttl \in TTLs \cup {None},
         Set(i, k, v, flags, ttl)
  PROVE  Inv'
<1>1. PICK t1, t2, t3 :
        /\ t1 \in now .. MaxTime /\ t2 \in t1 .. MaxTime /\ t3 \in t2 .. MaxTime
        /\ LET l == IF flags = {} THEN ks ELSE expireIfNeeded(ks, i, k, t1)
               s == setKey(l, i, k, v, t2)
           IN  \/ ks' = l
               \/ ks' = s
               \/ ttl # None /\ ks' = setExpire(s, i, k, Wrap(t3 + ttl))
        /\ now' = t3
  BY DEF Set
<1> DEFINE l == IF flags = {} THEN ks ELSE expireIfNeeded(ks, i, k, t1)
           s == setKey(l, i, k, v, t2)
<1>2. t3 \in 0 .. MaxTime
  BY <1>1, TimeAssumption DEF Inv
<1>3. Sound(l)
  BY ExpireIfNeededOK DEF Inv
<1> HIDE DEF l
<1>4. Sound(s) /\ Present(s, i, k)
  BY <1>3, SetKeyOK
<1> HIDE DEF s
<1>5. ASSUME ttl # None PROVE Sound(setExpire(s, i, k, Wrap(t3 + ttl)))
  BY <1>2, <1>4, <1>5, WrapType, SetExpireOK
<1>6. ks' = l \/ ks' = s \/ (ttl # None /\ ks' = setExpire(s, i, k, Wrap(t3 + ttl)))
  BY <1>1 DEF l, s
<1>7. Sound(ks')
  BY <1>3, <1>4, <1>5, <1>6
<1>8. QED
  BY <1>1, <1>2, <1>7 DEF Inv, Sound

LEMMA AlterStep ==
  ASSUME Inv, NEW i \in DBs, NEW k \in Keys, NEW v \in Vals, Alter(i, k, v)
  PROVE  Inv'
<1>1. PICK t \in now .. MaxTime :
        /\ ks' = IF Present(expireIfNeeded(ks, i, k, t), i, k)
                 THEN dbOverwrite(expireIfNeeded(ks, i, k, t), i, k, v)
                 ELSE dbAdd(expireIfNeeded(ks, i, k, t), i, k, v)
        /\ now' = t
  BY DEF Alter
<1>2. Sound(expireIfNeeded(ks, i, k, t))
  BY ExpireIfNeededOK DEF Inv
<1>3. Sound(ks')
  BY <1>1, <1>2, OverwriteOK, AddOK
<1>4. QED
  BY <1>1, <1>3, ClockType DEF Inv, Sound

LEMMA RenameStep ==
  ASSUME Inv, NEW i \in DBs, NEW k \in Keys, NEW m \in Keys, NEW nx \in BOOLEAN,
         Rename(i, k, m, nx)
  PROVE  Inv'
<1>1. PICK t1, t2 :
        /\ t1 \in now .. MaxTime /\ t2 \in t1 .. MaxTime
        /\ now' = t2
        /\ LET l == expireIfNeeded(ks, i, k, t1)
               r == expireIfNeeded(l, i, m, t2)
           IN  \/ ks' = ks
               \/ ks' = l
               \/ ks' = r
               \/ /\ k # m /\ Present(l, i, k)
                  /\ ks' = Renamed(r, i, k, m, getExpire(l, i, k))
  BY DEF Rename
<1> DEFINE l == expireIfNeeded(ks, i, k, t1)
           r == expireIfNeeded(l, i, m, t2)
           w == getExpire(l, i, k)
<1>2. t2 \in 0 .. MaxTime
  BY <1>1, TimeAssumption DEF Inv
<1>3. Sound(l)
  BY ExpireIfNeededOK DEF Inv
<1> HIDE DEF l
<1>4. Sound(r) /\ (k # m => r.dict[i][k] = l.dict[i][k])
  BY <1>3, ExpireIfNeededOK
<1> HIDE DEF r
<1>5. w \in Times
  BY <1>3, GetExpireType
<1> HIDE DEF w
<1>6. ASSUME k # m, Present(l, i, k)
      PROVE  Sound(Renamed(r, i, k, m, w))
  <2> DEFINE free == IF Present(r, i, m) THEN dbDelete(r, i, m) ELSE r
             val == r.dict[i][k].val
             new == dbAdd(free, i, m, val)
             dated == IF w # -1 THEN setExpire(new, i, m, w) ELSE new
  <2>1. val \in Vals
    BY <1>4, <1>6, EntryType DEF Present
  <2>2. Sound(free) /\ ~ Present(free, i, m)
    BY <1>4, DeleteOK
  <2> HIDE DEF free, val
  <2>3. Sound(new) /\ Present(new, i, m)
    BY <2>1, <2>2, AddOK
  <2> HIDE DEF new
  <2>4. Sound(dated)
    BY <2>3, <1>5, SetExpireOK
  <2> HIDE DEF dated
  <2>5. Renamed(r, i, k, m, w) = dbDelete(dated, i, k)
    BY DEF Renamed, dated, new, free, val
  <2>6. QED
    BY <2>4, <2>5, DeleteOK
<1>7. Sound(ks')
  BY <1>1, <1>3, <1>4, <1>6 DEF Inv, l, r, w
<1>8. QED
  BY <1>1, <1>2, <1>7 DEF Inv, Sound

LEMMA MoveStep ==
  ASSUME Inv, NEW i \in DBs, NEW j \in DBs, NEW k \in Keys, Move(i, j, k)
  PROVE  Inv'
<1>1. PICK t1, t2 :
        /\ t1 \in now .. MaxTime /\ t2 \in t1 .. MaxTime
        /\ now' = t2
        /\ LET l == expireIfNeeded(ks, i, k, t1)
               r == expireIfNeeded(l, j, k, t2)
           IN  \/ ks' = ks
               \/ ks' = l
               \/ ks' = r
               \/ /\ Present(l, i, k) /\ ~ Present(r, j, k)
                  /\ ks' = dbDelete(dbAdd(r, j, k, l.dict[i][k].val), i, k)
  BY DEF Move
<1> DEFINE l == expireIfNeeded(ks, i, k, t1)
           r == expireIfNeeded(l, j, k, t2)
           val == l.dict[i][k].val
<1>2. t2 \in 0 .. MaxTime
  BY <1>1, TimeAssumption DEF Inv
<1>3. Sound(l)
  BY ExpireIfNeededOK DEF Inv
<1> HIDE DEF l
<1>4. Sound(r)
  BY <1>3, ExpireIfNeededOK
<1> HIDE DEF r
<1>5. ASSUME Present(l, i, k), ~ Present(r, j, k)
      PROVE  Sound(dbDelete(dbAdd(r, j, k, val), i, k))
  <2>1. val \in Vals
    BY <1>3, <1>5, EntryType
  <2> HIDE DEF val
  <2>2. Sound(dbAdd(r, j, k, val))
    BY <1>4, <1>5, <2>1, AddOK
  <2>3. QED
    BY <2>2, DeleteOK
<1>6. Sound(ks')
  BY <1>1, <1>3, <1>4, <1>5 DEF Inv, l, r
<1>7. QED
  BY <1>1, <1>2, <1>6 DEF Inv, Sound
-----------------------------------------------------------------------------
(* The theorems.                                                           *)

LEMMA InitOK == Init => Inv
<1> SUFFICES ASSUME Init PROVE Inv
  OBVIOUS
<1>1. now \in 0 .. MaxTime
  BY TimeAssumption DEF Init
<1>2. Sound(ks)
  BY DEF Init, Sound
<1>3. QED
  BY <1>1, <1>2 DEF Inv

LEMMA NextOK == Inv /\ [Next]_vars => Inv'
<1> SUFFICES ASSUME Inv, [Next]_vars PROVE Inv'
  OBVIOUS
<1>1. ASSUME NEW i \in DBs, NEW k \in Keys, NEW v \in Vals,
             NEW flags \in SUBSET {"NX", "XX"}, NEW ttl \in TTLs \cup {None},
             Set(i, k, v, flags, ttl)
      PROVE  Inv'
  BY <1>1, SetStep
<1>2. ASSUME NEW i \in DBs, NEW k \in Keys, NEW v \in Vals, Alter(i, k, v)
      PROVE  Inv'
  BY <1>2, AlterStep
<1>3. ASSUME NEW i \in DBs, NEW k \in Keys, Lookup(i, k)
      PROVE  Inv'
  <2>1. PICK t \in now .. MaxTime : ks' = expireIfNeeded(ks, i, k, t) /\ now' = t
    BY <1>3 DEF Lookup
  <2>2. Sound(ks')
    BY <2>1, ExpireIfNeededOK DEF Inv
  <2>3. QED
    BY <2>1, <2>2, ClockType DEF Inv, Sound
<1>4. ASSUME NEW i \in DBs, NEW k \in Keys, Del(i, k)
      PROVE  Inv'
  <2>1. PICK t \in now .. MaxTime :
          ks' = dbDelete(expireIfNeeded(ks, i, k, t), i, k) /\ now' = t
    BY <1>4 DEF Del
  <2>2. Sound(expireIfNeeded(ks, i, k, t))
    BY ExpireIfNeededOK DEF Inv
  <2>3. Sound(ks')
    BY <2>1, <2>2, DeleteOK
  <2>4. QED
    BY <2>1, <2>3, ClockType DEF Inv, Sound
<1>5. ASSUME ActiveExpireCycle PROVE Inv'
  <2>1. (\E i \in DBs : \E X : ks' = Without(ks, i, X)) \/ ks' = ks
    BY <1>5 DEF ActiveExpireCycle, CycleStart, NextDB, Skip, Sample
  <2>2. Sound(ks')
    BY <2>1, WithoutOK DEF Inv
  <2>3. now' = now
    BY <1>5 DEF ActiveExpireCycle, CycleStart, NextDB, Skip, Sample
  <2>4. QED
    BY <2>2, <2>3 DEF Inv, Sound
<1>6. ASSUME NEW i \in DBs, NEW k \in Keys, NEW m \in Keys, NEW nx \in BOOLEAN,
             Rename(i, k, m, nx)
      PROVE  Inv'
  BY <1>6, RenameStep
<1>7. ASSUME NEW i \in DBs, NEW k \in Keys, NEW j \in DBs, Move(i, j, k)
      PROVE  Inv'
  BY <1>7, MoveStep
<1>8. ASSUME NEW i \in DBs, RandomKey(i)
      PROVE  Inv'
  <2>1. PICK t \in now .. MaxTime : \E D : ks' = Without(ks, i, D) /\ now' = t
    BY <1>8 DEF RandomKey
  <2>2. Sound(ks')
    BY <2>1, WithoutOK DEF Inv
  <2>3. QED
    BY <2>1, <2>2, ClockType DEF Inv, Sound
<1>9. ASSUME NEW i \in DBs, NEW P \in SUBSET Keys, KeysOf(i, P)
      PROVE  Inv'
  <2>1. PICK t \in now .. MaxTime : \E D : ks' = Without(ks, i, D) /\ now' = t
    BY <1>9 DEF KeysOf
  <2>2. Sound(ks')
    BY <2>1, WithoutOK DEF Inv
  <2>3. QED
    BY <2>1, <2>2, ClockType DEF Inv, Sound
<1>10. CASE Tick
  BY <1>10, TimeAssumption DEF Tick, Inv, Sound
<1>11. CASE UNCHANGED vars
  BY <1>11 DEF vars, Inv, Sound
<1>12. QED
  BY <1>1, <1>2, <1>3, <1>4, <1>5, <1>6, <1>7, <1>8, <1>9, <1>10, <1>11
     DEF Next, Command

\* What activeExpireCycle keeps between its steps and its calls.
LEMMA CronInit == Init => CronType
<1>1. 0 \in DBs /\ 0 \in 0 .. dbnum /\ 0 \in 0 .. CheckEvery - 1
  BY CycleAssumption DEF DBs
<1>2. QED
  BY <1>1 DEF Init, CronType

LEMMA CronNext == CronType /\ [Next]_vars => CronType'
<1> SUFFICES ASSUME CronType, [Next]_vars PROVE CronType'
  OBVIOUS
<1>1. CASE UNCHANGED cron
  BY <1>1 DEF CronType
<1>2. CASE CycleStart
  <2>1. PICK n \in {dbnum, DbsPerCall} :
          /\ n = DbsPerCall => ~ (DbsPerCall > dbnum) \/ n = dbnum
          /\ cron' = [cron EXCEPT !.left = n, !.round = 0, !.exit = FALSE]
    BY <1>2 DEF CycleStart
  <2>2. n \in 0 .. dbnum /\ 0 \in 0 .. CheckEvery - 1
    BY <2>1, CycleAssumption
  <2>3. QED
    BY <2>1, <2>2 DEF CronType
<1>3. CASE NextDB
  <2>1. (cron.current + 1) % dbnum \in DBs
    BY CycleAssumption DEF CronType, DBs
  <2>2. cron.left - 1 \in 0 .. dbnum
    BY <1>3, CycleAssumption DEF NextDB, CronType
  <2>3. cron.current \in DBs
    BY DEF CronType
  <2>4. cron' = [cron EXCEPT !.at = cron.current, !.left = cron.left - 1,
                             !.current = (cron.current + 1) % dbnum]
    BY <1>3 DEF NextDB, CronType
  <2>5. QED
    BY <2>1, <2>2, <2>3, <2>4 DEF CronType
<1>4. CASE Skip
  BY <1>4 DEF Skip, CronType
<1>5. ASSUME NEW i \in DBs, NEW X \in SUBSET Keys, Sample(i, X) PROVE CronType'
  <2>1. (cron.round + 1) % CheckEvery \in 0 .. CheckEvery - 1
    BY CycleAssumption DEF CronType
  <2>2. 0 \in 0 .. dbnum /\ 0 \in 0 .. CheckEvery - 1
    BY CycleAssumption
  <2>3. PICK at \in {i, None}, round \in 0 .. CheckEvery - 1 :
          \/ cron' = [cron EXCEPT !.left = 0, !.at = None, !.round = 0, !.exit = TRUE]
          \/ cron' = [cron EXCEPT !.round = round, !.at = at]
    BY <1>5, <2>1 DEF Sample
  <2>4. QED
    BY <2>2, <2>3 DEF CronType
<1>6. QED
  BY <1>1, <1>2, <1>3, <1>4, <1>5 DEF Next, ActiveExpireCycle, Tick, vars

\* The keyspace is sound in every reachable state: the invariant the theorems
\* below are read off from.
THEOREM Invariance == Spec => []Inv
<1>1. QED
  BY InitOK, NextOK, PTL DEF Spec

\* The variables keep their types: a time of death that overflows is still a
\* long long.
THEOREM TypeCorrect == Spec => []TypeOK
<1>1. Inv /\ CronType => TypeOK
  BY DEF Inv, Sound, TypeOK, CronType
<1>2. Spec => []CronType
  BY CronInit, CronNext, PTL DEF Spec
<1>3. QED
  BY <1>1, <1>2, Invariance, PTL

\* No assertion of db.c fails, wherever between two lookups of a command a key
\* dies.
THEOREM NoAssertFails == Spec => []AssertsHold
<1>1. Inv => AssertsHold
  BY DEF Inv, Sound, AssertsHold
<1>2. QED
  BY <1>1, Invariance, PTL

\* expires never has a key that dict has not, nor a key string dict has freed.
THEOREM ExpiresWithinDict == Spec => []ExpiresBorrow
<1>1. Inv => ExpiresBorrow
  BY DEF Inv, Sound, ExpiresBorrow, Present
<1>2. QED
  BY <1>1, Invariance, PTL
-----------------------------------------------------------------------------
(* What clients see.                                                       *)

\* No expire time is in the past when it is given, and none is beyond the
\* largest long long.  (The commands refuse the one; nothing refuses the other.)
TimesFit == \A ttl \in TTLs : ttl \in Nat /\ MaxTime + ttl <= LLMax

Dated(s) ==
  \A i \in DBs, k \in Keys :
    s.expires[i][k] # None => s.expires[i][k].when \in Nat

\* The invariant of the refinement: a time of death is never negative, so that
\* the timer and the lookups mean the same by it.
Timely(s) == Sound(s) /\ Dated(s)

\* A key with its time of death, were the clock to stand still.
LifeAt(s, i, k) ==
  IF Present(s, i, k)
  THEN [val |-> s.dict[i][k].val, when |-> getExpire(s, i, k)]
  ELSE None

\* What is seen of it at time t.
Seen(x, t) == IF Logical!Alive(x, t) THEN x ELSE None

ViewAt(s, t) == [i \in DBs |-> [k \in Keys |-> Seen(LifeAt(s, i, k), t)]]

\* A key that is there has a value and a time of death.
LEMMA LifeType ==
  ASSUME NEW s, Sound(s), NEW i \in DBs, NEW k \in Keys
  PROVE  /\ LifeAt(s, i, k) \in Life \cup {None}
         /\ LifeAt(s, i, k) # None <=> Present(s, i, k)
<1>1. getExpire(s, i, k) \in Times
  BY GetExpireType
<1>2. ASSUME Present(s, i, k) PROVE s.dict[i][k].val \in Vals
  BY <1>2, EntryType
<1>3. QED
  BY <1>1, <1>2, NoneAssumption DEF LifeAt, Life

\* What has been seen to be dead stays dead, and what is alive later is alive
\* now.
LEMMA SeenLater ==
  ASSUME NEW x \in Life \cup {None}, NEW t \in Int, NEW u \in Int, t <= u
  PROVE  /\ Seen(Seen(x, t), u) = Seen(x, u)
         /\ Logical!Alive(Seen(x, t), u) <=> Logical!Alive(x, u)
         /\ Seen(x, t) \in Life \cup {None}
         /\ Seen(None, t) = None
<1>1. x # None => x.when \in Int
  BY TimeAssumption DEF Life, Times
<1>2. QED
  BY <1>1 DEF Seen, Logical!Alive

\* View is what is seen of the keyspace now.
LEMMA ViewIs ==
  ASSUME NEW s, Sound(s), NEW t \in Int
  PROVE  ViewAt(s, t) =
           [i \in DBs |-> [k \in Keys |->
             IF ~ Present(s, i, k) \/ k \in Dead(s, i, t) THEN None
             ELSE [val |-> s.dict[i][k].val, when |-> getExpire(s, i, k)]]]
<1>1. ASSUME NEW i \in DBs, NEW k \in Keys
      PROVE  Seen(LifeAt(s, i, k), t) =
               IF ~ Present(s, i, k) \/ k \in Dead(s, i, t) THEN None
               ELSE [val |-> s.dict[i][k].val, when |-> getExpire(s, i, k)]
  <2>1. getExpire(s, i, k) \in Int
    BY GetExpireType, TimeAssumption DEF Times
  <2>2. CASE ~ Present(s, i, k)
    BY <2>2 DEF Seen, LifeAt
  <2>3. CASE Present(s, i, k)
    <3> DEFINE x == [val |-> s.dict[i][k].val, when |-> getExpire(s, i, k)]
    <3>1. LifeAt(s, i, k) = x /\ x # None /\ x.when = getExpire(s, i, k)
      BY <2>3, LifeType DEF LifeAt
    <3>2. k \in Dead(s, i, t) <=> getExpire(s, i, k) >= 0 /\ t > getExpire(s, i, k)
      BY <2>3 DEF Dead, Expired
    <3> HIDE DEF x
    <3>3. Logical!Alive(x, t) <=> ~ (k \in Dead(s, i, t))
      BY <2>1, <3>1, <3>2 DEF Logical!Alive
    <3>4. QED
      BY <2>3, <3>1, <3>3 DEF Seen, x
  <2>4. QED
    BY <2>2, <2>3
<1>2. QED
  BY <1>1 DEF ViewAt
-----------------------------------------------------------------------------
(* What the functions of db.c do to a life.                                *)

\* r is s but for key k of database i, which now lives y.
Only(s, r, i, k, y) ==
  /\ Timely(r)
  /\ LifeAt(r, i, k) = y
  /\ \A j \in DBs, m \in Keys : j # i \/ m # k => LifeAt(r, j, m) = LifeAt(s, j, m)

\* Put gives one key a life, and leaves every other as it is.
LEMMA PutLife ==
  ASSUME NEW s, Timely(s), NEW i \in DBs, NEW k \in Keys,
         NEW e \in KeyEntry \cup {None}, NEW x \in ExpireEntry \cup {None},
         x # None => e # None /\ x.str = e.str /\ x.when \in Nat
  PROVE  Only(s, Put(s, i, k, e, x), i, k,
              IF e = None THEN None
              ELSE [val |-> e.val, when |-> IF x = None THEN -1 ELSE x.when])
<1> DEFINE r == Put(s, i, k, e, x)
<1>1. Sound(r)
  BY PutOK DEF Timely
<1>2. /\ s.dict \in [DBs -> [Keys -> KeyEntry \cup {None}]]
      /\ s.expires \in [DBs -> [Keys -> ExpireEntry \cup {None}]]
  BY DEF Timely, Sound
<1>3. /\ r.dict = [s.dict EXCEPT ![i] = [s.dict[i] EXCEPT ![k] = e]]
      /\ r.expires = [s.expires EXCEPT ![i] = [s.expires[i] EXCEPT ![k] = x]]
  BY <1>2 DEF Put
<1> HIDE DEF r
<1>4. \A j \in DBs, m \in Keys :
        /\ r.dict[j][m] = IF j = i /\ m = k THEN e ELSE s.dict[j][m]
        /\ r.expires[j][m] = IF j = i /\ m = k THEN x ELSE s.expires[j][m]
  BY <1>2, <1>3
<1>5. Timely(r)
  BY <1>1, <1>4 DEF Timely, Dated
<1>6. LifeAt(r, i, k) =
        IF e = None THEN None
        ELSE [val |-> e.val, when |-> IF x = None THEN -1 ELSE x.when]
  BY <1>4 DEF LifeAt, Present, getExpire
<1>7. ASSUME NEW j \in DBs, NEW m \in Keys, j # i \/ m # k
      PROVE  LifeAt(r, j, m) = LifeAt(s, j, m)
  BY <1>4, <1>7 DEF LifeAt, Present, getExpire
<1>8. QED
  BY <1>5, <1>6, <1>7 DEF Only, r

\* A deleted key lives no more.
LEMMA DeleteLife ==
  ASSUME NEW s, Timely(s), NEW i \in DBs, NEW k \in Keys
  PROVE  Only(s, dbDelete(s, i, k), i, k, None)
  BY DeleteIs, PutLife DEF Timely

\* A new key never dies.
LEMMA AddLife ==
  ASSUME NEW s, Timely(s), NEW i \in DBs, NEW k \in Keys, NEW v \in Vals,
         ~ Present(s, i, k)
  PROVE  Only(s, dbAdd(s, i, k, v), i, k, [val |-> v, when |-> -1])
<1> DEFINE e == [str |-> NewStr(s, i, k), val |-> v]
<1>1. s.expires[i][k] = None
  BY DEF Timely, Sound, Present
<1>2. NewStr(s, i, k) \in Strs
  BY <1>1 DEF NewStr, Strs
<1>3. e \in KeyEntry /\ e # None /\ e.val = v
  BY <1>2, NoneAssumption DEF KeyEntry
<1>4. dbAdd(s, i, k, v) = Put(s, i, k, e, None)
  BY <1>1 DEF dbAdd
<1> HIDE DEF e
<1>5. Only(s, Put(s, i, k, e, None), i, k, [val |-> e.val, when |-> -1])
  BY <1>3, PutLife
<1>6. QED
  BY <1>3, <1>4, <1>5

\* A key that is overwritten keeps its time of death.
LEMMA OverwriteLife ==
  ASSUME NEW s, Timely(s), NEW i \in DBs, NEW k \in Keys, NEW v \in Vals,
         Present(s, i, k)
  PROVE  Only(s, dbOverwrite(s, i, k, v), i, k,
              [val |-> v, when |-> getExpire(s, i, k)])
<1> DEFINE e == [str |-> s.dict[i][k].str, val |-> v]
           x == s.expires[i][k]
<1>1. e \in KeyEntry /\ e # None /\ e.val = v
  BY EntryType, NoneAssumption DEF KeyEntry, Timely
<1>2. /\ x \in ExpireEntry \cup {None}
      /\ x # None => e # None /\ x.str = e.str /\ x.when \in Nat
  BY <1>1 DEF Timely, Sound, Dated
<1>3. dbOverwrite(s, i, k, v) = Put(s, i, k, e, x)
  BY DEF dbOverwrite
<1>4. getExpire(s, i, k) = IF x = None THEN -1 ELSE x.when
  BY DEF getExpire
<1> HIDE DEF e, x
<1>5. Only(s, Put(s, i, k, e, x), i, k,
           [val |-> e.val, when |-> IF x = None THEN -1 ELSE x.when])
  BY <1>1, <1>2, PutLife
<1>6. QED
  BY <1>1, <1>3, <1>4, <1>5

\* removeExpire leaves the value, and the key never dies.
LEMMA RemoveExpireLife ==
  ASSUME NEW s, Timely(s), NEW i \in DBs, NEW k \in Keys, Present(s, i, k)
  PROVE  Only(s, removeExpire(s, i, k), i, k,
              [val |-> s.dict[i][k].val, when |-> -1])
<1>1. s.dict[i][k] \in KeyEntry \cup {None} /\ s.dict[i][k] # None
  BY DEF Timely, Sound, Present
<1>2. removeExpire(s, i, k) = Put(s, i, k, s.dict[i][k], None)
  BY DEF removeExpire
<1>3. QED
  BY <1>1, <1>2, PutLife

\* setExpire leaves the value, and the key dies at w.
LEMMA SetExpireLife ==
  ASSUME NEW s, Timely(s), NEW i \in DBs, NEW k \in Keys, Present(s, i, k),
         NEW w \in Times \cap Nat
  PROVE  Only(s, setExpire(s, i, k, w), i, k,
              [val |-> s.dict[i][k].val, when |-> w])
<1> DEFINE e == s.dict[i][k]
           x == [str |-> e.str, when |-> w]
<1>1. e.str \in Strs
  BY EntryType DEF Timely
<1>2. e \in KeyEntry /\ e # None
  BY DEF Timely, Sound, Present
<1>3. x \in ExpireEntry /\ x.str = e.str /\ x.when = w /\ x # None
  BY <1>1, NoneAssumption DEF ExpireEntry
<1>4. (IF s.expires[i][k] = None THEN e.str ELSE s.expires[i][k].str) = e.str
  BY DEF Timely, Sound
<1>5. setExpire(s, i, k, w) = Put(s, i, k, e, x)
  BY <1>4 DEF setExpire
<1> HIDE DEF x
<1>6. Only(s, Put(s, i, k, e, x), i, k, [val |-> e.val, when |-> w])
  BY <1>2, <1>3, PutLife
<1>7. QED
  BY <1>5, <1>6

\* A lookup deletes what is dead by then.
LEMMA LookupLife ==
  ASSUME NEW s, Timely(s), NEW i \in DBs, NEW k \in Keys, NEW t \in Int
  PROVE  Only(s, expireIfNeeded(s, i, k, t), i, k, Seen(LifeAt(s, i, k), t))
<1>1. getExpire(s, i, k) \in Int
  BY GetExpireType, TimeAssumption DEF Times, Timely
<1>2. expireIfNeeded(s, i, k, t) =
        IF Expired(getExpire(s, i, k), t) THEN dbDelete(s, i, k) ELSE s
  BY DEF expireIfNeeded, Timely, Sound, Present
<1>3. CASE Expired(getExpire(s, i, k), t)
  <2>1. Seen(LifeAt(s, i, k), t) = None
    BY <1>1, <1>3, LifeType DEF Seen, LifeAt, Logical!Alive, Expired, Timely
  <2>2. QED
    BY <1>2, <1>3, <2>1, DeleteLife
<1>4. CASE ~ Expired(getExpire(s, i, k), t)
  <2>1. Seen(LifeAt(s, i, k), t) = LifeAt(s, i, k)
    BY <1>1, <1>4, LifeType DEF Seen, LifeAt, Logical!Alive, Expired, Timely
  <2>2. QED
    BY <1>2, <1>4, <2>1 DEF Only
<1>5. QED
  BY <1>3, <1>4

\* SET gives the key the value and no time of death, whatever was there.
LEMMA SetKeyLife ==
  ASSUME NEW s, Timely(s), NEW i \in DBs, NEW k \in Keys, NEW v \in Vals, NEW t \in Int
  PROVE  Only(s, setKey(s, i, k, v, t), i, k, [val |-> v, when |-> -1])
<1> DEFINE l == expireIfNeeded(s, i, k, t)
           w == IF Present(l, i, k) THEN dbOverwrite(l, i, k, v) ELSE dbAdd(l, i, k, v)
<1>1. Only(s, l, i, k, Seen(LifeAt(s, i, k), t))
  BY LookupLife
<1> HIDE DEF l
<1>2. Timely(l)
  BY <1>1 DEF Only
<1>3. \E n : Only(l, w, i, k, [val |-> v, when |-> n])
  <2>1. CASE Present(l, i, k)
    BY <1>2, <2>1, OverwriteLife
  <2>2. CASE ~ Present(l, i, k)
    BY <1>2, <2>2, AddLife
  <2>3. QED
    BY <2>1, <2>2
<1> HIDE DEF w
<1>4. PICK n : Only(l, w, i, k, [val |-> v, when |-> n])
  BY <1>3
<1>5. Present(w, i, k)
  <2>1. CASE Present(l, i, k)
    BY <1>2, <2>1, OverwriteOK DEF w, Timely
  <2>2. CASE ~ Present(l, i, k)
    BY <1>2, <2>2, AddOK DEF w, Timely
  <2>3. QED
    BY <2>1, <2>2
<1>6. Timely(w) /\ w.dict[i][k].val = v
  <2>1. Timely(w) /\ LifeAt(w, i, k) = [val |-> v, when |-> n]
    BY <1>4 DEF Only
  <2>2. [val |-> w.dict[i][k].val, when |-> getExpire(w, i, k)] = [val |-> v, when |-> n]
    BY <2>1, <1>5 DEF LifeAt
  <2>3. QED
    BY <2>1, <2>2
<1>7. Only(w, removeExpire(w, i, k), i, k, [val |-> v, when |-> -1])
  BY <1>5, <1>6, RemoveExpireLife
<1>8. setKey(s, i, k, v, t) = removeExpire(w, i, k)
  BY DEF setKey, w, l
<1>9. QED
  BY <1>1, <1>4, <1>7, <1>8 DEF Only
-----------------------------------------------------------------------------
(* What a command does to the view.                                        *)

\* From time u on r looks like s.
Fades(s, r, u) ==
  /\ Timely(r)
  /\ \A i \in DBs, k \in Keys : Seen(LifeAt(r, i, k), u) = Seen(LifeAt(s, i, k), u)

\* From time u on r looks like s but for key k of database i, which lives y.
Writes(s, r, i, k, y, u) ==
  /\ Timely(r)
  /\ LifeAt(r, i, k) = y
  /\ \A j \in DBs, m \in Keys : j # i \/ m # k =>
       Seen(LifeAt(r, j, m), u) = Seen(LifeAt(s, j, m), u)

\* After a lookup at t, nothing looks different from t on.
LEMMA LookupFades ==
  ASSUME NEW s, Timely(s), NEW i \in DBs, NEW k \in Keys,
         NEW t \in Int, NEW u \in Int, t <= u
  PROVE  Fades(s, expireIfNeeded(s, i, k, t), u)
<1> DEFINE l == expireIfNeeded(s, i, k, t)
<1>1. Only(s, l, i, k, Seen(LifeAt(s, i, k), t))
  BY LookupLife
<1> HIDE DEF l
<1>2. \A j \in DBs, m \in Keys : LifeAt(s, j, m) \in Life \cup {None}
  BY LifeType DEF Timely
<1>3. Seen(LifeAt(l, i, k), u) = Seen(LifeAt(s, i, k), u)
  BY <1>1, <1>2, SeenLater DEF Only
<1>4. QED
  BY <1>1, <1>3 DEF Only, Fades, l

\* A key is found by a lookup just when it is alive then, and then it is as it
\* was.
LEMMA FoundIsAlive ==
  ASSUME NEW s, Timely(s), NEW i \in DBs, NEW k \in Keys, NEW t \in Int
  PROVE  LET l == expireIfNeeded(s, i, k, t)
         IN  /\ Present(l, i, k) <=> Logical!Alive(LifeAt(s, i, k), t)
             /\ Present(l, i, k) =>
                  /\ LifeAt(l, i, k) = LifeAt(s, i, k)
                  /\ LifeAt(s, i, k) =
                       [val |-> l.dict[i][k].val, when |-> getExpire(l, i, k)]
<1> DEFINE l == expireIfNeeded(s, i, k, t)
<1>1. Only(s, l, i, k, Seen(LifeAt(s, i, k), t))
  BY LookupLife
<1> HIDE DEF l
<1>2. Present(l, i, k) <=> Seen(LifeAt(s, i, k), t) # None
  BY <1>1, LifeType DEF Only, Timely
<1>3. Seen(LifeAt(s, i, k), t) # None <=> Logical!Alive(LifeAt(s, i, k), t)
  BY DEF Seen, Logical!Alive
<1>4. ASSUME Present(l, i, k) PROVE LifeAt(l, i, k) = LifeAt(s, i, k)
  BY <1>1, <1>2, <1>4 DEF Only, Seen
<1>5. QED
  BY <1>2, <1>3, <1>4 DEF l, LifeAt

\* The view after a command that only looks.
LEMMA ViewFades ==
  ASSUME NEW s, Timely(s), NEW r, NEW t \in Int, NEW u \in Int, t <= u,
         Fades(s, r, u)
  PROVE  ViewAt(r, u) = Logical!At(ViewAt(s, t), u)
<1>1. ASSUME NEW i \in DBs, NEW k \in Keys
      PROVE  Seen(LifeAt(r, i, k), u) = Seen(Seen(LifeAt(s, i, k), t), u)
  <2>1. LifeAt(s, i, k) \in Life \cup {None}
    BY LifeType DEF Timely
  <2>2. QED
    BY <2>1, SeenLater DEF Fades
<1>2. Logical!At(ViewAt(s, t), u) =
        [i \in DBs |-> [k \in Keys |-> Seen(ViewAt(s, t)[i][k], u)]]
  BY DEF Logical!At, Seen
<1>3. \A i \in DBs, k \in Keys : ViewAt(s, t)[i][k] = Seen(LifeAt(s, i, k), t)
  BY DEF ViewAt
<1>4. QED
  BY <1>1, <1>2, <1>3 DEF ViewAt

\* View b with key k of database i set to y, seen at time u.
Wrote(b, i, k, y, u) == Logical!At([b EXCEPT ![i][k] = y], u)

\* The view after a command that writes one key.
LEMMA ViewWrites ==
  ASSUME NEW s, Timely(s), NEW r, NEW i \in DBs, NEW k \in Keys, NEW y,
         NEW t \in Int, NEW u \in Int, t <= u,
         Writes(s, r, i, k, y, u)
  PROVE  ViewAt(r, u) = Wrote(ViewAt(s, t), i, k, y, u)
<1> DEFINE X == [ViewAt(s, t) EXCEPT ![i][k] = y]
<1>1. \A j \in DBs, m \in Keys :
        X[j][m] = IF j = i /\ m = k THEN y ELSE Seen(LifeAt(s, j, m), t)
  BY DEF ViewAt
<1>2. Logical!At(X, u) = [j \in DBs |-> [m \in Keys |-> Seen(X[j][m], u)]]
  BY DEF Logical!At, Seen
<1> HIDE DEF X
<1>3. ASSUME NEW j \in DBs, NEW m \in Keys
      PROVE  Seen(LifeAt(r, j, m), u) = Seen(X[j][m], u)
  <2>1. CASE j = i /\ m = k
    BY <2>1, <1>1 DEF Writes
  <2>2. CASE ~ (j = i /\ m = k)
    <3>1. LifeAt(s, j, m) \in Life \cup {None}
      BY LifeType DEF Timely
    <3>2. Seen(LifeAt(r, j, m), u) = Seen(LifeAt(s, j, m), u)
      BY <2>2 DEF Writes
    <3>3. QED
      BY <2>2, <3>1, <3>2, <1>1, SeenLater
  <2>3. QED
    BY <2>1, <2>2
<1>4. ViewAt(r, u) = [j \in DBs |-> [m \in Keys |-> Seen(X[j][m], u)]]
  BY <1>3 DEF ViewAt
<1>5. QED
  BY <1>2, <1>4 DEF X, Wrote
-----------------------------------------------------------------------------
(* The commands.                                                           *)

TimelyInv == Timely(ks) /\ now \in 0 .. MaxTime

\* What is needed of a command: the next keyspace is timely, and its view.
LEMMA Views ==
  ASSUME Timely(ks), now \in Int
  PROVE  /\ View = ViewAt(ks, now)
         /\ Timely(ks') /\ now' \in Int => View' = ViewAt(ks', now')
         /\ \A i \in DBs, k \in Keys : View[i][k] = Seen(LifeAt(ks, i, k), now)
<1>1. View = ViewAt(ks, now)
  BY ViewIs DEF View, Timely
<1>2. ASSUME Timely(ks'), now' \in Int PROVE View' = ViewAt(ks', now')
  <2>1. Sound(ks')
    BY <1>2 DEF Timely
  <2>2. QED
    BY <1>2, <2>1, ViewIs DEF View
<1>3. \A i \in DBs, k \in Keys : ViewAt(ks, now)[i][k] = Seen(LifeAt(ks, i, k), now)
  BY DEF ViewAt
<1>4. QED
  BY <1>1, <1>2, <1>3

\* At every moment of a command the view tells the living keys.
LEMMA AliveInView ==
  ASSUME TimelyInv, NEW i \in DBs, NEW k \in Keys, NEW t \in now .. MaxTime
  PROVE  /\ t \in Int /\ now \in Int /\ now <= t
         /\ Logical!Alive(View[i][k], t) <=> Logical!Alive(LifeAt(ks, i, k), t)
         /\ Logical!Alive(View[i][k], t) => View[i][k] = LifeAt(ks, i, k)
<1>1. t \in Int /\ now \in Int /\ now <= t
  BY TimeAssumption DEF TimelyInv
<1>2. View[i][k] = Seen(LifeAt(ks, i, k), now)
  BY <1>1, Views DEF TimelyInv
<1>3. LifeAt(ks, i, k) \in Life \cup {None}
  BY LifeType DEF TimelyInv, Timely
<1>4. Logical!Alive(View[i][k], t) <=> Logical!Alive(LifeAt(ks, i, k), t)
  BY <1>1, <1>2, <1>3, SeenLater
<1>5. Logical!Alive(View[i][k], t) => View[i][k] = LifeAt(ks, i, k)
  BY <1>2 DEF Seen, Logical!Alive
<1>6. QED
  BY <1>1, <1>4, <1>5

\* A command that leaves all as it looks.
LEMMA LookStep ==
  ASSUME TimelyInv, now' \in now .. MaxTime, Fades(ks, ks', now')
  PROVE  TimelyInv' /\ now' >= now /\ View' = Logical!At(View, now')
<1>1. now' \in Int /\ now \in Int /\ now <= now' /\ now' \in 0 .. MaxTime
  BY TimeAssumption DEF TimelyInv
<1>2. Timely(ks')
  BY DEF Fades
<1>3. View = ViewAt(ks, now) /\ View' = ViewAt(ks', now')
  BY <1>1, <1>2, Views DEF TimelyInv
<1>4. ViewAt(ks', now') = Logical!At(ViewAt(ks, now), now')
  BY <1>1, ViewFades DEF TimelyInv
<1>5. TimelyInv'
  BY <1>1, <1>2 DEF TimelyInv, Timely, Sound, Dated
<1>6. QED
  BY <1>1, <1>3, <1>4, <1>5

\* A command that writes one key.
LEMMA WriteStep ==
  ASSUME TimelyInv, now' \in now .. MaxTime, NEW i \in DBs, NEW k \in Keys, NEW y,
         Writes(ks, ks', i, k, y, now')
  PROVE  TimelyInv' /\ now' >= now
         /\ View' = Wrote(View, i, k, y, now')
<1>1. now' \in Int /\ now \in Int /\ now <= now' /\ now' \in 0 .. MaxTime
  BY TimeAssumption DEF TimelyInv
<1>2. Timely(ks')
  BY DEF Writes
<1>3. View = ViewAt(ks, now) /\ View' = ViewAt(ks', now')
  BY <1>1, <1>2, Views DEF TimelyInv
<1>4. ViewAt(ks', now') = Wrote(ViewAt(ks, now), i, k, y, now')
  BY <1>1, ViewWrites DEF TimelyInv
<1>5. TimelyInv'
  BY <1>1, <1>2 DEF TimelyInv, Timely, Sound, Dated
<1>6. QED
  BY <1>1, <1>3, <1>4, <1>5

\* Fading is transitive, and may come before a write.
LEMMA Fading ==
  ASSUME NEW s, NEW l, NEW r, NEW u, Fades(s, l, u)
  PROVE  /\ Fades(l, r, u) => Fades(s, r, u)
         /\ \A i \in DBs, k \in Keys : \A y :
              Only(l, r, i, k, y) => Writes(s, r, i, k, y, u)
  BY DEF Fades, Only, Writes

\* GET and its like answer what lives when they look.
LEMMA LookupImplements ==
  ASSUME TimelyInv, NEW i \in DBs, NEW k \in Keys, Lookup(i, k)
  PROVE  TimelyInv' /\ now' >= now /\ Logical!Lookup(i, k)
<1>1. PICK t \in now .. MaxTime :
        /\ ks' = expireIfNeeded(ks, i, k, t)
        /\ now' = t
        /\ cmd' = Ran("lookup", i, k, None,
                      IF Present(ks', i, k) THEN ks'.dict[i][k].val ELSE None)
  BY DEF Lookup
<1>2. /\ t \in Int /\ now \in Int /\ now <= t
      /\ Logical!Alive(View[i][k], t) <=> Logical!Alive(LifeAt(ks, i, k), t)
      /\ Logical!Alive(View[i][k], t) => View[i][k] = LifeAt(ks, i, k)
  BY AliveInView
<1>3. Fades(ks, ks', now')
  BY <1>1, <1>2, LookupFades DEF TimelyInv
<1>4. TimelyInv' /\ now' >= now /\ View' = Logical!At(View, now')
  BY <1>1, <1>3, LookStep
<1>5. /\ Present(ks', i, k) <=> Logical!Alive(LifeAt(ks, i, k), t)
      /\ Present(ks', i, k) => LifeAt(ks, i, k).val = ks'.dict[i][k].val
  BY <1>1, <1>2, FoundIsAlive DEF TimelyInv
<1>6. cmd'.reply = IF Logical!Alive(View[i][k], t) THEN View[i][k].val ELSE None
  BY <1>1, <1>2, <1>5 DEF Ran
<1>7. Logical!Ran("lookup", i, k, None)
  BY <1>1 DEF Logical!Ran, Ran
<1>8. t \in Logical!Moments
  BY <1>1, <1>2 DEF Logical!Moments
<1>9. QED
  BY <1>4, <1>6, <1>7, <1>8 DEF Logical!Lookup

\* DEL answers whether the key lives, and it lives no more.
LEMMA DelImplements ==
  ASSUME TimelyInv, NEW i \in DBs, NEW k \in Keys, Del(i, k)
  PROVE  TimelyInv' /\ now' >= now /\ Logical!Del(i, k)
<1>1. PICK t \in now .. MaxTime :
        /\ ks' = dbDelete(expireIfNeeded(ks, i, k, t), i, k)
        /\ now' = t
        /\ cmd' = Ran("del", i, k, None,
                      IF Present(expireIfNeeded(ks, i, k, t), i, k) THEN "one" ELSE "zero")
  BY DEF Del
<1> DEFINE l == expireIfNeeded(ks, i, k, t)
<1>2. /\ t \in Int /\ now \in Int /\ now <= t
      /\ Logical!Alive(View[i][k], t) <=> Logical!Alive(LifeAt(ks, i, k), t)
  BY AliveInView
<1>3. Fades(ks, l, now') /\ Timely(l)
  BY <1>1, <1>2, LookupFades DEF TimelyInv, Fades
<1>4. Present(l, i, k) <=> Logical!Alive(LifeAt(ks, i, k), t)
  BY <1>2, FoundIsAlive DEF TimelyInv
<1> HIDE DEF l
<1>5. Only(l, ks', i, k, None)
  BY <1>1, <1>3, DeleteLife DEF l
<1>6. Writes(ks, ks', i, k, None, now')
  BY <1>3, <1>5, Fading
<1>7. TimelyInv' /\ now' >= now /\ View' = Wrote(View, i, k, None, now')
  BY <1>1, <1>6, WriteStep
<1>8. cmd'.reply = IF Logical!Alive(View[i][k], t) THEN "one" ELSE "zero"
  BY <1>1, <1>2, <1>4 DEF Ran, l
<1>9. Logical!Ran("del", i, k, None)
  BY <1>1 DEF Logical!Ran, Ran
<1>10. t \in Logical!Moments
  BY <1>1, <1>2 DEF Logical!Moments
<1>11. View' = Logical!At([View EXCEPT ![i][k] = None], now')
  BY <1>7 DEF Wrote
<1>12. QED
  BY <1>7, <1>8, <1>9, <1>10, <1>11 DEF Logical!Del

\* INCR and its like keep the time of death of a key that lives.
LEMMA AlterImplements ==
  ASSUME TimelyInv, NEW i \in DBs, NEW k \in Keys, NEW v \in Vals, Alter(i, k, v)
  PROVE  TimelyInv' /\ now' >= now /\ Logical!Alter(i, k, v)
<1>1. PICK t \in now .. MaxTime :
        /\ ks' = IF Present(expireIfNeeded(ks, i, k, t), i, k)
                 THEN dbOverwrite(expireIfNeeded(ks, i, k, t), i, k, v)
                 ELSE dbAdd(expireIfNeeded(ks, i, k, t), i, k, v)
        /\ now' = t
        /\ cmd' = Ran("alter", i, k, v, "OK")
  BY DEF Alter
<1> DEFINE l == expireIfNeeded(ks, i, k, t)
           y == [val |-> v, when |-> IF Logical!Alive(View[i][k], t)
                                     THEN View[i][k].when ELSE -1]
<1>2. /\ t \in Int /\ now \in Int /\ now <= t
      /\ Logical!Alive(View[i][k], t) <=> Logical!Alive(LifeAt(ks, i, k), t)
      /\ Logical!Alive(View[i][k], t) => View[i][k] = LifeAt(ks, i, k)
  BY AliveInView
<1>3. Fades(ks, l, now') /\ Timely(l)
  BY <1>1, <1>2, LookupFades DEF TimelyInv, Fades
<1>4. /\ Present(l, i, k) <=> Logical!Alive(LifeAt(ks, i, k), t)
      /\ Present(l, i, k) => LifeAt(ks, i, k).when = getExpire(l, i, k)
  BY <1>2, FoundIsAlive DEF TimelyInv
<1>5. ks' = IF Present(l, i, k) THEN dbOverwrite(l, i, k, v) ELSE dbAdd(l, i, k, v)
  BY <1>1
<1> HIDE DEF l
<1>6. Only(l, ks', i, k, y)
  <2>1. CASE Present(l, i, k)
    <3>1. y = [val |-> v, when |-> getExpire(l, i, k)]
      BY <2>1, <1>2, <1>4
    <3>2. QED
      BY <2>1, <3>1, <1>3, <1>5, OverwriteLife
  <2>2. CASE ~ Present(l, i, k)
    <3>1. y = [val |-> v, when |-> -1]
      BY <2>2, <1>2, <1>4
    <3>2. QED
      BY <2>2, <3>1, <1>3, <1>5, AddLife
  <2>3. QED
    BY <2>1, <2>2
<1>7. View' = Wrote(View, i, k, y, now') /\ TimelyInv' /\ now' >= now
  <2> HIDE DEF y
  <2>1. Writes(ks, ks', i, k, y, now')
    BY <1>3, <1>6, Fading
  <2>2. QED
    BY <2>1, <1>1, WriteStep
<1>8. Logical!Ran("alter", i, k, v)
  BY <1>1 DEF Logical!Ran, Ran
<1>9. t \in Logical!Moments
  BY <1>1, <1>2 DEF Logical!Moments
<1>10. View' = Logical!At([View EXCEPT ![i][k] = y], now')
  BY <1>7 DEF Wrote
<1>11. QED
  BY <1>7, <1>8, <1>9, <1>10 DEF Logical!Alter

\* SET and its options judge by what lives, and the new key lives until the
\* sum of a moment of the command and its expire time.
LEMMA SetImplements ==
  ASSUME TimesFit, TimelyInv, NEW i \in DBs, NEW k \in Keys, NEW v \in Vals,
         NEW flags \in SUBSET {"NX", "XX"}, NEW ttl \in TTLs \cup {None},
         Set(i, k, v, flags, ttl)
  PROVE  TimelyInv' /\ now' >= now /\ Logical!Set(i, k, v, flags, ttl)
<1>1. PICK t1, t2, t3 :
        /\ t1 \in now .. MaxTime /\ t2 \in t1 .. MaxTime /\ t3 \in t2 .. MaxTime
        /\ LET l == IF flags = {} THEN ks ELSE expireIfNeeded(ks, i, k, t1)
               s == setKey(l, i, k, v, t2)
               refused == \/ "NX" \in flags /\ Present(l, i, k)
                          \/ "XX" \in flags /\ ~ Present(l, i, k)
           IN  /\ ks' = IF refused THEN l
                        ELSE IF ttl = None THEN s ELSE setExpire(s, i, k, Wrap(t3 + ttl))
               /\ now' = t3
               /\ cmd' = Ran("set", i, k, <<v, flags, ttl>>, IF refused THEN None ELSE "OK")
  BY DEF Set
<1> DEFINE l == IF flags = {} THEN ks ELSE expireIfNeeded(ks, i, k, t1)
           s == setKey(l, i, k, v, t2)
           refused == \/ "NX" \in flags /\ Present(l, i, k)
                      \/ "XX" \in flags /\ ~ Present(l, i, k)
           y == [val |-> v, when |-> IF ttl = None THEN -1 ELSE t3 + ttl]
<1>2. /\ ks' = IF refused THEN l
               ELSE IF ttl = None THEN s ELSE setExpire(s, i, k, Wrap(t3 + ttl))
      /\ now' = t3
      /\ cmd' = Ran("set", i, k, <<v, flags, ttl>>, IF refused THEN None ELSE "OK")
  BY <1>1
<1>3. /\ t1 \in Int /\ now \in Int /\ now <= t1 /\ t2 \in Int /\ t3 \in 0 .. MaxTime
      /\ t1 <= t3 /\ t1 \in now .. now' /\ t3 \in t1 .. now' /\ t3 \in now .. MaxTime
      /\ t3 \in Int
  BY <1>1, <1>2, TimeAssumption DEF TimelyInv
<1>4. Logical!Alive(View[i][k], t1) <=> Logical!Alive(LifeAt(ks, i, k), t1)
  BY <1>1, AliveInView
<1>5. Fades(ks, l, now') /\ Timely(l)
  <2>1. CASE flags = {}
    BY <2>1 DEF TimelyInv, Fades
  <2>2. CASE flags # {}
    BY <2>2, <1>2, <1>3, LookupFades DEF TimelyInv, Fades
  <2>3. QED
    BY <2>1, <2>2
<1>6. flags # {} => (Present(l, i, k) <=> Logical!Alive(View[i][k], t1))
  BY <1>3, <1>4, FoundIsAlive DEF TimelyInv
<1>7. refused <=> ~ (/\ "NX" \in flags => ~ Logical!Alive(View[i][k], t1)
                     /\ "XX" \in flags => Logical!Alive(View[i][k], t1))
  BY <1>6
<1> HIDE DEF l, refused
<1>8. Logical!Ran("set", i, k, <<v, flags, ttl>>)
  BY <1>2 DEF Logical!Ran, Ran
<1>9. t1 \in Logical!Moments
  BY <1>3 DEF Logical!Moments
<1>10. CASE refused
  <2>1. ks' = l
    BY <1>2, <1>10
  <2>2. TimelyInv' /\ now' >= now /\ View' = Logical!At(View, now')
    BY <1>2, <1>3, <1>5, <2>1, LookStep
  <2>3. cmd'.reply = None
    BY <1>2, <1>10 DEF Ran
  <2>4. QED
    BY <1>7, <1>8, <1>9, <1>10, <2>2, <2>3 DEF Logical!Set
<1>11. CASE ~ refused
  <2>1. Only(l, s, i, k, [val |-> v, when |-> -1])
    BY <1>3, <1>5, SetKeyLife
  <2>2. Present(s, i, k)
    BY <1>5, SetKeyOK DEF Timely
  <2> HIDE DEF s
  <2>3. Timely(s) /\ s.dict[i][k].val = v
    <3>1. [val |-> s.dict[i][k].val, when |-> getExpire(s, i, k)] =
            [val |-> v, when |-> -1]
      BY <2>1, <2>2 DEF Only, LifeAt
    <3>2. QED
      BY <2>1, <3>1 DEF Only
  <2>4. Only(l, ks', i, k, y)
    <3>1. CASE ttl = None
      BY <3>1, <2>1, <1>2, <1>11
    <3>2. CASE ttl # None
      <4>1. t3 + ttl \in Times \cap Nat /\ Wrap(t3 + ttl) = t3 + ttl
        BY <3>2, <1>3, TimeAssumption DEF TimesFit, Times, Wrap
      <4>2. Only(s, setExpire(s, i, k, t3 + ttl), i, k, [val |-> v, when |-> t3 + ttl])
        BY <4>1, <2>2, <2>3, SetExpireLife
      <4>3. ks' = setExpire(s, i, k, t3 + ttl)
        BY <4>1, <3>2, <1>2, <1>11
      <4>4. y = [val |-> v, when |-> t3 + ttl]
        BY <3>2
      <4> HIDE DEF y
      <4>5. QED
        BY <4>2, <4>3, <4>4, <2>1 DEF Only
    <3>3. QED
      BY <3>1, <3>2
  <2>5. View' = Wrote(View, i, k, y, now') /\ TimelyInv' /\ now' >= now
    <3> HIDE DEF y
    <3>1. Writes(ks, ks', i, k, y, now')
      BY <2>4, <1>5, Fading
    <3>2. QED
      BY <3>1, <1>2, <1>3, WriteStep
  <2>6. View' = Logical!At([View EXCEPT ![i][k] = y], now')
    BY <2>5 DEF Wrote
  <2>7. cmd'.reply = "OK"
    BY <1>2, <1>11 DEF Ran
  <2>8. \E u \in t1 .. now' :
          View' = Logical!At([View EXCEPT ![i][k] =
                    [val |-> v, when |-> IF ttl = None THEN -1 ELSE u + ttl]], now')
    BY <1>3, <2>6
  <2>9. QED
    BY <1>7, <1>8, <1>9, <1>11, <2>5, <2>7, <2>8 DEF Logical!Set
<1>12. QED
  BY <1>10, <1>11

\* A command that leaves what X looks like.
LEMMA ViewStep ==
  ASSUME TimelyInv, now' \in now .. MaxTime, Timely(ks'), NEW X,
         \A i \in DBs, k \in Keys :
           Seen(LifeAt(ks', i, k), now') = Seen(X[i][k], now')
  PROVE  TimelyInv' /\ now' >= now /\ View' = Logical!At(X, now')
<1>1. now' \in Int /\ now \in Int /\ now <= now' /\ now' \in 0 .. MaxTime
  BY TimeAssumption DEF TimelyInv
<1>2. View' = ViewAt(ks', now')
  BY <1>1, Views DEF TimelyInv
<1>3. Logical!At(X, now') = [i \in DBs |-> [k \in Keys |-> Seen(X[i][k], now')]]
  BY DEF Logical!At, Seen
<1>4. TimelyInv'
  BY <1>1 DEF TimelyInv, Timely, Sound, Dated
<1>5. QED
  BY <1>1, <1>2, <1>3, <1>4 DEF ViewAt

\* What is seen now is, later, seen as the keyspace has it.
LEMMA SeenOfView ==
  ASSUME TimelyInv, NEW i \in DBs, NEW k \in Keys, NEW u \in now .. MaxTime
  PROVE  Seen(View[i][k], u) = Seen(LifeAt(ks, i, k), u)
<1>1. u \in Int /\ now \in Int /\ now <= u
  BY TimeAssumption DEF TimelyInv
<1>2. View[i][k] = Seen(LifeAt(ks, i, k), now)
  BY <1>1, Views DEF TimelyInv
<1>3. LifeAt(ks, i, k) \in Life \cup {None}
  BY LifeType DEF TimelyInv, Timely
<1>4. QED
  BY <1>1, <1>2, <1>3, SeenLater

\* What RENAME leaves: the target lives the life of the source.
LEMMA RenamedLife ==
  ASSUME NEW s, Timely(s), NEW i \in DBs, NEW k \in Keys, NEW m \in Keys, k # m,
         NEW val \in Vals, s.dict[i][k].val = val, NEW w \in Times, w = -1 \/ w \in Nat
  PROVE  LET r == Renamed(s, i, k, m, w)
         IN  /\ Timely(r)
             /\ LifeAt(r, i, k) = None
             /\ LifeAt(r, i, m) = [val |-> val, when |-> w]
             /\ \A j \in DBs, n \in Keys : j # i \/ (n # k /\ n # m) =>
                  LifeAt(r, j, n) = LifeAt(s, j, n)
<1> DEFINE free == IF Present(s, i, m) THEN dbDelete(s, i, m) ELSE s
           new == dbAdd(free, i, m, val)
           dated == IF w # -1 THEN setExpire(new, i, m, w) ELSE new
           r == dbDelete(dated, i, k)
<1>1. Renamed(s, i, k, m, w) = r
  BY DEF Renamed
<1>2. /\ Timely(free) /\ ~ Present(free, i, m)
      /\ \A j \in DBs, n \in Keys : j # i \/ n # m => LifeAt(free, j, n) = LifeAt(s, j, n)
  <2>1. CASE Present(s, i, m)
    BY <2>1, DeleteLife, DeleteOK DEF Only, Timely
  <2>2. CASE ~ Present(s, i, m)
    BY <2>2
  <2>3. QED
    BY <2>1, <2>2
<1> HIDE DEF free
<1>3. Only(free, new, i, m, [val |-> val, when |-> -1]) /\ Present(new, i, m)
  BY <1>2, AddLife, AddOK DEF Timely
<1> HIDE DEF new
<1>4. Timely(new) /\ new.dict[i][m].val = val
  <2>1. [val |-> new.dict[i][m].val, when |-> getExpire(new, i, m)] =
          [val |-> val, when |-> -1]
    BY <1>3 DEF Only, LifeAt
  <2>2. QED
    BY <1>3, <2>1 DEF Only
<1>5. Only(free, dated, i, m, [val |-> val, when |-> w])
  <2>1. CASE w = -1
    BY <2>1, <1>3
  <2>2. CASE w # -1
    <3>1. Only(new, setExpire(new, i, m, w), i, m, [val |-> val, when |-> w])
      BY <2>2, <1>3, <1>4, SetExpireLife
    <3>2. QED
      BY <2>2, <3>1, <1>3 DEF Only
  <2>3. QED
    BY <2>1, <2>2
<1> HIDE DEF dated
<1>6. Only(dated, r, i, k, None)
  BY <1>5, DeleteLife DEF Only
<1> HIDE DEF r
<1>7. QED
  BY <1>1, <1>2, <1>5, <1>6 DEF Only

\* RENAME judges the source, then the target, and moves the life of the one.
LEMMA RenameImplements ==
  ASSUME TimelyInv, NEW i \in DBs, NEW k \in Keys, NEW m \in Keys, NEW nx \in BOOLEAN,
         Rename(i, k, m, nx)
  PROVE  TimelyInv' /\ now' >= now /\ Logical!Rename(i, k, m, nx)
<1>1. PICK t1, t2 :
        /\ t1 \in now .. MaxTime /\ t2 \in t1 .. MaxTime
        /\ LET l == expireIfNeeded(ks, i, k, t1)
               r == expireIfNeeded(l, i, m, t2)
               Answer(reply) == cmd' = Ran("rename", i, k, <<m, nx>>, reply)
           IN  /\ now' = t2
               /\ \/ k = m /\ Answer("ERR") /\ UNCHANGED ks
                  \/ k # m /\ ~ Present(l, i, k) /\ Answer("ERR") /\ ks' = l
                  \/ k # m /\ Present(l, i, k) /\ nx /\ Present(r, i, m) /\ Answer("zero") /\ ks' = r
                  \/ /\ k # m /\ Present(l, i, k) /\ ~ (nx /\ Present(r, i, m))
                     /\ Answer("one")
                     /\ ks' = Renamed(r, i, k, m, getExpire(l, i, k))
  BY DEF Rename
<1> DEFINE l == expireIfNeeded(ks, i, k, t1)
           r == expireIfNeeded(l, i, m, t2)
           Answer(reply) == cmd' = Ran("rename", i, k, <<m, nx>>, reply)
           w == getExpire(l, i, k)
           a1 == Logical!Alive(View[i][k], t1)
           a2 == Logical!Alive(View[i][m], t2)
<1>2. /\ now' = t2
      /\ \/ k = m /\ Answer("ERR") /\ ks' = ks
         \/ k # m /\ ~ Present(l, i, k) /\ Answer("ERR") /\ ks' = l
         \/ k # m /\ Present(l, i, k) /\ nx /\ Present(r, i, m) /\ Answer("zero") /\ ks' = r
         \/ /\ k # m /\ Present(l, i, k) /\ ~ (nx /\ Present(r, i, m))
            /\ Answer("one")
            /\ ks' = Renamed(r, i, k, m, w)
  BY <1>1
<1>3. /\ t1 \in Int /\ t2 \in Int /\ now \in Int /\ now <= t1 /\ t1 <= t2
      /\ t1 \in now .. now' /\ t2 \in t1 .. now' /\ t2 \in now .. MaxTime
  BY <1>1, <1>2, TimeAssumption DEF TimelyInv
<1>4. /\ a1 <=> Logical!Alive(LifeAt(ks, i, k), t1)
      /\ a1 => View[i][k] = LifeAt(ks, i, k)
      /\ a2 <=> Logical!Alive(LifeAt(ks, i, m), t2)
  BY <1>1, <1>3, AliveInView
<1>5. /\ Only(ks, l, i, k, Seen(LifeAt(ks, i, k), t1))
      /\ Fades(ks, l, t2) /\ Timely(l)
      /\ Present(l, i, k) <=> a1
      /\ Present(l, i, k) =>
           /\ LifeAt(l, i, k) = LifeAt(ks, i, k)
           /\ LifeAt(ks, i, k) = [val |-> l.dict[i][k].val, when |-> w]
  BY <1>3, <1>4, LookupLife, LookupFades, FoundIsAlive DEF TimelyInv, Fades
<1>6. /\ w \in Times /\ (w = -1 \/ w \in Nat)
      /\ Present(l, i, k) => l.dict[i][k].val \in Vals
  BY <1>5, GetExpireType, EntryType DEF Timely, Dated, getExpire
<1> HIDE DEF l, w
<1>7. /\ Fades(l, r, t2) /\ Timely(r)
      /\ Present(r, i, m) <=> Logical!Alive(LifeAt(l, i, m), t2)
      /\ k # m => r.dict[i][k] = l.dict[i][k]
  BY <1>3, <1>5, LookupFades, FoundIsAlive, ExpireIfNeededOK DEF Fades, Timely
<1>8. k # m => (Present(r, i, m) <=> a2)
  BY <1>4, <1>5, <1>7 DEF Only
<1>9. Fades(ks, r, t2)
  BY <1>5, <1>7, Fading
<1> HIDE DEF r
<1>10. ASSUME NEW reply, Answer(reply)
       PROVE  Logical!Ran("rename", i, k, <<m, nx>>) /\ cmd'.reply = reply
  BY <1>10 DEF Logical!Ran, Ran
<1> HIDE DEF Answer
<1>11. t1 \in Logical!Moments
  BY <1>3 DEF Logical!Moments
<1> HIDE DEF a1, a2
<1>12. ASSUME (k = m \/ ~ a1) /\ Answer("ERR") /\ (ks' = ks \/ ks' = l)
       PROVE  TimelyInv' /\ now' >= now /\ Logical!Rename(i, k, m, nx)
  <2>1. Fades(ks, ks', now')
    BY <1>2, <1>5, <1>12 DEF Fades, TimelyInv
  <2>2. TimelyInv' /\ now' >= now /\ View' = Logical!At(View, now')
    BY <1>2, <1>3, <2>1, LookStep
  <2>3. QED
    BY <1>3, <1>10, <1>11, <1>12, <2>2 DEF Logical!Rename, a1
<1>13. ASSUME k # m, a1, nx, a2, Answer("zero"), ks' = r
       PROVE  TimelyInv' /\ now' >= now /\ Logical!Rename(i, k, m, nx)
  <2>1. TimelyInv' /\ now' >= now /\ View' = Logical!At(View, now')
    BY <1>2, <1>3, <1>9, <1>13, LookStep
  <2>2. QED
    BY <1>3, <1>10, <1>11, <1>13, <2>1 DEF Logical!Rename, a1, a2
<1>14. ASSUME k # m, a1, ~ (nx /\ a2), Answer("one"), ks' = Renamed(r, i, k, m, w)
       PROVE  TimelyInv' /\ now' >= now /\ Logical!Rename(i, k, m, nx)
  <2> DEFINE X == [View EXCEPT ![i][m] = View[i][k], ![i][k] = None]
             val == l.dict[i][k].val
  <2>1. val \in Vals /\ r.dict[i][k].val = val /\ View[i][k] = [val |-> val, when |-> w]
    BY <1>4, <1>5, <1>6, <1>7, <1>14
  <2> HIDE DEF val
  <2>2. /\ Timely(ks') /\ LifeAt(ks', i, k) = None
        /\ LifeAt(ks', i, m) = View[i][k]
        /\ \A j \in DBs, n \in Keys : j # i \/ (n # k /\ n # m) =>
             LifeAt(ks', j, n) = LifeAt(r, j, n)
    BY <1>6, <1>7, <1>14, <2>1, RenamedLife
  <2>3. \A j \in DBs, n \in Keys :
          X[j][n] = IF j = i /\ n = k THEN None
                    ELSE IF j = i /\ n = m THEN View[i][k] ELSE View[j][n]
    BY <1>14 DEF View
  <2> HIDE DEF X
  <2>4. ASSUME NEW j \in DBs, NEW n \in Keys
        PROVE  Seen(LifeAt(ks', j, n), now') = Seen(X[j][n], now')
    <3>1. CASE j = i /\ n = k
      BY <3>1, <2>2, <2>3
    <3>2. CASE j = i /\ n = m
      BY <3>2, <2>2, <2>3, <1>14
    <3>3. CASE ~ (j = i /\ n = k) /\ ~ (j = i /\ n = m)
      <4>1. X[j][n] = View[j][n] /\ LifeAt(ks', j, n) = LifeAt(r, j, n)
        BY <3>3, <2>2, <2>3
      <4>2. Seen(View[j][n], t2) = Seen(LifeAt(ks, j, n), t2)
        BY <1>3, SeenOfView
      <4>3. QED
        BY <4>1, <4>2, <1>2, <1>9 DEF Fades
    <3>4. QED
      BY <3>1, <3>2, <3>3
  <2>5. TimelyInv' /\ now' >= now /\ View' = Logical!At(X, now')
    BY <1>2, <1>3, <2>2, <2>4, ViewStep
  <2>6. QED
    BY <1>3, <1>10, <1>11, <1>14, <2>5 DEF Logical!Rename, a1, a2, X
<1>15. QED
  BY <1>2, <1>5, <1>8, <1>12, <1>13, <1>14
\* MOVE judges the key in the one database, then in the other, and the life
\* it leads there never ends.
LEMMA MoveImplements ==
  ASSUME TimelyInv, NEW i \in DBs, NEW j \in DBs, NEW k \in Keys, Move(i, j, k)
  PROVE  TimelyInv' /\ now' >= now /\ Logical!Move(i, j, k)
<1>1. PICK t1, t2 :
        /\ t1 \in now .. MaxTime /\ t2 \in t1 .. MaxTime
        /\ LET l == expireIfNeeded(ks, i, k, t1)
               r == expireIfNeeded(l, j, k, t2)
               Answer(reply) == cmd' = Ran("move", i, k, j, reply)
           IN  /\ now' = t2
               /\ \/ i = j /\ Answer("ERR") /\ UNCHANGED ks
                  \/ i # j /\ ~ Present(l, i, k) /\ Answer("zero") /\ ks' = l
                  \/ i # j /\ Present(l, i, k) /\ Present(r, j, k) /\ Answer("zero") /\ ks' = r
                  \/ /\ i # j /\ Present(l, i, k) /\ ~ Present(r, j, k)
                     /\ Answer("one")
                     /\ ks' = dbDelete(dbAdd(r, j, k, l.dict[i][k].val), i, k)
  BY DEF Move
<1> DEFINE l == expireIfNeeded(ks, i, k, t1)
           r == expireIfNeeded(l, j, k, t2)
           val == l.dict[i][k].val
           Answer(reply) == cmd' = Ran("move", i, k, j, reply)
           a1 == Logical!Alive(View[i][k], t1)
           a2 == Logical!Alive(View[j][k], t2)
<1>2. /\ now' = t2
      /\ \/ i = j /\ Answer("ERR") /\ ks' = ks
         \/ i # j /\ ~ Present(l, i, k) /\ Answer("zero") /\ ks' = l
         \/ i # j /\ Present(l, i, k) /\ Present(r, j, k) /\ Answer("zero") /\ ks' = r
         \/ /\ i # j /\ Present(l, i, k) /\ ~ Present(r, j, k)
            /\ Answer("one")
            /\ ks' = dbDelete(dbAdd(r, j, k, val), i, k)
  BY <1>1
<1>3. /\ t1 \in Int /\ t2 \in Int /\ now \in Int /\ now <= t1 /\ t1 <= t2
      /\ t1 \in now .. now' /\ t2 \in t1 .. now' /\ t2 \in now .. MaxTime
  BY <1>1, <1>2, TimeAssumption DEF TimelyInv
<1>4. /\ a1 <=> Logical!Alive(LifeAt(ks, i, k), t1)
      /\ a1 => View[i][k] = LifeAt(ks, i, k)
      /\ a2 <=> Logical!Alive(LifeAt(ks, j, k), t2)
  BY <1>1, <1>3, AliveInView
<1>5. /\ Only(ks, l, i, k, Seen(LifeAt(ks, i, k), t1))
      /\ Fades(ks, l, t2) /\ Timely(l)
      /\ Present(l, i, k) <=> a1
      /\ Present(l, i, k) => LifeAt(ks, i, k) = [val |-> val, when |-> getExpire(l, i, k)]
  BY <1>3, <1>4, LookupLife, LookupFades, FoundIsAlive DEF TimelyInv, Fades
<1>6. Present(l, i, k) => val \in Vals
  BY <1>5, EntryType DEF Timely
<1> HIDE DEF l, val
<1>7. /\ Fades(l, r, t2) /\ Timely(r)
      /\ Present(r, j, k) <=> Logical!Alive(LifeAt(l, j, k), t2)
  BY <1>3, <1>5, LookupFades, FoundIsAlive DEF Fades, Timely
<1>8. i # j => (Present(r, j, k) <=> a2)
  BY <1>4, <1>5, <1>7 DEF Only
<1>9. Fades(ks, r, t2)
  BY <1>5, <1>7, Fading
<1> HIDE DEF r
<1>10. ASSUME NEW reply, Answer(reply)
       PROVE  Logical!Ran("move", i, k, j) /\ cmd'.reply = reply
  BY <1>10 DEF Logical!Ran, Ran
<1> HIDE DEF Answer
<1>11. t1 \in Logical!Moments
  BY <1>3 DEF Logical!Moments
<1> HIDE DEF a1, a2
<1>12. ASSUME i = j, Answer("ERR"), ks' = ks
       PROVE  TimelyInv' /\ now' >= now /\ Logical!Move(i, j, k)
  <2>1. Fades(ks, ks', now')
    BY <1>12 DEF Fades, TimelyInv
  <2>2. TimelyInv' /\ now' >= now /\ View' = Logical!At(View, now')
    BY <1>2, <1>3, <2>1, LookStep
  <2>3. QED
    BY <1>3, <1>10, <1>11, <1>12, <2>2 DEF Logical!Move
<1>13. ASSUME i # j, ~ (a1 /\ ~ a2), Answer("zero"), ks' = l \/ ks' = r
       PROVE  TimelyInv' /\ now' >= now /\ Logical!Move(i, j, k)
  <2>1. TimelyInv' /\ now' >= now /\ View' = Logical!At(View, now')
    BY <1>2, <1>3, <1>5, <1>9, <1>13, LookStep
  <2>2. QED
    BY <1>3, <1>10, <1>11, <1>13, <2>1 DEF Logical!Move, a1, a2
<1>14. ASSUME i # j, a1, ~ a2, ~ Present(r, j, k), Answer("one"),
              ks' = dbDelete(dbAdd(r, j, k, val), i, k)
       PROVE  TimelyInv' /\ now' >= now /\ Logical!Move(i, j, k)
  <2> DEFINE y == [View[i][k] EXCEPT !.when = -1]
             new == dbAdd(r, j, k, val)
             X == [View EXCEPT ![j][k] = y, ![i][k] = None]
  <2>1. val \in Vals /\ View[i][k] = [val |-> val, when |-> getExpire(l, i, k)]
    BY <1>4, <1>5, <1>6, <1>14
  <2>2. y = [val |-> val, when |-> -1]
    BY <2>1
  <2>3. \A jj \in DBs, n \in Keys :
          X[jj][n] = IF jj = i /\ n = k THEN None
                     ELSE IF jj = j /\ n = k THEN y ELSE View[jj][n]
    BY <1>14 DEF View
  <2> HIDE DEF X, y
  <2>4. Only(r, new, j, k, y)
    BY <1>7, <1>14, <2>1, <2>2, AddLife
  <2> HIDE DEF new
  <2>5. Only(new, ks', i, k, None)
    BY <1>14, <2>4, DeleteLife DEF Only, new
  <2>6. /\ Timely(ks') /\ LifeAt(ks', i, k) = None /\ LifeAt(ks', j, k) = y
        /\ \A jj \in DBs, n \in Keys : ~ (n = k /\ (jj = i \/ jj = j)) =>
             LifeAt(ks', jj, n) = LifeAt(r, jj, n)
    BY <1>14, <2>4, <2>5 DEF Only
  <2>7. ASSUME NEW jj \in DBs, NEW n \in Keys
        PROVE  Seen(LifeAt(ks', jj, n), now') = Seen(X[jj][n], now')
    <3>1. CASE jj = i /\ n = k
      BY <3>1, <2>3, <2>6
    <3>2. CASE jj = j /\ n = k
      BY <3>2, <2>3, <2>6, <1>14
    <3>3. CASE ~ (jj = i /\ n = k) /\ ~ (jj = j /\ n = k)
      <4>1. X[jj][n] = View[jj][n] /\ LifeAt(ks', jj, n) = LifeAt(r, jj, n)
        BY <3>3, <2>3, <2>6
      <4>2. Seen(View[jj][n], t2) = Seen(LifeAt(ks, jj, n), t2)
        BY <1>3, SeenOfView
      <4>3. QED
        BY <4>1, <4>2, <1>2, <1>9 DEF Fades
    <3>4. QED
      BY <3>1, <3>2, <3>3
  <2>8. TimelyInv' /\ now' >= now /\ View' = Logical!At(X, now')
    BY <1>2, <1>3, <2>6, <2>7, ViewStep
  <2>9. QED
    BY <1>3, <1>10, <1>11, <1>14, <2>8 DEF Logical!Move, a1, a2, X, y
<1>15. QED
  BY <1>2, <1>5, <1>8, <1>12, <1>13, <1>14

\* RANDOMKEY and KEYS delete only what is dead by then.
LEMMA WithoutFades ==
  ASSUME NEW s, Timely(s), NEW i \in DBs, NEW t \in Int, NEW D \in SUBSET Dead(s, i, t)
  PROVE  Fades(s, Without(s, i, D), t)
<1> DEFINE r == Without(s, i, D)
<1>1. Sound(r)
  BY WithoutOK DEF Timely
<1>2. /\ s.dict \in [DBs -> [Keys -> KeyEntry \cup {None}]]
      /\ s.expires \in [DBs -> [Keys -> ExpireEntry \cup {None}]]
  BY DEF Timely, Sound
<1>3. /\ r.dict = [s.dict EXCEPT ![i] =
                     [k \in Keys |-> IF k \in D THEN None ELSE s.dict[i][k]]]
      /\ r.expires = [s.expires EXCEPT ![i] =
                        [k \in Keys |-> IF k \in D THEN None ELSE s.expires[i][k]]]
  BY <1>2 DEF Without
<1> HIDE DEF r
<1>4. \A j \in DBs, m \in Keys :
        /\ r.dict[j][m] = IF j = i /\ m \in D THEN None ELSE s.dict[j][m]
        /\ r.expires[j][m] = IF j = i /\ m \in D THEN None ELSE s.expires[j][m]
  BY <1>2, <1>3
<1>5. Timely(r)
  BY <1>1, <1>4 DEF Timely, Dated
<1>6. ASSUME NEW j \in DBs, NEW m \in Keys
      PROVE  Seen(LifeAt(r, j, m), t) = Seen(LifeAt(s, j, m), t)
  <2>1. CASE j = i /\ m \in D
    <3>1. LifeAt(r, j, m) = None
      BY <2>1, <1>4 DEF LifeAt, Present
    <3>2. Present(s, i, m) /\ Expired(getExpire(s, i, m), t) /\ getExpire(s, i, m) \in Int
      BY <2>1, GetExpireType, TimeAssumption DEF Dead, Timely, Times
    <3>3. ~ Logical!Alive(LifeAt(s, i, m), t)
      <4>1. LifeAt(s, i, m).when = getExpire(s, i, m)
        BY <3>2 DEF LifeAt
      <4>2. QED
        BY <3>2, <4>1 DEF Logical!Alive, Expired
    <3>4. QED
      BY <2>1, <3>1, <3>3 DEF Seen
  <2>2. CASE ~ (j = i /\ m \in D)
    BY <2>2, <1>4 DEF LifeAt, Present, getExpire
  <2>3. QED
    BY <2>1, <2>2
<1>7. QED
  BY <1>5, <1>6 DEF Fades, r

\* The keys a lookup would find are the living ones.
LEMMA AliveIs ==
  ASSUME NEW s, Timely(s), NEW i \in DBs, NEW k \in Keys, NEW t \in Int
  PROVE  Logical!Alive(LifeAt(s, i, k), t) <=> Present(s, i, k) /\ ~ (k \in Dead(s, i, t))
<1>1. getExpire(s, i, k) \in Int
  BY GetExpireType, TimeAssumption DEF Times, Timely
<1>2. CASE Present(s, i, k)
  <2>1. LifeAt(s, i, k) # None /\ LifeAt(s, i, k).when = getExpire(s, i, k)
    BY <1>2, LifeType DEF LifeAt, Timely
  <2>2. QED
    BY <1>1, <1>2, <2>1 DEF Logical!Alive, Dead, Expired
<1>3. CASE ~ Present(s, i, k)
  BY <1>3 DEF LifeAt, Logical!Alive
<1>4. QED
  BY <1>2, <1>3

\* RANDOMKEY answers a key that lives when it looks, if there is one.
LEMMA RandomKeyImplements ==
  ASSUME TimelyInv, NEW i \in DBs, RandomKey(i)
  PROVE  TimelyInv' /\ now' >= now /\ Logical!RandomKey(i)
<1>1. PICK t, D :
        /\ t \in now .. MaxTime /\ D \in SUBSET Dead(ks, i, t)
        /\ ks' = Without(ks, i, D)
        /\ now' = t
        /\ \E reply \in IF {k \in Keys : Present(ks, i, k)} \ D = {} THEN {None}
                        ELSE ({k \in Keys : Present(ks, i, k)} \ D) \ Dead(ks, i, t) :
             cmd' = Ran("randomkey", i, None, None, reply)
  BY DEF RandomKey
<1> DEFINE left == {k \in Keys : Present(ks, i, k)} \ D
           alive == {k \in Keys : Logical!Alive(View[i][k], t)}
<1>2. PICK reply : /\ reply \in IF left = {} THEN {None} ELSE left \ Dead(ks, i, t)
                   /\ cmd' = Ran("randomkey", i, None, None, reply)
  BY <1>1
<1>3. t \in Int /\ now \in Int /\ now <= t /\ t \in now .. now'
  BY <1>1, TimeAssumption DEF TimelyInv
<1>4. \A k \in Keys : Logical!Alive(View[i][k], t) <=>
                        Present(ks, i, k) /\ ~ (k \in Dead(ks, i, t))
  BY <1>1, <1>3, AliveInView, AliveIs DEF TimelyInv
<1>5. alive = {k \in Keys : Present(ks, i, k)} \ Dead(ks, i, t)
  BY <1>4
<1>6. left \ Dead(ks, i, t) = alive /\ (left = {} => alive = {})
  BY <1>1, <1>5
<1> HIDE DEF left, alive
<1>7. reply \in IF alive = {} THEN {None} ELSE alive
  BY <1>2, <1>6
<1>8. Fades(ks, ks', now')
  BY <1>1, <1>3, WithoutFades DEF TimelyInv
<1>9. TimelyInv' /\ now' >= now /\ View' = Logical!At(View, now')
  BY <1>1, <1>8, LookStep
<1>10. Logical!Ran("randomkey", i, None, None) /\ cmd'.reply = reply
  BY <1>2 DEF Logical!Ran, Ran
<1>11. t \in Logical!Moments
  BY <1>3 DEF Logical!Moments
<1>12. QED
  BY <1>7, <1>9, <1>10, <1>11 DEF Logical!RandomKey, alive

\* KEYS judges each key at a moment of its own.
LEMMA KeysOfImplements ==
  ASSUME TimelyInv, NEW i \in DBs, NEW P \in SUBSET Keys, KeysOf(i, P)
  PROVE  TimelyInv' /\ now' >= now /\ Logical!KeysOf(i, P)
<1>1. PICK t, D :
        /\ t \in now .. MaxTime /\ D \in SUBSET (P \cap Dead(ks, i, t))
        /\ P \cap Dead(ks, i, now) \subseteq D
        /\ ks' = Without(ks, i, D)
        /\ now' = t
        /\ cmd' = Ran("keys", i, None, P, {k \in P : Present(ks, i, k)} \ D)
  BY DEF KeysOf
<1>2. t \in Int /\ now \in Int /\ now <= t /\ now \in now .. MaxTime
  BY <1>1, TimeAssumption DEF TimelyInv
<1>3. ASSUME NEW u \in now .. MaxTime
      PROVE  \A k \in P : Logical!Alive(View[i][k], u) <=>
                            Present(ks, i, k) /\ ~ (k \in Dead(ks, i, u))
  <2>1. u \in Int
    BY <1>2
  <2>2. QED
    BY <2>1, AliveInView, AliveIs DEF TimelyInv
<1>4. cmd'.reply = {k \in P : Present(ks, i, k)} \ D
  BY <1>1 DEF Ran
<1>5. {k \in P : Logical!Alive(View[i][k], now')} \subseteq cmd'.reply
  BY <1>1, <1>3, <1>4
<1>6. cmd'.reply \subseteq {k \in P : Logical!Alive(View[i][k], now)}
  BY <1>1, <1>2, <1>3, <1>4
<1>7. Fades(ks, ks', now')
  BY <1>1, <1>2, WithoutFades DEF TimelyInv
<1>8. TimelyInv' /\ now' >= now /\ View' = Logical!At(View, now')
  BY <1>1, <1>7, LookStep
<1>9. Logical!Ran("keys", i, None, P)
  BY <1>1 DEF Logical!Ran, Ran
<1>10. QED
  BY <1>5, <1>6, <1>8, <1>9 DEF Logical!KeysOf

\* The timer deletes keys that no client sees any more.
LEMMA SampleUnseen ==
  ASSUME TimelyInv, NEW i \in DBs, NEW X \in SUBSET Keys, Sample(i, X)
  PROVE  TimelyInv' /\ View' = View /\ UNCHANGED <<now, cmd>>
<1>1. /\ X \subseteq Overdue(i)
      /\ ks' = Without(ks, i, X) /\ now' = now /\ cmd' = cmd
  BY DEF Sample
<1>2. now \in Int /\ now' \in now .. MaxTime
  BY <1>1, TimeAssumption DEF TimelyInv
<1>3. ASSUME NEW k \in X PROVE k \in Dead(ks, i, now)
  <2>1. k \in Keys /\ ks.expires[i][k] # None /\ now > ks.expires[i][k].when
    BY <1>1, <1>3 DEF Overdue, Volatile
  <2>2. ks.expires[i][k].when \in Nat
    BY <2>1 DEF TimelyInv, Timely, Dated
  <2>3. Present(ks, i, k)
    BY <2>1 DEF TimelyInv, Timely, Sound, Present
  <2>4. QED
    BY <2>1, <2>2, <2>3 DEF Dead, Expired, getExpire
<1>4. Fades(ks, ks', now')
  BY <1>1, <1>2, <1>3, WithoutFades DEF TimelyInv
<1>5. View = ViewAt(ks, now) /\ View' = ViewAt(ks', now')
  BY <1>1, <1>2, <1>4, Views DEF TimelyInv, Fades
<1>6. TimelyInv'
  BY <1>1, <1>2, <1>4 DEF Fades, TimelyInv, Timely, Sound, Dated
<1>7. QED
  BY <1>1, <1>4, <1>5, <1>6 DEF Fades, ViewAt

\* The other steps of the timer touch no key.
LEMMA CycleUnseen ==
  ASSUME TimelyInv, ActiveExpireCycle
  PROVE  TimelyInv' /\ View' = View /\ UNCHANGED <<now, cmd>>
<1>1. CASE \E i \in DBs, X \in SUBSET Keys : Sample(i, X)
  BY <1>1, SampleUnseen
<1>2. CASE UNCHANGED <<ks, now, cmd>>
  <2>1. TimelyInv'
    BY <1>2 DEF TimelyInv, Timely, Sound, Dated
  <2>2. View' = View
    BY <1>2 DEF View, Present, Dead, getExpire
  <2>3. QED
    BY <1>2, <2>1, <2>2
<1>3. QED
  BY <1>1, <1>2 DEF ActiveExpireCycle, CycleStart, NextDB, Skip

\* Time passes.
LEMMA TickImplements ==
  ASSUME TimelyInv, Tick
  PROVE  TimelyInv' /\ now' >= now /\ Logical!Pass
<1>1. now \in Int /\ now' \in now .. MaxTime /\ now' > now /\ ks' = ks /\ cmd' = cmd
  BY TimeAssumption DEF Tick, TimelyInv
<1>2. Fades(ks, ks', now')
  BY <1>1 DEF Fades, TimelyInv
<1>3. QED
  BY <1>1, <1>2, LookStep DEF Logical!Pass

-----------------------------------------------------------------------------
(* The refinement.                                                         *)

\* Empty databases.
LEMMA InitImplements == Init => TimelyInv /\ Logical!Init
<1> SUFFICES ASSUME Init PROVE TimelyInv /\ Logical!Init
  OBVIOUS
<1>1. Inv
  BY InitOK
<1>2. TimelyInv
  BY <1>1 DEF Inv, TimelyInv, Timely, Dated, Init
<1>3. \A i \in DBs, k \in Keys : ~ Present(ks, i, k)
  BY DEF Init, Present
<1>4. View = [i \in DBs |-> [k \in Keys |-> None]]
  BY <1>3 DEF View
<1>5. QED
  BY <1>2, <1>4 DEF Logical!Init, Init

\* Every step keeps the invariant and is a step of LogicalDb or stutters; a step
\* of the timer stutters.
LEMMA NextImplements ==
  ASSUME TimesFit, TimelyInv, [Next]_vars
  PROVE  /\ TimelyInv'
         /\ [Logical!Next]_<<View, now, cmd>>
         /\ \A i \in DBs, X \in SUBSET Keys : Sample(i, X) => View' = View
<1> DEFINE Goal == TimelyInv' /\ [Logical!Next]_<<View, now, cmd>>
<1>1. ASSUME NEW i \in DBs, NEW k \in Keys, NEW v \in Vals,
             NEW flags \in SUBSET {"NX", "XX"}, NEW ttl \in TTLs \cup {None},
             Set(i, k, v, flags, ttl)
      PROVE  Goal
  BY <1>1, SetImplements DEF Logical!Next
<1>2. ASSUME NEW i \in DBs, NEW k \in Keys, NEW v \in Vals, Alter(i, k, v)
      PROVE  Goal
  BY <1>2, AlterImplements DEF Logical!Next
<1>3. ASSUME NEW i \in DBs, NEW k \in Keys, Lookup(i, k)
      PROVE  Goal
  BY <1>3, LookupImplements DEF Logical!Next
<1>4. ASSUME NEW i \in DBs, NEW k \in Keys, Del(i, k)
      PROVE  Goal
  BY <1>4, DelImplements DEF Logical!Next
<1>5. ASSUME ActiveExpireCycle PROVE Goal
  BY <1>5, CycleUnseen
<1>6. ASSUME NEW i \in DBs, NEW k \in Keys, NEW m \in Keys, NEW nx \in BOOLEAN,
             Rename(i, k, m, nx)
      PROVE  Goal
  BY <1>6, RenameImplements DEF Logical!Next
<1>7. ASSUME NEW i \in DBs, NEW k \in Keys, NEW j \in DBs, Move(i, j, k)
      PROVE  Goal
  BY <1>7, MoveImplements DEF Logical!Next
<1>8. ASSUME NEW i \in DBs, RandomKey(i)
      PROVE  Goal
  BY <1>8, RandomKeyImplements DEF Logical!Next
<1>9. ASSUME NEW i \in DBs, NEW P \in SUBSET Keys, KeysOf(i, P)
      PROVE  Goal
  BY <1>9, KeysOfImplements DEF Logical!Next
<1>10. ASSUME Tick PROVE Goal
  <2>1. TimelyInv' /\ now' >= now /\ Logical!Pass
    BY <1>10, TickImplements
  <2>2. Logical!Next
    BY <2>1 DEF Logical!Next
  <2>3. QED
    BY <2>1, <2>2
<1>11. ASSUME UNCHANGED vars PROVE Goal
  <2>1. TimelyInv'
    BY <1>11 DEF vars, TimelyInv, Timely, Sound, Dated
  <2>2. View' = View /\ now' = now /\ cmd' = cmd
    BY <1>11 DEF vars, View, Present, Dead, getExpire
  <2>3. QED
    BY <2>1, <2>2
<1> HIDE DEF Goal
<1>12. Goal
  <2>1. ASSUME Next PROVE Goal
    BY <2>1, <1>1, <1>2, <1>3, <1>4, <1>5, <1>6, <1>7, <1>8, <1>9, <1>10
       DEF Next, Command
  <2>2. QED
    BY <2>1, <1>11
<1>13. QED
  BY <1>12, SampleUnseen DEF Goal

\* Times of death stay in the range of times that the lookups and the timer
\* both read as times: the invariant of the two theorems below.
THEOREM TimelyInvariance ==
  ASSUME TimesFit PROVE Spec => []TimelyInv
<1>1. TimelyInv /\ [Next]_vars => TimelyInv'
  BY NextImplements
<1>2. QED
  BY <1>1, InitImplements, PTL DEF Spec

\* Every command answers and acts as if keys vanished by themselves when their
\* time has come, as long as no expire time overflows.
THEOREM LogicalRefinement ==
  ASSUME TimesFit PROVE Spec => ImplementsLogical
<1>1. TimelyInv /\ [Next]_vars => [Logical!Next]_(Logical!vars)
  BY NextImplements DEF Logical!vars
<1>2. QED
  BY <1>1, InitImplements, TimelyInvariance, PTL DEF Spec, ImplementsLogical, Logical!Spec

\* The timer deletes no key that a lookup would still find, as long as no
\* expire time overflows: without that, the run of the overflow has a
\* behaviour in which it does.
THEOREM TimerDeletesTheDead ==
  ASSUME TimesFit PROVE Spec => TimerUnseen
<1>1. TimelyInv /\ [Next]_vars =>
        [\A i \in DBs, X \in SUBSET Keys : Sample(i, X) => View' = View]_vars
  BY NextImplements
<1>2. QED
  BY <1>1, TimelyInvariance, PTL DEF Spec, TimerUnseen
=============================================================================
