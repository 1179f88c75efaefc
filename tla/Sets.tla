-------------------------------- MODULE Sets -------------------------------
(***************************************************************************)
(* t_set.c: a set under one key, as an array of integers or as a hash      *)
(* table, of which only the members matter here.  Members are integers;    *)
(* those in Words stand for strings that are no numbers.                   *)
(***************************************************************************)
EXTENDS IntSet, FiniteSets, FiniteSetsExt

CONSTANTS
  Words,            \* members that are not representable as long long
  SetMaxEntries,    \* SET_MAX_INTSET_ENTRIES
  UnsignedMax,      \* 2^32, at which srandmemberWithCountCommand cuts a count
  Others,           \* sets under other keys: a function from keys to values
  SetAdditions,     \* the arguments of SADD: sequences of members
  SetRemovals,      \* the arguments of SREM
  SharedIntegers,   \* REDIS_SHARED_INTEGERS
  SetHeader         \* the word "*0\r\n"

VARIABLES
  set,              \* the value of the key
  call,              \* the last command, with its arguments
  reply             \* its reply

Missing == [enc |-> "none"]
Intset(is) == [enc |-> "intset", is |-> is]
Hashed(members) == [enc |-> "ht", members |-> members]

NullBulk == -2

IsIntset(s) == s.enc = "intset"

\* isObjectRepresentableAsLongLong
Representable(v) == v \notin Words

\* createStringObjectFromLongLong: the number SharedIntegers is looked up among
\* the shared integers, one behind the last of them.
Boxed(v) == IF v = SharedIntegers THEN SetHeader ELSE v

setTypeCreate(v) == IF Representable(v) THEN Intset(intsetNew) ELSE Hashed({})

\* setTypeConvert, whose assertion fails if an element is there twice.
setTypeConvert(s) == Hashed({Boxed(v) : v \in ToSet(s.is.contents)})

\* The set with v, and whether v is new.
setTypeAdd(s, v) ==
  LET r == intsetAdd(s.is, v)
      larger == Intset(r.is)
  IN  IF ~ IsIntset(s) THEN [set |-> Hashed(s.members \cup {v}), added |-> v \notin s.members]
      ELSE IF ~ Representable(v)
      THEN [set |-> Hashed(setTypeConvert(s).members \cup {v}), added |-> TRUE]
      ELSE IF ~ r.success THEN [set |-> s, added |-> FALSE]
      ELSE [set |-> IF intsetLen(r.is) > SetMaxEntries THEN setTypeConvert(larger) ELSE larger,
            added |-> TRUE]

setTypeRemove(s, v) ==
  IF ~ IsIntset(s) THEN [set |-> Hashed(s.members \ {v}), removed |-> v \in s.members]
  ELSE IF ~ Representable(v) THEN [set |-> s, removed |-> FALSE]
  ELSE LET r == intsetRemove(s.is, v) IN [set |-> Intset(r.is), removed |-> r.success]

setTypeIsMember(s, v) ==
  IF IsIntset(s) THEN Representable(v) /\ intsetFind(s.is, v) ELSE v \in s.members

setTypeSize(s) == IF IsIntset(s) THEN intsetLen(s.is) ELSE Cardinality(s.members)

\* What setTypeNext returns: the elements of an intset in their order, those of
\* a hash table in some order.
ElementsOf(s) ==
  IF IsIntset(s) THEN s.is.contents ELSE FoldSet(LAMBDA v, seq : Append(seq, v), <<>>, s.members)

\* An element in the form of an object.
ObjectOf(s, v) == IF IsIntset(s) THEN Boxed(v) ELSE v

\* What setTypeNextObject returns.
ObjectsOf(s) == [i \in DOMAIN ElementsOf(s) |-> ObjectOf(s, ElementsOf(s)[i])]

\* The elements it may return.
setTypeRandomElement(s) == ToSet(ElementsOf(s))
-----------------------------------------------------------------------------
(* The commands that change the set.                                       *)

Absent == set = Missing

SAdd(vs) ==
  LET Step(o, v) == LET r == setTypeAdd(o.set, v)
                    IN  [set |-> r.set, n |-> IF r.added THEN o.n + 1 ELSE o.n]
      o == FoldLeft(Step, [set |-> IF Absent THEN setTypeCreate(vs[1]) ELSE set, n |-> 0], vs)
  IN  set' = o.set /\ reply' = o.n

\* SREM stops when it has deleted the empty set.
SRem(vs) ==
  LET Step(o, v) ==
        LET r == setTypeRemove(o.set, v)
        IN  IF o.set = Missing \/ ~ r.removed THEN o
            ELSE [set |-> IF setTypeSize(r.set) = 0 THEN Missing ELSE r.set, n |-> o.n + 1]
      o == FoldLeft(Step, [set |-> set, n |-> 0], vs)
  IN  set' = o.set /\ reply' = o.n

\* SPOP takes any element.
SPop ==
  \/ Absent /\ UNCHANGED set /\ reply' = NullBulk
  \/ /\ ~ Absent
     /\ \E v \in setTypeRandomElement(set) :
          LET r == setTypeRemove(set, v)
          IN  /\ set' = IF setTypeSize(r.set) = 0 THEN Missing ELSE r.set
              /\ reply' = ObjectOf(set, v)

Next ==
  \/ \E vs \in SetAdditions : call' = <<"sadd", vs>> /\ SAdd(vs)
  \/ \E vs \in SetRemovals : call' = <<"srem", vs>> /\ SRem(vs)
  \/ call' = <<"spop">> /\ SPop
-----------------------------------------------------------------------------
(* The commands that read.  A key is one of Others, or This.  The set      *)
(* objects of a command are named by their keys; a reply is a sequence.    *)

This == "this"

At(key) == IF key = This THEN set ELSE Others[key]

\* The keys in the order of the comparison of their sizes: qsort.
LOCAL Smallest(keys) == SortSeq(keys, LAMBDA a, b : setTypeSize(At(a)) < setTypeSize(At(b)))
LOCAL SizeOrZero(key) == IF At(key) = Missing THEN 0 ELSE setTypeSize(At(key))
LOCAL Largest(keys) == SortSeq(keys, LAMBDA a, b : SizeOrZero(a) > SizeOrZero(b))

\* An element of the first set, in the form it has there, against another set.
LOCAL Holds(first, s, v) ==
  IF IsIntset(first) /\ IsIntset(s) THEN intsetFind(s.is, v)
  ELSE setTypeIsMember(s, ObjectOf(first, v))

\* SINTER
sinterGeneric(keys) ==
  LET sets == Smallest(keys)
      first == At(sets[1])
      InAll(v) == \A j \in 2 .. Len(sets) : sets[j] = sets[1] \/ Holds(first, At(sets[j]), v)
  IN  IF \E j \in DOMAIN keys : At(keys[j]) = Missing THEN <<>>
      ELSE SelectSeq(ElementsOf(first), InAll)

\* The elements of all sets, one after the other, until Stop(set so far).
LOCAL Combine(keys, Op(_, _, _), Stop(_)) ==
  LET OneSet(d, j) ==
        IF At(keys[j]) = Missing \/ (j > 1 /\ Stop(d)) THEN d
        ELSE FoldLeft(LAMBDA e, v : Op(e, j, v), d, ObjectsOf(At(keys[j])))
  IN  FoldLeft(OneSet, Intset(intsetNew), [j \in DOMAIN keys |-> j])

sunion(keys) == ObjectsOf(Combine(keys, LAMBDA d, j, v : setTypeAdd(d, v).set, LAMBDA d : FALSE))

\* SDIFF, testing each element of the first set against the others.
DiffOneByOne(keys) ==
  LET sets == <<keys[1]>> \o Largest(Tail(keys))
      Kept(v) == \A j \in 2 .. Len(sets) :
                   At(sets[j]) = Missing \/ (sets[j] # sets[1] /\ ~ setTypeIsMember(At(sets[j]), v))
  IN  ObjectsOf(FoldLeft(LAMBDA d, v : setTypeAdd(d, v).set, Intset(intsetNew),
                       SelectSeq(ObjectsOf(At(keys[1])), Kept)))

\* SDIFF, taking the elements of the other sets from a copy of the first.
DiffByRemoval(keys) ==
  ObjectsOf(Combine(keys,
                  LAMBDA d, j, v : IF j = 1 THEN setTypeAdd(d, v).set ELSE setTypeRemove(d, v).set,
                  LAMBDA d : setTypeSize(d) = 0))

\* Which of the two does less work?
OneByOneIsBetter(keys) ==
  LET found == SelectSeq(keys, LAMBDA k : At(k) # Missing)
      one == FoldLeft(LAMBDA n, k : n + setTypeSize(At(keys[1])), 0, found)
      two == FoldLeft(LAMBDA n, k : n + setTypeSize(At(k)), 0, found)
  IN  one \div 2 <= two

sdiff(keys) ==
  IF At(keys[1]) = Missing THEN <<>>
  ELSE IF OneByOneIsBetter(keys) THEN DiffOneByOne(keys) ELSE DiffByRemoval(keys)

\* SRANDMEMBER with a count: every reply there can be, as its set of members
\* and its length.
SRandMember(l) ==
  LET uniq == l >= 0
      count == IF uniq THEN l % UnsignedMax ELSE - l
      size == setTypeSize(set)
      all == setTypeRandomElement(set)
      boxed == ToSet(ObjectsOf(set))
  IN  IF Absent \/ count = 0 THEN {[members |-> {}, length |-> 0]}
      ELSE IF ~ uniq
      THEN {[members |-> m, length |-> count] :
              m \in {x \in SUBSET all : x # {} /\ Cardinality(x) <= count}}
      ELSE IF count >= size THEN {[members |-> ToSet(sunion(<<This>>)), length |-> size]}
      ELSE {[members |-> m, length |-> count] : m \in {x \in SUBSET boxed : Cardinality(x) = count}}
-----------------------------------------------------------------------------
\* The members, found the way SISMEMBER finds them, among candidates.
MembersAmong(candidates) == IF Absent THEN {} ELSE {v \in candidates : setTypeIsMember(set, v)}

MembersOf(s) == IF s = Missing THEN {} ELSE ToSet(ElementsOf(s))

TypeOK ==
  \/ Absent
  \/ set.enc = "intset" /\ intsetLen(set.is) \in 1 .. SetMaxEntries
  \/ set.enc = "ht" /\ set.members # {}
=============================================================================
