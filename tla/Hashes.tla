------------------------------- MODULE Hashes ------------------------------
(***************************************************************************)
(* t_hash.c: a hash under one key, as a ziplist in which each field is     *)
(* followed by its value, or as a hash table.  What is stored is a pair of *)
(* a text and a length: the first bytes of that text and, if the length is *)
(* greater than its own, those that come after it in memory.               *)
(***************************************************************************)
EXTENDS Integers, Sequences, FiniteSets, SequencesExt, Functions

CONSTANTS
  Fields, Texts,    \* the texts that are fields, and all texts
  Length,           \* the length of each text
  LongTexts,        \* those longer than HASH_MAX_ZIPLIST_VALUE
  HashMaxEntries,   \* HASH_MAX_ZIPLIST_ENTRIES
  HashShared,       \* the text of the number REDIS_SHARED_INTEGERS
  HashHeader        \* the text "*0\r\n"

VARIABLES
  hash,             \* the value of the key
  call,              \* the last command, with its arguments
  reply             \* its reply

Missing == [enc |-> "none"]
Zipped(zl) == [enc |-> "ziplist", zl |-> zl]
Hashed(dict) == [enc |-> "ht", dict |-> dict]

Stored(text, length) == <<text, length>>
Whole(text) == Stored(text, Length[text])

IsZiplist(o) == o.enc = "ziplist"

\* ziplistFind with skip 1: every second entry is compared.
ziplistFind(zl, x) ==
  LET at == {i \in DOMAIN zl : i % 2 = 1 /\ zl[i] = x}
  IN  IF at = {} THEN 0 ELSE CHOOSE i \in at : \A j \in at : i <= j

\* hashTypeCurrentObject: an entry that is a number is made an object by
\* createStringObjectFromLongLong, which looks REDIS_SHARED_INTEGERS up among the
\* shared integers, one behind the last of them.
Boxed(x) == IF x[1] = HashShared /\ x = Whole(HashShared) THEN Whole(HashHeader) ELSE x

\* hashTypeConvertZiplist, whose assertion fails if a field is there twice.
hashTypeConvert(o) ==
  LET keys == {o.zl[i] : i \in {j \in DOMAIN o.zl : j % 2 = 1}}
      Unboxed(x) == CHOOSE y \in keys : Boxed(y) = x
  IN  Hashed([x \in {Boxed(y) : y \in keys} |-> Boxed(o.zl[ziplistFind(o.zl, Unboxed(x)) + 1])])

hashTypeTryConversion(o, texts) ==
  IF IsZiplist(o) /\ texts \cap LongTexts # {} THEN hashTypeConvert(o) ELSE o

hashTypeLength(o) == IF IsZiplist(o) THEN Len(o.zl) \div 2 ELSE Cardinality(DOMAIN o.dict)

hashTypeExists(o, f) ==
  IF IsZiplist(o) THEN ziplistFind(o.zl, Whole(f)) # 0 ELSE Whole(f) \in DOMAIN o.dict

hashTypeGet(o, f) ==
  IF IsZiplist(o) THEN o.zl[ziplistFind(o.zl, Whole(f)) + 1] ELSE o.dict[Whole(f)]

\* What a new pair stores for its value: as many bytes as the field has.
Pushed(f, v) == Stored(v, Length[f])

\* hashTypeSet
hashTypeSet(o, f, v) ==
  LET i == ziplistFind(o.zl, Whole(f))
      zl == IF i # 0 THEN InsertAt(RemoveAt(o.zl, i + 1), i + 1, Whole(v))
            ELSE o.zl \o <<Whole(f), Pushed(f, v)>>
      z == Zipped(zl)
  IN  IF ~ IsZiplist(o) THEN Hashed([x \in DOMAIN o.dict \cup {Whole(f)} |->
                                       IF x = Whole(f) THEN Whole(v) ELSE o.dict[x]])
      ELSE IF hashTypeLength(z) > HashMaxEntries THEN hashTypeConvert(z) ELSE z

hashTypeDelete(o, f) ==
  LET i == ziplistFind(o.zl, Whole(f))
  IN  IF ~ IsZiplist(o) THEN Hashed(Restrict(o.dict, DOMAIN o.dict \ {Whole(f)}))
      ELSE IF i = 0 THEN o ELSE Zipped(RemoveAt(RemoveAt(o.zl, i), i))
-----------------------------------------------------------------------------
Absent == hash = Missing

\* hashTypeLookupWriteOrCreate and hashTypeTryConversion
Prepared(f, v) == hashTypeTryConversion(IF Absent THEN Zipped(<<>>) ELSE hash, {f, v})

HSet(f, v) ==
  /\ hash' = hashTypeSet(Prepared(f, v), f, v)
  /\ reply' = IF hashTypeExists(Prepared(f, v), f) THEN 0 ELSE 1

\* HSETNX: the conversion happens even if the field exists.
HSetNx(f, v) ==
  LET o == Prepared(f, v)
  IN  IF hashTypeExists(o, f) THEN hash' = o /\ reply' = 0
      ELSE hash' = hashTypeSet(o, f, v) /\ reply' = 1

\* HDEL stops when it has deleted the empty hash.
HDel(fs) ==
  LET Step(o, f) ==
        LET rest == hashTypeDelete(o.hash, f)
        IN  IF o.hash = Missing \/ ~ hashTypeExists(o.hash, f) THEN o
            ELSE [hash |-> IF hashTypeLength(rest) = 0 THEN Missing ELSE rest, n |-> o.n + 1]
      o == FoldLeft(Step, [hash |-> hash, n |-> 0], fs)
  IN  hash' = o.hash /\ reply' = o.n

Deletions == {<<f>> : f \in Fields} \cup {<<f, g>> : f, g \in Fields}

Next ==
  \/ \E f \in Fields, v \in Texts : call' = <<"hset", f, v>> /\ HSet(f, v)
  \/ \E f \in Fields, v \in Texts : call' = <<"hsetnx", f, v>> /\ HSetNx(f, v)
  \/ \E fs \in Deletions : call' = <<"hdel", fs>> /\ HDel(fs)
-----------------------------------------------------------------------------
\* What HGET answers for every field there is.
Contents ==
  LET found == IF Absent THEN {} ELSE {f \in Fields : hashTypeExists(hash, f)}
  IN  [f \in found |-> hashTypeGet(hash, f)]

HLen == IF Absent THEN 0 ELSE hashTypeLength(hash)

\* What an iterator replies: hashTypeNext and addHashIteratorCursorToReply.
Pairs(o) ==
  IF IsZiplist(o) THEN {<<o.zl[i], o.zl[i + 1]>> : i \in {j \in DOMAIN o.zl : j % 2 = 1}}
  ELSE {<<x, o.dict[x]>> : x \in DOMAIN o.dict}

HGetAll == IF Absent THEN {} ELSE Pairs(hash)

TypeOK ==
  \/ Absent
  \/ /\ IsZiplist(hash)
     /\ Len(hash.zl) % 2 = 0 /\ hashTypeLength(hash) \in 1 .. HashMaxEntries
     /\ \A i \in DOMAIN hash.zl : hash.zl[i][1] \in Texts \ LongTexts
  \/ hash.enc = "ht" /\ DOMAIN hash.dict # {}
=============================================================================
