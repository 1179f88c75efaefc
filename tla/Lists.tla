------------------------------- MODULE Lists -------------------------------
(***************************************************************************)
(* t_list.c: a list under one key, as a ziplist or as a linked list.       *)
(* Elements are positive integers.                                         *)
(***************************************************************************)
EXTENDS Ziplist

LOCAL INSTANCE AdList

CONSTANTS
  Elements,       \* DOMAIN Bytes
  LongElements,   \* those longer than LIST_MAX_ZIPLIST_VALUE
  ListMaxEntries, \* LIST_MAX_ZIPLIST_ENTRIES
  MaxLength,      \* bound: the length of a list
  Pushes,         \* the arguments of LPUSH and RPUSH: sequences of elements
  Indices,        \* the indices in LSET and LTRIM
  ListShared,     \* the element that is the number REDIS_SHARED_INTEGERS
  ListHeader,     \* the element "*0\r\n"
  IntHalf         \* 2^31: what is passed for an int is cut to -2^31 .. 2^31 - 1

VARIABLES
  list,           \* the value of the key
  call,            \* the last command, with its arguments
  reply           \* its reply

Missing == [enc |-> "none"]
Zipped(zl) == [enc |-> "ziplist", zl |-> zl]
Linked(l) == [enc |-> "linkedlist", l |-> l]

\* Replies that are neither an element nor a number.
NotFound == -1
NullBulk == -2
Ok == -3
NoKey == -4
OutOfRange == -5

IsZiplist(o) == o.enc = "ziplist"

\* createStringObjectFromLongLong: the number REDIS_SHARED_INTEGERS is looked up
\* among the shared integers, one behind the last of them.
Boxed(v) == IF v = ListShared THEN ListHeader ELSE v

\* listTypeConvert: the values in the form of objects, as listTypeGet makes them.
listTypeConvert(o) ==
  LET values == Values(o.zl)
  IN  Linked(FoldLeft(listAddNodeTail, listCreate, [i \in DOMAIN values |-> Boxed(values[i])]))

listTypeTryConversion(o, v) ==
  IF IsZiplist(o) /\ v \in LongElements THEN listTypeConvert(o) ELSE o

\* listTypeLength: its result, and what ziplistLen may do to the value.
listTypeLength(o) == IF IsZiplist(o) THEN ziplistLen(o.zl) ELSE o.l.len

Measured(o) == IF IsZiplist(o) THEN Zipped(Counted(o.zl)) ELSE o

\* With room for one more element.
Roomy(o) ==
  IF IsZiplist(o) /\ listTypeLength(o) >= ListMaxEntries THEN listTypeConvert(o) ELSE o

Pushed(o, v, head) ==
  IF IsZiplist(o) THEN Zipped(ziplistPush(o.zl, v, head))
  ELSE Linked(IF head THEN listAddNodeHead(o.l, v) ELSE listAddNodeTail(o.l, v))

listTypePush(o, v, head) == Pushed(Roomy(Measured(listTypeTryConversion(o, v))), v, head)
-----------------------------------------------------------------------------
(* Entries: indices of the ziplist, nodes of the linked list; 0 is none.   *)

\* A long where ziplistIndex takes an int.
Cut(index) == ((index + IntHalf) % (2 * IntHalf)) - IntHalf

EntryOf(o, index) == IF IsZiplist(o) THEN ziplistIndex(o.zl, Cut(index)) ELSE listIndex(o.l, index)

Value(o, x) == IF IsZiplist(o) THEN o.zl.entry[x].val ELSE o.l.node[x].value

\* The value as an object, to be replied.
ValueObject(o, x) == IF IsZiplist(o) THEN Boxed(Value(o, x)) ELSE Value(o, x)

\* listTypeNext
After(o, x, forward) ==
  IF IsZiplist(o) THEN IF forward THEN ziplistNext(o.zl, x) ELSE ziplistPrev(o.zl, x)
  ELSE listNext(o.l, x, forward)

\* listTypeEqual: the end of a ziplist equals nothing.
listTypeEqual(o, x, v) ==
  (IsZiplist(o) => x <= Len(o.zl.entry)) /\ Value(o, x) = v

Removed(o, x) == IF IsZiplist(o) THEN Zipped(ziplistDelete(o.zl, x)) ELSE Linked(listDelNode(o.l, x))

\* A mutant: the iterator goes on behind the entry that took the deleted one's place.
NextAfterDeleteSkips(o, x, forward) ==
  IF IsZiplist(o) /\ forward THEN ziplistNext(Removed(o, x).zl, x)
  ELSE IF IsZiplist(o) THEN ziplistPrev(Removed(o, x).zl, x) ELSE listNext(o.l, x, forward)

\* listTypeDelete: where the iterator goes on.  In a ziplist that is the same
\* place, which may be the end mark, or what is before it.
NextAfterDelete(o, x, forward) ==
  IF IsZiplist(o) THEN IF forward THEN x ELSE ziplistPrev(Removed(o, x).zl, x)
  ELSE listNext(o.l, x, forward)

\* The first entry equal to v from the head; 0 for none.
Search(o, v) ==
  LET Step(x, k) == IF x = 0 \/ listTypeEqual(o, x, v) THEN x ELSE After(o, x, TRUE)
  IN  FoldLeft(Step, EntryOf(o, 0), [k \in 1 .. listTypeLength(o) |-> k])

\* listTypeInsert: in a ziplist, behind the last entry by a push.
listTypeInsert(o, x, v, after) ==
  LET next == ziplistNext(o.zl, x)
      at == IF ~ after THEN x ELSE IF next = 0 THEN Len(o.zl.entry) + 1 ELSE next
  IN  IF IsZiplist(o) THEN Zipped(ziplistInsert(o.zl, at, v))
      ELSE Linked(listInsertNode(o.l, x, v, after))
-----------------------------------------------------------------------------
(* The commands.                                                           *)

Absent == list = Missing
Becomes(o, r) ==
  list' = (IF o.enc = "linkedlist" THEN Linked(Renumbered(o.l)) ELSE o) /\ reply' = r
\* What is left under the key: an empty list is deleted.
Left(o) == IF listTypeLength(o) = 0 THEN Missing ELSE Measured(o)

Room(n) == (IF Absent THEN 0 ELSE listTypeLength(list)) + n <= MaxLength

\* The reply is the length.
Grows(o) == Becomes(Measured(o), listTypeLength(o))

Push(vs, head) ==
  LET found == IF Absent THEN Zipped(ziplistNew) ELSE list
  IN  Room(Len(vs)) /\ Grows(FoldLeft(LAMBDA p, v : listTypePush(p, v, head), found, vs))

\* LPUSHX and RPUSHX
PushX(v, head) ==
  IF Absent THEN Becomes(list, 0) ELSE Room(1) /\ Grows(listTypePush(list, v, head))

Limited(o) ==
  IF IsZiplist(o) /\ listTypeLength(o) > ListMaxEntries THEN listTypeConvert(o) ELSE o

InsertAtPivot(o, x, v, after) ==
  IF x = 0 THEN Becomes(o, NotFound)
  ELSE Room(1) /\ Grows(Limited(Measured(listTypeInsert(o, x, v, after))))

\* LINSERT: the conversion for v happens even if the pivot is not found.
LInsert(pivot, v, after) ==
  LET o == listTypeTryConversion(list, v)
  IN  IF Absent THEN Becomes(list, 0) ELSE InsertAtPivot(o, Search(o, pivot), v, after)

\* listTypePop: the entry that it takes.
End(o, head) ==
  IF IsZiplist(o) THEN ziplistIndex(o.zl, IF head THEN 0 ELSE -1)
  ELSE IF head THEN o.l.head ELSE o.l.tail

Pop(head) ==
  IF Absent THEN Becomes(list, NullBulk)
  ELSE Becomes(Left(Removed(list, End(list, head))), ValueObject(list, End(list, head)))

LLen == IF Absent THEN Becomes(list, 0) ELSE Becomes(Measured(list), listTypeLength(list))

\* LREM: from the head, or from the tail if count is negative; all if it is 0.
\* The iterator ends at the latest behind MaxLength entries and the end mark.
LRem(count, v) ==
  LET forward == count >= 0
      toremove == IF forward THEN count ELSE - count
      Step(o, k) ==
        IF o.at = 0 \/ (toremove # 0 /\ o.removed = toremove) THEN o
        ELSE IF ~ listTypeEqual(o.list, o.at, v)
        THEN [o EXCEPT !.at = After(o.list, @, forward)]
        ELSE [list |-> Removed(o.list, o.at), removed |-> o.removed + 1,
              at |-> NextAfterDelete(o.list, o.at, forward)]
      o == FoldLeft(Step,
                    [list |-> list, removed |-> 0, at |-> EntryOf(list, IF forward THEN 0 ELSE -1)],
                    [k \in 1 .. MaxLength + 1 |-> k])
  IN  IF Absent THEN Becomes(list, 0) ELSE Becomes(Left(o.list), o.removed)

LTrim(first, last) ==
  LET llen == listTypeLength(list)
      from == IF first < 0 THEN llen + first ELSE first
      start == IF from < 0 THEN 0 ELSE from
      end == IF last < 0 THEN llen + last ELSE last
      nothing == start > end \/ start >= llen
      ltrim == IF nothing THEN llen ELSE start
      rtrim == IF nothing \/ end >= llen THEN 0 ELSE llen - end - 1
      Drop(l, n, head) ==
        FoldLeft(LAMBDA k, i : listDelNode(k, IF head THEN k.head ELSE k.tail), l, [i \in 1 .. n |-> i])
      o == IF IsZiplist(list)
           THEN Zipped(ziplistDeleteRange(ziplistDeleteRange(Counted(list.zl), 0, ltrim), - rtrim, rtrim))
           ELSE Linked(Drop(Drop(list.l, ltrim, TRUE), rtrim, FALSE))
  IN  IF Absent THEN Becomes(list, Ok) ELSE Becomes(Left(o), Ok)

\* LSET: the conversion for v happens even if there is no such index.
LSet(index, v) ==
  LET o == listTypeTryConversion(list, v)
      x == EntryOf(o, index)
  IN  IF Absent THEN Becomes(list, NoKey)
      ELSE IF x = 0 THEN Becomes(o, OutOfRange)
      ELSE Becomes(IF IsZiplist(o) THEN Zipped(ziplistInsert(ziplistDelete(o.zl, x), x, v))
                   ELSE Linked([o.l EXCEPT !.node[x].value = v]), Ok)

Counts == {-2, -1, 0, 1, 2}

Next ==
  \/ \E vs \in Pushes, head \in BOOLEAN : call' = <<"push", vs, head>> /\ Push(vs, head)
  \/ \E v \in Elements, head \in BOOLEAN : call' = <<"pushx", v, head>> /\ PushX(v, head)
  \/ \E pivot, v \in Elements, after \in BOOLEAN :
       call' = <<"linsert", pivot, v, after>> /\ LInsert(pivot, v, after)
  \/ \E head \in BOOLEAN : call' = <<"pop", head>> /\ Pop(head)
  \/ call' = <<"llen">> /\ LLen
  \/ \E count \in Counts, v \in Elements : call' = <<"lrem", count, v>> /\ LRem(count, v)
  \/ \E first, last \in Indices : call' = <<"ltrim", first, last>> /\ LTrim(first, last)
  \/ \E index \in Indices, v \in Elements : call' = <<"lset", index, v>> /\ LSet(index, v)
-----------------------------------------------------------------------------
\* The elements from the head on.
Items == IF Absent THEN <<>> ELSE IF IsZiplist(list) THEN Values(list.zl) ELSE ListValues(list.l)

\* LINDEX
LIndex(index) ==
  IF EntryOf(list, index) = 0 THEN NullBulk ELSE ValueObject(list, EntryOf(list, index))

TypeOK ==
  \/ Absent
  \/ /\ IsZiplist(list)
     /\ Len(list.zl.entry) \in 1 .. ListMaxEntries
     /\ \A i \in DOMAIN list.zl.entry : Value(list, i) \in Elements \ LongElements
  \/ /\ list.enc = "linkedlist"
     /\ Cardinality(DOMAIN list.l.node) \in 1 .. MaxLength

BlockExact == IsZiplist(list) => LayoutOK(list.zl)

ChainsExact == list.enc = "linkedlist" => LinksOK(list.l)
=============================================================================
