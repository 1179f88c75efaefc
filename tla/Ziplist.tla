------------------------------ MODULE Ziplist ------------------------------
(***************************************************************************)
(* ziplist.c as operators on a list in one block of memory.  An entry      *)
(* begins with the length of the entry before it, in one byte or in five;  *)
(* the header has the offset of the last entry, the size of the block and  *)
(* the number of entries.  A pointer to an entry is its index, and one     *)
(* more than the number of entries is the end mark; what the code reads    *)
(* from lengths and offsets is read from them here too.                    *)
(***************************************************************************)
EXTENDS Integers, Sequences, SequencesExt, FiniteSetsExt

CONSTANTS
  Bytes,      \* for each value the bytes of its encoding field and its content
  BigLen,     \* ZIP_BIGLEN: the least length that takes five bytes
  MaxCount    \* UINT16_MAX: the field for the number of entries is full

HeaderSize == 10   \* ZIPLIST_HEADER_SIZE

ziplistNew == [entry |-> <<>>, bytes |-> HeaderSize + 1, tail |-> HeaderSize, count |-> 0]

\* zipPrevEncodeLength without a target
PrevSize(n) == IF n < BigLen THEN 1 ELSE 5

RawLength(e) == e.prevsize + Bytes[e.val]

\* The offset of entry i in the block.
Offset(zl, i) == FoldLeft(LAMBDA sum, e : sum + RawLength(e), HeaderSize, SubSeq(zl.entry, 1, i - 1))

\* The entry at an offset; 0 if none begins there.
EntryAt(zl, offset) ==
  LET at == {i \in DOMAIN zl.entry : Offset(zl, i) = offset} IN IF at = {} THEN 0 ELSE Max(at)

IncrLength(count, incr) == IF count < MaxCount THEN count + incr ELSE count
-----------------------------------------------------------------------------
\* The length before entry i is written, in size bytes.
Prefixed(entry, i, size, rawlen) ==
  [entry EXCEPT ![i] = [@ EXCEPT !.prevsize = size, !.prev = rawlen]]

\* Entry i, whose length field has one byte too few ones, gets one of five.
Grown(zl, i, rawlen) ==
  [zl EXCEPT !.entry = Prefixed(@, i, 5, rawlen), !.bytes = @ + 4,
             !.tail = IF @ = Offset(zl, i) THEN @ ELSE @ + 4]

\* The length of entry i has changed: its successors get the lengths of their
\* predecessors, until one has it already or has room for it.  A field is never
\* made smaller.  __ziplistInsert and __ziplistDelete call this when a field
\* changes its size; under the limit of 64 bytes (REDIS_LIST_MAX_ZIPLIST_VALUE) no
\* list has an entry long enough for that (CascadeNeverDue in ListsProofs).
CascadeUpdate(zl, i) ==
  LET Step(o, j) ==
        LET rawlen == RawLength(o.zl.entry[j])
            next == o.zl.entry[j + 1]
        IN  IF o.done \/ next.prev = rawlen THEN [o EXCEPT !.done = TRUE]
            ELSE IF next.prevsize < PrevSize(rawlen)
            THEN [o EXCEPT !.zl = Grown(@, j + 1, rawlen)]
            ELSE [done |-> TRUE,
                  zl |-> [o.zl EXCEPT !.entry = Prefixed(@, j + 1, next.prevsize, rawlen)]]
      n == Len(zl.entry)
  IN  FoldLeft(Step, [zl |-> zl, done |-> FALSE], [k \in 1 .. n - i |-> i + k - 1]).zl

\* Entry i gets the length of its new predecessor in a field of the size that
\* it needs, larger or smaller by diff; what comes after it moves by diff.
Resized(zl, i, prevlen, diff) ==
  [zl EXCEPT !.entry = Prefixed(@, i, PrevSize(prevlen), prevlen),
             !.bytes = @ + diff,
             !.tail = IF i = Len(zl.entry) THEN @ ELSE @ + diff]

Preceded(zl, i, prevlen) ==
  LET diff == PrevSize(prevlen) - zl.entry[i].prevsize
  IN  IF diff = 0 THEN Resized(zl, i, prevlen, 0)
      ELSE CascadeUpdate(Resized(zl, i, prevlen, diff), i)

NewEntry(prevlen, v) == [prevsize |-> PrevSize(prevlen), prev |-> prevlen, val |-> v]

LengthAt(zl, i) == IF i = 0 THEN 0 ELSE RawLength(zl.entry[i])

Placed(zl, i, e, reqlen) ==
  LET larger == [entry |-> InsertAt(zl.entry, i, e), bytes |-> zl.bytes + reqlen,
                 tail |-> IF i = Len(zl.entry) + 1 THEN zl.bytes - 1 ELSE zl.tail + reqlen,
                 count |-> IncrLength(zl.count, 1)]
  IN  IF i = Len(zl.entry) + 1 THEN larger ELSE Preceded(larger, i + 1, reqlen)

\* A mutant: the length field is not counted in the length of the new entry.
PlacedShort(zl, i, e) == Placed(zl, i, e, Bytes[e.val])

PlacedEntry(zl, i, e) == Placed(zl, i, e, RawLength(e))

\* __ziplistInsert: before entry i, or at the end.
ziplistInsert(zl, i, v) ==
  LET prevlen == IF i = Len(zl.entry) + 1 THEN LengthAt(zl, EntryAt(zl, zl.tail))
                 ELSE zl.entry[i].prev
  IN  PlacedEntry(zl, i, NewEntry(prevlen, v))

ziplistPush(zl, v, head) == ziplistInsert(zl, IF head THEN 1 ELSE Len(zl.entry) + 1, v)

\* __ziplistDelete: deleted entries from i on, which take totlen bytes.
Deleted(zl, i, deleted, totlen) ==
  LET toEnd == i + deleted = Len(zl.entry) + 1
      smaller == [entry |-> SubSeq(zl.entry, 1, i - 1) \o SubSeq(zl.entry, i + deleted, Len(zl.entry)),
                  bytes |-> zl.bytes - totlen,
                  tail |-> IF toEnd THEN Offset(zl, i) - zl.entry[i].prev ELSE zl.tail - totlen,
                  count |-> IncrLength(zl.count, - deleted)]
  IN  IF totlen = 0 THEN zl
      ELSE IF toEnd THEN smaller ELSE Preceded(smaller, i, zl.entry[i].prev)

\* num entries from i on, as far as there are any.
DeleteFrom(zl, i, num) ==
  LET deleted == Min({num, Len(zl.entry) + 1 - i})
  IN  Deleted(zl, i, deleted, Offset(zl, i + deleted) - Offset(zl, i))

ziplistDelete(zl, i) == DeleteFrom(zl, i, 1)
-----------------------------------------------------------------------------
\* The entry before i, found by its length field; 0 for none.
ziplistPrev(zl, i) ==
  IF i = Len(zl.entry) + 1 THEN EntryAt(zl, zl.tail)
  ELSE IF i = 1 THEN 0
  ELSE EntryAt(zl, Offset(zl, i) - zl.entry[i].prev)

ziplistNext(zl, i) == IF i >= Len(zl.entry) THEN 0 ELSE i + 1

\* The entry of an index, counted from the end if it is negative; 0 for none.
\* Going back stops at the entry that has no predecessor.
ziplistIndex(zl, index) ==
  LET steps == - index - 1
      Back(o, k) == IF o.at = 0 \/ zl.entry[o.at].prev = 0 THEN o
                    ELSE [at |-> ziplistPrev(zl, o.at), left |-> o.left - 1]
      o == FoldLeft(Back, [at |-> EntryAt(zl, zl.tail), left |-> steps], [k \in 1 .. steps |-> k])
  IN  IF index >= 0 THEN IF index < Len(zl.entry) THEN index + 1 ELSE 0
      ELSE IF o.left > 0 THEN 0 ELSE o.at

ziplistDeleteRange(zl, index, num) ==
  LET i == ziplistIndex(zl, index) IN IF i = 0 THEN zl ELSE DeleteFrom(zl, i, num)

\* The number of entries: if the field is full they are counted, and the field
\* is set if their number fits again.
ziplistLen(zl) == IF zl.count < MaxCount THEN zl.count ELSE Len(zl.entry)

Counted(zl) ==
  [zl EXCEPT !.count = IF @ = MaxCount /\ Len(zl.entry) < MaxCount THEN Len(zl.entry) ELSE @]
-----------------------------------------------------------------------------
Values(zl) == [i \in DOMAIN zl.entry |-> zl.entry[i].val]

\* The layout: each entry has the length of the one before it, in a field
\* large enough, and the header fits the entries.
LayoutOK(zl) ==
  /\ \A i \in DOMAIN zl.entry :
       LET e == zl.entry[i]
       IN  /\ e.prev = IF i = 1 THEN 0 ELSE RawLength(zl.entry[i - 1])
           /\ e.prevsize >= PrevSize(e.prev)
  /\ zl.bytes = Offset(zl, Len(zl.entry) + 1) + 1
  /\ zl.tail = Offset(zl, IF zl.entry = <<>> THEN 1 ELSE Len(zl.entry))
  /\ zl.count = IF zl.count < MaxCount THEN Len(zl.entry) ELSE MaxCount
=============================================================================
