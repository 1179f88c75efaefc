------------------------------- MODULE IntSet ------------------------------
(***************************************************************************)
(* intset.c as operators on a sorted array of integers that are all stored *)
(* with the same width, the widest one that any of them has needed.        *)
(***************************************************************************)
EXTENDS Integers, Sequences, SequencesExt

CONSTANT
  Half        \* encoding 1, 2, 3: the integers from -Half[e] up to Half[e] - 1

Fits(v, e) == v >= - Half[e] /\ v < Half[e]

\* _intsetValueEncoding
ValueEncoding(v) == IF Fits(v, 1) THEN 1 ELSE IF Fits(v, 2) THEN 2 ELSE 3

\* What an element is once it is stored with encoding e: _intsetSet.
Narrowed(v, e) == ((v + Half[e]) % (2 * Half[e])) - Half[e]

intsetNew == [encoding |-> 1, contents |-> <<>>]

intsetLen(is) == Len(is.contents)

\* intsetSearch: is v there, and at which position (from 0) or where would it be?
intsetSearch(is, v) ==
  LET n == Len(is.contents)
      At(i) == is.contents[i + 1]
      Search[range \in (0 .. n) \X (-1 .. n - 1)] ==
        LET min == range[1]
            max == range[2]
            mid == (min + max) \div 2
        IN  IF max < min THEN [found |-> FALSE, pos |-> min]
            ELSE IF v > At(mid) THEN Search[<<mid + 1, max>>]
            ELSE IF v < At(mid) THEN Search[<<min, mid - 1>>]
            ELSE [found |-> TRUE, pos |-> mid]
  IN  IF n = 0 THEN [found |-> FALSE, pos |-> 0]
      ELSE IF v > At(n - 1) THEN [found |-> FALSE, pos |-> n]
      ELSE IF v < At(0) THEN [found |-> FALSE, pos |-> 0]
      ELSE Search[<<0, n - 1>>]

\* A mutant: the new element always becomes the last one.
UpgradeAndAppend(is, v) ==
  [encoding |-> ValueEncoding(v), contents |-> Append(is.contents, v)]

\* intsetUpgradeAndAdd: all elements get the new width, v the place its sign says.
UpgradeAndAdd(is, v) ==
  LET e == ValueEncoding(v)
      wider == [i \in DOMAIN is.contents |-> Narrowed(is.contents[i], e)]
  IN  [encoding |-> e,
       contents |-> IF v < 0 THEN <<v>> \o wider ELSE Append(wider, v)]

intsetFind(is, v) == ValueEncoding(v) <= is.encoding /\ intsetSearch(is, v).found

\* The result, and whether v was added.
intsetAdd(is, v) ==
  LET place == intsetSearch(is, v)
  IN  IF ValueEncoding(v) > is.encoding THEN [is |-> UpgradeAndAdd(is, v), success |-> TRUE]
      ELSE IF place.found THEN [is |-> is, success |-> FALSE]
      ELSE [is |-> [is EXCEPT !.contents = InsertAt(@, place.pos + 1, Narrowed(v, is.encoding))],
            success |-> TRUE]

intsetRemove(is, v) ==
  IF intsetFind(is, v)
  THEN [is |-> [is EXCEPT !.contents = RemoveAt(@, intsetSearch(is, v).pos + 1)], success |-> TRUE]
  ELSE [is |-> is, success |-> FALSE]

\* Sorted, without repetition, and no element too wide for the encoding.
IntSetOK(is) ==
  /\ \A i \in 1 .. Len(is.contents) - 1 : is.contents[i] < is.contents[i + 1]
  /\ \A i \in DOMAIN is.contents : Fits(is.contents[i], is.encoding)
=============================================================================
