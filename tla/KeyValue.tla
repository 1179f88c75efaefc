------------------------------ MODULE KeyValue -----------------------------
(***************************************************************************)
(* What the commands for one key promise: the key has no value or one of   *)
(* one type, a string, a list, a hash, a set or a sorted set, that acts    *)
(* like the mathematical object of that name; nothing is said of the forms *)
(* it is kept in.  An aggregate without elements is no value.              *)
(***************************************************************************)
EXTENDS Integers, Sequences, FiniteSets, SequencesExt, FiniteSetsExt

CONSTANTS
  Members, Additions, Removals,                   \* of sorted sets
  Elements, Pushes, Indices,                      \* of lists
  Fields, Texts, Length,                          \* of hashes
  SetAdditions, SetRemovals,                      \* of sets
  MinLL, MaxLL, Increments, Decrements            \* of strings

VARIABLES
  score,    \* the sorted set: the score of every member
  items,    \* the list: a sequence
  fields,   \* the hash: a function
  members,  \* the set
  str,      \* the string: None, Word or a number
  call,     \* the last command, with its arguments
  reply     \* its reply

None == [is |-> "none"]
Word == [is |-> "word"]
Number(n) == [is |-> "number", n |-> n]

NotFound == -1
NullBulk == -2
Ok == -3
NoKey == -4
OutOfRange == -5
WrongType == -6

Z == INSTANCE ScoreMap

NoScore == [m \in Members |-> Z!None]

\* The types of the value: at most one.
Held ==
  (IF score = NoScore THEN {} ELSE {"zset"}) \cup (IF items = <<>> THEN {} ELSE {"list"})
    \cup (IF DOMAIN fields = {} THEN {} ELSE {"hash"}) \cup (IF members = {} THEN {} ELSE {"set"})
    \cup (IF str = None THEN {} ELSE {"string"})

Nothing == score = NoScore /\ items = <<>> /\ fields = <<>> /\ members = {} /\ str = None

Init == Nothing /\ call = <<>> /\ reply = 0
-----------------------------------------------------------------------------
(* Lists.  An index counts from 0, a negative one from the end.            *)

At(seq, index) == IF index < 0 THEN Len(seq) + index + 1 ELSE index + 1
Within(seq, index) == At(seq, index) \in DOMAIN seq

List(seq, r) == reply' = r /\ items' = seq

Push(vs, head) ==
  LET seq == IF head THEN Reverse(vs) \o items ELSE items \o vs IN List(seq, Len(seq))

PushX(v, head) == IF items = <<>> THEN List(<<>>, 0) ELSE Push(<<v>>, head)

LInsert(pivot, v, after) ==
  LET i == SelectInSeq(items, LAMBDA e : e = pivot)
      seq == InsertAt(items, IF after THEN i + 1 ELSE i, v)
  IN  IF items = <<>> THEN List(<<>>, 0)
      ELSE IF i = 0 THEN List(items, NotFound) ELSE List(seq, Len(seq))

Pop(head) ==
  IF items = <<>> THEN List(<<>>, NullBulk)
  ELSE IF head THEN List(Tail(items), Head(items)) ELSE List(Front(items), Last(items))

LLen == List(items, Len(items))

\* The first count of the elements equal to v; all if count is 0.
Without(seq, v, count) ==
  LET Step(o, e) == IF e = v /\ (count = 0 \/ o.n < count) THEN [o EXCEPT !.n = @ + 1]
                    ELSE [o EXCEPT !.seq = Append(@, e)]
  IN  FoldLeft(Step, [seq |-> <<>>, n |-> 0], seq)

LRem(count, v) ==
  LET o == IF count < 0 THEN Without(Reverse(items), v, - count) ELSE Without(items, v, count)
  IN  List(IF count < 0 THEN Reverse(o.seq) ELSE o.seq, o.n)

LTrim(first, last) ==
  LET from == Max({1, At(items, first)})
      to == Min({Len(items), At(items, last)})
  IN  List(IF from > to THEN <<>> ELSE SubSeq(items, from, to), Ok)

LSet(index, v) ==
  IF items = <<>> THEN List(items, NoKey)
  ELSE IF Within(items, index) THEN List([items EXCEPT ![At(items, index)] = v], Ok)
  ELSE List(items, OutOfRange)

Counts == -2 .. 2

ListCommand ==
  \/ \E vs \in Pushes, head \in BOOLEAN : call' = <<"push", vs, head>> /\ Push(vs, head)
  \/ \E v \in Elements, head \in BOOLEAN : call' = <<"pushx", v, head>> /\ PushX(v, head)
  \/ \E pivot, v \in Elements, after \in BOOLEAN :
       call' = <<"linsert", pivot, v, after>> /\ LInsert(pivot, v, after)
  \/ \E head \in BOOLEAN : call' = <<"pop", head>> /\ Pop(head)
  \/ call' = <<"llen">> /\ LLen
  \/ \E count \in Counts, v \in Elements : call' = <<"lrem", count, v>> /\ LRem(count, v)
  \/ \E first, last \in Indices : call' = <<"ltrim", first, last>> /\ LTrim(first, last)
  \/ \E index \in Indices, v \in Elements : call' = <<"lset", index, v>> /\ LSet(index, v)

LIndex(seq, index) == IF Within(seq, index) THEN seq[At(seq, index)] ELSE NullBulk
-----------------------------------------------------------------------------
(* Hashes.  A value is the text that was given, and all of it: a pair of   *)
(* the text and its length.                                                *)

With(f, v) == [g \in DOMAIN fields \cup {f} |-> IF g = f THEN v ELSE fields[g]]

Deletions == {<<f>> : f \in Fields} \cup {<<f, g>> : f, g \in Fields}

HSet(f, v) ==
  /\ fields' = With(f, <<v, Length[v]>>)
  /\ reply' = IF f \in DOMAIN fields THEN 0 ELSE 1

HSetNx(f, v) ==
  IF f \in DOMAIN fields THEN UNCHANGED fields /\ reply' = 0 ELSE HSet(f, v)

HDel(fs) ==
  /\ fields' = [f \in DOMAIN fields \ ToSet(fs) |-> fields[f]]
  /\ reply' = Cardinality(DOMAIN fields \cap ToSet(fs))

HashCommand ==
  \/ \E f \in Fields, v \in Texts : call' = <<"hset", f, v>> /\ HSet(f, v)
  \/ \E f \in Fields, v \in Texts : call' = <<"hsetnx", f, v>> /\ HSetNx(f, v)
  \/ \E fs \in Deletions : call' = <<"hdel", fs>> /\ HDel(fs)
-----------------------------------------------------------------------------
(* Sets.                                                                   *)

SAdd(vs) == members' = members \cup ToSet(vs) /\ reply' = Cardinality(ToSet(vs) \ members)

SRem(vs) == members' = members \ ToSet(vs) /\ reply' = Cardinality(ToSet(vs) \cap members)

SPop ==
  \/ members = {} /\ UNCHANGED members /\ reply' = NullBulk
  \/ \E v \in members : members' = members \ {v} /\ reply' = v

SetCommand ==
  \/ \E vs \in SetAdditions : call' = <<"sadd", vs>> /\ SAdd(vs)
  \/ \E vs \in SetRemovals : call' = <<"srem", vs>> /\ SRem(vs)
  \/ call' = <<"spop">> /\ SPop
-----------------------------------------------------------------------------
(* Strings.  A sum that does not fit a long long is refused.               *)

IncrBy(n) ==
  LET sum == (IF str = None THEN 0 ELSE str.n) + n
  IN  IF str = Word \/ sum \notin MinLL .. MaxLL THEN UNCHANGED str /\ reply' < MinLL
      ELSE str' = Number(sum) /\ reply' = sum

StringCommand ==
  \/ call' = <<"incr">> /\ IncrBy(1)
  \/ call' = <<"decr">> /\ IncrBy(-1)
  \/ \E n \in Increments : call' = <<"incrby", n>> /\ IncrBy(n)
  \/ \E n \in Decrements : call' = <<"decrby", n>> /\ IncrBy(- n)
-----------------------------------------------------------------------------
\* A command of another type is refused.
Refused ==
  /\ Held # {} /\ call' = <<"refused">> /\ reply' = WrongType
  /\ UNCHANGED <<score, items, fields, members, str>>

\* SET replaces a value of any type.
SetTo(s) ==
  reply' = Ok /\ str' = s /\ score' = NoScore /\ items' = <<>> /\ fields' = <<>> /\ members' = {}

\* DEL
Del ==
  /\ str' = None /\ score' = NoScore /\ items' = <<>> /\ fields' = <<>> /\ members' = {}
  /\ reply' = IF Held = {} THEN 0 ELSE 1

Next ==
  \/ Held \subseteq {"zset"} /\ Z!Next /\ UNCHANGED <<items, fields, members, str>>
  \/ Held \subseteq {"list"} /\ ListCommand /\ UNCHANGED <<score, fields, members, str>>
  \/ Held \subseteq {"hash"} /\ HashCommand /\ UNCHANGED <<score, items, members, str>>
  \/ Held \subseteq {"set"} /\ SetCommand /\ UNCHANGED <<score, items, fields, str>>
  \/ Held \subseteq {"string"} /\ StringCommand /\ UNCHANGED <<score, items, fields, members>>
  \/ Refused
  \/ call' = <<"set word">> /\ SetTo(Word)
  \/ \E n \in Increments : call' = <<"set", n>> /\ SetTo(Number(n))
  \/ call' = <<"del">> /\ Del

Spec == Init /\ [][Next]_<<score, items, fields, members, str, call, reply>>
=============================================================================
