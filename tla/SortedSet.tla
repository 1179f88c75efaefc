----------------------------- MODULE SortedSet ------------------------------
(***************************************************************************)
(* t_zset.c: a sorted set under one key.  It starts as a ziplist, a flat   *)
(* list of members with their scores, and becomes a skip list with a       *)
(* dictionary beside it when it grows.  The dictionary does not hold the   *)
(* scores: it points to those in the nodes of the skip list.               *)
(***************************************************************************)
EXTENDS SkipList

CONSTANTS
  Members,    \* integers in the order of compareStringObjects
  Long,       \* those longer than zset_max_ziplist_value
  MaxEntries, \* zset_max_ziplist_entries
  Heights,    \* the results of zslRandomLevel
  Additions,  \* the arguments of ZADD: sequences of [ele, score]
  Removals,   \* the arguments of ZREM: sequences of members
  MemberShared, MemberHeader  \* the members "10000" and "*0\r\n"

VARIABLES
  zset,       \* the value of the key
  call,       \* the last command, with its arguments
  reply       \* its reply

Missing == [enc |-> "none"]
Ziplist(zl) == [enc |-> "ziplist", zl |-> zl]
Skiplist(zsl, dict) == [enc |-> "skiplist", zsl |-> zsl, dict |-> dict]

Aborted == -1  \* in place of a reply: an assertion has failed

(* The ziplist: a sequence of [ele, score].                                *)

zzlFind(zl, m) == SelectInSeq(zl, LAMBDA e : e.ele = m)

zzlInsert(zl, m, score) ==
  LET at == SelectInSeq(zl, LAMBDA e : e.score > score \/ (e.score = score /\ e.ele > m))
      new == [ele |-> m, score |-> score]
  IN  IF at = 0 THEN Append(zl, new) ELSE InsertAt(zl, at, new)

zzlDelete(zl, i) == RemoveAt(zl, i)

(* The skip list with its dictionary, from members to nodes.               *)

\* The name of a new node: one that no pointer bears, not even a pointer to
\* memory that was freed.
NewNode(zsl, dict) ==
  LET used == DOMAIN zsl.node \cup {dict[m] : m \in DOMAIN dict}
  IN  Min((1 .. Cardinality(used) + 1) \ used)

\* zslInsert and then dictAdd, of a member that is in neither.
Inserted(z, height, pair) ==
  LET n == NewNode(z.zsl, z.dict)
  IN  Skiplist(zslInsert(z.zsl, n, height, pair.score, pair.ele), z.dict @@ pair.ele :> n)

\* A mutant: the pointer to the score stays as it was.
RepointedNever(dict, m, n) == dict

\* dictGetVal(de) = &znode->score
Repointed(dict, m, n) == [dict EXCEPT ![m] = n]

\* The update of a score.
Moved(z, height, pair) ==
  LET zsl == zslDelete(z.zsl, z.zsl.node[z.dict[pair.ele]].score, pair.ele)
      n == NewNode(zsl, z.dict)
  IN  Skiplist(zslInsert(zsl, n, height, pair.score, pair.ele), Repointed(z.dict, pair.ele, n))

\* createStringObjectFromLongLong: the number REDIS_SHARED_INTEGERS is looked up
\* among the shared integers, one behind the last of them.
Boxed(pair) == IF pair.ele = MemberShared THEN [pair EXCEPT !.ele = MemberHeader] ELSE pair

\* zsetConvert, one result for each choice of the heights.
zsetConvert(zl) ==
  {FoldLeft(LAMBDA z, i : Inserted(z, hs[i], Boxed(zl[i])), Skiplist(zslCreate, <<>>), [i \in DOMAIN zl |-> i])
     : hs \in [DOMAIN zl -> Heights]}

\* A mutant: one entry too many.
TooLargeLate(zl, m) == Len(zl) > MaxEntries + 1 \/ m \in Long

TooLarge(zl, m) == Len(zl) > MaxEntries \/ m \in Long
-----------------------------------------------------------------------------
(* One argument of ZADD or ZREM.  An outcome has the value so far, what    *)
(* has been counted for the reply, and whether every assertion held.       *)

\* The argument's member is new, or has another score, or has this score already.
AddToZiplist(o, pair) ==
  LET zl == o.zset.zl
      i == zzlFind(zl, pair.ele)
      new == zzlInsert(zl, pair.ele, pair.score)
  IN  CASE i = 0 ->
             {[o EXCEPT !.zset = z, !.n = @ + 1] :
                z \in IF TooLarge(new, pair.ele) THEN zsetConvert(new) ELSE {Ziplist(new)}}
        [] i # 0 /\ zl[i].score # pair.score ->
             {[o EXCEPT !.zset = Ziplist(zzlInsert(zzlDelete(zl, i), pair.ele, pair.score))]}
        [] OTHER -> {o}

AddToSkiplist(o, pair) ==
  LET z == o.zset
      new == pair.ele \notin DOMAIN z.dict
      curscore == z.zsl.node[z.dict[pair.ele]].score
  IN  CASE new -> {[o EXCEPT !.zset = Inserted(z, h, pair), !.n = @ + 1] : h \in Heights}
        [] ~ new /\ curscore # pair.score ->
             IF Target(z.zsl, curscore, pair.ele) = Nil THEN {[o EXCEPT !.ok = FALSE]}
             ELSE {[o EXCEPT !.zset = Moved(z, h, pair)] : h \in Heights}
        [] OTHER -> {o}

AddOne(outcomes, pair) ==
  UNION {IF ~ o.ok THEN {o}
         ELSE IF o.zset.enc = "ziplist" THEN AddToZiplist(o, pair)
         ELSE AddToSkiplist(o, pair) : o \in outcomes}

\* zremCommand stops when dbDelete has removed the empty set: nothing is found then.
RemFromZiplist(o, m) ==
  LET i == zzlFind(o.zset.zl, m)
      rest == zzlDelete(o.zset.zl, i)
  IN  IF i = 0 THEN o
      ELSE [o EXCEPT !.zset = IF rest = <<>> THEN Missing ELSE Ziplist(rest), !.n = @ + 1]

RemFromSkiplist(o, m) ==
  LET z == o.zset
      score == z.zsl.node[z.dict[m]].score
      rest == Skiplist(zslDelete(z.zsl, score, m), Restrict(z.dict, DOMAIN z.dict \ {m}))
  IN  IF m \notin DOMAIN z.dict THEN o
      ELSE IF Target(z.zsl, score, m) = Nil THEN [o EXCEPT !.ok = FALSE]
      ELSE [o EXCEPT !.zset = IF rest.dict = <<>> THEN Missing ELSE rest, !.n = @ + 1]

RemOne(o, m) ==
  CASE ~ o.ok \/ o.zset = Missing -> o
    [] o.ok /\ o.zset.enc = "ziplist" -> RemFromZiplist(o, m)
    [] OTHER -> RemFromSkiplist(o, m)

\* The same set with its nodes numbered in their order: an address has no
\* meaning.  Other pointers stay different from these and from each other.
Renumbered(z) ==
  LET n == Cardinality(DOMAIN z.zsl.node)
      From[k \in 0 .. n, x \in Int] ==
        IF k = 0 \/ x \notin DOMAIN z.zsl.node THEN <<>>
        ELSE <<x>> \o From[k - 1, z.zsl.node[x].level[0].forward]
      chain == From[n, First(z.zsl)]
      New(x) == IF x \in {Header, Nil} THEN x
                ELSE IF x \in ToSet(chain) THEN CHOOSE i \in DOMAIN chain : chain[i] = x
                ELSE n + x
      Old(y) == CHOOSE x \in DOMAIN z.zsl.node : New(x) = y
      Node(node) == [node EXCEPT !.backward = New(@),
                                 !.level = [i \in DOMAIN @ |-> [@[i] EXCEPT !.forward = New(@)]]]
  IN  Skiplist([z.zsl EXCEPT !.node = [y \in {New(x) : x \in DOMAIN @} |-> Node(@[Old(y)])],
                             !.tail = New(@)],
               [m \in DOMAIN z.dict |-> New(z.dict[m])])

Started(z) == [zset |-> z, n |-> 0, ok |-> TRUE]

Ended(o) ==
  /\ zset' = IF o.zset.enc = "skiplist" THEN Renumbered(o.zset) ELSE o.zset
  /\ reply' = IF o.ok THEN o.n ELSE Aborted
-----------------------------------------------------------------------------
\* The value zaddCommand finds or creates.
Found(pairs) ==
  IF zset # Missing THEN zset
  ELSE IF MaxEntries = 0 \/ pairs[1].ele \in Long THEN Skiplist(zslCreate, <<>>)
  ELSE Ziplist(<<>>)

ZAdd(pairs) ==
  \E o \in FoldLeft(AddOne, {Started(Found(pairs))}, pairs) : Ended(o)

ZRem(members) == Ended(FoldLeft(RemOne, Started(zset), members))

Next ==
  \/ \E pairs \in Additions : call' = <<"zadd", pairs>> /\ ZAdd(pairs)
  \/ \E members \in Removals : call' = <<"zrem", members>> /\ ZRem(members)
-----------------------------------------------------------------------------
(* The commands that only read.                                            *)

zsetLength == IF zset.enc = "ziplist" THEN Len(zset.zl) ELSE zset.zsl.length

\* ZSCORE
Score(m) ==
  IF zset.enc = "ziplist" THEN zset.zl[zzlFind(zset.zl, m)].score
  ELSE zset.zsl.node[zset.dict[m]].score

\* ZRANK and ZREVRANK of a member
Zrank(m, reverse) ==
  LET rank == IF zset.enc = "ziplist" THEN zzlFind(zset.zl, m)
              ELSE zslGetRank(zset.zsl, Score(m), m)
  IN  IF reverse THEN zsetLength - rank ELSE rank - 1

\* ZCOUNT.  In a ziplist, from the first element in range as long as they are.
Zcount(range) ==
  LET zl == zset.zl
      zsl == zset.zsl
      from == SelectInSeq(zl, LAMBDA e : zslValueGteMin(e.score, range))
      past == SelectInSeq(zl, LAMBDA e : ~ zslValueLteMax(e.score, range))
      zn == zslFirstInRange(zsl, range)
      last == zslLastInRange(zsl, range)
      rank(x) == zslGetRank(zsl, zsl.node[x].score, zsl.node[x].obj)
  IN  IF zset.enc = "ziplist"
      THEN IF EmptyRange(range) \/ from = 0 THEN 0
           ELSE IF past = 0 THEN Len(zl) + 1 - from ELSE Max({0, past - from})
      ELSE (IF zn = Nil THEN 0 ELSE zsl.length - (rank(zn) - 1))
           - (IF zn = Nil \/ last = Nil THEN 0 ELSE zsl.length - rank(last))

\* n elements of the skip list from a node on, forward or backward.
Follow(zsl, x, n, reverse) ==
  LET Visited[k \in 0 .. n, y \in Int] ==
        IF k = 0 THEN <<>>
        ELSE <<zsl.node[y].obj>> \o
             Visited[k - 1, IF reverse THEN zsl.node[y].backward
                             ELSE zsl.node[y].level[0].forward]
  IN  Visited[n, x]

\* ZRANGE and ZREVRANGE
Zrange(start, end, reverse) ==
  LET llen == zsetLength
      Index(i) == IF i < 0 THEN llen + i ELSE i
      from == Max({0, Index(start)})
      to == IF Index(end) >= llen THEN llen - 1 ELSE Index(end)
      zl == IF reverse THEN Reverse(zset.zl) ELSE zset.zl
      zsl == zset.zsl
      ln == IF from = 0 THEN IF reverse THEN zsl.tail ELSE First(zsl)
            ELSE zslGetElementByRank(zsl, IF reverse THEN llen - from ELSE from + 1)
  IN  IF from > to \/ from >= llen THEN <<>>
      ELSE IF zset.enc = "ziplist" THEN [i \in 1 .. to - from + 1 |-> zl[from + i].ele]
      ELSE Follow(zsl, ln, to - from + 1, reverse)
-----------------------------------------------------------------------------
(* Properties.                                                             *)

\* The members, found the way ZSCORE finds them.
IsMember(m) ==
  \/ zset.enc = "ziplist" /\ zzlFind(zset.zl, m) # 0
  \/ zset.enc = "skiplist" /\ m \in DOMAIN zset.dict

Contents == [m \in Members |-> IF IsMember(m) THEN Score(m) ELSE -1]

Abstract == INSTANCE ScoreMap WITH score <- Contents

Scores == {pair.score : pair \in UNION {ToSet(pairs) : pairs \in Additions}}

\* Types, and the bounds within which a sorted set stays a ziplist.
TypeOK ==
  \/ zset = Missing
  \/ /\ zset.enc = "ziplist"
     /\ zset.zl \in Seq([ele : Members \ Long, score : Scores])
     /\ Len(zset.zl) \in 1 .. MaxEntries
  \/ /\ zset.enc = "skiplist"
     /\ DOMAIN zset.dict \subseteq Members
     /\ zset.zsl.level \in 1 .. MaxLevel
     /\ \A x \in DOMAIN zset.zsl.node \ {Header} :
          zset.zsl.node[x].score \in Scores /\ zset.zsl.node[x].obj \in Members

\* Every link of the skip list (zslInsert, zslDeleteNode): at each level a node
\* is linked to the next one that is at least as high, and the span of the link
\* is the distance in the order of all nodes, to the end for the last link;
\* backward pointers, tail, length and level agree with it.
SpansExact ==
  zset.enc = "skiplist" =>
    LET zsl == zset.zsl
        Before(x, y) == Precedes(zsl.node[x], zsl.node[y].score, zsl.node[y].obj)
        order == <<Header>> \o SetToSortSeq(DOMAIN zsl.node \ {Header}, Before)
        height(k) == Cardinality(DOMAIN zsl.node[order[k]].level)
        Higher(k, i) == {q \in k + 1 .. Len(order) : height(q) > i}
        Linked(k, i) ==
          LET link == zsl.node[order[k]].level[i]
          IN  IF Higher(k, i) = {}
              THEN link.forward = Nil /\ link.span = Len(order) - k
              ELSE link.forward = order[Min(Higher(k, i))] /\ link.span = Min(Higher(k, i)) - k
        levels == IF Len(order) = 1 THEN 1 ELSE Max({height(k) : k \in 2 .. Len(order)})
    IN  /\ zsl.level = levels
        /\ zsl.length = Len(order) - 1
        /\ zsl.tail = IF Len(order) = 1 THEN Nil ELSE Last(order)
        /\ \A k \in DOMAIN order, i \in 0 .. levels - 1 : i < height(k) => Linked(k, i)
        /\ \A k \in 2 .. Len(order) :
             zsl.node[order[k]].backward = IF k = 2 THEN Nil ELSE order[k - 1]

\* The dictionary of a skip list points to its nodes, each member to its own:
\* no pointer is left to a node that zslDelete has freed.
PointersExact ==
  zset.enc = "skiplist" =>
    /\ {zset.dict[m] : m \in DOMAIN zset.dict} = DOMAIN zset.zsl.node \ {Header}
    /\ \A m \in DOMAIN zset.dict : zset.zsl.node[zset.dict[m]].obj = m

\* ZRANK, ZREVRANK, ZCOUNT, ZRANGE and ZREVRANGE answer what the scores say, in
\* both encodings: the spans of the skip list give the same ranks as counting.
ReadsExact ==
  zset # Missing =>
    LET f == Contents
        order == Abstract!InOrder(f)
        Positions == -Len(order) - 1 .. Len(order)
        Ranges == [min : Scores, max : Scores, minex : BOOLEAN, maxex : BOOLEAN]
    IN  /\ \A m \in Abstract!Ranked(f) :
             /\ Zrank(m, FALSE) = Abstract!Rank(f, m)
             /\ Zrank(m, TRUE) = Len(order) - 1 - Abstract!Rank(f, m)
        /\ \A range \in Ranges : Zcount(range) = Abstract!CountInRange(f, range)
        /\ \A start, end \in Positions :
             /\ Zrange(start, end, FALSE) = Abstract!Slice(order, start, end)
             /\ Zrange(start, end, TRUE) = Abstract!Slice(Reverse(order), start, end)

=============================================================================
