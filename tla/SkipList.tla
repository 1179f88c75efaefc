------------------------------ MODULE SkipList ------------------------------
(***************************************************************************)
(* zskiplist.c as operators on a skip list.  Members and scores are        *)
(* integers, members in the order of compareStringObjects.                 *)
(***************************************************************************)
EXTENDS Integers, Sequences, FiniteSets, SequencesExt, FiniteSetsExt

CONSTANT MaxLevel   \* ZSKIPLIST_MAXLEVEL

Header == 0   \* the node zsl->header; the others are named 1, 2, ...
Nil == -1     \* NULL

zslCreateNode(height, score, obj) ==
  [obj |-> obj, score |-> score, backward |-> Nil,
   level |-> [i \in 0 .. height - 1 |-> [forward |-> Nil, span |-> 0]]]

zslCreate ==
  [node |-> Header :> zslCreateNode(MaxLevel, 0, Nil),
   tail |-> Nil, length |-> 0, level |-> 1]

First(zsl) == zsl.node[Header].level[0].forward

\* Is an element with this score and object sorted before (score, obj)?
Precedes(x, score, obj) == x.score < score \/ (x.score = score /\ x.obj < obj)

\* The search all functions share: from the highest level down, each level goes
\* forward while Go(node, rank) holds of the node it would reach and of the
\* spans passed until there.  For each level the place where it stops.
Descent(zsl, Go(_, _)) ==
  LET Walk[i \in 0 .. MaxLevel - 1, p \in [at : Int, rank : Int]] ==
        LET link == zsl.node[p.at].level[i]
            q == [at |-> link.forward, rank |-> p.rank + link.span]
        IN  IF q.at # Nil /\ Go(q.at, q.rank) THEN Walk[i, q] ELSE p
      Place[i \in 0 .. zsl.level - 1] ==
        Walk[i, IF i = zsl.level - 1 THEN [at |-> Header, rank |-> 0] ELSE Place[i + 1]]
  IN  Place

\* The places before an element: update[] and rank[] of the code.
PlacesBefore(zsl, score, obj) ==
  LET Go(y, r) == Precedes(zsl.node[y], score, obj) IN Descent(zsl, Go)
-----------------------------------------------------------------------------
\* A mutant: the links above the new node are left alone.
StretchedNever(link) == link

\* A link that passes over the new node: the code's loop for the levels above it.
Stretched(link) == [link EXCEPT !.span = @ + 1]

\* n is the memory for the new node, height the result of zslRandomLevel.
zslInsert(zsl, n, height, score, obj) ==
  LET place == PlacesBefore(zsl, score, obj)
      top == IF height > zsl.level THEN height ELSE zsl.level
      update == [i \in 0 .. top - 1 |-> IF i < zsl.level THEN place[i].at ELSE Header]
      gap == [i \in 0 .. top - 1 |->
                IF i < zsl.level THEN place[0].rank - place[i].rank ELSE place[0].rank]
      span == [i \in 0 .. top - 1 |->
                 IF i < zsl.level THEN zsl.node[update[i]].level[i].span ELSE zsl.length]
      new == [zslCreateNode(height, score, obj) EXCEPT
                !.backward = IF update[0] = Header THEN Nil ELSE update[0],
                !.level = [i \in 0 .. height - 1 |->
                             [forward |-> zsl.node[update[i]].level[i].forward,
                              span |-> span[i] - gap[i]]]]
      next == new.level[0].forward
      Relinked(m, i, link) ==
        IF i >= top \/ update[i] # m THEN link
        ELSE IF i < height THEN [forward |-> n, span |-> gap[i] + 1]
        ELSE Stretched(link)
      Updated(m) ==
        [zsl.node[m] EXCEPT
           !.level = [i \in DOMAIN @ |-> Relinked(m, i, @[i])],
           !.backward = IF m = next THEN n ELSE @]
  IN  [node |-> [m \in DOMAIN zsl.node |-> Updated(m)] @@ n :> new,
       tail |-> IF next = Nil THEN n ELSE zsl.tail,
       length |-> zsl.length + 1,
       level |-> top]

\* The number of levels that still have a node.
LevelsInUse(zsl, header) ==
  Max({1} \cup {i + 1 : i \in {j \in 0 .. zsl.level - 1 : header.level[j].forward # Nil}})

zslDeleteNode(zsl, x, update) ==
  LET gone == zsl.node[x]
      next == gone.level[0].forward
      Relinked(m, i, link) ==
        IF i >= zsl.level \/ update[i].at # m THEN link
        ELSE IF link.forward = x
             THEN [forward |-> gone.level[i].forward,
                   span |-> link.span + gone.level[i].span - 1]
             ELSE [link EXCEPT !.span = @ - 1]
      Updated(m) ==
        [zsl.node[m] EXCEPT
           !.level = [i \in DOMAIN @ |-> Relinked(m, i, @[i])],
           !.backward = IF m = next THEN gone.backward ELSE @]
      rest == [m \in DOMAIN zsl.node \ {x} |-> Updated(m)]
  IN  [node |-> rest,
       tail |-> IF next = Nil THEN gone.backward ELSE zsl.tail,
       length |-> zsl.length - 1,
       level |-> LevelsInUse(zsl, rest[Header])]

\* The node with this score and object, Nil if zslDelete would not find it.
Target(zsl, score, obj) ==
  LET x == zsl.node[PlacesBefore(zsl, score, obj)[0].at].level[0].forward
  IN  IF x # Nil /\ zsl.node[x].score = score /\ zsl.node[x].obj = obj THEN x ELSE Nil

\* Only for a target that is there; the callers assert that it is.
zslDelete(zsl, score, obj) ==
  zslDeleteNode(zsl, Target(zsl, score, obj), PlacesBefore(zsl, score, obj))
-----------------------------------------------------------------------------
\* A mutant: the search stops before the element itself.
zslGetRankBefore(zsl, score, obj) ==
  LET place == PlacesBefore(zsl, score, obj)
      hits == {i \in DOMAIN place : zsl.node[place[i].at].obj = obj}
  IN  IF hits = {} THEN 0 ELSE place[Max(hits)].rank

\* Ranks count from 1.  0 if there is no such element.
zslGetRank(zsl, score, obj) ==
  LET Go(y, r) == \/ Precedes(zsl.node[y], score, obj)
                  \/ zsl.node[y].score = score /\ zsl.node[y].obj = obj
      place == Descent(zsl, Go)
      hits == {i \in DOMAIN place : zsl.node[place[i].at].obj = obj}
  IN  IF hits = {} THEN 0 ELSE place[Max(hits)].rank

zslGetElementByRank(zsl, rank) ==
  LET Go(y, r) == r <= rank
      place == Descent(zsl, Go)
      hits == {i \in DOMAIN place : place[i].rank = rank}
  IN  IF hits = {} THEN Nil ELSE place[Max(hits)].at

\* A range of scores has bounds min and max, each of which may be excluded.
zslValueGteMin(value, range) == IF range.minex THEN value > range.min ELSE value >= range.min
zslValueLteMax(value, range) == IF range.maxex THEN value < range.max ELSE value <= range.max

EmptyRange(range) ==
  range.min > range.max \/ (range.min = range.max /\ (range.minex \/ range.maxex))

zslIsInRange(zsl, range) ==
  /\ ~ EmptyRange(range)
  /\ zsl.tail # Nil /\ zslValueGteMin(zsl.node[zsl.tail].score, range)
  /\ zslValueLteMax(zsl.node[First(zsl)].score, range)

zslFirstInRange(zsl, range) ==
  LET Go(y, r) == ~ zslValueGteMin(zsl.node[y].score, range)
      x == zsl.node[Descent(zsl, Go)[0].at].level[0].forward
  IN  IF zslIsInRange(zsl, range) /\ zslValueLteMax(zsl.node[x].score, range) THEN x ELSE Nil

zslLastInRange(zsl, range) ==
  LET Go(y, r) == zslValueLteMax(zsl.node[y].score, range)
      x == Descent(zsl, Go)[0].at
  IN  IF zslIsInRange(zsl, range) /\ zslValueGteMin(zsl.node[x].score, range) THEN x ELSE Nil
=============================================================================
