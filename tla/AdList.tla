------------------------------- MODULE AdList ------------------------------
(***************************************************************************)
(* adlist.c as operators on a doubly linked list of integers.  Nodes are   *)
(* named by positive numbers, the least one that is free for a new node.   *)
(***************************************************************************)
EXTENDS Integers, Sequences, FiniteSets, Functions, FiniteSetsExt

Null == 0

listCreate == [node |-> <<>>, head |-> Null, tail |-> Null, len |-> 0]

LOCAL Fresh(l) == Min((1 .. Cardinality(DOMAIN l.node) + 1) \ DOMAIN l.node)

\* node, with the function f of nodes, where x is one
LOCAL With(f, x, field, y) == IF x = Null THEN f ELSE [f EXCEPT ![x][field] = y]

LOCAL Bind(f, x, node) == [y \in DOMAIN f \cup {x} |-> IF y = x THEN node ELSE f[y]]

listAddNodeHead(l, v) ==
  LET x == Fresh(l)
      node == Bind(With(l.node, l.head, "prev", x), x, [prev |-> Null, next |-> l.head, value |-> v])
  IN  [node |-> node, head |-> x, tail |-> IF l.len = 0 THEN x ELSE l.tail, len |-> l.len + 1]

listAddNodeTail(l, v) ==
  LET x == Fresh(l)
      node == Bind(With(l.node, l.tail, "next", x), x, [prev |-> l.tail, next |-> Null, value |-> v])
  IN  [node |-> node, head |-> IF l.len = 0 THEN x ELSE l.head, tail |-> x, len |-> l.len + 1]

listInsertNode(l, old, v, after) ==
  LET x == Fresh(l)
      prev == IF after THEN old ELSE l.node[old].prev
      next == IF after THEN l.node[old].next ELSE old
      node == With(With(l.node, prev, "next", x), next, "prev", x)
  IN  [node |-> Bind(node, x, [prev |-> prev, next |-> next, value |-> v]),
       head |-> IF ~ after /\ l.head = old THEN x ELSE l.head,
       tail |-> IF after /\ l.tail = old THEN x ELSE l.tail,
       len |-> l.len + 1]

\* A mutant: the last node keeps its place as the tail.
listDelNodeKeepsTail(l, x) ==
  LET prev == l.node[x].prev
      next == l.node[x].next
      node == With(With(l.node, prev, "next", next), next, "prev", prev)
  IN  [node |-> Restrict(node, DOMAIN node \ {x}),
       head |-> IF prev = Null THEN next ELSE l.head, tail |-> l.tail, len |-> l.len - 1]

listDelNode(l, x) ==
  LET prev == l.node[x].prev
      next == l.node[x].next
      node == With(With(l.node, prev, "next", next), next, "prev", prev)
  IN  [node |-> Restrict(node, DOMAIN node \ {x}),
       head |-> IF prev = Null THEN next ELSE l.head,
       tail |-> IF next = Null THEN prev ELSE l.tail,
       len |-> l.len - 1]

listNext(l, x, forward) == IF forward THEN l.node[x].next ELSE l.node[x].prev

\* The node of an index, counted from the tail if it is negative.
listIndex(l, index) ==
  LET forward == index >= 0
      steps == IF forward THEN index ELSE - index - 1
      At[k \in 0 .. steps] ==
        IF k = 0 THEN IF forward THEN l.head ELSE l.tail
        ELSE IF At[k - 1] = Null THEN Null ELSE listNext(l, At[k - 1], forward)
  IN  At[steps]
-----------------------------------------------------------------------------
\* The nodes from the head on.
LOCAL Chain(l) ==
  LET From[n \in 0 .. Cardinality(DOMAIN l.node), x \in Nat] ==
        IF x \notin DOMAIN l.node \/ n = 0 THEN <<>> ELSE <<x>> \o From[n - 1, l.node[x].next]
  IN  From[Cardinality(DOMAIN l.node), l.head]

ListValues(l) ==
  LET chain == Chain(l) IN [i \in DOMAIN chain |-> l.node[chain[i]].value]

\* The same list with its nodes numbered from the head on: an address has no
\* meaning.  Other pointers stay different from these and from each other.
Renumbered(l) ==
  LET chain == Chain(l)
      New(x) == IF x = Null THEN Null
                ELSE IF x \in Range(chain) THEN CHOOSE i \in DOMAIN chain : chain[i] = x
                ELSE Len(chain) + x
      Old(y) == CHOOSE x \in DOMAIN l.node : New(x) = y
      Moved(node) == [prev |-> New(node.prev), next |-> New(node.next), value |-> node.value]
  IN  [node |-> [y \in {New(x) : x \in DOMAIN l.node} |-> Moved(l.node[Old(y)])],
       head |-> New(l.head), tail |-> New(l.tail), len |-> l.len]

\* No pointer to a freed node, and both chains of links go through all nodes, in
\* opposite orders.
LinksOK(l) ==
  LET n == Cardinality(DOMAIN l.node)
      At(i) == listIndex(l, i)
  IN  /\ l.len = n
      /\ {l.head, l.tail} \subseteq DOMAIN l.node \cup {Null}
      /\ \A x \in DOMAIN l.node : {l.node[x].prev, l.node[x].next} \subseteq DOMAIN l.node \cup {Null}
      /\ {At(i) : i \in 0 .. n - 1} = DOMAIN l.node
      /\ \A i \in 0 .. n - 1 : At(i) = At(i - n)
      /\ At(n) = Null /\ At(- n - 1) = Null
=============================================================================
