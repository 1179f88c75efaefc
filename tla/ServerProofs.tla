--------------------------- MODULE ServerProofs -----------------------------
(***************************************************************************)
(* Proofs about EventLoop and Server: the functions of ae.c keep an event  *)
(* loop exact; freeing, creating and changing a client, and thus every     *)
(* handler of networking.c, keep the event loop, the list of clients and   *)
(* the connections in agreement; the server's steps keep them, and the     *)
(* batch of events, so, and keep to the protocol of the background jobs.   *)
(***************************************************************************)
EXTENDS Server, BioProofs, WellFoundedInduction, SequenceTheorems, FiniteSetTheorems, TLAPS

-----------------------------------------------------------------------------
(* The event loop.                                                         *)

Masks == SUBSET {"r", "w"}

Loops ==
  [events : [Fds -> [mask : Masks, client : Nat]], epoll : [Fds -> Masks], maxfd : Int]

\* The kernel has the interest the program has, and maxfd is the largest
\* descriptor in use.
LoopExact(loop) ==
  /\ loop \in Loops
  /\ \A fd \in Fds : loop.epoll[fd] = loop.events[fd].mask
  /\ loop.maxfd = -1 \/ loop.maxfd \in InUse(loop.events)
  /\ \A fd \in InUse(loop.events) : fd <= loop.maxfd

\* A bounded set of integers that is not empty has a greatest element.
LEMMA MaxExists ==
  ASSUME NEW n \in Nat, NEW S, S \subseteq -1 .. n, S # {}
  PROVE  Max(S) \in S /\ \A x \in S : Max(S) >= x
<1> DEFINE Below == {n - x : x \in S}
<1>0. \A x \in S : x \in Int /\ n - x \in Nat
  OBVIOUS
<1>1. Below \subseteq Nat /\ Below # {}
  BY <1>0
<1>2. PICK b \in Below : \A y \in Below : ~ (y < b)
  <2> DEFINE Less == {pair \in Nat \X Nat : pair[1] < pair[2]}
  <2>1. IsWellFoundedOn(Less, Nat)
    BY NatLessThanWellFounded DEF OpToRel
  <2>2. \A x, y \in Nat : x < y => <<x, y>> \in Less
    OBVIOUS
  <2> HIDE DEF Less, Below
  <2>3. \E b \in Below : \A y \in Below : <<y, b>> \notin Less
    BY <1>1, <2>1, WFMin
  <2>4. QED
    BY <1>1, <2>2, <2>3
<1>3. PICK m \in S : b = n - m
  OBVIOUS
<1>4. ASSUME NEW x \in S PROVE m >= x
  <2>1. ~ (n - x < n - m) /\ x \in Int /\ m \in Int
    BY <1>0, <1>2, <1>3
  <2>2. QED
    BY <2>1
<1>5. QED
  BY <1>3, <1>4 DEF Max

\* A set of natural numbers that is not empty has a least element.
LEMMA MinExists ==
  ASSUME NEW S, S \subseteq Nat, S # {}
  PROVE  Min(S) \in S /\ \A x \in S : Min(S) <= x
<1>1. PICK b \in S : \A y \in S : ~ (y < b)
  <2> DEFINE Less == {pair \in Nat \X Nat : pair[1] < pair[2]}
  <2>1. IsWellFoundedOn(Less, Nat)
    BY NatLessThanWellFounded DEF OpToRel
  <2>2. \A x, y \in Nat : x < y => <<x, y>> \in Less
    OBVIOUS
  <2> HIDE DEF Less
  <2>3. \E b \in S : \A y \in S : <<y, b>> \notin Less
    BY <2>1, WFMin
  <2>4. QED
    BY <2>2, <2>3
<1>2. b \in S /\ \A x \in S : b <= x
  BY <1>1
<1>3. QED
  BY <1>2 DEF Min

\* An event loop in which nothing is registered.
LEMMA NewLoop ==
  ASSUME SetSize \in Nat
  PROVE  LoopExact(aeCreateEventLoop) /\ aeCreateEventLoop.events = [fd \in Fds |-> [mask |-> {}, client |-> None]]
BY DEF LoopExact, Loops, aeCreateEventLoop, InUse, Masks, None, Fds

\* A registration succeeds, adds to the mask and sets the client.
LEMMA CreateLoop ==
  ASSUME SetSize \in Nat, NEW loop, LoopExact(loop), NEW fd \in Fds,
         NEW mask \in Masks \ {{}}, NEW client \in Nat
  PROVE  LET new == aeCreateFileEvent(loop, fd, mask, client)
         IN  /\ Creates(loop, fd) /\ LoopExact(new)
             /\ new.events = [loop.events EXCEPT ![fd] = [mask |-> loop.events[fd].mask \cup mask, client |-> client]]
<1> DEFINE events == [loop.events EXCEPT ![fd] = [mask |-> loop.events[fd].mask \cup mask, client |-> client]]
           epoll == [loop.epoll EXCEPT ![fd] = loop.events[fd].mask \cup mask]
           maxfd == IF fd > loop.maxfd THEN fd ELSE loop.maxfd
           new == [events |-> events, epoll |-> epoll, maxfd |-> maxfd]
<1>1. loop \in Loops /\ fd \in Nat /\ fd < SetSize /\ Fds \subseteq Nat /\ loop.maxfd \in Int
  BY DEF LoopExact, Fds, Loops
<1>2. Creates(loop, fd)
  BY <1>1 DEF Creates, Possible, LoopExact
<1>3. aeCreateFileEvent(loop, fd, mask, client) = new
  BY <1>1, <1>2 DEF aeCreateFileEvent, aeApiAddEvent, Loops
<1>4. loop.events[fd].mask \cup mask \in Masks \ {{}}
  BY <1>1 DEF Loops, Masks
<1>5. new \in Loops
  BY <1>1, <1>4 DEF Loops, Masks
<1>6. \A x \in Fds : epoll[x] = events[x].mask
  BY <1>1 DEF LoopExact, Loops
<1>7. InUse(events) = InUse(loop.events) \cup {fd}
  BY <1>1, <1>4 DEF InUse, Loops
<1>8. /\ maxfd = -1 \/ maxfd \in InUse(events)
      /\ \A x \in InUse(events) : x <= maxfd
  <2>1. \A x \in InUse(loop.events) : x \in Nat /\ x <= loop.maxfd
    BY <1>1 DEF LoopExact, InUse, Loops
  <2>2. loop.maxfd = -1 \/ loop.maxfd \in InUse(loop.events)
    BY DEF LoopExact
  <2> HIDE DEF events
  <2>3. QED
    BY <1>1, <1>7, <2>1, <2>2
<1>9. LoopExact(new)
  <2> HIDE DEF events, epoll, maxfd
  <2>1. QED
    BY <1>5, <1>6, <1>8 DEF LoopExact
<1>10. new.events = events
  OBVIOUS
<1> HIDE DEF new, events
<1>11. QED
  BY <1>2, <1>3, <1>9, <1>10 DEF events

\* A withdrawal takes the mask away, and finds the largest descriptor that is left.
LEMMA DeleteLoop ==
  ASSUME SetSize \in Nat, NEW loop, LoopExact(loop), NEW fd \in Fds, NEW mask \in Masks
  PROVE  LET new == aeDeleteFileEvent(loop, fd, mask)
         IN  /\ LoopExact(new)
             /\ new.events = [loop.events EXCEPT ![fd].mask = @ \ mask]
<1> DEFINE events == [loop.events EXCEPT ![fd].mask = @ \ mask]
           epoll == [loop.epoll EXCEPT ![fd] = loop.events[fd].mask \ mask]
           maxfd == IF fd = loop.maxfd THEN LowerMaxFd(events, fd) ELSE loop.maxfd
           new == [events |-> events, epoll |-> epoll, maxfd |-> maxfd]
<1>1. loop \in Loops /\ fd \in Nat /\ fd < SetSize /\ Fds \subseteq Nat /\ loop.maxfd \in Int
  BY DEF LoopExact, Fds, Loops
<1>2. CASE loop.events[fd].mask = {}
  <2>1. aeDeleteFileEvent(loop, fd, mask) = loop
    BY <1>2 DEF aeDeleteFileEvent
  <2>2. events = loop.events
    BY <1>1, <1>2 DEF Loops
  <2>3. QED
    BY <2>1, <2>2
<1>3. CASE loop.events[fd].mask # {}
  <2>1. aeDeleteFileEvent(loop, fd, mask) = new
    <3>1. aeApiDelEvent(loop, fd, mask) = [events |-> loop.events, epoll |-> epoll, maxfd |-> loop.maxfd]
      <4>1. loop = [events |-> loop.events, epoll |-> loop.epoll, maxfd |-> loop.maxfd]
        BY <1>1 DEF Loops
      <4> HIDE DEF events, maxfd, new
      <4>2. [loop EXCEPT !.epoll = epoll] = [events |-> loop.events, epoll |-> epoll, maxfd |-> loop.maxfd]
        <5> HIDE DEF epoll
        <5>1. QED
          BY <4>1
      <4>3. aeApiDelEvent(loop, fd, mask) = [loop EXCEPT !.epoll = epoll]
        BY <1>1 DEF aeApiDelEvent, Loops
      <4>4. QED
        BY <4>2, <4>3
    <3>2. aeDeleteFileEvent(loop, fd, mask)
            = [events |-> events, epoll |-> aeApiDelEvent(loop, fd, mask).epoll, maxfd |-> maxfd]
      <4>1. ~ (fd >= SetSize \/ loop.events[fd].mask = {})
        BY <1>1, <1>3
      <4>2. QED
        BY <4>1, Zenon DEF aeDeleteFileEvent
    <3> HIDE DEF events, epoll, maxfd
    <3>3. QED
      BY <3>1, <3>2
  <2>2. /\ InUse(loop.events) \subseteq Fds /\ fd \in InUse(loop.events)
        /\ InUse(events) \subseteq InUse(loop.events)
        /\ \A x \in InUse(loop.events) : x # fd => x \in InUse(events)
    BY <1>1, <1>3 DEF InUse, Loops
  <2>3. /\ \A x \in InUse(loop.events) : x \in Nat /\ x <= loop.maxfd
        /\ loop.maxfd \in InUse(loop.events)
    BY <1>1, <2>2 DEF LoopExact
  <2>4. /\ maxfd = -1 \/ maxfd \in InUse(events)
        /\ \A x \in InUse(events) : x <= maxfd
        /\ maxfd \in Int
    <3> HIDE DEF events
    <3>1. CASE fd # loop.maxfd \/ fd \in InUse(events)
      <4>1. maxfd = loop.maxfd
        BY <3>1 DEF LowerMaxFd
      <4> HIDE DEF maxfd
      <4>2. QED
        BY <1>1, <2>2, <2>3, <3>1, <4>1
    <3>2. CASE fd = loop.maxfd /\ fd \notin InUse(events)
      <4> DEFINE S == {x \in InUse(events) : x < fd} \cup {-1}
      <4>1. maxfd = Max(S)
        BY <3>2 DEF LowerMaxFd
      <4>2. S \subseteq -1 .. fd /\ S # {}
        <5>1. \A x \in InUse(events) : x \in Nat
          BY <2>2, <2>3
        <5>2. \A x \in S : x \in -1 .. fd
          BY <1>1, <5>1
        <5>3. -1 \in S
          OBVIOUS
        <5> HIDE DEF S
        <5>4. QED
          BY <5>2, <5>3
      <4>3. Max(S) \in S /\ \A x \in S : Max(S) >= x
        <5> HIDE DEF S
        <5>1. QED
          BY <1>1, <4>2, MaxExists
      <4>4. \A x \in InUse(events) : x \in S
        BY <2>2, <2>3, <3>2
      <4>5. maxfd \in Int /\ (maxfd = -1 \/ maxfd \in InUse(events))
        <5> HIDE DEF maxfd
        <5>1. maxfd \in S
          BY <4>1, <4>3
        <5>2. QED
          BY <2>2, <2>3, <5>1
      <4>6. \A x \in InUse(events) : x <= maxfd
        <5> HIDE DEF maxfd, S
        <5>1. \A x \in InUse(events) : maxfd >= x /\ x \in Int
          BY <2>2, <2>3, <4>1, <4>3, <4>4
        <5>2. QED
          BY <4>5, <5>1
      <4>7. QED
        BY <4>5, <4>6
    <3>3. QED
      BY <3>1, <3>2
  <2>5. new \in Loops
    <3>1. events \in [Fds -> [mask : Masks, client : Nat]] /\ epoll \in [Fds -> Masks]
      BY <1>1 DEF Loops, Masks
    <3> HIDE DEF events, epoll, maxfd
    <3>2. QED
      BY <2>4, <3>1 DEF Loops
  <2>6. \A x \in Fds : epoll[x] = events[x].mask
    BY <1>1 DEF LoopExact, Loops
  <2>7. LoopExact(new) /\ new.events = events
    <3> HIDE DEF events, epoll, maxfd
    <3>1. QED
      BY <2>4, <2>5, <2>6 DEF LoopExact
  <2> HIDE DEF new, events
  <2>8. QED
    BY <2>1, <2>7 DEF events
<1>4. QED
  BY <1>2, <1>3

\* A descriptor is closed once nothing is registered: the kernel forgets nothing.
LEMMA ClosedLoop ==
  ASSUME NEW loop, LoopExact(loop), NEW fd \in Fds, loop.events[fd].mask = {}
  PROVE  Closed(loop, fd) = loop
BY DEF LoopExact, Loops, Closed

-----------------------------------------------------------------------------
(* Sequences without an element twice.                                     *)

Distinct(seq) == \A i, j \in 1 .. Len(seq) : seq[i] = seq[j] => i = j

\* The sequence without one place.
LEMMA Removed ==
  ASSUME NEW S, NEW seq \in Seq(S), NEW i \in 1 .. Len(seq)
  PROVE  /\ RemoveAt(seq, i) \in Seq(S)
         /\ Len(RemoveAt(seq, i)) = Len(seq) - 1
         /\ \A j \in 1 .. Len(seq) - 1 : RemoveAt(seq, i)[j] = IF j < i THEN seq[j] ELSE seq[j + 1]
<1> DEFINE n == Len(seq)
           before == SubSeq(seq, 1, i - 1)
           after == SubSeq(seq, i + 1, n)
<1>1. n \in Nat /\ i \in Int /\ 1 <= i /\ i <= n /\ \A j \in 1 .. n : seq[j] \in S
  BY LenProperties
<1>2. /\ before \in Seq(S) /\ Len(before) = i - 1
      /\ \A j \in 1 .. i - 1 : before[j] = seq[j]
  <2> HIDE DEF n
  <2>1. 1 \in Int /\ i - 1 \in Int /\ \A j \in 1 .. i - 1 : seq[j] \in S
    BY <1>1
  <2>2. /\ before \in Seq(S) /\ Len(before) = IF 1 <= i - 1 THEN i - 1 - 1 + 1 ELSE 0
        /\ \A j \in 1 .. i - 1 - 1 + 1 : before[j] = seq[1 + j - 1]
    BY <2>1, SubSeqProperties
  <2> HIDE DEF before
  <2>3. QED
    BY <1>1, <2>2
<1>3. /\ after \in Seq(S) /\ Len(after) = n - i
      /\ \A j \in 1 .. n - i : after[j] = seq[i + j]
  <2> HIDE DEF n
  <2>1. i + 1 \in Int /\ n \in Int /\ \A j \in i + 1 .. n : seq[j] \in S
    BY <1>1
  <2>2. /\ after \in Seq(S) /\ Len(after) = IF i + 1 <= n THEN n - (i + 1) + 1 ELSE 0
        /\ \A j \in 1 .. n - (i + 1) + 1 : after[j] = seq[i + 1 + j - 1]
    BY <2>1, SubSeqProperties
  <2> HIDE DEF after
  <2>3. QED
    BY <1>1, <2>2
<1>4. /\ before \o after \in Seq(S)
      /\ Len(before \o after) = Len(before) + Len(after)
      /\ \A j \in 1 .. Len(before) + Len(after) :
           (before \o after)[j] = IF j <= Len(before) THEN before[j] ELSE after[j - Len(before)]
  <2> HIDE DEF before, after
  <2>1. QED
    BY <1>2, <1>3, ConcatProperties
<1>5. RemoveAt(seq, i) = before \o after
  BY DEF RemoveAt
<1> HIDE DEF before, after, n
<1>6. ASSUME NEW j \in 1 .. n - 1
      PROVE  (before \o after)[j] = IF j < i THEN seq[j] ELSE seq[j + 1]
  <2>1. j \in 1 .. Len(before) + Len(after)
    BY <1>1, <1>2, <1>3
  <2>2. CASE j < i
    BY <1>1, <1>2, <1>4, <2>1, <2>2
  <2>3. CASE ~ (j < i)
    <3>1. j - (i - 1) \in 1 .. n - i /\ i + (j - (i - 1)) = j + 1 /\ ~ (j <= i - 1)
      BY <1>1, <2>3
    <3>2. QED
      BY <1>2, <1>3, <1>4, <2>1, <2>3, <3>1
  <2>4. QED
    BY <2>2, <2>3
<1>7. Len(before \o after) = n - 1
  BY <1>1, <1>2, <1>3, <1>4
<1>8. QED
  BY <1>4, <1>5, <1>6, <1>7 DEF n

\* A list without one of its elements.
LEMMA Without ==
  ASSUME NEW S, NEW seq \in Seq(S), Distinct(seq), NEW c \in ToSet(seq)
  PROVE  /\ RemoveFirst(seq, c) \in Seq(S) /\ Distinct(RemoveFirst(seq, c))
         /\ ToSet(RemoveFirst(seq, c)) = ToSet(seq) \ {c}
         /\ Len(RemoveFirst(seq, c)) = Len(seq) - 1
<1>1. Len(seq) \in Nat /\ DOMAIN seq = 1 .. Len(seq)
  BY LenProperties
<1>2. PICK i \in 1 .. Len(seq) : seq[i] = c
  BY <1>1 DEF ToSet
<1>3. {j \in 1 .. Len(seq) : seq[j] = c} = {i}
  BY <1>2 DEF Distinct
<1>4. Min({i}) = i
  BY <1>1 DEF Min
<1>5. RemoveFirst(seq, c) = RemoveAt(seq, i)
  <2>1. SelectInSeq(seq, LAMBDA v : v = c) = i
    BY <1>3, <1>4 DEF SelectInSeq
  <2>2. QED
    BY <1>2, <2>1 DEF RemoveFirst
<1> DEFINE r == RemoveAt(seq, i)
<1>6. /\ r \in Seq(S) /\ Len(r) = Len(seq) - 1
      /\ \A j \in 1 .. Len(seq) - 1 : r[j] = IF j < i THEN seq[j] ELSE seq[j + 1]
  BY Removed
<1> HIDE DEF r
<1>7. DOMAIN r = 1 .. Len(seq) - 1
  BY <1>6, LenProperties
<1>8. Distinct(r)
  <2> SUFFICES ASSUME NEW j \in 1 .. Len(seq) - 1, NEW k \in 1 .. Len(seq) - 1, r[j] = r[k]
               PROVE  j = k
    BY <1>6 DEF Distinct
  <2> DEFINE J == IF j < i THEN j ELSE j + 1
             K == IF k < i THEN k ELSE k + 1
  <2>1. r[j] = seq[J] /\ r[k] = seq[K] /\ J \in 1 .. Len(seq) /\ K \in 1 .. Len(seq)
    BY <1>1, <1>6
  <2>2. J = K
    BY <2>1 DEF Distinct
  <2>3. QED
    BY <1>1, <2>2
<1>9. ToSet(r) = ToSet(seq) \ {c}
  <2>1. ASSUME NEW j \in 1 .. Len(seq) - 1 PROVE r[j] \in ToSet(seq) \ {c}
    <3> DEFINE J == IF j < i THEN j ELSE j + 1
    <3>1. r[j] = seq[J] /\ J \in 1 .. Len(seq) /\ J # i
      BY <1>1, <1>6
    <3>2. seq[J] # c
      BY <1>2, <3>1 DEF Distinct
    <3>3. QED
      BY <1>1, <3>1, <3>2 DEF ToSet
  <2>2. ASSUME NEW k \in 1 .. Len(seq), seq[k] # c PROVE seq[k] \in ToSet(r)
    <3> DEFINE j == IF k < i THEN k ELSE k - 1
    <3>1. k # i
      BY <1>2, <2>2
    <3>2. j \in 1 .. Len(seq) - 1 /\ r[j] = seq[k]
      BY <1>1, <1>6, <3>1
    <3>3. QED
      BY <1>7, <3>2 DEF ToSet
  <2>3. QED
    BY <1>1, <1>7, <2>1, <2>2 DEF ToSet
<1>10. QED
  BY <1>5, <1>6, <1>8, <1>9 DEF r

\* A list after a rotation.
LEMMA Rotated ==
  ASSUME NEW S, NEW seq \in Seq(S), Distinct(seq), seq # <<>>
  PROVE  /\ listRotate(seq) \in Seq(S) /\ Distinct(listRotate(seq))
         /\ ToSet(listRotate(seq)) = ToSet(seq)
         /\ Len(listRotate(seq)) = Len(seq)
         /\ Last(seq) \in ToSet(seq)
<1> DEFINE n == Len(seq)
           front == SubSeq(seq, 1, n - 1)
           r == <<seq[n]>> \o front
<1>1. n \in Nat \ {0} /\ DOMAIN seq = 1 .. n /\ \A j \in 1 .. n : seq[j] \in S
  BY EmptySeq, LenProperties
<1>2. front \in Seq(S) /\ Len(front) = n - 1 /\ \A j \in 1 .. n - 1 : front[j] = seq[j]
  <2> HIDE DEF n
  <2>1. 1 \in Int /\ n - 1 \in Int /\ \A j \in 1 .. n - 1 : seq[j] \in S
    BY <1>1
  <2>2. /\ front \in Seq(S) /\ Len(front) = IF 1 <= n - 1 THEN n - 1 - 1 + 1 ELSE 0
        /\ \A j \in 1 .. n - 1 - 1 + 1 : front[j] = seq[1 + j - 1]
    BY <2>1, SubSeqProperties
  <2> HIDE DEF front
  <2>3. QED
    BY <1>1, <2>2
<1> HIDE DEF front, n
<1>3. <<seq[n]>> \in Seq(S) /\ Len(<<seq[n]>>) = 1 /\ <<seq[n]>>[1] = seq[n]
  BY <1>1
<1>4. /\ r \in Seq(S) /\ Len(r) = 1 + (n - 1)
      /\ \A j \in 1 .. 1 + (n - 1) : r[j] = IF j <= 1 THEN <<seq[n]>>[j] ELSE front[j - 1]
  <2> DEFINE first == <<seq[n]>>
  <2> HIDE DEF first
  <2>1. first \in Seq(S) /\ Len(first) = 1
    BY <1>3 DEF first
  <2>2. /\ first \o front \in Seq(S) /\ Len(first \o front) = 1 + (n - 1)
        /\ \A j \in 1 .. 1 + (n - 1) :
             (first \o front)[j] = IF j <= 1 THEN first[j] ELSE front[j - 1]
    <3>1. /\ first \o front \in Seq(S) /\ Len(first \o front) = Len(first) + Len(front)
          /\ \A j \in 1 .. Len(first) + Len(front) :
               (first \o front)[j] = IF j <= Len(first) THEN first[j] ELSE front[j - Len(first)]
      BY <1>2, <2>1, ConcatProperties
    <3>2. QED
      BY <1>2, <2>1, <3>1
  <2>3. QED
    BY <2>2 DEF first
<1>5. listRotate(seq) = r
  BY DEF listRotate, Last, Front, n, front
<1> HIDE DEF r
<1>6. /\ Len(r) = n /\ DOMAIN r = 1 .. n
      /\ \A j \in 1 .. n : r[j] = IF j = 1 THEN seq[n] ELSE seq[j - 1]
  <2>1. Len(r) = n /\ DOMAIN r = 1 .. n
    BY <1>1, <1>4, LenProperties
  <2>2. ASSUME NEW j \in 1 .. n PROVE r[j] = IF j = 1 THEN seq[n] ELSE seq[j - 1]
    <3>1. CASE j = 1
      BY <1>1, <1>3, <1>4, <3>1
    <3>2. CASE j # 1
      BY <1>1, <1>2, <1>4, <3>2
    <3>3. QED
      BY <3>1, <3>2
  <2>3. QED
    BY <2>1, <2>2
<1>7. Distinct(r)
  <2> SUFFICES ASSUME NEW j \in 1 .. n, NEW k \in 1 .. n, r[j] = r[k]
               PROVE  j = k
    BY <1>6 DEF Distinct
  <2> DEFINE J == IF j = 1 THEN n ELSE j - 1
             K == IF k = 1 THEN n ELSE k - 1
  <2>1. r[j] = seq[J] /\ r[k] = seq[K] /\ J \in 1 .. n /\ K \in 1 .. n
    BY <1>1, <1>6
  <2>2. J = K
    BY <2>1 DEF Distinct, n
  <2>3. QED
    BY <1>1, <2>2
<1>8. ToSet(r) = ToSet(seq)
  <2>1. ASSUME NEW j \in 1 .. n PROVE r[j] \in ToSet(seq)
    BY <1>1, <1>6 DEF ToSet
  <2>2. ASSUME NEW k \in 1 .. n PROVE seq[k] \in ToSet(r)
    <3> DEFINE j == IF k = n THEN 1 ELSE k + 1
    <3>1. j \in 1 .. n /\ r[j] = seq[k]
      BY <1>1, <1>6
    <3>2. QED
      BY <1>6, <3>1 DEF ToSet
  <2>3. QED
    BY <1>1, <1>6, <2>1, <2>2 DEF ToSet
<1>9. Last(seq) \in ToSet(seq)
  BY <1>1 DEF Last, ToSet, n
<1>10. QED
  BY <1>4, <1>5, <1>6, <1>7, <1>8, <1>9 DEF n

\* A list with a new element.
LEMMA Appended ==
  ASSUME NEW S, NEW seq \in Seq(S), Distinct(seq), NEW c \in S \ ToSet(seq)
  PROVE  /\ Append(seq, c) \in Seq(S) /\ Distinct(Append(seq, c))
         /\ ToSet(Append(seq, c)) = ToSet(seq) \cup {c}
         /\ Len(Append(seq, c)) = Len(seq) + 1
<1> DEFINE n == Len(seq)
           r == Append(seq, c)
<1>1. n \in Nat /\ DOMAIN seq = 1 .. n
  BY LenProperties
<1>2. /\ r \in Seq(S) /\ Len(r) = n + 1 /\ r[n + 1] = c
      /\ \A j \in 1 .. n : r[j] = seq[j]
  BY AppendProperties
<1> HIDE DEF r, n
<1>3. DOMAIN r = 1 .. n + 1
  BY <1>2, LenProperties
<1>4. \A j \in 1 .. n : seq[j] # c
  BY <1>1 DEF ToSet
<1>5. Distinct(r)
  <2> SUFFICES ASSUME NEW j \in 1 .. n + 1, NEW k \in 1 .. n + 1, r[j] = r[k]
               PROVE  j = k
    BY <1>2 DEF Distinct
  <2>1. CASE j \in 1 .. n /\ k \in 1 .. n
    BY <1>2, <2>1 DEF Distinct, n
  <2>2. CASE j = n + 1 \/ k = n + 1
    BY <1>1, <1>2, <1>4, <2>2
  <2>3. QED
    BY <1>1, <2>1, <2>2
<1>6. ToSet(r) = ToSet(seq) \cup {c}
  <2>1. 1 .. n + 1 = (1 .. n) \cup {n + 1}
    BY <1>1
  <2>2. QED
    BY <1>1, <1>2, <1>3, <2>1 DEF ToSet
<1>7. QED
  BY <1>2, <1>5, <1>6 DEF r, n

\* The list has as many clients as places.
LEMMA ListSize ==
  ASSUME NEW S, NEW seq \in Seq(S), Distinct(seq)
  PROVE  IsFiniteSet(ToSet(seq)) /\ Cardinality(ToSet(seq)) = Len(seq)
<1> DEFINE n == Len(seq)
<1>1. n \in Nat /\ DOMAIN seq = 1 .. n /\ seq \in [1 .. n -> ToSet(seq)]
  BY LenProperties DEF ToSet
<1>2. IsFiniteSet(1 .. n) /\ Cardinality(1 .. n) = n
  BY <1>1, FS_Interval
<1>3. seq \in Surjection(1 .. n, ToSet(seq))
  BY <1>1 DEF Surjection, ToSet
<1>4. seq \in Injection(1 .. n, ToSet(seq))
  BY <1>1 DEF Injection, IsInjective, Distinct
<1>5. QED
  BY <1>2, <1>3, <1>4, FS_Surjection
-----------------------------------------------------------------------------
Conns ==
  [fd : -1 .. MaxClients + 1, reply : {"none", "some", "last"},
   sock : SUBSET {"data", "closed"}, idle : Nat]

\* What a client is registered for.
Registered(k, c) == [mask |-> {"r"} \cup (IF k.reply = "none" THEN {} ELSE {"w"}), client |-> c]

\* Event loop, list of clients and connections agree.
Sound(s) ==
  /\ LoopExact(s.el)
  /\ s.clients \in Seq(Ids) /\ Distinct(s.clients)
  /\ s.conn \in [Ids -> Conns]
  /\ \A c \in Ids \ ToSet(s.clients) : s.conn[c] = Gone
  /\ \A c \in ToSet(s.clients) :
       s.conn[c].fd \in 1 .. MaxClients + 1 /\ s.el.events[s.conn[c].fd] = Registered(s.conn[c], c)
  /\ s.el.events[Listener] = [mask |-> {"r"}, client |-> None]
  /\ \A fd \in Fds \ {Listener} :
       s.el.events[fd].mask # {} => \E c \in ToSet(s.clients) : s.conn[c].fd = fd

\* What the constants allow: the descriptors of clients fit the tables.
LEMMA Sizes ==
  /\ MaxClients \in Nat /\ MaxClients >= 1 /\ SetSize \in Nat /\ MaxIdle \in Nat /\ MaxConnections \in Nat
  /\ 1 .. MaxClients + 1 \subseteq Fds \ {Listener} /\ Listener \in Fds
  /\ Ids \subseteq Nat \ {0}
BY ServerAssumption DEF Fds, Listener, Ids

\* Clients of the list have numbers and descriptors of their own.
LEMMA Basics ==
  ASSUME NEW s, Sound(s)
  PROVE  /\ ToSet(s.clients) \subseteq Ids /\ Len(s.clients) \in Nat
         /\ \A c \in ToSet(s.clients) : s.conn[c].fd \in Fds \ {Listener}
         /\ \A c, d \in ToSet(s.clients) : s.conn[c].fd = s.conn[d].fd => c = d
<1>1. ToSet(s.clients) \subseteq Ids /\ Len(s.clients) \in Nat
  <2>1. s.clients \in Seq(Ids)
    BY DEF Sound
  <2>2. QED
    BY <2>1, LenProperties DEF ToSet
<1>2. \A c \in ToSet(s.clients) : s.conn[c].fd \in Fds \ {Listener}
  BY Sizes DEF Sound
<1>3. ASSUME NEW c \in ToSet(s.clients) PROVE s.el.events[s.conn[c].fd].client = c
  <2>1. s.el.events[s.conn[c].fd] = Registered(s.conn[c], c)
    BY DEF Sound
  <2>2. QED
    BY <2>1 DEF Registered
<1>4. QED
  BY <1>1, <1>2, <1>3

\* A client that is gone has no descriptor.
LEMMA GoneConn == Gone \in Conns /\ Gone.fd = -1
BY Sizes DEF Gone, Connected, Conns

\* A client is freed.
LEMMA FreeSound ==
  ASSUME NEW s, Sound(s), NEW c \in ToSet(s.clients)
  PROVE  LET new == freeClient(s, c)
         IN  /\ Sound(new) /\ ToSet(new.clients) = ToSet(s.clients) \ {c}
             /\ Len(new.clients) = Len(s.clients) - 1
             /\ new.conn = [s.conn EXCEPT ![c] = Gone]
             /\ new.el.events[s.conn[c].fd].mask = {}
             /\ \A x \in Fds \ {s.conn[c].fd} : new.el.events[x] = s.el.events[x]
<1> DEFINE fd == s.conn[c].fd
           a == aeDeleteFileEvent(s.el, fd, {"r"})
           b == aeDeleteFileEvent(a, fd, {"w"})
           clnts == RemoveFirst(s.clients, c)
           conns == [s.conn EXCEPT ![c] = Gone]
           new == [el |-> b, clients |-> clnts, conn |-> conns]
<1>1. /\ fd \in Fds \ {Listener} /\ c \in Ids /\ ToSet(s.clients) \subseteq Ids
      /\ \A x, y \in ToSet(s.clients) : s.conn[x].fd = s.conn[y].fd => x = y
      /\ \A x \in ToSet(s.clients) : s.conn[x].fd \in Fds \ {Listener}
  BY Basics
<1>2. {"r"} \in Masks /\ {"w"} \in Masks
  BY DEF Masks
<1>3. LoopExact(a) /\ a.events = [s.el.events EXCEPT ![fd].mask = @ \ {"r"}]
  <2>1. LoopExact(s.el) /\ SetSize \in Nat
    BY Sizes DEF Sound
  <2> HIDE DEF fd
  <2>2. QED
    BY <1>1, <1>2, <2>1, DeleteLoop
<1>4. LoopExact(b) /\ b.events = [a.events EXCEPT ![fd].mask = @ \ {"w"}]
  <2> HIDE DEF a, fd
  <2>1. QED
    BY <1>1, <1>2, <1>3, Sizes, DeleteLoop
<1>5. s.el.events \in [Fds -> [mask : Masks, client : Nat]]
  BY DEF Sound, LoopExact, Loops
<1>6. b.events[fd].mask = {} /\ \A x \in Fds \ {fd} : b.events[x] = s.el.events[x]
  <2> HIDE DEF a, b, fd
  <2>1. a.events[fd].mask = s.el.events[fd].mask \ {"r"} /\ \A x \in Fds \ {fd} : a.events[x] = s.el.events[x]
    BY <1>1, <1>3, <1>5
  <2>2. a.events \in [Fds -> [mask : Masks, client : Nat]]
    BY <1>3 DEF LoopExact, Loops
  <2>3. b.events[fd].mask = a.events[fd].mask \ {"w"} /\ \A x \in Fds \ {fd} : b.events[x] = a.events[x]
    BY <1>1, <1>4, <2>2
  <2>4. s.el.events[fd].mask \subseteq {"r", "w"}
    BY <1>1, <1>5 DEF Masks
  <2>5. QED
    BY <2>1, <2>3, <2>4
<1>7. freeClient(s, c) = new
  <2>1. Closed(b, fd) = b
    <3> HIDE DEF b, fd
    <3>1. QED
      BY <1>1, <1>4, <1>6, ClosedLoop
  <2>2. QED
    BY <2>1 DEF freeClient
<1>8. /\ clnts \in Seq(Ids) /\ Distinct(clnts) /\ ToSet(clnts) = ToSet(s.clients) \ {c}
      /\ Len(clnts) = Len(s.clients) - 1
  BY Without DEF Sound
<1>9. conns \in [Ids -> Conns] /\ \A x \in Ids : conns[x] = IF x = c THEN Gone ELSE s.conn[x]
  BY <1>1, GoneConn DEF Sound
<1>10. Sound(new)
  <2> HIDE DEF b, clnts, conns, fd
  <2>1. \A x \in Ids \ ToSet(clnts) : conns[x] = Gone
    BY <1>8, <1>9 DEF Sound
  <2>2. ASSUME NEW x \in ToSet(clnts)
        PROVE  conns[x].fd \in 1 .. MaxClients + 1 /\ b.events[conns[x].fd] = Registered(conns[x], x)
    <3>1. x \in ToSet(s.clients) /\ x # c /\ x \in Ids
      BY <1>1, <1>8
    <3>2. conns[x] = s.conn[x]
      BY <1>9, <3>1
    <3>3. s.conn[x].fd # fd /\ s.conn[x].fd \in Fds
      BY <1>1, <3>1 DEF fd
    <3>4. QED
      BY <1>6, <3>1, <3>2, <3>3 DEF Sound
  <2>3. b.events[Listener] = [mask |-> {"r"}, client |-> None]
    BY <1>1, <1>6, Sizes DEF Sound
  <2>4. ASSUME NEW x \in Fds \ {Listener}, b.events[x].mask # {}
        PROVE  \E d \in ToSet(clnts) : conns[d].fd = x
    <3>1. x # fd
      BY <1>6, <2>4
    <3>2. PICK d \in ToSet(s.clients) : s.conn[d].fd = x
      BY <1>6, <2>4, <3>1 DEF Sound
    <3>3. d # c
      BY <3>1, <3>2 DEF fd
    <3>4. QED
      BY <1>1, <1>8, <1>9, <3>2, <3>3
  <2>5. QED
    BY <1>4, <1>8, <1>9, <2>1, <2>2, <2>3, <2>4 DEF Sound
<1>11. QED
  <2> HIDE DEF b, clnts, conns, fd
  <2>1. new.clients = clnts /\ new.conn = conns /\ new.el = b
    OBVIOUS
  <2> HIDE DEF new
  <2>2. QED
    BY <1>6, <1>7, <1>8, <1>10, <2>1 DEF conns, fd

\* A client is created with a descriptor nobody has.
LEMMA CreateClientSound ==
  ASSUME NEW s, Sound(s), NEW c \in Ids \ ToSet(s.clients),
         NEW fd \in 1 .. MaxClients + 1, \A d \in ToSet(s.clients) : s.conn[d].fd # fd
  PROVE  LET new == createClient(s, c, fd)
         IN  /\ Sound(new) /\ ToSet(new.clients) = ToSet(s.clients) \cup {c}
             /\ Len(new.clients) = Len(s.clients) + 1
             /\ new.conn = [s.conn EXCEPT ![c] = Connected(fd)]
             /\ \A x \in Fds \ {fd} : new.el.events[x] = s.el.events[x]
<1> DEFINE a == aeCreateFileEvent(s.el, fd, {"r"}, c)
           clnts == Append(s.clients, c)
           conns == [s.conn EXCEPT ![c] = Connected(fd)]
           new == [el |-> a, clients |-> clnts, conn |-> conns]
<1>1. /\ fd \in Fds \ {Listener} /\ c \in Nat /\ ToSet(s.clients) \subseteq Ids
      /\ \A x \in ToSet(s.clients) : s.conn[x].fd \in Fds \ {Listener}
  BY Basics, Sizes
<1>2. /\ Creates(s.el, fd) /\ LoopExact(a)
      /\ a.events = [s.el.events EXCEPT ![fd] = [mask |-> s.el.events[fd].mask \cup {"r"}, client |-> c]]
  <2>1. {"r"} \in Masks \ {{}}
    BY DEF Masks
  <2>2. LoopExact(s.el) /\ SetSize \in Nat
    BY Sizes DEF Sound
  <2>3. QED
    BY <1>1, <2>1, <2>2, CreateLoop
<1>3. createClient(s, c, fd) = new
  BY <1>2 DEF createClient
<1>4. s.el.events \in [Fds -> [mask : Masks, client : Nat]]
  BY DEF Sound, LoopExact, Loops
<1>5. s.el.events[fd].mask = {}
  BY <1>1 DEF Sound
<1>6. a.events[fd] = [mask |-> {"r"}, client |-> c] /\ \A x \in Fds \ {fd} : a.events[x] = s.el.events[x]
  BY <1>1, <1>2, <1>4, <1>5
<1>7. /\ clnts \in Seq(Ids) /\ Distinct(clnts) /\ ToSet(clnts) = ToSet(s.clients) \cup {c}
      /\ Len(clnts) = Len(s.clients) + 1
  BY Appended DEF Sound
<1>8. Connected(fd) \in Conns /\ Connected(fd).fd = fd /\ Registered(Connected(fd), c) = [mask |-> {"r"}, client |-> c]
  BY Sizes DEF Connected, Conns, Registered
<1>9. conns \in [Ids -> Conns] /\ \A x \in Ids : conns[x] = IF x = c THEN Connected(fd) ELSE s.conn[x]
  BY <1>8 DEF Sound
<1>10. Sound(new)
  <2> HIDE DEF a, clnts, conns
  <2>1. \A x \in Ids \ ToSet(clnts) : conns[x] = Gone
    BY <1>7, <1>9 DEF Sound
  <2>2. ASSUME NEW x \in ToSet(clnts)
        PROVE  conns[x].fd \in 1 .. MaxClients + 1 /\ a.events[conns[x].fd] = Registered(conns[x], x)
    <3>1. CASE x = c
      BY <1>6, <1>8, <1>9, <3>1
    <3>2. CASE x # c
      <4>1. x \in ToSet(s.clients) /\ x \in Ids
        BY <1>1, <1>7, <3>2
      <4>2. conns[x] = s.conn[x] /\ s.conn[x].fd \in Fds \ {fd}
        BY <1>1, <1>9, <3>2, <4>1
      <4>3. QED
        BY <1>6, <4>1, <4>2 DEF Sound
    <3>3. QED
      BY <3>1, <3>2
  <2>3. a.events[Listener] = [mask |-> {"r"}, client |-> None]
    BY <1>1, <1>6, Sizes DEF Sound
  <2>4. ASSUME NEW x \in Fds \ {Listener}, a.events[x].mask # {}
        PROVE  \E d \in ToSet(clnts) : conns[d].fd = x
    <3>1. CASE x = fd
      BY <1>7, <1>8, <1>9, <3>1
    <3>2. CASE x # fd
      <4>1. PICK d \in ToSet(s.clients) : s.conn[d].fd = x
        BY <1>6, <2>4, <3>2 DEF Sound
      <4>2. d # c /\ d \in Ids
        BY <1>1
      <4>3. QED
        BY <1>7, <1>9, <4>1, <4>2
    <3>3. QED
      BY <3>1, <3>2
  <2>5. QED
    BY <1>2, <1>7, <1>9, <2>1, <2>2, <2>3, <2>4 DEF Sound
<1>11. QED
  <2> HIDE DEF a, clnts, conns
  <2>1. new.clients = clnts /\ new.conn = conns /\ new.el = a
    OBVIOUS
  <2> HIDE DEF new
  <2>2. QED
    BY <1>3, <1>6, <1>7, <1>10, <2>1 DEF conns

\* A client changes, and with it what it is registered for.
LEMMA ChangeSound ==
  ASSUME NEW s, Sound(s), NEW c \in ToSet(s.clients),
         NEW k \in Conns, k.fd = s.conn[c].fd, NEW loop, LoopExact(loop),
         loop.events[k.fd] = Registered(k, c),
         \A x \in Fds \ {k.fd} : loop.events[x] = s.el.events[x]
  PROVE  Sound([el |-> loop, clients |-> s.clients, conn |-> [s.conn EXCEPT ![c] = k]])
<1> DEFINE conns == [s.conn EXCEPT ![c] = k]
<1>1. /\ k.fd \in Fds \ {Listener} /\ c \in Ids /\ ToSet(s.clients) \subseteq Ids
      /\ \A x, y \in ToSet(s.clients) : s.conn[x].fd = s.conn[y].fd => x = y
      /\ \A x \in ToSet(s.clients) : s.conn[x].fd \in Fds \ {Listener}
  BY Basics
<1>2. conns \in [Ids -> Conns] /\ \A x \in Ids : conns[x] = IF x = c THEN k ELSE s.conn[x]
  BY <1>1 DEF Sound
<1> HIDE DEF conns
<1>3. \A x \in Ids \ ToSet(s.clients) : conns[x] = Gone
  BY <1>2 DEF Sound
<1>4. ASSUME NEW x \in ToSet(s.clients)
      PROVE  conns[x].fd \in 1 .. MaxClients + 1 /\ loop.events[conns[x].fd] = Registered(conns[x], x)
  <2>1. CASE x = c
    BY <1>1, <1>2, <2>1 DEF Sound
  <2>2. CASE x # c
    <3>1. conns[x] = s.conn[x] /\ s.conn[x].fd \in Fds \ {k.fd}
      BY <1>1, <1>2, <2>2
    <3>2. QED
      BY <3>1 DEF Sound
  <2>3. QED
    BY <2>1, <2>2
<1>5. loop.events[Listener] = [mask |-> {"r"}, client |-> None]
  BY <1>1, Sizes DEF Sound
<1>6. ASSUME NEW x \in Fds \ {Listener}, loop.events[x].mask # {}
      PROVE  \E d \in ToSet(s.clients) : conns[d].fd = x
  <2>1. CASE x = k.fd
    BY <1>1, <1>2, <2>1
  <2>2. CASE x # k.fd
    <3>1. PICK d \in ToSet(s.clients) : s.conn[d].fd = x
      BY <1>6, <2>2 DEF Sound
    <3>2. d # c /\ d \in Ids
      BY <1>1, <2>2, <3>1
    <3>3. QED
      BY <1>2, <3>1, <3>2
  <2>3. QED
    BY <2>1, <2>2
<1>7. s.clients \in Seq(Ids) /\ Distinct(s.clients)
  BY DEF Sound
<1>8. QED
  BY <1>2, <1>3, <1>4, <1>5, <1>6, <1>7 DEF Sound, conns

\* What registration does not depend on changes.
LEMMA RefreshSound ==
  ASSUME NEW s, Sound(s), NEW conns \in [Ids -> Conns],
         \A c \in Ids \ ToSet(s.clients) : conns[c] = s.conn[c],
         \A c \in ToSet(s.clients) : conns[c].fd = s.conn[c].fd /\ conns[c].reply = s.conn[c].reply
  PROVE  Sound([el |-> s.el, clients |-> s.clients, conn |-> conns])
BY DEF Sound, Registered
-----------------------------------------------------------------------------
(* acceptCommonHandler                                                     *)

\* While there are at most MaxClients clients accept finds a descriptor nobody has.
LEMMA FreeFdOK ==
  ASSUME NEW s, Sound(s), Len(s.clients) <= MaxClients
  PROVE  FreeFd(s) \in 1 .. MaxClients + 1 /\ \A c \in ToSet(s.clients) : s.conn[c].fd # FreeFd(s)
<1> DEFINE all == 1 .. MaxClients + 1
           list == ToSet(s.clients)
           used == {s.conn[c].fd : c \in Ids}
           free == all \ used
<1>1. /\ MaxClients \in Nat /\ Len(s.clients) \in Nat /\ all \subseteq Nat
      /\ IsFiniteSet(list) /\ Cardinality(list) = Len(s.clients)
      /\ list \subseteq Ids
  <2>1. IsFiniteSet(list) /\ Cardinality(list) = Len(s.clients)
    BY ListSize DEF Sound
  <2>2. QED
    BY <2>1, Sizes, Basics
<1>2. free # {}
  <2> SUFFICES ASSUME all \subseteq used PROVE FALSE
    OBVIOUS
  <2> DEFINE fdOf == [c \in list |-> s.conn[c].fd]
  <2>1. fdOf \in Surjection(list, all)
    <3>1. \A c \in list : s.conn[c].fd \in all
      BY DEF Sound
    <3>2. ASSUME NEW fd \in all PROVE \E c \in list : fdOf[c] = fd
      <4>1. PICK c \in Ids : s.conn[c].fd = fd
        OBVIOUS
      <4>2. fd # -1
        BY <1>1
      <4>3. c \in list
        BY <4>1, <4>2, GoneConn DEF Sound
      <4>4. QED
        BY <4>1, <4>3
    <3>3. QED
      BY <3>1, <3>2 DEF Surjection
  <2>2. Cardinality(all) <= Cardinality(list)
    <3> HIDE DEF all, list, fdOf
    <3>1. QED
      BY <1>1, <2>1, FS_Surjection
  <2>3. Cardinality(all) = MaxClients + 1
    BY <1>1, FS_Interval
  <2>4. QED
    BY <1>1, <2>2, <2>3
<1>3. FreeFd(s) = Min(free)
  BY DEF FreeFd
<1>4. Min(free) \in free
  <2> HIDE DEF used
  <2>1. free \subseteq Nat
    BY <1>1
  <2> HIDE DEF free
  <2>2. QED
    BY <1>2, <2>1, MinExists
<1>5. QED
  BY <1>1, <1>3, <1>4

\* A client is accepted, or freed at once as there are too many.
LEMMA AcceptSound ==
  ASSUME NEW s, Sound(s), Len(s.clients) <= MaxClients, NEW c \in Ids \ ToSet(s.clients)
  PROVE  LET new == acceptCommonHandler(s, c)
         IN  /\ Sound(new) /\ Len(new.clients) <= MaxClients
             /\ ToSet(s.clients) \subseteq ToSet(new.clients)
             /\ ToSet(new.clients) \subseteq ToSet(s.clients) \cup {c}
             /\ \A d \in ToSet(s.clients) :
                  new.conn[d] = s.conn[d] /\ new.el.events[s.conn[d].fd] = s.el.events[s.conn[d].fd]
<1> DEFINE fd == FreeFd(s)
           one == createClient(s, c, fd)
           none == freeClient(one, c)
<1>1. fd \in 1 .. MaxClients + 1 /\ \A d \in ToSet(s.clients) : s.conn[d].fd # fd
  BY FreeFdOK
<1>2. /\ fd \in Fds /\ Len(s.clients) \in Nat /\ MaxClients \in Nat /\ ToSet(s.clients) \subseteq Ids
      /\ \A d \in ToSet(s.clients) : s.conn[d].fd \in Fds
      /\ s.conn \in [Ids -> Conns]
  BY <1>1, Basics, Sizes DEF Sound
<1> HIDE DEF fd
<1>3. /\ Sound(one) /\ ToSet(one.clients) = ToSet(s.clients) \cup {c}
      /\ Len(one.clients) = Len(s.clients) + 1
      /\ one.conn = [s.conn EXCEPT ![c] = Connected(fd)]
      /\ \A x \in Fds \ {fd} : one.el.events[x] = s.el.events[x]
  BY <1>1, CreateClientSound
<1> HIDE DEF one
<1>4. one.conn[c].fd = fd /\ \A d \in Ids \ {c} : one.conn[d] = s.conn[d]
  BY <1>2, <1>3 DEF Connected
<1>5. CASE Len(one.clients) > MaxClients
  <2>1. acceptCommonHandler(s, c) = none
    BY <1>5 DEF acceptCommonHandler, one, fd
  <2>2. c \in ToSet(one.clients)
    BY <1>3
  <2>3. /\ Sound(none) /\ ToSet(none.clients) = ToSet(one.clients) \ {c}
        /\ Len(none.clients) = Len(one.clients) - 1
        /\ none.conn = [one.conn EXCEPT ![c] = Gone]
        /\ \A x \in Fds \ {fd} : none.el.events[x] = one.el.events[x]
    <3>1. /\ Sound(none) /\ ToSet(none.clients) = ToSet(one.clients) \ {c}
          /\ Len(none.clients) = Len(one.clients) - 1
          /\ none.conn = [one.conn EXCEPT ![c] = Gone]
          /\ \A x \in Fds \ {one.conn[c].fd} : none.el.events[x] = one.el.events[x]
      BY <1>3, <2>2, FreeSound
    <3>2. QED
      BY <1>4, <3>1
  <2> HIDE DEF none
  <2>4. Len(none.clients) <= MaxClients
    BY <1>2, <1>3, <2>3
  <2>5. \A d \in ToSet(s.clients) : none.conn[d] = s.conn[d]
    <3>1. one.conn \in [Ids -> Conns]
      BY <1>3 DEF Sound
    <3>2. \A d \in Ids \ {c} : none.conn[d] = one.conn[d]
      BY <2>3, <3>1
    <3>3. QED
      BY <1>2, <1>4, <3>2
  <2>6. \A d \in ToSet(s.clients) : none.el.events[s.conn[d].fd] = s.el.events[s.conn[d].fd]
    BY <1>1, <1>2, <1>3, <2>3
  <2>7. ToSet(none.clients) = ToSet(s.clients)
    BY <1>3, <2>3
  <2>8. QED
    BY <2>1, <2>3, <2>4, <2>5, <2>6, <2>7
<1>6. CASE ~ (Len(one.clients) > MaxClients)
  <2>1. acceptCommonHandler(s, c) = one
    BY <1>6 DEF acceptCommonHandler, one, fd
  <2>2. Len(one.clients) <= MaxClients
    BY <1>2, <1>3, <1>6
  <2>3. \A d \in ToSet(s.clients) :
          one.conn[d] = s.conn[d] /\ one.el.events[s.conn[d].fd] = s.el.events[s.conn[d].fd]
    BY <1>1, <1>2, <1>3, <1>4
  <2>4. QED
    BY <1>3, <2>1, <2>2, <2>3
<1>7. QED
  BY <1>5, <1>6
-----------------------------------------------------------------------------
(* The handlers of a client                                                *)

\* What a handler that is called for client c leaves to the others, and to c.
Handled(s, c, new) ==
  /\ Sound(new) /\ Len(new.clients) <= Len(s.clients)
  /\ ToSet(new.clients) \subseteq ToSet(s.clients)
  /\ \A d \in ToSet(s.clients) \ {c} : d \in ToSet(new.clients) /\ new.conn[d] = s.conn[d]
  /\ \/ c \in ToSet(new.clients) /\ new.conn[c].fd = s.conn[c].fd
     \/ new.el.events[s.conn[c].fd].mask = {}

\* It frees the client.
LEMMA FreeHandled ==
  ASSUME NEW s, Sound(s), NEW c \in ToSet(s.clients)
  PROVE  Handled(s, c, freeClient(s, c))
<1> DEFINE new == freeClient(s, c)
<1>1. /\ Sound(new) /\ ToSet(new.clients) = ToSet(s.clients) \ {c}
      /\ Len(new.clients) = Len(s.clients) - 1
      /\ new.conn = [s.conn EXCEPT ![c] = Gone]
      /\ new.el.events[s.conn[c].fd].mask = {}
  BY FreeSound
<1> HIDE DEF new
<1>2. \A d \in ToSet(s.clients) \ {c} : new.conn[d] = s.conn[d]
  <2>1. ToSet(s.clients) \subseteq Ids /\ s.conn \in [Ids -> Conns]
    BY Basics DEF Sound
  <2>2. QED
    BY <1>1, <2>1
<1>3. Len(s.clients) \in Nat
  BY Basics
<1>4. Len(new.clients) <= Len(s.clients)
  BY <1>1, <1>3
<1>5. QED
  BY <1>1, <1>2, <1>4 DEF Handled, new

\* It leaves the client, and what it is registered for agrees.
LEMMA ChangeHandled ==
  ASSUME NEW s, Sound(s), NEW c \in ToSet(s.clients),
         NEW k \in Conns, k.fd = s.conn[c].fd, NEW loop, LoopExact(loop),
         loop.events[k.fd] = Registered(k, c),
         \A x \in Fds \ {k.fd} : loop.events[x] = s.el.events[x]
  PROVE  Handled(s, c, [el |-> loop, clients |-> s.clients, conn |-> [s.conn EXCEPT ![c] = k]])
<1> DEFINE conns == [s.conn EXCEPT ![c] = k]
           new == [el |-> loop, clients |-> s.clients, conn |-> conns]
<1>1. Sound(new)
  BY ChangeSound
<1>2. new.clients = s.clients /\ new.conn = conns
  OBVIOUS
<1>3. conns[c] = k /\ \A d \in ToSet(s.clients) \ {c} : conns[d] = s.conn[d]
  <2>1. ToSet(s.clients) \subseteq Ids /\ s.conn \in [Ids -> Conns]
    BY Basics DEF Sound
  <2>2. QED
    BY <2>1
<1>4. Len(s.clients) \in Nat
  BY Basics
<1> HIDE DEF new, conns
<1>5. QED
  BY <1>1, <1>2, <1>3, <1>4 DEF Handled, new, conns

\* It does nothing.
LEMMA SameHandled ==
  ASSUME NEW s, Sound(s), NEW c \in ToSet(s.clients) PROVE Handled(s, c, s)
<1>1. Len(s.clients) \in Nat
  BY Basics
<1>2. QED
  BY <1>1 DEF Handled

\* A client of a state that was handled is handled again.
LEMMA TwiceHandled ==
  ASSUME NEW s, Sound(s), NEW c \in ToSet(s.clients),
         NEW t, Handled(s, c, t), c \in ToSet(t.clients), t.conn[c].fd = s.conn[c].fd,
         NEW u, Handled(t, c, u)
  PROVE  Handled(s, c, u)
<1>1. Len(s.clients) \in Nat /\ Len(t.clients) \in Nat /\ Len(u.clients) \in Nat
  <2>1. Sound(t) /\ Sound(u)
    BY DEF Handled
  <2>2. QED
    BY <2>1, Basics
<1>2. Sound(u) /\ Len(u.clients) <= Len(s.clients) /\ ToSet(u.clients) \subseteq ToSet(s.clients)
  <2>1. /\ Sound(u) /\ Len(u.clients) <= Len(t.clients) /\ Len(t.clients) <= Len(s.clients)
        /\ ToSet(u.clients) \subseteq ToSet(t.clients) /\ ToSet(t.clients) \subseteq ToSet(s.clients)
    BY DEF Handled
  <2>2. QED
    BY <1>1, <2>1
<1>3. \A d \in ToSet(s.clients) \ {c} : d \in ToSet(u.clients) /\ u.conn[d] = s.conn[d]
  <2>1. \A d \in ToSet(s.clients) \ {c} : d \in ToSet(t.clients) \ {c} /\ t.conn[d] = s.conn[d]
    BY DEF Handled
  <2>2. \A d \in ToSet(t.clients) \ {c} : d \in ToSet(u.clients) /\ u.conn[d] = t.conn[d]
    BY DEF Handled
  <2>3. QED
    BY <2>1, <2>2
<1>4. \/ c \in ToSet(u.clients) /\ u.conn[c].fd = s.conn[c].fd
      \/ u.el.events[s.conn[c].fd].mask = {}
  BY DEF Handled
<1>5. QED
  BY <1>2, <1>3, <1>4 DEF Handled

\* The parts of the present state.
LEMMA NowIs == Now.el = el /\ Now.clients = clients /\ Now.conn = conn
BY DEF Now

\* The read handler has a reply for the client, or none.
LEMMA ReplyHandled ==
  ASSUME Sound(Now), NEW c \in ToSet(clients), NEW reply \in Replies(c)
  PROVE  Handled(Now, c, Replying(c, reply))
<1> DEFINE fd == conn[c].fd
           k == [conn[c] EXCEPT !.reply = reply, !.sock = @ \ {"data"}, !.idle = 0]
           loop == IF reply = "none" THEN el ELSE aeCreateFileEvent(el, fd, {"w"}, c)
<1>1. Replying(c, reply) = [el |-> loop, clients |-> clients, conn |-> [conn EXCEPT ![c] = k]]
  BY DEF Replying
<1>2. /\ c \in Ids /\ c \in Nat /\ fd \in Fds /\ conn[c] \in Conns /\ LoopExact(el)
      /\ el.events[fd] = Registered(conn[c], c)
  BY Basics, NowIs, Sizes DEF Sound
<1>3. /\ reply \in {"none", "some", "last"} /\ (reply = "none" => conn[c].reply = "none")
  <2>1. conn[c].reply \in {"none", "some", "last"}
    BY <1>2 DEF Conns
  <2>2. QED
    BY <2>1 DEF Replies
<1>4. k \in Conns /\ k.fd = fd /\ k.reply = reply
  BY <1>2, <1>3 DEF Conns
<1> HIDE DEF k, fd
<1>5. LoopExact(loop) /\ loop.events[fd] = Registered(k, c) /\ \A x \in Fds \ {fd} : loop.events[x] = el.events[x]
  <2>1. CASE reply = "none"
    BY <1>2, <1>3, <1>4, <2>1 DEF Registered
  <2>2. CASE reply # "none"
    <3> DEFINE new == aeCreateFileEvent(el, fd, {"w"}, c)
    <3>1. {"w"} \in Masks \ {{}}
      BY DEF Masks
    <3>2. /\ LoopExact(new)
          /\ new.events = [el.events EXCEPT ![fd] = [mask |-> el.events[fd].mask \cup {"w"}, client |-> c]]
      BY <1>2, <3>1, Sizes, CreateLoop
    <3> HIDE DEF new
    <3>3. el.events \in [Fds -> [mask : Masks, client : Nat]]
      BY <1>2 DEF LoopExact, Loops
    <3>4. new.events[fd].mask = {"r", "w"} /\ new.events[fd] = [mask |-> el.events[fd].mask \cup {"w"}, client |-> c]
      BY <1>2, <3>2, <3>3 DEF Registered
    <3>5. new.events[fd] = Registered(k, c)
      BY <1>4, <2>2, <3>4 DEF Registered
    <3>6. \A x \in Fds \ {fd} : new.events[x] = el.events[x]
      BY <3>2, <3>3
    <3>7. loop = new
      BY <2>2 DEF new
    <3>8. QED
      BY <3>2, <3>5, <3>6, <3>7
  <2>3. QED
    BY <2>1, <2>2
<1> HIDE DEF loop
<1>6. k.fd = Now.conn[c].fd
  BY <1>4, NowIs DEF fd
<1>7. QED
  <2> DEFINE new == [el |-> loop, clients |-> Now.clients, conn |-> [Now.conn EXCEPT ![c] = k]]
  <2>1. Handled(Now, c, new)
    BY <1>4, <1>5, <1>6, ChangeHandled, NowIs
  <2>2. new = Replying(c, reply)
    BY <1>1, NowIs
  <2>3. QED
    BY <2>1, <2>2

\* The write handler has sent all of the reply, and withdraws itself.
LEMMA SentHandled ==
  ASSUME Sound(Now), NEW c \in ToSet(clients)
  PROVE  LET sent == [el |-> aeDeleteFileEvent(el, conn[c].fd, {"w"}),
                      clients |-> clients,
                      conn |-> [conn EXCEPT ![c] = [@ EXCEPT !.reply = "none", !.idle = 0]]]
         IN  /\ Handled(Now, c, sent)
             /\ c \in ToSet(sent.clients) /\ sent.conn[c].fd = conn[c].fd
<1> DEFINE fd == conn[c].fd
           k == [conn[c] EXCEPT !.reply = "none", !.idle = 0]
           loop == aeDeleteFileEvent(el, fd, {"w"})
           conns == [conn EXCEPT ![c] = k]
           new == [el |-> loop, clients |-> clients, conn |-> conns]
           sent == [el |-> aeDeleteFileEvent(el, conn[c].fd, {"w"}),
                      clients |-> clients,
                      conn |-> [conn EXCEPT ![c] = [@ EXCEPT !.reply = "none", !.idle = 0]]]
<1>1. sent = new
  OBVIOUS
<1>2. /\ c \in Ids /\ c \in Nat /\ fd \in Fds /\ conn \in [Ids -> Conns] /\ LoopExact(el)
      /\ el.events[fd] = Registered(conn[c], c)
  BY Basics, NowIs, Sizes DEF Sound
<1>3. k \in Conns /\ k.fd = fd /\ k.reply = "none"
  BY <1>2 DEF Conns
<1>4. conns[c] = k
  BY <1>2
<1> HIDE DEF k, fd
<1>5. LoopExact(loop) /\ loop.events[fd] = Registered(k, c) /\ \A x \in Fds \ {fd} : loop.events[x] = el.events[x]
  <2>1. {"w"} \in Masks
    BY DEF Masks
  <2>2. /\ LoopExact(loop) /\ loop.events = [el.events EXCEPT ![fd].mask = @ \ {"w"}]
    BY <1>2, <2>1, Sizes, DeleteLoop
  <2> HIDE DEF loop
  <2>3. el.events \in [Fds -> [mask : Masks, client : Nat]]
    BY <1>2 DEF LoopExact, Loops
  <2>4. loop.events[fd] = [mask |-> el.events[fd].mask \ {"w"}, client |-> el.events[fd].client]
    BY <1>2, <2>2, <2>3
  <2>5. el.events[fd].mask \ {"w"} = {"r"} /\ el.events[fd].client = c
    BY <1>2 DEF Registered
  <2>6. QED
    BY <1>3, <2>2, <2>3, <2>4, <2>5 DEF Registered
<1> HIDE DEF loop
<1>6. k.fd = Now.conn[c].fd
  BY <1>3, NowIs DEF fd
<1>7. Handled(Now, c, new)
  <2> DEFINE changed == [el |-> loop, clients |-> Now.clients, conn |-> [Now.conn EXCEPT ![c] = k]]
  <2>1. Handled(Now, c, changed)
    BY <1>3, <1>5, <1>6, ChangeHandled, NowIs
  <2>2. changed = new
    BY NowIs
  <2>3. QED
    BY <2>1, <2>2
<1>8. new.clients = clients /\ new.conn[c].fd = conn[c].fd
  BY <1>3, <1>4 DEF fd
<1> HIDE DEF new, sent
<1>9. Handled(Now, c, sent) /\ c \in ToSet(sent.clients) /\ sent.conn[c].fd = conn[c].fd
  BY <1>1, <1>7, <1>8
<1>10. QED
  BY <1>9 DEF sent

\* The write handler has sent a part.
LEMMA PartHandled ==
  ASSUME Sound(Now), NEW c \in ToSet(clients)
  PROVE  Handled(Now, c, [Now EXCEPT !.conn[c].idle = 0])
<1> DEFINE k == [conn[c] EXCEPT !.idle = 0]
<1>1. [Now EXCEPT !.conn[c].idle = 0] = [el |-> Now.el, clients |-> Now.clients, conn |-> [Now.conn EXCEPT ![c] = k]]
  BY DEF Now
<1>2. /\ conn[c] \in Conns /\ LoopExact(el) /\ el.events[conn[c].fd] = Registered(conn[c], c)
  BY Basics, NowIs DEF Sound
<1>3. k \in Conns /\ k.fd = conn[c].fd /\ k.reply = conn[c].reply
  BY <1>2 DEF Conns
<1> HIDE DEF k
<1>4. el.events[k.fd] = Registered(k, c)
  BY <1>2, <1>3 DEF Registered
<1> DEFINE new == [el |-> Now.el, clients |-> Now.clients, conn |-> [Now.conn EXCEPT ![c] = k]]
<1>5. Handled(Now, c, new)
  BY <1>2, <1>3, <1>4, NowIs, ChangeHandled
<1>6. QED
  BY <1>1, <1>5

\* The handlers of a client.
LEMMA ReadHandled ==
  ASSUME Sound(Now), NEW c \in ToSet(clients), readQueryFromClient(c)
  PROVE  Handled(Now, c, Now')
<1>1. ASSUME NEW reply \in Replies(c), Become(Replying(c, reply)) PROVE Handled(Now, c, Now')
  <2>1. Handled(Now, c, Replying(c, reply))
    BY ReplyHandled
  <2>2. QED
    BY <1>1, <2>1 DEF Become, Handled, Now, Sound
<1>2. ASSUME Become(freeClient(Now, c)) PROVE Handled(Now, c, Now')
  <2>1. Handled(Now, c, freeClient(Now, c))
    BY FreeHandled, NowIs
  <2>2. QED
    BY <1>2, <2>1 DEF Become, Handled, Now, Sound
<1>3. ASSUME UNCHANGED <<el, clients, conn>> PROVE Handled(Now, c, Now')
  <2>1. Handled(Now, c, Now)
    BY SameHandled, NowIs
  <2>2. QED
    BY <1>3, <2>1 DEF Now
<1>4. QED
  BY <1>1, <1>2, <1>3 DEF readQueryFromClient

\* The write handler of a client.
LEMMA SendHandled ==
  ASSUME Sound(Now), NEW c \in ToSet(clients), sendReplyToClient(c)
  PROVE  Handled(Now, c, Now')
<1> DEFINE sent == [el |-> aeDeleteFileEvent(el, conn[c].fd, {"w"}),
                      clients |-> clients,
                      conn |-> [conn EXCEPT ![c] = [@ EXCEPT !.reply = "none", !.idle = 0]]]
<1>1. Handled(Now, c, sent) /\ c \in ToSet(sent.clients) /\ sent.conn[c].fd = conn[c].fd
  BY SentHandled
<1>2. PICK new \in {IF conn[c].reply = "last" THEN freeClient(sent, c) ELSE sent,
                    [Now EXCEPT !.conn[c].idle = 0], Now, freeClient(Now, c)} : Become(new)
  BY DEF sendReplyToClient
<1> HIDE DEF sent
<1>3. Handled(Now, c, freeClient(sent, c))
  <2>1. Handled(sent, c, freeClient(sent, c))
    BY <1>1, FreeHandled DEF Handled
  <2>2. QED
    BY <1>1, <2>1, TwiceHandled, NowIs
<1>4. Handled(Now, c, new)
  BY <1>1, <1>2, <1>3, PartHandled, SameHandled, FreeHandled, NowIs
<1>5. QED
  BY <1>2, <1>4 DEF Become, Handled, Now, Sound

\* The timer looks at the client that was the last of the list.
LEMMA CronHandled ==
  ASSUME Sound(Now), clients # <<>>
  PROVE  LET c == Last(clients)
         IN  Handled(Now, c, clientsCronHandleTimeout([Now EXCEPT !.clients = listRotate(@)], c))
<1> DEFINE c == Last(clients)
           list == listRotate(clients)
           turned == [el |-> el, clients |-> list, conn |-> conn]
<1>1. [Now EXCEPT !.clients = listRotate(@)] = turned
  BY DEF Now
<1>2. /\ list \in Seq(Ids) /\ Distinct(list) /\ ToSet(list) = ToSet(clients)
      /\ Len(list) = Len(clients) /\ c \in ToSet(clients)
  BY Rotated, NowIs DEF Sound
<1>3. turned.el = el /\ turned.clients = list /\ turned.conn = conn
  OBVIOUS
<1>4. Len(clients) \in Nat
  BY Basics, NowIs
<1> HIDE DEF c, list, turned
<1>5. Sound(turned)
  BY <1>2, <1>3, NowIs DEF Sound
<1>6. Handled(Now, c, turned)
  BY <1>2, <1>3, <1>4, <1>5, NowIs DEF Handled
<1>7. Handled(turned, c, freeClient(turned, c))
  BY <1>2, <1>3, <1>5, FreeHandled
<1>8. Handled(Now, c, freeClient(turned, c))
  BY <1>2, <1>3, <1>6, <1>7, TwiceHandled, NowIs
<1>9. Handled(Now, c, clientsCronHandleTimeout(turned, c))
  BY <1>6, <1>8 DEF clientsCronHandleTimeout
<1>10. QED
  BY <1>1, <1>9 DEF c
-----------------------------------------------------------------------------
(* The steps of the server.                                                *)

\* Each step is one of the background jobs or leaves them alone.
LEMMA StepIsBioStep == [Next]_vars => [BioNext]_bioVars
<1> SUFFICES ASSUME [Next]_vars PROVE [BioNext]_bioVars
  OBVIOUS
<1>1. CASE UNCHANGED vars
  BY <1>1 DEF vars
<1>2. CASE CreateJob
  BY <1>2 DEF CreateJob, BioNext
<1>3. CASE ContinueJob
  BY <1>3 DEF ContinueJob, BioNext
<1>4. CASE Poll
  BY <1>4 DEF Poll
<1>5. CASE Handle
  BY <1>5 DEF Handle
<1>6. CASE NotDue
  BY <1>6 DEF NotDue
<1>7. CASE \E tick \in 0 .. 1 : serverCron(tick)
  BY <1>7 DEF serverCron
<1>8. CASE \E t \in Types : JobThread(t)
  BY <1>8 DEF JobThread, BioNext
<1>9. CASE \E t \in Types : Wakeup(t)
  BY <1>9 DEF Wakeup, BioNext
<1>10. CASE Connect
  BY <1>10 DEF Connect
<1>11. CASE \E c \in Ids : Peer(c, "data") \/ Peer(c, "closed")
  BY <1>11 DEF Peer
<1>12. CASE sigtermHandler
  BY <1>12 DEF sigtermHandler
<1>13. CASE Accept \/ AcceptEnd
  BY <1>13 DEF Accept, AcceptEnd
<1>14. CASE clientsCron \/ CronEnd
  BY <1>14 DEF clientsCron, CronEnd
<1>15. QED
  BY <1>1, <1>2, <1>3, <1>4, <1>5, <1>6, <1>7, <1>8, <1>9, <1>10, <1>11, <1>12, <1>13, <1>14
  DEF Next, MainThread, Environment

\* The main thread and the threads of bio.c, whatever clients do, use the queues
\* of jobs as module Bio says: the server implements it.
THEOREM ImplementsBio == Spec => BioSpec
<1>1. Init => BioInit
  BY DEF Init
<1>2. QED
  BY <1>1, StepIsBioStep, PTL DEF Spec, BioSpec

\* In the server too jobs are run in the order of their creation, each once.
THEOREM ServerKeepsOrder == Spec => []JobsInOrder
BY ImplementsBio, OrderKept, PTL
-----------------------------------------------------------------------------
(* The invariant                                                           *)

\* Every connection of the load gets a number of its own.
Counted ==
  /\ opened \in Nat /\ backlog \in Nat
  /\ toCome \in [conns : Nat, jobs : Nat, signals : Nat, wakeups : Nat]
  /\ opened + backlog + toCome.conns <= MaxConnections
  /\ \A c \in ToSet(clients) : c <= opened

FiredEvents == [fd : Fds, mask : Masks, of : Nat]

\* The client that an event is about is there, with what its read handler is called for.
Awaited(e, s) ==
  /\ e.of \in ToSet(s.clients) /\ s.conn[e.of].fd = e.fd
  /\ "r" \in e.mask => s.conn[e.of].sock # {}

\* One event of each descriptor; only the first may be of a client that was freed.
Batch(events, s) ==
  /\ events \in Seq(FiredEvents)
  /\ \A i, j \in 1 .. Len(events) : events[i].fd = events[j].fd => i = j
  /\ \A i \in 1 .. Len(events) :
       \/ events[i].fd = Listener /\ events[i].mask \subseteq {"r"}
       \/ Awaited(events[i], s)
       \/ i = 1 /\ s.el.events[events[i].fd].mask = {}

InPhase ==
  /\ phase = "accept" => fired # <<>> /\ fired[1].fd = Listener
  /\ phase \in {"poll", "cron"} => fired = <<>>

Inv == Sound(Now) /\ Len(clients) <= MaxClients /\ Counted /\ Batch(fired, Now) /\ InPhase

\* Nothing is wrong with a batch without events.
LEMMA EmptyBatch == ASSUME NEW s PROVE Batch(<<>>, s)
BY EmptySeq DEF Batch

\* The first event is done with.
LEMMA TailBatch ==
  ASSUME NEW s, NEW events, Batch(events, s), events # <<>>, NEW new,
         \A d \in ToSet(s.clients) :
           s.conn[d].fd # events[1].fd => d \in ToSet(new.clients) /\ new.conn[d] = s.conn[d]
  PROVE  Batch(Tail(events), new)
<1> DEFINE n == Len(events)
           tail == Tail(events)
<1>1. n \in Nat \ {0} /\ events \in Seq(FiredEvents)
  BY EmptySeq, LenProperties DEF Batch
<1>2. tail \in Seq(FiredEvents) /\ Len(tail) = n - 1 /\ \A i \in 1 .. n - 1 : tail[i] = events[i + 1]
  BY <1>1, HeadTailProperties
<1> HIDE DEF tail, n
<1>3. \A i, j \in 1 .. n - 1 : tail[i].fd = tail[j].fd => i = j
  <2> SUFFICES ASSUME NEW i \in 1 .. n - 1, NEW j \in 1 .. n - 1, tail[i].fd = tail[j].fd
               PROVE  i = j
    OBVIOUS
  <2>1. i + 1 \in 1 .. n /\ j + 1 \in 1 .. n /\ events[i + 1].fd = events[j + 1].fd
    BY <1>1, <1>2
  <2>2. i + 1 = j + 1
    BY <2>1 DEF Batch, n
  <2>3. QED
    BY <1>1, <2>2
<1>4. ASSUME NEW i \in 1 .. n - 1
      PROVE  (tail[i].fd = Listener /\ tail[i].mask \subseteq {"r"}) \/ Awaited(tail[i], new)
  <2>1. i + 1 \in 1 .. n /\ i + 1 # 1 /\ 1 \in 1 .. n /\ tail[i] = events[i + 1]
    BY <1>1, <1>2
  <2>2. (tail[i].fd = Listener /\ tail[i].mask \subseteq {"r"}) \/ Awaited(tail[i], s)
    BY <2>1 DEF Batch, n
  <2>3. tail[i].fd # events[1].fd
    BY <2>1 DEF Batch, n
  <2>4. QED
    BY <2>2, <2>3 DEF Awaited
<1>5. QED
  BY <1>2, <1>3, <1>4 DEF Batch, tail

\* The read handler of the first event was called.
LEMMA HeadBatch ==
  ASSUME NEW s, NEW events, Batch(events, s), events # <<>>, NEW new,
         \A d \in ToSet(s.clients) :
           s.conn[d].fd # events[1].fd => d \in ToSet(new.clients) /\ new.conn[d] = s.conn[d],
         \/ events[1].fd = Listener /\ events[1].mask \subseteq {"r"}
         \/ events[1].of \in ToSet(new.clients) /\ new.conn[events[1].of].fd = events[1].fd
         \/ new.el.events[events[1].fd].mask = {}
  PROVE  Batch([events EXCEPT ![1].mask = @ \ {"r"}], new)
<1> DEFINE n == Len(events)
           rest == [events EXCEPT ![1].mask = @ \ {"r"}]
           head == [events[1] EXCEPT !.mask = @ \ {"r"}]
<1>1. n \in Nat \ {0} /\ events \in Seq(FiredEvents) /\ events \in [1 .. n -> FiredEvents]
  BY EmptySeq, LenProperties DEF Batch
<1>2. events[1] \in FiredEvents
  BY <1>1
<1>3. head \in FiredEvents /\ head.fd = events[1].fd /\ head.of = events[1].of /\ head.mask = events[1].mask \ {"r"}
  BY <1>2 DEF FiredEvents, Masks
<1>4. rest = [events EXCEPT ![1] = head]
  OBVIOUS
<1> HIDE DEF rest, head
<1>5. rest \in [1 .. n -> FiredEvents] /\ rest[1] = head /\ \A i \in 1 .. n : i # 1 => rest[i] = events[i]
  BY <1>1, <1>3, <1>4
<1>6. rest \in Seq(FiredEvents) /\ Len(rest) = n
  <2> HIDE DEF n
  <2>1. rest \in Seq(FiredEvents)
    BY <1>1, <1>5, SeqDef
  <2>2. QED
    BY <1>1, <1>5, <2>1, LenProperties
<1>7. \A i \in 1 .. n : rest[i].fd = events[i].fd
  BY <1>3, <1>5
<1>8. \A i, j \in 1 .. n : rest[i].fd = rest[j].fd => i = j
  BY <1>7 DEF Batch, n
<1>9. ASSUME NEW i \in 1 .. n
      PROVE  \/ rest[i].fd = Listener /\ rest[i].mask \subseteq {"r"}
             \/ Awaited(rest[i], new)
             \/ i = 1 /\ new.el.events[rest[i].fd].mask = {}
  <2>1. CASE i = 1
    BY <1>3, <1>5, <2>1 DEF Awaited
  <2>2. CASE i # 1
    <3>1. 1 \in 1 .. n /\ rest[i] = events[i]
      BY <1>1, <1>5, <2>2
    <3>2. (rest[i].fd = Listener /\ rest[i].mask \subseteq {"r"}) \/ Awaited(rest[i], s)
      BY <2>2, <3>1 DEF Batch, n
    <3>3. rest[i].fd # events[1].fd
      BY <2>2, <3>1 DEF Batch, n
    <3>4. QED
      BY <3>2, <3>3 DEF Awaited
  <2>3. QED
    BY <2>1, <2>2
<1>10. QED
  BY <1>6, <1>8, <1>9 DEF Batch, rest

\* Nothing of the batch is done, the first event of which is of the listening socket.
LEMMA SameBatch ==
  ASSUME NEW s, Sound(s), NEW events, Batch(events, s), events # <<>>, events[1].fd = Listener, NEW new,
         \A d \in ToSet(s.clients) : d \in ToSet(new.clients) /\ new.conn[d] = s.conn[d]
  PROVE  Batch(events, new)
<1>1. s.el.events[Listener].mask # {}
  BY DEF Sound
<1>2. \A i \in 1 .. Len(events) :
        (events[i].fd = Listener /\ events[i].mask \subseteq {"r"}) \/ Awaited(events[i], s)
  BY <1>1 DEF Batch
<1>3. \A i \in 1 .. Len(events) :
        (events[i].fd = Listener /\ events[i].mask \subseteq {"r"}) \/ Awaited(events[i], new)
  BY <1>2 DEF Awaited
<1>4. QED
  BY <1>3 DEF Batch

\* The batch that epoll_wait returns.
LEMMA PollBatch ==
  ASSUME Sound(Now), NEW writable, NEW events \in SetToSeqs(Ready(writable))
  PROVE  Batch(events, Now)
<1> DEFINE S == Ready(writable)
           n == Cardinality(S)
           ready == {d \in ToSet(clients) : Events(d, writable) # {}}
           EventOf(c) == [fd |-> conn[c].fd, mask |-> Events(c, writable), of |-> c]
           mine == {EventOf(c) : c \in ready}
           theirs == IF backlog > 0 THEN {[fd |-> Listener, mask |-> {"r"}, of |-> None]} ELSE {}
<1>1. /\ ToSet(clients) \subseteq Ids /\ IsFiniteSet(ToSet(clients))
      /\ \A c \in ToSet(clients) : conn[c].fd \in Fds \ {Listener}
      /\ \A c, d \in ToSet(clients) : conn[c].fd = conn[d].fd => c = d
  <2>1. IsFiniteSet(ToSet(clients))
    BY ListSize, NowIs DEF Sound
  <2>2. QED
    BY <2>1, Basics, NowIs
<1>2. S = mine \cup theirs
  BY DEF Ready
<1>3. IsFiniteSet(S)
  <2>1. IsFiniteSet(ready)
    BY <1>1, FS_Subset
  <2> DEFINE toEvent == [c \in ready |-> EventOf(c)]
  <2>2. toEvent \in Surjection(ready, mine)
    <3> HIDE DEF ready, EventOf
    <3>1. QED
      BY DEF Surjection
  <2>3. IsFiniteSet(mine)
    <3> HIDE DEF toEvent, ready, mine
    <3>1. QED
      BY <2>1, <2>2, FS_Surjection
  <2>4. IsFiniteSet(theirs)
    BY FS_Singleton, FS_EmptySet
  <2> HIDE DEF mine, theirs, S
  <2>5. QED
    BY <1>2, <2>3, <2>4, FS_Union
<1>4. n \in Nat
  BY <1>3, FS_CardinalityType
<1>5. ASSUME NEW e \in S
      PROVE  /\ e \in FiredEvents
             /\ (e.fd = Listener /\ e.mask \subseteq {"r"}) \/ Awaited(e, Now)
  <2>1. CASE e \in mine
    <3>1. PICK c \in ready : e = EventOf(c)
      BY <2>1
    <3>2. e.fd = conn[c].fd /\ e.mask = Events(c, writable) /\ e.of = c
      BY <3>1
    <3>3. Events(c, writable) \in Masks /\ ("r" \in Events(c, writable) => conn[c].sock # {})
      BY DEF Events, Masks
    <3>4. c \in ToSet(clients) /\ c \in Nat
      BY <1>1, Sizes
    <3>5. e \in FiredEvents
      BY <1>1, <3>1, <3>3, <3>4 DEF FiredEvents
    <3>6. Awaited(e, Now)
      BY <3>2, <3>3, <3>4, NowIs DEF Awaited
    <3>7. QED
      BY <3>5, <3>6
  <2>2. CASE e \in theirs
    <3>1. e = [fd |-> Listener, mask |-> {"r"}, of |-> None]
      BY <2>2
    <3>2. QED
      BY <3>1, Sizes DEF FiredEvents, Masks, None
  <2>3. QED
    BY <1>2, <2>1, <2>2
<1>6. ASSUME NEW e \in S, NEW f \in S, e.fd = f.fd PROVE e = f
  <2>1. ASSUME NEW x \in mine PROVE \E c \in ToSet(clients) : x = EventOf(c) /\ x.fd = conn[c].fd
    OBVIOUS
  <2>2. ASSUME NEW x \in theirs PROVE x = [fd |-> Listener, mask |-> {"r"}, of |-> None] /\ x.fd = Listener
    OBVIOUS
  <2> HIDE DEF mine, theirs, S, EventOf
  <2>3. QED
    BY <1>1, <1>2, <1>6, <2>1, <2>2
<1>7. events \in [1 .. n -> S] /\ \A i, j \in 1 .. n : i # j => events[i] # events[j]
  BY DEF SetToSeqs
<1> HIDE DEF S, n
<1>8. events \in Seq(FiredEvents) /\ Len(events) = n
  <2>1. \A i \in 1 .. n : events[i] \in FiredEvents
    BY <1>5, <1>7
  <2>2. events \in [1 .. n -> FiredEvents]
    BY <1>7, <2>1
  <2>3. events \in Seq(FiredEvents)
    BY <1>4, <2>2, SeqDef
  <2>4. QED
    BY <1>4, <1>7, <2>3, LenProperties
<1>9. \A i, j \in 1 .. n : events[i].fd = events[j].fd => i = j
  BY <1>6, <1>7
<1>10. \A i \in 1 .. n : (events[i].fd = Listener /\ events[i].mask \subseteq {"r"}) \/ Awaited(events[i], Now)
  BY <1>5, <1>7
<1>11. QED
  BY <1>8, <1>9, <1>10 DEF Batch
-----------------------------------------------------------------------------
(* The steps                                                               *)

\* The invariant holds when the server has started to listen.
LEMMA InitInv == Init => Inv
<1> SUFFICES ASSUME Init PROVE Inv
  OBVIOUS
<1> DEFINE loop == aeCreateFileEvent(aeCreateEventLoop, Listener, {"r"}, None)
<1>1. /\ LoopExact(loop)
      /\ loop.events[Listener] = [mask |-> {"r"}, client |-> None]
      /\ \A fd \in Fds \ {Listener} : loop.events[fd].mask = {}
  <2>1. PICK empty : /\ empty = aeCreateEventLoop /\ LoopExact(empty)
                     /\ empty.events = [fd \in Fds |-> [mask |-> {}, client |-> None]]
    BY Sizes, NewLoop
  <2>2. PICK mask \in Masks \ {{}} : mask = {"r"}
    BY DEF Masks
  <2>3. PICK fd \in Fds, client \in Nat : fd = Listener /\ client = None
    BY Sizes DEF None
  <2>4. /\ LoopExact(aeCreateFileEvent(empty, fd, mask, client))
        /\ aeCreateFileEvent(empty, fd, mask, client).events
             = [empty.events EXCEPT ![fd] = [mask |-> empty.events[fd].mask \cup mask, client |-> client]]
    <3>1. LoopExact(empty) /\ SetSize \in Nat
      BY <2>1, Sizes
    <3>2. QED
      BY <3>1, CreateLoop
  <2>5. loop = aeCreateFileEvent(empty, fd, mask, client)
    BY <2>1, <2>2, <2>3
  <2> HIDE DEF loop
  <2>6. empty.events[fd].mask = {} /\ \A x \in Fds : empty.events[x].mask = {} /\ x \in DOMAIN empty.events
    BY <2>1
  <2>7. loop.events = [empty.events EXCEPT ![fd] = [mask |-> {} \cup mask, client |-> client]]
    BY <2>4, <2>5, <2>6
  <2>8. loop.events[fd] = [mask |-> mask, client |-> client] /\ \A x \in Fds \ {fd} : loop.events[x] = empty.events[x]
    BY <2>6, <2>7
  <2>9. QED
    BY <2>2, <2>3, <2>4, <2>5, <2>6, <2>8
<1>2. clients = <<>> /\ ToSet(clients) = {} /\ clients \in Seq(Ids) /\ Len(clients) = 0
  BY EmptySeq DEF Init, ToSet
<1>3. conn \in [Ids -> Conns] /\ \A c \in Ids : conn[c] = Gone
  BY GoneConn DEF Init
<1>4. Sound(Now)
  <2>1. Now.el = loop /\ Now.clients = clients /\ Now.conn = conn
    BY DEF Now, Init
  <2>2. Distinct(clients)
    BY <1>2 DEF Distinct
  <2> HIDE DEF loop
  <2>3. QED
    BY <1>1, <1>2, <1>3, <2>1, <2>2 DEF Sound
<1>5. Counted
  <2>1. toCome \in [conns : 0 .. MaxConnections, jobs : Nat, signals : Nat, wakeups : Nat]
    BY ServerAssumption DEF Init
  <2>2. toCome.conns \in Nat /\ toCome.conns <= MaxConnections
    BY <2>1, Sizes
  <2>3. QED
    BY <1>2, <2>1, <2>2 DEF Counted, Init
<1>6. Batch(fired, Now)
  BY EmptyBatch DEF Init
<1>7. InPhase
  BY DEF InPhase, Init
<1>8. QED
  BY <1>2, <1>4, <1>5, <1>6, <1>7, Sizes DEF Inv

\* Fewer clients have no more numbers.
LEMMA FewerCounted ==
  ASSUME Counted, UNCHANGED <<opened, backlog, toCome>>, ToSet(clients') \subseteq ToSet(clients)
  PROVE  Counted'
BY DEF Counted

\* The parts of the next state.
LEMMA NowNext == Now'.el = el' /\ Now'.clients = clients' /\ Now'.conn = conn'
BY DEF Now

\* What registration depends on stays as it is.
LEMMA StaysInv ==
  ASSUME Inv, UNCHANGED <<el, clients, conn, fired>>, Counted', InPhase' PROVE Inv'
<1>1. Now' = Now
  BY DEF Now
<1>2. Batch(fired, Now)'
  BY <1>1 DEF Inv, Batch, Awaited
<1>3. Sound(Now)'
  BY <1>1 DEF Inv, Sound, Registered
<1>4. QED
  BY <1>2, <1>3 DEF Inv

\* Connections change, but not their descriptors nor their replies, and no event is left.
LEMMA ConnInv ==
  ASSUME Inv, UNCHANGED <<el, clients, fired>>, fired = <<>>, Counted', InPhase',
         conn' \in [Ids -> Conns],
         \A c \in Ids \ ToSet(clients) : conn'[c] = conn[c],
         \A c \in ToSet(clients) : conn'[c].fd = conn[c].fd /\ conn'[c].reply = conn[c].reply
  PROVE  Inv'
<1> DEFINE new == [el |-> Now.el, clients |-> Now.clients, conn |-> conn']
<1>1. Sound(Now)
  BY DEF Inv
<1>2. Sound(new)
  BY <1>1, RefreshSound, NowIs
<1>3. Now' = new
  BY NowIs DEF Now
<1>4. Sound(Now')
  BY <1>2, <1>3
<1>5. Batch(fired', Now')
  BY EmptyBatch
<1>6. Len(clients') <= MaxClients
  BY DEF Inv
<1>7. QED
  BY <1>4, <1>5, <1>6 DEF Inv

\* A handler of the first event of the batch keeps the invariant.
LEMMA HandleInv == ASSUME Inv, Handle PROVE Inv'
<1> DEFINE e == fired[1]
           c == el.events[e.fd].client
           valid == el.events[e.fd].mask \cap e.mask
<1>1. /\ Sound(Now) /\ Batch(fired, Now) /\ Counted /\ fired # <<>> /\ Head(fired) = e
      /\ phase = "handle" /\ UNCHANGED <<backlog, opened, asap, toCome>>
  BY DEF Inv, Handle
<1>2. Valid(el, e) = valid
  BY DEF Valid
<1>3. /\ e \in FiredEvents /\ Len(fired) \in Nat /\ 1 \in 1 .. Len(fired)
  <2>1. fired \in Seq(FiredEvents)
    BY <1>1 DEF Batch
  <2>2. QED
    BY <1>1, <2>1, EmptySeq, LenProperties
<1>4. e.fd \in Fds /\ e.mask \subseteq {"r", "w"}
  BY <1>3 DEF FiredEvents, Masks
<1>5. \/ e.fd = Listener /\ e.mask \subseteq {"r"}
      \/ Awaited(e, Now)
      \/ el.events[e.fd].mask = {}
  BY <1>1, <1>3, NowIs DEF Batch
<1>6. ASSUME valid # {}, e.fd # Listener
      PROVE  /\ c \in ToSet(clients) /\ conn[c].fd = e.fd /\ e.of = c
             /\ \A d \in ToSet(clients) : conn[d].fd # e.fd => d # c
  <2>1. Awaited(e, Now)
    BY <1>5, <1>6
  <2>2. e.of \in ToSet(clients) /\ conn[e.of].fd = e.fd
    BY <2>1, NowIs DEF Awaited
  <2>3. el.events[conn[e.of].fd] = Registered(conn[e.of], e.of)
    BY <1>1, <2>2, NowIs DEF Sound
  <2>4. c = e.of
    BY <2>2, <2>3 DEF Registered
  <2>5. QED
    BY <2>2, <2>4
<1>7. CASE valid = {} /\ fired' = Tail(fired) /\ UNCHANGED <<el, phase, left, clients, conn>>
  <2>1. Now' = Now
    BY <1>7 DEF Now
  <2>2. Batch(Tail(fired), Now)
    BY <1>1, TailBatch
  <2>3. Batch(fired', Now')
    BY <1>7, <2>1, <2>2
  <2>4. Sound(Now') /\ Len(clients') <= MaxClients
    BY <1>1, <1>7, <2>1 DEF Inv
  <2>5. Counted'
    BY <1>1, <1>7, FewerCounted
  <2>6. InPhase'
    BY <1>1, <1>7 DEF InPhase
  <2>7. QED
    BY <2>3, <2>4, <2>5, <2>6 DEF Inv
<1>8. ASSUME valid # {}, e.fd # Listener, Handled(Now, c, Now')
      PROVE  /\ Sound(Now') /\ Len(clients') <= MaxClients /\ Counted'
             /\ Batch(Tail(fired), Now')
             /\ Batch([fired EXCEPT ![1].mask = @ \ {"r"}], Now')
  <2>1. Len(clients') \in Nat /\ Len(clients) \in Nat /\ MaxClients \in Nat
    <3>1. Len(clients') \in Nat
      BY <1>8, Basics, NowNext DEF Handled
    <3>2. QED
      BY <1>1, <3>1, Basics, NowIs, Sizes
  <2>2. Sound(Now') /\ Len(clients') <= MaxClients
    <3>1. Sound(Now') /\ Len(clients') <= Len(clients)
      BY <1>8, NowIs, NowNext DEF Handled
    <3>2. Len(clients) <= MaxClients
      BY DEF Inv
    <3>3. QED
      BY <2>1, <3>1, <3>2
  <2>3. ToSet(clients') \subseteq ToSet(clients)
    BY <1>8, NowIs, NowNext DEF Handled
  <2>4. Counted'
    BY <1>1, <2>3, FewerCounted
  <2>5. \A d \in ToSet(Now.clients) :
          Now.conn[d].fd # e.fd => d \in ToSet(Now'.clients) /\ Now'.conn[d] = Now.conn[d]
    BY <1>6, <1>8, NowIs DEF Handled
  <2>6. Batch(Tail(fired), Now')
    BY <1>1, <2>5, TailBatch
  <2>7. \/ e.of \in ToSet(Now'.clients) /\ Now'.conn[e.of].fd = e.fd
        \/ Now'.el.events[e.fd].mask = {}
    BY <1>6, <1>8, NowIs DEF Handled
  <2>8. Batch([fired EXCEPT ![1].mask = @ \ {"r"}], Now')
    BY <1>1, <2>5, <2>7, HeadBatch
  <2>9. QED
    BY <2>2, <2>4, <2>6, <2>8
<1>9. CASE "r" \in valid /\ fired' = [fired EXCEPT ![1].mask = @ \ {"r"}] /\ e.fd # Listener /\ readQueryFromClient(c)
  <2>1. Handled(Now, c, Now')
    BY <1>1, <1>6, <1>9, ReadHandled
  <2>2. Sound(Now') /\ Len(clients') <= MaxClients /\ Counted' /\ Batch(fired', Now')
    BY <1>8, <1>9, <2>1
  <2>3. phase' \in {"handle", "exited"}
    BY <1>1, <1>9 DEF readQueryFromClient
  <2>4. InPhase'
    BY <2>3 DEF InPhase
  <2>5. QED
    BY <2>2, <2>4 DEF Inv
<1>10. CASE "r" \in valid /\ fired' = [fired EXCEPT ![1].mask = @ \ {"r"}] /\ e.fd = Listener /\ acceptTcpHandler
  <2>1. Now' = Now /\ UNCHANGED clients
    BY <1>10 DEF Now, acceptTcpHandler
  <2>2. e.mask \subseteq {"r"}
    <3>1. Listener \notin {conn[d].fd : d \in ToSet(clients)}
      BY <1>1, Basics, NowIs
    <3>2. ~ Awaited(e, Now)
      BY <1>10, <3>1, NowIs DEF Awaited
    <3>3. QED
      BY <1>5, <1>10, <3>2
  <2>3. Batch([fired EXCEPT ![1].mask = @ \ {"r"}], Now)
    BY <1>1, <1>10, <2>2, HeadBatch
  <2>4. Batch(fired', Now')
    BY <1>10, <2>1, <2>3
  <2>5. Sound(Now') /\ Len(clients') <= MaxClients
    BY <1>1, <2>1 DEF Inv
  <2>6. Counted'
    BY <1>1, <2>1, FewerCounted
  <2>7. fired' # <<>> /\ fired'[1].fd = Listener
    <3>1. fired \in [1 .. Len(fired) -> FiredEvents]
      BY <1>1, LenProperties DEF Batch
    <3>2. fired'[1] = [e EXCEPT !.mask = @ \ {"r"}] /\ 1 \in DOMAIN fired'
      BY <1>3, <1>10, <3>1
    <3>3. fired'[1].fd = Listener
      BY <1>3, <1>10, <3>2 DEF FiredEvents
    <3>4. DOMAIN <<>> = {}
      OBVIOUS
    <3>5. QED
      BY <3>2, <3>3, <3>4
  <2>8. InPhase'
    BY <1>10, <2>7 DEF InPhase, acceptTcpHandler
  <2>9. QED
    BY <2>4, <2>5, <2>6, <2>8 DEF Inv
<1>11. CASE valid = {"w"} /\ fired' = Tail(fired) /\ sendReplyToClient(c)
  <2>1. e.fd # Listener
    <3>1. el.events[Listener].mask = {"r"}
      BY <1>1, NowIs DEF Sound
    <3>2. QED
      BY <1>11, <3>1
  <2>2. Handled(Now, c, Now')
    BY <1>1, <1>6, <1>11, <2>1, SendHandled
  <2>3. Sound(Now') /\ Len(clients') <= MaxClients /\ Counted' /\ Batch(fired', Now')
    BY <1>8, <1>11, <2>1, <2>2
  <2>4. InPhase'
    BY <1>1, <1>11 DEF InPhase, sendReplyToClient
  <2>5. QED
    BY <2>3, <2>4 DEF Inv
<1>12. \/ valid = {} /\ fired' = Tail(fired) /\ UNCHANGED <<el, phase, left, clients, conn>>
       \/ "r" \in valid /\ fired' = [fired EXCEPT ![1].mask = @ \ {"r"}] /\ e.fd # Listener /\ readQueryFromClient(c)
       \/ "r" \in valid /\ fired' = [fired EXCEPT ![1].mask = @ \ {"r"}] /\ e.fd = Listener /\ acceptTcpHandler
       \/ valid = {"w"} /\ fired' = Tail(fired) /\ sendReplyToClient(c)
  <2> HIDE DEF e, c, valid
  <2>1. Head(fired) = e /\ Valid(el, e) = valid /\ el.events[e.fd].client = c
    BY <1>1, <1>2 DEF c
  <2>2. QED
    BY <2>1 DEF Handle
<1>13. QED
  BY <1>7, <1>9, <1>10, <1>11, <1>12

\* A connection that is accepted.
LEMMA AcceptInv == ASSUME Inv, Accept PROVE Inv'
<1> DEFINE c == opened + 1
           new == acceptCommonHandler(Now, c)
<1>1. /\ Sound(Now) /\ Len(clients) <= MaxClients /\ Counted /\ Batch(fired, Now)
      /\ fired # <<>> /\ fired[1].fd = Listener
  BY DEF Inv, InPhase, Accept
<1>2. /\ backlog > 0 /\ opened' = c /\ backlog' = backlog - 1 /\ UNCHANGED <<phase, fired, toCome>>
      /\ el' = new.el /\ clients' = new.clients /\ conn' = new.conn
  BY DEF Accept, Become
<1>3. /\ opened \in Nat /\ backlog \in Nat /\ toCome.conns \in Nat
      /\ opened + backlog + toCome.conns <= MaxConnections
      /\ \A d \in ToSet(clients) : d <= opened
  BY <1>1 DEF Counted
<1>4. c \in Ids \ ToSet(clients) /\ c \in Nat
  BY <1>2, <1>3, Sizes DEF Ids
<1> HIDE DEF c
<1>5. /\ Sound(new) /\ Len(new.clients) <= MaxClients
      /\ ToSet(clients) \subseteq ToSet(new.clients)
      /\ ToSet(new.clients) \subseteq ToSet(clients) \cup {c}
      /\ \A d \in ToSet(clients) : new.conn[d] = conn[d]
  <2>1. Len(Now.clients) <= MaxClients /\ c \in Ids \ ToSet(Now.clients)
    BY <1>1, <1>4, NowIs
  <2>2. /\ Sound(new) /\ Len(new.clients) <= MaxClients
        /\ ToSet(Now.clients) \subseteq ToSet(new.clients)
        /\ ToSet(new.clients) \subseteq ToSet(Now.clients) \cup {c}
        /\ \A d \in ToSet(Now.clients) : new.conn[d] = Now.conn[d]
    BY <1>1, <2>1, AcceptSound
  <2> HIDE DEF new
  <2>3. QED
    BY <2>2, NowIs
<1> HIDE DEF new
<1>6. Sound(Now')
  BY <1>2, <1>5, NowNext DEF Sound
<1>7. Batch(fired', Now')
  <2>1. \A d \in ToSet(Now.clients) : d \in ToSet(Now'.clients) /\ Now'.conn[d] = Now.conn[d]
    BY <1>2, <1>5, NowIs, NowNext
  <2>2. QED
    BY <1>1, <1>2, <2>1, SameBatch
<1>8. Counted'
  <2>1. opened' \in Nat /\ backlog' \in Nat /\ opened' + backlog' + toCome'.conns <= MaxConnections
    BY <1>2, <1>3, Sizes DEF c
  <2>2. \A d \in ToSet(clients') : d <= opened'
    <3>1. ToSet(clients) \subseteq Nat
      BY <1>1, Basics, NowIs, Sizes
    <3>2. QED
      BY <1>2, <1>3, <1>4, <1>5, <3>1 DEF c
  <2>3. QED
    BY <1>1, <1>2, <2>1, <2>2 DEF Counted
<1>9. InPhase'
  BY <1>1, <1>2 DEF InPhase, Accept
<1>10. QED
  BY <1>2, <1>5, <1>6, <1>7, <1>8, <1>9 DEF Inv

\* A round of clientsCron.
LEMMA CronInv == ASSUME Inv, clientsCron PROVE Inv'
<1> DEFINE c == Last(clients)
           new == clientsCronHandleTimeout([Now EXCEPT !.clients = listRotate(@)], c)
<1>1. Sound(Now) /\ Len(clients) <= MaxClients /\ Counted /\ fired = <<>> /\ clients # <<>>
  BY DEF Inv, InPhase, clientsCron
<1>2. /\ UNCHANGED <<phase, fired, opened, backlog, toCome>>
      /\ el' = new.el /\ clients' = new.clients /\ conn' = new.conn
  BY DEF clientsCron, Become
<1>3. Handled(Now, c, new)
  BY <1>1, CronHandled
<1> HIDE DEF new, c
<1>4. Sound(new) /\ Len(new.clients) <= Len(clients) /\ ToSet(new.clients) \subseteq ToSet(clients)
  BY <1>3, NowIs DEF Handled
<1>5. Sound(Now')
  BY <1>2, <1>4, NowNext DEF Sound
<1>6. Len(clients') <= MaxClients
  <2>1. Len(new.clients) \in Nat /\ Len(clients) \in Nat /\ MaxClients \in Nat
    BY <1>1, <1>4, Basics, NowIs, Sizes
  <2>2. QED
    BY <1>1, <1>2, <1>4, <2>1
<1>7. Counted'
  BY <1>1, <1>2, <1>4, FewerCounted
<1>8. Batch(fired', Now')
  BY <1>1, <1>2, EmptyBatch
<1>9. InPhase'
  BY <1>1, <1>2 DEF InPhase, clientsCron
<1>10. QED
  BY <1>5, <1>6, <1>7, <1>8, <1>9 DEF Inv

\* The timer goes off.
LEMMA TimerInv == ASSUME Inv, NEW tick \in 0 .. 1, serverCron(tick) PROVE Inv'
<1>1. /\ UNCHANGED <<el, clients, fired, opened, backlog, toCome>> /\ fired = <<>>
      /\ Counted /\ Sound(Now)
  BY DEF Inv, serverCron
<1>2. Counted'
  BY <1>1, FewerCounted
<1>3. InPhase'
  BY <1>1 DEF InPhase, serverCron
<1>4. CASE UNCHANGED conn
  BY <1>1, <1>2, <1>3, <1>4, StaysInv
<1>5. CASE conn' = Aged(tick)
  <2>1. conn \in [Ids -> Conns]
    BY <1>1, NowIs DEF Sound
  <2>2. ASSUME NEW i \in Nat PROVE Min({i + tick, MaxIdle + 1}) \in Nat
    <3>1. {i + tick, MaxIdle + 1} \subseteq Nat /\ {i + tick, MaxIdle + 1} # {}
      BY Sizes
    <3>2. QED
      BY <3>1, MinExists
  <2>3. ASSUME NEW c \in Ids
        PROVE  /\ conn'[c] \in Conns /\ conn'[c].fd = conn[c].fd /\ conn'[c].reply = conn[c].reply
               /\ c \notin ToSet(clients) => conn'[c] = conn[c]
    <3>1. conn[c] \in Conns /\ conn[c].idle \in Nat
      BY <2>1 DEF Conns
    <3>2. Min({conn[c].idle + tick, MaxIdle + 1}) \in Nat
      BY <2>2, <3>1
    <3>3. conn'[c] = IF c \in ToSet(clients)
                       THEN [conn[c] EXCEPT !.idle = Min({conn[c].idle + tick, MaxIdle + 1})] ELSE conn[c]
      BY <1>5 DEF Aged
    <3>4. QED
      BY <3>1, <3>2, <3>3 DEF Conns
  <2>4. conn' \in [Ids -> Conns]
    <3>1. conn' = [c \in Ids |-> conn'[c]]
      BY <1>5 DEF Aged
    <3>2. QED
      BY <2>3, <3>1
  <2>5. \A c \in ToSet(clients) : c \in Ids
    BY <1>1, Basics, NowIs
  <2>6. QED
    BY <1>1, <1>2, <1>3, <2>3, <2>4, <2>5, ConnInv
<1>6. QED
  BY <1>4, <1>5 DEF serverCron

\* Data arrives, or a peer closes.
LEMMA PeerInv == ASSUME Inv, NEW c \in Ids, NEW what \in {"data", "closed"}, Peer(c, what) PROVE Inv'
<1>1. /\ UNCHANGED <<el, phase, clients, fired, opened, backlog, toCome>> /\ fired = <<>>
      /\ Counted /\ InPhase /\ Sound(Now)
      /\ conn' = [conn EXCEPT ![c].sock = @ \cup {what}]
  BY DEF Inv, InPhase, Peer
<1>2. Counted' /\ InPhase'
  <2>1. Counted'
    BY <1>1, FewerCounted
  <2>2. QED
    BY <1>1, <2>1 DEF InPhase
<1>3. conn \in [Ids -> Conns]
  BY <1>1, NowIs DEF Sound
<1> DEFINE k == [conn[c] EXCEPT !.sock = @ \cup {what}]
<1>4. k \in Conns /\ k.fd = conn[c].fd /\ k.reply = conn[c].reply
  BY <1>3 DEF Conns
<1>5. conn' = [conn EXCEPT ![c] = k]
  BY <1>1
<1> HIDE DEF k
<1>6. conn' \in [Ids -> Conns] /\ \A d \in Ids : conn'[d] = IF d = c THEN k ELSE conn[d]
  BY <1>3, <1>4, <1>5
<1>7. c \in ToSet(clients) /\ ToSet(clients) \subseteq Ids
  BY <1>1, Basics, NowIs DEF Peer
<1>8. QED
  BY <1>1, <1>2, <1>4, <1>6, <1>7, ConnInv

\* The other steps leave alone what registration depends on.
LEMMA OtherInv ==
  ASSUME Inv,
         \/ CreateJob \/ ContinueJob \/ AcceptEnd \/ NotDue \/ CronEnd \/ Connect \/ sigtermHandler
         \/ \E t \in Types : JobThread(t) \/ Wakeup(t)
  PROVE  Inv'
<1>1. UNCHANGED <<el, clients, conn, fired, opened>> /\ Counted
  BY DEF Inv, CreateJob, ContinueJob, loopVars, AcceptEnd, NotDue, CronEnd, Connect, sigtermHandler, JobThread, Wakeup
<1>2. Counted'
  <2> DEFINE T == [conns : Nat, jobs : Nat, signals : Nat, wakeups : Nat]
  <2>1. CASE Connect
    <3>1. toCome' = [toCome EXCEPT !.conns = @ - 1] /\ toCome.conns > 0 /\ backlog' = backlog + 1
      BY <2>1 DEF Connect
    <3>2. /\ toCome \in T /\ backlog \in Nat /\ opened \in Nat
          /\ opened + backlog + toCome.conns <= MaxConnections
      BY <1>1 DEF Counted
    <3>3. toCome' \in T /\ toCome'.conns = toCome.conns - 1
      BY <3>1, <3>2
    <3>4. backlog' \in Nat /\ opened + backlog' + toCome'.conns <= MaxConnections
      BY <3>1, <3>2, <3>3, Sizes
    <3>5. QED
      BY <1>1, <3>3, <3>4 DEF Counted
  <2>2. CASE CreateJob \/ sigtermHandler \/ \E t \in Types : Wakeup(t)
    <3>1. /\ UNCHANGED backlog
          /\ \/ toCome' = [toCome EXCEPT !.jobs = @ - 1] /\ toCome.jobs > 0
             \/ toCome' = [toCome EXCEPT !.signals = @ - 1] /\ toCome.signals > 0
             \/ toCome' = [toCome EXCEPT !.wakeups = @ - 1] /\ toCome.wakeups > 0
      BY <2>2 DEF CreateJob, sigtermHandler, Wakeup
    <3>2. toCome \in T
      BY <1>1 DEF Counted
    <3>3. toCome' \in T /\ toCome'.conns = toCome.conns
      BY <3>1, <3>2
    <3>4. QED
      BY <1>1, <3>1, <3>3 DEF Counted
  <2>3. CASE UNCHANGED <<toCome, backlog>>
    BY <1>1, <2>3, FewerCounted
  <2>4. QED
    BY <2>1, <2>2, <2>3 DEF ContinueJob, loopVars, AcceptEnd, NotDue, CronEnd, JobThread
<1>3. InPhase'
  <2>1. InPhase
    BY DEF Inv
  <2>2. CASE UNCHANGED phase
    BY <1>1, <2>1, <2>2 DEF InPhase
  <2>3. CASE AcceptEnd
    BY <1>1, <2>3 DEF InPhase, AcceptEnd
  <2>4. CASE NotDue \/ CronEnd
    BY <1>1, <2>1, <2>4 DEF InPhase, NotDue, CronEnd
  <2>5. QED
    BY <2>2, <2>3, <2>4 DEF CreateJob, ContinueJob, loopVars, Connect, sigtermHandler, JobThread, Wakeup
<1>4. QED
  BY <1>1, <1>2, <1>3, StaysInv

\* The wait of the loop ends.
LEMMA PollInv == ASSUME Inv, Poll PROVE Inv'
<1>1. /\ UNCHANGED <<el, clients, conn, opened, backlog, toCome>> /\ phase' = "handle"
      /\ Sound(Now) /\ Counted /\ Len(clients) <= MaxClients
  BY DEF Inv, Poll
<1>2. Batch(fired', Now)
  <2>1. PICK writable : fired' \in SetToSeqs(Ready(writable)) \/ fired' = <<>>
    BY DEF Poll
  <2>2. QED
    BY <1>1, <2>1, PollBatch, EmptyBatch
<1>3. Now' = Now
  BY <1>1 DEF Now
<1>4. Counted'
  BY <1>1, FewerCounted
<1>5. InPhase'
  BY <1>1 DEF InPhase
<1>6. Sound(Now') /\ Batch(fired', Now') /\ Len(clients') <= MaxClients
  BY <1>1, <1>2, <1>3
<1>7. QED
  BY <1>4, <1>5, <1>6 DEF Inv

\* Every step keeps the invariant.
LEMMA NextInv == Inv /\ [Next]_vars => Inv'
<1> SUFFICES ASSUME Inv, [Next]_vars PROVE Inv'
  OBVIOUS
<1>1. CASE UNCHANGED vars
  <2>1. UNCHANGED <<el, clients, conn, fired, phase, opened, backlog, toCome>> /\ Counted /\ InPhase
    BY <1>1 DEF Inv, vars, loopVars
  <2>2. Counted' /\ InPhase'
    BY <2>1 DEF Counted, InPhase
  <2>3. QED
    BY <2>1, <2>2, StaysInv
<1>2. CASE Handle
  BY <1>2, HandleInv
<1>3. CASE Accept
  BY <1>3, AcceptInv
<1>4. CASE \E tick \in 0 .. 1 : serverCron(tick)
  BY <1>4, TimerInv
<1>5. CASE clientsCron
  BY <1>5, CronInv
<1>6. CASE \E c \in Ids : Peer(c, "data") \/ Peer(c, "closed")
  BY <1>6, PeerInv
<1>7. CASE Poll
  BY <1>7, PollInv
<1>8. CASE \/ CreateJob \/ ContinueJob \/ AcceptEnd \/ NotDue \/ CronEnd \/ Connect \/ sigtermHandler
           \/ \E t \in Types : JobThread(t) \/ Wakeup(t)
  BY <1>8, OtherInv
<1>9. QED
  BY <1>1, <1>2, <1>3, <1>4, <1>5, <1>6, <1>7, <1>8 DEF Next, MainThread, Environment

\* The invariant holds of every state.
LEMMA InvHolds == Spec => []Inv
BY InitInv, NextInv, PTL DEF Spec

\* It implies that registration is exact.
LEMMA InvRegistration == Inv => RegistrationExact
<1> SUFFICES ASSUME Inv PROVE RegistrationExact
  OBVIOUS
<1>1. Sound(Now) /\ Len(clients) <= MaxClients
  BY DEF Inv
<1>2. /\ ToSet(clients) \subseteq Ids /\ \A c \in ToSet(clients) : conn[c].fd \in Fds \ {Listener}
      /\ clients \in Seq(Ids) /\ Distinct(clients) /\ LoopExact(el)
      /\ \A c \in Ids \ ToSet(clients) : conn[c] = Gone
      /\ \A c \in ToSet(clients) : el.events[conn[c].fd] = Registered(conn[c], c)
      /\ el.events[Listener] = [mask |-> {"r"}, client |-> None]
      /\ \A fd \in Fds \ {Listener} :
           el.events[fd].mask # {} => \E c \in ToSet(clients) : conn[c].fd = fd
  BY <1>1, Basics, NowIs DEF Sound
<1>3. Len(clients) = Cardinality(ToSet(clients))
  BY <1>2, ListSize
<1>4. ToSet(clients) = {c \in Ids : conn[c] # Gone}
  <2>1. \A c \in ToSet(clients) : conn[c].fd # -1
    BY <1>2 DEF Fds
  <2>2. \A c \in ToSet(clients) : conn[c] # Gone
    BY <2>1, GoneConn
  <2>3. QED
    BY <1>2, <2>2
<1>5. \A c \in ToSet(clients) :
        el.events[conn[c].fd] =
          [mask |-> {"r"} \cup (IF conn[c].reply = "none" THEN {} ELSE {"w"}), client |-> c]
  BY <1>2 DEF Registered
<1>6. DOMAIN el.events = Fds
  BY <1>2 DEF LoopExact, Loops
<1>7. InUse(el.events) = {Listener} \cup {conn[c].fd : c \in ToSet(clients)}
  <2>1. \A c \in ToSet(clients) : el.events[conn[c].fd].mask # {}
    <3>1. \A c \in ToSet(clients) : Registered(conn[c], c).mask # {}
      BY DEF Registered
    <3>2. QED
      BY <1>2, <3>1
  <2>2. el.events[Listener].mask # {}
    BY <1>2
  <2>3. QED
    BY <1>2, <1>6, <2>1, <2>2, Sizes DEF InUse
<1>8. \A fd \in Fds : el.epoll[fd] = el.events[fd].mask
  BY <1>2 DEF LoopExact
<1>9. el.maxfd = Max(InUse(el.events))
  <2> DEFINE S == InUse(el.events)
  <2>1. /\ S \subseteq -1 .. SetSize /\ S # {} /\ SetSize \in Nat /\ Listener \in S
    BY <1>6, <1>7, Sizes DEF InUse, Fds
  <2>2. /\ el.maxfd = -1 \/ el.maxfd \in S
        /\ \A fd \in S : fd <= el.maxfd
    BY <1>2 DEF LoopExact
  <2> HIDE DEF S
  <2>3. el.maxfd \in S
    BY <2>1, <2>2 DEF Listener
  <2>4. Max(S) \in S /\ \A x \in S : Max(S) >= x
    BY <2>1, MaxExists
  <2>5. el.maxfd <= Max(S) /\ Max(S) <= el.maxfd /\ el.maxfd \in Int /\ Max(S) \in Int
    <3>1. \A fd \in S : fd \in Int
      BY <2>1
    <3>2. el.maxfd \in Int /\ Max(S) \in Int
      BY <2>3, <2>4, <3>1
    <3>3. Max(S) >= el.maxfd /\ Max(S) <= el.maxfd
      BY <2>2, <2>3, <2>4
    <3>4. QED
      BY <3>2, <3>3
  <2>6. QED
    BY <2>5 DEF S
<1>10. QED
  BY <1>1, <1>3, <1>4, <1>5, <1>7, <1>8, <1>9 DEF RegistrationExact

\* Handlers, timer and batches keep event loop, list and connections in agreement.
THEOREM RegistrationKept == Spec => []RegistrationExact
BY InvHolds, InvRegistration, PTL

\* It implies that handlers are called for the right client.
LEMMA InvBatch == Inv => BatchCurrent
<1> SUFFICES ASSUME Inv, NEW i \in DOMAIN fired, Valid(el, fired[i]) # {}, fired[i].fd # Listener
             PROVE  /\ el.events[fired[i].fd].client = fired[i].of /\ fired[i].of \in ToSet(clients)
                    /\ "r" \in Valid(el, fired[i]) => conn[fired[i].of].sock # {}
                    /\ "w" \in Valid(el, fired[i]) => conn[fired[i].of].reply # "none"
  BY DEF BatchCurrent
<1> DEFINE e == fired[i]
<1>1. Sound(Now) /\ Batch(fired, Now) /\ i \in 1 .. Len(fired)
  BY LenProperties DEF Inv, Batch
<1>2. el.events[e.fd].mask # {}
  BY DEF Valid
<1>3. Awaited(e, Now)
  BY <1>1, <1>2, NowIs DEF Batch
<1>4. e.of \in ToSet(clients) /\ conn[e.of].fd = e.fd /\ ("r" \in e.mask => conn[e.of].sock # {})
  BY <1>3, NowIs DEF Awaited
<1>5. el.events[e.fd] = Registered(conn[e.of], e.of)
  BY <1>1, <1>4, NowIs DEF Sound
<1>6. QED
  BY <1>4, <1>5 DEF Registered, Valid

\* A handler is called for the client its event was about, which waits for it.
THEOREM BatchKept == Spec => []BatchCurrent
BY InvHolds, InvBatch, PTL
=============================================================================
