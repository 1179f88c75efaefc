--------------------------- MODULE RepliesProofs ---------------------------
(***************************************************************************)
(* Proofs about Replies, for any objects, values and sizes: the reference  *)
(* counts are exact, reply_bytes is what the list takes, the write handler *)
(* is installed exactly while something waits to be sent, and the client   *)
(* is sent what ReplyStream promises.                                      *)
(*                                                                         *)
(* Book(s, own) is the invariant of a heap with a client while a function  *)
(* runs that owns the references that own counts; each function of the     *)
(* module has a lemma that says how it leaves the book.  RInv says it of   *)
(* the variables, where the key and the table of shared objects own.       *)
(*                                                                         *)
(* Says(s, r, v) is what the stream needs of a function: all the bytes of  *)
(* the replies in r are those in s with v behind them, whatever the node   *)
(* that waits for its length will hold.  Text(s) is what of them has not   *)
(* been sent.                                                              *)
(***************************************************************************)
EXTENDS Replies, FiniteSetTheorems, SequenceTheorems, WellFoundedInduction, TLAPS

-----------------------------------------------------------------------------
(* Sequences.                                                              *)

\* A set of natural numbers that is not empty has a least element.
LEMMA Least ==
  ASSUME NEW S, S \subseteq Nat, S # {}
  PROVE  \E b \in S : \A x \in S : b <= x
<1> DEFINE Less == {pair \in Nat \X Nat : pair[1] < pair[2]}
<1>1. IsWellFoundedOn(Less, Nat)
  BY NatLessThanWellFounded DEF OpToRel
<1>2. \A x, y \in Nat : x < y => <<x, y>> \in Less
  OBVIOUS
<1> HIDE DEF Less
<1>3. \E b \in S : \A y \in S : <<y, b>> \notin Less
  BY <1>1, WFMin
<1>4. PICK b \in S : \A y \in S : ~ (y < b)
  BY <1>2, <1>3
<1>5. \A x \in S : b <= x
  BY <1>4
<1>6. QED
  BY <1>5

\* m is list without its i-th element.
Cut(list, i, m) ==
  /\ m \in Seq(Objects)
  /\ i \in 1 .. Len(list)
  /\ Len(list) = Len(m) + 1
  /\ \A j \in 1 .. Len(m) : m[j] = IF j < i THEN list[j] ELSE list[j + 1]

\* What is left of a list without its first, its last, or any other node.
LEMMA Cuts ==
  ASSUME NEW list \in Seq(Objects), list # <<>>
  PROVE  /\ Cut(list, 1, Tail(list))
         /\ Cut(list, Len(list), Front(list))
         /\ Append(Front(list), Last(list)) = list
         /\ Last(list) \in Objects
         /\ \A i \in 1 .. Len(list) : Cut(list, i, RemoveAt(list, i))
<1>1. Cut(list, 1, Tail(list))
  BY DEF Cut
<1>2. Cut(list, Len(list), Front(list))
  <2> DEFINE m == SubSeq(list, 1, Len(list) - 1)
  <2>1. m \in Seq(Objects) /\ Len(m) = Len(list) - 1 /\ Len(list) \in Nat /\ Len(list) # 0
    OBVIOUS
  <2>2. \A j \in 1 .. Len(m) : m[j] = list[j]
    BY <2>1
  <2> HIDE DEF m
  <2>3. Cut(list, Len(list), m)
    BY <2>1, <2>2 DEF Cut
  <2>4. QED
    BY <2>3 DEF Front, m
<1>3. Append(Front(list), Last(list)) = list /\ Last(list) \in Objects
  BY DEF Front, Last
<1>4. ASSUME NEW i \in 1 .. Len(list) PROVE Cut(list, i, RemoveAt(list, i))
  <2> DEFINE a == SubSeq(list, 1, i - 1)
             b == SubSeq(list, i + 1, Len(list))
             m == a \o b
  <2>1. /\ Len(list) \in Nat /\ i \in Int /\ 1 <= i /\ i <= Len(list)
        /\ a \in Seq(Objects) /\ Len(a) = i - 1
        /\ b \in Seq(Objects) /\ Len(b) = Len(list) - i
    OBVIOUS
  <2>2. /\ \A j \in 1 .. i - 1 : a[j] = list[j]
        /\ \A j \in 1 .. Len(list) - i : b[j] = list[i + j]
    BY <2>1
  <2> HIDE DEF a, b
  <2>3. /\ m \in Seq(Objects) /\ Len(m) = Len(list) - 1
        /\ \A j \in 1 .. Len(m) : m[j] = IF j < i THEN a[j] ELSE b[j - (i - 1)]
    BY <2>1, SMTT(40)
  <2> HIDE DEF m
  <2>4. \A j \in 1 .. Len(m) : m[j] = IF j < i THEN list[j] ELSE list[j + 1]
    BY <2>1, <2>2, <2>3
  <2>5. Cut(list, i, m)
    BY <2>1, <2>3, <2>4 DEF Cut
  <2>6. QED
    BY <2>5 DEF RemoveAt, m, a, b
<1>5. QED
  BY <1>1, <1>2, <1>3, <1>4

\* How many nodes refer to an object is a number.
LEMMA RefsInType ==
  ASSUME NEW list \in Seq(Objects), NEW o
  PROVE  /\ IsFiniteSet({i \in DOMAIN list : list[i] = o})
         /\ RefsIn(list, o) \in Nat
         /\ RefsIn(list, o) = 0 <=> \A i \in 1 .. Len(list) : list[i] # o
         /\ RefsIn(list, o) = 1 =>
              \A i, j \in 1 .. Len(list) : list[i] = o /\ list[j] = o => i = j
<1> DEFINE S == {i \in DOMAIN list : list[i] = o}
<1>1. IsFiniteSet(1 .. Len(list))
  BY FS_Interval
<1>2. IsFiniteSet(S)
  BY <1>1, FS_Subset
<1>3. RefsIn(list, o) = Cardinality(S)
  BY DEF RefsIn
<1>4. Cardinality(S) \in Nat /\ (Cardinality(S) = 0 <=> S = {})
  BY <1>2, FS_CardinalityType, FS_EmptySet
<1>5. Cardinality(S) = 1 => \E x : S = {x}
  BY <1>2, FS_Singleton
<1>6. QED
  BY <1>2, <1>3, <1>4, <1>5

\* Objects in memory: one node more ...
LEMMA RefsInAppend ==
  ASSUME NEW list \in Seq(Objects), NEW x \in Objects, NEW o
  PROVE  RefsIn(Append(list, x), o) = RefsIn(list, o) + (IF x = o THEN 1 ELSE 0)
<1> DEFINE S == {i \in DOMAIN list : list[i] = o}
           T == {i \in DOMAIN Append(list, x) : Append(list, x)[i] = o}
<1>1. IsFiniteSet(S)
  BY RefsInType
<1>2. T = IF x = o THEN S \cup {Len(list) + 1} ELSE S
  OBVIOUS
<1>3. ~ (Len(list) + 1 \in S)
  OBVIOUS
<1>4. RefsIn(list, o) = Cardinality(S) /\ RefsIn(Append(list, x), o) = Cardinality(T)
  BY DEF RefsIn
<1>5. Cardinality(S) \in Nat
  BY <1>1, FS_CardinalityType
<1> HIDE DEF S, T
<1>6. Cardinality(S \cup {Len(list) + 1}) = Cardinality(S) + 1
  BY <1>1, <1>3, FS_AddElement
<1>7. QED
  BY <1>2, <1>4, <1>5, <1>6

\* ... and one less.
LEMMA RefsInCut ==
  ASSUME NEW list \in Seq(Objects), NEW i, NEW m, Cut(list, i, m), NEW o
  PROVE  RefsIn(list, o) = RefsIn(m, o) + (IF list[i] = o THEN 1 ELSE 0)
<1> DEFINE S == {j \in DOMAIN list : list[j] = o}
           T == {j \in DOMAIN m : m[j] = o}
           up == [j \in T |-> IF j < i THEN j ELSE j + 1]
<1>0. /\ m \in Seq(Objects) /\ i \in 1 .. Len(list) /\ Len(list) = Len(m) + 1
      /\ \A j \in 1 .. Len(m) : m[j] = IF j < i THEN list[j] ELSE list[j + 1]
  BY DEF Cut
<1>1. IsFiniteSet(S) /\ IsFiniteSet(T)
  <2>1. \A l \in Seq(Objects) : IsFiniteSet({j \in DOMAIN l : l[j] = o})
    BY RefsInType, ZenonT(60)
  <2>2. QED
    BY <1>0, <2>1
<1>2. up \in Bijection(T, S \ {i})
  <2>1. \A j \in T : up[j] \in S \ {i}
    BY <1>0
  <2>2. \A j, k \in T : up[j] = up[k] => j = k
    BY <1>0
  <2>3. ASSUME NEW k \in S \ {i} PROVE \E j \in T : up[j] = k
    <3>1. CASE k < i
      <4>1. k \in T /\ up[k] = k
        BY <3>1, <1>0
      <4>2. QED
        BY <4>1
    <3>2. CASE k > i
      <4>1. k - 1 \in 1 .. Len(m) /\ ~ (k - 1 < i) /\ (k - 1) + 1 = k /\ list[k] = o
        <5>1. k \in 1 .. Len(list) /\ list[k] = o
          BY <1>0
        <5>2. Len(m) \in Nat /\ Len(list) = Len(m) + 1 /\ i \in 1 .. Len(list)
          BY <1>0
        <5>3. QED
          BY <3>2, <5>1, <5>2
      <4>2. m[k - 1] = list[k]
        BY <1>0, <4>1
      <4>3. k - 1 \in T /\ up[k - 1] = k
        BY <1>0, <4>1, <4>2
      <4>4. QED
        BY <4>3
    <3>3. k < i \/ k > i
      <4>1. k \in Nat /\ i \in Nat /\ k # i
        BY <1>0
      <4> HIDE DEF S, T
      <4>2. QED
        BY <4>1
    <3>4. QED
      BY <3>1, <3>2, <3>3
  <2> HIDE DEF S, T, up
  <2>4. up \in [T -> S \ {i}]
    BY <2>1 DEF up
  <2>5. QED
    BY <2>2, <2>3, <2>4 DEF Bijection, Injection, Surjection, IsInjective
<1>3. RefsIn(list, o) = Cardinality(S) /\ RefsIn(m, o) = Cardinality(T)
  BY DEF RefsIn
<1>4. i \in S <=> list[i] = o
  BY <1>0
<1> HIDE DEF S, T, up
<1>5. Cardinality(S \ {i}) = Cardinality(T)
  BY <1>1, <1>2, FS_Bijection DEF ExistsBijection
<1>6. Cardinality(S \ {i}) = IF i \in S THEN Cardinality(S) - 1 ELSE Cardinality(S)
  BY <1>1, FS_RemoveElement
<1>7. Cardinality(S) \in Nat /\ Cardinality(T) \in Nat
  BY <1>1, FS_CardinalityType
<1>8. QED
  BY <1>3, <1>4, <1>5, <1>6, <1>7
-----------------------------------------------------------------------------
(* The bytes of a list of sequences, one behind the other.                 *)

\* Sequences of bytes, one behind the other.
LEMMA Chains ==
  /\ \A u, v \in Seq(Int) : u \o v \in Seq(Int) /\ Len(u \o v) = Len(u) + Len(v)
  /\ \A u \in Seq(Int) : u \o <<>> = u /\ <<>> \o u = u
  /\ \A u, v, w \in Seq(Int) : (u \o v) \o w = u \o (v \o w)
<1>1. \A u, v \in Seq(Int) : u \o v \in Seq(Int) /\ Len(u \o v) = Len(u) + Len(v)
  BY ConcatProperties
<1>2. \A u \in Seq(Int) : u \o <<>> = u /\ <<>> \o u = u
  BY ConcatEmptySeq
<1>3. \A u, v, w \in Seq(Int) : (u \o v) \o w = u \o (v \o w)
  BY ConcatAssociative, SMTT(60)
<1>4. QED
  BY <1>1, <1>2, <1>3

\* What is behind the first n bytes.
After(u, n) == SubSeq(u, n + 1, Len(u))

\* ... of two sequences.
LEMMA AfterChain ==
  ASSUME NEW u, u \in Seq(Int), NEW v, v \in Seq(Int), NEW n, n \in Nat, n <= Len(u)
  PROVE  /\ After(u, n) \in Seq(Int)
         /\ After(u \o v, n) = After(u, n) \o v
         /\ \A k \in Nat : n + k <= Len(u) => After(u, n) = SubSeq(u, n + 1, n + k) \o After(u, n + k)
         /\ n = Len(u) => After(u, n) = <<>>
         /\ After(u, 0) = u
<1> DEFINE len == Len(u)
           all == Len(u \o v)
<1>1. len \in Nat /\ Len(v) \in Nat /\ all = len + Len(v) /\ u \o v \in Seq(Int)
  BY Chains
<1>2. After(u, n) \in Seq(Int) /\ Len(After(u, n)) = len - n
      /\ \A i \in 1 .. len - n : After(u, n)[i] = u[n + i]
  BY <1>1 DEF After
<1>3. After(u \o v, n) = After(u, n) \o v
  <2> DEFINE a == After(u \o v, n)
             b == After(u, n) \o v
  <2>1. a \in Seq(Int) /\ Len(a) = all - n /\ \A i \in 1 .. all - n : a[i] = (u \o v)[n + i]
    <3> DEFINE w == u \o v
    <3>1. w \in Seq(Int) /\ Len(w) = all /\ all \in Nat /\ n <= all
      BY <1>1
    <3>2. a = SubSeq(w, n + 1, all)
      BY DEF After
    <3>3. n \in Nat
      OBVIOUS
    <3> HIDE DEF w, a, all
    <3>4. /\ SubSeq(w, n + 1, all) \in Seq(Int)
          /\ Len(SubSeq(w, n + 1, all)) = all - n
          /\ \A i \in 1 .. all - n : SubSeq(w, n + 1, all)[i] = w[n + i]
      BY ONLY <3>1, <3>3
    <3>5. a \in Seq(Int) /\ Len(a) = all - n /\ \A i \in 1 .. all - n : a[i] = w[n + i]
      BY <3>2, <3>4
    <3>6. QED
      BY <3>5 DEF w
  <2>2. b \in Seq(Int) /\ Len(b) = all - n
        /\ \A i \in 1 .. all - n : b[i] = IF i <= len - n THEN After(u, n)[i] ELSE v[i - (len - n)]
    <3> DEFINE w == After(u, n)
    <3>1. w \in Seq(Int) /\ Len(w) = len - n
      BY <1>2
    <3> HIDE DEF w
    <3>2. /\ w \o v \in Seq(Int) /\ Len(w \o v) = Len(w) + Len(v)
          /\ \A i \in 1 .. Len(w) + Len(v) : (w \o v)[i] = IF i <= Len(w) THEN w[i] ELSE v[i - Len(w)]
      BY <3>1, ConcatProperties
    <3>3. (len - n) + Len(v) = all - n
      BY <1>1
    <3>4. QED
      BY <3>1, <3>2, <3>3 DEF w
  <2>3. \A i \in 1 .. all : (u \o v)[i] = IF i <= len THEN u[i] ELSE v[i - len]
    BY <1>1
  <2> HIDE DEF a, b, all, len
  <2>4. ASSUME NEW i \in 1 .. all - n PROVE a[i] = b[i]
    <3>1. n + i \in 1 .. all
      BY <1>1
    <3>2. CASE i <= len - n
      <4>1. n + i <= len /\ i \in 1 .. len - n
        BY <1>1, <3>2
      <4>2. QED
        BY <3>1, <3>2, <4>1, <2>1, <2>2, <2>3, <1>2
    <3>3. CASE ~ (i <= len - n)
      <4>1. ~ (n + i <= len) /\ n + i - len = i - (len - n)
        BY <1>1, <3>3
      <4>2. a[i] = (u \o v)[n + i] /\ b[i] = v[i - (len - n)]
        BY <3>3, <2>1, <2>2
      <4>3. (u \o v)[n + i] = v[n + i - len]
        <5> DEFINE cat == u \o v
        <5>1. \A j \in 1 .. all : ~ (j <= len) => cat[j] = v[j - len]
          BY <2>3
        <5> HIDE DEF cat
        <5>2. cat[n + i] = v[n + i - len]
          BY <1>1, <3>1, <4>1, <5>1
        <5>3. QED
          BY <5>2 DEF cat
      <4>4. QED
        BY <4>1, <4>2, <4>3
    <3>4. QED
      BY <3>2, <3>3
  <2>5. a = b
    BY <2>1, <2>2, <2>4, SeqEqual
  <2>6. QED
    BY <2>5 DEF a, b
<1>4. ASSUME NEW k \in Nat, n + k <= Len(u)
      PROVE  After(u, n) = SubSeq(u, n + 1, n + k) \o After(u, n + k)
  <2>1. n + 1 \in 1 .. Len(u) + 1 /\ n + k \in (n + 1) - 1 .. Len(u) /\ Len(u) \in n + k .. Len(u)
    BY <1>1, <1>4
  <2>2. QED
    BY <2>1, ConcatAdjacentSubSeq DEF After
<1>5. n = Len(u) => After(u, n) = <<>>
  BY <1>2
<1>6. After(u, 0) = u
  <2>1. SubSeq(u, 1, Len(u)) = u
    BY SubSeqFull
  <2>2. QED
    BY <2>1 DEF After
<1>7. QED
  BY <1>2, <1>3, <1>4, <1>5, <1>6

\* f[i] is the bytes of the first i of them.
Lines(f, list, k) ==
  /\ f \in [0 .. k -> Seq(Int)]
  /\ f[0] = <<>>
  /\ \A i \in 1 .. k : f[i] = f[i - 1] \o list[i]

\* There is such a function.
LEMMA LinesRun ==
  ASSUME NEW list, list \in Seq(Seq(Int))
  PROVE  \E f : Lines(f, list, Len(list))
<1> DEFINE len == Len(list)
           Bad == {k \in 0 .. len : ~ \E f : Lines(f, list, k)}
<1>1. len \in Nat /\ \A i \in 1 .. len : list[i] \in Seq(Int)
  OBVIOUS
<1>2. Bad = {}
  <2> SUFFICES ASSUME Bad # {} PROVE FALSE
    OBVIOUS
  <2>1. PICK b \in Bad : \A x \in Bad : b <= x
    <3>1. Bad \subseteq Nat
      BY <1>1
    <3> HIDE DEF Bad
    <3>2. QED
      BY <3>1, Least
  <2>2. b \in Nat /\ b \in 0 .. len /\ ~ \E f : Lines(f, list, b)
    BY <2>1, <1>1
  <2> HIDE DEF len
  <2>3. b # 0
    <3> DEFINE f == [i \in 0 .. 0 |-> <<>>]
    <3>1. f \in [0 .. 0 -> Seq(Int)] /\ f[0] = <<>>
      OBVIOUS
    <3> HIDE DEF f
    <3>2. Lines(f, list, 0)
      BY <3>1 DEF Lines
    <3>3. QED
      BY <3>2, <2>2
  <2>4. b - 1 \in 0 .. len /\ b - 1 \notin Bad /\ b \in 1 .. len
    <3>1. b - 1 \in 0 .. len /\ b \in 1 .. len /\ ~ (b <= b - 1)
      BY <2>2, <2>3, <1>1
    <3> HIDE DEF Bad
    <3>2. QED
      BY <3>1, <2>1
  <2>5. PICK f : Lines(f, list, b - 1)
    BY <2>4
  <2> DEFINE w == f[b - 1] \o list[b]
             g == [i \in 0 .. b |-> IF i = b THEN w ELSE f[i]]
  <2>6. w \in Seq(Int)
    <3>1. f[b - 1] \in Seq(Int) /\ list[b] \in Seq(Int)
      BY <2>2, <2>3, <2>4, <2>5, <1>1 DEF Lines
    <3>2. QED
      BY <3>1, Chains
  <2> HIDE DEF w
  <2>7. g[b] = w /\ \A i \in 0 .. b - 1 : g[i] = f[i]
    BY <2>2
  <2>8. g \in [0 .. b -> Seq(Int)]
    <3>1. \A i \in 0 .. b : i # b => f[i] \in Seq(Int)
      BY <2>2, <2>5 DEF Lines
    <3>2. QED
      BY <3>1, <2>6
  <2> HIDE DEF g
  <2>9. g[0] = <<>>
    BY <2>2, <2>3, <2>5, <2>7 DEF Lines
  <2>10. ASSUME NEW i \in 1 .. b PROVE g[i] = g[i - 1] \o list[i]
    <3>1. i - 1 \in 0 .. b - 1
      BY <2>2
    <3>2. CASE i = b
      BY <3>1, <3>2, <2>7 DEF w
    <3>3. CASE i # b
      <4>1. i \in 1 .. b - 1 /\ i \in 0 .. b - 1
        BY <3>3, <2>2
      <4>2. QED
        BY <3>1, <4>1, <2>5, <2>7 DEF Lines
    <3>4. QED
      BY <3>2, <3>3
  <2>11. Lines(g, list, b)
    BY <2>8, <2>9, <2>10 DEF Lines
  <2>12. QED
    BY <2>2, <2>11
<1>3. QED
  BY <1>1, <1>2, SMTT(60)

\* ... and FlattenSeq computes it.
LEMMA FlattenIs ==
  ASSUME NEW list, list \in Seq(Seq(Int))
  PROVE  /\ FlattenSeq(list) \in Seq(Int)
         /\ \E f : Lines(f, list, Len(list)) /\ f[Len(list)] = FlattenSeq(list)
         /\ \A f : Lines(f, list, Len(list)) => f[Len(list)] = FlattenSeq(list)
<1> DEFINE seqs == list
           len == Len(seqs)
           Step(f) == [i \in 1 .. len |-> IF i = 1 THEN seqs[i] ELSE f[i - 1] \o seqs[i]]
           flatten == CHOOSE f : f = Step(f)
<1>1. len \in Nat /\ Len(list) = len /\ \A i \in 1 .. len : seqs[i] = list[i] /\ seqs[i] \in Seq(Int)
  OBVIOUS
<1>2. FlattenSeq(list) = IF len = 0 THEN seqs ELSE flatten[len]
  BY DEF FlattenSeq
<1>3. len = 0 => seqs = <<>>
  BY <1>1
<1> HIDE DEF seqs
<1>4. PICK f : Lines(f, list, len)
  BY <1>1, LinesRun
<1>5. ASSUME NEW e, Lines(e, list, len)
      PROVE  e[len] = FlattenSeq(list) /\ e[len] \in Seq(Int)
  <2>1. e[0] = <<>> /\ \A i \in 1 .. len : e[i] = e[i - 1] \o seqs[i]
    BY <1>1, <1>5 DEF Lines
  <2>2. \A i \in 0 .. len : e[i] \in Seq(Int)
    BY <1>5 DEF Lines
  <2> DEFINE run == [i \in 1 .. len |-> e[i]]
  <2>3. run = Step(run)
    <3>1. ASSUME NEW i \in 1 .. len PROVE run[i] = Step(run)[i]
      <4>1. CASE i = 1
        <5>1. e[1] = e[1 - 1] \o seqs[1]
          BY <4>1, <2>1, Zenon
        <5>2. 1 - 1 = 0
          OBVIOUS
        <5>3. e[1] = <<>> \o seqs[1]
          BY <5>1, <5>2, <2>1, Zenon
        <5>4. seqs[1] \in Seq(Int)
          BY <4>1, <1>1
        <5>5. e[1] = seqs[1]
          BY <5>3, <5>4, Chains, Zenon
        <5>6. QED
          BY <5>5, <4>1
      <4>2. CASE i # 1
        <5>1. i - 1 \in 1 .. len
          BY <4>2, <1>1
        <5>2. QED
          BY <5>1, <4>2, <2>1
      <4>3. QED
        BY <4>1, <4>2
    <3>2. QED
      BY <3>1
  <2>4. flatten = Step(flatten)
    <3> HIDE DEF Step
    <3>1. QED
      BY <2>3
  <2> HIDE DEF flatten
  <2>5. \A i \in 1 .. len : flatten[i] = IF i = 1 THEN seqs[i] ELSE flatten[i - 1] \o seqs[i]
    <3>1. \A i \in 1 .. len : Step(flatten)[i] = IF i = 1 THEN seqs[i] ELSE flatten[i - 1] \o seqs[i]
      OBVIOUS
    <3> HIDE DEF Step
    <3>2. QED
      BY <2>4, <3>1
  <2>6. \A i \in 1 .. len : run[i] = IF i = 1 THEN seqs[i] ELSE run[i - 1] \o seqs[i]
    <3>1. \A i \in 1 .. len : Step(run)[i] = IF i = 1 THEN seqs[i] ELSE run[i - 1] \o seqs[i]
      OBVIOUS
    <3> HIDE DEF Step, run
    <3>2. QED
      BY <2>3, <3>1
  <2>7. \A i \in 1 .. len : run[i] = e[i]
    OBVIOUS
  <2> HIDE DEF run, Step, len
  <2> DEFINE Wrong == {i \in 1 .. len : flatten[i] # run[i]}
  <2>8. Wrong = {}
    <3> SUFFICES ASSUME Wrong # {} PROVE FALSE
      OBVIOUS
    <3>1. Wrong \subseteq Nat
      BY <1>1
    <3>2. PICK b \in Wrong : \A x \in Wrong : b <= x
      <4> HIDE DEF Wrong
      <4>1. QED
        BY <3>1, Least
    <3>3. b \in 1 .. len /\ b # 1
      BY <3>2, <2>5, <2>6
    <3>4. b - 1 \in 1 .. len /\ ~ (b - 1 \in Wrong)
      <4>1. b - 1 \in 1 .. len /\ ~ (b <= b - 1)
        BY <3>3, <1>1
      <4> HIDE DEF Wrong
      <4>2. QED
        BY <4>1, <3>2
    <3>5. flatten[b - 1] = run[b - 1]
      BY <3>4
    <3>6. flatten[b] = run[b]
      BY <3>3, <3>5, <2>5, <2>6
    <3>7. QED
      BY <3>2, <3>6
  <2>9. CASE len = 0
    BY <2>9, <1>2, <1>3, <2>1, <2>2
  <2>10. CASE len # 0
    <3>1. len \in 1 .. len /\ len \in 0 .. len
      BY <2>10, <1>1
    <3>2. flatten[len] = e[len]
      BY <3>1, <2>7, <2>8
    <3>3. FlattenSeq(list) = flatten[len]
      BY <1>2, <2>10
    <3>4. QED
      BY <3>1, <3>2, <3>3, <2>2
  <2>11. QED
    BY <2>9, <2>10
<1>6. QED
  BY <1>1, <1>4, <1>5

\* One sequence more at the end, ...
LEMMA FlattenAppend ==
  /\ FlattenSeq(<<>>) = <<>>
  /\ \A list \in Seq(Seq(Int)), v \in Seq(Int) :
       FlattenSeq(Append(list, v)) = FlattenSeq(list) \o v
<1>1. FlattenSeq(<<>>) = <<>>
  <2> DEFINE e == <<>>
  <2>1. e \in Seq(Seq(Int)) /\ Len(e) = 0
    OBVIOUS
  <2> HIDE DEF e
  <2>2. PICK f : Lines(f, e, Len(e)) /\ f[Len(e)] = FlattenSeq(e)
    BY <2>1, FlattenIs
  <2>3. FlattenSeq(e) = <<>>
    BY <2>1, <2>2 DEF Lines
  <2>4. QED
    BY <2>3 DEF e
<1>2. ASSUME NEW list, list \in Seq(Seq(Int)), NEW v, v \in Seq(Int)
      PROVE  FlattenSeq(Append(list, v)) = FlattenSeq(list) \o v
  <2> DEFINE m == Append(list, v)
             len == Len(list)
  <2>1. m \in Seq(Seq(Int)) /\ Len(m) = len + 1 /\ m[len + 1] = v /\ len \in Nat
        /\ \A i \in 1 .. len : m[i] = list[i]
    BY <1>2, AppendProperties
  <2> HIDE DEF m
  <2>2. PICK f : Lines(f, m, len + 1) /\ f[len + 1] = FlattenSeq(m)
    BY <2>1, FlattenIs
  <2>3. PICK g : g = [i \in 0 .. len |-> f[i]]
    OBVIOUS
  <2>4. Lines(g, list, len)
    <3> HIDE DEF len
    <3>1. \A i \in 0 .. len : i \in 0 .. len + 1
      BY <2>1
    <3>2. \A i \in 1 .. len : i \in 1 .. len + 1 /\ i \in 0 .. len /\ i - 1 \in 0 .. len
      BY <2>1
    <3>3. g \in [0 .. len -> Seq(Int)]
      BY <2>2, <2>3, <3>1 DEF Lines
    <3>4. 0 \in 0 .. len
      BY <2>1
    <3>5. g[0] = <<>>
      BY <2>2, <2>3, <3>4 DEF Lines
    <3>6. \A i \in 1 .. len : g[i] = g[i - 1] \o list[i]
      BY <2>1, <2>2, <2>3, <3>2 DEF Lines
    <3>7. QED
      BY <3>3, <3>5, <3>6 DEF Lines
  <2>5. g[len] = FlattenSeq(list)
    BY <1>2, <2>4, FlattenIs
  <2>6. f[len + 1] = f[len] \o v
    <3>1. len + 1 \in 1 .. len + 1 /\ (len + 1) - 1 = len
      BY <2>1
    <3>2. QED
      BY <2>1, <2>2, <3>1 DEF Lines
  <2>7. g[len] = f[len]
    BY <2>1, <2>3
  <2>8. QED
    BY <2>2, <2>5, <2>6, <2>7 DEF m
<1>3. QED
  BY <1>1, <1>2

\* ... and the first one in front.
LEMMA FlattenHead ==
  ASSUME NEW list, list \in Seq(Seq(Int)), list # <<>>
  PROVE  /\ list[1] \in Seq(Int) /\ Tail(list) \in Seq(Seq(Int))
         /\ FlattenSeq(list) = list[1] \o FlattenSeq(Tail(list))
<1> DEFINE m == Tail(list)
           len == Len(m)
           v == list[1]
<1>1. m \in Seq(Seq(Int)) /\ Len(list) = len + 1 /\ len \in Nat
      /\ \A i \in 1 .. len : m[i] = list[i + 1]
  <2>1. m \in Seq(Seq(Int)) /\ Len(m) = Len(list) - 1 /\ Len(list) \in Nat
        /\ \A i \in 1 .. Len(m) : m[i] = list[i + 1]
    BY HeadTailProperties
  <2> HIDE DEF m
  <2>2. QED
    BY <2>1
<1>2. list[1] \in Seq(Int)
  BY <1>1
<1>3. v \in Seq(Int)
  BY <1>2
<1> HIDE DEF m, v
<1>4. PICK f : Lines(f, m, len) /\ f[len] = FlattenSeq(m)
  BY <1>1, FlattenIs
<1> HIDE DEF len
<1> DEFINE g == [i \in 0 .. len + 1 |-> IF i = 0 THEN <<>> ELSE v \o f[i - 1]]
<1>5. \A i \in 0 .. len : f[i] \in Seq(Int) /\ v \o f[i] \in Seq(Int)
  BY <1>3, <1>4, Chains DEF Lines
<1>6. /\ \A i \in 0 .. len + 1 : i # 0 => i - 1 \in 0 .. len /\ i - 1 + 1 = i
      /\ \A i \in 1 .. len + 1 : i \in 0 .. len + 1 /\ i - 1 \in 0 .. len + 1 /\ i # 0
      /\ \A i \in 1 .. len + 1 : i # 1 => i - 1 \in 1 .. len
      /\ 0 \in 0 .. len + 1 /\ 0 \in 0 .. len /\ len + 1 \in 0 .. len + 1 /\ len + 1 # 0 /\ len + 1 - 1 = len
  BY <1>1
<1>7. g \in [0 .. len + 1 -> Seq(Int)]
  <2>1. \A i \in 0 .. len + 1 : i # 0 => v \o f[i - 1] \in Seq(Int)
    BY <1>5, <1>6
  <2>2. QED
    BY <2>1
<1>8. g[0] = <<>> /\ \A i \in 1 .. len + 1 : g[i] = v \o f[i - 1]
  BY <1>6
<1> HIDE DEF g
<1>9. g[len + 1] = v \o f[len]
  <2>1. PICK k : k = len + 1
    OBVIOUS
  <2>2. k \in 1 .. len + 1 /\ k - 1 = len
    BY <2>1, <1>1
  <2>3. g[k] = v \o f[k - 1]
    BY <2>2, <1>8
  <2>4. QED
    BY <2>1, <2>2, <2>3
<1>10. ASSUME NEW i \in 1 .. len + 1 PROVE g[i] = g[i - 1] \o list[i]
  <2>1. CASE i = 1
    <3>1. g[1] = v \o f[1 - 1] /\ 1 - 1 = 0 /\ f[0] = <<>>
      BY <2>1, <1>4, <1>8 DEF Lines
    <3>2. g[1] = v /\ <<>> \o v = v
      <4>1. v \o <<>> = v /\ <<>> \o v = v
        BY <1>3, Chains
      <4>2. QED
        BY <3>1, <4>1
    <3>3. g[i - 1] = <<>>
      BY <2>1, <1>8
    <3>4. QED
      BY <2>1, <3>2, <3>3 DEF v
  <2>2. CASE i # 1
    <3>1. i - 1 \in 1 .. len /\ i - 1 \in 0 .. len /\ i - 1 - 1 \in 0 .. len /\ i - 1 + 1 = i
      BY <2>2, <1>1
    <3>2. PICK j : j = i - 1
      OBVIOUS
    <3>3. j \in 1 .. len /\ j \in 1 .. len + 1 /\ j - 1 \in 0 .. len /\ j + 1 = i
      BY <3>1, <3>2, <1>1
    <3>4. f[j] = f[j - 1] \o m[j] /\ m[j] = list[j + 1]
      BY <3>3, <1>1, <1>4 DEF Lines
    <3>5. g[i] = v \o f[j] /\ g[j] = v \o f[j - 1]
      BY <3>2, <3>3, <1>8
    <3>6. f[j - 1] \in Seq(Int) /\ m[j] \in Seq(Int)
      <4>1. m[j] \in Seq(Int)
        BY <3>3, <1>1 DEF len
      <4>2. QED
        BY <3>3, <4>1, <1>5
    <3>7. v \o (f[j - 1] \o m[j]) = (v \o f[j - 1]) \o m[j]
      BY <3>6, <1>3, Chains, ZenonT(60)
    <3>8. QED
      BY <3>2, <3>3, <3>4, <3>5, <3>7
  <2>3. QED
    BY <2>1, <2>2
<1>11. Lines(g, list, len + 1)
  BY <1>7, <1>8, <1>10 DEF Lines
<1>12. g[len + 1] = FlattenSeq(list)
  BY <1>1, <1>11, FlattenIs
<1>13. QED
  BY <1>1, <1>2, <1>4, <1>9, <1>12 DEF m, v

\* The last one gets the bytes v more.
LEMMA FlattenGrow ==
  ASSUME NEW list, list \in Seq(Seq(Int)), list # <<>>,
         NEW m, m \in Seq(Seq(Int)), Len(m) = Len(list),
         NEW v, v \in Seq(Int),
         m[Len(list)] = list[Len(list)] \o v,
         \A i \in 1 .. Len(list) : i # Len(list) => m[i] = list[i]
  PROVE  FlattenSeq(m) = FlattenSeq(list) \o v
<1> DEFINE len == Len(list)
<1>1. len \in Nat /\ len # 0
  OBVIOUS
<1>2. PICK f : Lines(f, list, len) /\ f[len] = FlattenSeq(list)
  BY FlattenIs
<1> HIDE DEF len
<1> DEFINE w == FlattenSeq(list) \o v
           g == [i \in 0 .. len |-> IF i = len THEN w ELSE f[i]]
<1>3. FlattenSeq(list) \in Seq(Int) /\ w \in Seq(Int)
  BY FlattenIs, Chains
<1> HIDE DEF w
<1>4. g \in [0 .. len -> Seq(Int)]
  BY <1>2, <1>3 DEF Lines
<1>5. g[len] = w /\ \A i \in 0 .. len : i # len => g[i] = f[i]
  BY <1>1
<1> HIDE DEF g
<1>6. g[0] = <<>>
  <2>1. 0 \in 0 .. len /\ 0 # len
    BY <1>1
  <2>2. QED
    BY <2>1, <1>2, <1>5 DEF Lines
<1>7. ASSUME NEW i \in 1 .. len PROVE g[i] = g[i - 1] \o m[i]
  <2>1. i - 1 \in 0 .. len /\ i - 1 # len /\ i \in 0 .. len
    BY <1>1
  <2>2. g[i - 1] = f[i - 1] /\ f[i - 1] \in Seq(Int)
    BY <2>1, <1>2, <1>5 DEF Lines
  <2>3. f[i] = f[i - 1] \o list[i]
    BY <1>2 DEF Lines
  <2>4. CASE i = len
    <3>1. list[i] \in Seq(Int)
      BY DEF len
    <3>2. m[i] = list[i] \o v
      BY <2>4 DEF len
    <3>3. w = (f[i - 1] \o list[i]) \o v
      BY <2>3, <2>4, <1>2 DEF w
    <3>4. (f[i - 1] \o list[i]) \o v = f[i - 1] \o (list[i] \o v)
      BY <2>2, <3>1, Chains, ZenonT(60)
    <3>5. QED
      BY <2>2, <2>4, <3>2, <3>3, <3>4, <1>5
  <2>5. CASE i # len
    BY <2>1, <2>2, <2>3, <2>5, <1>5 DEF len
  <2>6. QED
    BY <2>4, <2>5
<1>8. Lines(g, m, len)
  BY <1>4, <1>6, <1>7 DEF Lines
<1>9. g[len] = FlattenSeq(m)
  BY <1>8, FlattenIs DEF len
<1>10. QED
  BY <1>5, <1>9 DEF w

\* A node takes over the bytes of the next one.
LEMMA FlattenGlue ==
  ASSUME NEW list, list \in Seq(Seq(Int)),
         NEW i, i \in 1 .. Len(list) - 1,
         NEW m, m \in Seq(Seq(Int)), Len(m) = Len(list) - 1,
         \A j \in 1 .. Len(m) :
           m[j] = IF j < i THEN list[j]
                  ELSE IF j = i THEN list[i] \o list[i + 1] ELSE list[j + 1]
  PROVE  FlattenSeq(m) = FlattenSeq(list)
<1> DEFINE len == Len(m)
<1>1. m \in Seq(Seq(Int)) /\ len \in Nat /\ Len(list) = len + 1 /\ i \in 1 .. len /\ i \in Nat
      /\ \A j \in 1 .. len :
           m[j] = IF j < i THEN list[j]
                  ELSE IF j = i THEN list[i] \o list[i + 1] ELSE list[j + 1]
  OBVIOUS
<1>2. PICK f : Lines(f, list, len + 1) /\ f[len + 1] = FlattenSeq(list)
  <2>1. PICK f : Lines(f, list, Len(list)) /\ f[Len(list)] = FlattenSeq(list)
    BY FlattenIs
  <2> HIDE DEF len
  <2>2. QED
    BY <1>1, <2>1
<1> DEFINE g == [j \in 0 .. len |-> IF j < i THEN f[j] ELSE f[j + 1]]
<1>3. \A j \in 1 .. len + 1 : list[j] \in Seq(Int)
  BY <1>1
<1> HIDE DEF len
<1>4. \A j \in 0 .. len + 1 : f[j] \in Seq(Int)
  BY <1>2 DEF Lines
<1>5. g \in [0 .. len -> Seq(Int)]
  <2>1. \A j \in 0 .. len : j \in 0 .. len + 1 /\ j + 1 \in 0 .. len + 1
    BY <1>1
  <2>2. QED
    BY <2>1, <1>4
<1>6. \A j \in 0 .. len : g[j] = IF j < i THEN f[j] ELSE f[j + 1]
  OBVIOUS
<1> HIDE DEF g
<1>7. g[0] = <<>>
  <2>1. 0 \in 0 .. len /\ 0 < i
    BY <1>1
  <2>2. QED
    BY <2>1, <1>2, <1>6 DEF Lines
<1>8. g[len] = f[len + 1]
  <2>1. len \in 0 .. len /\ ~ (len < i)
    BY <1>1
  <2>2. QED
    BY <2>1, <1>6
<1>9. ASSUME NEW j \in 1 .. len PROVE g[j] = g[j - 1] \o m[j]
  <2>1. j \in Nat /\ j \in 0 .. len /\ j - 1 \in 0 .. len /\ j \in 1 .. len + 1
        /\ j + 1 \in 1 .. len + 1 /\ (j + 1) - 1 = j
    BY <1>1
  <2>2. f[j] = f[j - 1] \o list[j]
    BY <2>1, <1>2 DEF Lines
  <2>3. f[j + 1] = f[j] \o list[j + 1]
    <3>1. PICK k : k = j + 1
      OBVIOUS
    <3>2. f[k] = f[k - 1] \o list[k]
      BY <2>1, <3>1, <1>2 DEF Lines
    <3>3. QED
      BY <2>1, <3>1, <3>2
  <2>4. CASE j < i
    <3>1. j - 1 < i
      BY <2>1, <2>4, <1>1
    <3>2. QED
      BY <2>1, <2>2, <2>4, <3>1, <1>1, <1>6
  <2>5. CASE j = i
    <3>1. j - 1 < i /\ ~ (j < i)
      BY <2>1, <2>5, <1>1
    <3>2. g[j] = f[j + 1] /\ g[j - 1] = f[j - 1]
      BY <2>1, <3>1, <1>6
    <3>6. m[j] = list[j] \o list[j + 1]
      <4>1. m[j] = list[i] \o list[i + 1]
        BY <3>1, <2>5, <1>1
      <4>2. QED
        BY <4>1, <2>5, Zenon
    <3>3. f[j - 1] \in Seq(Int) /\ list[j] \in Seq(Int) /\ list[j + 1] \in Seq(Int)
      <4>1. j - 1 \in 0 .. len + 1
        BY <2>1, <1>1
      <4>2. QED
        BY <2>1, <4>1, <1>3, <1>4
    <3>4. (f[j - 1] \o list[j]) \o list[j + 1] = f[j - 1] \o (list[j] \o list[j + 1])
      BY <3>3, Chains, ZenonT(60)
    <3>5. QED
      BY <2>2, <2>3, <2>5, <3>2, <3>4, <3>6
  <2>6. CASE j > i
    <3>1. ~ (j - 1 < i) /\ ~ (j < i) /\ j # i /\ (j - 1) + 1 = j
      BY <2>1, <2>6, <1>1
    <3>2. g[j] = f[j + 1] /\ m[j] = list[j + 1]
      BY <2>1, <3>1, <1>1, <1>6
    <3>3. g[j - 1] = f[j]
      BY <2>1, <3>1, <1>6
    <3>4. QED
      BY <2>3, <3>2, <3>3
  <2>7. j < i \/ j = i \/ j > i
    BY <2>1, <1>1
  <2>8. QED
    BY <2>4, <2>5, <2>6, <2>7
<1>10. Lines(g, m, len)
  BY <1>5, <1>7, <1>9 DEF Lines
<1>11. g[len] = FlattenSeq(m)
  BY <1>1, <1>10, FlattenIs DEF len
<1>12. QED
  BY <1>2, <1>8, <1>11

-----------------------------------------------------------------------------
(* The account of a list.                                                  *)

\* What an object may be.
Object == [refs : Nat, enc : {"none", "raw", "embstr", "int"}, bytes : Seq(Int)]
Heaps == [Objects -> Object]

\* f is the account of list, node by node.
Ledger(f, h, list) ==
  /\ f \in [0 .. Len(list) -> Int]
  /\ f[0] = 0
  /\ \A i \in 1 .. Len(list) : f[i] = f[i - 1] + Memory(h[list[i]])

\* The nodes of list take n bytes.
Takes(h, list, n) == \E f : Ledger(f, h, list) /\ f[Len(list)] = n

\* The memory of an object is a number.
LEMMA MemoryType ==
  ASSUME NEW x \in Object
  PROVE  Memory(x) \in Nat
<1>1. Len(x.bytes) \in Nat
  BY DEF Object
<1>2. QED
  BY <1>1 DEF Memory

\* Only the memory of the nodes counts.
LEMMA TakesFrame ==
  ASSUME NEW h, NEW list \in Seq(Objects), NEW n, Takes(h, list, n),
         NEW g, NEW m \in Seq(Objects), Len(m) = Len(list),
         \A i \in 1 .. Len(list) : Memory(g[m[i]]) = Memory(h[list[i]])
  PROVE  Takes(g, m, n)
  BY DEF Takes, Ledger

\* A node more takes the memory of its object, ...
LEMMA TakesAppend ==
  ASSUME NEW h \in Heaps, NEW list \in Seq(Objects), NEW n, Takes(h, list, n),
         NEW o \in Objects
  PROVE  n \in Int /\ Takes(h, Append(list, o), n + Memory(h[o]))
<1> DEFINE len == Len(list)
           m == Append(list, o)
           w == Memory(h[o])
<1>1. PICK f : Ledger(f, h, list) /\ f[Len(list)] = n
  BY DEF Takes
<1> DEFINE g == [i \in 0 .. len + 1 |-> IF i = len + 1 THEN n + w ELSE f[i]]
<1>2. w \in Int /\ n \in Int /\ len \in Nat
  BY <1>1, MemoryType DEF Heaps, Ledger
<1>3. Len(m) = len + 1 /\ \A i \in 1 .. len + 1 : m[i] = IF i = len + 1 THEN o ELSE list[i]
  OBVIOUS
<1> HIDE DEF m, w
<1>4. g \in [0 .. len + 1 -> Int] /\ g[0] = 0 /\ g[len + 1] = n + w
  BY <1>1, <1>2 DEF Ledger
<1>5. ASSUME NEW i \in 1 .. len + 1 PROVE g[i] = g[i - 1] + Memory(h[m[i]])
  BY <1>1, <1>2, <1>3 DEF Ledger, w
<1> HIDE DEF g
<1>6. Ledger(g, h, m) /\ g[Len(m)] = n + w
  BY <1>3, <1>4, <1>5 DEF Ledger
<1>7. QED
  BY <1>2, <1>6 DEF Takes, m, w

\* ... and a node less gives it back.
LEMMA TakesCut ==
  ASSUME NEW h \in Heaps, NEW list \in Seq(Objects), NEW n, Takes(h, list, n),
         NEW i, NEW m, Cut(list, i, m)
  PROVE  Takes(h, m, n - Memory(h[list[i]]))
<1> DEFINE w == Memory(h[list[i]])
           len == Len(m)
<1>1. PICK f : Ledger(f, h, list) /\ f[Len(list)] = n
  BY DEF Takes
<1>2. /\ m \in Seq(Objects) /\ i \in 1 .. len + 1 /\ Len(list) = len + 1 /\ len \in Nat
      /\ \A j \in 1 .. len : m[j] = IF j < i THEN list[j] ELSE list[j + 1]
  BY DEF Cut
<1>3. h[list[i]] \in Object
  BY <1>2 DEF Heaps
<1>4. w \in Int
  BY <1>3, MemoryType
<1> DEFINE g == [j \in 0 .. len |-> IF j < i THEN f[j] ELSE f[j + 1] - w]
<1>5. f[i] = f[i - 1] + w
  BY <1>1, <1>2 DEF Ledger
<1> HIDE DEF w, len
<1>6. f \in [0 .. len + 1 -> Int]
  BY <1>1, <1>2 DEF Ledger
<1>7. g \in [0 .. len -> Int] /\ g[0] = 0 /\ g[len] = n - w
  <2>1. g \in [0 .. len -> Int]
    BY <1>2, <1>4, <1>6
  <2>2. g[0] = 0
    BY <1>1, <1>2 DEF Ledger
  <2>3. f[len + 1] = n /\ f[len] \in Int
    BY <1>1, <1>2, <1>6
  <2>4. CASE i = len + 1
    <3>1. i - 1 = len /\ len < i
      BY <2>4, <1>2
    <3>2. f[len + 1] = f[len] + w
      BY <2>4, <1>5, <3>1
    <3>3. g[len] = f[len]
      BY <3>1, <1>2
    <3> HIDE DEF g
    <3>4. QED
      BY <2>1, <2>2, <2>3, <3>2, <3>3, <1>4
  <2>5. CASE i # len + 1
    <3>1. g[len] = f[len + 1] - w
      BY <2>5, <1>2
    <3> HIDE DEF g
    <3>2. QED
      BY <2>1, <2>2, <2>3, <3>1
  <2>6. QED
    BY <2>4, <2>5
<1>8. ASSUME NEW j \in 1 .. len PROVE g[j] = g[j - 1] + Memory(h[m[j]])
  <2>1. CASE j < i
    <3>1. j \in 1 .. Len(list) /\ m[j] = list[j]
      BY <2>1, <1>2
    <3>2. f[j] = f[j - 1] + Memory(h[list[j]])
      BY <3>1, <1>1 DEF Ledger
    <3>3. g[j] = f[j] /\ g[j - 1] = f[j - 1]
      BY <2>1, <1>2
    <3> HIDE DEF g
    <3>4. QED
      BY <3>1, <3>2, <3>3
  <2>2. CASE j = i
    <3>1. f[j + 1] = f[j] + Memory(h[list[j + 1]])
      <4>1. j + 1 \in 1 .. Len(list) /\ j + 1 - 1 = j
        BY <1>2
      <4>2. QED
        BY <4>1, <1>1 DEF Ledger
    <3>2. m[j] = list[j + 1] /\ h[m[j]] \in Object
      BY <2>2, <1>2 DEF Heaps
    <3>3. Memory(h[m[j]]) \in Int
      BY <3>2, MemoryType
    <3>4. g[j] = f[j + 1] - w /\ g[j - 1] = f[j - 1]
      BY <2>2, <1>2
    <3>5. f[j] \in Int /\ f[j - 1] \in Int
      BY <1>6, <1>2
    <3> HIDE DEF g
    <3>6. QED
      BY <3>1, <3>2, <3>3, <3>4, <3>5, <2>2, <1>4, <1>5
  <2>3. CASE j > i
    <3>1. f[j + 1] = f[j] + Memory(h[list[j + 1]])
      <4>1. j + 1 \in 1 .. Len(list) /\ j + 1 - 1 = j
        BY <1>2
      <4>2. QED
        BY <4>1, <1>1 DEF Ledger
    <3>2. m[j] = list[j + 1] /\ h[m[j]] \in Object
      BY <2>3, <1>2 DEF Heaps
    <3>3. Memory(h[m[j]]) \in Int
      BY <3>2, MemoryType
    <3>4. g[j] = f[j + 1] - w /\ g[j - 1] = f[j] - w
      BY <2>3, <1>2
    <3>5. f[j] \in Int
      BY <1>6, <1>2
    <3> HIDE DEF g
    <3>6. QED
      BY <3>1, <3>2, <3>3, <3>4, <3>5, <1>4
  <2>4. QED
    BY <2>1, <2>2, <2>3, <1>2
<1> HIDE DEF g
<1>9. Ledger(g, h, m) /\ g[Len(m)] = n - w
  BY <1>7, <1>8 DEF Ledger, len
<1>10. QED
  BY <1>9 DEF Takes, w

\* One node takes d bytes more.
LEMMA TakesGrow ==
  ASSUME NEW h \in Heaps, NEW list \in Seq(Objects), NEW n, Takes(h, list, n),
         NEW g, NEW m \in Seq(Objects), Len(m) = Len(list),
         NEW i \in 1 .. Len(list), NEW d \in Int,
         Memory(g[m[i]]) = Memory(h[list[i]]) + d,
         \A j \in 1 .. Len(list) : j # i => Memory(g[m[j]]) = Memory(h[list[j]])
  PROVE  Takes(g, m, n + d)
<1> DEFINE len == Len(list)
<1>1. PICK f : Ledger(f, h, list) /\ f[Len(list)] = n
  BY DEF Takes
<1>2. \A j \in 1 .. len : Memory(h[list[j]]) \in Int
  BY MemoryType DEF Heaps
<1> DEFINE e == [j \in 0 .. len |-> IF j < i THEN f[j] ELSE f[j] + d]
<1>3. len \in Nat /\ f \in [0 .. len -> Int] /\ f[0] = 0
  BY <1>1 DEF Ledger
<1>4. e \in [0 .. len -> Int] /\ e[0] = 0 /\ e[len] = n + d
  BY <1>1, <1>3
<1>5. ASSUME NEW j \in 1 .. len PROVE e[j] = e[j - 1] + Memory(g[m[j]])
  <2>1. f[j] = f[j - 1] + Memory(h[list[j]])
    BY <1>1 DEF Ledger
  <2>2. f[j] \in Int /\ f[j - 1] \in Int /\ Memory(h[list[j]]) \in Int
    BY <1>2, <1>3
  <2>3. CASE j < i
    BY <2>1, <2>2, <2>3
  <2>4. CASE j = i
    BY <2>1, <2>2, <2>4
  <2>5. CASE j > i
    BY <2>1, <2>2, <2>5
  <2>6. QED
    BY <2>3, <2>4, <2>5
<1> HIDE DEF e
<1>6. Ledger(e, g, m) /\ e[Len(m)] = n + d
  BY <1>4, <1>5 DEF Ledger
<1>7. QED
  BY <1>6 DEF Takes

\* The sum that AccountExact recurs to is what the ledger says.
LEMMA TakesSum ==
  ASSUME NEW h, NEW list \in Seq(Objects), NEW n, Takes(h, list, n)
  PROVE  LET memory[i \in 0 .. Len(list)] ==
               IF i = 0 THEN 0 ELSE memory[i - 1] + Memory(h[list[i]])
         IN  n = memory[Len(list)]
<1> DEFINE len == Len(list)
           Sum(f) == [i \in 0 .. len |-> IF i = 0 THEN 0 ELSE f[i - 1] + Memory(h[list[i]])]
           memory == CHOOSE f : f = Sum(f)
<1>1. PICK f : Ledger(f, h, list) /\ f[len] = n
  BY DEF Takes
<1>2. f = Sum(f)
  BY <1>1 DEF Ledger
<1>3. memory = Sum(memory)
  <2> HIDE DEF Sum
  <2>1. QED
    BY <1>2
<1> HIDE DEF memory
<1>4. memory[0] = 0 /\ \A i \in 1 .. len : memory[i] = memory[i - 1] + Memory(h[list[i]])
  <2>1. \A i \in 0 .. len :
          Sum(memory)[i] = IF i = 0 THEN 0 ELSE memory[i - 1] + Memory(h[list[i]])
    OBVIOUS
  <2> HIDE DEF Sum
  <2>2. \A i \in 0 .. len :
          memory[i] = IF i = 0 THEN 0 ELSE memory[i - 1] + Memory(h[list[i]])
    BY <1>3, <2>1
  <2>3. len \in Nat
    OBVIOUS
  <2> HIDE DEF len
  <2>4. QED
    BY <2>2, <2>3
<1> DEFINE Wrong == {i \in 0 .. len : memory[i] # f[i]}
<1>5. Wrong = {}
  <2> SUFFICES ASSUME Wrong # {} PROVE FALSE
    OBVIOUS
  <2>1. Wrong \subseteq Nat
    OBVIOUS
  <2>2. PICK b \in Wrong : \A x \in Wrong : b <= x
    BY <2>1, Least
  <2>3. b # 0
    BY <2>2, <1>1, <1>4 DEF Ledger
  <2>4. b - 1 \in 0 .. len /\ b \in 1 .. len /\ ~ (b - 1 \in Wrong)
    BY <2>2, <2>3
  <2>5. memory[b] = f[b]
    BY <2>4, <1>1, <1>4 DEF Ledger
  <2>6. QED
    BY <2>2, <2>5
<1>6. memory[len] = n
  BY <1>1, <1>5
<1>7. QED
  BY <1>6 DEF memory

-----------------------------------------------------------------------------
(* A heap with a client.                                                   *)

States == {"open", "closing", "closed", "lost"}

Clients ==
  [buf : Seq(Int), reply : Seq(Objects), reply_bytes : Int, sentlen : Nat,
   handler : {TRUE, FALSE}, state : States]

Pairs == [heap : Heaps, c : Clients]

\* r is the pair of these fields.
Is(r, h, buf, list, n, sent, on, state) ==
  /\ r.heap = h
  /\ r.c = [buf |-> buf, reply |-> list, reply_bytes |-> n, sentlen |-> sent,
            handler |-> on, state |-> state]
  /\ r = [heap |-> r.heap, c |-> r.c]

\* A pair is the pair of its fields.
LEMMA FieldTypes ==
  ASSUME NEW s \in Pairs
  PROVE  /\ Is(s, s.heap, s.c.buf, s.c.reply, s.c.reply_bytes, s.c.sentlen, s.c.handler, s.c.state)
         /\ s.heap \in Heaps /\ s.c.buf \in Seq(Int) /\ s.c.reply \in Seq(Objects)
         /\ s.c.reply_bytes \in Int /\ s.c.sentlen \in Nat /\ s.c.handler \in {TRUE, FALSE}
         /\ s.c.state \in States
  BY DEF Pairs, Clients, Is

Shaped(r) ==
  /\ r = [heap |-> r.heap, c |-> r.c]
  /\ r.c = [buf |-> r.c.buf, reply |-> r.c.reply, reply_bytes |-> r.c.reply_bytes,
            sentlen |-> r.c.sentlen, handler |-> r.c.handler, state |-> r.c.state]

\* The fields of a pair.
LEMMA IsFields ==
  ASSUME NEW r, NEW h, NEW buf, NEW list, NEW n, NEW sent, NEW on, NEW state,
         Is(r, h, buf, list, n, sent, on, state)
  PROVE  /\ r.heap = h /\ r.c.buf = buf /\ r.c.reply = list /\ r.c.reply_bytes = n
         /\ r.c.sentlen = sent /\ r.c.handler = on /\ r.c.state = state
         /\ Shaped(r)
  BY DEF Is, Shaped

\* A pair whose fields have their types.
LEMMA ShapedPair ==
  ASSUME NEW r, Shaped(r), r.heap \in Heaps, r.c.buf \in Seq(Int),
         r.c.reply \in Seq(Objects), r.c.reply_bytes \in Int, r.c.sentlen \in Nat,
         r.c.handler \in {TRUE, FALSE}, r.c.state \in States
  PROVE  r \in Pairs
<1>1. r.c \in Clients
  BY DEF Shaped, Clients
<1>2. QED
  BY <1>1 DEF Shaped, Pairs

\* The pair with another heap.
WithHeap(s, h) == [s EXCEPT !.heap = h]

\* The client stays as it is.
LEMMA WithHeapIs ==
  ASSUME NEW s \in Pairs, NEW h \in Heaps
  PROVE  /\ WithHeap(s, h) \in Pairs
         /\ WithHeap(s, h).heap = h
         /\ WithHeap(s, h).c = s.c
<1>1. s = [heap |-> s.heap, c |-> s.c] /\ s.c \in Clients
  BY DEF Pairs
<1>2. WithHeap(s, h) = [heap |-> h, c |-> s.c]
  BY <1>1 DEF WithHeap
<1>3. QED
  BY <1>1, <1>2 DEF Pairs

\* One field changes.
LEMMA Update ==
  ASSUME NEW s, NEW h, NEW buf, NEW list, NEW n, NEW sent, NEW on, NEW state,
         Is(s, h, buf, list, n, sent, on, state), NEW x
  PROVE  /\ Is([s EXCEPT !.heap = x], x, buf, list, n, sent, on, state)
         /\ Is([s EXCEPT !.c.buf = x], h, x, list, n, sent, on, state)
         /\ Is([s EXCEPT !.c.reply = x], h, buf, x, n, sent, on, state)
         /\ Is([s EXCEPT !.c.reply_bytes = x], h, buf, list, x, sent, on, state)
         /\ Is([s EXCEPT !.c.handler = x], h, buf, list, n, sent, x, state)
         /\ Is([s EXCEPT !.c.state = x], h, buf, list, n, sent, on, x)
         /\ Is([s EXCEPT !.c.sentlen = x], h, buf, list, n, x, on, state)
<1>1. /\ s = [heap |-> h, c |-> s.c] /\ s.heap = h
      /\ s.c = [buf |-> buf, reply |-> list, reply_bytes |-> n, sentlen |-> sent,
                handler |-> on, state |-> state]
  BY DEF Is
<1>2. Is([s EXCEPT !.heap = x], x, buf, list, n, sent, on, state)
  BY <1>1 DEF Is
<1>3. Is([s EXCEPT !.c.buf = x], h, x, list, n, sent, on, state)
  BY <1>1 DEF Is
<1>4. Is([s EXCEPT !.c.reply = x], h, buf, x, n, sent, on, state)
  BY <1>1 DEF Is
<1>5. Is([s EXCEPT !.c.reply_bytes = x], h, buf, list, x, sent, on, state)
  BY <1>1 DEF Is
<1>6. Is([s EXCEPT !.c.handler = x], h, buf, list, n, sent, x, state)
  BY <1>1 DEF Is
<1>7. Is([s EXCEPT !.c.state = x], h, buf, list, n, sent, on, x)
  BY <1>1 DEF Is
<1>8. Is([s EXCEPT !.c.sentlen = x], h, buf, list, n, x, on, state)
  BY <1>1 DEF Is
<1>9. QED
  BY <1>2, <1>3, <1>4, <1>5, <1>6, <1>7, <1>8

\* Some fields change together.
LEMMA Updates ==
  ASSUME NEW s, NEW h, NEW buf, NEW list, NEW n, NEW sent, NEW on, NEW state,
         Is(s, h, buf, list, n, sent, on, state), NEW g, NEW x, NEW y
  PROVE  /\ Is([s EXCEPT !.heap = g, !.c.reply = x], g, buf, x, n, sent, on, state)
         /\ Is([s EXCEPT !.c.reply = x, !.c.reply_bytes = y], h, buf, x, y, sent, on, state)
         /\ Is([s EXCEPT !.heap = g, !.c.reply_bytes = y], g, buf, list, y, sent, on, state)
         /\ Is([s EXCEPT !.heap = g, !.c.reply = x, !.c.reply_bytes = y], g, buf, x, y, sent, on, state)
<1>1. Is([s EXCEPT !.heap = g, !.c.reply = x], g, buf, x, n, sent, on, state)
  <2> DEFINE r == [s EXCEPT !.heap = g]
  <2>1. Is(r, g, buf, list, n, sent, on, state)
    BY Update
  <2>2. [s EXCEPT !.heap = g, !.c.reply = x] = [r EXCEPT !.c.reply = x]
    BY Zenon
  <2> HIDE DEF r
  <2>3. Is([r EXCEPT !.c.reply = x], g, buf, x, n, sent, on, state)
    BY <2>1, Update
  <2>4. QED
    BY <2>2, <2>3, Zenon
<1>2. Is([s EXCEPT !.c.reply = x, !.c.reply_bytes = y], h, buf, x, y, sent, on, state)
  <2> DEFINE r == [s EXCEPT !.c.reply = x]
  <2>1. Is(r, h, buf, x, n, sent, on, state)
    BY Update
  <2>2. [s EXCEPT !.c.reply = x, !.c.reply_bytes = y] = [r EXCEPT !.c.reply_bytes = y]
    BY Zenon
  <2> HIDE DEF r
  <2>3. Is([r EXCEPT !.c.reply_bytes = y], h, buf, x, y, sent, on, state)
    BY <2>1, Update
  <2>4. QED
    BY <2>2, <2>3, Zenon
<1>3. Is([s EXCEPT !.heap = g, !.c.reply_bytes = y], g, buf, list, y, sent, on, state)
  <2> DEFINE r == [s EXCEPT !.heap = g]
  <2>1. Is(r, g, buf, list, n, sent, on, state)
    BY Update
  <2>2. [s EXCEPT !.heap = g, !.c.reply_bytes = y] = [r EXCEPT !.c.reply_bytes = y]
    BY Zenon
  <2> HIDE DEF r
  <2>3. Is([r EXCEPT !.c.reply_bytes = y], g, buf, list, y, sent, on, state)
    BY <2>1, Update
  <2>4. QED
    BY <2>2, <2>3, Zenon
<1>4. Is([s EXCEPT !.heap = g, !.c.reply = x, !.c.reply_bytes = y], g, buf, x, y, sent, on, state)
  <2> DEFINE r == [s EXCEPT !.heap = g, !.c.reply = x]
  <2>1. Is(r, g, buf, x, n, sent, on, state)
    BY <1>1
  <2>2. [s EXCEPT !.heap = g, !.c.reply = x, !.c.reply_bytes = y] = [r EXCEPT !.c.reply_bytes = y]
    BY Zenon
  <2> HIDE DEF r
  <2>3. Is([r EXCEPT !.c.reply_bytes = y], g, buf, x, y, sent, on, state)
    BY <2>1, Update
  <2>4. QED
    BY <2>2, <2>3, Zenon
<1>5. QED
  BY <1>1, <1>2, <1>3, <1>4, Zenon

-----------------------------------------------------------------------------
(* The invariant of a heap with a client.                                  *)

Used(h) == {o \in Objects : h[o].refs # 0}

\* Where the reply starts.
First(s) ==
  IF Nothing(s) THEN <<>>
  ELSE IF s.c.buf # <<>> THEN s.c.buf
  ELSE s.heap[s.c.reply[1]].bytes

\* The function own, with k for o.
With(own, o, k) == [own EXCEPT ![o] = k]

\* An object with one reference.
Single(enc, bytes) == [refs |-> 1, enc |-> enc, bytes |-> bytes]

\* One value of the function changes.
LEMMA WithIs ==
  ASSUME NEW own, own \in [Objects -> Nat], NEW o, o \in Objects, NEW k, k \in Nat
  PROVE  /\ With(own, o, k) \in [Objects -> Nat]
         /\ With(own, o, k)[o] = k
         /\ \A p \in Objects : p # o => With(own, o, k)[p] = own[p]
         /\ With(With(own, o, k), o, own[o]) = own
         /\ own[o] \in Nat
<1>1. With(own, o, k) \in [Objects -> Nat]
  BY DEF With
<1>2. With(own, o, k)[o] = k
  BY DEF With
<1>3. \A p \in Objects : p # o => With(own, o, k)[p] = own[p]
  BY DEF With
<1>4. With(With(own, o, k), o, own[o]) = own
  BY DEF With
<1>5. QED
  BY <1>1, <1>2, <1>3, <1>4

\* The fields of an object with one reference.
LEMMA SingleIs ==
  ASSUME NEW enc, NEW bytes
  PROVE  /\ Single(enc, bytes).refs = 1
         /\ Single(enc, bytes).enc = enc
         /\ Single(enc, bytes).bytes = bytes
         /\ enc \in {"none", "raw", "embstr", "int"} /\ bytes \in Seq(Int)
              => Single(enc, bytes) \in Object
         /\ \A x \in Object : x.refs = 1 => x = Single(x.enc, x.bytes)
  BY DEF Single, Object

\* own says how many references each object has from elsewhere than the list:
\* the key, the shared objects, the variables of a function that runs.
Book(s, own) ==
  /\ s \in Pairs
  /\ own \in [Objects -> Nat]
  /\ IsFiniteSet(Used(s.heap))
  /\ \A o \in Objects :
       /\ s.heap[o].refs = RefsIn(s.c.reply, o) + own[o]
       /\ s.heap[o].refs = 0 => s.heap[o] = Free
       /\ s.heap[o].enc = "int" => s.heap[o].bytes \in Numbers
  /\ Takes(s.heap, s.c.reply, s.c.reply_bytes)
  /\ Len(s.c.buf) <= Chunk
  /\ s.c.sentlen <= Len(First(s))

\* Who owns an object sees it unchanged.
Keeps(s, r, own) ==
  \A o \in Objects : own[o] # 0 =>
    r.heap[o].enc = s.heap[o].enc /\ r.heap[o].bytes = s.heap[o].bytes

\* The i-th node waits for its length.
Waits(s, i) ==
  /\ i \in 1 .. Len(s.c.reply)
  /\ s.heap[s.c.reply[i]] = Single("none", <<>>)

Follows(s, r) ==
  /\ r.c.state = s.c.state
  /\ r.c.handler = s.c.handler \/ (Nothing(s) /\ r.c.handler = TRUE)
  /\ ~ Nothing(s) => ~ Nothing(r)
  /\ \A i : Waits(s, i) => Waits(r, i)

\* One function after the other follows what was there.
LEMMA FollowsTransitive ==
  ASSUME NEW s, NEW l, NEW r, Follows(s, l), Follows(l, r)
  PROVE  Follows(s, r)
  BY DEF Follows

\* An object that is referred to by the list alone.
LEMMA WaitingIsOurs ==
  ASSUME NEW s, NEW own, Book(s, own), NEW i, Waits(s, i)
  PROVE  /\ s.c.reply[i] \in Objects
         /\ own[s.c.reply[i]] = 0
         /\ \A j \in 1 .. Len(s.c.reply) : s.c.reply[j] = s.c.reply[i] => j = i
<1> DEFINE o == s.c.reply[i]
<1>1. s.c.reply \in Seq(Objects) /\ i \in 1 .. Len(s.c.reply)
  BY FieldTypes DEF Book, Waits
<1>2. o \in Objects
  BY <1>1
<1>3. RefsIn(s.c.reply, o) + own[o] = 1
  BY <1>2, SingleIs DEF Book, Waits
<1>4. RefsIn(s.c.reply, o) \in Nat /\ RefsIn(s.c.reply, o) # 0 /\ own[o] \in Nat
  <2>1. RefsIn(s.c.reply, o) \in Nat /\ RefsIn(s.c.reply, o) # 0
    <3>1. \A x : /\ RefsIn(s.c.reply, x) \in Nat
                 /\ RefsIn(s.c.reply, x) = 0 <=> \A j \in 1 .. Len(s.c.reply) : s.c.reply[j] # x
      BY <1>1, RefsInType
    <3>2. QED
      BY <3>1, <1>1
  <2>2. own[o] \in Nat
    BY <1>2 DEF Book
  <2>3. QED
    BY <2>1, <2>2
<1>5. RefsIn(s.c.reply, o) = 1 /\ own[o] = 0
  BY <1>3, <1>4
<1>6. QED
  BY <1>1, <1>2, <1>5, RefsInType
-----------------------------------------------------------------------------
(* The bytes of a reply.                                                   *)

\* Node by node, with w for the i-th; w for none of them if i is 0.
Parts(s, i, w) ==
  [j \in 1 .. Len(s.c.reply) |-> IF j = i THEN w ELSE s.heap[s.c.reply[j]].bytes]

All(s, i, w) == s.c.buf \o FlattenSeq(Parts(s, i, w))

\* v is added at the end, whatever the nodes that wait will say.
Says(s, r, v) ==
  /\ r.c.sentlen = s.c.sentlen
  /\ \A i : i = 0 \/ Waits(s, i) =>
       \A w \in Seq(Int) : All(r, i, w) = All(s, i, w) \o v

\* The nodes are sequences of bytes.
LEMMA PartsType ==
  ASSUME NEW s, s \in Pairs
  PROVE  /\ Len(s.c.reply) \in Nat /\ s.c.reply \in Seq(Objects) /\ s.c.buf \in Seq(Int)
         /\ \A j \in 1 .. Len(s.c.reply) : s.heap[s.c.reply[j]].bytes \in Seq(Int)
         /\ \A i : \A w \in Seq(Int) :
              /\ Parts(s, i, w) \in Seq(Seq(Int))
              /\ Len(Parts(s, i, w)) = Len(s.c.reply)
              /\ FlattenSeq(Parts(s, i, w)) \in Seq(Int)
              /\ All(s, i, w) \in Seq(Int)
<1>1. s.heap \in Heaps /\ s.c.reply \in Seq(Objects) /\ s.c.buf \in Seq(Int)
  BY FieldTypes
<1>2. Len(s.c.reply) \in Nat
  BY <1>1
<1>3. ASSUME NEW j \in 1 .. Len(s.c.reply) PROVE s.heap[s.c.reply[j]].bytes \in Seq(Int)
  <2>1. s.c.reply[j] \in Objects
    BY <1>1
  <2>2. QED
    BY <2>1, <1>1 DEF Heaps, Object
<1>4. ASSUME NEW i, NEW w \in Seq(Int)
      PROVE  /\ Parts(s, i, w) \in Seq(Seq(Int))
             /\ Len(Parts(s, i, w)) = Len(s.c.reply)
             /\ FlattenSeq(Parts(s, i, w)) \in Seq(Int)
             /\ All(s, i, w) \in Seq(Int)
  <2> DEFINE f == Parts(s, i, w)
             n == Len(s.c.reply)
  <2>1. f \in [1 .. n -> Seq(Int)]
    BY <1>3 DEF Parts
  <2> HIDE DEF f, n
  <2>2. f \in Seq(Seq(Int)) /\ Len(f) = n
    <3>1. n \in Nat
      BY <1>2 DEF n
    <3>2. QED
      BY <2>1, <3>1
  <2>3. FlattenSeq(f) \in Seq(Int)
    BY <2>2, FlattenIs
  <2>4. s.c.buf \o FlattenSeq(f) \in Seq(Int)
    BY <2>3, <1>1, Chains
  <2>5. QED
    BY <2>2, <2>3, <2>4 DEF All, f, n
<1>5. QED
  BY <1>1, <1>2, <1>3, <1>4

\* The same bytes, whatever the objects are that hold them.
LEMMA SaysSame ==
  ASSUME NEW s, s \in Pairs, NEW r, r \in Pairs,
         r.c.sentlen = s.c.sentlen, r.c.buf = s.c.buf,
         Len(r.c.reply) = Len(s.c.reply),
         \A j \in 1 .. Len(s.c.reply) : r.heap[r.c.reply[j]].bytes = s.heap[s.c.reply[j]].bytes
  PROVE  /\ Says(s, r, <<>>)
         /\ \A i : \A w \in Seq(Int) : All(r, i, w) = All(s, i, w)
<1>1. ASSUME NEW i, NEW w \in Seq(Int)
      PROVE  All(r, i, w) = All(s, i, w) /\ All(s, i, w) = All(s, i, w) \o <<>>
  <2>1. Parts(r, i, w) = Parts(s, i, w)
    BY DEF Parts
  <2>2. All(s, i, w) \in Seq(Int)
    BY PartsType
  <2>3. QED
    BY <2>1, <2>2, Chains DEF All
<1>2. QED
  BY <1>1 DEF Says

\* More bytes in the last node.
LEMMA SaysMore ==
  ASSUME NEW s, s \in Pairs, NEW r, r \in Pairs, NEW v, v \in Seq(Int),
         r.c.sentlen = s.c.sentlen, r.c.buf = s.c.buf,
         s.c.reply # <<>>, Len(r.c.reply) = Len(s.c.reply), ~ Waits(s, Len(s.c.reply)),
         \A j \in 1 .. Len(s.c.reply) :
           r.heap[r.c.reply[j]].bytes =
             IF j = Len(s.c.reply) THEN s.heap[s.c.reply[j]].bytes \o v
             ELSE s.heap[s.c.reply[j]].bytes
  PROVE  Says(s, r, v)
<1> DEFINE n == Len(s.c.reply)
<1>1. n \in Nat /\ n # 0
  <2>1. s.c.reply \in Seq(Objects)
    BY PartsType
  <2>2. QED
    BY <2>1
<1>2. ASSUME NEW i, i = 0 \/ Waits(s, i), NEW w \in Seq(Int)
      PROVE  All(r, i, w) = All(s, i, w) \o v
  <2> DEFINE list == Parts(s, i, w)
             m == Parts(r, i, w)
  <2>1. i # n
    BY <1>1, <1>2
  <2>2. /\ list \in Seq(Seq(Int)) /\ Len(list) = n
        /\ m \in Seq(Seq(Int)) /\ Len(m) = n
        /\ FlattenSeq(list) \in Seq(Int) /\ s.c.buf \in Seq(Int)
    BY PartsType
  <2>3. m[n] = list[n] \o v
    <3>1. n \in 1 .. n
      BY <1>1
    <3>2. list[n] = s.heap[s.c.reply[n]].bytes /\ m[n] = r.heap[r.c.reply[n]].bytes
      BY <2>1, <3>1 DEF Parts
    <3>3. QED
      BY <3>1, <3>2
  <2>4. \A j \in 1 .. n : j # n => m[j] = list[j]
    BY DEF Parts
  <2> HIDE DEF list, m, n
  <2>5. list # <<>>
    BY <2>2, <1>1
  <2>6. FlattenSeq(m) = FlattenSeq(list) \o v
    <3>1. /\ list \in Seq(Seq(Int)) /\ list # <<>> /\ m \in Seq(Seq(Int)) /\ v \in Seq(Int)
          /\ Len(m) = Len(list) /\ m[Len(list)] = list[Len(list)] \o v
          /\ \A j \in 1 .. Len(list) : j # Len(list) => m[j] = list[j]
      BY <2>2, <2>3, <2>4, <2>5
    <3>2. QED
      BY ONLY <3>1, FlattenGrow, Zenon
  <2>7. s.c.buf \o (FlattenSeq(list) \o v) = (s.c.buf \o FlattenSeq(list)) \o v
    BY <2>2, Chains, ZenonT(60)
  <2>8. QED
    BY <2>6, <2>7 DEF All, list, m
<1>3. QED
  BY <1>2 DEF Says

\* A list with a sequence more.
LEMMA FlattenNode ==
  ASSUME NEW list, list \in Seq(Seq(Int)), NEW m, m \in Seq(Seq(Int)),
         Len(m) = Len(list) + 1,
         \A j \in 1 .. Len(list) : m[j] = list[j]
  PROVE  /\ m[Len(list) + 1] \in Seq(Int)
         /\ FlattenSeq(m) = FlattenSeq(list) \o m[Len(list) + 1]
<1> DEFINE n == Len(list)
           v == m[n + 1]
           a == Append(list, v)
<1>1. n \in Nat /\ n + 1 \in 1 .. Len(m)
  OBVIOUS
<1>2. v \in Seq(Int)
  BY <1>1
<1> HIDE DEF v
<1>3. a \in Seq(Seq(Int)) /\ Len(a) = n + 1 /\ a[n + 1] = v
      /\ \A j \in 1 .. n : a[j] = list[j]
  BY <1>2, AppendProperties
<1> HIDE DEF a
<1>4. \A j \in 1 .. n + 1 : j \in 1 .. n \/ j = n + 1
  BY <1>1
<1>5. \A j \in 1 .. n + 1 : m[j] = a[j]
  BY <1>3, <1>4 DEF v
<1>6. /\ m \in Seq(Seq(Int)) /\ a \in Seq(Seq(Int)) /\ Len(m) = Len(a)
      /\ \A j \in 1 .. Len(m) : m[j] = a[j]
  BY <1>3, <1>5
<1>7. m = a
  BY ONLY <1>6, SeqEqual, Zenon
<1>8. FlattenSeq(a) = FlattenSeq(list) \o v
  BY <1>2, FlattenAppend DEF a
<1>9. QED
  BY <1>2, <1>7, <1>8 DEF v

\* A node more.
LEMMA SaysNode ==
  ASSUME NEW s, s \in Pairs, NEW r, r \in Pairs, NEW v, v \in Seq(Int),
         r.c.sentlen = s.c.sentlen, r.c.buf = s.c.buf,
         Len(r.c.reply) = Len(s.c.reply) + 1,
         \A j \in 1 .. Len(s.c.reply) : r.heap[r.c.reply[j]].bytes = s.heap[s.c.reply[j]].bytes,
         r.heap[r.c.reply[Len(s.c.reply) + 1]].bytes = v
  PROVE  /\ Says(s, r, v)
         /\ \A w \in Seq(Int) : All(r, Len(r.c.reply), w) = All(s, 0, <<>>) \o w
<1> DEFINE n == Len(s.c.reply)
<1>1. n \in Nat /\ n + 1 \in 1 .. n + 1 /\ 0 # n + 1
      /\ \A j \in 1 .. n : j \in 1 .. n + 1 /\ j # n + 1 /\ j # 0
  BY PartsType, SMTT(60)
<1>2. \A w \in Seq(Int), x \in Seq(Int) :
        (s.c.buf \o w) \o x = s.c.buf \o (w \o x)
  BY PartsType, Chains
<1>3. ASSUME NEW i, i = 0 \/ Waits(s, i), NEW w \in Seq(Int)
      PROVE  All(r, i, w) = All(s, i, w) \o v
  <2> DEFINE list == Parts(s, i, w)
             m == Parts(r, i, w)
  <2>1. i # n + 1
    <3>1. i = 0 \/ i \in 1 .. n
      BY <1>3 DEF Waits
    <3>2. QED
      BY <3>1, <1>1
  <2>2. /\ list \in Seq(Seq(Int)) /\ Len(list) = n
        /\ m \in Seq(Seq(Int)) /\ Len(m) = n + 1
        /\ FlattenSeq(list) \in Seq(Int)
    BY PartsType
  <2>3. m[n + 1] = v
    BY <1>1, <2>1 DEF Parts
  <2>4. \A j \in 1 .. n : m[j] = list[j]
    BY <1>1 DEF Parts
  <2> HIDE DEF list, m, n
  <2>5. FlattenSeq(m) = FlattenSeq(list) \o v
    BY <2>2, <2>3, <2>4, FlattenNode
  <2>6. (s.c.buf \o FlattenSeq(list)) \o v = s.c.buf \o (FlattenSeq(list) \o v)
    BY <1>2, <2>2
  <2>7. QED
    BY <2>5, <2>6 DEF All, list, m
<1>4. ASSUME NEW w \in Seq(Int)
      PROVE  All(r, n + 1, w) = All(s, 0, <<>>) \o w
  <2> DEFINE e == <<>>
             list == Parts(s, 0, e)
             m == Parts(r, n + 1, w)
  <2>1. e \in Seq(Int)
    OBVIOUS
  <2> HIDE DEF e
  <2>2. /\ list \in Seq(Seq(Int)) /\ Len(list) = n
        /\ m \in Seq(Seq(Int)) /\ Len(m) = n + 1
        /\ FlattenSeq(list) \in Seq(Int)
    BY <2>1, PartsType
  <2>3. m[n + 1] = w
    BY <1>1 DEF Parts
  <2>4. \A j \in 1 .. n : m[j] = list[j]
    BY <1>1 DEF Parts
  <2> HIDE DEF list, m, n
  <2>5. FlattenSeq(m) = FlattenSeq(list) \o w
    BY <2>2, <2>3, <2>4, FlattenNode
  <2>6. (s.c.buf \o FlattenSeq(list)) \o w = s.c.buf \o (FlattenSeq(list) \o w)
    BY <1>2, <2>2
  <2>7. QED
    BY <2>5, <2>6 DEF All, list, m, e
<1>5. QED
  BY <1>3, <1>4 DEF Says

\* Nothing but the buffer.
LEMMA AllBuffer ==
  ASSUME NEW s, s \in Pairs, s.c.reply = <<>>
  PROVE  \A i : \A w \in Seq(Int) : All(s, i, w) = s.c.buf
<1> SUFFICES ASSUME NEW i, NEW w \in Seq(Int) PROVE All(s, i, w) = s.c.buf
  OBVIOUS
<1> DEFINE list == Parts(s, i, w)
<1>1. list \in Seq(Seq(Int)) /\ Len(list) = Len(s.c.reply) /\ s.c.buf \in Seq(Int)
  BY PartsType
<1>2. Len(s.c.reply) = 0
  OBVIOUS
<1> HIDE DEF list
<1>3. list = <<>>
  BY <1>1, <1>2
<1>4. FlattenSeq(list) = <<>>
  BY <1>3, FlattenAppend
<1>5. QED
  BY <1>1, <1>4, Chains DEF All, list

\* More bytes in the buffer.
LEMMA SaysBuffer ==
  ASSUME NEW s, s \in Pairs, NEW r, r \in Pairs, NEW v, v \in Seq(Int),
         r.c.sentlen = s.c.sentlen, s.c.reply = <<>>, r.c.reply = <<>>,
         r.c.buf = s.c.buf \o v
  PROVE  Says(s, r, v)
  BY AllBuffer DEF Says

\* One thing after the other.
LEMMA SaysOn ==
  ASSUME NEW s, s \in Pairs, NEW l, NEW r, NEW u, u \in Seq(Int), NEW v, v \in Seq(Int),
         Follows(s, l), Says(s, l, u), Says(l, r, v)
  PROVE  Says(s, r, u \o v)
<1>1. ASSUME NEW i, i = 0 \/ Waits(s, i), NEW w \in Seq(Int)
      PROVE  All(r, i, w) = All(s, i, w) \o (u \o v)
  <2>1. i = 0 \/ Waits(l, i)
    BY <1>1 DEF Follows
  <2>2. All(l, i, w) = All(s, i, w) \o u /\ All(r, i, w) = All(l, i, w) \o v
    BY <1>1, <2>1 DEF Says
  <2>3. All(s, i, w) \in Seq(Int)
    BY PartsType
  <2>4. (All(s, i, w) \o u) \o v = All(s, i, w) \o (u \o v)
    BY <2>3, Chains, SMTT(60)
  <2>5. QED
    BY <2>2, <2>4
<1>2. r.c.sentlen = s.c.sentlen
  BY DEF Says
<1>3. QED
  BY <1>1, <1>2 DEF Says

\* Nothing before or after it.
LEMMA SaysAround ==
  ASSUME NEW s, s \in Pairs, NEW l, NEW r, NEW v, v \in Seq(Int), Follows(s, l)
  PROVE  /\ Says(s, l, <<>>) /\ Says(l, r, v) => Says(s, r, v)
         /\ Says(s, l, v) /\ Says(l, r, <<>>) => Says(s, r, v)
<1> DEFINE e == <<>>
<1>1. e \in Seq(Int) /\ e \o v = v /\ v \o e = v
  BY Chains
<1> HIDE DEF e
<1>2. /\ Says(s, l, e) /\ Says(l, r, v) => Says(s, r, e \o v)
      /\ Says(s, l, v) /\ Says(l, r, e) => Says(s, r, v \o e)
  BY <1>1, SaysOn
<1>3. QED
  BY <1>1, <1>2 DEF e

\* Only the heap changes.
LEMMA HeapStep ==
  ASSUME NEW s, NEW own, Book(s, own),
         NEW g \in Heaps, NEW new \in [Objects -> Nat],
         NEW r, r = WithHeap(s, g),
         IsFiniteSet(Used(g)),
         \A o \in Objects :
           /\ g[o].refs = RefsIn(s.c.reply, o) + new[o]
           /\ g[o].refs = 0 => g[o] = Free
           /\ g[o].enc = "int" => g[o].bytes \in Numbers
           /\ RefsIn(s.c.reply, o) # 0 =>
                g[o].enc = s.heap[o].enc /\ g[o].bytes = s.heap[o].bytes
  PROVE  /\ Book(r, new)
         /\ (\A i \in 1 .. Len(s.c.reply) : own[s.c.reply[i]] = 0 => new[s.c.reply[i]] = 0)
              => Follows(s, r)
         /\ Says(s, r, <<>>)
         /\ r.heap = g /\ r.c = s.c
<1>1. s \in Pairs /\ s.c.reply \in Seq(Objects) /\ s.heap \in Heaps
  BY FieldTypes DEF Book
<1>2. r \in Pairs /\ r.heap = g /\ r.c = s.c
  BY <1>1, WithHeapIs
<1>3. ASSUME NEW i \in 1 .. Len(s.c.reply)
      PROVE  /\ s.c.reply[i] \in Objects
             /\ g[s.c.reply[i]].enc = s.heap[s.c.reply[i]].enc
             /\ g[s.c.reply[i]].bytes = s.heap[s.c.reply[i]].bytes
  <2>1. s.c.reply[i] \in Objects
    BY <1>1
  <2>2. RefsIn(s.c.reply, s.c.reply[i]) # 0
    BY <1>1, RefsInType, ZenonT(60)
  <2>3. QED
    BY <2>1, <2>2
<1>4. Takes(g, s.c.reply, s.c.reply_bytes)
  <2>1. \A i \in 1 .. Len(s.c.reply) : Memory(g[s.c.reply[i]]) = Memory(s.heap[s.c.reply[i]])
    BY <1>3 DEF Memory
  <2>2. QED
    BY <1>1, <2>1, TakesFrame, ZenonT(60) DEF Book
<1>5. First(r) = First(s)
  <2>1. s.c.reply # <<>> => 1 \in 1 .. Len(s.c.reply)
    BY <1>1
  <2>2. QED
    BY <1>2, <1>3, <2>1 DEF First, Nothing
<1>6. Book(r, new)
  BY <1>2, <1>4, <1>5 DEF Book
<1>7. ASSUME \A i \in 1 .. Len(s.c.reply) : own[s.c.reply[i]] = 0 => new[s.c.reply[i]] = 0
      PROVE  Follows(s, r)
  <2>1. ASSUME NEW i, Waits(s, i) PROVE Waits(r, i)
    <3> DEFINE o == s.c.reply[i]
    <3>1. o \in Objects /\ own[o] = 0 /\ i \in 1 .. Len(s.c.reply) /\ s.heap[o].refs = 1
      BY <2>1, WaitingIsOurs, SingleIs DEF Waits
    <3>2. new[o] = 0
      BY <3>1, <1>7
    <3>3. RefsIn(s.c.reply, o) \in Nat
      BY <1>1, RefsInType
    <3>4. g[o].refs = 1
      BY <3>1, <3>2, <3>3, SMTT(40) DEF Book
    <3>5. g[o].enc = "none" /\ g[o].bytes = <<>>
      BY <1>3, <3>1, <2>1, SingleIs DEF Waits
    <3>6. g[o] \in Object
      BY <3>1 DEF Heaps
    <3>7. g[o] = Single("none", <<>>)
      BY <3>4, <3>5, <3>6, SingleIs
    <3>8. QED
      BY <3>1, <3>7, <1>2 DEF Waits
  <2>2. QED
    BY <2>1, <1>2 DEF Follows, Nothing
<1>8. Says(s, r, <<>>)
  BY <1>1, <1>2, <1>3, SaysSame
<1>9. QED
  BY <1>2, <1>6, <1>7, <1>8
-----------------------------------------------------------------------------
(* Objects.                                                                *)

\* Memory does not run out: the server stops when an allocation fails.
MemoryUnbounded == ~ IsFiniteSet(Objects)

\* There is always memory that is free.
LEMMA NewIsFree ==
  ASSUME MemoryUnbounded, NEW h, IsFiniteSet(Used(h))
  PROVE  New(h) \in Objects /\ h[New(h)].refs = 0
<1>1. \E o \in Objects : h[o].refs = 0
  <2> SUFFICES ASSUME \A o \in Objects : h[o].refs # 0 PROVE FALSE
    OBVIOUS
  <2>1. Used(h) = Objects
    BY DEF Used
  <2>2. QED
    BY <2>1 DEF MemoryUnbounded
<1>2. QED
  BY <1>1 DEF New

\* A reference more.
LEMMA IncrBook ==
  ASSUME NEW s, NEW own, Book(s, own), NEW o \in Objects, own[o] # 0,
         NEW r, r = WithHeap(s, incrRefCount(s.heap, o))
  PROVE  /\ Book(r, With(own, o, own[o] + 1))
         /\ Follows(s, r) /\ Keeps(s, r, own) /\ Says(s, r, <<>>)
         /\ r.c = s.c
         /\ r.heap[o].enc = s.heap[o].enc /\ r.heap[o].bytes = s.heap[o].bytes
<1> DEFINE h == s.heap
           g == incrRefCount(h, o)
           new == With(own, o, own[o] + 1)
<1>1. /\ h \in Heaps /\ own \in [Objects -> Nat] /\ s.c.reply \in Seq(Objects)
      /\ \A p \in Objects : h[p] \in Object /\ RefsIn(s.c.reply, p) \in Nat
  <2>1. h \in Heaps /\ own \in [Objects -> Nat] /\ s.c.reply \in Seq(Objects)
    BY FieldTypes DEF Book
  <2>2. \A p \in Objects : RefsIn(s.c.reply, p) \in Nat
    BY <2>1, RefsInType
  <2>3. QED
    BY <2>1, <2>2 DEF Heaps
<1>2. new \in [Objects -> Nat] /\ \A p \in Objects : new[p] = IF p = o THEN own[p] + 1 ELSE own[p]
  <2>1. own[o] + 1 \in Nat
    BY <1>1
  <2>2. QED
    BY <2>1, <1>1 DEF With
<1>3. \A p \in Objects :
        /\ p # o => g[p] = h[p]
        /\ g[o] = [refs |-> h[o].refs + 1, enc |-> h[o].enc, bytes |-> h[o].bytes]
  BY <1>1 DEF incrRefCount, Heaps, Object
<1>4. g \in Heaps
  <2>1. g[o] \in Object
    BY <1>1, <1>3 DEF Object
  <2>2. \A p \in Objects : g[p] \in Object
    BY <2>1, <1>1, <1>3
  <2>3. DOMAIN g = Objects /\ g = [p \in DOMAIN g |-> g[p]]
    BY <1>1 DEF incrRefCount, Heaps
  <2> HIDE DEF g
  <2>4. QED
    BY <2>2, <2>3 DEF Heaps
<1>5. \A p \in Objects : h[p].refs \in Nat /\ h[p].refs = RefsIn(s.c.reply, p) + own[p]
  BY <1>1 DEF Book, Object
<1> HIDE DEF g, new
<1>6. IsFiniteSet(Used(g))
  <2>1. Used(g) \subseteq Used(h) \cup {o}
    BY <1>3 DEF Used
  <2>2. IsFiniteSet(Used(h) \cup {o})
    BY FS_AddElement DEF Book
  <2>3. QED
    BY <2>1, <2>2, FS_Subset
<1>7. \A p \in Objects :
        /\ g[p].refs = RefsIn(s.c.reply, p) + new[p]
        /\ g[p].refs = 0 => g[p] = Free
        /\ g[p].enc = "int" => g[p].bytes \in Numbers
        /\ g[p].enc = h[p].enc /\ g[p].bytes = h[p].bytes
  <2>1. ASSUME NEW p \in Objects, p # o
        PROVE  /\ g[p].refs = RefsIn(s.c.reply, p) + new[p]
               /\ g[p].refs = 0 => g[p] = Free
               /\ g[p].enc = "int" => g[p].bytes \in Numbers
               /\ g[p].enc = h[p].enc /\ g[p].bytes = h[p].bytes
    BY <2>1, <1>2, <1>3, <1>5 DEF Book
  <2>2. /\ g[o].refs = RefsIn(s.c.reply, o) + new[o] /\ g[o].refs # 0
        /\ g[o].enc = h[o].enc /\ g[o].bytes = h[o].bytes
    <3>1. new[o] = own[o] + 1 /\ own[o] \in Nat /\ RefsIn(s.c.reply, o) \in Nat
      BY <1>1, <1>2
    <3>2. h[o].refs = RefsIn(s.c.reply, o) + own[o]
      BY <1>5
    <3>3. g[o].refs = h[o].refs + 1 /\ g[o].enc = h[o].enc /\ g[o].bytes = h[o].bytes
      BY <1>3
    <3>4. QED
      BY <3>1, <3>2, <3>3
  <2>3. g[o].enc = "int" => g[o].bytes \in Numbers
    BY <2>2 DEF Book
  <2>4. QED
    BY <2>1, <2>2, <2>3
<1>8. \A i \in 1 .. Len(s.c.reply) : own[s.c.reply[i]] = 0 => new[s.c.reply[i]] = 0
  <2>1. \A i \in 1 .. Len(s.c.reply) : s.c.reply[i] \in Objects
    BY <1>1
  <2>2. QED
    BY <2>1, <1>1, <1>2, <1>3
<1>9. Book(r, new) /\ Follows(s, r) /\ Says(s, r, <<>>) /\ r.heap = g /\ r.c = s.c
  BY <1>2, <1>4, <1>6, <1>7, <1>8, HeapStep DEF g
<1>10. QED
  BY <1>7, <1>9 DEF Keeps, new

\* An object that an own function speaks about.
LEMMA BookTypes ==
  ASSUME NEW s, NEW own, Book(s, own)
  PROVE  /\ s \in Pairs /\ own \in [Objects -> Nat]
         /\ s.heap \in Heaps /\ s.c.reply \in Seq(Objects)
         /\ \A p \in Objects :
              /\ s.heap[p] \in Object
              /\ s.heap[p].refs \in Nat /\ RefsIn(s.c.reply, p) \in Nat /\ own[p] \in Nat
              /\ s.heap[p].refs = RefsIn(s.c.reply, p) + own[p]
         /\ \A i \in 1 .. Len(s.c.reply) :
              s.c.reply[i] \in Objects /\ RefsIn(s.c.reply, s.c.reply[i]) # 0
<1>1. /\ s \in Pairs /\ own \in [Objects -> Nat]
      /\ s.heap \in Heaps /\ s.c.reply \in Seq(Objects)
  BY FieldTypes DEF Book
<1>2. \A p : /\ RefsIn(s.c.reply, p) \in Nat
             /\ RefsIn(s.c.reply, p) = 0 <=> \A j \in 1 .. Len(s.c.reply) : s.c.reply[j] # p
  BY <1>1, RefsInType
<1>3. \A p \in Objects : s.heap[p] \in Object /\ own[p] \in Nat
  BY <1>1 DEF Heaps
<1>4. \A p \in Objects : s.heap[p].refs \in Nat /\ s.heap[p].refs = RefsIn(s.c.reply, p) + own[p]
  BY <1>3 DEF Object, Book
<1>5. \A i \in 1 .. Len(s.c.reply) :
        s.c.reply[i] \in Objects /\ RefsIn(s.c.reply, s.c.reply[i]) # 0
  BY <1>1, <1>2
<1>6. QED
  BY <1>1, <1>2, <1>3, <1>4, <1>5

\* The pair r, with a new object n.
Creates(s, own, enc, bytes, n, r) ==
  /\ Book(s, own)
  /\ enc \in {"none", "raw", "embstr", "int"} /\ bytes \in Seq(Int)
  /\ enc = "int" => bytes \in Numbers
  /\ n = New(s.heap)
  /\ r = WithHeap(s, createObject(s.heap, enc, bytes))

\* A new object has one reference.
LEMMA CreateBook ==
  ASSUME MemoryUnbounded, NEW s, NEW own, NEW enc, NEW bytes, NEW n, NEW r,
         Creates(s, own, enc, bytes, n, r)
  PROVE  /\ Book(r, With(own, n, 1))
         /\ Follows(s, r) /\ Keeps(s, r, own) /\ Says(s, r, <<>>)
         /\ r.c = s.c
         /\ n \in Objects /\ own[n] = 0
         /\ \A i \in 1 .. Len(s.c.reply) : s.c.reply[i] # n
         /\ r.heap[n] = Single(enc, bytes)
         /\ \A p \in Objects : p # n => r.heap[p] = s.heap[p]
<1> DEFINE h == s.heap
           x == Single(enc, bytes)
           g == createObject(h, enc, bytes)
           new == With(own, n, 1)
<1>0. /\ Book(s, own)
      /\ enc \in {"none", "raw", "embstr", "int"} /\ bytes \in Seq(Int)
      /\ enc = "int" => bytes \in Numbers
      /\ n = New(h)
      /\ r = WithHeap(s, g)
  BY DEF Creates
<1> USE <1>0
<1>1. n \in Objects /\ h[n].refs = 0
  BY NewIsFree DEF Book
<1>2. own \in [Objects -> Nat] /\ h \in Heaps
  BY BookTypes
<1>3. RefsIn(s.c.reply, n) = 0 /\ own[n] = 0
  <2>1. RefsIn(s.c.reply, n) + own[n] = 0 /\ RefsIn(s.c.reply, n) \in Nat /\ own[n] \in Nat
    BY <1>1, BookTypes
  <2>2. QED
    BY <2>1
<1>4. \A i \in 1 .. Len(s.c.reply) : s.c.reply[i] # n
  BY <1>3, BookTypes
<1>5. x \in Object /\ x.refs = 1 /\ x.enc = enc /\ x.bytes = bytes
  BY DEF Object, Single
<1>6. g = [h EXCEPT ![n] = x]
  BY DEF createObject, Single
<1> HIDE DEF g, x
<1>7. g \in Heaps /\ g[n] = x /\ \A p \in Objects : p # n => g[p] = h[p]
  BY <1>1, <1>2, <1>5, <1>6 DEF Heaps
<1>8. new \in [Objects -> Nat] /\ new[n] = 1 /\ \A p \in Objects : p # n => new[p] = own[p]
  BY <1>1, <1>2 DEF With
<1> HIDE DEF new
<1>9. IsFiniteSet(Used(g))
  <2>1. Used(g) \subseteq Used(h) \cup {n}
    BY <1>7 DEF Used
  <2>2. IsFiniteSet(Used(h) \cup {n})
    BY FS_AddElement DEF Book
  <2>3. QED
    BY <2>1, <2>2, FS_Subset
<1>10. ASSUME NEW p \in Objects
       PROVE  /\ g[p].refs = RefsIn(s.c.reply, p) + new[p]
              /\ g[p].refs = 0 => g[p] = Free
              /\ g[p].enc = "int" => g[p].bytes \in Numbers
              /\ RefsIn(s.c.reply, p) # 0 => g[p].enc = h[p].enc /\ g[p].bytes = h[p].bytes
  <2>1. CASE p = n
    BY <2>1, <1>3, <1>5, <1>7, <1>8
  <2>2. CASE p # n
    BY <2>2, <1>7, <1>8 DEF Book
  <2>3. QED
    BY <2>1, <2>2
<1>11. \A i \in 1 .. Len(s.c.reply) : own[s.c.reply[i]] = 0 => new[s.c.reply[i]] = 0
  BY <1>4, <1>8, BookTypes
<1>12. Book(r, new) /\ Follows(s, r) /\ Says(s, r, <<>>) /\ r.heap = g /\ r.c = s.c
  BY <1>7, <1>8, <1>9, <1>10, <1>11, HeapStep DEF g
<1>13. QED
  BY <1>1, <1>3, <1>4, <1>7, <1>12 DEF Keeps, new, x

\* A reference less.
LEMMA DecrBook ==
  ASSUME NEW s, NEW own, Book(s, own), NEW o \in Objects, own[o] # 0,
         NEW r, r = WithHeap(s, decrRefCount(s.heap, o))
  PROVE  /\ Book(r, With(own, o, own[o] - 1))
         /\ Follows(s, r) /\ Keeps(s, r, With(own, o, own[o] - 1))
         /\ Says(s, r, <<>>) /\ r.c = s.c
         /\ \A p \in Objects : p # o => r.heap[p] = s.heap[p]
<1> DEFINE h == s.heap
           g == decrRefCount(h, o)
           new == With(own, o, own[o] - 1)
<1>1. /\ own \in [Objects -> Nat] /\ h \in Heaps
      /\ h[o] \in Object /\ h[o].refs \in Nat /\ RefsIn(s.c.reply, o) \in Nat /\ own[o] \in Nat
      /\ h[o].refs = RefsIn(s.c.reply, o) + own[o]
  BY BookTypes
<1>2. new \in [Objects -> Nat] /\ new[o] = own[o] - 1 /\ \A p \in Objects : p # o => new[p] = own[p]
  BY <1>1 DEF With
<1> DEFINE x == IF h[o].refs = 1 THEN Free
                ELSE [refs |-> h[o].refs - 1, enc |-> h[o].enc, bytes |-> h[o].bytes]
<1>3. g = [h EXCEPT ![o] = x]
  <2>1. [h[o] EXCEPT !.refs = h[o].refs - 1] =
          [refs |-> h[o].refs - 1, enc |-> h[o].enc, bytes |-> h[o].bytes]
    <3> DEFINE y == h[o]
    <3>1. y = [refs |-> y.refs, enc |-> y.enc, bytes |-> y.bytes]
      BY <1>1 DEF Object
    <3> HIDE DEF y
    <3>2. [y EXCEPT !.refs = y.refs - 1] =
            [refs |-> y.refs - 1, enc |-> y.enc, bytes |-> y.bytes]
      BY <3>1
    <3>3. QED
      BY <3>2 DEF y
  <2>2. g = IF h[o].refs = 1 THEN [h EXCEPT ![o] = Free]
            ELSE [h EXCEPT ![o] = [h[o] EXCEPT !.refs = h[o].refs - 1]]
    BY DEF decrRefCount
  <2> HIDE DEF g
  <2>3. QED
    BY <2>1, <2>2
<1>4. x \in Object
  BY <1>1 DEF Object, Free
<1>5. /\ x.refs = RefsIn(s.c.reply, o) + new[o]
      /\ x.refs = 0 => x = Free
      /\ x.enc = "int" => x.bytes \in Numbers
      /\ RefsIn(s.c.reply, o) # 0 => x.enc = h[o].enc /\ x.bytes = h[o].bytes
      /\ new[o] # 0 => x.enc = h[o].enc /\ x.bytes = h[o].bytes
  <2>1. CASE h[o].refs = 1
    <3>1. RefsIn(s.c.reply, o) = 0 /\ new[o] = 0 /\ x = Free
      BY <2>1, <1>1, <1>2
    <3>2. QED
      BY <3>1 DEF Free
  <2>2. CASE h[o].refs # 1
    <3>1. /\ x.refs = h[o].refs - 1 /\ x.enc = h[o].enc /\ x.bytes = h[o].bytes /\ x.refs # 0
      BY <2>2, <1>1
    <3> HIDE DEF x
    <3>2. h[o].enc = "int" => h[o].bytes \in Numbers
      BY DEF Book
    <3>3. QED
      BY <3>1, <3>2, <1>1, <1>2
  <2>3. QED
    BY <2>1, <2>2
<1> HIDE DEF g, x
<1>6. g \in Heaps /\ g[o] = x /\ \A p \in Objects : p # o => g[p] = h[p]
  BY <1>1, <1>3, <1>4 DEF Heaps
<1> HIDE DEF new
<1>7. IsFiniteSet(Used(g))
  <2>1. Used(g) \subseteq Used(h)
    <3>1. h[o].refs # 0
      BY <1>1
    <3>2. QED
      BY <3>1, <1>6 DEF Used
  <2>2. QED
    BY <2>1, FS_Subset DEF Book
<1>8. ASSUME NEW p \in Objects
       PROVE  /\ g[p].refs = RefsIn(s.c.reply, p) + new[p]
              /\ g[p].refs = 0 => g[p] = Free
              /\ g[p].enc = "int" => g[p].bytes \in Numbers
              /\ RefsIn(s.c.reply, p) # 0 => g[p].enc = h[p].enc /\ g[p].bytes = h[p].bytes
              /\ new[p] # 0 => g[p].enc = h[p].enc /\ g[p].bytes = h[p].bytes
  <2>1. CASE p = o
    BY <2>1, <1>5, <1>6
  <2>2. CASE p # o
    BY <2>2, <1>2, <1>6 DEF Book
  <2>3. QED
    BY <2>1, <2>2
<1>9. \A i \in 1 .. Len(s.c.reply) : own[s.c.reply[i]] = 0 => new[s.c.reply[i]] = 0
  BY <1>2, BookTypes
<1>10. Book(r, new) /\ Follows(s, r) /\ Says(s, r, <<>>) /\ r.heap = g /\ r.c = s.c
  BY <1>2, <1>6, <1>7, <1>8, <1>9, HeapStep DEF g
<1>11. QED
  BY <1>6, <1>8, <1>10 DEF Keeps, new
-----------------------------------------------------------------------------
(* The list.                                                               *)

\* A node for an object that the function has a reference to: it is the list's.
LEMMA AppendNodeBook ==
  ASSUME NEW s, NEW own, Book(s, own), NEW o \in Objects, own[o] # 0,
         NEW r, r = AppendNode(s, o)
  PROVE  /\ Book(r, With(own, o, own[o] - 1))
         /\ Follows(s, r) /\ ~ Nothing(r)
         /\ Keeps(s, r, own) /\ \A p \in Objects : r.heap[p] = s.heap[p]
         /\ Says(s, r, s.heap[o].bytes)
         /\ \A w \in Seq(Int) : All(r, Len(r.c.reply), w) = All(s, 0, <<>>) \o w
         /\ r.c.reply = Append(s.c.reply, o)
<1> DEFINE h == s.heap
           list == s.c.reply
           m == Append(list, o)
           n == s.c.reply_bytes + Memory(h[o])
           new == With(own, o, own[o] - 1)
<1>1. /\ s \in Pairs /\ own \in [Objects -> Nat] /\ h \in Heaps /\ list \in Seq(Objects)
      /\ h[o] \in Object /\ own[o] \in Nat
  BY BookTypes
<1>2. /\ s.c.buf \in Seq(Int) /\ s.c.sentlen \in Nat /\ s.c.handler \in {TRUE, FALSE}
      /\ s.c.state \in States /\ s.c.reply_bytes \in Int
      /\ Is(s, h, s.c.buf, list, s.c.reply_bytes, s.c.sentlen, s.c.handler, s.c.state)
  BY <1>1, FieldTypes
<1>3. m \in Seq(Objects) /\ Len(m) = Len(list) + 1 /\ m # <<>>
      /\ m[Len(list) + 1] = o /\ \A i \in 1 .. Len(list) : m[i] = list[i]
  BY <1>1, SMTT(40)
<1>4. n \in Int
  BY <1>1, <1>2, MemoryType
<1>5. Is(r, h, s.c.buf, m, n, s.c.sentlen, s.c.handler, s.c.state)
  BY <1>2, Updates, Zenon DEF AppendNode
<1>6. Takes(h, m, n)
  BY <1>1, TakesAppend DEF Book
<1> HIDE DEF n
<1>7. /\ r \in Pairs /\ r.heap = h /\ r.c.buf = s.c.buf /\ r.c.reply = m
      /\ r.c.reply_bytes = n /\ r.c.sentlen = s.c.sentlen /\ r.c.handler = s.c.handler
      /\ r.c.state = s.c.state
  <2> HIDE DEF m
  <2>1. h \in Heaps /\ m \in Seq(Objects)
    BY <1>1, <1>3
  <2>2. /\ r.heap = h /\ r.c.buf = s.c.buf /\ r.c.reply = m
        /\ r.c.reply_bytes = n /\ r.c.sentlen = s.c.sentlen /\ r.c.handler = s.c.handler
        /\ r.c.state = s.c.state /\ Shaped(r)
    BY <1>5, IsFields
  <2>3. QED
    BY <2>1, <2>2, <1>2, <1>4, ShapedPair
<1>8. new \in [Objects -> Nat] /\ new[o] = own[o] - 1 /\ \A p \in Objects : p # o => new[p] = own[p]
  BY <1>1 DEF With
<1> HIDE DEF new
<1>9. ASSUME NEW p \in Objects
      PROVE  h[p].refs = RefsIn(m, p) + new[p]
  <2>1. RefsIn(m, p) = RefsIn(list, p) + (IF o = p THEN 1 ELSE 0)
    BY <1>1, RefsInAppend
  <2>2. h[p].refs = RefsIn(list, p) + own[p] /\ RefsIn(list, p) \in Nat /\ own[p] \in Nat
    BY BookTypes
  <2> HIDE DEF m, list
  <2>3. QED
    BY <2>1, <2>2, <1>8
<1>10. ~ Nothing(r) /\ (~ Nothing(s) => First(r) = First(s)) /\ (Nothing(s) => First(s) = <<>>)
  <2>1. list # <<>> => m[1] = list[1]
    BY <1>1, <1>3
  <2> HIDE DEF m
  <2>2. QED
    BY <2>1, <1>3, <1>7 DEF First, Nothing
<1>11. r.c.sentlen <= Len(First(r))
  <2>1. CASE Nothing(s)
    <3>1. s.c.sentlen = 0
      BY <2>1, <1>2, <1>10 DEF Book
    <3>2. First(r) \in Seq(Int)
      <4>1. m[1] \in Objects
        BY <1>3, <1>1
      <4>2. h[m[1]].bytes \in Seq(Int)
        BY <4>1, <1>1 DEF Heaps, Object
      <4> HIDE DEF m
      <4>3. QED
        BY <4>2, <1>2, <1>7 DEF First
    <3>3. Len(First(r)) \in Nat
      BY <3>2
    <3>4. QED
      BY <3>1, <3>3, <1>7
  <2>2. CASE ~ Nothing(s)
    BY <2>2, <1>7, <1>10 DEF Book
  <2>3. QED
    BY <2>1, <2>2
<1> HIDE DEF m
<1>12. Book(r, new)
  BY <1>6, <1>7, <1>8, <1>9, <1>11 DEF Book
<1>13. ASSUME NEW i, Waits(s, i) PROVE Waits(r, i)
  BY <1>13, <1>3, <1>7 DEF Waits
<1>14. Says(s, r, h[o].bytes)
       /\ \A w \in Seq(Int) : All(r, Len(r.c.reply), w) = All(s, 0, <<>>) \o w
  <2> HIDE DEF list, h
  <2>1. /\ Len(m) = Len(list) + 1 /\ h[m[Len(list) + 1]].bytes = h[o].bytes
        /\ \A j \in 1 .. Len(list) : h[m[j]].bytes = h[list[j]].bytes
    BY <1>3
  <2>2. h[o].bytes \in Seq(Int)
    BY <1>1 DEF Object
  <2>3. QED
    BY <2>1, <2>2, <1>1, <1>7, SaysNode, ZenonT(60) DEF list, h
<1>15. QED
  BY <1>7, <1>10, <1>12, <1>13, <1>14 DEF Follows, Keeps, new, m

\* The reply starts with what waits in the buffer or in the first node.
LEMMA FirstType ==
  ASSUME NEW s \in Pairs
  PROVE  /\ First(s) \in Seq(Int)
         /\ Len(First(s)) \in Nat
         /\ Nothing(s) => Len(First(s)) = 0
<1>1. s.heap \in Heaps /\ s.c.buf \in Seq(Int) /\ s.c.reply \in Seq(Objects)
  BY FieldTypes
<1>2. s.c.reply # <<>> => s.heap[s.c.reply[1]].bytes \in Seq(Int)
  <2>1. s.c.reply # <<>> => s.c.reply[1] \in Objects
    BY <1>1
  <2>2. QED
    BY <1>1, <2>1 DEF Heaps, Object
<1>3. First(s) \in Seq(Int)
  BY <1>1, <1>2 DEF First, Nothing
<1>4. Nothing(s) => First(s) = <<>>
  BY DEF First
<1>5. QED
  BY <1>3, <1>4

\* An object that only the list refers to, in the i-th node, becomes x.
Mends(s, own, i, x, d, r) ==
  LET o == s.c.reply[i]
  IN  /\ Book(s, own)
      /\ i \in 1 .. Len(s.c.reply)
      /\ own[o] = 0 /\ s.heap[o].refs = 1
      /\ x \in Object /\ x.refs = 1 /\ x.enc # "int"
      /\ d \in Int /\ Memory(x) = Memory(s.heap[o]) + d
      /\ Len(s.heap[o].bytes) <= Len(x.bytes)
      /\ r.heap \in Heaps /\ r.heap[o] = x
      /\ \A p \in Objects : p # o => r.heap[p] = s.heap[p]
      /\ Is(r, r.heap, s.c.buf, s.c.reply, s.c.reply_bytes + d,
            s.c.sentlen, s.c.handler, s.c.state)

\* The book stays right, and the list takes d bytes more.
LEMMA MendBook ==
  ASSUME NEW s, NEW own, NEW i, NEW x, NEW d, NEW r, Mends(s, own, i, x, d, r)
  PROVE  /\ Book(r, own) /\ Keeps(s, r, own)
         /\ ~ Nothing(r)
         /\ r.c.state = s.c.state /\ r.c.handler = s.c.handler
         /\ r.c.reply = s.c.reply /\ r.c.buf = s.c.buf /\ r.c.sentlen = s.c.sentlen
         /\ r.heap[s.c.reply[i]] = x
         /\ \A p \in Objects : p # s.c.reply[i] => r.heap[p] = s.heap[p]
         /\ \A j : Waits(s, j) /\ j # i => Waits(r, j)
         /\ \A j \in 1 .. Len(s.c.reply) : s.c.reply[j] = s.c.reply[i] => j = i
<1> DEFINE h == s.heap
           list == s.c.reply
           o == s.c.reply[i]
           g == r.heap
           n == s.c.reply_bytes + d
<1>0. /\ Book(s, own)
      /\ i \in 1 .. Len(list)
      /\ own[o] = 0 /\ h[o].refs = 1
      /\ x \in Object /\ x.refs = 1 /\ x.enc # "int"
      /\ d \in Int /\ Memory(x) = Memory(h[o]) + d
      /\ Len(h[o].bytes) <= Len(x.bytes)
      /\ g \in Heaps /\ g[o] = x
      /\ \A p \in Objects : p # o => g[p] = h[p]
      /\ Is(r, g, s.c.buf, list, n, s.c.sentlen, s.c.handler, s.c.state)
  BY DEF Mends
<1> USE <1>0
<1>1. /\ s \in Pairs /\ own \in [Objects -> Nat] /\ h \in Heaps /\ list \in Seq(Objects)
      /\ o \in Objects
  BY BookTypes
<1>2. /\ s.c.buf \in Seq(Int) /\ s.c.sentlen \in Nat /\ s.c.handler \in {TRUE, FALSE}
      /\ s.c.state \in States /\ s.c.reply_bytes \in Int
  BY <1>1, FieldTypes
<1>3. /\ r.heap = g /\ r.c.buf = s.c.buf /\ r.c.reply = list
      /\ r.c.reply_bytes = n /\ r.c.sentlen = s.c.sentlen
      /\ r.c.handler = s.c.handler /\ r.c.state = s.c.state /\ Shaped(r)
  <2> HIDE DEF g, n, list
  <2>1. QED
    BY IsFields DEF list
<1>4. g \in Heaps /\ g[o] = x /\ \A p \in Objects : p # o => g[p] = h[p]
  OBVIOUS
<1>5. r \in Pairs
  <2>1. n \in Int
    BY <1>2
  <2>2. QED
    BY <2>1, <1>1, <1>2, <1>3, <1>4, ShapedPair
<1>6. /\ RefsIn(list, o) = 1
      /\ \A j \in 1 .. Len(list) : list[j] = o => j = i
  <2>1. h[o].refs = RefsIn(list, o) + own[o] /\ RefsIn(list, o) \in Nat
    <3>1. \A p \in Objects :
            h[p].refs = RefsIn(list, p) + own[p] /\ RefsIn(list, p) \in Nat
      BY BookTypes
    <3> HIDE DEF o, h, list
    <3>2. QED
      BY <3>1, <1>1
  <2>2. RefsIn(list, o) = 1
    BY <2>1
  <2>3. QED
    BY <2>2, <1>1, RefsInType
<1>7. IsFiniteSet(Used(g))
  <2>1. Used(g) \subseteq Used(h)
    BY <1>4 DEF Used
  <2>2. QED
    BY <2>1, FS_Subset DEF Book
<1>8. ASSUME NEW p \in Objects
      PROVE  /\ g[p].refs = RefsIn(list, p) + own[p]
             /\ g[p].refs = 0 => g[p] = Free
             /\ g[p].enc = "int" => g[p].bytes \in Numbers
  <2>1. CASE p = o
    BY <2>1, <1>4, <1>6
  <2>2. CASE p # o
    BY <2>2, <1>4 DEF Book
  <2>3. QED
    BY <2>1, <2>2
<1>9. Takes(g, list, s.c.reply_bytes + d)
  <2>1. \A j \in 1 .. Len(list) : j # i => Memory(g[list[j]]) = Memory(h[list[j]])
    BY <1>1, <1>4, <1>6, SMTT(40)
  <2>2. Memory(g[list[i]]) = Memory(h[list[i]]) + d
    BY <1>4
  <2>3. Takes(h, list, s.c.reply_bytes)
    BY DEF Book
  <2>4. i \in 1 .. Len(list) /\ d \in Int /\ h \in Heaps /\ list \in Seq(Objects)
    BY <1>1
  <2> HIDE DEF h, list
  <2>6. QED
    BY ONLY <2>1, <2>2, <2>3, <2>4, TakesGrow
<1>10. ~ Nothing(s) /\ ~ Nothing(r)
  BY <1>3 DEF Nothing
<1>11. Len(First(s)) <= Len(First(r))
  <2>1. CASE s.c.buf # <<>>
    <3>1. First(r) = First(s)
      BY <2>1, <1>3, <1>10 DEF First
    <3>2. QED
      BY <3>1, <1>1, FirstType
  <2>2. CASE s.c.buf = <<>>
    <3>1. First(s) = h[list[1]].bytes /\ First(r) = g[list[1]].bytes
      BY <2>2, <1>3, <1>10 DEF First
    <3>2. CASE list[1] = o
      BY <3>1, <3>2, <1>4
    <3>3. CASE list[1] # o
      <4>1. list[1] \in Objects
        BY <1>1
      <4>2. First(r) = First(s)
        BY <3>1, <3>3, <4>1, <1>4
      <4>3. QED
        BY <4>2, <1>1, FirstType
    <3>4. QED
      BY <3>2, <3>3
  <2>3. QED
    BY <2>1, <2>2
<1>12. r.c.sentlen <= Len(First(r))
  <2>1. s.c.sentlen <= Len(First(s))
    BY DEF Book
  <2>2. Len(First(s)) \in Int /\ Len(First(r)) \in Int /\ s.c.sentlen \in Int
    BY <1>1, <1>2, <1>5, FirstType
  <2>3. QED
    BY <2>1, <2>2, <1>3, <1>11
<1>13. Book(r, own)
  <2>1. Len(r.c.buf) <= Chunk
    BY <1>3 DEF Book
  <2>2. QED
    BY <2>1, <1>1, <1>3, <1>5, <1>7, <1>8, <1>9, <1>12 DEF Book
<1>14. Keeps(s, r, own)
  BY <1>3, <1>4 DEF Keeps
<1>15. ASSUME NEW j, Waits(s, j), j # i PROVE Waits(r, j)
  <2>1. list[j] \in Objects /\ list[j] # o /\ j \in 1 .. Len(list)
    BY <1>1, <1>6, <1>15 DEF Waits
  <2>2. QED
    BY <2>1, <1>3, <1>4, <1>15 DEF Waits
<1>16. QED
  BY <1>3, <1>4, <1>6, <1>10, <1>13, <1>14, <1>15

\* The list gives up its i-th node.
CutsTo(s, own, i, m, sent, r) ==
  /\ Book(s, own)
  /\ Cut(s.c.reply, i, m)
  /\ sent \in Nat
  /\ IF i = 1 /\ s.c.buf = <<>> THEN sent = 0 ELSE sent = s.c.sentlen
  /\ Is(r, s.heap, s.c.buf, m, s.c.reply_bytes - Memory(s.heap[s.c.reply[i]]),
        sent, s.c.handler, s.c.state)

\* Its reference is the function's now.
LEMMA CutBook ==
  ASSUME NEW s, NEW own, NEW i, NEW m, NEW sent, NEW r, CutsTo(s, own, i, m, sent, r)
  PROVE  /\ Book(r, With(own, s.c.reply[i], own[s.c.reply[i]] + 1))
         /\ r.c.state = s.c.state /\ r.c.handler = s.c.handler
         /\ r.c.reply = m /\ r.c.buf = s.c.buf /\ r.heap = s.heap /\ r.c.sentlen = sent
<1> DEFINE h == s.heap
           list == s.c.reply
           o == s.c.reply[i]
           n == s.c.reply_bytes - Memory(h[o])
           new == With(own, o, own[o] + 1)
<1>0. /\ Book(s, own)
      /\ Cut(list, i, m)
      /\ sent \in Nat
      /\ IF i = 1 /\ s.c.buf = <<>> THEN sent = 0 ELSE sent = s.c.sentlen
      /\ Is(r, h, s.c.buf, m, n, sent, s.c.handler, s.c.state)
  BY DEF CutsTo
<1> USE <1>0
<1>1. /\ s \in Pairs /\ own \in [Objects -> Nat] /\ h \in Heaps /\ list \in Seq(Objects)
      /\ m \in Seq(Objects) /\ i \in 1 .. Len(list) /\ Len(list) = Len(m) + 1
      /\ \A j \in 1 .. Len(m) : m[j] = IF j < i THEN list[j] ELSE list[j + 1]
  BY BookTypes DEF Cut
<1>2. o \in Objects /\ h[o] \in Object
  BY <1>1, BookTypes
<1>3. /\ s.c.buf \in Seq(Int) /\ s.c.sentlen \in Nat /\ s.c.handler \in {TRUE, FALSE}
      /\ s.c.state \in States /\ s.c.reply_bytes \in Int
  BY <1>1, FieldTypes
<1>4. n \in Int
  BY <1>2, <1>3, MemoryType
<1>5. /\ r.heap = h /\ r.c.buf = s.c.buf /\ r.c.reply = m
      /\ r.c.reply_bytes = n /\ r.c.sentlen = sent
      /\ r.c.handler = s.c.handler /\ r.c.state = s.c.state /\ Shaped(r)
  BY IsFields
<1>6. r \in Pairs
  <2> HIDE DEF n
  <2>1. QED
    BY <1>1, <1>3, <1>4, <1>5, ShapedPair
<1>7. Takes(h, m, n)
  BY <1>1, TakesCut DEF Book
<1>8. new \in [Objects -> Nat] /\ \A p \in Objects : new[p] = own[p] + (IF o = p THEN 1 ELSE 0)
  BY <1>1, <1>2, SMTT(40) DEF With
<1> HIDE DEF n, new
<1>9. ASSUME NEW p \in Objects PROVE h[p].refs = RefsIn(m, p) + new[p]
  <2>1. RefsIn(list, p) = RefsIn(m, p) + (IF o = p THEN 1 ELSE 0)
    BY <1>1, RefsInCut
  <2>2. h[p].refs = RefsIn(list, p) + own[p] /\ RefsIn(list, p) \in Nat /\ own[p] \in Nat
    BY BookTypes
  <2>3. RefsIn(m, p) \in Nat
    BY <1>1, RefsInType
  <2> HIDE DEF list, o
  <2>4. QED
    BY <2>1, <2>2, <2>3, <1>8
<1>10. sent <= Len(First(r))
  <2>1. Len(First(r)) \in Nat
    BY <1>6, FirstType
  <2>2. CASE i = 1 /\ s.c.buf = <<>>
    BY <2>1, <2>2
  <2>3. CASE ~ (i = 1 /\ s.c.buf = <<>>)
    <3>1. First(r) = First(s)
      <4>1. CASE s.c.buf # <<>>
        BY <4>1, <1>5 DEF First, Nothing
      <4>2. CASE s.c.buf = <<>>
        <5>1. i # 1 /\ m # <<>> /\ list # <<>> /\ m[1] = list[1]
          <6>1. i # 1 /\ i \in 1 .. Len(list)
            BY <4>2, <2>3, <1>1
          <6>2. Len(m) \in Nat /\ Len(m) # 0 /\ 1 \in 1 .. Len(m) /\ 1 < i
            <7>1. Len(m) \in Nat /\ Len(list) = Len(m) + 1
              BY <1>1
            <7>2. QED
              BY <6>1, <7>1
          <6>3. m[1] = list[1]
            BY <6>2, <1>1
          <6>4. m # <<>> /\ list # <<>>
            <7>1. Len(m) # 0 /\ Len(list) # 0 /\ Len(<<>>) = 0
              BY <6>2, <1>1
            <7>2. QED
              BY <7>1
          <6>5. QED
            BY <6>1, <6>3, <6>4
        <5>2. QED
          BY <5>1, <4>2, <1>5 DEF First, Nothing
      <4>3. QED
        BY <4>1, <4>2
    <3>2. sent = s.c.sentlen
      BY <2>3
    <3>3. QED
      BY <3>1, <3>2 DEF Book
  <2>4. QED
    BY <2>2, <2>3
<1>11. Book(r, new)
  <2>1. Len(r.c.buf) <= Chunk
    BY <1>5 DEF Book
  <2>2. QED
    BY <2>1, <1>5, <1>6, <1>7, <1>8, <1>9, <1>10 DEF Book
<1>12. QED
  BY <1>5, <1>11 DEF new

\* The last node gets another object with the same string.
LEMMA SwapBook ==
  ASSUME NEW s, NEW own, Book(s, own), s.c.reply # <<>>,
         NEW n \in Objects, own[n] # 0,
         NEW o, o = Last(s.c.reply), n # o,
         s.heap[n].enc = s.heap[o].enc, s.heap[n].bytes = s.heap[o].bytes,
         NEW r,
         Is(r, s.heap, s.c.buf, Append(Front(s.c.reply), n),
            s.c.reply_bytes, s.c.sentlen, s.c.handler, s.c.state)
  PROVE  /\ Book(r, With(With(own, n, own[n] - 1), o, own[o] + 1))
         /\ ~ Nothing(r) /\ Says(s, r, <<>>)
         /\ r.c.state = s.c.state /\ r.c.handler = s.c.handler
         /\ r.heap = s.heap
         /\ Len(r.c.reply) = Len(s.c.reply) /\ Last(r.c.reply) = n
         /\ \A j \in 1 .. Len(s.c.reply) : j # Len(s.c.reply) => r.c.reply[j] = s.c.reply[j]
<1> DEFINE h == s.heap
           list == s.c.reply
           front == Front(list)
           m == Append(front, n)
           new == With(With(own, n, own[n] - 1), o, own[o] + 1)
<1>1. /\ s \in Pairs /\ own \in [Objects -> Nat] /\ h \in Heaps /\ list \in Seq(Objects)
  BY BookTypes
<1>2. /\ s.c.buf \in Seq(Int) /\ s.c.sentlen \in Nat /\ s.c.handler \in {TRUE, FALSE}
      /\ s.c.state \in States /\ s.c.reply_bytes \in Int
  BY <1>1, FieldTypes
<1>3. Cut(list, Len(list), front) /\ o \in Objects /\ o = list[Len(list)]
  <2>1. Cut(list, Len(list), front) /\ Last(list) \in Objects
    BY <1>1, Cuts
  <2>2. QED
    BY <2>1 DEF Last
<1>4. /\ front \in Seq(Objects) /\ Len(list) = Len(front) + 1
      /\ \A j \in 1 .. Len(front) : front[j] = list[j]
  <2> HIDE DEF front, list
  <2>1. QED
    BY <1>3 DEF Cut
<1> HIDE DEF front
<1>5. /\ m \in Seq(Objects) /\ Len(m) = Len(list) /\ m # <<>>
      /\ \A j \in 1 .. Len(list) : m[j] = IF j = Len(list) THEN n ELSE list[j]
      /\ m[Len(m)] = n
  <2>1. m \in Seq(Objects) /\ Len(m) = Len(front) + 1 /\ Len(front) \in Nat
    BY <1>4
  <2>2. \A j \in 1 .. Len(front) + 1 : m[j] = IF j = Len(front) + 1 THEN n ELSE front[j]
    BY <1>4
  <2> HIDE DEF m
  <2>3. QED
    BY <2>1, <2>2, <1>4
<1>6. /\ r.heap = h /\ r.c.buf = s.c.buf /\ r.c.reply = m
      /\ r.c.reply_bytes = s.c.reply_bytes /\ r.c.sentlen = s.c.sentlen
      /\ r.c.handler = s.c.handler /\ r.c.state = s.c.state /\ Shaped(r)
  <2>1. Is(r, h, s.c.buf, m, s.c.reply_bytes, s.c.sentlen, s.c.handler, s.c.state)
    BY DEF front
  <2> HIDE DEF m, h
  <2>2. QED
    BY <2>1, IsFields
<1>7. r \in Pairs
  <2> HIDE DEF m
  <2>1. QED
    BY <1>1, <1>2, <1>5, <1>6, ShapedPair
<1>8. ASSUME NEW p \in Objects
      PROVE  RefsIn(m, p) + (IF o = p THEN 1 ELSE 0) = RefsIn(list, p) + (IF n = p THEN 1 ELSE 0)
  <2>1. RefsIn(m, p) = RefsIn(front, p) + (IF n = p THEN 1 ELSE 0)
    BY <1>4, RefsInAppend
  <2>2. RefsIn(list, p) = RefsIn(front, p) + (IF o = p THEN 1 ELSE 0)
    BY <1>1, <1>3, RefsInCut
  <2>3. RefsIn(front, p) \in Nat
    BY <1>4, RefsInType
  <2> HIDE DEF m, list
  <2>4. QED
    BY <2>1, <2>2, <2>3
<1>9. /\ own[n] \in Nat /\ own[o] \in Nat
      /\ new \in [Objects -> Nat]
      /\ new[n] = own[n] - 1 /\ new[o] = own[o] + 1
      /\ \A p \in Objects : p # n /\ p # o => new[p] = own[p]
  BY <1>1, <1>3 DEF With
<1> HIDE DEF new
<1>10. ASSUME NEW p \in Objects PROVE h[p].refs = RefsIn(m, p) + new[p]
  <2>1. h[p].refs = RefsIn(list, p) + own[p] /\ RefsIn(list, p) \in Nat /\ own[p] \in Nat
    BY BookTypes
  <2>2. RefsIn(m, p) \in Nat
    BY <1>5, RefsInType
  <2>3. /\ RefsIn(m, p) + (IF o = p THEN 1 ELSE 0) = RefsIn(list, p) + (IF n = p THEN 1 ELSE 0)
        /\ new[p] \in Nat
    BY <1>8, <1>9
  <2> HIDE DEF m, list
  <2>4. CASE p = n
    <3>1. RefsIn(m, p) = RefsIn(list, p) + 1
      BY <2>1, <2>2, <2>3, <2>4
    <3>2. new[p] = own[p] - 1
      BY <2>4, <1>9
    <3>3. QED
      BY <3>1, <3>2, <2>1
  <2>5. CASE p = o
    <3>1. RefsIn(m, p) + 1 = RefsIn(list, p)
      BY <2>1, <2>2, <2>3, <2>5
    <3>2. new[p] = own[p] + 1
      BY <2>5, <1>9
    <3>3. QED
      BY <3>1, <3>2, <2>1, <2>2
  <2>6. CASE p # n /\ p # o
    BY <2>1, <2>2, <2>3, <2>6, <1>9
  <2>7. QED
    BY <2>4, <2>5, <2>6
<1>11. ASSUME NEW j \in 1 .. Len(list)
       PROVE  h[m[j]].enc = h[list[j]].enc /\ h[m[j]].bytes = h[list[j]].bytes
  BY <1>3, <1>5
<1>12. Takes(h, m, s.c.reply_bytes)
  <2>1. \A j \in 1 .. Len(list) : Memory(h[m[j]]) = Memory(h[list[j]])
    BY <1>11 DEF Memory
  <2>2. Takes(h, list, s.c.reply_bytes)
    BY DEF Book
  <2> HIDE DEF m, list
  <2>3. QED
    BY <2>1, <2>2, <1>1, <1>5, TakesFrame
<1>13. First(r) = First(s)
  <2>1. 1 \in 1 .. Len(list)
    BY <1>1
  <2>2. h[m[1]].bytes = h[list[1]].bytes
    BY <1>11, <2>1
  <2> HIDE DEF m
  <2>3. QED
    BY <2>2, <1>5, <1>6 DEF First, Nothing
<1>14. ~ Nothing(r)
  <2> HIDE DEF m
  <2>1. QED
    BY <1>5, <1>6 DEF Nothing
<1>15. Book(r, new)
  BY <1>6, <1>7, <1>9, <1>10, <1>12, <1>13 DEF Book
<1>16. Says(s, r, <<>>)
  <2> HIDE DEF m, h
  <2>1. \A j \in 1 .. Len(s.c.reply) : r.heap[r.c.reply[j]].bytes = s.heap[s.c.reply[j]].bytes
    BY <1>6, <1>11 DEF h
  <2>2. Len(r.c.reply) = Len(s.c.reply)
    BY <1>5, <1>6
  <2>3. QED
    BY <2>1, <2>2, <1>1, <1>6, <1>7, SaysSame
<1>17. QED
  BY <1>5, <1>6, <1>14, <1>15, <1>16 DEF new, Last

\* dupLastObjectIfNeeded: the last node is the list's own.
LEMMA DupBook ==
  ASSUME MemoryUnbounded, NEW s, NEW own, Book(s, own), s.c.reply # <<>>,
         s.heap[Last(s.c.reply)].enc = "raw",
         NEW r, r = dupLastObjectIfNeeded(s)
  PROVE  /\ Book(r, own) /\ Keeps(s, r, own) /\ Follows(s, r) /\ Says(s, r, <<>>)
         /\ r.c.reply # <<>> /\ Last(r.c.reply) \in Objects
         /\ r.heap[Last(r.c.reply)] =
              Single("raw", s.heap[Last(s.c.reply)].bytes)
<1> DEFINE h == s.heap
           list == s.c.reply
           o == Last(list)
           n == New(h)
           a == WithHeap(s, createObject(h, h[o].enc, h[o].bytes))
           m == Append(Front(list), n)
           b == [a EXCEPT !.c.reply = m]
           d == WithHeap(b, decrRefCount(b.heap, o))
           ownA == With(own, n, 1)
           ownB == With(With(ownA, n, ownA[n] - 1), o, ownA[o] + 1)
<1>1. /\ s \in Pairs /\ own \in [Objects -> Nat] /\ h \in Heaps /\ list \in Seq(Objects)
      /\ o \in Objects /\ o = list[Len(list)] /\ Len(list) \in 1 .. Len(list)
  <2>1. /\ s \in Pairs /\ own \in [Objects -> Nat] /\ h \in Heaps /\ list \in Seq(Objects)
    BY BookTypes
  <2>2. QED
    BY <2>1, Cuts DEF Last
<1>2. /\ h[o] \in Object /\ h[o].refs \in Nat /\ RefsIn(list, o) \in Nat /\ own[o] \in Nat
      /\ h[o].refs = RefsIn(list, o) + own[o] /\ RefsIn(list, o) # 0
  BY <1>1, BookTypes
<1>3. CASE ~ (h[o].refs > 1)
  <2>1. r = s
    BY <1>3 DEF dupLastObjectIfNeeded
  <2>2. h[o].refs = 1
    BY <1>2, <1>3
  <2>3. h[o] = Single("raw", h[o].bytes)
    BY <2>2, <1>2 DEF Object, Single
  <2>4. Says(s, s, <<>>)
    BY <1>1, SaysSame
  <2>5. QED
    BY <2>1, <2>3, <2>4, <1>1 DEF Keeps, Follows
<1>4. CASE h[o].refs > 1
  <2>1. h[o].bytes \in Seq(Int) /\ h[o].enc = "raw"
    BY <1>2 DEF Object
  <2>2. /\ Book(a, ownA) /\ Follows(s, a) /\ Keeps(s, a, own) /\ Says(s, a, <<>>) /\ a.c = s.c
        /\ n \in Objects /\ own[n] = 0
        /\ \A i \in 1 .. Len(list) : list[i] # n
        /\ a.heap[n] = Single("raw", h[o].bytes)
        /\ \A p \in Objects : p # n => a.heap[p] = h[p]
    <3>1. Creates(s, own, "raw", h[o].bytes, n, a)
      BY <2>1, SMTT(40) DEF Creates
    <3> HIDE DEF a, n
    <3>2. QED
      BY <3>1, CreateBook
  <2>3. n # o
    BY <2>2, <1>1, ZenonT(60)
  <2>4. a \in Pairs /\ ownA[n] = 1 /\ ownA[o] = own[o] /\ a.heap \in Heaps
    <3>1. a \in Pairs /\ a.heap \in Heaps
      BY <2>2, BookTypes, ZenonT(60)
    <3>2. QED
      BY <3>1, <2>2, <2>3, <1>1, ZenonT(60) DEF With
  <2>5. a.heap[o] = h[o]
    BY <1>1, <2>2, <2>3, ZenonT(60)
  <2>6. Is(b, a.heap, a.c.buf, m, a.c.reply_bytes, a.c.sentlen, a.c.handler, a.c.state)
    BY <2>4, FieldTypes, Update, ZenonT(60)
  <2>7. r = d
    <3> DEFINE g == createObject(h, h[o].enc, h[o].bytes)
               x == decrRefCount(g, o)
    <3>1. r = [s EXCEPT !.heap = x, !.c.reply = m]
      BY <1>4, Zenon DEF dupLastObjectIfNeeded
    <3> HIDE DEF m
    <3>2. Is(s, h, s.c.buf, list, s.c.reply_bytes, s.c.sentlen, s.c.handler, s.c.state)
      BY <1>1, FieldTypes, Zenon
    <3>3. Is(r, x, s.c.buf, m, s.c.reply_bytes, s.c.sentlen, s.c.handler, s.c.state)
      <4> HIDE DEF x, h
      <4>1. QED
        <5>1. \A y, z : Is([s EXCEPT !.heap = y, !.c.reply = z], y, s.c.buf, z, s.c.reply_bytes,
                           s.c.sentlen, s.c.handler, s.c.state)
          BY <3>2, Updates, ZenonT(60)
        <5>2. Is([s EXCEPT !.heap = x, !.c.reply = m], x, s.c.buf, m, s.c.reply_bytes,
                 s.c.sentlen, s.c.handler, s.c.state)
          BY <5>1
        <5>3. QED
          BY <3>1, <5>2, Zenon
    <3>4. a.heap = g
      BY <3>2 DEF WithHeap, Is
    <3>5. b.heap = g
      <4> HIDE DEF b, a, g
      <4>1. b.heap = a.heap
        BY <2>6, IsFields
      <4>2. QED
        BY <4>1, <3>4
    <3>6. d = [b EXCEPT !.heap = x]
      BY <3>5, SMTT(40) DEF WithHeap
    <3> HIDE DEF x, d, b
    <3>7. Is(d, x, a.c.buf, m, a.c.reply_bytes, a.c.sentlen, a.c.handler, a.c.state)
      BY <3>6, <2>6, Update, ZenonT(60)
    <3> HIDE DEF a
    <3>8. QED
      BY <3>3, <3>7, <2>2 DEF Is
  <2> HIDE DEF a, b, ownA
  <2>8. /\ Book(b, ownB) /\ ~ Nothing(b) /\ Says(a, b, <<>>)
        /\ b.c.state = a.c.state /\ b.c.handler = a.c.handler /\ b.heap = a.heap
        /\ Len(b.c.reply) = Len(list) /\ Last(b.c.reply) = n
        /\ \A j \in 1 .. Len(list) : j # Len(list) => b.c.reply[j] = list[j]
    <3>1. /\ a.c.reply # <<>> /\ o = Last(a.c.reply) /\ a.c.reply = list
          /\ a.heap[n].enc = a.heap[o].enc /\ a.heap[n].bytes = a.heap[o].bytes
          /\ ownA[n] # 0
      BY <2>1, <2>2, <2>4, <2>5 DEF Single
    <3>2. Is(b, a.heap, a.c.buf, Append(Front(a.c.reply), n),
             a.c.reply_bytes, a.c.sentlen, a.c.handler, a.c.state)
      BY <2>6, <3>1
    <3>3. Book(a, ownA) /\ n \in Objects /\ n # o
      BY <2>2, <2>3
    <3> HIDE DEF n, o, list, m
    <3>4. QED
      BY <3>1, <3>2, <3>3, SwapBook
  <2>9. /\ ownB \in [Objects -> Nat] /\ ownB[o] = own[o] + 1 /\ ownB[n] = 0
        /\ \A p \in Objects : p # o => ownB[p] = own[p]
    BY <2>2, <2>3, <2>4, <1>1, <1>2, SMTT(60) DEF ownA, With
  <2> HIDE DEF ownB, d
  <2>10. /\ Book(d, With(ownB, o, ownB[o] - 1)) /\ Follows(b, d) /\ Says(b, d, <<>>) /\ d.c = b.c
         /\ Keeps(b, d, With(ownB, o, ownB[o] - 1))
         /\ \A p \in Objects : p # o => d.heap[p] = b.heap[p]
    <3>1. ownB[o] # 0
      BY <2>9, <1>2
    <3>2. Book(b, ownB) /\ o \in Objects /\ d = WithHeap(b, decrRefCount(b.heap, o))
      BY <2>8, <1>1 DEF d
    <3> HIDE DEF o
    <3>3. QED
      BY <3>1, <3>2, DecrBook
  <2>11. With(ownB, o, ownB[o] - 1) = own
    <3>1. With(ownB, o, own[o]) = own
      BY <2>9, <1>1, <1>2 DEF With
    <3>2. ownB[o] - 1 = own[o]
      BY <2>9, <1>2
    <3>3. QED
      BY <3>1, <3>2
  <2>12. Book(d, own) /\ Keeps(b, d, own)
    BY <2>10, <2>11
  <2>13. Keeps(s, d, own)
    BY <2>12, <2>8, <2>2 DEF Keeps
  <2>14. Follows(s, d) /\ Says(s, d, <<>>)
    <3>1. ASSUME NEW i, Waits(s, i) PROVE Waits(b, i)
      <4>1. i \in 1 .. Len(list) /\ i # Len(list)
        BY <3>1, <1>1, <2>1 DEF Waits, Single
      <4>2. b.c.reply[i] = list[i] /\ list[i] \in Objects /\ list[i] # n
        BY <4>1, <2>8, <2>2, <1>1
      <4>3. QED
        BY <4>1, <4>2, <2>8, <2>2, <3>1 DEF Waits
    <3>2. Follows(s, b)
      BY <3>1, <2>8, <2>2 DEF Follows
    <3>3. Follows(s, d)
      BY <3>2, <2>10, FollowsTransitive
    <3>4. Says(s, b, <<>>) /\ Says(s, d, <<>>)
      <4>1. <<>> \in Seq(Int)
        OBVIOUS
      <4>2. Says(s, b, <<>>)
        BY <4>1, <2>2, <2>8, <1>1, SaysAround
      <4>3. QED
        BY <4>1, <4>2, <3>2, <2>10, <1>1, SaysAround
    <3>5. QED
      BY <3>3, <3>4
  <2>15. d.heap[n] = Single("raw", h[o].bytes)
    BY <2>10, <2>8, <2>2, <2>3
  <2>16. d.c.reply # <<>> /\ Last(d.c.reply) = n
    <3>1. Len(b.c.reply) # 0
      BY <2>8, <1>1
    <3>2. QED
      BY <3>1, <2>8, <2>10
  <2>17. QED
    BY <2>7, <2>12, <2>13, <2>14, <2>15, <2>16, <2>2
<1>5. QED
  BY <1>3, <1>4

-----------------------------------------------------------------------------
(* What the functions do that add to the replies.                          *)

\* A step on the pair s that adds v to the reply, by a function whose caller owns
\* what own says.
Goes(s, r, own, v) ==
  Book(r, own) /\ Keeps(s, r, own) /\ Follows(s, r) /\ Says(s, r, v)

\* Something waits to be sent, and the write handler is installed for it.
Awake(s, r) == ~ Nothing(r) /\ (Nothing(s) => r.c.handler = TRUE)

\* One step after the other.
LEMMA GoesOn ==
  ASSUME NEW s, NEW l, NEW r, NEW own, Book(s, own),
         NEW u, u \in Seq(Int), NEW v, v \in Seq(Int),
         Goes(s, l, own, u), Goes(l, r, own, v)
  PROVE  Goes(s, r, own, u \o v) /\ (Awake(s, l) => Awake(s, r))
<1>1. Follows(s, r)
  BY FollowsTransitive DEF Goes
<1>2. Keeps(s, r, own)
  BY DEF Goes, Keeps
<1>3. Awake(s, l) => Awake(s, r)
  BY DEF Goes, Awake, Follows
<1>4. Says(s, r, u \o v)
  BY SaysOn DEF Goes, Book
<1>5. QED
  BY <1>1, <1>2, <1>3, <1>4 DEF Goes

\* The first step adds nothing.
LEMMA GoesThen ==
  ASSUME NEW s, NEW l, NEW r, NEW own, Book(s, own), NEW v, v \in Seq(Int),
         Goes(s, l, own, <<>>), Goes(l, r, own, v)
  PROVE  Goes(s, r, own, v)
<1> DEFINE e == <<>>
<1>1. e \in Seq(Int) /\ e \o v = v /\ Goes(s, l, own, e)
  BY Chains
<1> HIDE DEF e
<1>2. Goes(s, r, own, e \o v)
  BY <1>1, GoesOn
<1>3. QED
  BY <1>1, <1>2

\* A function with a variable for an object n that it makes and gives up.
LEMMA GoesAround ==
  ASSUME NEW s, NEW own, Book(s, own), NEW n \in Objects, own[n] = 0, own \in [Objects -> Nat],
         NEW a, NEW b, Keeps(s, a, own), Follows(s, a), Says(s, a, <<>>),
         NEW v, v \in Seq(Int),
         Goes(a, b, With(own, n, 1), v),
         NEW r, r = WithHeap(b, decrRefCount(b.heap, n))
  PROVE  Goes(s, r, own, v) /\ ((Nothing(s) <=> Nothing(a)) /\ Awake(a, b) => Awake(s, r)) /\ r.c = b.c
<1> DEFINE ownA == With(own, n, 1)
<1>1. ownA \in [Objects -> Nat] /\ ownA[n] = 1 /\ \A p \in Objects : p # n => ownA[p] = own[p]
  BY DEF With
<1>2. With(ownA, n, ownA[n] - 1) = own
  <2>1. With(ownA, n, 0) = own
    BY DEF With
  <2> HIDE DEF ownA
  <2>2. QED
    BY <2>1, <1>1
<1>3. Book(b, ownA) /\ Keeps(a, b, ownA) /\ Follows(a, b) /\ Says(a, b, v)
  BY DEF Goes
<1> HIDE DEF ownA
<1>4. Book(r, own) /\ Follows(b, r) /\ Keeps(b, r, own) /\ Says(b, r, <<>>) /\ r.c = b.c
  <2>1. ownA[n] # 0
    BY <1>1
  <2>2. /\ Book(r, With(ownA, n, ownA[n] - 1))
        /\ Follows(b, r) /\ Keeps(b, r, With(ownA, n, ownA[n] - 1))
        /\ Says(b, r, <<>>) /\ r.c = b.c
    BY <2>1, <1>3, DecrBook
  <2>3. QED
    BY <2>2, <1>2
<1>5. Keeps(s, r, own)
  <2>1. \A p \in Objects : own[p] # 0 => ownA[p] # 0
    BY <1>1
  <2>2. QED
    BY <2>1, <1>3, <1>4 DEF Keeps
<1>6. Follows(s, b) /\ Follows(s, r)
  <2>1. Follows(s, b)
    BY <1>3, FollowsTransitive
  <2>2. QED
    BY <2>1, <1>4, FollowsTransitive
<1>7. (Nothing(s) <=> Nothing(a)) /\ Awake(a, b) => Awake(s, r)
  BY <1>4 DEF Awake, Nothing
<1>8. Says(s, r, v)
  <2>1. s \in Pairs
    BY DEF Book
  <2>2. Says(s, b, v)
    BY <2>1, <1>3, SaysAround
  <2>3. QED
    BY <2>1, <2>2, <1>4, <1>6, SaysAround
<1>9. QED
  BY <1>4, <1>5, <1>6, <1>7, <1>8 DEF Goes

\* The last node has room for v: the list gets it for itself, and v is added.
LEMMA AppendToTailOK ==
  ASSUME MemoryUnbounded, NEW s, NEW own, Book(s, own),
         NEW v \in Seq(Int), HasRoom(s, v),
         NEW r, r = AppendToTail(s, v)
  PROVE  Goes(s, r, own, v) /\ ~ Nothing(r)
<1> DEFINE d == dupLastObjectIfNeeded(s)
           o == Last(d.c.reply)
           i == Len(d.c.reply)
           old == s.heap[Last(s.c.reply)].bytes
           x == Single("raw", old \o v)
           k == Len(v)
           n == d.c.reply_bytes + k
           g == [d.heap EXCEPT ![o] = x]
<1>1. s.c.reply # <<>> /\ s.heap[Last(s.c.reply)].enc = "raw"
  BY DEF HasRoom
<1>2. /\ Book(d, own) /\ Keeps(s, d, own) /\ Follows(s, d) /\ Says(s, d, <<>>)
      /\ d.c.reply # <<>> /\ o \in Objects
      /\ d.heap[o] = Single("raw", old)
  BY <1>1, DupBook
<1> HIDE DEF old, d
<1>3. /\ d \in Pairs /\ own \in [Objects -> Nat] /\ d.heap \in Heaps /\ d.c.reply \in Seq(Objects)
      /\ d.heap[o] \in Object
  BY <1>2, BookTypes
<1>4. i \in 1 .. Len(d.c.reply) /\ o = d.c.reply[i]
  BY <1>2, <1>3 DEF Last
<1>5. own[o] = 0
  <2>1. d.heap[o].refs = 1 /\ d.heap[o].refs = RefsIn(d.c.reply, o) + own[o]
        /\ RefsIn(d.c.reply, o) \in Nat /\ own[o] \in Nat
    BY <1>2, BookTypes DEF Single
  <2>2. RefsIn(d.c.reply, o) # 0
    BY <1>2, <1>4, BookTypes
  <2>3. QED
    BY <2>1, <2>2
<1>6. old \in Seq(Int)
  BY <1>2, <1>3 DEF Object, Single
<1>7. x \in Object /\ k \in Int /\ Memory(x) = Memory(d.heap[o]) + k /\ Len(old) <= Len(x.bytes)
  <2>1. old \o v \in Seq(Int) /\ Len(old \o v) = Len(old) + Len(v) /\ Len(old) \in Nat /\ Len(v) \in Nat
    BY <1>6
  <2>2. Memory(x) = Len(old \o v) + 1 /\ Memory(d.heap[o]) = Len(old) + 1
    BY <1>2 DEF Memory, Single
  <2>3. x \in Object
    BY <2>1 DEF Object, Single
  <2>4. QED
    BY <2>1, <2>2, <2>3 DEF Single
<1>8. Is(r, g, d.c.buf, d.c.reply, d.c.reply_bytes + k,
         d.c.sentlen, d.c.handler, d.c.state)
  <2> DEFINE f == [d.heap EXCEPT ![o].bytes = @ \o v]
  <2>1. r = [d EXCEPT !.heap = f, !.c.reply_bytes = d.c.reply_bytes + k]
    <3>1. r = [d EXCEPT !.heap[o].bytes = @ \o v, !.c.reply_bytes = @ + k]
      BY DEF AppendToTail, d
    <3>2. QED
      BY <3>1, Zenon
  <2>2. f = g
    <3>1. [d.heap[o] EXCEPT !.bytes = old \o v] = x
      <4> DEFINE w == old \o v
      <4> HIDE DEF w, o
      <4>1. [d.heap[o] EXCEPT !.bytes = w] = Single("raw", w)
        BY <1>2 DEF Single
      <4>2. QED
        BY <4>1 DEF w
    <3>2. d.heap[o].bytes = old
      BY <1>2 DEF Single
    <3>3. f = [d.heap EXCEPT ![o] = [d.heap[o] EXCEPT !.bytes = d.heap[o].bytes \o v]]
      BY Zenon
    <3> HIDE DEF f, x
    <3>4. QED
      BY <3>1, <3>2, <3>3
  <2>3. Is(d, d.heap, d.c.buf, d.c.reply, d.c.reply_bytes, d.c.sentlen, d.c.handler, d.c.state)
    BY <1>3, FieldTypes, Zenon
  <2> HIDE DEF f, g, x, k
  <2>4. \A y, z : Is([d EXCEPT !.heap = y, !.c.reply_bytes = z], y, d.c.buf, d.c.reply, z,
                     d.c.sentlen, d.c.handler, d.c.state)
    BY <2>3, Updates, Zenon
  <2>5. Is([d EXCEPT !.heap = f, !.c.reply_bytes = d.c.reply_bytes + k], f, d.c.buf, d.c.reply,
           d.c.reply_bytes + k, d.c.sentlen, d.c.handler, d.c.state)
    BY <2>4
  <2>6. QED
    BY <2>1, <2>2, <2>5, Zenon
<1>15. g \in Heaps /\ g[o] = x /\ \A p \in Objects : p # o => g[p] = d.heap[p]
  <2> HIDE DEF x, o
  <2>1. QED
    BY <1>2, <1>3, <1>7 DEF Heaps
<1>9. /\ Book(r, own) /\ Keeps(d, r, own) /\ ~ Nothing(r)
      /\ r.c.state = d.c.state /\ r.c.handler = d.c.handler
      /\ \A j : Waits(d, j) /\ j # i => Waits(r, j)
      /\ r.c.reply = d.c.reply /\ r.c.buf = d.c.buf /\ r.c.sentlen = d.c.sentlen
      /\ r.heap[d.c.reply[i]] = x
      /\ \A p \in Objects : p # d.c.reply[i] => r.heap[p] = d.heap[p]
      /\ \A j \in 1 .. Len(d.c.reply) : d.c.reply[j] = d.c.reply[i] => j = i
  <2>1. x.refs = 1 /\ x.enc # "int" /\ d.heap[o].refs = 1 /\ d.heap[o].bytes = old
    BY <1>2 DEF Single
  <2>2. r.heap = g
    <3> HIDE DEF n, g
    <3>1. QED
      BY <1>8, IsFields DEF n
  <2>3. Mends(d, own, i, x, k, r)
    <3> HIDE DEF x, k, o, i, g
    <3>1. QED
      BY <2>1, <2>2, <1>2, <1>4, <1>5, <1>7, <1>8, <1>15 DEF Mends
  <2> HIDE DEF x, k, o, i, n, g
  <2>4. QED
    BY <2>3, MendBook
<1>10. ~ Waits(d, i)
  BY <1>2, <1>4 DEF Waits, Single
<1>11. Follows(d, r)
  BY <1>9, <1>10 DEF Follows
<1>12. Follows(s, r)
  BY <1>2, <1>11, FollowsTransitive
<1>13. Keeps(s, r, own)
  BY <1>2, <1>9 DEF Keeps
<1>14. Says(d, r, v)
  <2>1. r \in Pairs /\ x.bytes = old \o v /\ d.heap[o].bytes = old
    BY <1>2, <1>9 DEF Book, Single
  <2>2. ASSUME NEW j \in 1 .. i
        PROVE  r.heap[r.c.reply[j]].bytes =
                 IF j = i THEN d.heap[d.c.reply[j]].bytes \o v ELSE d.heap[d.c.reply[j]].bytes
    <3> HIDE DEF x, o
    <3>1. CASE j = i
      BY <3>1, <2>1, <1>4, <1>9
    <3>2. CASE j # i
      <4>1. d.c.reply[j] \in Objects /\ d.c.reply[j] # d.c.reply[i]
        BY <3>2, <1>3, <1>9
      <4>2. r.heap[d.c.reply[j]] = d.heap[d.c.reply[j]] /\ r.c.reply = d.c.reply
        BY <4>1, <1>9
      <4>3. QED
        BY <3>2, <4>2
    <3>3. QED
      BY <3>1, <3>2
  <2>3. /\ d \in Pairs /\ r.c.sentlen = d.c.sentlen /\ r.c.buf = d.c.buf /\ d.c.reply # <<>>
        /\ Len(r.c.reply) = Len(d.c.reply) /\ ~ Waits(d, Len(d.c.reply))
    BY <1>2, <1>3, <1>9, <1>10
  <2> HIDE DEF x, o
  <2>4. \A j \in 1 .. Len(d.c.reply) :
          r.heap[r.c.reply[j]].bytes =
            IF j = Len(d.c.reply) THEN d.heap[d.c.reply[j]].bytes \o v
            ELSE d.heap[d.c.reply[j]].bytes
    BY <2>2
  <2> HIDE DEF i
  <2>5. QED
    BY <2>1, <2>3, <2>4, SaysMore
<1>16. Says(s, r, v)
  <2>1. s \in Pairs
    BY DEF Book
  <2>2. QED
    BY <2>1, <1>2, <1>14, SaysAround
<1>17. QED
  BY <1>9, <1>12, <1>13, <1>16 DEF Goes

\* Nothing happens.
LEMMA GoesNowhere ==
  ASSUME NEW s, NEW own, Book(s, own)
  PROVE  Goes(s, s, own, <<>>)
<1>1. Says(s, s, <<>>)
  BY SaysSame DEF Book
<1>2. QED
  BY <1>1 DEF Goes, Keeps, Follows

\* What fits is added to the buffer.
LEMMA AddReplyToBufferOK ==
  ASSUME NEW s, NEW own, Book(s, own), NEW v \in Seq(Int), Fits(s, v),
         NEW r, r = addReplyToBuffer(s, v)
  PROVE  Goes(s, r, own, v) /\ (v # <<>> => ~ Nothing(r))
<1> DEFINE buf == s.c.buf
           new == buf \o v
<1>1. /\ s \in Pairs /\ own \in [Objects -> Nat] /\ s.heap \in Heaps /\ s.c.reply \in Seq(Objects)
  BY BookTypes
<1>2. /\ buf \in Seq(Int) /\ s.c.sentlen \in Nat /\ s.c.handler \in {TRUE, FALSE}
      /\ s.c.state \in States /\ s.c.reply_bytes \in Int
      /\ Is(s, s.heap, buf, s.c.reply, s.c.reply_bytes, s.c.sentlen, s.c.handler, s.c.state)
  BY <1>1, FieldTypes
<1>3. /\ new \in Seq(Int) /\ Len(new) = Len(buf) + Len(v) /\ Len(buf) \in Nat /\ Len(v) \in Nat
      /\ (v # <<>> => new # <<>>) /\ (buf # <<>> => new # <<>>)
  BY <1>2
<1>4. Len(new) <= Chunk /\ s.c.reply = <<>>
  BY <1>3, SizesAssumption DEF Fits
<1>5. r = [s EXCEPT !.c.buf = new]
  BY DEF addReplyToBuffer
<1> HIDE DEF new
<1>6. Is(r, s.heap, new, s.c.reply, s.c.reply_bytes, s.c.sentlen, s.c.handler, s.c.state)
  <2>1. \A y : Is([s EXCEPT !.c.buf = y], s.heap, y, s.c.reply, s.c.reply_bytes,
                  s.c.sentlen, s.c.handler, s.c.state)
    BY <1>2, Update
  <2>2. QED
    BY <2>1, <1>5, Zenon
<1>7. /\ r.heap = s.heap /\ r.c.buf = new /\ r.c.reply = s.c.reply
      /\ r.c.reply_bytes = s.c.reply_bytes /\ r.c.sentlen = s.c.sentlen
      /\ r.c.handler = s.c.handler /\ r.c.state = s.c.state /\ Shaped(r)
  BY <1>6, IsFields
<1>8. r \in Pairs
  BY <1>1, <1>2, <1>3, <1>7, ShapedPair
<1>9. s.c.sentlen <= Len(First(r))
  <2>1. s.c.sentlen <= Len(First(s)) /\ s.c.sentlen \in Int
    BY <1>2 DEF Book
  <2>2. Len(First(s)) \in Nat /\ Len(First(r)) \in Nat
    BY <1>1, <1>8, FirstType
  <2>3. CASE Nothing(s)
    <3>1. Len(First(s)) = 0
      BY <2>3, <1>1, FirstType
    <3>2. QED
      BY <3>1, <2>1, <2>2
  <2>4. CASE ~ Nothing(s)
    <3>1. First(s) = buf /\ First(r) = new
      BY <2>4, <1>3, <1>4, <1>7 DEF First, Nothing
    <3>2. QED
      BY <3>1, <2>1, <1>3
  <2>5. QED
    BY <2>3, <2>4
<1>10. Book(r, own)
  BY <1>4, <1>7, <1>8, <1>9 DEF Book
<1>11. Keeps(s, r, own)
  BY <1>7 DEF Keeps
<1>12. Follows(s, r)
  BY <1>3, <1>7 DEF Follows, Waits, Nothing
<1>13. v # <<>> => ~ Nothing(r)
  BY <1>3, <1>7 DEF Nothing
<1>14. Says(s, r, v)
  BY <1>1, <1>4, <1>7, <1>8, SaysBuffer DEF new
<1>15. QED
  BY <1>10, <1>11, <1>12, <1>13, <1>14 DEF Goes

\* The write handler is installed when the first reply comes.
LEMMA PrepareOK ==
  ASSUME NEW s, NEW own, Book(s, own), NEW r, r = prepareClientToWrite(s)
  PROVE  /\ Goes(s, r, own, <<>>)
         /\ r.heap = s.heap /\ r.c.reply = s.c.reply
         /\ (Nothing(r) <=> Nothing(s))
         /\ \A l : Follows(r, l) /\ ~ Nothing(l) => Awake(s, l)
<1>1. CASE ~ Nothing(s)
  <2>1. r = s
    BY <1>1 DEF prepareClientToWrite
  <2>2. QED
    BY <2>1, <1>1, GoesNowhere DEF Awake
<1>2. CASE Nothing(s)
  <2>1. r = [s EXCEPT !.c.handler = TRUE]
    BY <1>2 DEF prepareClientToWrite
  <2>2. /\ s \in Pairs /\ s.heap \in Heaps /\ s.c.reply \in Seq(Objects)
    BY BookTypes
  <2>3. /\ s.c.buf \in Seq(Int) /\ s.c.sentlen \in Nat
        /\ s.c.state \in States /\ s.c.reply_bytes \in Int
        /\ Is(s, s.heap, s.c.buf, s.c.reply, s.c.reply_bytes, s.c.sentlen, s.c.handler, s.c.state)
    BY <2>2, FieldTypes
  <2>4. Is(r, s.heap, s.c.buf, s.c.reply, s.c.reply_bytes, s.c.sentlen, TRUE, s.c.state)
    <3>1. Is([s EXCEPT !.c.handler = TRUE], s.heap, s.c.buf, s.c.reply, s.c.reply_bytes,
             s.c.sentlen, TRUE, s.c.state)
      <4>1. \A y : Is([s EXCEPT !.c.handler = y], s.heap, s.c.buf, s.c.reply, s.c.reply_bytes,
                      s.c.sentlen, y, s.c.state)
        BY <2>3, Update
      <4>2. QED
        BY <4>1, Zenon
    <3>2. QED
      BY <3>1, <2>1, Zenon
  <2>5. /\ r.heap = s.heap /\ r.c.buf = s.c.buf /\ r.c.reply = s.c.reply
        /\ r.c.reply_bytes = s.c.reply_bytes /\ r.c.sentlen = s.c.sentlen
        /\ r.c.handler = TRUE /\ r.c.state = s.c.state /\ Shaped(r)
    <3>1. \A y : Is(r, s.heap, s.c.buf, s.c.reply, s.c.reply_bytes, s.c.sentlen, y, s.c.state) =>
           /\ r.heap = s.heap /\ r.c.buf = s.c.buf /\ r.c.reply = s.c.reply
           /\ r.c.reply_bytes = s.c.reply_bytes /\ r.c.sentlen = s.c.sentlen
           /\ r.c.handler = y /\ r.c.state = s.c.state /\ Shaped(r)
      BY IsFields
    <3>2. QED
      BY <3>1, <2>4, Zenon
  <2>6. r \in Pairs
    BY <2>2, <2>3, <2>5, ShapedPair
  <2>7. (Nothing(r) <=> Nothing(s)) /\ First(r) = First(s)
    BY <2>5 DEF Nothing, First
  <2>8. Book(r, own)
    BY <2>5, <2>6, <2>7 DEF Book
  <2>9. Keeps(s, r, own)
    BY <2>5 DEF Keeps
  <2>10. Follows(s, r)
    BY <2>5, <2>7, <1>2 DEF Follows, Waits
  <2>11. ASSUME NEW l, Follows(r, l), ~ Nothing(l) PROVE Awake(s, l)
    BY <2>5, <2>11 DEF Follows, Awake
  <2>12. Says(s, r, <<>>)
    BY <2>2, <2>5, <2>6, SaysSame
  <2>13. QED
    BY <2>5, <2>7, <2>8, <2>9, <2>10, <2>11, <2>12 DEF Goes
<1>3. QED
  BY <1>1, <1>2

\* A node for an object that the caller owns.
LEMMA AddReplyObjectToListOK ==
  ASSUME MemoryUnbounded, NEW s, NEW own, Book(s, own), NEW o \in Objects, own[o] # 0,
         NEW r, r = addReplyObjectToList(s, o)
  PROVE  Goes(s, r, own, s.heap[o].bytes) /\ ~ Nothing(r)
<1> DEFINE v == s.heap[o].bytes
<1>1. own \in [Objects -> Nat] /\ v \in Seq(Int) /\ s.heap \in Heaps
  BY BookTypes DEF Object
<1>2. CASE HasRoom(s, v)
  <2>1. r = AppendToTail(s, v)
    BY <1>2 DEF addReplyObjectToList
  <2> HIDE DEF v
  <2>2. Goes(s, r, own, v) /\ ~ Nothing(r)
    BY <2>1, <1>1, <1>2, AppendToTailOK
  <2>3. QED
    BY <2>2 DEF v
<1>3. CASE ~ HasRoom(s, v)
  <2> DEFINE a == WithHeap(s, incrRefCount(s.heap, o))
             new == With(own, o, own[o] + 1)
  <2>1. r = AppendNode(a, o)
    BY <1>3 DEF addReplyObjectToList, WithHeap
  <2>2. Book(a, new) /\ Follows(s, a) /\ Keeps(s, a, own) /\ Says(s, a, <<>>)
        /\ a.heap[o].bytes = v
    BY IncrBook
  <2>3. new \in [Objects -> Nat] /\ new[o] # 0 /\ new[o] = own[o] + 1
    BY <1>1 DEF With
  <2>4. With(new, o, new[o] - 1) = own
    <3>1. own[o] \in Nat /\ With(new, o, own[o]) = own
      BY <1>1 DEF With
    <3> HIDE DEF new
    <3>2. QED
      BY <3>1, <2>3
  <2> HIDE DEF a, new, v
  <2>5. /\ Book(r, With(new, o, new[o] - 1))
        /\ Follows(a, r) /\ ~ Nothing(r) /\ Says(a, r, a.heap[o].bytes) /\ \A p \in Objects : r.heap[p] = a.heap[p]
    <3>1. new[o] # 0
      BY <2>3
    <3>2. QED
      BY <3>1, <2>1, <2>2, AppendNodeBook
  <2>6. Book(r, own)
    BY <2>4, <2>5
  <2>7. Follows(s, r) /\ Keeps(s, r, own)
    BY <2>2, <2>5, FollowsTransitive DEF Keeps
  <2>8. Says(s, r, v)
    <3>1. s \in Pairs /\ Says(a, r, v)
      BY <2>2, <2>5 DEF Book
    <3>2. QED
      BY <3>1, <2>2, <1>1, SaysAround
  <2>9. QED
    BY <2>5, <2>6, <2>7, <2>8 DEF Goes, v
<1>4. QED
  BY <1>2, <1>3

\* A short string is embedded.
LEMMA EncodingType ==
  ASSUME NEW v
  PROVE  Encoding(v) \in {"none", "raw", "embstr", "int"} /\ Encoding(v) # "int"
  BY DEF Encoding

\* A node for a string that no object holds.
LEMMA AddReplyStringToListOK ==
  ASSUME MemoryUnbounded, NEW s, NEW own, Book(s, own), NEW v \in Seq(Int),
         NEW r, r = addReplyStringToList(s, v)
  PROVE  Goes(s, r, own, v) /\ ~ Nothing(r)
<1>1. CASE HasRoom(s, v)
  <2>1. r = AppendToTail(s, v)
    BY <1>1 DEF addReplyStringToList
  <2>2. QED
    BY <2>1, <1>1, AppendToTailOK
<1>2. CASE ~ HasRoom(s, v)
  <2> DEFINE a == WithHeap(s, createObject(s.heap, Encoding(v), v))
             n == New(s.heap)
             new == With(own, n, 1)
  <2>1. r = AppendNode(a, n)
    BY <1>2 DEF addReplyStringToList, WithHeap
  <2>2. /\ Book(a, new) /\ Follows(s, a) /\ Keeps(s, a, own) /\ Says(s, a, <<>>)
        /\ n \in Objects /\ own[n] = 0 /\ a.heap[n].bytes = v
    <3> DEFINE e == Encoding(v)
    <3>1. e \in {"none", "raw", "embstr", "int"} /\ e # "int"
      BY EncodingType
    <3>2. Creates(s, own, e, v, n, a)
      BY <3>1 DEF Creates
    <3> HIDE DEF a, n, e
    <3>3. QED
      BY <3>2, CreateBook, SingleIs
  <2>3. own \in [Objects -> Nat]
    BY BookTypes
  <2> HIDE DEF a, n
  <2>4. new[n] = 1 /\ With(new, n, 0) = own
    BY <2>2, <2>3 DEF With
  <2> HIDE DEF new
  <2>5. /\ Book(r, With(new, n, new[n] - 1))
        /\ Follows(a, r) /\ ~ Nothing(r) /\ Says(a, r, a.heap[n].bytes) /\ \A p \in Objects : r.heap[p] = a.heap[p]
    <3>1. new[n] # 0
      BY <2>4
    <3>2. QED
      BY <3>1, <2>1, <2>2, AppendNodeBook
  <2>6. Book(r, own)
    <3>1. With(new, n, new[n] - 1) = own
      BY <2>4
    <3>2. QED
      BY <3>1, <2>5
  <2>7. Follows(s, r) /\ Keeps(s, r, own)
    BY <2>2, <2>5, FollowsTransitive DEF Keeps
  <2>8. Says(s, r, v)
    <3>1. s \in Pairs /\ Says(a, r, v)
      BY <2>2, <2>5 DEF Book
    <3>2. QED
      BY <3>1, <2>2, SaysAround
  <2>9. QED
    BY <2>5, <2>6, <2>7, <2>8 DEF Goes
<1>3. QED
  BY <1>1, <1>2

\* The buffer, or the list.
LEMMA AddReplyEncodedOK ==
  ASSUME MemoryUnbounded, NEW s, NEW own, Book(s, own), NEW o \in Objects, own[o] # 0,
         NEW r, r = addReplyEncoded(s, o)
  PROVE  Goes(s, r, own, s.heap[o].bytes) /\ (s.heap[o].bytes # <<>> => ~ Nothing(r))
<1> DEFINE v == s.heap[o].bytes
<1>1. v \in Seq(Int)
  BY BookTypes DEF Object
<1>2. CASE Fits(s, v)
  <2>1. r = addReplyToBuffer(s, v)
    BY <1>2 DEF addReplyEncoded
  <2> HIDE DEF v
  <2>2. Goes(s, r, own, v) /\ (v # <<>> => ~ Nothing(r))
    BY <2>1, <1>1, <1>2, AddReplyToBufferOK
  <2>3. QED
    BY <2>2 DEF v
<1>3. CASE ~ Fits(s, v)
  <2>1. r = addReplyObjectToList(s, o)
    BY <1>3 DEF addReplyEncoded
  <2>2. QED
    BY <2>1, AddReplyObjectToListOK
<1>4. QED
  BY <1>2, <1>3

\* A function that makes an object for the time that it runs: the book of it.
LEMMA CreateGoes ==
  ASSUME MemoryUnbounded, NEW s, NEW own, NEW enc, NEW bytes, NEW n, NEW r,
         Creates(s, own, enc, bytes, n, r)
  PROVE  /\ Book(r, With(own, n, 1)) /\ With(own, n, 1)[n] # 0
         /\ Follows(s, r) /\ Keeps(s, r, own) /\ Says(s, r, <<>>)
         /\ Nothing(r) <=> Nothing(s)
         /\ n \in Objects /\ own[n] = 0 /\ own \in [Objects -> Nat]
         /\ r.heap[n].bytes = bytes
         /\ \A p \in Objects : own[p] # 0 => With(own, n, 1)[p] # 0
<1>1. /\ Book(r, With(own, n, 1)) /\ Follows(s, r) /\ Keeps(s, r, own)
      /\ Says(s, r, <<>>) /\ r.c = s.c
      /\ n \in Objects /\ own[n] = 0 /\ r.heap[n] = Single(enc, bytes)
  BY CreateBook
<1>2. own \in [Objects -> Nat]
  BY BookTypes DEF Creates
<1>3. \A p \in Objects : With(own, n, 1)[p] = IF p = n THEN 1 ELSE own[p]
  BY <1>1, <1>2 DEF With
<1>4. r.heap[n].bytes = bytes
  BY <1>1, SingleIs
<1>5. QED
  BY <1>1, <1>2, <1>3, <1>4 DEF Nothing

\* An integer is added as the string that it is written as.
LEMMA AddReplyIntegerOK ==
  ASSUME MemoryUnbounded, NEW s, NEW own, Book(s, own), NEW o \in Objects, own[o] # 0,
         s.heap[o].enc = "int",
         NEW r, r = addReplyInteger(s, o)
  PROVE  Goes(s, r, own, s.heap[o].bytes) /\ (s.heap[o].bytes # <<>> => ~ Nothing(r))
<1> DEFINE v == s.heap[o].bytes
           a == WithHeap(s, createObject(s.heap, Encoding(v), v))
           n == New(s.heap)
           b == addReplyEncoded(a, n)
           new == With(own, n, 1)
<1>1. s \in Pairs /\ v \in Seq(Int) /\ v \in Numbers /\ s.c.buf \in Seq(Int)
  <2>1. s \in Pairs /\ v \in Seq(Int)
    BY BookTypes DEF Object
  <2>2. v \in Numbers
    BY DEF Book
  <2>3. QED
    BY <2>1, <2>2, FieldTypes
<1>2. CASE s.c.reply = <<>> /\ Chunk - Len(s.c.buf) >= IntRoom
  <2>1. r = addReplyToBuffer(s, v)
    BY <1>2 DEF addReplyInteger
  <2>2. Fits(s, v)
    <3>1. Len(v) <= IntRoom /\ Len(v) \in Nat /\ Len(s.c.buf) \in Nat
      BY <1>1, SizesAssumption
    <3> HIDE DEF v
    <3>2. QED
      BY <3>1, <1>2, SizesAssumption DEF Fits
  <2> HIDE DEF v
  <2>3. Goes(s, r, own, v) /\ (v # <<>> => ~ Nothing(r))
    BY <2>1, <2>2, <1>1, AddReplyToBufferOK
  <2>4. QED
    BY <2>3 DEF v
<1>3. CASE ~ (s.c.reply = <<>> /\ Chunk - Len(s.c.buf) >= IntRoom)
  <2>1. r = WithHeap(b, decrRefCount(b.heap, n))
    BY <1>3 DEF addReplyInteger, WithHeap
  <2>2. Creates(s, own, Encoding(v), v, n, a)
    BY <1>1, EncodingType DEF Creates
  <2> HIDE DEF v, n, a
  <2>3. /\ Book(a, new) /\ new[n] # 0 /\ Follows(s, a) /\ Keeps(s, a, own) /\ Says(s, a, <<>>)
        /\ n \in Objects /\ own[n] = 0 /\ own \in [Objects -> Nat] /\ a.heap[n].bytes = v
    BY <2>2, CreateGoes
  <2>4. Goes(a, b, new, v) /\ (v # <<>> => ~ Nothing(b))
    <3> HIDE DEF new
    <3>1. Goes(a, b, new, a.heap[n].bytes) /\ (a.heap[n].bytes # <<>> => ~ Nothing(b))
      BY <2>3, AddReplyEncodedOK
    <3>2. QED
      BY <3>1, <2>3
  <2> HIDE DEF b
  <2>5. Goes(s, r, own, v) /\ r.c = b.c
    <3>1. Goes(a, b, With(own, n, 1), v) /\ v \in Seq(Int)
      BY <2>4, <1>1
    <3>2. /\ Follows(s, a) /\ Keeps(s, a, own) /\ Says(s, a, <<>>)
          /\ n \in Objects /\ own[n] = 0 /\ own \in [Objects -> Nat]
      BY <2>3
    <3> HIDE DEF new
    <3>3. QED
      BY <2>1, <3>1, <3>2, GoesAround
  <2>6. QED
    BY <2>4, <2>5 DEF Nothing, v
<1>4. QED
  BY <1>2, <1>3

\* A reply of an object that the caller owns.
LEMMA AddReplyOK ==
  ASSUME MemoryUnbounded, NEW s, NEW own, Book(s, own), NEW o \in Objects, own[o] # 0,
         NEW r, r = addReply(s, o)
  PROVE  /\ Goes(s, r, own, s.heap[o].bytes) /\ s.heap[o].bytes \in Seq(Int)
         /\ (s.heap[o].bytes # <<>> => Awake(s, r))
<1> DEFINE p == prepareClientToWrite(s)
<1>1. /\ Goes(s, p, own, <<>>) /\ p.heap = s.heap
      /\ \A l : Follows(p, l) /\ ~ Nothing(l) => Awake(s, l)
  BY PrepareOK
<1>2. Book(p, own)
  BY <1>1 DEF Goes
<1>3. r = IF s.heap[o].enc = "int" THEN addReplyInteger(p, o) ELSE addReplyEncoded(p, o)
  BY DEF addReply
<1> HIDE DEF p
<1>4. Goes(p, r, own, p.heap[o].bytes) /\ (p.heap[o].bytes # <<>> => ~ Nothing(r))
  <2>1. CASE s.heap[o].enc = "int"
    BY <2>1, <1>1, <1>2, <1>3, AddReplyIntegerOK
  <2>2. CASE s.heap[o].enc # "int"
    BY <2>2, <1>2, <1>3, AddReplyEncodedOK
  <2>3. QED
    BY <2>1, <2>2
<1>5. Goes(s, r, own, s.heap[o].bytes) /\ s.heap[o].bytes \in Seq(Int)
  <2>1. s.heap[o].bytes \in Seq(Int)
    BY BookTypes DEF Object
  <2>2. QED
    BY <2>1, <1>1, <1>4, GoesThen
<1>6. Follows(p, r)
  BY <1>4 DEF Goes
<1>7. QED
  BY <1>1, <1>4, <1>5, <1>6

\* A reply of a string that no object holds.
LEMMA AddReplyStringOK ==
  ASSUME MemoryUnbounded, NEW s, NEW own, Book(s, own), NEW v \in Seq(Int),
         NEW r, r = addReplyString(s, v)
  PROVE  Goes(s, r, own, v) /\ (v # <<>> => Awake(s, r))
<1> DEFINE p == prepareClientToWrite(s)
<1>1. /\ Goes(s, p, own, <<>>)
      /\ \A l : Follows(p, l) /\ ~ Nothing(l) => Awake(s, l)
  BY PrepareOK
<1>2. Book(p, own)
  BY <1>1 DEF Goes
<1>3. r = IF Fits(p, v) THEN addReplyToBuffer(p, v) ELSE addReplyStringToList(p, v)
  BY DEF addReplyString
<1> HIDE DEF p
<1>4. Goes(p, r, own, v) /\ (v # <<>> => ~ Nothing(r))
  <2>1. CASE Fits(p, v)
    BY <2>1, <1>2, <1>3, AddReplyToBufferOK
  <2>2. CASE ~ Fits(p, v)
    BY <2>2, <1>2, <1>3, AddReplyStringToListOK
  <2>3. QED
    BY <2>1, <2>2
<1>5. Goes(s, r, own, v)
  BY <1>1, <1>4, GoesThen
<1>6. Follows(p, r)
  BY <1>4 DEF Goes
<1>7. QED
  BY <1>1, <1>4, <1>5, <1>6

\* The shared object that every reply of this model has in it is a line.
HasLine(s, own) == own[shared] # 0 /\ s.heap[shared].bytes = <<Line>>

\* ... and stays one.
LEMMA LineStays ==
  ASSUME NEW s, NEW r, NEW own, HasLine(s, own), Keeps(s, r, own)
  PROVE  HasLine(r, own)
  BY ObjectsAssumption DEF HasLine, Keeps

\* The bytes of a line, and of a string between two lines.
OneLine == <<Line>>
BulkLines(v) == OneLine \o v \o OneLine

\* They are bytes.
LEMMA LinesAre ==
  /\ OneLine \in Seq(Int) /\ OneLine # <<>>
  /\ \A v \in Seq(Int) :
       OneLine \o v \in Seq(Int) /\ OneLine \o v \o OneLine \in Seq(Int)
<1>1. OneLine \in Seq(Int) /\ OneLine # <<>>
  BY DEF OneLine, Line
<1>2. QED
  BY <1>1, Chains

\* A reply of a line.
LEMMA AddLineOK ==
  ASSUME MemoryUnbounded, NEW s, NEW own, Book(s, own), HasLine(s, own),
         NEW r, r = addReply(s, shared)
  PROVE  Goes(s, r, own, OneLine) /\ Awake(s, r) /\ HasLine(r, own)
<1>1. shared \in Objects /\ own[shared] # 0 /\ s.heap[shared].bytes # <<>>
  BY ObjectsAssumption DEF HasLine
<1>2. Goes(s, r, own, OneLine) /\ Awake(s, r)
  BY <1>1, AddReplyOK DEF HasLine, OneLine
<1>3. QED
  BY <1>2, LineStays DEF Goes

\* A length, the object, and the end of the line.
LEMMA AddReplyBulkOK ==
  ASSUME MemoryUnbounded, NEW s, NEW own, Book(s, own), HasLine(s, own),
         NEW o \in Objects, own[o] # 0,
         NEW r, r = addReplyBulk(s, o)
  PROVE  Goes(s, r, own, BulkLines(s.heap[o].bytes)) /\ Awake(s, r) /\ HasLine(r, own)
<1> DEFINE v == s.heap[o].bytes
           a == addReply(s, shared)
           b == addReply(a, o)
<1>1. Goes(s, a, own, OneLine) /\ Awake(s, a) /\ HasLine(a, own)
  BY AddLineOK
<1>2. r = addReply(b, shared)
  BY DEF addReplyBulk
<1> HIDE DEF a
<1>3. Goes(a, b, own, v) /\ v \in Seq(Int)
  <2>1. Goes(a, b, own, a.heap[o].bytes) /\ a.heap[o].bytes \in Seq(Int)
    BY <1>1, AddReplyOK DEF Goes
  <2>2. a.heap[o].bytes = v
    BY <1>1 DEF Goes, Keeps
  <2>3. QED
    BY <2>1, <2>2
<1> HIDE DEF b, v
<1>4. HasLine(b, own) /\ Book(b, own)
  BY <1>1, <1>3, LineStays DEF Goes
<1>5. Goes(b, r, own, OneLine) /\ HasLine(r, own)
  BY <1>2, <1>4, AddLineOK
<1>6. Goes(s, b, own, OneLine \o v) /\ Awake(s, b)
  BY <1>1, <1>3, GoesOn, LinesAre
<1>7. Goes(s, r, own, OneLine \o v \o OneLine) /\ Awake(s, r)
  BY <1>3, <1>5, <1>6, GoesOn, LinesAre
<1>8. QED
  BY <1>5, <1>7 DEF BulkLines, v

\* The same for a string.
LEMMA AddReplyBulkCBufferOK ==
  ASSUME MemoryUnbounded, NEW s, NEW own, Book(s, own), HasLine(s, own),
         NEW v \in Seq(Int),
         NEW r, r = addReplyBulkCBuffer(s, v)
  PROVE  Goes(s, r, own, BulkLines(v)) /\ Awake(s, r) /\ HasLine(r, own)
<1> DEFINE a == addReply(s, shared)
           b == addReplyString(a, v)
<1>1. Goes(s, a, own, OneLine) /\ Awake(s, a) /\ HasLine(a, own)
  BY AddLineOK
<1>2. r = addReply(b, shared)
  BY DEF addReplyBulkCBuffer
<1> HIDE DEF a
<1>3. Goes(a, b, own, v)
  BY <1>1, AddReplyStringOK DEF Goes
<1> HIDE DEF b
<1>4. HasLine(b, own) /\ Book(b, own)
  BY <1>1, <1>3, LineStays DEF Goes
<1>5. Goes(b, r, own, OneLine) /\ HasLine(r, own)
  BY <1>2, <1>4, AddLineOK
<1>6. Goes(s, b, own, OneLine \o v) /\ Awake(s, b)
  BY <1>1, <1>3, GoesOn, LinesAre
<1>7. Goes(s, r, own, OneLine \o v \o OneLine) /\ Awake(s, r)
  BY <1>5, <1>6, GoesOn, LinesAre
<1>8. QED
  BY <1>5, <1>7 DEF BulkLines

\* An error is three strings.
ErrorIs == OneLine \o OneLine \o OneLine

LEMMA AddReplyErrorOK ==
  ASSUME MemoryUnbounded, NEW s, NEW own, Book(s, own),
         NEW r, r = addReplyError(s)
  PROVE  Goes(s, r, own, ErrorIs) /\ Awake(s, r)
<1> DEFINE v == OneLine
           a == addReplyString(s, v)
           b == addReplyString(a, v)
<1>1. v \in Seq(Int) /\ v # <<>> /\ v \o v \in Seq(Int)
  BY LinesAre
<1>2. r = addReplyString(b, v)
  BY DEF addReplyError, OneLine
<1> HIDE DEF v
<1>3. Goes(s, a, own, v) /\ Awake(s, a)
  BY <1>1, AddReplyStringOK
<1> HIDE DEF a
<1>4. Goes(a, b, own, v)
  BY <1>1, <1>3, AddReplyStringOK DEF Goes
<1> HIDE DEF b
<1>5. Goes(b, r, own, v)
  BY <1>1, <1>2, <1>4, AddReplyStringOK DEF Goes
<1>6. Goes(s, b, own, v \o v) /\ Awake(s, b)
  BY <1>1, <1>3, <1>4, GoesOn
<1>7. Goes(s, r, own, v \o v \o v) /\ Awake(s, r)
  BY <1>1, <1>5, <1>6, GoesOn
<1>8. QED
  BY <1>7 DEF ErrorIs, v

\* The pair of these fields.
Pair(h, buf, list, n, sent, on, state) ==
  [heap |-> h,
   c |-> [buf |-> buf, reply |-> list, reply_bytes |-> n, sentlen |-> sent,
          handler |-> on, state |-> state]]

\* The pair of some fields is the only one.
LEMMA PairIs ==
  ASSUME NEW h, NEW buf, NEW list, NEW n, NEW sent, NEW on, NEW state
  PROVE  /\ Is(Pair(h, buf, list, n, sent, on, state), h, buf, list, n, sent, on, state)
         /\ \A r : Is(r, h, buf, list, n, sent, on, state)
                     => r = Pair(h, buf, list, n, sent, on, state)
<1>1. Is(Pair(h, buf, list, n, sent, on, state), h, buf, list, n, sent, on, state)
  BY DEF Is, Pair
<1>2. ASSUME NEW r, Is(r, h, buf, list, n, sent, on, state)
      PROVE  r = Pair(h, buf, list, n, sent, on, state)
  BY <1>2 DEF Is, Pair
<1>3. QED
  BY <1>1, <1>2

\* A node that waits for its length.
LEMMA AddDeferredOK ==
  ASSUME MemoryUnbounded, NEW s, NEW own, Book(s, own),
         NEW r, r = addDeferredMultiBulkLength(s)
  PROVE  /\ Goes(s, r, own, <<>>) /\ Awake(s, r) /\ Waits(r, Len(r.c.reply))
         /\ \A w \in Seq(Int) : All(r, Len(r.c.reply), w) = All(s, 0, <<>>) \o w
<1> DEFINE p == prepareClientToWrite(s)
           g == createObject(p.heap, "none", <<>>)
           a == WithHeap(p, g)
           n == New(p.heap)
           m == Append(p.c.reply, n)
           new == With(own, n, 1)
           q == AppendNode(a, n)
<1>1. /\ Goes(s, p, own, <<>>)
      /\ \A l : Follows(p, l) /\ ~ Nothing(l) => Awake(s, l)
  BY PrepareOK
<1>2. Book(p, own)
  BY <1>1 DEF Goes
<1>3. r = [p EXCEPT !.heap = g, !.c.reply = m]
  <2>1. r = [p EXCEPT !.heap = createObject(@, "none", <<>>), !.c.reply = Append(@, New(p.heap))]
    BY DEF addDeferredMultiBulkLength
  <2>2. QED
    BY <2>1, Zenon
<1> HIDE DEF p
<1>4. p \in Pairs /\ p.c.reply_bytes \in Int /\ p.c.reply \in Seq(Objects)
      /\ Is(p, p.heap, p.c.buf, p.c.reply, p.c.reply_bytes, p.c.sentlen, p.c.handler, p.c.state)
  BY <1>2, BookTypes, FieldTypes
<1>5. Creates(p, own, "none", <<>>, n, a)
  BY <1>2 DEF Creates
<1>6. a = [p EXCEPT !.heap = g]
  BY DEF WithHeap
<1> HIDE DEF g
<1>7. Is(a, g, p.c.buf, p.c.reply, p.c.reply_bytes, p.c.sentlen, p.c.handler, p.c.state)
  <2> HIDE DEF a
  <2>1. QED
    BY <1>4, <1>6, Update
<1> HIDE DEF a, n
<1>8. /\ Book(a, new) /\ new[n] # 0 /\ Follows(p, a) /\ Keeps(p, a, own) /\ Says(p, a, <<>>)
      /\ n \in Objects /\ own[n] = 0 /\ own \in [Objects -> Nat]
  BY <1>5, CreateGoes
<1>9. a.heap[n] = Single("none", <<>>)
  BY <1>5, CreateBook
<1>10. /\ Book(q, With(new, n, new[n] - 1))
       /\ Follows(a, q) /\ ~ Nothing(q) /\ Keeps(a, q, new)
       /\ Says(a, q, a.heap[n].bytes)
       /\ \A w \in Seq(Int) : All(q, Len(q.c.reply), w) = All(a, 0, <<>>) \o w
       /\ \A x \in Objects : q.heap[x] = a.heap[x]
       /\ q.c.reply = Append(a.c.reply, n)
  <2> HIDE DEF new, q
  <2>1. q = AppendNode(a, n)
    BY DEF q
  <2>2. QED
    BY <2>1, <1>8, AppendNodeBook, SMTT(60)
<1>11. Memory(a.heap[n]) = 0
  BY <1>9, SingleIs DEF Memory
<1>12. r = q
  <2> HIDE DEF m
  <2>1. /\ a.heap = g /\ a.c.reply = p.c.reply /\ a.c.reply_bytes = p.c.reply_bytes
    BY <1>7, IsFields
  <2>2. q = [a EXCEPT !.c.reply = m, !.c.reply_bytes = p.c.reply_bytes]
    <3>1. q = [a EXCEPT !.c.reply = Append(a.c.reply, n),
                        !.c.reply_bytes = a.c.reply_bytes + Memory(a.heap[n])]
      BY Zenon DEF AppendNode
    <3>2. Append(a.c.reply, n) = m
      BY <2>1 DEF m
    <3>3. a.c.reply_bytes + Memory(a.heap[n]) = p.c.reply_bytes
      BY <2>1, <1>11, <1>4, SMTT(40)
    <3> HIDE DEF q
    <3>4. QED
      BY <3>1, <3>2, <3>3, Zenon
  <2> HIDE DEF q
  <2>3. \A y, z : Is([a EXCEPT !.c.reply = y, !.c.reply_bytes = z], g, p.c.buf, y, z,
                     p.c.sentlen, p.c.handler, p.c.state)
    BY <1>7, Updates, ZenonT(60)
  <2>4. Is(q, g, p.c.buf, m, p.c.reply_bytes, p.c.sentlen, p.c.handler, p.c.state)
    BY <2>2, <2>3, Zenon
  <2>5. \A y, z : Is([p EXCEPT !.heap = y, !.c.reply = z], y, p.c.buf, z, p.c.reply_bytes,
                     p.c.sentlen, p.c.handler, p.c.state)
    BY <1>4, Updates, Zenon
  <2>6. Is(r, g, p.c.buf, m, p.c.reply_bytes, p.c.sentlen, p.c.handler, p.c.state)
    <3>1. Is([p EXCEPT !.heap = g, !.c.reply = m], g, p.c.buf, m, p.c.reply_bytes,
             p.c.sentlen, p.c.handler, p.c.state)
      BY <2>5
    <3>2. QED
      BY <3>1, <1>3, Zenon
  <2>7. QED
    BY <2>4, <2>6, PairIs
<1> HIDE DEF q
<1>13. With(new, n, new[n] - 1) = own
  <2>1. With(new, n, 0) = own /\ new[n] = 1
    BY <1>8 DEF With
  <2> HIDE DEF new
  <2>2. QED
    BY <2>1
<1>14. Book(q, own)
  BY <1>10, <1>13
<1>15. Goes(p, q, own, <<>>)
  <2>1. Follows(p, q)
    BY <1>8, <1>10, FollowsTransitive
  <2>2. Keeps(p, q, own)
    BY <1>8, <1>10 DEF Keeps
  <2>3. Says(p, q, <<>>)
    <3>1. a.heap[n].bytes = <<>> /\ <<>> \in Seq(Int)
      BY <1>9, SingleIs
    <3>2. QED
      BY <3>1, <1>4, <1>8, <1>10, SaysAround
  <2>4. QED
    BY <2>1, <2>2, <2>3, <1>14 DEF Goes
<1>16. Goes(s, q, own, <<>>)
  <2>1. <<>> \in Seq(Int)
    OBVIOUS
  <2>2. QED
    BY <2>1, <1>1, <1>15, GoesThen
<1>17. Awake(s, q)
  BY <1>1, <1>10, <1>15 DEF Goes
<1>18. Waits(q, Len(q.c.reply))
  <2> DEFINE list == a.c.reply
             i == Len(q.c.reply)
  <2>1. list \in Seq(Objects)
    BY <1>8, BookTypes
  <2> HIDE DEF list
  <2>2. Append(list, n)[Len(list) + 1] = n /\ Len(Append(list, n)) = Len(list) + 1 /\ Len(list) \in Nat
    BY <2>1, <1>8
  <2>3. q.c.reply = Append(list, n)
    BY <1>10 DEF list
  <2>4. i \in 1 .. Len(q.c.reply) /\ q.c.reply[i] = n
    BY <2>2, <2>3
  <2>5. q.heap[n] = Single("none", <<>>)
    BY <1>8, <1>9, <1>10
  <2> HIDE DEF i
  <2>6. Waits(q, i)
    BY <2>4, <2>5 DEF Waits
  <2>7. QED
    BY <2>6 DEF i
<1>19. All(a, 0, <<>>) = All(s, 0, <<>>)
  <2> DEFINE e == <<>>
  <2>1. e \in Seq(Int) /\ s \in Pairs
    BY DEF Book
  <2>2. All(p, 0, e) = All(s, 0, e) \o <<>> /\ All(a, 0, e) = All(p, 0, e) \o <<>>
    BY <2>1, <1>1, <1>8 DEF Says, Goes
  <2> HIDE DEF e
  <2>3. All(p, 0, e) \in Seq(Int) /\ All(s, 0, e) \in Seq(Int)
    BY <2>1, <1>4, PartsType
  <2>4. All(a, 0, e) = All(s, 0, e)
    BY <2>2, <2>3, Chains
  <2>5. QED
    BY <2>4 DEF e
<1>20. QED
  BY <1>10, <1>12, <1>16, <1>17, <1>18, <1>19

\* A name that KEYS has found.
LEMMA KeyReplyOK ==
  ASSUME MemoryUnbounded, NEW s, NEW own, Book(s, own), HasLine(s, own),
         NEW v \in Seq(Int),
         NEW r, r = KeyReply(s, v)
  PROVE  Goes(s, r, own, BulkLines(v)) /\ HasLine(r, own)
<1> DEFINE a == WithHeap(s, createObject(s.heap, Encoding(v), v))
           n == New(s.heap)
           b == addReplyBulk(a, n)
           new == With(own, n, 1)
<1>1. r = WithHeap(b, decrRefCount(b.heap, n))
  BY DEF KeyReply, WithHeap
<1>2. Creates(s, own, Encoding(v), v, n, a)
  BY EncodingType DEF Creates
<1> HIDE DEF n, a
<1>3. /\ Book(a, new) /\ new[n] # 0 /\ Follows(s, a) /\ Keeps(s, a, own) /\ Says(s, a, <<>>)
      /\ n \in Objects /\ own[n] = 0 /\ own \in [Objects -> Nat] /\ a.heap[n].bytes = v
      /\ \A p \in Objects : own[p] # 0 => new[p] # 0
  BY <1>2, CreateGoes
<1>4. HasLine(a, new)
  <2>1. HasLine(a, own)
    BY <1>3, LineStays
  <2>2. QED
    BY <2>1, <1>3, ObjectsAssumption DEF HasLine
<1>5. Goes(a, b, new, BulkLines(v)) /\ BulkLines(v) \in Seq(Int)
  <2> HIDE DEF new
  <2>1. Goes(a, b, new, BulkLines(a.heap[n].bytes))
    BY <1>3, <1>4, AddReplyBulkOK
  <2>2. BulkLines(v) \in Seq(Int)
    BY LinesAre DEF BulkLines
  <2>3. QED
    BY <2>1, <2>2, <1>3
<1> HIDE DEF b
<1>6. Goes(a, b, With(own, n, 1), BulkLines(v))
  BY <1>5
<1> HIDE DEF new
<1>7. Goes(s, r, own, BulkLines(v))
  <2>1. /\ Follows(s, a) /\ Keeps(s, a, own) /\ Says(s, a, <<>>)
        /\ n \in Objects /\ own[n] = 0 /\ own \in [Objects -> Nat]
    BY <1>3
  <2>2. QED
    BY <2>1, <1>1, <1>5, <1>6, GoesAround
<1>8. QED
  BY <1>7, LineStays DEF Goes

\* All the bytes of the reply.
Full(s) == All(s, 0, <<>>)

\* What a command has done when it is over: the reply is text.
Ends(s, r, own, text) ==
  /\ Book(r, own) /\ Keeps(s, r, own) /\ ~ Nothing(r)
  /\ r.c.state = s.c.state /\ r.c.handler = s.c.handler
  /\ r.c.sentlen = s.c.sentlen /\ Full(r) = text

\* The line that tells how many elements follow.
CountLine(k) == <<Count(k)>>

\* A step that only says something says it of all the bytes.
LEMMA FullSays ==
  ASSUME NEW s, s \in Pairs, NEW r, NEW v, Says(s, r, v)
  PROVE  /\ Full(s) \in Seq(Int)
         /\ Full(r) = Full(s) \o v
         /\ v = <<>> => Full(r) = Full(s)
         /\ r.c.sentlen = s.c.sentlen
<1> DEFINE e == <<>>
<1>1. e \in Seq(Int)
  OBVIOUS
<1>2. v = e => Full(s) \o v = Full(s)
  <2>1. Full(s) \in Seq(Int)
    BY <1>1, PartsType DEF Full
  <2>2. QED
    BY <2>1, Chains
<1> HIDE DEF e
<1>3. All(s, 0, e) \in Seq(Int) /\ All(r, 0, e) = All(s, 0, e) \o v
  BY <1>1, PartsType DEF Says
<1>4. QED
  BY <1>2, <1>3 DEF Full, e, Says

\* The node that waits gets its length.
LEMMA SetLengthOK ==
  ASSUME NEW s, NEW own, Book(s, own), NEW i, Waits(s, i), NEW k, k \in Nat,
         NEW r, r = SetLength(s, i, k)
  PROVE  /\ Ends(s, r, own, All(s, i, CountLine(k)))
         /\ r.c.reply = s.c.reply
         /\ \E bytes \in Seq(Int) : r.heap[s.c.reply[i]] = Single("raw", bytes)
<1> DEFINE o == s.c.reply[i]
           w == CountLine(k)
           x == Single("raw", w)
           g == [s.heap EXCEPT ![o] = x]
           n == s.c.reply_bytes + 2
<1>1. /\ o \in Objects /\ own[o] = 0 /\ i \in 1 .. Len(s.c.reply)
      /\ s.heap[o] = Single("none", <<>>)
  BY WaitingIsOurs DEF Waits
<1>2. s \in Pairs /\ s.heap \in Heaps
  BY BookTypes
<1>3. w \in Seq(Int) /\ Len(w) = 1
  BY DEF Count, CountLine
<1> HIDE DEF w
<1>4. x \in Object /\ x.refs = 1 /\ x.enc = "raw" /\ x.bytes = w
  BY <1>3, SingleIs
<1>5. /\ s.heap[o].refs = 1 /\ s.heap[o].enc = "none" /\ s.heap[o].bytes = <<>>
  BY <1>1, SingleIs
<1>6. Memory(x) = 2 /\ Memory(s.heap[o]) = 0
  <2> HIDE DEF x, o
  <2>1. Memory(x) = Len(w) + 1
    BY <1>4 DEF Memory
  <2>2. Memory(s.heap[o]) = 0
    BY <1>5 DEF Memory
  <2>3. QED
    BY <2>1, <2>2, <1>3
<1>7. r = [s EXCEPT !.heap = g, !.c.reply_bytes = n]
  <2>1. r = [s EXCEPT !.heap[s.c.reply[i]] = [refs |-> 1, enc |-> "raw", bytes |-> <<Count(k)>>],
                      !.c.reply_bytes = @ + 2]
    BY DEF SetLength
  <2>2. QED
    BY <2>1, Zenon DEF Single, w, CountLine
<1>8. g \in Heaps /\ g[o] = x /\ \A p \in Objects : p # o => g[p] = s.heap[p]
  <2> HIDE DEF x, o
  <2>1. QED
    BY <1>1, <1>2, <1>4 DEF Heaps
<1> HIDE DEF g
<1>9. Is(r, g, s.c.buf, s.c.reply, n, s.c.sentlen, s.c.handler, s.c.state)
  <2> HIDE DEF n
  <2>1. Is(s, s.heap, s.c.buf, s.c.reply, s.c.reply_bytes, s.c.sentlen, s.c.handler, s.c.state)
    BY <1>2, FieldTypes
  <2>2. \A y, z : Is([s EXCEPT !.heap = y, !.c.reply_bytes = z], y, s.c.buf, s.c.reply, z,
                     s.c.sentlen, s.c.handler, s.c.state)
    BY <2>1, Updates, Zenon
  <2>3. Is([s EXCEPT !.heap = g, !.c.reply_bytes = n], g, s.c.buf, s.c.reply, n,
           s.c.sentlen, s.c.handler, s.c.state)
    BY <2>2
  <2>4. QED
    BY <1>7, <2>3, Zenon
<1>10. Mends(s, own, i, x, 2, r)
  <2>1. r.heap = g
    <3> HIDE DEF n
    <3>1. QED
      BY <1>9, IsFields
  <2>2. Len(s.heap[o].bytes) <= Len(x.bytes)
    BY <1>3, <1>4, <1>5
  <2>3. 2 \in Int /\ Memory(x) = Memory(s.heap[o]) + 2 /\ x.enc # "int"
    BY <1>4, <1>6
  <2> HIDE DEF x
  <2>4. QED
    BY <2>1, <2>2, <2>3, <1>1, <1>4, <1>5, <1>8, <1>9 DEF Mends
<1> HIDE DEF x
<1>11. /\ Book(r, own) /\ Keeps(s, r, own) /\ ~ Nothing(r)
       /\ r.c.state = s.c.state /\ r.c.handler = s.c.handler
       /\ r.c.reply = s.c.reply /\ r.heap[o] = x
       /\ r.c.buf = s.c.buf /\ r.c.sentlen = s.c.sentlen
       /\ \A p \in Objects : p # o => r.heap[p] = s.heap[p]
       /\ \A j \in 1 .. Len(s.c.reply) : s.c.reply[j] = o => j = i
  BY <1>10, MendBook
<1>12. Full(r) = All(s, i, w)
  <2> DEFINE e == <<>>
             list == s.c.reply
  <2>1. list \in Seq(Objects) /\ Len(list) \in Nat
    BY BookTypes
  <2> HIDE DEF e, list, o
  <2>2. ASSUME NEW j \in 1 .. Len(list)
        PROVE  (IF j = 0 THEN e ELSE r.heap[list[j]].bytes)
                 = (IF j = i THEN w ELSE s.heap[list[j]].bytes)
    <3>1. j # 0 /\ list[j] \in Objects
      BY <2>1
    <3>2. CASE j = i
      BY <3>1, <3>2, <1>4, <1>11 DEF o, list
    <3>3. CASE j # i
      <4>1. list[j] # o
        BY <3>3, <1>11 DEF list
      <4>2. QED
        BY <3>1, <3>3, <4>1, <1>11
    <3>4. QED
      BY <3>2, <3>3
  <2>3. Parts(r, 0, e) = Parts(s, i, w)
    BY <2>2, <1>11 DEF Parts, list
  <2>4. QED
    BY <2>3, <1>11 DEF Full, All, e
<1>13. QED
  BY <1>3, <1>11, <1>12 DEF Ends, x, w

\* It takes over what is in the next node.
LEMMA GlueNextOK ==
  ASSUME NEW s, NEW own, Book(s, own), NEW i, i \in 1 .. Len(s.c.reply) - 1,
         own[s.c.reply[i]] = 0,
         NEW old, old \in Seq(Int), s.heap[s.c.reply[i]] = Single("raw", old),
         NEW r, r = GlueNext(s, i)
  PROVE  Ends(s, r, own, Full(s))
<1> DEFINE list == s.c.reply
           o == list[i]
           next == list[i + 1]
           bytes == s.heap[next].bytes
           x == Single("raw", old \o bytes)
           k == Len(bytes)
           g == [s.heap EXCEPT ![o] = x]
           n == s.c.reply_bytes + k
           a == Pair(g, s.c.buf, list, n, s.c.sentlen, s.c.handler, s.c.state)
           m == RemoveAt(list, i + 1)
           l == n - Memory(s.heap[next])
           b == Pair(g, s.c.buf, m, l, s.c.sentlen, s.c.handler, s.c.state)
           new == With(own, next, own[next] + 1)
<1>1. /\ s \in Pairs /\ own \in [Objects -> Nat] /\ s.heap \in Heaps /\ list \in Seq(Objects)
  BY BookTypes
<1>2. /\ i \in 1 .. Len(list) /\ i + 1 \in 1 .. Len(list) /\ i + 1 # i /\ i + 1 # 1
      /\ o \in Objects /\ next \in Objects
  BY <1>1, SMTT(40)
<1>3. next # o
  <2>1. RefsIn(list, o) = 1
    <3>1. s.heap[o].refs = 1
      BY SingleIs
    <3>2. \A p \in Objects : s.heap[p].refs = RefsIn(list, p) + own[p] /\ RefsIn(list, p) \in Nat
      BY BookTypes
    <3> HIDE DEF o, list
    <3>3. own[o] = 0
      BY DEF o, list
    <3>4. QED
      BY <3>1, <3>2, <3>3, <1>2
  <2>2. \A j, y \in 1 .. Len(list) : list[j] = o /\ list[y] = o => j = y
    <3> HIDE DEF o, list
    <3>1. QED
      BY <2>1, <1>1, RefsInType
  <2>3. QED
    BY <2>2, <1>2
<1>4. bytes \in Seq(Int) /\ s.heap[next] \in Object
  BY <1>1, <1>2 DEF Heaps, Object
<1>5. /\ old \o bytes \in Seq(Int) /\ Len(old \o bytes) = Len(old) + k
      /\ Len(old) \in Nat /\ k \in Nat
  <2> HIDE DEF bytes
  <2>1. QED
    BY <1>4, SMTT(40)
<1>6. x \in Object /\ x.refs = 1 /\ x.enc = "raw" /\ x.bytes = old \o bytes
  <2> DEFINE w == old \o bytes
  <2>1. w \in Seq(Int)
    BY <1>5
  <2> HIDE DEF w
  <2>2. /\ Single("raw", w) \in Object /\ Single("raw", w).refs = 1
        /\ Single("raw", w).enc = "raw" /\ Single("raw", w).bytes = w
    BY <2>1, SingleIs
  <2>3. QED
    BY <2>2, Zenon DEF w
<1>7. /\ s.heap[o].refs = 1 /\ s.heap[o].enc = "raw" /\ s.heap[o].bytes = old
  BY SingleIs
<1>8. Memory(x) = Memory(s.heap[o]) + k
  <2> HIDE DEF x, bytes
  <2>1. QED
    BY <1>5, <1>6, <1>7, SMTT(40) DEF Memory
<1>9. g \in Heaps /\ g[o] = x /\ \A p \in Objects : p # o => g[p] = s.heap[p]
  <2> HIDE DEF x, o
  <2>1. QED
    BY <1>1, <1>2, <1>6 DEF Heaps
<1>10. r = WithHeap(b, decrRefCount(b.heap, next))
  <2> DEFINE f == [s.heap EXCEPT ![o].bytes = @ \o bytes]
             q == decrRefCount(f, next)
  <2>1. r = [s EXCEPT !.heap = q, !.c.reply = m, !.c.reply_bytes = l]
    <3>1. r = [s EXCEPT !.heap = q, !.c.reply = RemoveAt(@, i + 1),
                        !.c.reply_bytes = @ + Len(bytes) - Memory(s.heap[next])]
      BY Zenon DEF GlueNext
    <3>2. s.c.reply_bytes + (Len(bytes) - Memory(s.heap[next])) = l
      <4>1. s.c.reply_bytes \in Int /\ k \in Int /\ Memory(s.heap[next]) \in Int
        <5>1. s.c.reply_bytes \in Int
          BY <1>1, FieldTypes
        <5>2. Memory(s.heap[next]) \in Nat
          BY <1>4, MemoryType, SMTT(40)
        <5> HIDE DEF bytes, next
        <5>3. QED
          BY <5>1, <5>2, <1>5
      <4> HIDE DEF next, bytes
      <4>2. QED
        BY <4>1
    <3> HIDE DEF q, l
    <3>3. QED
      BY <3>1, <3>2, Zenon
  <2>2. f = g
    <3> DEFINE y == s.heap[o]
    <3>1. [y EXCEPT !.bytes = y.bytes \o bytes] = x
      <4> DEFINE w == old \o bytes
      <4>1. y = [refs |-> 1, enc |-> "raw", bytes |-> old]
        BY DEF Single
      <4>2. y.bytes = old
        BY <1>7
      <4> HIDE DEF y, w
      <4>3. [y EXCEPT !.bytes = w] = [refs |-> 1, enc |-> "raw", bytes |-> w]
        BY <4>1
      <4>4. QED
        BY <4>2, <4>3, Zenon DEF w, Single
    <3>2. f = [s.heap EXCEPT ![o] = [y EXCEPT !.bytes = y.bytes \o bytes]]
      BY Zenon
    <3> HIDE DEF f, x, y
    <3>3. QED
      BY <3>1, <3>2, ZenonT(60)
  <2> HIDE DEF f, g, l, m, next, a
  <2>3. Is(s, s.heap, s.c.buf, list, s.c.reply_bytes, s.c.sentlen, s.c.handler, s.c.state)
    BY <1>1, FieldTypes, Zenon
  <2>4. \A y, z, w : Is([s EXCEPT !.heap = y, !.c.reply = z, !.c.reply_bytes = w], y, s.c.buf, z, w,
                     s.c.sentlen, s.c.handler, s.c.state)
    BY <2>3, Updates, Zenon
  <2> HIDE DEF q
  <2>5. Is([s EXCEPT !.heap = q, !.c.reply = m, !.c.reply_bytes = l], q, s.c.buf, m, l,
           s.c.sentlen, s.c.handler, s.c.state)
    BY <2>4
  <2>6. Is(r, q, s.c.buf, m, l, s.c.sentlen, s.c.handler, s.c.state)
    BY <2>1, <2>5, Zenon
  <2>7. Is(b, g, s.c.buf, m, l, s.c.sentlen, s.c.handler, s.c.state)
    BY PairIs
  <2> HIDE DEF b
  <2>8. b.heap = g
    BY <2>7, IsFields
  <2>9. Is([b EXCEPT !.heap = q], q, s.c.buf, m, l, s.c.sentlen, s.c.handler, s.c.state)
    BY <2>7, Update
  <2>10. r = [b EXCEPT !.heap = q]
    BY <2>6, <2>9, PairIs
  <2>11. q = decrRefCount(b.heap, next)
    BY <2>2, <2>8 DEF q
  <2>12. QED
    BY <2>10, <2>11, Zenon DEF WithHeap
<1> HIDE DEF g
<1>11. Is(a, g, s.c.buf, list, n, s.c.sentlen, s.c.handler, s.c.state)
  <2> HIDE DEF n
  <2>1. QED
    BY PairIs DEF n
<1>12. Is(b, g, s.c.buf, m, l, s.c.sentlen, s.c.handler, s.c.state)
  <2> HIDE DEF l, m
  <2>1. QED
    BY PairIs DEF l, m
<1> HIDE DEF a, b
<1>13. a.heap = g /\ a.c.reply = list /\ a.c.reply_bytes = n /\ a.c.buf = s.c.buf
       /\ a.c.sentlen = s.c.sentlen /\ a.c.handler = s.c.handler /\ a.c.state = s.c.state
  <2> HIDE DEF n
  <2>1. QED
    BY <1>11, IsFields, SMTT(40) DEF n
<1>14. Mends(s, own, i, x, k, a)
  <2>1. Len(s.heap[o].bytes) <= Len(x.bytes)
    <3>1. s.heap[o].bytes = old /\ x.bytes = old \o bytes
      BY <1>6, <1>7, Zenon
    <3>2. Len(old) <= Len(old \o bytes)
      <4> HIDE DEF bytes
      <4>1. QED
        BY <1>5
    <3> HIDE DEF x, o, k, bytes
    <3>3. QED
      BY <3>1, <3>2
  <2>2. k \in Int /\ x.enc # "int"
    <3> HIDE DEF x, k, bytes
    <3>1. QED
      BY <1>5, <1>6
  <2> HIDE DEF x, k
  <2>3. QED
    BY <2>1, <2>2, <1>2, <1>6, <1>7, <1>8, <1>9, <1>11, <1>13, Zenon DEF Mends
<1>15. Book(a, own) /\ Keeps(s, a, own)
       /\ \A j \in 1 .. Len(list) : list[j] = o => j = i
  <2> HIDE DEF x, k
  <2>1. QED
    BY <1>14, MendBook
<1>16. Cut(list, i + 1, m)
  BY <1>1, <1>2, Cuts
<1>17. /\ Book(b, new)
       /\ b.c.state = s.c.state /\ b.c.handler = s.c.handler
       /\ b.c.reply = m /\ b.heap = g
       /\ b.c.buf = s.c.buf /\ b.c.sentlen = s.c.sentlen
  <2> DEFINE j == i + 1
  <2>1. Memory(a.heap[a.c.reply[j]]) = Memory(s.heap[next])
    BY <1>2, <1>3, <1>9, <1>13, SMTT(40)
  <2>2. Is(b, a.heap, a.c.buf, m, a.c.reply_bytes - Memory(a.heap[a.c.reply[j]]),
           a.c.sentlen, a.c.handler, a.c.state)
    BY <2>1, <1>12, <1>13
  <2>3. Cut(a.c.reply, j, m) /\ j # 1 /\ a.c.reply[j] = next
    BY <1>2, <1>13, <1>16
  <2>4. a.c.sentlen \in Nat
    BY <1>15, BookTypes, FieldTypes
  <2> HIDE DEF j, m, l, n, next
  <2>5. /\ Book(b, With(own, a.c.reply[j], own[a.c.reply[j]] + 1))
        /\ b.c.state = a.c.state /\ b.c.handler = a.c.handler
        /\ b.c.reply = m /\ b.heap = a.heap
        /\ b.c.buf = a.c.buf /\ b.c.sentlen = a.c.sentlen
    <3>1. CutsTo(a, own, j, m, a.c.sentlen, b)
      BY <2>2, <2>3, <2>4, <1>15 DEF CutsTo
    <3>2. QED
      BY <3>1, CutBook
  <2>6. QED
    BY <2>3, <2>5, <1>13
<1>24. /\ Len(m) \in Nat /\ Len(list) = Len(m) + 1
       /\ \A j \in 1 .. Len(m) : m[j] = IF j < i + 1 THEN list[j] ELSE list[j + 1]
  BY <1>16 DEF Cut
<1>25. Full(b) = Full(s) /\ b \in Pairs
  <2> DEFINE e == <<>>
             p == Parts(s, 0, e)
             q == Parts(b, 0, e)
  <2>1. e \in Seq(Int) /\ b \in Pairs
    BY <1>17 DEF Book
  <2>2. /\ p \in Seq(Seq(Int)) /\ Len(p) = Len(list)
        /\ q \in Seq(Seq(Int)) /\ Len(q) = Len(m)
    <3> HIDE DEF e
    <3>1. p \in Seq(Seq(Int)) /\ Len(p) = Len(list)
      BY <2>1, <1>1, PartsType
    <3>2. q \in Seq(Seq(Int)) /\ Len(q) = Len(b.c.reply)
      BY <2>1, PartsType
    <3>3. QED
      BY <3>1, <3>2, <1>17
  <2>3. \A j \in 1 .. Len(list) : p[j] = s.heap[list[j]].bytes
    BY <1>24 DEF Parts
  <2> HIDE DEF list, o, x, next, bytes, m
  <2>4. \A j \in 1 .. Len(m) : q[j] = g[m[j]].bytes
    BY <1>17, <1>24 DEF Parts
  <2> HIDE DEF p, q
  <2>5. ASSUME NEW j \in 1 .. Len(m)
        PROVE  q[j] = IF j < i THEN p[j]
                      ELSE IF j = i THEN p[i] \o p[i + 1] ELSE p[j + 1]
    <3>1. j \in 1 .. Len(list) /\ j + 1 \in 1 .. Len(list) /\ j \in Nat /\ i \in Nat
      BY <1>2, <1>24
    <3>2. list[j] \in Objects /\ list[j + 1] \in Objects
      BY <3>1, <1>1
    <3>3. CASE j < i
      <4>1. m[j] = list[j] /\ list[j] # o
        BY <3>1, <3>3, <1>15, <1>24
      <4>2. g[list[j]] = s.heap[list[j]]
        BY <4>1, <3>2, <1>9
      <4>3. q[j] = p[j]
        BY <4>1, <4>2, <3>1, <2>3, <2>4
      <4>4. QED
        BY <4>3, <3>3
    <3>4. CASE j = i
      <4>1. m[j] = o /\ p[i] = old /\ p[i + 1] = bytes
        <5>1. m[j] = list[j]
          BY <3>1, <3>4, <1>24
        <5>2. p[i] = s.heap[o].bytes /\ p[i + 1] = s.heap[next].bytes
          BY <2>3, <1>2 DEF o, next
        <5>3. QED
          BY <5>1, <5>2, <3>4, <1>7 DEF o, bytes
      <4>2. q[j] = old \o bytes
        BY <4>1, <2>4, <1>6, <1>9
      <4>3. QED
        BY <4>1, <4>2, <3>4, <3>1
    <3>5. CASE j > i
      <4>1. m[j] = list[j + 1] /\ j + 1 # i
        BY <3>1, <3>5, <1>24
      <4>2. list[j + 1] # o
        BY <4>1, <3>1, <1>15
      <4>3. q[j] = p[j + 1]
        <5>1. g[list[j + 1]] = s.heap[list[j + 1]]
          BY <4>2, <3>2, <1>9
        <5>2. p[j + 1] = s.heap[list[j + 1]].bytes
          BY <2>3, <3>1
        <5>3. QED
          BY <4>1, <5>1, <5>2, <2>4
      <4>4. QED
        BY <4>3, <3>5, <3>1
    <3>6. j < i \/ j = i \/ j > i
      BY <3>1
    <3>7. QED
      BY <3>3, <3>4, <3>5, <3>6
  <2>6. FlattenSeq(q) = FlattenSeq(p)
    <3>1. /\ p \in Seq(Seq(Int)) /\ i \in 1 .. Len(p) - 1
          /\ q \in Seq(Seq(Int)) /\ Len(q) = Len(p) - 1
          /\ \A j \in 1 .. Len(q) :
               q[j] = IF j < i THEN p[j]
                      ELSE IF j = i THEN p[i] \o p[i + 1] ELSE p[j + 1]
      BY <2>2, <2>5, <1>24 DEF list
    <3>2. QED
      BY ONLY <3>1, FlattenGlue, Zenon
  <2>7. QED
    BY <2>1, <2>6, <1>17 DEF Full, All, p, q, e
<1>18. new[next] = own[next] + 1 /\ own[next] \in Nat /\ With(new, next, own[next]) = own
  <2> HIDE DEF next
  <2>1. QED
    BY <1>1, <1>2 DEF With
<1> HIDE DEF new, next
<1>19. /\ Book(r, With(new, next, new[next] - 1)) /\ Follows(b, r) /\ Says(b, r, <<>>)
       /\ Keeps(b, r, With(new, next, new[next] - 1)) /\ r.c = b.c
  <2>1. new[next] # 0
    BY <1>18
  <2>2. QED
    BY <2>1, <1>2, <1>10, <1>17, DecrBook
<1>20. With(new, next, new[next] - 1) = own
  <2>1. new[next] - 1 = own[next]
    BY <1>18
  <2>2. QED
    BY <2>1, <1>18
<1>21. Book(r, own) /\ Keeps(s, r, own)
  <2>1. Book(r, own) /\ Keeps(b, r, own)
    BY <1>19, <1>20
  <2>2. QED
    BY <2>1, <1>13, <1>15, <1>17 DEF Keeps
<1>22. ~ Nothing(r)
  <2>1. Len(m) + 1 = Len(list) /\ m \in Seq(Objects)
    BY <1>16 DEF Cut
  <2>2. m # <<>>
    BY <2>1, <1>2
  <2>3. QED
    BY <2>2, <1>17, <1>19 DEF Nothing
<1>23. Full(r) = Full(s) /\ r.c.sentlen = s.c.sentlen
  BY <1>17, <1>19, <1>25, FullSays
<1>26. QED
  BY <1>17, <1>19, <1>21, <1>22, <1>23 DEF Ends

\* What KEYS says for each name.
Bulks(items) == [j \in 1 .. Len(items) |-> BulkLines(items[j])]

\* They are bytes.
LEMMA BulksAre ==
  ASSUME NEW items, items \in Seq(Seq(Int))
  PROVE  /\ Bulks(items) \in Seq(Seq(Int)) /\ Len(Bulks(items)) = Len(items)
         /\ \A j \in 1 .. Len(items) : Bulks(items)[j] = BulkLines(items[j])
<1> DEFINE f == Bulks(items)
           n == Len(items)
<1>1. n \in Nat /\ \A j \in 1 .. n : items[j] \in Seq(Int)
  OBVIOUS
<1>2. \A j \in 1 .. n : f[j] = BulkLines(items[j])
  BY DEF Bulks
<1>3. f \in [1 .. n -> Seq(Int)]
  BY <1>1, LinesAre DEF Bulks, BulkLines
<1> HIDE DEF f, n
<1>4. f \in Seq(Seq(Int)) /\ Len(f) = n
  BY <1>1, <1>3
<1>5. QED
  BY <1>2, <1>4 DEF f, n

\* The loop of KEYS: f is the pair after each name, and t what has been said.
Runs(f, d, own, items, t, k) ==
  /\ f = [i \in 0 .. k |-> f[i]]
  /\ f[0] = d
  /\ \A i \in 1 .. k : f[i] = KeyReply(f[i - 1], items[i])
  /\ \A i \in 0 .. k : Goes(d, f[i], own, t[i]) /\ HasLine(f[i], own)

\* The loop runs to its end.
LEMMA KeysRun ==
  ASSUME MemoryUnbounded, NEW d, NEW own, Book(d, own), HasLine(d, own),
         NEW items, items \in Seq(Seq(Int)),
         NEW t, Lines(t, Bulks(items), Len(items))
  PROVE  \E f : Runs(f, d, own, items, t, Len(items))
<1> DEFINE len == Len(items)
           Bad == {k \in 0 .. len : ~ \E f : Runs(f, d, own, items, t, k)}
<1>1. len \in Nat
  OBVIOUS
<1>4. /\ t[0] = <<>>
      /\ \A i \in 1 .. len : t[i] = t[i - 1] \o BulkLines(items[i])
      /\ \A i \in 0 .. len : t[i] \in Seq(Int)
      /\ \A i \in 1 .. len : BulkLines(items[i]) \in Seq(Int)
  <2>1. \A i \in 1 .. len : Bulks(items)[i] = BulkLines(items[i]) /\ Bulks(items)[i] \in Seq(Int)
    <3>1. Bulks(items) \in Seq(Seq(Int)) /\ Len(Bulks(items)) = len
          /\ \A i \in 1 .. len : Bulks(items)[i] = BulkLines(items[i])
      BY BulksAre
    <3>2. QED
      BY <3>1
  <2>2. QED
    BY <2>1 DEF Lines
<1>2. Bad = {}
  <2> SUFFICES ASSUME Bad # {} PROVE FALSE
    OBVIOUS
  <2>1. PICK b \in Bad : \A x \in Bad : b <= x
    <3>1. Bad \subseteq Nat
      BY <1>1
    <3> HIDE DEF Bad
    <3>2. QED
      BY <3>1, Least
  <2>2. b \in Nat /\ b \in 0 .. len /\ ~ \E f : Runs(f, d, own, items, t, b)
    BY <2>1, <1>1
  <2>3. b # 0
    <3> DEFINE f == [i \in 0 .. 0 |-> d]
    <3>1. Goes(d, d, own, t[0])
      BY <1>4, GoesNowhere
    <3>2. /\ f = [i \in 0 .. 0 |-> f[i]] /\ f[0] = d
          /\ \A i \in 0 .. 0 : f[i] = d
      OBVIOUS
    <3> HIDE DEF f
    <3>3. Runs(f, d, own, items, t, 0)
      BY <3>1, <3>2 DEF Runs
    <3>4. QED
      BY <3>3, <2>2
  <2>4. b - 1 \in 0 .. len /\ b - 1 \notin Bad /\ b \in 1 .. len
    <3>1. b - 1 \in 0 .. len /\ b \in 1 .. len /\ ~ (b <= b - 1)
      BY <2>2, <2>3, <1>1
    <3> HIDE DEF Bad
    <3>2. QED
      BY <3>1, <2>1
  <2>5. PICK f : Runs(f, d, own, items, t, b - 1)
    BY <2>4
  <2> DEFINE r == KeyReply(f[b - 1], items[b])
             g == [i \in 0 .. b |-> IF i = b THEN r ELSE f[i]]
  <2>6. Goes(d, f[b - 1], own, t[b - 1]) /\ HasLine(f[b - 1], own)
    BY <2>2, <2>3, <2>5 DEF Runs
  <2>7. items[b] \in Seq(Int)
    BY <2>4
  <2>8. Goes(f[b - 1], r, own, BulkLines(items[b])) /\ HasLine(r, own)
    <3>1. Book(f[b - 1], own)
      BY <2>6 DEF Goes
    <3>2. QED
      BY <3>1, <2>6, <2>7, KeyReplyOK
  <2> HIDE DEF r
  <2>9. Goes(d, r, own, t[b])
    <3>1. t[b - 1] \in Seq(Int) /\ BulkLines(items[b]) \in Seq(Int)
          /\ t[b] = t[b - 1] \o BulkLines(items[b])
      BY <2>4, <1>4
    <3> DEFINE u == t[b - 1]
               v == BulkLines(items[b])
               l == f[b - 1]
    <3>2. u \in Seq(Int) /\ v \in Seq(Int) /\ Goes(d, l, own, u) /\ Goes(l, r, own, v)
      BY <3>1, <2>6, <2>8
    <3> HIDE DEF len, u, v, l
    <3>3. Goes(d, r, own, u \o v)
      BY <3>2, GoesOn
    <3>4. QED
      BY <3>1, <3>3 DEF u, v
  <2>10. /\ g = [i \in 0 .. b |-> g[i]]
         /\ g[b] = r /\ \A i \in 0 .. b - 1 : g[i] = f[i]
    BY <2>2
  <2> HIDE DEF g
  <2>11. g[0] = d
    <3>1. 0 \in 0 .. b - 1
      BY <2>2, <2>3
    <3>2. f[0] = d
      BY <2>5 DEF Runs
    <3>3. QED
      BY <3>1, <3>2, <2>10
  <2>12. ASSUME NEW i \in 1 .. b PROVE g[i] = KeyReply(g[i - 1], items[i])
    <3>1. i - 1 \in 0 .. b - 1 /\ g[i - 1] = f[i - 1]
      <4>1. i - 1 \in 0 .. b - 1
        BY <2>2
      <4>2. QED
        BY <4>1, <2>10
    <3>2. CASE i = b
      BY <3>1, <3>2, <2>10 DEF r
    <3>3. CASE i # b
      <4>1. i \in 1 .. b - 1 /\ i \in 0 .. b - 1
        BY <3>3, <2>2
      <4>2. g[i] = f[i] /\ f[i] = KeyReply(f[i - 1], items[i])
        BY <4>1, <2>5, <2>10 DEF Runs
      <4>3. QED
        BY <4>2, <3>1
    <3>4. QED
      BY <3>2, <3>3
  <2>13. ASSUME NEW i \in 0 .. b PROVE Goes(d, g[i], own, t[i]) /\ HasLine(g[i], own)
    <3>1. CASE i = b
      BY <3>1, <2>8, <2>9, <2>10
    <3>2. CASE i # b
      <4>1. i \in 0 .. b - 1
        BY <3>2, <2>2
      <4>2. QED
        BY <4>1, <2>5, <2>10 DEF Runs
    <3>3. QED
      BY <3>1, <3>2
  <2>14. Runs(g, d, own, items, t, b)
    BY <2>10, <2>11, <2>12, <2>13 DEF Runs
  <2>15. QED
    BY <2>2, <2>14
<1>3. QED
  BY <1>1, <1>2

\* What KEYS recurs to is what the loop computes.
LEMMA KeysLoop ==
  ASSUME MemoryUnbounded, NEW d, NEW own, Book(d, own), HasLine(d, own),
         NEW items, items \in Seq(Seq(Int))
  PROVE  LET after[i \in 0 .. Len(items)] ==
               IF i = 0 THEN d ELSE KeyReply(after[i - 1], items[i])
         IN  Goes(d, after[Len(items)], own, FlattenSeq(Bulks(items)))
<1> DEFINE len == Len(items)
           Step(f) == [i \in 0 .. len |-> IF i = 0 THEN d ELSE KeyReply(f[i - 1], items[i])]
           after == CHOOSE f : f = Step(f)
<1>10. PICK t : Lines(t, Bulks(items), len) /\ t[len] = FlattenSeq(Bulks(items))
  <2> DEFINE list == Bulks(items)
  <2>1. list \in Seq(Seq(Int)) /\ Len(list) = len
    BY BulksAre
  <2> HIDE DEF list, len
  <2>2. \E f : Lines(f, list, Len(list)) /\ f[Len(list)] = FlattenSeq(list)
    BY <2>1, FlattenIs
  <2>3. QED
    BY <2>1, <2>2 DEF list
<1>1. PICK f : Runs(f, d, own, items, t, len)
  BY <1>10, KeysRun
<1>0. len \in Nat
  OBVIOUS
<1>2. f = Step(f)
  <2> HIDE DEF len
  <2>1. \A i \in 0 .. len : f[i] = IF i = 0 THEN d ELSE KeyReply(f[i - 1], items[i])
    <3>1. f[0] = d /\ \A i \in 1 .. len : f[i] = KeyReply(f[i - 1], items[i])
      BY <1>1 DEF Runs
    <3>2. \A i \in 0 .. len : i # 0 => i \in 1 .. len
      BY <1>0
    <3>3. QED
      BY <3>1, <3>2
  <2>2. f = [i \in 0 .. len |-> f[i]]
    BY <1>1 DEF Runs
  <2>3. QED
    BY <2>1, <2>2
<1>3. after = Step(after)
  <2> HIDE DEF Step
  <2>1. QED
    BY <1>2
<1> HIDE DEF after
<1>4. after[0] = d /\ \A i \in 1 .. len : after[i] = KeyReply(after[i - 1], items[i])
  <2>1. \A i \in 0 .. len :
          Step(after)[i] = IF i = 0 THEN d ELSE KeyReply(after[i - 1], items[i])
    OBVIOUS
  <2> HIDE DEF Step
  <2>2. \A i \in 0 .. len :
          after[i] = IF i = 0 THEN d ELSE KeyReply(after[i - 1], items[i])
    BY <1>3, <2>1
  <2> HIDE DEF len
  <2>3. QED
    BY <2>2, <1>0
<1> DEFINE Wrong == {i \in 0 .. len : after[i] # f[i]}
<1>5. Wrong = {}
  <2> SUFFICES ASSUME Wrong # {} PROVE FALSE
    OBVIOUS
  <2> HIDE DEF len
  <2>1. Wrong \subseteq Nat
    BY <1>0
  <2>2. PICK b \in Wrong : \A x \in Wrong : b <= x
    <3> HIDE DEF Wrong
    <3>1. QED
      BY <2>1, Least
  <2>3. b # 0
    BY <2>2, <1>1, <1>4 DEF Runs
  <2>4. b - 1 \in 0 .. len /\ b \in 1 .. len /\ ~ (b - 1 \in Wrong)
    BY <2>2, <2>3, <1>0
  <2>5. after[b - 1] = f[b - 1]
    BY <2>4
  <2>6. after[b] = f[b]
    BY <2>4, <2>5, <1>1, <1>4 DEF Runs
  <2>7. QED
    BY <2>2, <2>6
<1>6. after[len] = f[len]
  BY <1>0, <1>5
<1>7. Goes(d, f[len], own, t[len])
  <2> HIDE DEF len
  <2>1. QED
    BY <1>0, <1>1 DEF Runs
<1>8. Goes(d, after[len], own, FlattenSeq(Bulks(items)))
  BY <1>6, <1>7, <1>10
<1>9. QED
  BY <1>8 DEF after

\* What a command does to the heap and the client: it replies with v.
Done(s, r, own, v) ==
  /\ Book(r, own) /\ Keeps(s, r, own) /\ Awake(s, r)
  /\ r.c.state = s.c.state
  /\ r.c.handler = s.c.handler \/ (Nothing(s) /\ r.c.handler = TRUE)
  /\ r.c.sentlen = s.c.sentlen /\ Full(r) = Full(s) \o v

\* A step that wakes the handler is what a command does.
LEMMA GoesDone ==
  ASSUME NEW s, s \in Pairs, NEW r, NEW own, NEW v, Goes(s, r, own, v), Awake(s, r)
  PROVE  Done(s, r, own, v)
<1>1. r.c.sentlen = s.c.sentlen /\ Full(r) = Full(s) \o v
  BY FullSays DEF Goes
<1>2. QED
  BY <1>1 DEF Goes, Done, Follows

\* The length is set, whatever is behind the node that waits for it.
LEMMA SetDeferredOK ==
  ASSUME NEW s, NEW own, Book(s, own), NEW i, Waits(s, i), NEW k, k \in Nat,
         NEW r, r = setDeferredMultiBulkLength(s, i, k)
  PROVE  Ends(s, r, own, All(s, i, CountLine(k)))
<1> DEFINE a == SetLength(s, i, k)
<1>1. /\ Ends(s, a, own, All(s, i, CountLine(k))) /\ a.c.reply = s.c.reply
      /\ \E bytes \in Seq(Int) : a.heap[s.c.reply[i]] = Single("raw", bytes)
  BY SetLengthOK
<1>2. r = IF i = Len(s.c.reply) THEN a ELSE GlueNext(a, i)
  BY DEF setDeferredMultiBulkLength
<1> HIDE DEF a
<1>3. CASE i = Len(s.c.reply)
  BY <1>1, <1>2, <1>3
<1>4. CASE i # Len(s.c.reply)
  <2>1. r = GlueNext(a, i) /\ Book(a, own)
    BY <1>1, <1>2, <1>4 DEF Ends
  <2>2. PICK old \in Seq(Int) : a.heap[a.c.reply[i]] = Single("raw", old)
    BY <1>1
  <2>3. own[a.c.reply[i]] = 0 /\ s.c.reply \in Seq(Objects) /\ i \in 1 .. Len(s.c.reply)
    <3>1. own[s.c.reply[i]] = 0 /\ i \in 1 .. Len(s.c.reply)
      BY WaitingIsOurs DEF Waits
    <3>2. s.c.reply \in Seq(Objects)
      BY BookTypes
    <3>3. QED
      BY <3>1, <3>2, <1>1
  <2>4. i \in 1 .. Len(a.c.reply) - 1
    BY <2>3, <1>1, <1>4
  <2>5. Ends(a, r, own, Full(a))
    BY <2>1, <2>2, <2>3, <2>4, GlueNextOK
  <2>6. QED
    BY <2>5, <1>1 DEF Ends, Keeps
<1>5. QED
  BY <1>3, <1>4

\* What KEYS replies after the node for the length: the loop of Keys.
KeysReplies(d, items) ==
  LET after[i \in 0 .. Len(items)] ==
        IF i = 0 THEN d ELSE KeyReply(after[i - 1], items[i])
  IN  setDeferredMultiBulkLength(after[Len(items)], Len(d.c.reply), Len(items))

\* KEYS.
LEMMA KeysOK ==
  ASSUME MemoryUnbounded, NEW s, NEW own, Book(s, own), HasLine(s, own),
         NEW items, items \in Seq(Seq(Int)),
         NEW d, d = addDeferredMultiBulkLength(s),
         NEW r, r = KeysReplies(d, items)
  PROVE  Done(s, r, own, CountLine(Len(items)) \o FlattenSeq(Bulks(items)))
<1> DEFINE after[i \in 0 .. Len(items)] ==
             IF i = 0 THEN d ELSE KeyReply(after[i - 1], items[i])
           l == after[Len(items)]
           i == Len(d.c.reply)
           text == FlattenSeq(Bulks(items))
           w == CountLine(Len(items))
<1>0. text \in Seq(Int) /\ w \in Seq(Int)
  <2>1. Bulks(items) \in Seq(Seq(Int))
    BY BulksAre
  <2>2. text \in Seq(Int)
    BY <2>1, FlattenIs
  <2>3. QED
    BY <2>2 DEF Count, CountLine
<1>1. /\ Goes(s, d, own, <<>>) /\ Awake(s, d) /\ Waits(d, i)
      /\ \A x \in Seq(Int) : All(d, i, x) = Full(s) \o x
  BY AddDeferredOK DEF Full
<1> HIDE DEF text
<1>2. Book(d, own) /\ HasLine(d, own)
  BY <1>1, LineStays DEF Goes
<1>3. Goes(d, l, own, text)
  BY <1>2, KeysLoop DEF text
<1>4. r = setDeferredMultiBulkLength(l, i, Len(items))
  BY DEF KeysReplies
<1> HIDE DEF l
<1>5. Waits(l, i) /\ Book(l, own)
  BY <1>1, <1>3 DEF Goes, Follows
<1>6. Ends(l, r, own, All(l, i, w))
  <2> DEFINE k == Len(items)
  <2>1. k \in Nat
    OBVIOUS
  <2> HIDE DEF k, i
  <2>2. r = setDeferredMultiBulkLength(l, i, k)
    BY <1>4 DEF k
  <2>3. Ends(l, r, own, All(l, i, CountLine(k)))
    BY ONLY <2>1, <2>2, <1>5, SetDeferredOK
  <2>4. QED
    BY <2>3 DEF w, k
<1>7. Goes(s, l, own, text) /\ Awake(s, l)
  <2>1. <<>> \in Seq(Int)
    OBVIOUS
  <2>2. QED
    BY <2>1, <1>0, <1>1, <1>3, GoesOn, GoesThen
<1> HIDE DEF w, i
<1>8. Full(r) = Full(s) \o (w \o text)
  <2>1. All(l, i, w) = All(d, i, w) \o text
    BY <1>0, <1>1, <1>3 DEF Goes, Says
  <2>2. All(d, i, w) = Full(s) \o w
    BY <1>0, <1>1
  <2>3. Full(s) \in Seq(Int)
    BY <1>7, FullSays DEF Goes, Book
  <2>4. (Full(s) \o w) \o text = Full(s) \o (w \o text)
    BY <2>3, <1>0, Chains, SMTT(60)
  <2>5. QED
    BY <2>1, <2>2, <2>4, <1>6 DEF Ends
<1>9. r.c.sentlen = s.c.sentlen
  BY <1>6, <1>7 DEF Ends, Goes, Says
<1>10. QED
  BY <1>6, <1>7, <1>8, <1>9 DEF Ends, Done, Goes, Awake, Follows, Keeps, w, text

-----------------------------------------------------------------------------
(* The write handler.                                                      *)

\* The buffer, what has been sent, the handler and the state of the client change.
Moves(s, own, buf, sent, on, state, r) ==
  /\ Book(s, own)
  /\ buf \in Seq(Int) /\ Len(buf) <= Chunk
  /\ sent \in Nat /\ on \in {TRUE, FALSE} /\ state \in States
  /\ Is(r, s.heap, buf, s.c.reply, s.c.reply_bytes, sent, on, state)
  /\ sent <= Len(First(r))

\* The references and the account stay right.
LEMMA MoveBook ==
  ASSUME NEW s, NEW own, NEW buf, NEW sent, NEW on, NEW state, NEW r,
         Moves(s, own, buf, sent, on, state, r)
  PROVE  /\ Book(r, own)
         /\ r.heap = s.heap /\ r.c.buf = buf /\ r.c.reply = s.c.reply /\ r.c.handler = on
         /\ r.c.state = state
<1>1. /\ Book(s, own)
      /\ buf \in Seq(Int) /\ Len(buf) <= Chunk
      /\ sent \in Nat /\ on \in {TRUE, FALSE} /\ state \in States
      /\ Is(r, s.heap, buf, s.c.reply, s.c.reply_bytes, sent, on, state)
      /\ sent <= Len(First(r))
  BY DEF Moves
<1>2. /\ s \in Pairs /\ own \in [Objects -> Nat] /\ s.heap \in Heaps /\ s.c.reply \in Seq(Objects)
  BY <1>1, BookTypes
<1>3. s.c.reply_bytes \in Int
  BY <1>2, FieldTypes
<1>4. /\ r.heap = s.heap /\ r.c.buf = buf /\ r.c.reply = s.c.reply
      /\ r.c.reply_bytes = s.c.reply_bytes /\ r.c.sentlen = sent
      /\ r.c.handler = on /\ r.c.state = state /\ Shaped(r)
  BY <1>1, IsFields
<1>5. r \in Pairs
  BY <1>1, <1>2, <1>3, <1>4, ShapedPair
<1>6. Book(r, own)
  BY <1>1, <1>4, <1>5 DEF Book
<1>7. QED
  BY <1>4, <1>6

\* A client of which some fields change.
LEMMA ClientUpdates ==
  ASSUME NEW h, NEW d, d \in Clients, NEW x, NEW y, NEW z
  PROVE  /\ Is([heap |-> h, c |-> [d EXCEPT !.buf = x, !.sentlen = y]],
               h, x, d.reply, d.reply_bytes, y, d.handler, d.state)
         /\ Is([heap |-> h, c |-> [d EXCEPT !.sentlen = y]],
               h, d.buf, d.reply, d.reply_bytes, y, d.handler, d.state)
         /\ Is([heap |-> h, c |-> [d EXCEPT !.sentlen = x, !.handler = y]],
               h, d.buf, d.reply, d.reply_bytes, x, y, d.state)
         /\ Is([heap |-> h, c |-> [d EXCEPT !.reply = x, !.sentlen = y, !.reply_bytes = z]],
               h, d.buf, x, z, y, d.handler, d.state)
<1>1. d = [buf |-> d.buf, reply |-> d.reply, reply_bytes |-> d.reply_bytes,
           sentlen |-> d.sentlen, handler |-> d.handler, state |-> d.state]
  BY DEF Clients
<1>3. [d EXCEPT !.buf = x, !.sentlen = y] =
        [buf |-> x, reply |-> d.reply, reply_bytes |-> d.reply_bytes,
         sentlen |-> y, handler |-> d.handler, state |-> d.state]
  <2> DEFINE e == [d EXCEPT !.buf = x]
  <2>1. e = [buf |-> x, reply |-> d.reply, reply_bytes |-> d.reply_bytes,
             sentlen |-> d.sentlen, handler |-> d.handler, state |-> d.state]
    BY <1>1
  <2>2. [d EXCEPT !.buf = x, !.sentlen = y] = [e EXCEPT !.sentlen = y]
    BY Zenon
  <2> HIDE DEF e
  <2>3. [e EXCEPT !.sentlen = y] =
          [buf |-> x, reply |-> d.reply, reply_bytes |-> d.reply_bytes,
           sentlen |-> y, handler |-> d.handler, state |-> d.state]
    BY <2>1
  <2>4. QED
    BY <2>2, <2>3, Zenon
<1>4. [d EXCEPT !.sentlen = y] =
        [buf |-> d.buf, reply |-> d.reply, reply_bytes |-> d.reply_bytes,
         sentlen |-> y, handler |-> d.handler, state |-> d.state]
  BY <1>1
<1>5. [d EXCEPT !.sentlen = x, !.handler = y] =
        [buf |-> d.buf, reply |-> d.reply, reply_bytes |-> d.reply_bytes,
         sentlen |-> x, handler |-> y, state |-> d.state]
  <2> DEFINE e == [d EXCEPT !.sentlen = x]
  <2>1. e = [buf |-> d.buf, reply |-> d.reply, reply_bytes |-> d.reply_bytes,
             sentlen |-> x, handler |-> d.handler, state |-> d.state]
    BY <1>1
  <2>2. [d EXCEPT !.sentlen = x, !.handler = y] = [e EXCEPT !.handler = y]
    BY Zenon
  <2> HIDE DEF e
  <2>3. [e EXCEPT !.handler = y] =
          [buf |-> d.buf, reply |-> d.reply, reply_bytes |-> d.reply_bytes,
           sentlen |-> x, handler |-> y, state |-> d.state]
    BY <2>1
  <2>4. QED
    BY <2>2, <2>3, Zenon
<1>6. [d EXCEPT !.reply = x, !.sentlen = y, !.reply_bytes = z] =
        [buf |-> d.buf, reply |-> x, reply_bytes |-> z,
         sentlen |-> y, handler |-> d.handler, state |-> d.state]
  <2> DEFINE e == [d EXCEPT !.reply = x]
             f == [e EXCEPT !.sentlen = y]
  <2>1. e = [buf |-> d.buf, reply |-> x, reply_bytes |-> d.reply_bytes,
             sentlen |-> d.sentlen, handler |-> d.handler, state |-> d.state]
    BY <1>1
  <2>2. [d EXCEPT !.reply = x, !.sentlen = y, !.reply_bytes = z] = [f EXCEPT !.reply_bytes = z]
    BY Zenon
  <2> HIDE DEF e
  <2>3. f = [buf |-> d.buf, reply |-> x, reply_bytes |-> d.reply_bytes,
             sentlen |-> y, handler |-> d.handler, state |-> d.state]
    BY <2>1
  <2> HIDE DEF f
  <2>4. [f EXCEPT !.reply_bytes = z] =
          [buf |-> d.buf, reply |-> x, reply_bytes |-> z,
           sentlen |-> y, handler |-> d.handler, state |-> d.state]
    BY <2>3
  <2>5. QED
    BY <2>2, <2>4, Zenon
<1>7. \A e, b, l, n, t, o, st :
        e = [buf |-> b, reply |-> l, reply_bytes |-> n, sentlen |-> t, handler |-> o, state |-> st]
          => Is([heap |-> h, c |-> e], h, b, l, n, t, o, st)
  BY DEF Is
<1>8. QED
  BY <1>3, <1>4, <1>5, <1>6, <1>7, Zenon

\* The empty list takes nothing.
LEMMA TakesNothing ==
  ASSUME NEW h
  PROVE  Takes(h, <<>>, 0)
<1> DEFINE f == [i \in 0 .. 0 |-> 0]
<1>1. Len(<<>>) = 0 /\ f \in [0 .. 0 -> Int] /\ f[0] = 0
  OBVIOUS
<1>2. Ledger(f, h, <<>>) /\ f[Len(<<>>)] = 0
  BY <1>1 DEF Ledger
<1>3. QED
  BY <1>2 DEF Takes

\* A client with nothing to be sent, in the pair with the heap h.
Cleared(state) == [NewClient EXCEPT !.state = state]
IsPair(r, h, d) == r = [heap |-> h, c |-> d]
IsCleared(r, h, state) == IsPair(r, h, Cleared(state))
Blank(r, h, state) ==
  /\ r.heap = h /\ r.c = Cleared(state)
  /\ r.c.buf = <<>> /\ r.c.reply = <<>> /\ r.c.reply_bytes = 0 /\ r.c.sentlen = 0
  /\ r.c.handler = FALSE /\ r.c.state = state

\* The fields of the pair of a heap and a cleared client.
LEMMA ClearedIs ==
  ASSUME NEW state, state \in States, NEW h, h \in Heaps,
         NEW r, IsCleared(r, h, state)
  PROVE  r \in Pairs /\ Blank(r, h, state)
<1>1. /\ NewClient \in Clients
      /\ NewClient.buf = <<>> /\ NewClient.reply = <<>> /\ NewClient.reply_bytes = 0
      /\ NewClient.sentlen = 0 /\ NewClient.handler = FALSE
  BY DEF NewClient, Clients, States
<1>3. ASSUME NEW x, x \in Clients
      PROVE  LET e == [x EXCEPT !.state = state]
             IN  /\ e \in Clients /\ e.state = state
                 /\ e.buf = x.buf /\ e.reply = x.reply /\ e.reply_bytes = x.reply_bytes
                 /\ e.sentlen = x.sentlen /\ e.handler = x.handler
  BY <1>3 DEF Clients
<1>4. /\ Cleared(state) \in Clients /\ Cleared(state).state = state
      /\ Cleared(state).buf = NewClient.buf /\ Cleared(state).reply = NewClient.reply
      /\ Cleared(state).reply_bytes = NewClient.reply_bytes
      /\ Cleared(state).sentlen = NewClient.sentlen
      /\ Cleared(state).handler = NewClient.handler
  BY <1>1, <1>3, Zenon DEF Cleared
<1>5. \A e : e \in Clients /\ r = [heap |-> h, c |-> e] => r \in Pairs /\ r.heap = h /\ r.c = e
  BY DEF Pairs
<1>6. r \in Pairs /\ r.heap = h /\ r.c = Cleared(state)
  BY <1>4, <1>5, Zenon DEF IsCleared, IsPair
<1>7. QED
  BY <1>1, <1>4, <1>6, Zenon DEF Blank

\* No node refers to anything in an empty list.
LEMMA RefsInNothing ==
  ASSUME NEW o
  PROVE  RefsIn(<<>>, o) = 0
<1>1. <<>> \in Seq(Objects)
  OBVIOUS
<1>2. RefsIn(<<>>, o) = 0 <=> \A i \in 1 .. Len(<<>>) : <<>>[i] # o
  BY <1>1, RefsInType
<1>3. \A i \in 1 .. Len(<<>>) : FALSE
  OBVIOUS
<1>4. QED
  BY <1>2, <1>3

\* freeClient: what the list refers to is given up.
LEMMA ReleaseOK ==
  ASSUME NEW s, NEW own, Book(s, own), NEW state, state \in States,
         NEW r, IsCleared(r, Released(s.heap, s.c.reply), state)
  PROVE  Book(r, own) /\ Keeps(s, r, own) /\ Nothing(r) /\ r.c.state = state
<1> DEFINE h == s.heap
           list == s.c.reply
           g == Released(h, list)
<1>1. /\ s \in Pairs /\ own \in [Objects -> Nat] /\ h \in Heaps /\ list \in Seq(Objects)
      /\ \A p \in Objects :
           /\ h[p] \in Object
           /\ h[p].refs \in Nat /\ RefsIn(list, p) \in Nat /\ own[p] \in Nat
           /\ h[p].refs = RefsIn(list, p) + own[p]
  BY BookTypes
<1>2. ASSUME NEW p \in Objects
      PROVE  /\ g[p] \in Object
             /\ g[p].refs = own[p]
             /\ own[p] = 0 => g[p] = Free
             /\ own[p] # 0 => g[p].enc = h[p].enc /\ g[p].bytes = h[p].bytes
  <2> DEFINE k == RefsIn(list, p)
             x == h[p]
  <2>1. g[p] = IF x.refs = k THEN Free ELSE [x EXCEPT !.refs = x.refs - k]
    BY DEF Released
  <2>2. x \in Object /\ x.refs \in Nat /\ k \in Nat /\ own[p] \in Nat /\ x.refs = k + own[p]
    BY <1>1
  <2>3. x = [refs |-> x.refs, enc |-> x.enc, bytes |-> x.bytes]
    BY <2>2 DEF Object
  <2> HIDE DEF g, x, k
  <2>4. CASE own[p] = 0
    <3>1. g[p] = Free
      BY <2>1, <2>2, <2>4
    <3>2. Free \in Object /\ Free.refs = 0
      BY DEF Free, Object
    <3>3. QED
      BY <3>1, <3>2, <2>4
  <2>5. CASE own[p] # 0
    <3> DEFINE n == x.refs - k
    <3>1. x.refs # k /\ n = own[p]
      BY <2>2, <2>5
    <3>2. g[p] = [x EXCEPT !.refs = n]
      BY <3>1, <2>1
    <3> HIDE DEF n
    <3>3. g[p] = [refs |-> n, enc |-> x.enc, bytes |-> x.bytes]
      BY <3>2, <2>3
    <3>4. g[p].refs = own[p] /\ g[p].enc = x.enc /\ g[p].bytes = x.bytes
      BY <3>1, <3>3
    <3>5. g[p] \in Object
      BY <3>1, <3>3, <2>2 DEF Object
    <3>6. QED
      BY <3>4, <3>5, <2>5 DEF x
  <2>6. QED
    BY <2>4, <2>5
<1>3. g \in Heaps
  <2>1. g = [p \in Objects |-> g[p]]
    BY DEF Released
  <2> HIDE DEF g
  <2>2. QED
    BY <2>1, <1>2 DEF Heaps
<1> HIDE DEF g
<1>4. /\ r \in Pairs /\ r.heap = g /\ r.c.reply = <<>> /\ r.c.buf = <<>> /\ r.c.reply_bytes = 0
      /\ r.c.sentlen = 0 /\ r.c.state = state
  <2>1. IsCleared(r, g, state)
    BY DEF g
  <2>2. r \in Pairs /\ Blank(r, g, state)
    BY <2>1, <1>3, ClearedIs
  <2>3. QED
    BY <2>2 DEF Blank
<1>5. Nothing(r)
  BY <1>4 DEF Nothing
<1>6. IsFiniteSet(Used(g))
  <2>1. Used(g) \subseteq Used(h)
    <3>1. \A p \in Objects : g[p].refs # 0 => h[p].refs # 0
      <4>1. ASSUME NEW p \in Objects, g[p].refs # 0 PROVE h[p].refs # 0
        <5>1. own[p] # 0 /\ own[p] \in Nat /\ RefsIn(list, p) \in Nat
              /\ h[p].refs = RefsIn(list, p) + own[p]
          BY <4>1, <1>1, <1>2
        <5>2. QED
          BY <5>1
      <4>2. QED
        BY <4>1
    <3>2. QED
      BY <3>1 DEF Used
  <2>2. QED
    BY <2>1, FS_Subset DEF Book
<1>7. ASSUME NEW p \in Objects
      PROVE  /\ g[p].refs = RefsIn(<<>>, p) + own[p]
             /\ g[p].refs = 0 => g[p] = Free
             /\ g[p].enc = "int" => g[p].bytes \in Numbers
  <2>1. g[p].refs = 0 + own[p] /\ RefsIn(<<>>, p) = 0
    BY <1>1, <1>2, RefsInNothing
  <2>2. g[p].refs = 0 => g[p] = Free
    BY <1>2
  <2>3. g[p].enc = "int" => g[p].bytes \in Numbers
    <3>1. CASE own[p] = 0
      BY <3>1, <1>2 DEF Free
    <3>2. CASE own[p] # 0
      BY <3>2, <1>2 DEF Book
    <3>3. QED
      BY <3>1, <3>2
  <2>4. QED
    BY <2>1, <2>2, <2>3
<1>8. Len(First(r)) = 0 /\ Len(r.c.buf) = 0
  BY <1>4, <1>5, FirstType
<1>9. Book(r, own)
  <2>1. Takes(g, <<>>, 0)
    BY TakesNothing
  <2>2. 0 <= Chunk
    BY SizesAssumption
  <2>3. QED
    BY <2>1, <2>2, <1>1, <1>4, <1>6, <1>7, <1>8 DEF Book
<1>10. Keeps(s, r, own)
  BY <1>2, <1>4 DEF Keeps
<1>11. QED
  BY <1>4, <1>5, <1>9, <1>10

-----------------------------------------------------------------------------
(* The invariant.                                                          *)

\* The references from elsewhere than the list: the key, the shared objects.
Owns(x) == [o \in Objects |-> (IF x = o THEN 1 ELSE 0) + (IF o = shared THEN 1 ELSE 0)]

Open(s) == s.c.state \in {"open", "closing"}

\* The pair s, while x is the object of the key and the write handler has
\* sent t bytes.
Held(s, x, t) ==
  /\ x \in Objects \cup {0}
  /\ Book(s, Owns(x)) /\ HasLine(s, Owns(x))
  /\ t \in Nat \cup {-1}
  /\ t = -1 /\ Open(s) => (s.c.handler = TRUE <=> ~ Nothing(s))
  /\ t # -1 => Open(s) /\ s.c.handler = TRUE
  /\ ~ Open(s) => Nothing(s)

\* The key adds one to the references of its object.
LEMMA OwnsIs ==
  ASSUME NEW x, x \in Objects \cup {0}
  PROVE  /\ Owns(x) \in [Objects -> Nat]
         /\ Owns(x)[shared] # 0 /\ Owns(x)[shared] \in Nat
         /\ x # 0 => /\ x \in Objects /\ Owns(x)[x] # 0 /\ Owns(x)[x] \in Nat
                     /\ With(Owns(x), x, Owns(x)[x] - 1) = Owns(0)
                     /\ x = shared => Owns(x)[x] = 2
         /\ \A n \in Objects : Owns(0)[n] = 0 => With(Owns(0), n, 1) = Owns(n)
<1>1. shared \in Objects /\ 0 \notin Objects
  BY ObjectsAssumption
<1>2. \A y, o : o \in Objects =>
        Owns(y)[o] = (IF y = o THEN 1 ELSE 0) + (IF o = shared THEN 1 ELSE 0)
  BY DEF Owns
<1>3. \A y : Owns(y) \in [Objects -> Nat]
  BY DEF Owns
<1>4. \A o \in Objects : Owns(0)[o] = IF o = shared THEN 1 ELSE 0
  BY <1>1, <1>2
<1>5. \A f, g \in [Objects -> Nat] : (\A o \in Objects : f[o] = g[o]) => f = g
  OBVIOUS
<1>6. ASSUME x # 0
      PROVE  /\ x \in Objects /\ Owns(x)[x] # 0 /\ Owns(x)[x] \in Nat
             /\ With(Owns(x), x, Owns(x)[x] - 1) = Owns(0)
             /\ x = shared => Owns(x)[x] = 2
  <2>1. x \in Objects
    BY <1>6
  <2>2. Owns(x)[x] = 1 + (IF x = shared THEN 1 ELSE 0)
    BY <1>2, <2>1
  <2>3. \A o \in Objects : o # x => Owns(x)[o] = Owns(0)[o]
    BY <1>2, <1>4
  <2> DEFINE k == Owns(x)[x] - 1
  <2>4. k \in Nat /\ k = Owns(0)[x]
    BY <1>4, <2>1, <2>2
  <2> HIDE DEF k
  <2>5. /\ With(Owns(x), x, k) \in [Objects -> Nat]
        /\ With(Owns(x), x, k)[x] = k
        /\ \A p \in Objects : p # x => With(Owns(x), x, k)[p] = Owns(x)[p]
    BY <1>3, <2>1, <2>4, WithIs
  <2>6. \A o \in Objects : With(Owns(x), x, k)[o] = Owns(0)[o]
    BY <2>3, <2>4, <2>5
  <2>7. With(Owns(x), x, k) = Owns(0)
    BY <1>3, <1>5, <2>5, <2>6
  <2>8. QED
    BY <2>1, <2>2, <2>7 DEF k
<1>7. ASSUME NEW n, n \in Objects, Owns(0)[n] = 0
      PROVE  With(Owns(0), n, 1) = Owns(n)
  <2>1. n # shared
    BY <1>4, <1>7
  <2>2. Owns(n)[n] = 1 /\ \A o \in Objects : o # n => Owns(n)[o] = Owns(0)[o]
    BY <1>2, <1>4, <1>7, <2>1
  <2>3. /\ With(Owns(0), n, 1) \in [Objects -> Nat]
        /\ With(Owns(0), n, 1)[n] = 1
        /\ \A p \in Objects : p # n => With(Owns(0), n, 1)[p] = Owns(0)[p]
    <3>1. ASSUME NEW f, f \in [Objects -> Nat]
          PROVE  /\ [f EXCEPT ![n] = 1] \in [Objects -> Nat]
                 /\ [f EXCEPT ![n] = 1][n] = 1
                 /\ \A p \in Objects : p # n => [f EXCEPT ![n] = 1][p] = f[p]
      BY <1>7, <3>1
    <3>2. QED
      BY <1>3, <3>1, Zenon DEF With
  <2>4. \A o \in Objects : With(Owns(0), n, 1)[o] = Owns(n)[o]
    BY <2>2, <2>3
  <2>5. QED
    BY <1>3, <1>5, <2>3, <2>4
<1>8. Owns(x)[shared] # 0 /\ Owns(x)[shared] \in Nat
  BY <1>1, <1>2
<1>9. QED
  BY <1>3, <1>6, <1>7, <1>8

\* A command is over.
LEMMA DoneHeld ==
  ASSUME NEW s, NEW x, Held(s, x, -1), s.c.state = "open",
         NEW l, l.c = s.c, NEW y, y \in Objects \cup {0}, HasLine(l, Owns(y)),
         NEW r, NEW v, Done(l, r, Owns(y), v)
  PROVE  Held(r, y, -1) /\ r.c.state = "open" /\ ~ Nothing(r)
<1>1. Nothing(l) <=> Nothing(s)
  BY DEF Nothing
<1>2. Book(r, Owns(y)) /\ HasLine(r, Owns(y)) /\ ~ Nothing(r) /\ r.c.state = "open"
  BY LineStays DEF Done, Awake
<1>3. r.c.handler = TRUE
  <2>1. CASE Nothing(l)
    BY <2>1 DEF Done, Awake
  <2>2. CASE ~ Nothing(l)
    <3>1. s.c.handler = TRUE
      BY <1>1, <2>2 DEF Held, Open
    <3>2. QED
      BY <2>2, <3>1 DEF Done
  <2>3. QED
    BY <2>1, <2>2
<1>4. QED
  BY <1>2, <1>3 DEF Held, Open

\* The value of the key is given up.
LEMMA DropOK ==
  ASSUME NEW s, NEW x, x \in Objects \cup {0}, Book(s, Owns(x)), HasLine(s, Owns(x)),
         NEW l, IF x = 0 THEN l = s ELSE l = WithHeap(s, decrRefCount(s.heap, x))
  PROVE  Book(l, Owns(0)) /\ HasLine(l, Owns(0)) /\ l.c = s.c /\ Full(l) = Full(s)
<1>1. CASE x = 0
  BY <1>1
<1>2. CASE x # 0
  <2>1. /\ x \in Objects /\ Owns(x)[x] # 0
        /\ With(Owns(x), x, Owns(x)[x] - 1) = Owns(0)
    BY <1>2, OwnsIs
  <2>2. l = WithHeap(s, decrRefCount(s.heap, x))
    BY <1>2
  <2>3. Book(l, Owns(0)) /\ Keeps(s, l, Owns(0)) /\ l.c = s.c /\ Says(s, l, <<>>)
    <3> DEFINE own == Owns(x)
    <3>1. Book(s, own) /\ own[x] # 0
      BY <2>1
    <3> HIDE DEF own
    <3>2. /\ Book(l, With(own, x, own[x] - 1)) /\ Keeps(s, l, With(own, x, own[x] - 1))
          /\ l.c = s.c /\ Says(s, l, <<>>)
      BY <2>1, <2>2, <3>1, DecrBook
    <3>3. QED
      BY <2>1, <3>2 DEF own
  <2>4. Owns(0)[shared] # 0
    BY OwnsIs
  <2>5. HasLine(s, Owns(0))
    BY <2>4 DEF HasLine
  <2>6. Full(l) = Full(s)
    BY <2>3, FullSays DEF Book
  <2>7. QED
    BY <2>3, <2>5, <2>6, LineStays
<1>3. QED
  BY <1>1, <1>2

\* A new value for the key, and a reply that says so.
LEMMA StoreOK ==
  ASSUME MemoryUnbounded, NEW l, HasLine(l, Owns(0)),
         NEW enc, NEW bytes, NEW n, NEW m, Creates(l, Owns(0), enc, bytes, n, m),
         NEW r, r = addReply(m, shared)
  PROVE  /\ n \in Objects /\ m.c = l.c /\ HasLine(m, Owns(n))
         /\ Done(m, r, Owns(n), OneLine)
         /\ Full(m) = Full(l) /\ m.heap[n].bytes = bytes
<1> DEFINE own == Owns(0)
<1>1. own[shared] # 0 /\ own \in [Objects -> Nat]
      /\ \A p \in Objects : own[p] = 0 => With(own, p, 1) = Owns(p)
  BY OwnsIs
<1>2. HasLine(l, own)
  OBVIOUS
<1>3. Creates(l, own, enc, bytes, n, m)
  OBVIOUS
<1> HIDE DEF own
<1>4. /\ Book(m, With(own, n, 1)) /\ Keeps(l, m, own)
      /\ m.c = l.c /\ n \in Objects /\ own[n] = 0
      /\ Says(l, m, <<>>) /\ m.heap[n] = Single(enc, bytes)
  BY <1>3, CreateBook
<1>5. With(own, n, 1) = Owns(n)
  BY <1>1, <1>4
<1>6. HasLine(m, own)
  BY <1>2, <1>4, LineStays
<1>7. Owns(n)[shared] # 0
  BY <1>4, OwnsIs
<1>8. HasLine(m, Owns(n))
  BY <1>6, <1>7 DEF HasLine
<1>9. Book(m, Owns(n))
  BY <1>4, <1>5
<1>10. Goes(m, r, Owns(n), OneLine) /\ Awake(m, r)
  BY <1>8, <1>9, AddLineOK
<1>11. Done(m, r, Owns(n), OneLine)
  BY <1>9, <1>10, GoesDone DEF Book
<1>12. Full(m) = Full(l)
  BY <1>3, <1>4, FullSays DEF Creates, Book
<1>13. m.heap[n].bytes = bytes
  BY <1>4 DEF Single
<1>14. QED
  BY <1>4, <1>8, <1>11, <1>12, <1>13

\* In g the object x has the bytes v more than in h.
Grows(h, x, v, g) == g = [h EXCEPT ![x].bytes = @ \o v]
Grown(h, x, v, g) == g[x].bytes = h[x].bytes \o v

\* APPEND changes the value where it is: nothing else refers to it.
LEMMA GrowOK ==
  ASSUME NEW s, NEW x, x \in Objects, Book(s, Owns(x)), HasLine(s, Owns(x)),
         s.heap[x].refs = 1, s.heap[x].enc = "raw",
         NEW v, v \in Seq(Int),
         NEW g, Grows(s.heap, x, v, g),
         NEW l, l = WithHeap(s, g)
  PROVE  /\ Book(l, Owns(x)) /\ HasLine(l, Owns(x)) /\ l.c = s.c
         /\ Full(l) = Full(s) /\ Grown(s.heap, x, v, l.heap)
<1> DEFINE own == Owns(x)
<1>1. own[x] # 0 /\ own[x] \in Nat /\ own[shared] # 0
      /\ (x = shared => own[x] = 2)
  <2>1. x \in Objects \cup {0} /\ x # 0
    BY ObjectsAssumption
  <2>2. QED
    BY <2>1, OwnsIs
<1>2. Book(s, own) /\ HasLine(s, own)
  OBVIOUS
<1> HIDE DEF own
<1>3. /\ s \in Pairs /\ own \in [Objects -> Nat]
      /\ s.heap \in Heaps /\ s.c.reply \in Seq(Objects)
      /\ \A p \in Objects :
           /\ s.heap[p] \in Object
           /\ s.heap[p].refs \in Nat /\ RefsIn(s.c.reply, p) \in Nat /\ own[p] \in Nat
           /\ s.heap[p].refs = RefsIn(s.c.reply, p) + own[p]
  BY <1>2, BookTypes
<1>4. RefsIn(s.c.reply, x) = 0 /\ own[x] = 1
  <2>1. 1 = RefsIn(s.c.reply, x) + own[x] /\ RefsIn(s.c.reply, x) \in Nat
    BY <1>3
  <2>2. QED
    BY <2>1, <1>1
<1>5. x # shared
  BY <1>1, <1>4
<1> DEFINE y == Single("raw", s.heap[x].bytes \o v)
<1>6. y \in Object /\ y.refs = 1 /\ y.enc = "raw" /\ s.heap[x].bytes \in Seq(Int)
  <2>1. s.heap[x].bytes \in Seq(Int)
    BY <1>3 DEF Object
  <2>2. s.heap[x].bytes \o v \in Seq(Int)
    BY <2>1
  <2>3. QED
    BY <2>1, <2>2, SingleIs
<1>7. /\ g \in Heaps /\ g[x] = y
      /\ \A p \in Objects : p # x => g[p] = s.heap[p]
  <2>1. s.heap[x] = [refs |-> 1, enc |-> "raw", bytes |-> s.heap[x].bytes]
    BY <1>3 DEF Object
  <2>2. s.heap \in [Objects -> Object]
    BY <1>3 DEF Heaps
  <2> DEFINE z == [s.heap[x] EXCEPT !.bytes = s.heap[x].bytes \o v]
  <2>3. z = y
    <3>1. PICK d : d = s.heap[x]
      OBVIOUS
    <3>2. PICK b : b = s.heap[x].bytes \o v
      OBVIOUS
    <3>3. [d EXCEPT !.bytes = b] = [refs |-> 1, enc |-> "raw", bytes |-> b]
      BY <2>1, <3>1
    <3>4. QED
      BY <3>1, <3>2, <3>3, Zenon DEF Single
  <2>4. g = [s.heap EXCEPT ![x] = z]
    BY DEF Grows
  <2> HIDE DEF z, y
  <2>5. QED
    BY <2>2, <2>3, <2>4, <1>6 DEF Heaps
<1>bytes. y.bytes = s.heap[x].bytes \o v
  BY DEF Single
<1> HIDE DEF y
<1>8. \A p \in Objects : g[p].refs = s.heap[p].refs
  BY <1>6, <1>7
<1>9. IsFiniteSet(Used(g))
  <2>1. Used(g) = Used(s.heap)
    BY <1>8 DEF Used
  <2>2. QED
    BY <1>2, <2>1 DEF Book
<1>10. ASSUME NEW p \in Objects
       PROVE  /\ g[p].refs = RefsIn(s.c.reply, p) + own[p]
              /\ g[p].refs = 0 => g[p] = Free
              /\ g[p].enc = "int" => g[p].bytes \in Numbers
              /\ RefsIn(s.c.reply, p) # 0 =>
                   g[p].enc = s.heap[p].enc /\ g[p].bytes = s.heap[p].bytes
  <2>1. g[p].refs = RefsIn(s.c.reply, p) + own[p]
    BY <1>3, <1>8
  <2>2. CASE p = x
    BY <2>1, <2>2, <1>4, <1>6, <1>7
  <2>3. CASE p # x
    <3>1. g[p] = s.heap[p]
      BY <2>3, <1>7
    <3>2. /\ s.heap[p].refs = 0 => s.heap[p] = Free
          /\ s.heap[p].enc = "int" => s.heap[p].bytes \in Numbers
      BY <1>2 DEF Book
    <3>3. QED
      BY <2>1, <3>1, <3>2
  <2>4. QED
    BY <2>2, <2>3
<1>11. Book(l, own) /\ l.heap = g /\ l.c = s.c /\ Says(s, l, <<>>)
  <2>1. Book(s, own) /\ g \in Heaps /\ own \in [Objects -> Nat] /\ IsFiniteSet(Used(g))
    BY <1>2, <1>3, <1>7, <1>9
  <2>2. \A p \in Objects :
          /\ g[p].refs = RefsIn(s.c.reply, p) + own[p]
          /\ g[p].refs = 0 => g[p] = Free
          /\ g[p].enc = "int" => g[p].bytes \in Numbers
          /\ RefsIn(s.c.reply, p) # 0 =>
               g[p].enc = s.heap[p].enc /\ g[p].bytes = s.heap[p].bytes
    BY <1>10
  <2>3. l = WithHeap(s, g)
    OBVIOUS
  <2>4. QED
    BY ONLY <2>1, <2>2, <2>3, HeapStep
<1>12. HasLine(l, own)
  <2>1. l.heap[shared] = s.heap[shared]
    BY <1>5, <1>7, <1>11, ObjectsAssumption
  <2>2. QED
    BY <1>2, <2>1 DEF HasLine
<1>13. Full(l) = Full(s)
  BY <1>3, <1>11, FullSays
<1>14. QED
  BY <1>7, <1>11, <1>12, <1>13, <1>bytes DEF own, Grown

-----------------------------------------------------------------------------
(* The write handler.                                                      *)

\* A client that is fully empty gives up nothing.
LEMMA BlankOK ==
  ASSUME NEW s, NEW own, Book(s, own), Nothing(s), NEW state, state \in States,
         NEW r, IsCleared(r, s.heap, state)
  PROVE  Book(r, own) /\ Keeps(s, r, own) /\ Nothing(r) /\ Blank(r, s.heap, state)
<1>1. /\ s.heap \in Heaps /\ s.c.reply = <<>>
      /\ own \in [Objects -> Nat]
      /\ \A p \in Objects : RefsIn(s.c.reply, p) \in Nat /\ s.heap[p] \in Object
  BY BookTypes DEF Nothing
<1> DEFINE g == Released(s.heap, s.c.reply)
<1>2. g = s.heap
  <2>1. ASSUME NEW p \in Objects PROVE g[p] = s.heap[p]
    <3>1. RefsIn(s.c.reply, p) = 0
      BY <1>1, RefsInNothing
    <3>2. g[p] = IF s.heap[p].refs = 0 THEN Free
                 ELSE [s.heap[p] EXCEPT !.refs = s.heap[p].refs - 0]
      BY <3>1 DEF Released
    <3>3. s.heap[p].refs = 0 => s.heap[p] = Free
      BY DEF Book
    <3>4. [s.heap[p] EXCEPT !.refs = s.heap[p].refs - 0] = s.heap[p]
      <4>1. PICK d : d = s.heap[p]
        OBVIOUS
      <4>2. d \in Object
        BY <1>1, <4>1
      <4>3. PICK k : k = d.refs - 0
        OBVIOUS
      <4>4. k = d.refs
        BY <4>2, <4>3 DEF Object
      <4>5. [d EXCEPT !.refs = k] = d
        BY <4>2, <4>4 DEF Object
      <4>6. QED
        BY <4>1, <4>3, <4>5, Zenon
    <3>5. QED
      BY <3>2, <3>3, <3>4
  <2>2. g = [p \in Objects |-> g[p]]
    BY DEF Released
  <2>3. s.heap = [p \in Objects |-> s.heap[p]]
    BY <1>1 DEF Heaps
  <2> HIDE DEF g
  <2>4. QED
    BY <2>1, <2>2, <2>3
<1>3. IsCleared(r, g, state)
  BY <1>2
<1>4. Book(r, own) /\ Keeps(s, r, own) /\ Nothing(r) /\ r.c.state = state
  BY <1>3, ReleaseOK
<1>5. Blank(r, s.heap, state)
  BY <1>1, ClearedIs
<1>6. QED
  BY <1>4, <1>5

\* The handler has sent n bytes more.
LEMMA SentHeld ==
  ASSUME NEW s, NEW x, NEW t, Held(s, x, t), t # -1, NEW n, n \in Nat,
         NEW r, Book(r, Owns(x)), HasLine(r, Owns(x)),
         r.c.state = s.c.state, r.c.handler = s.c.handler
  PROVE  Held(r, x, t + n)
<1>1. t \in Nat /\ t + n \in Nat /\ t + n # -1
  BY DEF Held
<1>2. Open(r) /\ r.c.handler = TRUE
  BY DEF Held, Open
<1>3. QED
  BY <1>1, <1>2 DEF Held

\* What is known of a pair that is held.
LEMMA HeldTypes ==
  ASSUME NEW s, NEW x, NEW t, Held(s, x, t), NEW h, NEW d, IsPair(s, h, d)
  PROVE  /\ d \in Clients /\ h \in Heaps
         /\ s.heap = h /\ s.c = d
         /\ Book(s, Owns(x)) /\ HasLine(s, Owns(x))
         /\ d.buf \in Seq(Int) /\ d.reply \in Seq(Objects) /\ d.sentlen \in Nat
         /\ d.handler \in {TRUE, FALSE} /\ d.state \in States /\ Len(d.buf) <= Chunk
         /\ d.sentlen <= Len(First(s))
  BY DEF Held, Book, IsPair, Pairs, Clients

\* What a client waits for.
Text(s) == After(Full(s), s.c.sentlen)

\* The bytes of the nodes.
Rest(s) == FlattenSeq(Parts(s, 0, <<>>))

\* They are behind those of the buffer.
LEMMA TextIs ==
  ASSUME NEW s, s \in Pairs
  PROVE  /\ Full(s) = s.c.buf \o Rest(s)
         /\ s.c.buf \in Seq(Int) /\ Rest(s) \in Seq(Int) /\ Full(s) \in Seq(Int)
         /\ s.c.sentlen \in Nat
<1>1. s.c.sentlen \in Nat
  BY FieldTypes
<1>2. <<>> \in Seq(Int)
  OBVIOUS
<1>3. QED
  BY <1>1, <1>2, PartsType DEF Full, All, Rest

\* Two that share the heap and the list share the bytes of the nodes.
LEMMA SameRest ==
  ASSUME NEW s, NEW r, r.heap = s.heap, r.c.reply = s.c.reply
  PROVE  Rest(r) = Rest(s)
  BY DEF Rest, Parts

\* How the ends of u, and of u with v behind it, hang together.
EndsOf(u, v, n) ==
  /\ After(u, n) \in Seq(Int)
  /\ After(u \o v, n) = After(u, n) \o v
  /\ \A k \in Nat : n + k <= Len(u) => After(u, n) = SubSeq(u, n + 1, n + k) \o After(u, n + k)
  /\ n = Len(u) => After(u, n) = <<>>
  /\ After(u, 0) = u

\* They do so for n bytes that u has.
LEMMA EndsAre ==
  ASSUME NEW u, u \in Seq(Int), NEW v, v \in Seq(Int), NEW n, n \in Nat, n <= Len(u)
  PROVE  EndsOf(u, v, n)
<1>1. /\ After(u, n) \in Seq(Int)
      /\ After(u \o v, n) = After(u, n) \o v
      /\ \A k \in Nat : n + k <= Len(u) => After(u, n) = SubSeq(u, n + 1, n + k) \o After(u, n + k)
      /\ n = Len(u) => After(u, n) = <<>>
      /\ After(u, 0) = u
  BY AfterChain
<1>2. QED
  BY ONLY <1>1 DEF EndsOf

\* The first k + n bytes of a text that starts with u: n more than k.
Splits(u, v, k, n) ==
  /\ After(u \o v, k) = SubSeq(u, k + 1, k + n) \o After(u \o v, k + n)
  /\ k + n = Len(u) => After(u \o v, k + n) = v

\* The bytes of u can be taken one part after the other.
LEMMA FrontSent ==
  ASSUME NEW u, u \in Seq(Int), NEW v, v \in Seq(Int), NEW k, k \in Nat, NEW n, n \in Nat,
         k + n <= Len(u)
  PROVE  Splits(u, v, k, n)
<1>1. Len(u) \in Nat /\ k <= Len(u) /\ k + n \in Nat
  OBVIOUS
<1> DEFINE j == k + n
           w == SubSeq(u, k + 1, j)
<1>2. w \in Seq(Int)
  BY <1>1
<1>3. u \in Seq(Int) /\ v \in Seq(Int) /\ k \in Nat /\ k <= Len(u) /\ n \in Nat /\ k + n <= Len(u)
  BY <1>1
<1>4. j \in Nat /\ j <= Len(u)
  BY <1>1
<1>9. After(u, k) = w \o After(u, j) /\ After(u \o v, k) = After(u, k) \o v
  <2>0. EndsOf(u, v, k)
    BY <1>3, EndsAre
  <2>1. /\ After(u, k) \in Seq(Int)
        /\ After(u \o v, k) = After(u, k) \o v
        /\ \A m \in Nat : k + m <= Len(u) => After(u, k) = SubSeq(u, k + 1, k + m) \o After(u, k + m)
        /\ k = Len(u) => After(u, k) = <<>>
        /\ After(u, 0) = u
    BY ONLY <2>0 DEF EndsOf
  <2>2. QED
    BY <1>3, <2>1
<1> HIDE DEF w, j
<1>10. EndsOf(u, v, j)
  BY <1>4, EndsAre
<1>5. /\ After(u, j) \in Seq(Int)
      /\ After(u \o v, j) = After(u, j) \o v
      /\ \A m \in Nat : j + m <= Len(u) => After(u, j) = SubSeq(u, j + 1, j + m) \o After(u, j + m)
      /\ j = Len(u) => After(u, j) = <<>>
      /\ After(u, 0) = u
  BY ONLY <1>10 DEF EndsOf
<1>6. (w \o After(u, j)) \o v = w \o (After(u, j) \o v)
  BY <1>2, <1>5, Chains
<1>7. j = Len(u) => After(u \o v, j) = v
  BY <1>5, Chains
<1>8. QED
  BY <1>5, <1>6, <1>7, <1>9 DEF w, j, Splits

\* n bytes of the buffer have been sent.
LEMMA BufferSent ==
  ASSUME NEW s, s \in Pairs, NEW r, r \in Pairs, r.heap = s.heap, r.c.reply = s.c.reply,
         NEW n, n \in Nat, s.c.sentlen + n <= Len(s.c.buf),
         IF s.c.sentlen + n = Len(s.c.buf) THEN r.c.buf = <<>> /\ r.c.sentlen = 0
         ELSE r.c.buf = s.c.buf /\ r.c.sentlen = s.c.sentlen + n
  PROVE  Text(s) = SubSeq(s.c.buf, s.c.sentlen + 1, s.c.sentlen + n) \o Text(r)
<1> DEFINE u == s.c.buf
           v == Rest(s)
           k == s.c.sentlen
<1>1. u \in Seq(Int) /\ v \in Seq(Int) /\ k \in Nat /\ Full(s) = u \o v
  BY TextIs
<1>2. Full(r) = r.c.buf \o v
  BY TextIs, SameRest
<1>3. k + n <= Len(u)
  OBVIOUS
<1>4. CASE k + n = Len(u)
  <2>1. r.c.buf = <<>> /\ r.c.sentlen = 0
    BY <1>4
  <2>2. Full(r) = v
    BY <1>1, <1>2, <2>1, Chains
  <2>3. After(v, 0) = v
    <3>1. 0 \in Nat /\ 0 <= Len(v)
      BY <1>1
    <3>2. QED
      BY <1>1, <3>1, AfterChain
  <2> HIDE DEF u, v, k
  <2>6. Splits(u, v, k, n)
    BY <1>1, <1>3, FrontSent
  <2>4. /\ After(u \o v, k) = SubSeq(u, k + 1, k + n) \o After(u \o v, k + n)
        /\ k + n = Len(u) => After(u \o v, k + n) = v
    BY ONLY <2>6 DEF Splits
  <2>5. QED
    BY <1>1, <1>4, <2>1, <2>2, <2>3, <2>4 DEF Text, u, k
<1>5. CASE k + n # Len(u)
  <2>1. r.c.buf = u /\ r.c.sentlen = k + n
    BY <1>5
  <2> HIDE DEF u, v, k
  <2>4. Splits(u, v, k, n)
    BY <1>1, <1>3, FrontSent
  <2>2. /\ After(u \o v, k) = SubSeq(u, k + 1, k + n) \o After(u \o v, k + n)
        /\ k + n = Len(u) => After(u \o v, k + n) = v
    BY ONLY <2>4 DEF Splits
  <2>3. QED
    BY <1>1, <1>2, <2>1, <2>2 DEF Text, u, k
<1>6. QED
  BY <1>4, <1>5

\* The first node is what is sent first, when the buffer is empty.
LEMMA FirstNode ==
  ASSUME NEW s, s \in Pairs, s.c.buf = <<>>, s.c.reply # <<>>,
         NEW l, l \in Pairs, l.heap = s.heap, l.c.reply = Tail(s.c.reply)
  PROVE  /\ s.heap[s.c.reply[1]].bytes \in Seq(Int) /\ Rest(l) \in Seq(Int)
         /\ Full(s) = s.heap[s.c.reply[1]].bytes \o Rest(l)
<1> DEFINE e == <<>>
           p == Parts(s, 0, e)
           q == Parts(l, 0, e)
           list == s.c.reply
<1>1. e \in Seq(Int)
  OBVIOUS
<1>2. Full(s) = e \o Rest(s) /\ Rest(s) \in Seq(Int) /\ Rest(l) \in Seq(Int)
  BY TextIs
<1>3. Full(s) = FlattenSeq(p)
  BY <1>2, Chains DEF Rest
<1>4. list \in Seq(Objects) /\ Len(list) \in Nat /\ Len(list) # 0
      /\ p \in Seq(Seq(Int)) /\ Len(p) = Len(list)
      /\ q \in Seq(Seq(Int)) /\ Len(q) = Len(l.c.reply)
  <2> HIDE DEF e
  <2>1. p \in Seq(Seq(Int)) /\ Len(p) = Len(list) /\ list \in Seq(Objects)
    BY <1>1, PartsType
  <2>2. q \in Seq(Seq(Int)) /\ Len(q) = Len(l.c.reply)
    BY <1>1, PartsType
  <2>3. QED
    BY <2>1, <2>2
<1>5. /\ Len(l.c.reply) = Len(list) - 1
      /\ \A i \in 1 .. Len(list) - 1 : l.c.reply[i] = list[i + 1]
  BY <1>4, HeadTailProperties
<1>6. \A i \in 1 .. Len(list) : p[i] = s.heap[list[i]].bytes
  BY DEF Parts
<1>7. \A i \in 1 .. Len(list) - 1 : q[i] = s.heap[list[i + 1]].bytes
  BY <1>4, <1>5 DEF Parts
<1> HIDE DEF p, q, list
<1>8. p # <<>> /\ p[1] = s.heap[list[1]].bytes
  BY <1>4, <1>6
<1>9. /\ p[1] \in Seq(Int) /\ Tail(p) \in Seq(Seq(Int))
      /\ FlattenSeq(p) = p[1] \o FlattenSeq(Tail(p))
  BY <1>4, <1>8, FlattenHead
<1>10. q = Tail(p)
  <2>1. Len(Tail(p)) = Len(list) - 1 /\ \A i \in 1 .. Len(list) - 1 : Tail(p)[i] = p[i + 1]
    BY <1>4, <1>8, HeadTailProperties
  <2>2. ASSUME NEW i \in 1 .. Len(list) - 1 PROVE q[i] = Tail(p)[i]
    <3>1. PICK j : j = i + 1
      OBVIOUS
    <3>2. j \in 1 .. Len(list)
      BY <3>1, <1>4
    <3>3. p[j] = s.heap[list[j]].bytes
      BY <3>2, <1>6
    <3>4. QED
      BY <3>1, <3>3, <2>1, <1>7
  <2>3. Len(q) = Len(list) - 1 /\ Len(Tail(p)) = Len(q)
    BY <2>1, <1>4, <1>5
  <2>4. q \in Seq(Seq(Int)) /\ Tail(p) \in Seq(Seq(Int)) /\ Len(q) = Len(Tail(p))
        /\ \A i \in 1 .. Len(q) : q[i] = Tail(p)[i]
    BY <2>2, <2>3, <1>4, <1>9
  <2>5. QED
    BY ONLY <2>4, SeqEqual, Zenon
<1>11. QED
  BY <1>2, <1>3, <1>8, <1>9, <1>10 DEF Rest, q, list

\* n bytes of the first node have been sent.
LEMMA NodeSent ==
  ASSUME NEW s, s \in Pairs, s.c.buf = <<>>, s.c.reply # <<>>,
         NEW l, l \in Pairs, l.heap = s.heap, l.c.reply = Tail(s.c.reply),
         NEW n, n \in Nat, s.c.sentlen + n <= Len(s.heap[s.c.reply[1]].bytes)
  PROVE  /\ Text(s) = SubSeq(s.heap[s.c.reply[1]].bytes, s.c.sentlen + 1, s.c.sentlen + n)
                      \o After(Full(s), s.c.sentlen + n)
         /\ s.c.sentlen + n = Len(s.heap[s.c.reply[1]].bytes)
              => After(Full(s), s.c.sentlen + n) = Rest(l)
<1> DEFINE u == s.heap[s.c.reply[1]].bytes
           v == Rest(l)
           k == s.c.sentlen
<1>1. u \in Seq(Int) /\ v \in Seq(Int) /\ Full(s) = u \o v
  BY FirstNode
<1>2. k \in Nat /\ k + n <= Len(u)
  BY TextIs
<1>3. Text(s) = After(Full(s), k)
  BY DEF Text
<1> HIDE DEF u, v, k
<1>6. Splits(u, v, k, n)
  BY <1>1, <1>2, FrontSent
<1>4. /\ After(u \o v, k) = SubSeq(u, k + 1, k + n) \o After(u \o v, k + n)
      /\ k + n = Len(u) => After(u \o v, k + n) = v
  BY ONLY <1>6 DEF Splits
<1>5. QED
  BY <1>1, <1>3, <1>4 DEF u, v, k

\* Bytes of the buffer have been sent.
LEMMA WriteBufferOK ==
  ASSUME NEW s, NEW x, NEW t, Held(s, x, t), t # -1,
         NEW h, NEW d, IsPair(s, h, d), d.buf # <<>>,
         NEW n, n \in 1 .. Len(d.buf) - d.sentlen,
         NEW e, e = IF d.sentlen + n = Len(d.buf) THEN [d EXCEPT !.buf = <<>>, !.sentlen = 0]
                    ELSE [d EXCEPT !.sentlen = d.sentlen + n],
         NEW r, IsPair(r, h, e)
  PROVE  Held(r, x, t + n)
<1>1. /\ d \in Clients /\ h \in Heaps
      /\ s.heap = h /\ s.c = d
      /\ Book(s, Owns(x)) /\ HasLine(s, Owns(x))
      /\ d.buf \in Seq(Int) /\ d.reply \in Seq(Objects) /\ d.sentlen \in Nat
      /\ d.handler \in {TRUE, FALSE} /\ d.state \in States /\ Len(d.buf) <= Chunk
  BY HeldTypes
<1>2. Len(d.buf) \in Nat /\ n \in Nat /\ d.sentlen + n \in Nat /\ d.sentlen + n <= Len(d.buf)
  BY <1>1
<1>3. CASE d.sentlen + n = Len(d.buf)
  <2>1. e = [d EXCEPT !.buf = <<>>, !.sentlen = 0]
    BY <1>3
  <2>2. \A y, z : Is([heap |-> h, c |-> [d EXCEPT !.buf = y, !.sentlen = z]],
                     h, y, d.reply, d.reply_bytes, z, d.handler, d.state)
    BY <1>1, ClientUpdates, Zenon
  <2>3. Is([heap |-> h, c |-> [d EXCEPT !.buf = <<>>, !.sentlen = 0]],
           h, <<>>, d.reply, d.reply_bytes, 0, d.handler, d.state)
    BY <2>2, Zenon
  <2>4. Is(r, h, <<>>, d.reply, d.reply_bytes, 0, d.handler, d.state)
    BY <2>1, <2>3, Zenon DEF IsPair
  <2>5. Moves(s, Owns(x), <<>>, 0, d.handler, d.state, r)
    <3>1. r \in Pairs
      <4>1. d.reply_bytes \in Int
        BY <1>1 DEF Clients
      <4>2. /\ r.heap = h /\ r.c.buf = <<>> /\ r.c.reply = d.reply
            /\ r.c.reply_bytes = d.reply_bytes /\ r.c.sentlen = 0
            /\ r.c.handler = d.handler /\ r.c.state = d.state /\ Shaped(r)
        BY <2>4, IsFields
      <4>3. <<>> \in Seq(Int)
        OBVIOUS
      <4>4. /\ r.heap \in Heaps /\ r.c.buf \in Seq(Int) /\ r.c.reply \in Seq(Objects)
            /\ r.c.reply_bytes \in Int /\ r.c.sentlen \in Nat
        BY <1>1, <4>1, <4>2, <4>3
      <4>5. r.c.handler \in {TRUE, FALSE} /\ r.c.state \in States
        BY <1>1, <4>2, Zenon
      <4>6. QED
        BY <4>2, <4>4, <4>5, ShapedPair
    <3>2. Len(First(r)) \in Nat
      BY <3>1, FirstType
    <3>3. <<>> \in Seq(Int) /\ Len(<<>>) <= Chunk /\ 0 \in Nat /\ 0 <= Len(First(r))
      BY <3>2, SizesAssumption
    <3>4. Is(r, s.heap, <<>>, s.c.reply, s.c.reply_bytes, 0, d.handler, d.state)
      BY <1>1, <2>4
    <3>5. QED
      BY <1>1, <3>3, <3>4, Zenon DEF Moves
  <2>6. Book(r, Owns(x)) /\ r.heap = s.heap /\ r.c.handler = d.handler /\ r.c.state = d.state
    BY <2>5, MoveBook
  <2>7. HasLine(r, Owns(x))
    BY <1>1, <2>6 DEF HasLine
  <2>8. QED
    BY <1>1, <1>2, <2>6, <2>7, SentHeld
<1>4. CASE d.sentlen + n # Len(d.buf)
  <2> DEFINE k == d.sentlen + n
  <2>1. e = [d EXCEPT !.sentlen = k]
    BY <1>4
  <2>2. k \in Nat /\ k <= Len(d.buf)
    BY <1>2
  <2> HIDE DEF k
  <2>3. \A y : Is([heap |-> h, c |-> [d EXCEPT !.sentlen = y]],
                  h, d.buf, d.reply, d.reply_bytes, y, d.handler, d.state)
    BY <1>1, ClientUpdates, Zenon
  <2>4. Is(r, h, d.buf, d.reply, d.reply_bytes, k, d.handler, d.state)
    BY <2>1, <2>3, Zenon DEF IsPair
  <2>5. Moves(s, Owns(x), d.buf, k, d.handler, d.state, r)
    <3>1. r.c.buf = d.buf
      BY <2>4, IsFields
    <3>2. First(r) = d.buf
      BY <3>1 DEF First, Nothing
    <3>3. QED
      BY <1>1, <2>2, <2>4, <3>2 DEF Moves
  <2>6. Book(r, Owns(x)) /\ r.heap = s.heap /\ r.c.handler = d.handler /\ r.c.state = d.state
    BY <2>5, MoveBook
  <2>7. HasLine(r, Owns(x))
    BY <1>1, <2>6 DEF HasLine
  <2>8. QED
    BY <1>1, <1>2, <2>6, <2>7, SentHeld
<1>5. QED
  BY <1>3, <1>4

\* Bytes of the first node have been sent, and it is not over.
LEMMA WriteNodeOK ==
  ASSUME NEW s, NEW x, NEW t, Held(s, x, t), t # -1,
         NEW h, NEW d, IsPair(s, h, d), d.buf = <<>>, d.reply # <<>>,
         NEW n, n \in Nat, d.sentlen + n <= Len(h[d.reply[1]].bytes),
         NEW e, e = [d EXCEPT !.sentlen = d.sentlen + n],
         NEW r, IsPair(r, h, e)
  PROVE  Held(r, x, t + n)
<1>1. /\ d \in Clients /\ h \in Heaps
      /\ s.heap = h /\ s.c = d
      /\ Book(s, Owns(x)) /\ HasLine(s, Owns(x))
      /\ d.buf \in Seq(Int) /\ d.reply \in Seq(Objects) /\ d.sentlen \in Nat
      /\ d.handler \in {TRUE, FALSE} /\ d.state \in States /\ Len(d.buf) <= Chunk
  BY HeldTypes
<1> DEFINE k == d.sentlen + n
<1>2. e = [d EXCEPT !.sentlen = k] /\ k \in Nat /\ k <= Len(h[d.reply[1]].bytes)
  BY <1>1
<1> HIDE DEF k
<1>3. \A y : Is([heap |-> h, c |-> [d EXCEPT !.sentlen = y]],
                h, d.buf, d.reply, d.reply_bytes, y, d.handler, d.state)
  BY <1>1, ClientUpdates, Zenon
<1>4. Is(r, h, d.buf, d.reply, d.reply_bytes, k, d.handler, d.state)
  BY <1>2, <1>3, Zenon DEF IsPair
<1>5. Moves(s, Owns(x), d.buf, k, d.handler, d.state, r)
  <2>1. r.c.buf = d.buf /\ r.c.reply = d.reply /\ r.heap = h
    BY <1>4, IsFields
  <2>2. First(r) = h[d.reply[1]].bytes
    BY <2>1 DEF First, Nothing
  <2>3. QED
    BY <1>1, <1>2, <1>4, <2>2 DEF Moves
<1>6. Book(r, Owns(x)) /\ r.heap = s.heap /\ r.c.handler = d.handler /\ r.c.state = d.state
  BY <1>5, MoveBook
<1>7. HasLine(r, Owns(x))
  BY <1>1, <1>6 DEF HasLine
<1>8. QED
  BY <1>1, <1>6, <1>7, SentHeld

\* In r the first node of the client d is gone.
HeadDropped(s, r, x, t, h, d) ==
  /\ Held(r, x, t) /\ Keeps(s, r, Owns(x)) /\ r.c.state = d.state
  /\ \E l \in Pairs : /\ l.heap = h /\ l.c.reply = Tail(d.reply)
                     /\ Text(r) = Rest(l)

\* The first node has been sent: it is dropped, and its reference given up.
LEMMA DropHeadOK ==
  ASSUME NEW s, NEW x, NEW t, Held(s, x, t), t # -1,
         NEW h, NEW d, IsPair(s, h, d), d.buf = <<>>, d.reply # <<>>,
         NEW n, n \in Nat,
         NEW e, e = [d EXCEPT !.reply = Tail(d.reply), !.sentlen = 0,
                              !.reply_bytes = d.reply_bytes - Memory(h[d.reply[1]])],
         NEW g, g = decrRefCount(h, d.reply[1]),
         NEW r, IsPair(r, g, e)
  PROVE  HeadDropped(s, r, x, t + n, h, d)
<1> DEFINE own == Owns(x)
           o == d.reply[1]
           m == d.reply_bytes - Memory(h[o])
<1>1. /\ d \in Clients /\ h \in Heaps
      /\ s.heap = h /\ s.c = d
      /\ Book(s, own) /\ HasLine(s, own)
      /\ d.buf \in Seq(Int) /\ d.reply \in Seq(Objects) /\ d.sentlen \in Nat
      /\ d.handler \in {TRUE, FALSE} /\ d.state \in States /\ Len(d.buf) <= Chunk
  BY HeldTypes
<1>2. Cut(d.reply, 1, Tail(d.reply)) /\ o \in Objects
  BY <1>1, Cuts DEF Cut
<1> HIDE DEF own
<1>3. PICK l : l = [heap |-> h, c |-> e]
  OBVIOUS
<1>4. Is(l, h, d.buf, Tail(d.reply), m, 0, d.handler, d.state)
  <2>1. \A y, z, w : Is([heap |-> h, c |-> [d EXCEPT !.reply = y, !.sentlen = z, !.reply_bytes = w]],
                        h, d.buf, y, w, z, d.handler, d.state)
    BY <1>1, ClientUpdates, Zenon
  <2>2. Is([heap |-> h, c |-> [d EXCEPT !.reply = Tail(d.reply), !.sentlen = 0, !.reply_bytes = m]],
           h, d.buf, Tail(d.reply), m, 0, d.handler, d.state)
    BY <2>1, Zenon
  <2>3. QED
    BY <1>3, <2>2
<1>5. CutsTo(s, own, 1, Tail(d.reply), 0, l)
  <2>1. Is(l, s.heap, s.c.buf, Tail(d.reply), s.c.reply_bytes - Memory(s.heap[s.c.reply[1]]),
           0, s.c.handler, s.c.state)
    BY <1>1, <1>4
  <2>2. 0 \in Nat /\ (1 = 1 /\ s.c.buf = <<>>) /\ Cut(s.c.reply, 1, Tail(d.reply))
    BY <1>1, <1>2
  <2>3. QED
    BY <1>1, <2>1, <2>2 DEF CutsTo
<1> HIDE DEF m, o
<1> DEFINE more == With(own, o, own[o] + 1)
<1>6. /\ Book(l, more) /\ l.heap = h /\ l.c = e
      /\ l.c.state = d.state /\ l.c.handler = d.handler
  <2>1. /\ Book(l, With(own, s.c.reply[1], own[s.c.reply[1]] + 1))
        /\ l.c.state = s.c.state /\ l.c.handler = s.c.handler
    BY <1>5, CutBook
  <2>2. l.heap = h /\ l.c = e
    BY <1>3
  <2>3. QED
    BY <1>1, <2>1, <2>2 DEF o
<1>7. own \in [Objects -> Nat] /\ own[o] \in Nat
  BY <1>1, <1>2 DEF Book
<1>8. more[o] = own[o] + 1 /\ With(more, o, more[o] - 1) = own
  <2> DEFINE k == own[o] + 1
  <2>1. k \in Nat /\ k - 1 = own[o]
    BY <1>7
  <2> HIDE DEF k
  <2>2. ASSUME NEW f, f \in [Objects -> Nat], NEW y, y \in Nat
        PROVE  [f EXCEPT ![o] = y][o] = y /\ [[f EXCEPT ![o] = y] EXCEPT ![o] = f[o]] = f
    BY <1>2, <2>2
  <2>3. With(own, o, k)[o] = k /\ With(With(own, o, k), o, own[o]) = own
    BY <1>7, <2>1, <2>2, Zenon DEF With
  <2>4. QED
    BY <2>1, <2>3 DEF k
<1>9. r = WithHeap(l, decrRefCount(l.heap, o))
  <2>1. r = [heap |-> g, c |-> e]
    BY DEF IsPair
  <2>2. [l EXCEPT !.heap = g] = [heap |-> g, c |-> e]
    BY <1>3
  <2>3. g = decrRefCount(l.heap, o)
    BY <1>6 DEF o
  <2>4. QED
    BY <2>1, <2>2, <2>3 DEF WithHeap
<1>10. more[o] # 0
  BY <1>7, <1>8
<1> HIDE DEF more
<1>11. /\ Book(r, With(more, o, more[o] - 1)) /\ Keeps(l, r, With(more, o, more[o] - 1))
       /\ r.c = l.c /\ Says(l, r, <<>>)
  BY <1>2, <1>6, <1>9, <1>10, DecrBook
<1>12. Book(r, own) /\ Keeps(l, r, own) /\ r.c.state = d.state /\ r.c.handler = d.handler
  BY <1>6, <1>8, <1>11
<1>13. HasLine(r, own)
  <2>1. HasLine(l, own)
    BY <1>1, <1>6 DEF HasLine
  <2>2. QED
    BY <2>1, <1>12, LineStays
<1>14. Held(r, x, t + n)
  BY <1>1, <1>12, <1>13, SentHeld DEF own
<1>15. l \in Pairs /\ l.c.buf = <<>> /\ l.c.reply = Tail(d.reply) /\ l.c.sentlen = 0
  BY <1>4, <1>6, IsFields DEF Book
<1>16. Text(r) = Rest(l)
  <2>1. Full(r) = Full(l) /\ r.c.sentlen = 0
    BY <1>11, <1>15, FullSays
  <2>2. Full(l) = Rest(l) /\ Rest(l) \in Seq(Int)
    <3>1. Full(l) = l.c.buf \o Rest(l) /\ Rest(l) \in Seq(Int)
      BY <1>15, TextIs
    <3>2. <<>> \o Rest(l) = Rest(l)
      BY <3>1, Chains
    <3>3. QED
      BY <3>1, <3>2, <1>15
  <2>3. 0 \in Nat /\ 0 <= Len(Rest(l))
    BY <2>2
  <2>4. QED
    BY <2>1, <2>2, <2>3, AfterChain DEF Text
<1>17. Keeps(s, r, own) /\ r.c.state = d.state
  BY <1>1, <1>6, <1>12 DEF Keeps
<1>18. QED
  BY <1>6, <1>14, <1>15, <1>16, <1>17 DEF own, HeadDropped

\* The handler is over, and the connection stays.
LEMMA WriteEndOK ==
  ASSUME NEW s, NEW x, NEW t, Held(s, x, t), t # -1,
         NEW h, NEW d, IsPair(s, h, d),
         NEW e, e = IF Nothing(s) THEN [d EXCEPT !.sentlen = 0, !.handler = FALSE] ELSE d,
         NEW r, IsPair(r, h, e)
  PROVE  Held(r, x, -1)
<1>1. /\ d \in Clients /\ h \in Heaps
      /\ s.heap = h /\ s.c = d
      /\ Book(s, Owns(x)) /\ HasLine(s, Owns(x))
      /\ d.buf \in Seq(Int) /\ d.reply \in Seq(Objects) /\ d.sentlen \in Nat
      /\ d.handler \in {TRUE, FALSE} /\ d.state \in States /\ Len(d.buf) <= Chunk
  BY HeldTypes
<1>2. CASE ~ Nothing(s)
  <2>1. e = d
    BY <1>2
  <2>2. r = s
    BY <2>1 DEF IsPair
  <2>3. QED
    BY <1>2, <2>2 DEF Held
<1>3. CASE Nothing(s)
  <2>1. e = [d EXCEPT !.sentlen = 0, !.handler = FALSE]
    BY <1>3
  <2>2. \A y, z : Is([heap |-> h, c |-> [d EXCEPT !.sentlen = y, !.handler = z]],
                     h, d.buf, d.reply, d.reply_bytes, y, z, d.state)
    BY <1>1, ClientUpdates, Zenon
  <2>3. Is(r, h, d.buf, d.reply, d.reply_bytes, 0, FALSE, d.state)
    <3>1. Is([heap |-> h, c |-> [d EXCEPT !.sentlen = 0, !.handler = FALSE]],
             h, d.buf, d.reply, d.reply_bytes, 0, FALSE, d.state)
      BY <2>2, Zenon
    <3>2. QED
      BY <2>1, <3>1, Zenon DEF IsPair
  <2>4. /\ r.heap = h /\ r.c.buf = d.buf /\ r.c.reply = d.reply
        /\ r.c.handler = FALSE /\ r.c.state = d.state
    <3>1. ASSUME NEW b, NEW on,
                 Is(r, h, b, d.reply, d.reply_bytes, 0, on, d.state)
          PROVE  /\ r.heap = h /\ r.c.buf = b /\ r.c.reply = d.reply
                 /\ r.c.handler = on /\ r.c.state = d.state
      BY <3>1, IsFields
    <3>2. QED
      BY <2>3, <3>1, Zenon
  <2>5. Nothing(r)
    BY <1>1, <1>3, <2>4 DEF Nothing
  <2>6. Book(r, Owns(x))
    <3>1. Len(First(r)) = 0
      BY <2>5 DEF First
    <3>2. 0 \in Nat /\ 0 <= Len(First(r))
      BY <3>1
    <3>3. FALSE \in {TRUE, FALSE}
      OBVIOUS
    <3>4. Is(r, s.heap, d.buf, s.c.reply, s.c.reply_bytes, 0, FALSE, d.state)
      BY <1>1, <2>3
    <3>5. Moves(s, Owns(x), d.buf, 0, FALSE, d.state, r)
      BY <1>1, <3>2, <3>3, <3>4, Zenon DEF Moves
    <3>6. QED
      BY <3>5, MoveBook
  <2>7. HasLine(r, Owns(x))
    BY <1>1, <2>4 DEF HasLine
  <2>8. Open(r)
    BY <1>1, <2>4 DEF Open, Held
  <2>9. x \in Objects \cup {0} /\ -1 \in Nat \cup {-1}
    BY DEF Held
  <2>10. QED
    BY <2>4, <2>5, <2>6, <2>7, <2>8, <2>9 DEF Held
<1>4. QED
  BY <1>2, <1>3

-----------------------------------------------------------------------------
(* The queue of the stream.                                                *)

\* The bytes that wait, as the module puts it.
Left(s) ==
  LET all == s.c.buf \o FlattenSeq([i \in DOMAIN s.c.reply |-> s.heap[s.c.reply[i]].bytes])
  IN  SubSeq(all, s.c.sentlen + 1, Len(all))

\* They are the text that is left.
LEMMA LeftIs ==
  ASSUME NEW s, s \in Pairs
  PROVE  Left(s) = Text(s)
<1> DEFINE e == <<>>
           f == [i \in DOMAIN s.c.reply |-> s.heap[s.c.reply[i]].bytes]
<1>1. s.c.reply \in Seq(Objects)
  BY FieldTypes
<1>2. DOMAIN s.c.reply = 1 .. Len(s.c.reply)
  BY <1>1
<1>3. \A i \in 1 .. Len(s.c.reply) : i # 0
  BY <1>1
<1>4. Parts(s, 0, e) = f
  BY <1>2, <1>3 DEF Parts
<1>5. Full(s) = s.c.buf \o FlattenSeq(f)
  BY <1>4 DEF Full, All
<1> HIDE DEF f
<1>6. QED
  BY <1>5 DEF Left, Text, After, f

\* They are bytes.
LEMMA LeftType ==
  ASSUME NEW s, s \in Pairs
  PROVE  Left(s) \in Seq(Int)
<1> DEFINE u == Full(s)
           k == s.c.sentlen
<1>1. u \in Seq(Int) /\ k \in Nat /\ Left(s) = SubSeq(u, k + 1, Len(u))
  BY TextIs, LeftIs DEF Text, After
<1> HIDE DEF u, k
<1>2. SubSeq(u, k + 1, Len(u)) \in Seq(Int)
  BY <1>1
<1>3. QED
  BY <1>1, <1>2

\* Nothing waits in a client that is empty.
LEMMA NothingLeft ==
  ASSUME NEW s, s \in Pairs, Nothing(s)
  PROVE  Text(s) = <<>>
<1> DEFINE p == Parts(s, 0, <<>>)
<1>1. s.c.buf = <<>> /\ s.c.reply = <<>>
  BY DEF Nothing
<1>2. /\ Full(s) = s.c.buf \o Rest(s) /\ Full(s) \in Seq(Int) /\ Rest(s) \in Seq(Int)
      /\ s.c.sentlen \in Nat
  BY TextIs
<1>3. <<>> \in Seq(Int) /\ Len(s.c.reply) = 0
  BY <1>1
<1>4. p \in Seq(Seq(Int)) /\ Len(p) = 0
  BY <1>3, PartsType
<1> HIDE DEF p
<1>5. FlattenSeq(p) = <<>>
  BY <1>4, FlattenIs DEF Lines
<1>6. Full(s) = <<>>
  BY <1>1, <1>2, <1>5, Chains DEF Rest, p
<1>7. \A k \in Nat : SubSeq(<<>>, k + 1, 0) = <<>>
  OBVIOUS
<1>8. Len(<<>>) = 0
  OBVIOUS
<1>9. QED
  BY <1>2, <1>6, <1>7, <1>8 DEF Text, After

\* Without the first node it is a pair again.
LEMMA TailPair ==
  ASSUME NEW s, s \in Pairs, s.c.reply # <<>>
  PROVE  \E l \in Pairs : l.heap = s.heap /\ l.c.reply = Tail(s.c.reply)
<1>1. s.heap \in Heaps /\ s.c \in Clients /\ s.c.reply \in Seq(Objects)
  BY DEF Pairs, Clients
<1>2. Tail(s.c.reply) \in Seq(Objects)
  BY <1>1, HeadTailProperties
<1>3. PICK d : d = s.c
  OBVIOUS
<1>4. PICK m : m = Tail(s.c.reply)
  OBVIOUS
<1>5. [d EXCEPT !.reply = m] \in Clients /\ [d EXCEPT !.reply = m].reply = m
  BY <1>1, <1>2, <1>3, <1>4 DEF Clients
<1>6. PICK l : l = [heap |-> s.heap, c |-> [d EXCEPT !.reply = m]]
  OBVIOUS
<1>7. l \in Pairs /\ l.heap = s.heap /\ l.c.reply = Tail(s.c.reply)
  BY <1>1, <1>4, <1>5, <1>6 DEF Pairs
<1>8. QED
  BY <1>7

\* No more has been sent than there is.
LEMMA SentWithin ==
  ASSUME NEW s, NEW own, Book(s, own)
  PROVE  s.c.sentlen \in Nat /\ Full(s) \in Seq(Int) /\ s.c.sentlen <= Len(Full(s))
<1>1. s \in Pairs /\ s.c.sentlen <= Len(First(s))
  BY DEF Book
<1>2. /\ Full(s) = s.c.buf \o Rest(s) /\ s.c.buf \in Seq(Int) /\ Rest(s) \in Seq(Int)
      /\ Full(s) \in Seq(Int) /\ s.c.sentlen \in Nat
  BY <1>1, TextIs
<1>3. Len(Full(s)) = Len(s.c.buf) + Len(Rest(s)) /\ Len(s.c.buf) \in Nat /\ Len(Rest(s)) \in Nat
  BY <1>2, Chains
<1>4. CASE Nothing(s)
  <2>1. Len(First(s)) = 0
    BY <1>4 DEF First
  <2>2. QED
    BY <2>1, <1>1, <1>2, <1>3
<1>5. CASE ~ Nothing(s) /\ s.c.buf # <<>>
  <2>1. First(s) = s.c.buf
    BY <1>5 DEF First
  <2>2. QED
    BY <2>1, <1>1, <1>2, <1>3
<1>6. CASE ~ Nothing(s) /\ s.c.buf = <<>>
  <2>1. First(s) = s.heap[s.c.reply[1]].bytes /\ s.c.reply # <<>>
    BY <1>6 DEF First, Nothing
  <2>3. PICK l \in Pairs : l.heap = s.heap /\ l.c.reply = Tail(s.c.reply)
    BY <1>1, <2>1, TailPair
  <2>4. /\ s.heap[s.c.reply[1]].bytes \in Seq(Int) /\ Rest(l) \in Seq(Int)
        /\ Full(s) = s.heap[s.c.reply[1]].bytes \o Rest(l)
    BY <1>1, <1>6, <2>1, <2>3, FirstNode
  <2>5. Len(Full(s)) = Len(First(s)) + Len(Rest(l)) /\ Len(Rest(l)) \in Nat /\ Len(First(s)) \in Nat
    <3>1. First(s) \in Seq(Int) /\ Rest(l) \in Seq(Int) /\ Full(s) = First(s) \o Rest(l)
      BY <2>1, <2>4
    <3>2. QED
      BY <3>1, Chains
  <2>6. QED
    BY <2>5, <1>1, <1>2
<1>7. QED
  BY <1>4, <1>5, <1>6

\* What a command replies is behind what waits.
LEMMA MoreText ==
  ASSUME NEW s, NEW own, Book(s, own), NEW v, v \in Seq(Int),
         NEW r, Full(r) = Full(s) \o v, r.c.sentlen = s.c.sentlen
  PROVE  Text(r) = Text(s) \o v
<1> DEFINE u == Full(s)
           k == s.c.sentlen
<1>1. u \in Seq(Int) /\ k \in Nat /\ k <= Len(u)
  BY SentWithin
<1>2. Text(r) = After(u \o v, k) /\ Text(s) = After(u, k)
  BY DEF Text
<1> HIDE DEF u, k
<1>3. EndsOf(u, v, k)
  BY <1>1, EndsAre
<1>4. QED
  BY <1>2, <1>3 DEF EndsOf

\* The string of the key: a line when there is none.
ValueIn(s, x) == IF x = 0 THEN OneLine ELSE s.heap[x].bytes

\* The key is the owner of its value.
LEMMA ValueStays ==
  ASSUME NEW x, x \in Objects \cup {0}, NEW s, NEW r, Keeps(s, r, Owns(x))
  PROVE  ValueIn(r, x) = ValueIn(s, x)
<1>1. x # 0 => x \in Objects /\ Owns(x)[x] # 0
  BY OwnsIs
<1>2. QED
  BY <1>1 DEF ValueIn, Keeps

-----------------------------------------------------------------------------
(* The commands.                                                           *)

\* The invariant.
RInv == Held(Now, stored, tot)

\* A step that leaves v behind what waits, the value x and the state st.
Answers(v, x, st) ==
  /\ RInv' /\ c'.state = st
  /\ Pending' = Pending \o v
  /\ ValueIn(Now', stored') = x

\* The module's Pending is the text of the client.
LEMMA PendingIs ==
  /\ Now \in Pairs => Pending = Text(Now)
  /\ Now' \in Pairs => Pending' = Text(Now')
<1>1. Pending = Left(Now)
  BY DEF Pending, InList, Left, Now
<1>2. Pending' = Left(Now')
  BY DEF Pending, InList, Left, Now
<1>3. QED
  BY <1>1, <1>2, LeftIs

\* What is known when a command runs.
LEMMA NowIs ==
  ASSUME RInv, Command
  PROVE  /\ stored \in Objects \cup {0}
         /\ Book(Now, Owns(stored)) /\ HasLine(Now, Owns(stored))
         /\ Held(Now, stored, -1) /\ Now.c.state = "open"
         /\ Now.heap = heap /\ Now.c = c /\ Now \in Pairs /\ heap \in Heaps
         /\ tot' = -1
<1>1. tot = -1 /\ c.state = "open" /\ tot' = -1
  BY DEF Command
<1>2. Now.heap = heap /\ Now.c = c
  BY DEF Now
<1>3. Held(Now, stored, -1)
  BY <1>1 DEF RInv
<1>4. QED
  BY <1>1, <1>2, <1>3, BookTypes DEF Held

\* A pair with the client, and another heap.
LEMMA OnIs ==
  ASSUME RInv, Command, NEW h
  PROVE  /\ On(h).c = c /\ On(h).heap = h
         /\ On(h) = WithHeap(Now, h)
         /\ \A g : On(g) = WithHeap(On(h), g)
         /\ On(heap) = Now
  BY DEF On, Now, WithHeap

\* A command has replied.
LEMMA RepliedInv ==
  ASSUME RInv, Command, NEW r, Held(r, stored', -1), Replied(r)
  PROVE  RInv'
<1>1. Now' = r
  BY DEF Replied, Now, Pairs, Held, Book
<1>2. tot' = -1
  BY NowIs
<1>3. QED
  BY <1>1, <1>2 DEF RInv

\* A command that ends as it should.
LEMMA CommandInv ==
  ASSUME RInv, Command, NEW l, l.c = c, Full(l) = Full(Now), stored' \in Objects \cup {0},
         HasLine(l, Owns(stored')),
         NEW v, v \in Seq(Int), NEW r, Done(l, r, Owns(stored'), v), Replied(r)
  PROVE  Answers(v, ValueIn(l, stored'), "open")
<1>1. /\ Held(Now, stored, -1) /\ Now.c.state = "open" /\ l.c = Now.c
      /\ Book(Now, Owns(stored)) /\ Now \in Pairs
  BY NowIs
<1>2. Held(r, stored', -1) /\ r.c.state = "open"
  BY <1>1, DoneHeld
<1>3. RInv'
  BY <1>2, RepliedInv
<1>4. Now' = r /\ r \in Pairs /\ c' = r.c
  BY <1>2 DEF Replied, Now, Pairs, Held, Book
<1>5. Full(r) = Full(Now) \o v /\ r.c.sentlen = Now.c.sentlen
  BY <1>1 DEF Done
<1>6. Text(r) = Text(Now) \o v
  BY <1>1, <1>5, MoreText
<1>7. Pending' = Pending \o v
  BY <1>1, <1>4, <1>6, PendingIs
<1>8. ValueIn(r, stored') = ValueIn(l, stored')
  BY ValueStays DEF Done
<1>9. QED
  BY <1>2, <1>3, <1>4, <1>7, <1>8 DEF Answers

\* A new object for the key.
LEMMA StoreInv ==
  ASSUME MemoryUnbounded, RInv, Command, NEW h,
         Book(On(h), Owns(0)), HasLine(On(h), Owns(0)),
         NEW enc, enc \in {"none", "raw", "embstr", "int"},
         NEW v, v \in Seq(Int), enc = "int" => v \in Numbers,
         Full(On(h)) = Full(Now), Store(h, enc, v)
  PROVE  Answers(OneLine, v, "open") /\ stored' # 0
<1>1. PICK l : l = On(h)
  OBVIOUS
<1>2. PICK m : m = On(createObject(h, enc, v))
  OBVIOUS
<1>3. PICK r : r = addReply(m, shared)
  OBVIOUS
<1>4. l.heap = h /\ l.c = c /\ m = WithHeap(l, createObject(l.heap, enc, v))
  BY <1>1, <1>2, OnIs
<1>5. stored' = New(l.heap) /\ Replied(r)
  BY <1>2, <1>3, <1>4 DEF Store
<1>6. Creates(l, Owns(0), enc, v, stored', m)
  BY <1>1, <1>4, <1>5 DEF Creates
<1>7. HasLine(l, Owns(0))
  BY <1>1
<1>8. /\ stored' \in Objects /\ m.c = l.c /\ HasLine(m, Owns(stored'))
      /\ Done(m, r, Owns(stored'), OneLine)
      /\ Full(m) = Full(l) /\ m.heap[stored'].bytes = v
  BY <1>3, <1>6, <1>7, StoreOK
<1>9. m.c = c /\ stored' \in Objects \cup {0} /\ Full(m) = Full(Now) /\ OneLine \in Seq(Int)
  BY <1>1, <1>4, <1>8, LinesAre
<1>10. Answers(OneLine, ValueIn(m, stored'), "open")
  BY <1>5, <1>8, <1>9, CommandInv
<1>11. stored' # 0 /\ ValueIn(m, stored') = v
  BY <1>8, ObjectsAssumption DEF ValueIn
<1>12. QED
  BY <1>10, <1>11

\* The value is given up.
LEMMA DroppedIs ==
  ASSUME RInv, Command
  PROVE  /\ Book(On(Dropped), Owns(0)) /\ HasLine(On(Dropped), Owns(0)) /\ On(Dropped).c = c
         /\ Full(On(Dropped)) = Full(Now)
<1>1. /\ stored \in Objects \cup {0}
      /\ Book(Now, Owns(stored)) /\ HasLine(Now, Owns(stored))
      /\ Now.heap = heap /\ Now.c = c
  BY NowIs
<1>2. PICK l : l = On(Dropped)
  OBVIOUS
<1>3. IF stored = 0 THEN l = Now ELSE l = WithHeap(Now, decrRefCount(Now.heap, stored))
  <2>1. CASE stored = 0
    BY <1>2, <2>1, OnIs DEF Dropped
  <2>2. CASE stored # 0
    BY <1>1, <1>2, <2>2, OnIs DEF Dropped
  <2>3. QED
    BY <2>1, <2>2
<1>4. Book(l, Owns(0)) /\ HasLine(l, Owns(0)) /\ l.c = Now.c /\ Full(l) = Full(Now)
  BY <1>1, <1>3, DropOK
<1>5. QED
  BY <1>1, <1>2, <1>4

\* A string that a command stores.
LEMMA ValueType ==
  ASSUME NEW v, v \in Values
  PROVE  /\ v \in Seq(Int)
         /\ Encoded(v) \in {"none", "raw", "embstr", "int"}
         /\ Encoded(v) = "int" => v \in Numbers
<1>1. v \in Seq(Nat)
  BY SizesAssumption
<1>2. v \in Seq(Int)
  BY <1>1
<1>3. Encoding(v) \in {"none", "raw", "embstr", "int"} /\ Encoding(v) # "int"
  BY EncodingType
<1>4. QED
  BY <1>2, <1>3 DEF Encoded

\* A command that leaves the key alone.
LEMMA ReadInv ==
  ASSUME RInv, Command, stored' = stored, NEW v, v \in Seq(Int),
         NEW r, Goes(Now, r, Owns(stored), v), Awake(Now, r), Replied(r)
  PROVE  Answers(v, ValueIn(Now, stored), "open")
<1>1. /\ stored \in Objects \cup {0} /\ HasLine(Now, Owns(stored)) /\ Now.c = c /\ Now \in Pairs
  BY NowIs
<1>2. Done(Now, r, Owns(stored), v)
  BY <1>1, GoesDone
<1>3. QED
  BY <1>1, <1>2, CommandInv

\* What GET replies.
Found(v) ==
  /\ stored = 0 => v = OneLine
  /\ stored # 0 => v = BulkLines(heap[stored].bytes)

\* GET.
LEMMA GetInv ==
  ASSUME MemoryUnbounded, RInv, Get
  PROVE  \E v : Found(v) /\ Answers(v, ValueIn(Now, stored), "open")
<1>1. Command /\ stored' = stored
  BY DEF Get
<1>2. /\ stored \in Objects \cup {0}
      /\ Book(Now, Owns(stored)) /\ HasLine(Now, Owns(stored)) /\ Now.c = c /\ Now.heap = heap
      /\ heap \in Heaps
  BY <1>1, NowIs
<1>3. CASE stored = 0
  <2>1. PICK r : r = addReply(Now, shared)
    OBVIOUS
  <2>2. Replied(r)
    BY <1>3, <2>1 DEF Get
  <2>3. Goes(Now, r, Owns(stored), OneLine) /\ Awake(Now, r)
    BY <1>2, <2>1, AddLineOK
  <2>4. OneLine \in Seq(Int)
    BY LinesAre
  <2>5. Answers(OneLine, ValueIn(Now, stored), "open")
    BY <1>1, <2>2, <2>3, <2>4, ReadInv
  <2>6. QED
    BY <1>3, <2>5 DEF Found
<1>4. CASE stored # 0
  <2>1. PICK r : r = addReplyBulk(Now, stored)
    OBVIOUS
  <2>2. Replied(r)
    BY <1>4, <2>1 DEF Get
  <2>3. stored \in Objects /\ Owns(stored)[stored] # 0
    BY <1>2, <1>4, OwnsIs
  <2>4. Goes(Now, r, Owns(stored), BulkLines(Now.heap[stored].bytes)) /\ Awake(Now, r)
    <3> DEFINE own == Owns(stored)
    <3>1. Book(Now, own) /\ HasLine(Now, own) /\ own[stored] # 0
      BY <1>2, <2>3
    <3> HIDE DEF own
    <3>2. Goes(Now, r, own, BulkLines(Now.heap[stored].bytes)) /\ Awake(Now, r)
      BY <2>1, <2>3, <3>1, AddReplyBulkOK
    <3>3. QED
      BY <3>2 DEF own
  <2>5. BulkLines(Now.heap[stored].bytes) \in Seq(Int)
    <3>1. Now.heap[stored].bytes \in Seq(Int)
      BY <1>2, <2>3 DEF Heaps, Object
    <3>2. QED
      BY <3>1, LinesAre DEF BulkLines
  <2>6. Answers(BulkLines(Now.heap[stored].bytes), ValueIn(Now, stored), "open")
    BY <1>1, <2>2, <2>4, <2>5, ReadInv
  <2>7. QED
    BY <1>2, <1>4, <2>6 DEF Found
<1>5. QED
  BY <1>3, <1>4

\* SET.
LEMMA SetInv ==
  ASSUME MemoryUnbounded, RInv, NEW v, v \in Values, Set(v)
  PROVE  Answers(OneLine, v, "open") /\ stored' # 0
<1>1. Command /\ Store(Dropped, Encoded(v), v)
  BY DEF Set
<1>2. Book(On(Dropped), Owns(0)) /\ HasLine(On(Dropped), Owns(0)) /\ Full(On(Dropped)) = Full(Now)
  BY <1>1, DroppedIs
<1>3. /\ v \in Seq(Int)
      /\ Encoded(v) \in {"none", "raw", "embstr", "int"}
      /\ Encoded(v) = "int" => v \in Numbers
  BY ValueType
<1>4. QED
  BY <1>1, <1>2, <1>3, StoreInv

\* DEL.
LEMMA DelInv ==
  ASSUME MemoryUnbounded, RInv, Del
  PROVE  Answers(OneLine, OneLine, "open") /\ stored' = 0
<1>1. PICK l : l = On(Dropped)
  OBVIOUS
<1>2. PICK r : r = addReply(l, shared)
  OBVIOUS
<1>3. Command /\ Replied(r) /\ stored' = 0
  BY <1>1, <1>2 DEF Del
<1>4. Book(l, Owns(0)) /\ HasLine(l, Owns(0)) /\ l.c = c /\ Full(l) = Full(Now)
  BY <1>1, <1>3, DroppedIs
<1>5. Goes(l, r, Owns(0), OneLine) /\ Awake(l, r)
  BY <1>2, <1>4, AddLineOK
<1>6. Done(l, r, Owns(0), OneLine)
  BY <1>4, <1>5, GoesDone DEF Book
<1>7. /\ HasLine(l, Owns(stored')) /\ Done(l, r, Owns(stored'), OneLine)
      /\ stored' \in Objects \cup {0} /\ OneLine \in Seq(Int)
  BY <1>3, <1>4, <1>6, LinesAre
<1>8. Answers(OneLine, ValueIn(l, stored'), "open")
  BY <1>3, <1>4, <1>7, CommandInv
<1>9. QED
  BY <1>3, <1>8 DEF ValueIn

\* A reply of a string that no object holds.
LEMMA FindInv ==
  ASSUME MemoryUnbounded, RInv, NEW v, v \in Values, Find(v)
  PROVE  Answers(BulkLines(v), ValueIn(Now, stored), "open")
<1>1. PICK r : r = addReplyBulkCBuffer(Now, v)
  OBVIOUS
<1>2. Command /\ Replied(r) /\ stored' = stored
  BY <1>1 DEF Find
<1>3. /\ stored \in Objects \cup {0}
      /\ Book(Now, Owns(stored)) /\ HasLine(Now, Owns(stored)) /\ Now.c = c
  BY <1>2, NowIs
<1>4. v \in Seq(Int)
  BY ValueType
<1>5. Goes(Now, r, Owns(stored), BulkLines(v)) /\ Awake(Now, r)
  BY <1>1, <1>3, <1>4, AddReplyBulkCBufferOK
<1>6. BulkLines(v) \in Seq(Int)
  BY <1>4, LinesAre DEF BulkLines
<1>7. QED
  BY <1>2, <1>5, <1>6, ReadInv

\* APPEND to a key that is not there, ...
LEMMA AppendNewInv ==
  ASSUME MemoryUnbounded, RInv, Command, NEW v, v \in Values,
         stored = 0, Store(heap, Encoded(v), v)
  PROVE  Answers(OneLine, v, "open") /\ stored' # 0
<1>1. Book(Now, Owns(stored)) /\ HasLine(Now, Owns(stored))
  BY NowIs
<1>2. On(heap) = Now
  BY OnIs
<1>3. Book(On(heap), Owns(0)) /\ HasLine(On(heap), Owns(0)) /\ Full(On(heap)) = Full(Now)
  BY <1>1, <1>2
<1>4. /\ v \in Seq(Int)
      /\ Encoded(v) \in {"none", "raw", "embstr", "int"}
      /\ Encoded(v) = "int" => v \in Numbers
  BY ValueType
<1>5. QED
  BY <1>3, <1>4, StoreInv

\* ... to a value that it may not change, ...
LEMMA AppendCopyInv ==
  ASSUME MemoryUnbounded, RInv, Command, NEW v, v \in Values, stored # 0,
         Store(Dropped, "raw", heap[stored].bytes \o v)
  PROVE  Answers(OneLine, heap[stored].bytes \o v, "open") /\ stored' # 0
<1>1. stored \in Objects /\ heap \in Heaps
  BY NowIs
<1>2. heap[stored].bytes \in Seq(Int) /\ v \in Seq(Int)
  BY <1>1, ValueType DEF Heaps, Object
<1> DEFINE w == heap[stored].bytes \o v
<1>3. w \in Seq(Int)
  BY <1>2
<1>4. Store(Dropped, "raw", w)
  OBVIOUS
<1> HIDE DEF w
<1>5. Book(On(Dropped), Owns(0)) /\ HasLine(On(Dropped), Owns(0)) /\ Full(On(Dropped)) = Full(Now)
  BY DroppedIs
<1>6. "raw" \in {"none", "raw", "embstr", "int"} /\ ("raw" = "int" => w \in Numbers)
  OBVIOUS
<1>7. Answers(OneLine, w, "open") /\ stored' # 0
  BY <1>3, <1>4, <1>5, <1>6, StoreInv
<1>8. QED
  BY <1>7 DEF w

\* ... and where the value is.
LEMMA AppendHereInv ==
  ASSUME MemoryUnbounded, RInv, Command, NEW v, v \in Values, stored # 0, ~ dbUnshare,
         Replied(addReply(On([heap EXCEPT ![stored].bytes = @ \o v]), shared)),
         stored' = stored
  PROVE  Answers(OneLine, heap[stored].bytes \o v, "open") /\ stored' # 0
<1>1. /\ stored \in Objects
      /\ Book(Now, Owns(stored)) /\ HasLine(Now, Owns(stored))
      /\ Now.heap = heap /\ Now.c = c
  BY NowIs
<1>2. PICK g : g = [heap EXCEPT ![stored].bytes = @ \o v]
  OBVIOUS
<1>3. PICK l : l = On(g)
  OBVIOUS
<1>4. PICK r : r = addReply(l, shared)
  OBVIOUS
<1>5. Replied(r)
  BY <1>2, <1>3, <1>4, Zenon
<1>6. Grows(Now.heap, stored, v, g)
  BY <1>1, <1>2 DEF Grows
<1>7. l = WithHeap(Now, g)
  BY <1>3, OnIs
<1>8. Now.heap[stored].refs = 1 /\ Now.heap[stored].enc = "raw"
  BY <1>1 DEF dbUnshare
<1>9. v \in Seq(Int)
  BY ValueType
<1>10. /\ Book(l, Owns(stored)) /\ HasLine(l, Owns(stored)) /\ l.c = c
       /\ Full(l) = Full(Now) /\ Grown(Now.heap, stored, v, l.heap)
  BY <1>1, <1>6, <1>7, <1>8, <1>9, GrowOK
<1>11. Goes(l, r, Owns(stored), OneLine) /\ Awake(l, r)
  BY <1>4, <1>10, AddLineOK
<1>12. Done(l, r, Owns(stored), OneLine)
  BY <1>10, <1>11, GoesDone DEF Book
<1>13. /\ HasLine(l, Owns(stored')) /\ Done(l, r, Owns(stored'), OneLine)
       /\ stored' \in Objects \cup {0} /\ OneLine \in Seq(Int)
  BY <1>1, <1>10, <1>12, LinesAre
<1>14. Answers(OneLine, ValueIn(l, stored'), "open")
  BY <1>5, <1>10, <1>13, CommandInv
<1>15. stored' # 0 /\ ValueIn(l, stored') = heap[stored].bytes \o v
  BY <1>1, <1>10 DEF ValueIn, Grown
<1>16. QED
  BY <1>14, <1>15

\* An error is the reply.
LEMMA ErrorInv ==
  ASSUME MemoryUnbounded, RInv, Command, Replied(addReplyError(Now)), stored' = stored
  PROVE  Answers(ErrorIs, ValueIn(Now, stored), "open")
<1>1. /\ stored \in Objects \cup {0}
      /\ Book(Now, Owns(stored)) /\ HasLine(Now, Owns(stored)) /\ Now.c = c
  BY NowIs
<1>2. PICK r : r = addReplyError(Now)
  OBVIOUS
<1>3. Goes(Now, r, Owns(stored), ErrorIs) /\ Awake(Now, r)
  BY <1>1, <1>2, AddReplyErrorOK
<1>4. Replied(r) /\ ErrorIs \in Seq(Int)
  BY <1>2, LinesAre DEF ErrorIs
<1>5. QED
  BY <1>3, <1>4, ReadInv

\* What APPEND does: the value would be too long, or it is the longer one now.
Appended(v) ==
  \/ /\ stored # 0 /\ Len(heap[stored].bytes) + Len(v) > MaxLen /\ stored' = stored
     /\ Answers(ErrorIs, ValueIn(Now, stored), "open")
  \/ stored = 0 /\ stored' # 0 /\ Answers(OneLine, v, "open")
  \/ /\ stored # 0 /\ Len(heap[stored].bytes) + Len(v) <= MaxLen /\ stored' # 0
     /\ Answers(OneLine, heap[stored].bytes \o v, "open")

\* APPEND.
LEMMA AppendInv ==
  ASSUME MemoryUnbounded, RInv, NEW v, v \in Values, AppendTo(v)
  PROVE  Appended(v)
<1>1. Command
  BY DEF AppendTo
<1>2. CASE stored = 0 /\ Store(heap, Encoded(v), v)
  BY <1>1, <1>2, AppendNewInv DEF Appended
<1>3. CASE /\ stored # 0 /\ Len(heap[stored].bytes) + Len(v) > MaxLen
           /\ Replied(addReplyError(Now)) /\ stored' = stored
  BY <1>1, <1>3, ErrorInv DEF Appended
<1>4. CASE /\ stored # 0 /\ Len(heap[stored].bytes) + Len(v) <= MaxLen
           /\ Store(Dropped, "raw", heap[stored].bytes \o v)
  BY <1>1, <1>4, AppendCopyInv DEF Appended
<1>5. CASE /\ stored # 0 /\ Len(heap[stored].bytes) + Len(v) <= MaxLen /\ ~ dbUnshare
           /\ Replied(addReply(On([heap EXCEPT ![stored].bytes = @ \o v]), shared))
           /\ stored' = stored
  BY <1>1, <1>5, AppendHereInv DEF Appended
<1>6. QED
  BY <1>2, <1>3, <1>4, <1>5, Zenon DEF AppendTo

\* KEYS.
LEMMA KeysInv ==
  ASSUME MemoryUnbounded, RInv, NEW n, n \in Nat, NEW items, items \in [1 .. n -> Values],
         Keys(items)
  PROVE  Answers(CountLine(Len(items)) \o FlattenSeq(Bulks(items)), ValueIn(Now, stored), "open")
<1>1. items \in Seq(Seq(Int)) /\ Len(items) = n
  <2>1. \A v \in Values : v \in Seq(Int)
    BY ValueType
  <2>2. items \in [1 .. n -> Seq(Int)]
    BY <2>1
  <2>3. QED
    BY <2>2
<1>2. PICK d : d = addDeferredMultiBulkLength(Now)
  OBVIOUS
<1>3. PICK r : r = KeysReplies(d, items)
  OBVIOUS
<1>4. Command /\ Replied(r) /\ stored' = stored
  BY <1>2, <1>3 DEF Keys, KeysReplies
<1>5. /\ stored \in Objects \cup {0}
      /\ Book(Now, Owns(stored)) /\ HasLine(Now, Owns(stored)) /\ Now.c = c
  BY <1>4, NowIs
<1> DEFINE v == CountLine(Len(items)) \o FlattenSeq(Bulks(items))
<1>6. Done(Now, r, Owns(stored), v)
  BY <1>1, <1>2, <1>3, <1>5, KeysOK
<1>7. v \in Seq(Int)
  <2>1. FlattenSeq(Bulks(items)) \in Seq(Int)
    BY <1>1, BulksAre, FlattenIs
  <2>2. CountLine(Len(items)) \in Seq(Int)
    BY <1>1 DEF CountLine, Count
  <2>3. QED
    BY <2>1, <2>2, Chains
<1> HIDE DEF v
<1>8. Answers(v, ValueIn(Now, stored), "open")
  BY <1>4, <1>5, <1>6, <1>7, CommandInv
<1>9. QED
  BY <1>8 DEF v

\* The connection is to be closed behind the reply.
LEMMA ClosingInv ==
  ASSUME RInv, Command, stored' = stored,
         NEW v, v \in Seq(Int), NEW r, Goes(Now, r, Owns(stored), v), Awake(Now, r), Closing(r)
  PROVE  Answers(v, ValueIn(Now, stored), "closing")
<1>1. /\ stored \in Objects \cup {0}
      /\ Book(Now, Owns(stored)) /\ HasLine(Now, Owns(stored))
      /\ Held(Now, stored, -1) /\ Now.c.state = "open" /\ Now \in Pairs
  BY NowIs
<1>0. Done(Now, r, Owns(stored), v)
  BY <1>1, GoesDone
<1>2. Held(r, stored, -1) /\ r.c.state = "open" /\ ~ Nothing(r)
  BY <1>0, <1>1, DoneHeld
<1>3. Book(r, Owns(stored)) /\ HasLine(r, Owns(stored)) /\ r.c.handler = TRUE
  BY <1>2 DEF Held, Open
<1>4. PICK q : q = [r EXCEPT !.c.state = "closing"]
  OBVIOUS
<1>5. r \in Pairs
  BY <1>3 DEF Book
<1>6. Is(q, r.heap, r.c.buf, r.c.reply, r.c.reply_bytes, r.c.sentlen, r.c.handler, "closing")
  <2>1. Is(r, r.heap, r.c.buf, r.c.reply, r.c.reply_bytes, r.c.sentlen, r.c.handler, r.c.state)
    BY <1>5, FieldTypes
  <2>2. \A x : Is([r EXCEPT !.c.state = x], r.heap, r.c.buf, r.c.reply, r.c.reply_bytes,
                  r.c.sentlen, r.c.handler, x)
    BY <2>1, Update
  <2>3. QED
    BY <1>4, <2>2, Zenon
<1>7. q.heap = r.heap /\ q.c.buf = r.c.buf /\ q.c.reply = r.c.reply /\ q.c.sentlen = r.c.sentlen
  BY <1>6, IsFields
<1>8. Moves(r, Owns(stored), r.c.buf, r.c.sentlen, r.c.handler, "closing", q)
  <2>1. First(q) = First(r)
    BY <1>7 DEF First, Nothing
  <2>2. r.c.buf \in Seq(Int) /\ Len(r.c.buf) <= Chunk /\ r.c.sentlen \in Nat
        /\ r.c.handler \in {TRUE, FALSE} /\ r.c.sentlen <= Len(First(q))
    BY <1>3, <1>5, <2>1, FieldTypes DEF Book
  <2>3. "closing" \in States
    BY DEF States
  <2>4. QED
    BY <1>3, <1>6, <2>2, <2>3 DEF Moves
<1>9. /\ Book(q, Owns(stored)) /\ q.heap = r.heap /\ q.c.handler = r.c.handler
      /\ q.c.state = "closing"
  BY <1>8, MoveBook
<1>10. HasLine(q, Owns(stored)) /\ ~ Nothing(q)
  BY <1>2, <1>3, <1>7 DEF HasLine, Nothing
<1>11. Held(q, stored', -1)
  BY <1>1, <1>3, <1>9, <1>10 DEF Held, Open
<1>12. Replied(q)
  BY <1>4 DEF Closing
<1>13. RInv'
  BY <1>11, <1>12, RepliedInv
<1>14. Now' = q /\ q \in Pairs /\ c' = q.c
  BY <1>9, <1>12 DEF Replied, Now, Pairs, Book
<1>15. Pending' = Pending \o v
  <2>1. Full(q) = Full(r)
    BY <1>7, SameRest, <1>5, <1>14, TextIs
  <2>2. Full(q) = Full(Now) \o v /\ q.c.sentlen = Now.c.sentlen
    BY <1>0, <1>7, <2>1 DEF Done
  <2>3. Text(q) = Text(Now) \o v
    BY <1>1, <2>2, MoreText
  <2>4. QED
    BY <1>1, <1>14, <2>3, PendingIs
<1>16. ValueIn(q, stored') = ValueIn(Now, stored)
  <2>1. Keeps(Now, q, Owns(stored))
    BY <1>0, <1>7 DEF Done, Keeps
  <2>2. QED
    BY <1>1, <2>1, ValueStays
<1>17. QED
  BY <1>9, <1>13, <1>14, <1>15, <1>16 DEF Answers

\* QUIT.
LEMMA QuitInv ==
  ASSUME MemoryUnbounded, RInv, Quit
  PROVE  Answers(OneLine, ValueIn(Now, stored), "closing")
<1>1. PICK r : r = addReply(Now, shared)
  OBVIOUS
<1>2. Command /\ Closing(r) /\ stored' = stored
  BY <1>1 DEF Quit
<1>3. Goes(Now, r, Owns(stored), OneLine) /\ Awake(Now, r) /\ OneLine \in Seq(Int)
  BY <1>1, <1>2, NowIs, AddLineOK, LinesAre
<1>4. QED
  BY <1>2, <1>3, ClosingInv

\* An error of the protocol.
LEMMA ProtocolErrorInv ==
  ASSUME MemoryUnbounded, RInv, ProtocolError
  PROVE  Answers(ErrorIs, ValueIn(Now, stored), "closing")
<1>1. PICK r : r = addReplyError(Now)
  OBVIOUS
<1>2. Command /\ Closing(r) /\ stored' = stored
  BY <1>1 DEF ProtocolError
<1>3. Goes(Now, r, Owns(stored), ErrorIs) /\ Awake(Now, r) /\ ErrorIs \in Seq(Int)
  BY <1>1, <1>2, NowIs, AddReplyErrorOK, LinesAre DEF ErrorIs
<1>4. QED
  BY <1>2, <1>3, ClosingInv

-----------------------------------------------------------------------------
(* The steps of the write handler, and the connection.                     *)

\* The pair before a step and after it.
LEMMA NowPairs == IsPair(Now, heap, c) /\ IsPair(Now', heap', c') /\ Now.heap = heap /\ Now.c = c
  BY DEF IsPair, Now

\* A step that sends the bytes v, and leaves the value and the state alone.
Sends(v) ==
  /\ RInv' /\ c'.state = c.state
  /\ Pending = v \o Pending'
  /\ ValueIn(Now', stored') = ValueIn(Now, stored)

\* A step that is none of the client's business.
Pauses ==
  /\ RInv' /\ c'.state = c.state
  /\ Pending' = Pending
  /\ ValueIn(Now', stored') = ValueIn(Now, stored)

\* The step of an end: nothing waits afterwards.
Drops(st) ==
  /\ RInv' /\ c'.state = st
  /\ Pending' = <<>>
  /\ ValueIn(Now', stored') = ValueIn(Now, stored)

\* The handler is called.
LEMMA WriteStartInv ==
  ASSUME RInv, WriteStart
  PROVE  Pauses
<1>1. Now' = Now /\ stored' = stored /\ tot' = 0 /\ tot = -1
  BY DEF WriteStart, Now
<1>2. Open(Now) /\ Now.c.handler = TRUE
  <2>1. Open(Now) /\ c.handler
    BY NowPairs DEF WriteStart, Alive, Open
  <2>2. Now.c.handler \in {TRUE, FALSE}
    BY NowPairs, HeldTypes DEF RInv
  <2>3. QED
    BY <2>1, <2>2, NowPairs
<1>3. Held(Now, stored, 0)
  BY <1>1, <1>2 DEF RInv, Held
<1>4. RInv'
  BY <1>1, <1>3 DEF RInv
<1>5. Pending' = Pending /\ c' = c
  <2>1. Now \in Pairs
    BY DEF RInv, Held, Book
  <2>2. QED
    BY <1>1, <2>1, PendingIs DEF WriteStart
<1>6. QED
  BY <1>1, <1>4, <1>5 DEF Pauses

\* write(2).
LEMMA WriteInv ==
  ASSUME RInv, Write
  PROVE  Sends(out')
<1>1. /\ Held(Now, stored, tot) /\ tot # -1 /\ stored' = stored
      /\ IsPair(Now, heap, c) /\ IsPair(Now', heap', c')
      /\ Now.heap = heap /\ Now.c = c /\ Now'.heap = heap' /\ Now'.c = c'
  BY NowPairs DEF RInv, Write, Now
<1>2. /\ c \in Clients /\ heap \in Heaps
      /\ c.buf \in Seq(Int) /\ c.reply \in Seq(Objects) /\ c.sentlen \in Nat
      /\ c.sentlen <= Len(First(Now)) /\ Now \in Pairs
  <2>1. Held(Now, stored, tot) /\ IsPair(Now, heap, c)
    BY <1>1
  <2>2. Now \in Pairs
    BY <2>1 DEF Held, Book
  <2>3. QED
    BY <2>1, <2>2, HeldTypes
<1>3. ASSUME Held(Now', stored, tot'), Text(Now) = out' \o Text(Now'),
             Keeps(Now, Now', Owns(stored)), c'.state = c.state
      PROVE  Sends(out')
  <2>1. RInv'
    BY <1>1, <1>3 DEF RInv
  <2>2. Now' \in Pairs /\ stored \in Objects \cup {0}
    BY <1>3 DEF Held, Book
  <2>3. Pending = out' \o Pending'
    BY <1>2, <1>3, <2>2, PendingIs
  <2>4. ValueIn(Now', stored') = ValueIn(Now, stored)
    BY <1>1, <1>3, <2>2, ValueStays
  <2>5. QED
    BY <1>3, <2>1, <2>3, <2>4 DEF Sends
<1>4. heap' = heap => Keeps(Now, Now', Owns(stored))
  BY <1>1 DEF Keeps
<1>5. ASSUME WriteBuffer PROVE Sends(out')
  <2>1. PICK n \in 1 .. Len(c.buf) - c.sentlen :
          /\ out' = SubSeq(c.buf, c.sentlen + 1, c.sentlen + n)
          /\ c' = IF c.sentlen + n = Len(c.buf) THEN [c EXCEPT !.buf = <<>>, !.sentlen = 0]
                  ELSE [c EXCEPT !.sentlen = c.sentlen + n]
          /\ tot' = tot + n
    BY <1>5 DEF WriteBuffer
  <2>2. c.buf # <<>> /\ heap' = heap
    BY <1>5 DEF WriteBuffer
  <2>3. Held(Now', stored, tot + n)
    <3>1. /\ Held(Now, stored, tot) /\ tot # -1
          /\ IsPair(Now, heap, c) /\ c.buf # <<>>
          /\ n \in 1 .. Len(c.buf) - c.sentlen
          /\ c' = IF c.sentlen + n = Len(c.buf) THEN [c EXCEPT !.buf = <<>>, !.sentlen = 0]
                  ELSE [c EXCEPT !.sentlen = c.sentlen + n]
          /\ IsPair(Now', heap, c')
      BY <1>1, <2>1, <2>2
    <3>2. QED
      BY <3>1, WriteBufferOK
  <2>4. n \in Nat /\ c.sentlen + n <= Len(c.buf)
    <3>1. n \in 1 .. Len(c.buf) - c.sentlen /\ Len(c.buf) \in Nat /\ c.sentlen \in Nat
      BY <1>2
    <3>2. QED
      BY ONLY <3>1
  <2>5. /\ c'.reply = c.reply /\ c'.state = c.state
        /\ IF c.sentlen + n = Len(c.buf) THEN c'.buf = <<>> /\ c'.sentlen = 0
           ELSE c'.buf = c.buf /\ c'.sentlen = c.sentlen + n
    <3>1. CASE c.sentlen + n = Len(c.buf)
      <4>1. c' = [c EXCEPT !.buf = <<>>, !.sentlen = 0]
        BY <3>1, <2>1
      <4>2. QED
        BY <3>1, <4>1, <1>2 DEF Clients
    <3>2. CASE c.sentlen + n # Len(c.buf)
      <4>1. c' = [c EXCEPT !.sentlen = c.sentlen + n]
        BY <3>2, <2>1
      <4>2. QED
        BY <3>2, <4>1, <1>2 DEF Clients
    <3>3. QED
      BY <3>1, <3>2
  <2>6. Text(Now) = out' \o Text(Now')
    <3>1. Now' \in Pairs
      BY <2>3 DEF Held, Book
    <3>2. Text(Now) = SubSeq(Now.c.buf, Now.c.sentlen + 1, Now.c.sentlen + n) \o Text(Now')
      BY <1>1, <1>2, <2>2, <2>4, <2>5, <3>1, BufferSent
    <3>3. QED
      BY <1>1, <2>1, <3>2
  <2>7. QED
    BY <1>3, <1>4, <2>1, <2>2, <2>3, <2>5, <2>6
<1>6. ASSUME WriteNode PROVE Sends(out')
  <2>1. c.buf = <<>> /\ c.reply # <<>>
    BY <1>6 DEF WriteNode
  <2>2. PICK n \in IF Head1.bytes = <<>> THEN {0} ELSE 1 .. Len(Head1.bytes) - c.sentlen :
          /\ out' = SubSeq(Head1.bytes, c.sentlen + 1, c.sentlen + n)
          /\ IF c.sentlen + n = Len(Head1.bytes)
             THEN DropHead
             ELSE c' = [c EXCEPT !.sentlen = c.sentlen + n] /\ UNCHANGED heap
          /\ tot' = tot + n
    BY <1>6 DEF WriteNode
  <2>3. First(Now) = Head1.bytes /\ Head1 = heap[c.reply[1]] /\ Head1.bytes \in Seq(Int)
    <3>1. First(Now) = Head1.bytes /\ Head1 = heap[c.reply[1]]
      BY <1>1, <2>1 DEF First, Nothing, Head1
    <3>2. First(Now) \in Seq(Int)
      BY <1>2, FirstType
    <3>3. QED
      BY <3>1, <3>2
  <2>4. n \in Nat /\ c.sentlen + n <= Len(Head1.bytes)
    <3>1. CASE Head1.bytes = <<>>
      <4>1. n = 0 /\ Len(Head1.bytes) = 0
        BY <3>1
      <4>2. QED
        BY <4>1, <1>2, <2>3
    <3>2. CASE Head1.bytes # <<>>
      <4>1. n \in 1 .. Len(Head1.bytes) - c.sentlen /\ Len(Head1.bytes) \in Nat
        BY <3>2, <2>3
      <4>2. QED
        BY <4>1, <1>2
    <3>3. QED
      BY <3>1, <3>2
  <2>5. ASSUME NEW l, l \in Pairs, l.heap = heap, l.c.reply = Tail(c.reply)
        PROVE  /\ Text(Now) = out' \o After(Full(Now), c.sentlen + n)
               /\ c.sentlen + n = Len(Head1.bytes) => After(Full(Now), c.sentlen + n) = Rest(l)
    <3>1. Now.c.sentlen + n <= Len(Now.heap[Now.c.reply[1]].bytes)
      BY <1>1, <2>3, <2>4
    <3>2. /\ Text(Now) = SubSeq(Now.heap[Now.c.reply[1]].bytes, Now.c.sentlen + 1, Now.c.sentlen + n)
                           \o After(Full(Now), Now.c.sentlen + n)
          /\ Now.c.sentlen + n = Len(Now.heap[Now.c.reply[1]].bytes)
               => After(Full(Now), Now.c.sentlen + n) = Rest(l)
      BY <1>1, <1>2, <2>1, <2>4, <2>5, <3>1, NodeSent
    <3>3. QED
      BY <1>1, <2>2, <2>3, <3>2
  <2>6. CASE c.sentlen + n = Len(Head1.bytes)
    <3>1. /\ heap' = decrRefCount(heap, c.reply[1])
          /\ c' = [c EXCEPT !.reply = Tail(c.reply), !.sentlen = 0,
                            !.reply_bytes = c.reply_bytes - Memory(heap[c.reply[1]])]
      BY <2>6, <2>2, <2>3 DEF DropHead
    <3>2. /\ Held(Now', stored, tot + n) /\ Keeps(Now, Now', Owns(stored)) /\ Now'.c.state = c.state
          /\ \E l \in Pairs : /\ l.heap = heap /\ l.c.reply = Tail(c.reply)
                             /\ Text(Now') = Rest(l)
      <4>1. /\ Held(Now, stored, tot) /\ tot # -1
            /\ IsPair(Now, heap, c) /\ c.buf = <<>> /\ c.reply # <<>> /\ n \in Nat
            /\ IsPair(Now', heap', c')
        BY <1>1, <2>1, <2>4
      <4>2. HeadDropped(Now, Now', stored, tot + n, heap, c)
        BY <3>1, <4>1, DropHeadOK
      <4>3. QED
        BY <4>2 DEF HeadDropped
    <3>3. PICK l \in Pairs : /\ l.heap = heap /\ l.c.reply = Tail(c.reply)
                            /\ Text(Now') = Rest(l)
      BY <3>2
    <3>4. Text(Now) = out' \o Text(Now')
      BY <2>5, <2>6, <3>3
    <3>5. QED
      BY <1>1, <1>3, <2>2, <3>2, <3>4
  <2>7. CASE c.sentlen + n # Len(Head1.bytes)
    <3>1. c' = [c EXCEPT !.sentlen = c.sentlen + n] /\ heap' = heap
      BY <2>7, <2>2
    <3>2. c.sentlen + n <= Len(heap[c.reply[1]].bytes)
      BY <2>3, <2>4
    <3>3. Held(Now', stored, tot + n)
      BY <1>1, <2>1, <2>4, <3>1, <3>2, WriteNodeOK
    <3>4. c'.buf = c.buf /\ c'.reply = c.reply /\ c'.state = c.state /\ c'.sentlen = c.sentlen + n
      BY <1>2, <3>1 DEF Clients
    <3>5. Text(Now') = After(Full(Now), c.sentlen + n)
      BY <1>1, <3>1, <3>4 DEF Text, Full, All, Parts
    <3>6. \E l \in Pairs : l.heap = Now.heap /\ l.c.reply = Tail(Now.c.reply)
      BY <1>1, <1>2, <2>1, TailPair
    <3>7. Text(Now) = out' \o Text(Now')
      BY <1>1, <2>5, <3>5, <3>6
    <3>8. QED
      BY <1>3, <1>4, <2>2, <3>1, <3>3, <3>4, <3>7
  <2>8. QED
    BY <2>6, <2>7
<1>7. QED
  BY <1>5, <1>6 DEF Write

\* The connection ends.
LEMMA FreeClientInv ==
  ASSUME RInv, NEW state, state \in {"closed", "lost"}, freeClient(state)
  PROVE  Drops(state)
<1>1. Book(Now, Owns(stored)) /\ HasLine(Now, Owns(stored)) /\ stored \in Objects \cup {0}
  BY DEF RInv, Held
<1>2. stored' = stored /\ tot' = -1
  BY DEF freeClient
<1>3. IsCleared(Now', Released(Now.heap, Now.c.reply), state)
  BY NowPairs DEF freeClient, IsCleared, Cleared
<1>4. state \in States
  BY DEF States
<1>5. /\ Book(Now', Owns(stored)) /\ Keeps(Now, Now', Owns(stored))
      /\ Nothing(Now') /\ Now'.c.state = state
  BY <1>1, <1>3, <1>4, ReleaseOK
<1>6. HasLine(Now', Owns(stored))
  BY <1>1, <1>5, LineStays
<1>7. ~ Open(Now')
  BY <1>5 DEF Open
<1>8. Held(Now', stored, -1)
  BY <1>1, <1>5, <1>6, <1>7 DEF Held
<1>9. RInv'
  BY <1>2, <1>8 DEF RInv
<1>10. Pending' = <<>>
  BY <1>5, PendingIs, NothingLeft DEF Book
<1>11. ValueIn(Now', stored') = ValueIn(Now, stored)
  BY <1>1, <1>2, <1>5, ValueStays
<1>12. c'.state = state
  BY <1>5 DEF Now
<1>13. QED
  BY <1>9, <1>10, <1>11, <1>12 DEF Drops

\* The handler is over, and the connection stays.
LEMMA WriteOverInv ==
  ASSUME RInv, tot # -1, tot' = -1, heap' = heap, stored' = stored,
         c' = IF Nothing(Now) THEN [c EXCEPT !.sentlen = 0, !.handler = FALSE] ELSE c
  PROVE  Pauses
<1>1. /\ Held(Now, stored, tot)
      /\ IsPair(Now, heap, c) /\ IsPair(Now', heap, c')
      /\ Now.heap = heap /\ Now.c = c /\ Now'.heap = heap /\ Now'.c = c'
  BY NowPairs DEF RInv, Now
<1>2. Held(Now', stored, -1)
  BY <1>1, WriteEndOK
<1>3. RInv'
  BY <1>2 DEF RInv
<1>4. Now \in Pairs /\ Now' \in Pairs /\ c \in Clients
  BY <1>1, <1>2 DEF Held, Book, Pairs
<1>5. CASE Nothing(Now)
  <2>1. c' = [c EXCEPT !.sentlen = 0, !.handler = FALSE]
    BY <1>5
  <2>2. c'.buf = c.buf /\ c'.reply = c.reply /\ c'.state = c.state
    BY <1>4, <2>1 DEF Clients
  <2>3. Nothing(Now')
    BY <1>1, <1>5, <2>2 DEF Nothing
  <2>4. Pending' = Pending
    BY <1>4, <1>5, <2>3, PendingIs, NothingLeft
  <2>5. ValueIn(Now', stored') = ValueIn(Now, stored)
    BY <1>1 DEF ValueIn
  <2>6. QED
    BY <1>3, <2>2, <2>4, <2>5 DEF Pauses
<1>6. CASE ~ Nothing(Now)
  <2>1. c' = c
    BY <1>6
  <2>2. Now' = Now
    BY <2>1 DEF Now
  <2>3. Pending' = Pending
    BY <1>4, <2>2, PendingIs
  <2>4. QED
    BY <1>3, <2>1, <2>2, <2>3 DEF Pauses
<1>7. QED
  BY <1>5, <1>6

\* The handler is over.
LEMMA WriteEndInv ==
  ASSUME RInv, WriteEnd
  PROVE  \/ Pauses
         \/ c.state = "closing" /\ Pending = <<>> /\ Drops("closed")
<1>1. CASE Nothing(Now) /\ c.state = "closing" /\ freeClient("closed")
  <2>1. Drops("closed")
    BY <1>1, FreeClientInv
  <2>2. Now \in Pairs
    BY DEF RInv, Held, Book
  <2>3. Pending = <<>>
    BY <1>1, <2>2, PendingIs, NothingLeft
  <2>4. QED
    BY <1>1, <2>1, <2>3
<1>2. CASE /\ c' = IF Nothing(Now) THEN [c EXCEPT !.sentlen = 0, !.handler = FALSE] ELSE c
           /\ tot' = -1 /\ heap' = heap /\ stored' = stored
  BY <1>2, WriteOverInv DEF WriteEnd
<1>3. QED
  BY <1>1, <1>2 DEF WriteEnd

\* A client with nothing to be sent.
LEMMA NewClientIs == Cleared("open") = NewClient
  BY DEF Cleared, NewClient

\* The next connection.
LEMMA AcceptInv ==
  ASSUME RInv, Accept
  PROVE  /\ RInv' /\ Pending' = Pending
         /\ ValueIn(Now', stored') = ValueIn(Now, stored)
<1>1. /\ Book(Now, Owns(stored)) /\ HasLine(Now, Owns(stored)) /\ stored \in Objects \cup {0}
      /\ Nothing(Now) /\ tot = -1
  BY NowPairs DEF RInv, Held, Accept, Alive, Open
<1>2. stored' = stored /\ tot' = tot /\ heap' = heap /\ c' = NewClient
  BY DEF Accept
<1>3. IsCleared(Now', Now.heap, "open")
  BY <1>2, NowPairs, NewClientIs DEF IsCleared
<1>4. "open" \in States
  BY DEF States
<1>5. /\ Book(Now', Owns(stored)) /\ Keeps(Now, Now', Owns(stored))
      /\ Nothing(Now') /\ Blank(Now', Now.heap, "open")
  BY <1>1, <1>3, <1>4, BlankOK
<1>6. HasLine(Now', Owns(stored))
  BY <1>1, <1>5, LineStays
<1>7. Held(Now', stored, -1)
  BY <1>1, <1>5, <1>6 DEF Held, Open, Blank
<1>8. RInv'
  BY <1>1, <1>2, <1>7 DEF RInv
<1>9. Pending' = Pending
  BY <1>1, <1>5, PendingIs, NothingLeft DEF Book
<1>10. ValueIn(Now', stored') = ValueIn(Now, stored)
  BY <1>1, <1>2, <1>5, ValueStays
<1>11. QED
  BY <1>8, <1>9, <1>10

-----------------------------------------------------------------------------
(* The theorems.                                                           *)

\* At first only the shared object is there.
LEMMA InitInv ==
  ASSUME Init
  PROVE  RInv
<1>1. /\ heap = [o \in Objects |-> IF o = shared THEN Single("raw", <<Line>>) ELSE Free]
      /\ stored = 0 /\ c = NewClient /\ tot = -1
  BY DEF Init, Single
<1>2. shared \in Objects
  BY ObjectsAssumption
<1> DEFINE y == Single("raw", <<Line>>)
<1>3. y \in Object /\ y.refs = 1 /\ y.enc = "raw" /\ y.bytes = <<Line>>
  <2>1. <<Line>> \in Seq(Int)
    BY DEF Line
  <2>2. QED
    BY <2>1, SingleIs
<1> HIDE DEF y
<1>4. Free \in Object /\ Free.refs = 0 /\ Free.enc # "int"
  BY DEF Free, Object
<1>5. heap \in Heaps /\ \A o \in Objects : heap[o] = IF o = shared THEN y ELSE Free
  BY <1>1, <1>3, <1>4 DEF y, Heaps
<1>6. IsCleared(Now, heap, "open")
  BY <1>1, NowPairs, NewClientIs DEF IsCleared
<1>7. Now \in Pairs /\ Blank(Now, heap, "open")
  <2>1. "open" \in States
    BY DEF States
  <2>2. QED
    BY <1>5, <1>6, <2>1, ClearedIs
<1>8. Nothing(Now) /\ Now.heap = heap /\ Now.c.reply = <<>> /\ Now.c.reply_bytes = 0
      /\ Now.c.sentlen = 0 /\ Now.c.buf = <<>>
  BY <1>7 DEF Nothing, Blank
<1>9. \A o \in Objects : Owns(0)[o] = IF o = shared THEN 1 ELSE 0
  BY ObjectsAssumption DEF Owns
<1>10. Owns(0) \in [Objects -> Nat]
  BY OwnsIs
<1>11. IsFiniteSet(Used(heap))
  <2>1. Used(heap) \subseteq {shared}
    BY <1>4, <1>5 DEF Used
  <2>2. IsFiniteSet({shared})
    BY FS_Singleton
  <2>3. QED
    BY <2>1, <2>2, FS_Subset
<1>12. ASSUME NEW o \in Objects
       PROVE  /\ heap[o].refs = RefsIn(<<>>, o) + Owns(0)[o]
              /\ heap[o].refs = 0 => heap[o] = Free
              /\ heap[o].enc = "int" => heap[o].bytes \in Numbers
  <2>1. RefsIn(<<>>, o) = 0
    BY RefsInNothing
  <2>2. heap[o].refs = 0 + Owns(0)[o]
    BY <1>3, <1>4, <1>5, <1>9
  <2>3. heap[o].refs = 0 => heap[o] = Free
    BY <1>3, <1>4, <1>5
  <2>4. heap[o].enc # "int"
    BY <1>3, <1>4, <1>5
  <2>5. QED
    BY <2>1, <2>2, <2>3, <2>4
<1>13. Book(Now, Owns(0))
  <2>1. Takes(heap, <<>>, 0)
    BY TakesNothing
  <2>2. Len(Now.c.buf) <= Chunk /\ Now.c.sentlen <= Len(First(Now))
    <3>1. Len(Now.c.buf) = 0 /\ Len(First(Now)) = 0
      BY <1>8 DEF First
    <3>2. QED
      BY <3>1, <1>8, SizesAssumption
  <2>3. QED
    BY <2>1, <2>2, <1>7, <1>8, <1>10, <1>11, <1>12 DEF Book
<1>14. HasLine(Now, Owns(0))
  BY <1>2, <1>3, <1>5, <1>8, <1>9 DEF HasLine
<1>15. Held(Now, 0, -1)
  BY <1>7, <1>8, <1>13, <1>14 DEF Held, Blank, Open
<1>16. QED
  BY <1>1, <1>15 DEF RInv

\* A step of any kind.
LEMMA NextInv ==
  ASSUME MemoryUnbounded, RInv, [Next]_vars
  PROVE  RInv'
<1>1. CASE Get
  BY <1>1, GetInv DEF Answers
<1>2. CASE Del
  BY <1>2, DelInv DEF Answers
<1>3. CASE Quit
  BY <1>3, QuitInv DEF Answers
<1>4. CASE ProtocolError
  BY <1>4, ProtocolErrorInv DEF Answers
<1>5. ASSUME NEW v, v \in Values, Set(v) \/ AppendTo(v) \/ Find(v)
      PROVE  RInv'
  BY <1>5, SetInv, AppendInv, FindInv DEF Answers, Appended
<1>6. ASSUME NEW n, n \in 0 .. MaxKeys, NEW items, items \in [1 .. n -> Values], Keys(items)
      PROVE  RInv'
  <2>1. n \in Nat
    BY <1>6
  <2>2. QED
    BY <2>1, <1>6, KeysInv DEF Answers
<1>7. CASE WriteStart
  BY <1>7, WriteStartInv DEF Pauses
<1>8. CASE Write
  BY <1>8, WriteInv DEF Sends
<1>9. CASE WriteEnd
  BY <1>9, WriteEndInv DEF Pauses, Drops
<1>10. CASE Lose
  <2>1. freeClient("lost") /\ "lost" \in {"closed", "lost"}
    BY <1>10 DEF Lose
  <2>2. QED
    BY <2>1, FreeClientInv DEF Drops
<1>11. CASE Accept
  BY <1>11, AcceptInv
<1>12. CASE UNCHANGED vars
  <2>1. Now' = Now /\ stored' = stored /\ tot' = tot
    BY <1>12 DEF vars, Now
  <2>2. QED
    BY <2>1 DEF RInv
<1>13. QED
  BY <1>1, <1>2, <1>3, <1>4, <1>5, <1>6, <1>7, <1>8, <1>9, <1>10, <1>11, <1>12 DEF Next

\* The invariant holds always, with any values, sizes and bounds.
THEOREM Invariance ==
  ASSUME MemoryUnbounded
  PROVE  Spec => []RInv
<1>1. Init => RInv
  BY InitInv
<1>2. RInv /\ [Next]_vars => RInv'
  BY NextInv
<1>3. QED
  BY <1>1, <1>2, PTL DEF Spec

\* The variables keep their types, and sentlen never runs over what is sent.
THEOREM TypeCorrect ==
  ASSUME MemoryUnbounded
  PROVE  Spec => []TypeOK
<1>1. ASSUME RInv PROVE TypeOK
  <2>1. /\ Held(Now, stored, tot) /\ IsPair(Now, heap, c) /\ Now.heap = heap /\ Now.c = c
    BY <1>1, NowPairs DEF RInv
  <2>2. stored \in Objects \cup {0} /\ tot \in Nat \cup {-1}
    BY <2>1 DEF Held
  <2>3. /\ c \in Clients /\ heap \in Heaps
        /\ c.buf \in Seq(Int) /\ c.reply \in Seq(Objects) /\ c.sentlen \in Nat
        /\ c.handler \in {TRUE, FALSE} /\ c.state \in States /\ Len(c.buf) <= Chunk
        /\ c.sentlen <= Len(First(Now)) /\ Now \in Pairs
    <3>1. Held(Now, stored, tot) /\ IsPair(Now, heap, c)
      BY <2>1
    <3>2. Now \in Pairs
      BY <2>1 DEF Held, Book
    <3>3. QED
      BY <3>1, <3>2, HeldTypes
  <2>4. First(Now) = IF Nothing(Now) THEN <<>> ELSE IF c.buf # <<>> THEN c.buf ELSE Head1.bytes
    BY <2>1 DEF First, Head1
  <2>5. Len(First(Now)) \in Nat
    BY <2>3, FirstType
  <2>6. c.reply_bytes \in Int
    BY <2>3 DEF Clients
  <2>7. c.sentlen \in 0 .. Len(First(Now))
    BY <2>3, <2>5
  <2>8. c.handler \in BOOLEAN
    BY <2>3
  <2>9. QED
    BY <2>2, <2>3, <2>4, <2>6, <2>7, <2>8 DEF TypeOK, Heaps, Object, States
<1>2. RInv => TypeOK
  BY <1>1
<1>3. QED
  BY <1>2, Invariance, PTL

\* decrRefCount frees an object exactly when nothing refers to it any more,
\* through every way that a reply is built, copied, glued, sent and dropped.
THEOREM RefsCorrect ==
  ASSUME MemoryUnbounded
  PROVE  Spec => []RefsExact
<1>1. ASSUME RInv PROVE RefsExact
  <2>1. Book(Now, Owns(stored)) /\ Now.heap = heap /\ Now.c = c
    BY <1>1, NowPairs DEF RInv, Held
  <2>2. ASSUME NEW o \in Objects
        PROVE  heap[o].refs = RefsIn(c.reply, o)
                 + (IF stored = o THEN 1 ELSE 0) + (IF o = shared THEN 1 ELSE 0)
    <3>1. heap[o].refs = RefsIn(c.reply, o) + Owns(stored)[o]
      BY <2>1 DEF Book
    <3>2. Owns(stored)[o] = (IF stored = o THEN 1 ELSE 0) + (IF o = shared THEN 1 ELSE 0)
      BY DEF Owns
    <3>3. RefsIn(c.reply, o) \in Nat
      BY <2>1, BookTypes
    <3>4. QED
      BY <3>1, <3>2, <3>3
  <2>3. QED
    BY <2>2 DEF RefsExact
<1>2. RInv => RefsExact
  BY <1>1
<1>3. QED
  BY <1>2, Invariance, PTL

\* reply_bytes is the memory of the nodes of the list, so that the assertion
\* on it never fails and the limits that read it read the truth.
THEOREM AccountCorrect ==
  ASSUME MemoryUnbounded
  PROVE  Spec => []AccountExact
<1>1. ASSUME RInv PROVE AccountExact
  <2>1. Book(Now, Owns(stored)) /\ Now.heap = heap /\ Now.c = c
    BY <1>1, NowPairs DEF RInv, Held
  <2>2. Takes(heap, c.reply, c.reply_bytes) /\ c.reply \in Seq(Objects)
    BY <2>1, BookTypes DEF Book
  <2>3. QED
    BY <2>2, TakesSum DEF AccountExact
<1>2. RInv => AccountExact
  BY <1>1
<1>3. QED
  BY <1>2, Invariance, PTL

\* Between two runs of the write handler it is installed exactly while
\* something waits to be sent.
THEOREM HandlerCorrect ==
  ASSUME MemoryUnbounded
  PROVE  Spec => []HandlerIffPending
<1>1. ASSUME RInv PROVE HandlerIffPending
  <2>1. Held(Now, stored, tot) /\ IsPair(Now, heap, c) /\ Now.heap = heap /\ Now.c = c
    BY <1>1, NowPairs DEF RInv
  <2>2. c.handler \in {TRUE, FALSE}
    <3>1. Held(Now, stored, tot) /\ IsPair(Now, heap, c)
      BY <2>1
    <3>2. QED
      BY <3>1, HeldTypes
  <2>3. tot = -1 /\ Open(Now) => (c.handler = TRUE <=> ~ Nothing(Now))
    BY <2>1 DEF Held
  <2>4. Alive <=> Open(Now)
    BY <2>1 DEF Alive, Open
  <2>5. QED
    BY <2>2, <2>3, <2>4 DEF HandlerIffPending
<1>2. RInv => HandlerIffPending
  BY <1>1
<1>3. QED
  BY <1>2, Invariance, PTL

-----------------------------------------------------------------------------
(* The stream.                                                             *)

\* The key holds a string: no line of the protocol is one of its bytes.
SInv == stored # 0 => ValueIn(Now, stored) \in Seq(Nat)

\* The value of the stream, ...
StreamValue == IF stored = 0 THEN <<Line>> ELSE heap[stored].bytes

\* ... and that there is one.
LEMMA ValueIs ==
  /\ StreamValue = ValueIn(Now, stored)
  /\ StreamValue' = ValueIn(Now', stored')
  /\ StreamValue = Stream!NoValue <=> stored = 0 \/ ValueIn(Now, stored) = OneLine
  /\ stored = 0 => StreamValue = OneLine
  /\ stored # 0 => StreamValue = heap[stored].bytes
<1>1. Now.heap = heap /\ Now'.heap = heap'
  BY DEF Now
<1>2. /\ StreamValue = ValueIn(Now, stored)
      /\ StreamValue' = ValueIn(Now', stored')
  BY <1>1 DEF StreamValue, ValueIn, OneLine
<1>3. Stream!NoValue = OneLine
  BY DEF Stream!NoValue, Stream!Line, OneLine, Line
<1>4. stored = 0 => StreamValue = OneLine
  BY DEF StreamValue, OneLine
<1>5. stored # 0 => StreamValue = heap[stored].bytes
  BY DEF StreamValue
<1>6. QED
  BY <1>2, <1>3, <1>4, <1>5

\* A string is not a line.
LEMMA StringIs ==
  ASSUME NEW v, v \in Seq(Nat)
  PROVE  v # OneLine
<1>1. OneLine = <<-1>>
  BY DEF OneLine, Line
<1>2. ASSUME v = OneLine PROVE FALSE
  <2>1. v[1] = -1 /\ Len(v) = 1
    BY <1>1, <1>2
  <2>2. v[1] \in Nat
    BY <2>1
  <2>3. QED
    BY <2>1, <2>2
<1>3. QED
  BY <1>2

\* There is a value exactly when there is an object for it.
LEMMA NoValueIs ==
  ASSUME SInv
  PROVE  StreamValue = Stream!NoValue <=> stored = 0
  BY ValueIs, StringIs DEF SInv

\* Three lines, one behind the other.
LEMMA ThreeIs ==
  ASSUME NEW x, x \in Int
  PROVE  <<x>> \o <<x>> \o <<x>> = <<x, x, x>>
<1>1. ASSUME NEW u, u \in Seq(Int), NEW v, v \in Seq(Int), Len(u) = Len(v),
             \A i \in 1 .. Len(u) : u[i] = v[i]
      PROVE  u = v
  BY <1>1, SeqEqual
<1>2. PICK two : two = <<x, x>>
  OBVIOUS
<1>3. two \in Seq(Int) /\ Len(two) = 2 /\ two[1] = x /\ two[2] = x
  BY <1>2
<1>4. PICK three : three = <<x, x, x>>
  OBVIOUS
<1>5. three \in Seq(Int) /\ Len(three) = 3 /\ three[1] = x /\ three[2] = x /\ three[3] = x
  BY <1>4
<1>6. <<x>> \o <<x>> = two
  <2> DEFINE u == <<x>> \o <<x>>
  <2>1. u \in Seq(Int) /\ Len(u) = 2 /\ u[1] = x /\ u[2] = x
    BY ConcatProperties
  <2> HIDE DEF u
  <2>2. \A i \in 1 .. Len(u) : u[i] = two[i]
    BY <1>3, <2>1
  <2>3. QED
    BY <1>1, <1>3, <2>1, <2>2 DEF u
<1>7. two \o <<x>> = three
  <2> DEFINE u == two \o <<x>>
  <2>1. u \in Seq(Int) /\ Len(u) = 3 /\ u[1] = x /\ u[2] = x /\ u[3] = x
    <3>1. PICK one : one = <<x>>
      OBVIOUS
    <3>2. one \in Seq(Int) /\ Len(one) = 1 /\ one[1] = x
      BY <3>1
    <3>3. /\ two \o one \in Seq(Int) /\ Len(two \o one) = Len(two) + Len(one)
          /\ \A i \in 1 .. Len(two) + Len(one) :
               (two \o one)[i] = IF i <= Len(two) THEN two[i] ELSE one[i - Len(two)]
      BY ONLY <1>3, <3>2, ConcatProperties
    <3>4. QED
      BY <1>3, <3>1, <3>2, <3>3
  <2> HIDE DEF u
  <2>2. \A i \in 1 .. Len(u) : u[i] = three[i]
    <3>1. \A i \in 1 .. 3 : i = 1 \/ i = 2 \/ i = 3
      OBVIOUS
    <3>2. QED
      BY <1>5, <2>1, <3>1
  <2>3. QED
    BY <1>1, <1>5, <2>1, <2>2 DEF u
<1>8. QED
  BY <1>4, <1>6, <1>7

\* The lines of the stream are those of the replies.
LEMMA StreamLines ==
  /\ <<Stream!Line>> = OneLine
  /\ \A v : Stream!Bulk(v) = BulkLines(v)
  /\ \A k : <<Stream!Count(k)>> = CountLine(k)
  /\ Stream!ErrorLines = ErrorIs
  /\ \A list : Stream!FlattenSeq(list) = FlattenSeq(list)
<1>1. Stream!Line = Line /\ \A k : Stream!Count(k) = Count(k)
  BY DEF Stream!Line, Line, Stream!Count, Count
<1>2. Stream!ErrorLines = ErrorIs
  <2>1. <<Line>> \o <<Line>> \o <<Line>> = <<Line, Line, Line>>
    BY ThreeIs DEF Line
  <2>2. QED
    BY <1>1, <2>1 DEF Stream!ErrorLines, ErrorIs, OneLine
<1>3. \A list : Stream!FlattenSeq(list) = FlattenSeq(list)
  BY DEF Stream!FlattenSeq, FlattenSeq
<1>4. QED
  BY <1>1, <1>2, <1>3 DEF Stream!Bulk, BulkLines, OneLine, CountLine

\* A command of the stream has replied.
LEMMA StreamSays ==
  ASSUME Command, NEW v, NEW x, NEW st, Answers(v, x, st)
  PROVE  /\ Stream!Says(v) /\ StreamValue' = x /\ c'.state = st
         /\ c.state = "open"
<1>1. out' = <<>> /\ c.state = "open"
  BY DEF Command
<1>2. Stream!Says(v)
  BY <1>1 DEF Answers, Stream!Says
<1>3. QED
  BY <1>1, <1>2, ValueIs DEF Answers

\* GET, DEL, the commands that find something elsewhere, QUIT, an error.
LEMMA StreamReads ==
  ASSUME MemoryUnbounded, RInv, SInv
  PROVE  /\ Get => Stream!Get
         /\ Quit => Stream!Quit
         /\ ProtocolError => Stream!ProtocolError
         /\ \A v \in Values : Find(v) => Stream!Find(v)
<1>1. ASSUME Get PROVE Stream!Get
  <2>1. PICK v : Found(v) /\ Answers(v, ValueIn(Now, stored), "open")
    BY <1>1, GetInv
  <2>2. Command
    BY <1>1 DEF Get
  <2>3. Stream!Says(v) /\ StreamValue' = StreamValue /\ c'.state = c.state
    BY <2>1, <2>2, StreamSays, ValueIs
  <2>4. v = IF StreamValue = Stream!NoValue THEN <<Stream!Line>> ELSE Stream!Bulk(StreamValue)
    BY <2>1, NoValueIs, ValueIs, StreamLines DEF Found
  <2>5. QED
    BY <2>3, <2>4 DEF Stream!Get, StreamValue
<1>2. ASSUME Quit PROVE Stream!Quit
  <2>1. Command
    BY <1>2 DEF Quit
  <2>2. Stream!Says(OneLine) /\ StreamValue' = StreamValue /\ c'.state = "closing"
    BY <1>2, <2>1, QuitInv, StreamSays, ValueIs
  <2>3. QED
    BY <2>2, StreamLines DEF Stream!Quit, StreamValue
<1>3. ASSUME ProtocolError PROVE Stream!ProtocolError
  <2>1. Command
    BY <1>3 DEF ProtocolError
  <2>2. Stream!Says(ErrorIs) /\ StreamValue' = StreamValue /\ c'.state = "closing"
    BY <1>3, <2>1, ProtocolErrorInv, StreamSays, ValueIs
  <2>3. QED
    BY <2>2, StreamLines DEF Stream!ProtocolError, StreamValue
<1>4. ASSUME NEW v, v \in Values, Find(v) PROVE Stream!Find(v)
  <2>1. Command
    BY <1>4 DEF Find
  <2>2. Stream!Says(BulkLines(v)) /\ StreamValue' = StreamValue /\ c'.state = c.state
    BY <1>4, <2>1, FindInv, StreamSays, ValueIs
  <2>3. QED
    BY <2>2, StreamLines DEF Stream!Find, StreamValue
<1>5. QED
  BY <1>1, <1>2, <1>3, <1>4

\* SET, DEL, APPEND.
LEMMA StreamWrites ==
  ASSUME MemoryUnbounded, RInv, SInv
  PROVE  /\ Del => Stream!Del
         /\ \A v \in Values : Set(v) => Stream!Set(v)
         /\ \A v \in Values : AppendTo(v) => Stream!AppendTo(v)
<1>1. ASSUME Del PROVE Stream!Del
  <2>1. Command
    BY <1>1 DEF Del
  <2>2. Stream!Says(OneLine) /\ StreamValue' = OneLine /\ c'.state = c.state
    BY <1>1, <2>1, DelInv, StreamSays
  <2>3. OneLine = Stream!NoValue
    BY StreamLines DEF Stream!NoValue
  <2>4. QED
    BY <2>2, <2>3, StreamLines DEF Stream!Del, StreamValue
<1>2. ASSUME NEW v, v \in Values, Set(v) PROVE Stream!Set(v)
  <2>1. Command
    BY <1>2 DEF Set
  <2>2. Stream!Says(OneLine) /\ StreamValue' = v /\ c'.state = c.state
    BY <1>2, <2>1, SetInv, StreamSays
  <2>3. QED
    BY <2>2, StreamLines DEF Stream!Set, StreamValue
<1>3. ASSUME NEW v, v \in Values, AppendTo(v) PROVE Stream!AppendTo(v)
  <2> DEFINE full == StreamValue # Stream!NoValue /\ Len(StreamValue) + Len(v) > MaxLen
             longer == IF StreamValue = Stream!NoValue THEN v ELSE StreamValue \o v
  <2>1. Command /\ Appended(v)
    BY <1>3, AppendInv DEF AppendTo
  <2>2. CASE /\ stored # 0 /\ Len(heap[stored].bytes) + Len(v) > MaxLen
             /\ Answers(ErrorIs, ValueIn(Now, stored), "open")
    <3>1. Stream!Says(Stream!ErrorLines) /\ StreamValue' = StreamValue /\ c'.state = c.state
      BY <2>1, <2>2, StreamSays, ValueIs, StreamLines
    <3>2. full
      BY <2>2, NoValueIs, ValueIs
    <3>3. QED
      BY <3>1, <3>2 DEF Stream!AppendTo, StreamValue
  <2>3. CASE stored = 0 /\ Answers(OneLine, v, "open")
    <3>1. Stream!Says(<<Stream!Line>>) /\ StreamValue' = v /\ c'.state = c.state
      BY <2>1, <2>3, StreamSays, StreamLines
    <3>2. ~ full /\ longer = v
      BY <2>3, NoValueIs
    <3>3. QED
      BY <3>1, <3>2 DEF Stream!AppendTo, StreamValue
  <2>4. CASE /\ stored # 0 /\ Len(heap[stored].bytes) + Len(v) <= MaxLen
             /\ Answers(OneLine, heap[stored].bytes \o v, "open")
    <3>1. /\ Stream!Says(<<Stream!Line>>) /\ StreamValue' = heap[stored].bytes \o v
          /\ c'.state = c.state
      BY <2>1, <2>4, StreamSays, StreamLines
    <3>2. StreamValue # Stream!NoValue /\ StreamValue = heap[stored].bytes
      BY <2>4, NoValueIs, ValueIs
    <3>3. ~ full /\ longer = heap[stored].bytes \o v
      <4>1. Len(heap[stored].bytes) \in Nat /\ Len(v) \in Nat /\ MaxLen \in Nat
        <5>1. StreamValue \in Seq(Nat) /\ v \in Seq(Nat)
          BY <1>3, <2>4, ValueIs, SizesAssumption DEF SInv
        <5>2. QED
          BY <3>2, <5>1, SizesAssumption
      <4>2. QED
        BY <2>4, <3>2, <4>1
    <3>4. QED
      BY <3>1, <3>3 DEF Stream!AppendTo, StreamValue
  <2>5. QED
    BY <2>1, <2>2, <2>3, <2>4 DEF Appended
<1>4. QED
  BY <1>1, <1>2, <1>3

\* KEYS.
LEMMA StreamKeys ==
  ASSUME MemoryUnbounded, RInv, NEW n, n \in Nat, NEW items, items \in [1 .. n -> Values],
         Keys(items)
  PROVE  Stream!Keys(items)
<1> DEFINE v == CountLine(Len(items)) \o FlattenSeq(Bulks(items))
           list == [i \in DOMAIN items |-> Stream!Bulk(items[i])]
<1>1. Command
  BY DEF Keys
<1>2. Stream!Says(v) /\ StreamValue' = StreamValue /\ c'.state = c.state
  BY <1>1, KeysInv, StreamSays, ValueIs
<1>3. Bulks(items) = list
  <2>1. DOMAIN items = 1 .. Len(items)
    <3>1. items \in Seq(Values)
      OBVIOUS
    <3>2. QED
      BY <3>1
  <2>2. QED
    BY <2>1, StreamLines DEF Bulks
<1>4. v = <<Stream!Count(Len(items))>> \o FlattenSeq(list)
  BY <1>3, StreamLines
<1> HIDE DEF v, list
<1>5. Stream!Says(<<Stream!Count(Len(items))>> \o Stream!FlattenSeq(list))
  BY <1>2, <1>4, StreamLines
<1>6. (StreamValue)' = StreamValue /\ c'.state = c.state
  BY <1>2
<1>7. QED
  BY <1>5, <1>6, Zenon DEF Stream!Keys, StreamValue, list

\* The handler and the connection.
LEMMA StreamMoves ==
  ASSUME RInv
  PROVE  /\ WriteStart => Stream!Pause
         /\ Write => Stream!Send \/ Stream!Pause
         /\ WriteEnd => Stream!Close \/ Stream!Pause
         /\ Lose => Stream!Lose
         /\ Accept => Stream!Accept
<1>1. ASSUME Pauses, out' = <<>> PROVE Stream!Pause
  <2>1. StreamValue' = StreamValue
    BY <1>1, ValueIs DEF Pauses
  <2>2. QED
    BY <1>1, <2>1 DEF Pauses, Stream!Pause, StreamValue
<1>2. WriteStart => Stream!Pause
  BY <1>1, WriteStartInv DEF WriteStart
<1>3. ASSUME Write PROVE Stream!Send \/ Stream!Pause
  <2>1. Sends(out') /\ c.state \in {"open", "closing"}
    <3>1. Held(Now, stored, tot) /\ tot # -1
      BY <1>3 DEF RInv, Write
    <3>2. QED
      BY <1>3, <3>1, WriteInv DEF Held, Open, Now
  <2>2. StreamValue' = StreamValue
    BY <2>1, ValueIs DEF Sends
  <2>3. CASE out' # <<>>
    <3>1. Stream!Send
      BY <2>1, <2>2, <2>3 DEF Sends, Stream!Send, StreamValue
    <3>2. QED
      BY <3>1
  <2>4. CASE out' = <<>>
    <3>1. Pending' \in Seq(Int)
      <4>1. Now' \in Pairs
        BY <2>1 DEF Sends, RInv, Held, Book
      <4>2. PICK l : l = Now'
        OBVIOUS
      <4>3. Left(l) \in Seq(Int)
        BY <4>1, <4>2, LeftType
      <4>4. QED
        BY <4>1, <4>2, <4>3, LeftIs, PendingIs
    <3>2. Pending' = Pending
      BY <2>1, <2>4, <3>1, Chains DEF Sends
    <3>3. Stream!Pause
      BY <2>1, <2>2, <2>4, <3>2 DEF Sends, Stream!Pause, StreamValue
    <3>4. QED
      BY <3>3
  <2>5. QED
    BY <2>3, <2>4
<1>4. ASSUME WriteEnd PROVE Stream!Close \/ Stream!Pause
  <2>1. out' = <<>>
    BY <1>4 DEF WriteEnd, freeClient
  <2>2. CASE Pauses
    BY <1>1, <2>1, <2>2
  <2>3. CASE c.state = "closing" /\ Pending = <<>> /\ Drops("closed")
    <3>1. StreamValue' = StreamValue
      BY <2>3, ValueIs DEF Drops
    <3>2. Stream!Close
      BY <2>1, <2>3, <3>1 DEF Drops, Stream!Close, StreamValue
    <3>3. QED
      BY <3>2
  <2>4. QED
    BY <1>4, <2>2, <2>3, WriteEndInv
<1>5. ASSUME Lose PROVE Stream!Lose
  <2>1. Drops("lost") /\ out' = <<>> /\ c.state \in {"open", "closing"}
    <3>1. freeClient("lost") /\ "lost" \in {"closed", "lost"}
      BY <1>5 DEF Lose
    <3>2. out' = <<>> /\ c.state \in {"open", "closing"}
      BY <1>5, <3>1 DEF Lose, Alive, freeClient
    <3>3. QED
      BY <3>1, <3>2, FreeClientInv
  <2>2. StreamValue' = StreamValue
    BY <2>1, ValueIs DEF Drops
  <2>3. QED
    BY <2>1, <2>2 DEF Drops, Stream!Lose, StreamValue
<1>6. ASSUME Accept PROVE Stream!Accept
  <2>1. out' = <<>> /\ c'.state = "open" /\ ~ Alive
    BY <1>6 DEF Accept, NewClient
  <2>2. Pending' = Pending /\ StreamValue' = StreamValue
    BY <1>6, AcceptInv, ValueIs
  <2>3. c.state \in {"closed", "lost"}
    <3>1. Held(Now, stored, tot) /\ IsPair(Now, heap, c)
      BY NowPairs DEF RInv
    <3>2. c.state \in States
      BY <3>1, HeldTypes
    <3>3. QED
      BY <2>1, <3>2 DEF Alive, States
  <2>4. QED
    BY <2>1, <2>2, <2>3 DEF Stream!Accept, StreamValue
<1>7. QED
  BY <1>2, <1>3, <1>4, <1>5, <1>6

\* At first there is nothing, here and there.
LEMMA StreamInit ==
  ASSUME Init
  PROVE  SInv /\ Stream!Init
<1>1. stored = 0 /\ c = NewClient /\ out = <<>> /\ RInv
  BY InitInv DEF Init
<1>2. SInv
  BY <1>1 DEF SInv
<1>3. StreamValue = Stream!NoValue
  BY <1>1, <1>2, NoValueIs
<1>4. Pending = <<>>
  <2>1. c.buf = <<>> /\ c.reply = <<>> /\ c.state = "open"
    BY <1>1 DEF NewClient
  <2>2. Nothing(Now) /\ Now \in Pairs
    BY <1>1, <2>1 DEF Nothing, Now, RInv, Held, Book
  <2>3. QED
    BY <2>2, PendingIs, NothingLeft
<1>5. c.state = "open"
  BY <1>1 DEF NewClient
<1>6. QED
  BY <1>1, <1>2, <1>3, <1>4, <1>5 DEF Stream!Init, StreamValue

\* What the key holds stays a string.
LEMMA StringNext ==
  ASSUME MemoryUnbounded, RInv, SInv, [Next]_vars
  PROVE  SInv'
<1>1. ASSUME stored' = stored, ValueIn(Now', stored') = ValueIn(Now, stored) PROVE SInv'
  BY <1>1 DEF SInv
<1>2. ASSUME ValueIn(Now', stored') \in Seq(Nat) PROVE SInv'
  BY <1>2 DEF SInv
<1>3. CASE Get
  BY <1>1, <1>3, GetInv DEF Get, Answers
<1>4. CASE Del
  BY <1>4, DelInv DEF SInv
<1>5. CASE Quit
  BY <1>1, <1>5, QuitInv DEF Quit, Answers
<1>6. CASE ProtocolError
  BY <1>1, <1>6, ProtocolErrorInv DEF ProtocolError, Answers
<1>7. ASSUME NEW v, v \in Values, Set(v) PROVE SInv'
  <2>1. v \in Seq(Nat)
    BY <1>7, SizesAssumption
  <2>2. QED
    BY <1>2, <1>7, <2>1, SetInv DEF Answers
<1>8. ASSUME NEW v, v \in Values, AppendTo(v) PROVE SInv'
  <2>1. v \in Seq(Nat)
    BY <1>8, SizesAssumption
  <2>2. CASE stored' = stored /\ Answers(ErrorIs, ValueIn(Now, stored), "open")
    BY <1>1, <2>2 DEF Answers
  <2>3. CASE Answers(OneLine, v, "open")
    BY <1>2, <2>1, <2>3 DEF Answers
  <2>4. CASE stored # 0 /\ Answers(OneLine, heap[stored].bytes \o v, "open")
    <3>1. heap[stored].bytes \in Seq(Nat)
      BY <2>4, ValueIs DEF SInv
    <3>2. heap[stored].bytes \o v \in Seq(Nat)
      BY <2>1, <3>1, ConcatProperties
    <3>3. QED
      BY <1>2, <2>4, <3>2 DEF Answers
  <2>5. QED
    BY <1>8, <2>2, <2>3, <2>4, AppendInv DEF Appended
<1>9. ASSUME NEW v, v \in Values, Find(v) PROVE SInv'
  BY <1>1, <1>9, FindInv DEF Find, Answers
<1>10. ASSUME NEW n, n \in 0 .. MaxKeys, NEW items, items \in [1 .. n -> Values], Keys(items)
       PROVE  SInv'
  <2>1. n \in Nat
    BY <1>10
  <2>2. Answers(CountLine(Len(items)) \o FlattenSeq(Bulks(items)), ValueIn(Now, stored), "open")
    BY <1>10, <2>1, KeysInv
  <2>3. QED
    BY <1>1, <1>10, <2>2 DEF Keys, Answers
<1>11. CASE WriteStart
  BY <1>1, <1>11, WriteStartInv DEF WriteStart, Pauses
<1>12. CASE Write
  BY <1>1, <1>12, WriteInv DEF Write, Sends
<1>13. CASE WriteEnd
  BY <1>1, <1>13, WriteEndInv DEF WriteEnd, Pauses, Drops, freeClient
<1>14. CASE Lose
  <2>1. freeClient("lost") /\ "lost" \in {"closed", "lost"}
    BY <1>14 DEF Lose
  <2>2. QED
    BY <1>1, <2>1, FreeClientInv DEF freeClient, Drops
<1>15. CASE Accept
  BY <1>1, <1>15, AcceptInv DEF Accept
<1>16. CASE UNCHANGED vars
  <2>1. Now' = Now /\ stored' = stored
    BY <1>16 DEF vars, Now
  <2>2. QED
    BY <2>1 DEF SInv
<1>17. QED
  BY <1>3, <1>4, <1>5, <1>6, <1>7, <1>8, <1>9, <1>10, <1>11, <1>12, <1>13, <1>14, <1>15, <1>16
     DEF Next

\* Every step is one of the stream, or a pause.
LEMMA StreamNext ==
  ASSUME MemoryUnbounded, RInv, SInv, [Next]_vars
  PROVE  [Stream!Next]_Stream!vars
<1>1. CASE Get \/ Del \/ Quit \/ ProtocolError
  BY <1>1, StreamReads, StreamWrites DEF Stream!Next
<1>2. ASSUME NEW v, v \in Values, Set(v) \/ AppendTo(v) \/ Find(v)
      PROVE  Stream!Next
  <2>1. Stream!Set(v) \/ Stream!AppendTo(v) \/ Stream!Find(v)
    BY <1>2, StreamReads, StreamWrites
  <2>2. QED
    BY <1>2, <2>1 DEF Stream!Next
<1>3. ASSUME NEW n, n \in 0 .. MaxKeys, NEW items, items \in [1 .. n -> Values], Keys(items)
      PROVE  Stream!Next
  <2>1. n \in Nat
    BY <1>3
  <2>2. Stream!Keys(items)
    BY <1>3, <2>1, StreamKeys
  <2>3. QED
    BY <1>3, <2>2 DEF Stream!Next
<1>4. CASE WriteStart \/ Write \/ WriteEnd \/ Lose \/ Accept
  BY <1>4, StreamMoves DEF Stream!Next
<1>5. CASE UNCHANGED vars
  <2>1. UNCHANGED <<heap, stored, c, out>> /\ Now' = Now
    BY <1>5 DEF vars, Now
  <2>2. Pending' = Pending
    <3>1. Now \in Pairs
      BY DEF RInv, Held, Book
    <3>2. QED
      BY <2>1, <3>1, PendingIs
  <2>3. StreamValue' = StreamValue
    BY <2>1, ValueIs
  <2>4. QED
    BY <2>1, <2>2, <2>3 DEF Stream!vars, StreamValue
<1>6. QED
  BY <1>1, <1>2, <1>3, <1>4, <1>5 DEF Next

\* The client is sent the replies as they were when its commands ran, byte by
\* byte, in order, none lost or repeated, through the buffer, the list, shared
\* and copied objects, glued nodes and partial writes; and the connection is
\* closed behind the last one.
THEOREM StreamRefinement ==
  ASSUME MemoryUnbounded
  PROVE  Spec => ImplementsStream
<1>1. Init => SInv /\ Stream!Init
  BY StreamInit
<1>2. RInv /\ SInv /\ [Next]_vars => SInv' /\ [Stream!Next]_Stream!vars
  BY StringNext, StreamNext
<1>3. QED
  BY <1>1, <1>2, Invariance, PTL DEF Spec, ImplementsStream, Stream!Spec
=============================================================================
