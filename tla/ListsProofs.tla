---------------------------- MODULE ListsProofs -----------------------------
(***************************************************************************)
(* Proofs about Ziplist and Lists, in Values: the commands of t_list.c     *)
(* keep every length and offset of a block right, through every insertion  *)
(* and deletion.  They put no element into a block that is longer than     *)
(* LIST_MAX_ZIPLIST_VALUE, so the length of an entry takes one byte and    *)
(* the cascade of ziplist.c never starts.                                  *)
(***************************************************************************)
EXTENDS ValuesProofs

-----------------------------------------------------------------------------
(* Loops.                                                                  *)

Stays(F, B, n) == \A b \in B, i \in 1 .. n : F[<<b, i>>] \in B

Unrolled(r, F, base, n) == r[0] = base /\ \A k \in 1 .. n : r[k] = F[<<r[k - 1], k>>]

\* The rounds of a loop, one after the other.
LEMMA LoopUnrolled ==
  ASSUME NEW B, NEW base \in B, NEW n \in Nat, NEW F, Stays(F, B, n),
         NEW iter, Loops(iter, F, base, n)
  PROVE  \E r \in [0 .. n -> B] : Unrolled(r, F, base, n) /\ r[n] = iter[1 .. n]
<1> DEFINE Bad == {k \in 0 .. n : iter[1 .. k] \notin B}
           r == [k \in 0 .. n |-> iter[1 .. k]]
<1>1. iter[1 .. 0] = base
  <2>1. 1 .. 0 = {} /\ {} \in SUBSET (1 .. n)
    OBVIOUS
  <2>2. iter[{}] = base
    BY <2>1 DEF Loops
  <2>3. QED
    BY <2>1, <2>2
<1>2. ASSUME NEW k \in 1 .. n PROVE iter[1 .. k] = F[<<iter[1 .. k - 1], k>>]
  <2> DEFINE s == 1 .. k
  <2>1. s \in SUBSET (1 .. n) /\ s # {} /\ S!Max(s) = k /\ s \ {k} = 1 .. k - 1
    BY LastIs
  <2> HIDE DEF s
  <2>2. iter[s] = F[<<iter[1 .. k - 1], k>>]
    BY <2>1 DEF Loops
  <2>3. QED
    BY <2>2 DEF s
<1>3. Bad = {}
  <2> SUFFICES ASSUME Bad # {} PROVE FALSE
    OBVIOUS
  <2>1. PICK b \in Bad : \A x \in Bad : b <= x
    <3>1. Bad \subseteq Nat
      OBVIOUS
    <3> HIDE DEF Bad
    <3>2. QED
      BY <3>1, Least
  <2>2. b \in 0 .. n /\ iter[1 .. b] \notin B
    OBVIOUS
  <2>3. b # 0
    BY <1>1, <2>2
  <2>4. b \in 1 .. n /\ b - 1 \in 0 .. n /\ b - 1 \notin Bad
    <3>1. b \in 1 .. n /\ b - 1 \in 0 .. n /\ ~ (b <= b - 1)
      BY <2>2, <2>3
    <3> HIDE DEF Bad
    <3>2. QED
      BY <3>1, <2>1
  <2>5. iter[1 .. b - 1] \in B
    BY <2>4
  <2>6. F[<<iter[1 .. b - 1], b>>] \in B
    BY <2>4, <2>5 DEF Stays
  <2>7. QED
    BY <2>2, <2>4, <2>6, <1>2
<1>4. r \in [0 .. n -> B]
  BY <1>3
<1>5. \A k \in 0 .. n : r[k] = iter[1 .. k]
  OBVIOUS
<1> HIDE DEF r
<1>6. r[0] = base /\ r[n] = iter[1 .. n]
  BY <1>1, <1>5
<1>7. ASSUME NEW k \in 1 .. n PROVE r[k] = F[<<r[k - 1], k>>]
  <2>1. k \in 0 .. n /\ k - 1 \in 0 .. n
    OBVIOUS
  <2>2. QED
    BY <1>2, <1>5, <2>1
<1>8. QED
  BY <1>4, <1>6, <1>7 DEF Unrolled

-----------------------------------------------------------------------------
(* Offsets in a ziplist: sums of the lengths of entries.                   *)

\* The elements a ziplist may have.
Short == Elements \ LongElements

Entries == [prevsize : {1}, prev : Nat, val : Short]

SumStep(sum, e) == sum + L!RawLength(e)

\* The sum over the entries of a sequence.
SumRounds(f, sq, base) ==
  [s \in SUBSET DOMAIN sq |->
     IF s = {} THEN base ELSE SumStep(f[s \ {L!Max(s)}], sq[L!Max(s)])]

SumLoop(sq, base) == (CHOOSE f : f = SumRounds(f, sq, base))[DOMAIN sq]

SumStays(sq, B, n) == \A b \in B, i \in 1 .. n : SumStep(b, sq[i]) \in B

SumRuns(r, sq, base, n) ==
  r[0] = base /\ \A k \in 1 .. n : r[k] = SumStep(r[k - 1], sq[k])

\* The loop that sums, round by round.
LEMMA SumLoopIs ==
  ASSUME NEW B, NEW base \in B, NEW n \in Nat, NEW sq, DOMAIN sq = 1 .. n,
         SumStays(sq, B, n)
  PROVE  \E r \in [0 .. n -> B] : SumRuns(r, sq, base, n) /\ r[n] = SumLoop(sq, base)
<1> DEFINE iter == CHOOSE f : f = SumRounds(f, sq, base)
           C == B \cup {iter[s] : s \in SUBSET (1 .. n)}
           F == [p \in C \X (1 .. n) |-> SumStep(p[1], sq[p[2]])]
           Is(f) == \A s \in SUBSET (1 .. n) :
                      f[s] = IF s = {} THEN base ELSE SumStep(f[s \ {L!Max(s)}], sq[L!Max(s)])
<1>1. \A c \in C, i \in 1 .. n : F[<<c, i>>] = SumStep(c, sq[i])
  OBVIOUS
<1>2. B \subseteq C /\ \A s \in SUBSET (1 .. n) : iter[s] \in C
  OBVIOUS
<1> HIDE DEF F, C
<1>3. \A b \in B, i \in 1 .. n : F[<<b, i>>] = SumStep(b, sq[i]) /\ F[<<b, i>>] \in B
  BY <1>1, <1>2 DEF SumStays
<1>4. PICK g : g \in [SUBSET (1 .. n) -> B] /\ Loops(g, F, base, n)
  BY <1>3, LoopRuns
<1>5. ASSUME NEW f, \A s \in SUBSET (1 .. n) : f[s] \in C
      PROVE  Is(f) <=> Loops(f, F, base, n)
  <2>1. ASSUME NEW s \in SUBSET (1 .. n), s # {}
        PROVE  /\ L!Max(s) = S!Max(s)
               /\ F[<<f[s \ {S!Max(s)}], S!Max(s)>>] = SumStep(f[s \ {L!Max(s)}], sq[L!Max(s)])
    <3> DEFINE x == S!Max(s)
    <3>1. x \in s
      BY <2>1, MaxIs
    <3>2. L!Max(s) = x
      BY DEF L!Max, S!Max
    <3> HIDE DEF x
    <3>3. s \ {x} \in SUBSET (1 .. n) /\ x \in 1 .. n
      BY <3>1
    <3>4. F[<<f[s \ {x}], x>>] = SumStep(f[s \ {x}], sq[x])
      BY <3>3, <1>1, <1>5
    <3>5. QED
      BY <3>2, <3>4 DEF x
  <2>2. QED
    BY <2>1 DEF Loops
<1> HIDE DEF Is
<1>6. g = SumRounds(g, sq, base)
  <2> DEFINE h == SumRounds(g, sq, base)
  <2>1. \A s \in SUBSET (1 .. n) : g[s] \in C
    BY <1>2, <1>4
  <2>2. Is(g)
    BY <2>1, <1>4, <1>5
  <2>3. h = [s \in SUBSET (1 .. n) |->
               IF s = {} THEN base ELSE SumStep(g[s \ {L!Max(s)}], sq[L!Max(s)])]
    BY DEF SumRounds
  <2> HIDE DEF h
  <2>4. g = h
    BY <1>4, <2>2, <2>3 DEF Is
  <2>5. QED
    BY <2>4 DEF h
<1>7. iter = SumRounds(iter, sq, base)
  BY <1>6
<1>8. SumLoop(sq, base) = iter[1 .. n]
  BY DEF SumLoop
<1> HIDE DEF iter
<1>9. Loops(iter, F, base, n)
  <2> DEFINE h == SumRounds(iter, sq, base)
  <2>1. \A s \in SUBSET (1 .. n) :
          h[s] = IF s = {} THEN base ELSE SumStep(iter[s \ {L!Max(s)}], sq[L!Max(s)])
    BY DEF SumRounds
  <2> HIDE DEF h
  <2>2. iter = h
    BY <1>7 DEF h
  <2>3. Is(iter)
    BY <2>1, <2>2 DEF Is
  <2>4. QED
    BY <2>3, <1>2, <1>5
<1>10. PICK r \in [0 .. n -> B] : Unrolled(r, F, base, n) /\ r[n] = iter[1 .. n]
  <2>1. Stays(F, B, n)
    BY <1>3 DEF Stays
  <2>2. QED
    BY <2>1, <1>9, LoopUnrolled
<1>11. ASSUME NEW k \in 1 .. n PROVE r[k] = SumStep(r[k - 1], sq[k])
  <2>1. r[k - 1] \in B
    BY <1>10
  <2>2. QED
    BY <2>1, <1>3, <1>10 DEF Unrolled
<1>12. QED
  BY <1>8, <1>10, <1>11 DEF Unrolled, SumRuns

\* The bytes of an entry: one for its link backwards, and what its value takes;
\* they are too few for a link of five.
LEMMA RawIs ==
  ASSUME NEW e \in Entries
  PROVE  /\ L!RawLength(e) = e.prevsize + Bytes[e.val] /\ L!RawLength(e) \in Nat /\ L!RawLength(e) >= 2
         /\ L!PrevSize(L!RawLength(e)) = 1
         /\ e.prevsize = 1 /\ e.prev \in Nat /\ e.val \in Elements /\ Bytes[e.val] \in Nat
<1>1. e.prevsize = 1 /\ e.prev \in Nat /\ e.val \in Elements /\ e.val \in Short
  BY DEF Entries, Short
<1>2. Bytes[e.val] \in Nat /\ Bytes[e.val] >= 1 /\ BigLen \in Nat /\ 1 + Bytes[e.val] < BigLen
  <2> DEFINE v == e.val
  <2>1. v \in Elements /\ v \in Elements \ LongElements
    BY <1>1 DEF Short
  <2> HIDE DEF v
  <2>2. Bytes[v] \in Nat \ {0} /\ BigLen \in Nat
    BY <2>1, ListAssumption
  <2>3. 1 + Bytes[v] < BigLen
    BY <2>1, ListAssumption
  <2>4. QED
    BY <2>2, <2>3 DEF v
<1>3. L!RawLength(e) = e.prevsize + Bytes[e.val]
  BY DEF L!RawLength
<1>4. L!RawLength(e) < BigLen
  BY <1>1, <1>2, <1>3
<1>5. QED
  BY <1>1, <1>2, <1>3, <1>4 DEF L!PrevSize

\* The sum of the entries in front, as it grows from the ten bytes of the header.
LEMMA SumIs ==
  ASSUME NEW es \in Seq(Entries), NEW i \in 0 .. Len(es)
  PROVE  \E r \in [0 .. i -> Int] :
           /\ r[0] = 10 /\ r[i] = SumLoop(SubSeq(es, 1, i), 10)
           /\ \A k \in 1 .. i : r[k] = r[k - 1] + L!RawLength(es[k])
<1> DEFINE sq == SubSeq(es, 1, i)
<1>1. Len(es) \in Nat /\ i \in Nat /\ \A k \in 1 .. i : es[k] \in Entries
  OBVIOUS
<1>2. DOMAIN sq = 1 .. i /\ \A k \in 1 .. i : sq[k] = es[k]
  OBVIOUS
<1> HIDE DEF sq
<1>3. \A b \in Int, k \in 1 .. i : SumStep(b, sq[k]) = b + L!RawLength(es[k]) /\ SumStep(b, sq[k]) \in Int
  BY <1>1, <1>2, RawIs DEF SumStep
<1>4. PICK r \in [0 .. i -> Int] : SumRuns(r, sq, 10, i) /\ r[i] = SumLoop(sq, 10)
  <2>1. 10 \in Int /\ SumStays(sq, Int, i)
    BY <1>3 DEF SumStays
  <2> DEFINE B == Int
             base == 10
  <2>2. base \in B /\ SumStays(sq, B, i) /\ DOMAIN sq = 1 .. i /\ i \in Nat
    BY <2>1, <1>1, <1>2
  <2> HIDE DEF B, base
  <2>3. \E r \in [0 .. i -> B] : SumRuns(r, sq, base, i) /\ r[i] = SumLoop(sq, base)
    BY <2>2, SumLoopIs
  <2>4. QED
    BY <2>3 DEF B, base
<1>5. \A k \in 1 .. i : r[k - 1] \in Int
  BY <1>1, <1>4
<1>6. \A k \in 1 .. i : r[k] = r[k - 1] + L!RawLength(es[k])
  BY <1>3, <1>4, <1>5 DEF SumRuns
<1>7. QED
  BY <1>4, <1>6 DEF sq, SumRuns

\* Offsets grow by the length of an entry.
LEMMA OffsetIs ==
  ASSUME NEW zl, zl.entry \in Seq(Entries)
  PROVE  /\ L!Offset(zl, 1) = 10
         /\ \A i \in 1 .. Len(zl.entry) + 1 : L!Offset(zl, i) \in Int
         /\ \A i \in 1 .. Len(zl.entry) : L!Offset(zl, i + 1) = L!Offset(zl, i) + L!RawLength(zl.entry[i])
<1> DEFINE es == zl.entry
<1>1. es \in Seq(Entries) /\ Len(es) \in Nat
  OBVIOUS
<1>2. \A i \in Int : L!Offset(zl, i) = SumLoop(SubSeq(es, 1, i - 1), 10)
  BY DEF L!Offset, L!FoldLeft, L!MapThenFoldSet, SumLoop, SumRounds, SumStep, L!HeaderSize
<1> HIDE DEF es
<1>3. \A i \in 0 .. Len(es) : L!Offset(zl, i + 1) = SumLoop(SubSeq(es, 1, i), 10)
  <2> SUFFICES ASSUME NEW i \in 0 .. Len(es) PROVE L!Offset(zl, i + 1) = SumLoop(SubSeq(es, 1, i), 10)
    OBVIOUS
  <2>1. i + 1 \in Int /\ i + 1 - 1 = i
    BY <1>1
  <2> DEFINE j == i + 1
  <2>2. L!Offset(zl, j) = SumLoop(SubSeq(es, 1, j - 1), 10)
    BY <1>2, <2>1
  <2>3. j - 1 = i
    BY <2>1
  <2> HIDE DEF j
  <2>4. L!Offset(zl, j) = SumLoop(SubSeq(es, 1, i), 10)
    BY <2>2, <2>3
  <2>5. QED
    BY <2>4 DEF j
<1>4. \A i \in 0 .. Len(es) : SumLoop(SubSeq(es, 1, i), 10) \in Int
  <2> SUFFICES ASSUME NEW i \in 0 .. Len(es) PROVE SumLoop(SubSeq(es, 1, i), 10) \in Int
    OBVIOUS
  <2>1. PICK r \in [0 .. i -> Int] : r[i] = SumLoop(SubSeq(es, 1, i), 10)
    BY <1>1, SumIs
  <2>2. i \in 0 .. i
    BY <1>1
  <2>3. QED
    BY <2>1, <2>2
<1>5. SumLoop(SubSeq(es, 1, 0), 10) = 10
  <2>1. 0 \in 0 .. Len(es)
    BY <1>1
  <2>2. PICK r \in [0 .. 0 -> Int] : r[0] = 10 /\ r[0] = SumLoop(SubSeq(es, 1, 0), 10)
    BY <1>1, <2>1, SumIs
  <2>3. QED
    BY <2>2
<1>6. ASSUME NEW i \in 1 .. Len(es)
      PROVE  SumLoop(SubSeq(es, 1, i), 10) = SumLoop(SubSeq(es, 1, i - 1), 10) + L!RawLength(es[i])
  <2>1. i \in 0 .. Len(es) /\ i - 1 \in 0 .. Len(es) /\ i \in Nat
    BY <1>1
  <2>2. PICK r \in [0 .. i -> Int] :
          /\ r[0] = 10 /\ r[i] = SumLoop(SubSeq(es, 1, i), 10)
          /\ \A k \in 1 .. i : r[k] = r[k - 1] + L!RawLength(es[k])
    BY <1>1, <2>1, SumIs
  <2> DEFINE j == i - 1
  <2>3. PICK q \in [0 .. j -> Int] :
          /\ q[0] = 10 /\ q[j] = SumLoop(SubSeq(es, 1, j), 10)
          /\ \A k \in 1 .. j : q[k] = q[k - 1] + L!RawLength(es[k])
    <3>1. j \in 0 .. Len(es)
      BY <2>1
    <3> HIDE DEF j
    <3>2. QED
      BY <1>1, <3>1, SumIs
  <2>4. \A k \in 0 .. j : r[k] = q[k]
    <3> DEFINE Bad == {k \in 0 .. j : r[k] # q[k]}
    <3> SUFFICES ASSUME Bad # {} PROVE FALSE
      OBVIOUS
    <3>1. PICK b \in Bad : \A x \in Bad : b <= x
      <4>1. Bad \subseteq Nat
        OBVIOUS
      <4> HIDE DEF Bad
      <4>2. QED
        BY <4>1, Least
    <3>2. b \in 0 .. j /\ r[b] # q[b]
      OBVIOUS
    <3>3. b # 0
      BY <2>2, <2>3, <3>2
    <3>4. b \in 1 .. j /\ b \in 1 .. i /\ b - 1 \in 0 .. j /\ ~ (b <= b - 1)
      BY <2>1, <3>2, <3>3
    <3>5. b - 1 \notin Bad
      <4> HIDE DEF Bad
      <4>1. QED
        BY <3>1, <3>4
    <3>6. r[b - 1] = q[b - 1]
      BY <3>4, <3>5
    <3>7. QED
      BY <2>2, <2>3, <3>2, <3>4, <3>6
  <2>5. i \in 1 .. i /\ j \in 0 .. j
    BY <2>1
  <2>6. r[i] = r[j] + L!RawLength(es[i]) /\ r[j] = q[j]
    BY <2>2, <2>4, <2>5
  <2>7. QED
    BY <2>2, <2>3, <2>6
<1>7. L!Offset(zl, 1) = 10
  <2>1. 0 \in 0 .. Len(es) /\ 0 + 1 = 1
    BY <1>1
  <2>2. L!Offset(zl, 0 + 1) = SumLoop(SubSeq(es, 1, 0), 10)
    BY <1>3, <2>1
  <2>3. QED
    BY <1>5, <2>1, <2>2
<1>8. ASSUME NEW i \in 1 .. Len(es) + 1 PROVE L!Offset(zl, i) \in Int /\ L!Offset(zl, i) = SumLoop(SubSeq(es, 1, i - 1), 10)
  <2>1. PICK j \in 0 .. Len(es) : j = i - 1 /\ i = j + 1
    BY <1>1
  <2>2. L!Offset(zl, j + 1) = SumLoop(SubSeq(es, 1, j), 10)
    BY <1>3
  <2>3. QED
    BY <1>4, <2>1, <2>2
<1>9. ASSUME NEW i \in 1 .. Len(es) PROVE L!Offset(zl, i + 1) = L!Offset(zl, i) + L!RawLength(es[i])
  <2>1. i \in 0 .. Len(es) /\ i \in 1 .. Len(es) + 1
    BY <1>1
  <2>2. L!Offset(zl, i + 1) = SumLoop(SubSeq(es, 1, i), 10)
    BY <1>3, <2>1
  <2>3. QED
    BY <1>6, <1>8, <2>1, <2>2
<1>10. QED
  BY <1>7, <1>8, <1>9 DEF es

\* Offsets grow from entry to entry.
LEMMA OffsetsIncrease ==
  ASSUME NEW zl, zl.entry \in Seq(Entries),
         NEW i \in 1 .. Len(zl.entry) + 1, NEW j \in 1 .. Len(zl.entry) + 1, i < j
  PROVE  L!Offset(zl, i) < L!Offset(zl, j)
<1> DEFINE n == Len(zl.entry)
           At(k) == L!Offset(zl, k)
           Bad == {k \in 1 .. n + 1 : i < k /\ ~ (At(i) < At(k))}
<1>1. n \in Nat /\ (\A k \in 1 .. n + 1 : At(k) \in Int) /\ \A k \in 1 .. n : At(k) < At(k + 1)
  <2>1. \A k \in 1 .. n : zl.entry[k] \in Entries
    OBVIOUS
  <2>2. \A k \in 1 .. n : L!RawLength(zl.entry[k]) \in Nat /\ L!RawLength(zl.entry[k]) >= 2
    BY <2>1, RawIs
  <2>3. n \in Nat /\ (\A k \in 1 .. n + 1 : At(k) \in Int)
        /\ \A k \in 1 .. n : At(k + 1) = At(k) + L!RawLength(zl.entry[k])
    BY OffsetIs
  <2>4. \A k \in 1 .. n : k \in 1 .. n + 1
    BY <2>3
  <2> HIDE DEF At, n
  <2>5. QED
    BY <2>2, <2>3, <2>4
<1> HIDE DEF At
<1>2. i \in 1 .. n + 1 /\ j \in 1 .. n + 1
  OBVIOUS
<1> HIDE DEF n
<1>3. Bad = {}
  <2> SUFFICES ASSUME Bad # {} PROVE FALSE
    OBVIOUS
  <2>1. PICK b \in Bad : \A x \in Bad : b <= x
    <3>1. Bad \subseteq Nat
      BY <1>1
    <3> HIDE DEF Bad
    <3>2. QED
      BY <3>1, Least
  <2>2. b \in 1 .. n + 1 /\ i < b /\ ~ (At(i) < At(b))
    OBVIOUS
  <2>3. PICK c \in 1 .. n : c + 1 = b
    BY <1>1, <1>2, <2>2
  <2>4. c \notin Bad
    <3>1. ~ (b <= c)
      BY <1>1, <2>3
    <3> HIDE DEF Bad
    <3>2. QED
      BY <2>1, <3>1
  <2>5. c \in 1 .. n + 1 /\ (i = c \/ i < c)
    BY <1>1, <1>2, <2>2, <2>3
  <2>6. At(c) < At(b) /\ At(c) \in Int /\ At(b) \in Int /\ At(i) \in Int
    BY <1>1, <1>2, <2>2, <2>3, <2>5
  <2>7. i = c \/ At(i) < At(c)
    BY <2>4, <2>5
  <2>8. QED
    BY <2>2, <2>6, <2>7
<1>4. QED
  BY <1>2, <1>3 DEF At

GrowsBy(f, d, m) ==
  /\ \A k \in 0 .. m : f[k] \in Int
  /\ \A k \in 0 .. m - 1 : d[k] \in Int /\ f[k + 1] = f[k] + d[k]

\* What grows by the same grows by as much.
LEMMA SameGrowth ==
  ASSUME NEW m \in Nat, NEW f, NEW g, NEW d, GrowsBy(f, d, m), GrowsBy(g, d, m)
  PROVE  g[m] - g[0] = f[m] - f[0]
<1> DEFINE Bad == {k \in 0 .. m : g[k] - g[0] # f[k] - f[0]}
<1>1. Bad = {}
  <2> SUFFICES ASSUME Bad # {} PROVE FALSE
    OBVIOUS
  <2>1. PICK c \in 0 .. m : g[c] - g[0] # f[c] - f[0] /\ \A x \in Bad : c <= x
    <3>1. Bad \subseteq Nat
      OBVIOUS
    <3>2. \A x \in Bad : x \in 0 .. m /\ g[x] - g[0] # f[x] - f[0]
      OBVIOUS
    <3> HIDE DEF Bad
    <3>3. PICK c \in Bad : \A x \in Bad : c <= x
      BY <3>1, Least
    <3>4. QED
      BY <3>2, <3>3
  <2>2. c # 0
    <3>1. f[0] \in Int /\ g[0] \in Int
      BY DEF GrowsBy
    <3> HIDE DEF Bad
    <3>2. QED
      BY <2>1, <3>1
  <2>3. PICK k \in 0 .. m - 1 : k + 1 = c
    BY <2>2
  <2>4. k \in 0 .. m /\ k \notin Bad
    <3>1. ~ (c <= k)
      BY <2>3
    <3> HIDE DEF Bad
    <3>2. QED
      BY <2>1, <2>3, <3>1
  <2>5. g[k] - g[0] = f[k] - f[0]
    BY <2>4
  <2>6. d[k] \in Int /\ f[c] = f[k] + d[k] /\ g[c] = g[k] + d[k]
    BY <2>3 DEF GrowsBy
  <2>7. f[k] \in Int /\ f[0] \in Int /\ g[k] \in Int /\ g[0] \in Int /\ f[c] \in Int /\ g[c] \in Int
    BY <2>4 DEF GrowsBy
  <2> HIDE DEF Bad
  <2>8. QED
    BY <2>1, <2>5, <2>6, <2>7
<1>2. m \in 0 .. m
  OBVIOUS
<1>3. QED
  BY <1>1, <1>2

\* Entries of the same lengths, from a up to c in one and from b up to d in the other.
SamePart(es, a, c, fs, b, d) ==
  /\ a \in 1 .. Len(es) + 1 /\ c \in a .. Len(es) + 1
  /\ b \in 1 .. Len(fs) + 1 /\ d \in b .. Len(fs) + 1 /\ d - b = c - a
  /\ \A k \in 0 .. c - a - 1 : L!RawLength(es[a + k]) = L!RawLength(fs[b + k])

\* They take as many bytes.
LEMMA OffsetsShift ==
  ASSUME NEW zl, NEW es, es = zl.entry, es \in Seq(Entries),
         NEW zm, NEW fs, fs = zm.entry, fs \in Seq(Entries),
         NEW a, NEW b, NEW c, NEW d, SamePart(es, a, c, fs, b, d)
  PROVE  /\ L!Offset(zl, a) \in Int /\ L!Offset(zl, c) \in Int
         /\ L!Offset(zm, b) \in Int /\ L!Offset(zm, d) \in Int
         /\ L!Offset(zm, d) - L!Offset(zm, b) = L!Offset(zl, c) - L!Offset(zl, a)
<1> DEFINE m == c - a
           f == [k \in 0 .. m |-> L!Offset(zl, a + k)]
           g == [k \in 0 .. m |-> L!Offset(zm, b + k)]
           s == [k \in 0 .. m - 1 |-> L!RawLength(zl.entry[a + k])]
<1>1. /\ Len(zl.entry) \in Nat /\ Len(zm.entry) \in Nat /\ a \in Int /\ b \in Int /\ m \in Nat
      /\ a >= 1 /\ b >= 1 /\ a + m = c /\ b + m = d /\ c <= Len(zl.entry) + 1 /\ d <= Len(zm.entry) + 1
  BY DEF SamePart
<1>2. \A k \in 0 .. m - 1 : L!RawLength(zl.entry[a + k]) = L!RawLength(zm.entry[b + k])
  BY DEF SamePart
<1> HIDE DEF m
<1>3. \A k \in 0 .. m : a + k \in 1 .. Len(zl.entry) + 1 /\ b + k \in 1 .. Len(zm.entry) + 1
  BY <1>1
<1>4. \A k \in 0 .. m - 1 : /\ a + k \in 1 .. Len(zl.entry) /\ b + k \in 1 .. Len(zm.entry)
                            /\ a + (k + 1) = a + k + 1 /\ b + (k + 1) = b + k + 1
  BY <1>1
<1>5. f \in [0 .. m -> Int] /\ g \in [0 .. m -> Int]
  BY <1>3, OffsetIs
<1>6. \A k \in 0 .. m - 1 : s[k] \in Int /\ s[k] = L!RawLength(zm.entry[b + k])
  <2>1. \A k \in 0 .. m - 1 : zl.entry[a + k] \in Entries
    BY <1>4
  <2>2. \A k \in 0 .. m - 1 : s[k] \in Int
    BY <2>1, RawIs
  <2>3. QED
    BY <2>2, <1>2
<1>7. ASSUME NEW k \in 0 .. m - 1 PROVE f[k + 1] = f[k] + s[k]
  <2>1. k \in 0 .. m /\ k + 1 \in 0 .. m /\ a + k \in 1 .. Len(zl.entry) /\ a + (k + 1) = a + k + 1
    BY <1>1, <1>4
  <2>2. L!Offset(zl, a + k + 1) = L!Offset(zl, a + k) + L!RawLength(zl.entry[a + k])
    BY <2>1, OffsetIs
  <2>3. QED
    BY <2>1, <2>2
<1>8. ASSUME NEW k \in 0 .. m - 1 PROVE g[k + 1] = g[k] + s[k]
  <2>1. k \in 0 .. m /\ k + 1 \in 0 .. m /\ b + k \in 1 .. Len(zm.entry) /\ b + (k + 1) = b + k + 1
    BY <1>1, <1>4
  <2>2. L!Offset(zm, b + k + 1) = L!Offset(zm, b + k) + L!RawLength(zm.entry[b + k])
    BY <2>1, OffsetIs
  <2> HIDE DEF s
  <2>3. QED
    BY <2>1, <2>2, <1>6
<1>9. f[0] = L!Offset(zl, a) /\ f[m] = L!Offset(zl, c) /\ g[0] = L!Offset(zm, b) /\ g[m] = L!Offset(zm, d)
  BY <1>1
<1> HIDE DEF f, g, s
<1>10. GrowsBy(f, s, m) /\ GrowsBy(g, s, m)
  BY <1>5, <1>6, <1>7, <1>8 DEF GrowsBy
<1>11. g[m] - g[0] = f[m] - f[0]
  BY <1>1, <1>10, SameGrowth
<1>12. 0 \in 0 .. m /\ m \in 0 .. m
  BY <1>1
<1>13. QED
  BY <1>5, <1>9, <1>11, <1>12

-----------------------------------------------------------------------------
(* The layout of a block while it is changed.                              *)

Zips == [entry : Seq(Entries), bytes : Int, tail : Int, count : Int]

PrevAt(zl, i) == IF i = 1 THEN 0 ELSE L!RawLength(zl.entry[i - 1])

HeaderRight(zl) ==
  /\ zl.bytes = L!Offset(zl, Len(zl.entry) + 1) + 1
  /\ zl.tail = L!Offset(zl, IF zl.entry = <<>> THEN 1 ELSE Len(zl.entry))
  /\ zl.count = IF zl.count < MaxCount THEN Len(zl.entry) ELSE MaxCount

\* The layout is right, but entry q may not have the length of its predecessor.
RightBut(zl, q) ==
  /\ HeaderRight(zl)
  /\ \A i \in 1 .. Len(zl.entry) : zl.entry[i].prevsize >= L!PrevSize(zl.entry[i].prev)
  /\ \A i \in 1 .. Len(zl.entry) : i # q => zl.entry[i].prev = PrevAt(zl, i)

Blocks == {zl \in Zips : RightBut(zl, 0)}

\* The parts of a block.
LEMMA ZipIs ==
  ASSUME NEW zl \in Zips
  PROVE  /\ zl.entry \in Seq(Entries) /\ Len(zl.entry) \in Nat /\ DOMAIN zl.entry = 1 .. Len(zl.entry)
         /\ \A i \in 1 .. Len(zl.entry) : zl.entry[i] \in Entries
         /\ zl.bytes \in Int /\ zl.tail \in Int /\ zl.count \in Int
         /\ zl = [entry |-> zl.entry, bytes |-> zl.bytes, tail |-> zl.tail, count |-> zl.count]
BY DEF Zips

\* A block from its parts.
LEMMA IsZip ==
  ASSUME NEW es, es \in Seq(Entries), NEW b, b \in Int, NEW t, t \in Int, NEW c, c \in Int,
         NEW zm, zm = [entry |-> es, bytes |-> b, tail |-> t, count |-> c]
  PROVE  zm \in Zips /\ zm.entry = es /\ zm.bytes = b /\ zm.tail = t /\ zm.count = c
BY DEF Zips

\* The length an entry has to give for the one in front of it takes one byte.
LEMMA PrevAtIs ==
  ASSUME NEW zl \in Zips, NEW i \in 1 .. Len(zl.entry) + 1
  PROVE  PrevAt(zl, i) \in Nat /\ L!PrevSize(PrevAt(zl, i)) = 1
<1>1. CASE i = 1
  <2>1. BigLen \in Nat /\ BigLen > 0
    BY ListAssumption
  <2>2. QED
    BY <1>1, <2>1 DEF PrevAt, L!PrevSize
<1>2. CASE i # 1
  <2>1. i - 1 \in 1 .. Len(zl.entry)
    BY <1>2, ZipIs
  <2>2. L!RawLength(zl.entry[i - 1]) \in Nat /\ L!PrevSize(L!RawLength(zl.entry[i - 1])) = 1
    BY <2>1, ZipIs, RawIs
  <2>3. QED
    BY <1>2, <2>2 DEF PrevAt
<1>3. QED
  BY <1>1, <1>2

\* A block is exact when no entry of it is excepted.
LEMMA LayoutIs ==
  ASSUME NEW zl \in Zips
  PROVE  L!LayoutOK(zl) <=> RightBut(zl, 0)
<1>1. DOMAIN zl.entry = 1 .. Len(zl.entry) /\ Len(zl.entry) \in Nat
  BY ZipIs
<1>2. \A i \in 1 .. Len(zl.entry) : i # 0
  BY <1>1
<1>3. QED
  BY <1>1, <1>2 DEF L!LayoutOK, RightBut, HeaderRight, PrevAt

\* If the excepted entry is right as well, all are.
LEMMA ButNone ==
  ASSUME NEW zl \in Zips, NEW q \in Nat, RightBut(zl, q),
         q \in 1 .. Len(zl.entry) => zl.entry[q].prev = PrevAt(zl, q)
  PROVE  RightBut(zl, 0)
BY DEF RightBut

Replaces(fs, es, i, e) == fs = [es EXCEPT ![i] = e]

\* Another entry of the same length in the place of one.
LEMMA OneChanged ==
  ASSUME NEW zl \in Zips, NEW i, i \in 1 .. Len(zl.entry), NEW e \in Entries,
         L!RawLength(e) = L!RawLength(zl.entry[i]),
         NEW es, Replaces(es, zl.entry, i, e), NEW zm, zm.entry = es
  PROVE  /\ es \in Seq(Entries) /\ Len(es) = Len(zl.entry) /\ es[i] = e
         /\ \A k \in 1 .. Len(zl.entry) : k # i => es[k] = zl.entry[k]
         /\ \A k \in 1 .. Len(zl.entry) + 1 : L!Offset(zm, k) = L!Offset(zl, k)
<1> DEFINE n == Len(zl.entry)
<1>1. zl.entry \in Seq(Entries) /\ n \in Nat /\ i \in 1 .. n
  BY ZipIs
<1>2. es \in Seq(Entries) /\ Len(es) = n /\ es[i] = e
  BY <1>1 DEF Replaces
<1>3. \A k \in 1 .. n : k # i => es[k] = zl.entry[k]
  BY <1>1 DEF Replaces
<1>4. zm.entry \in Seq(Entries) /\ Len(zm.entry) = n
      /\ \A k \in 1 .. n : L!RawLength(zm.entry[k]) = L!RawLength(zl.entry[k])
  BY <1>2, <1>3
<1>5. \A k \in 1 .. n + 1 : L!Offset(zl, k) \in Int /\ L!Offset(zm, k) \in Int
  BY <1>1, <1>4, OffsetIs
<1>6. L!Offset(zl, 1) = L!Offset(zm, 1)
  BY <1>1, <1>4, OffsetIs
<1> HIDE DEF n
<1>7. ASSUME NEW k \in 1 .. n + 1 PROVE L!Offset(zm, k) = L!Offset(zl, k)
  <2>1. SamePart(zl.entry, 1, k, zm.entry, 1, k)
    <3>1. \A c \in 0 .. k - 1 - 1 : 1 + c \in 1 .. n
      BY <1>1
    <3>2. \A c \in 0 .. k - 1 - 1 : L!RawLength(zl.entry[1 + c]) = L!RawLength(zm.entry[1 + c])
      BY <3>1, <1>4
    <3>3. k \in 1 .. n + 1 /\ 1 \in 1 .. n + 1 /\ Len(zl.entry) = n
      BY <1>1 DEF n
    <3>4. QED
      BY <3>2, <3>3, <1>4 DEF SamePart
  <2>2. L!Offset(zm, k) - L!Offset(zm, 1) = L!Offset(zl, k) - L!Offset(zl, 1)
        /\ L!Offset(zm, k) \in Int /\ L!Offset(zm, 1) \in Int /\ L!Offset(zl, k) \in Int
    <3>1. zl.entry \in Seq(Entries) /\ zm.entry \in Seq(Entries)
      BY <1>1, <1>4
    <3>2. QED
      BY ONLY <2>1, <3>1, OffsetsShift
  <2>3. QED
    BY ONLY <1>6, <2>2
<1>8. QED
  BY <1>2, <1>3, <1>7 DEF n

\* The same entry with another length of its predecessor.
Behind(e, prev) == [prevsize |-> 1, prev |-> prev, val |-> e.val]

\* It takes the same bytes.
LEMMA BehindIs ==
  ASSUME NEW e \in Entries, NEW prev \in Nat
  PROVE  /\ Behind(e, prev) \in Entries
         /\ Behind(e, prev).prev = prev /\ Behind(e, prev).prevsize = 1
         /\ L!RawLength(Behind(e, prev)) = L!RawLength(e)
<1> DEFINE f == Behind(e, prev)
<1>1. f \in Entries /\ f.prev = prev /\ f.prevsize = 1 /\ f.val = e.val
  BY DEF Behind, Entries
<1> HIDE DEF f
<1>2. L!RawLength(f) = 1 + Bytes[e.val] /\ L!RawLength(e) = 1 + Bytes[e.val]
  BY <1>1, RawIs
<1>3. QED
  BY <1>1, <1>2 DEF f

\* It comes of an assignment to two fields.
LEMMA BehindSets ==
  ASSUME NEW e, e \in Entries, NEW prev, NEW size, size = 1
  PROVE  [e EXCEPT !.prevsize = size, !.prev = prev] = Behind(e, prev)
<1>1. e = [prevsize |-> e.prevsize, prev |-> e.prev, val |-> e.val]
  BY DEF Entries
<1> DEFINE f == [e EXCEPT !.prevsize = size]
           v == e.val
<1>2. f = [prevsize |-> size, prev |-> e.prev, val |-> v]
  BY ONLY <1>1
<1> HIDE DEF f
<1>3. [f EXCEPT !.prev = prev] = [prevsize |-> size, prev |-> prev, val |-> v]
  BY ONLY <1>2
<1>4. QED
  BY <1>3 DEF f, Behind

\* An entry learns the length of its predecessor: nothing moves, and no entry
\* behind it has to change.
LEMMA ResizedIs ==
  ASSUME NEW zl, zl \in Zips, NEW i, i \in 1 .. Len(zl.entry), RightBut(zl, i),
         NEW prev, prev = PrevAt(zl, i), NEW d, d = 0
  PROVE  L!Resized(zl, i, prev, d) \in Blocks /\ Len(L!Resized(zl, i, prev, d).entry) = Len(zl.entry)
<1> DEFINE n == Len(zl.entry)
           size == L!PrevSize(prev)
           e == Behind(zl.entry[i], prev)
           es == L!Prefixed(zl.entry, i, size, prev)
           b == zl.bytes + d
           t == IF i = Len(zl.entry) THEN zl.tail ELSE zl.tail + d
           zm == L!Resized(zl, i, prev, d)
<1>1. /\ zl.bytes \in Int /\ zl.tail \in Int /\ zl.count \in Int /\ n \in Nat
      /\ zl.entry[i] \in Entries /\ zl.entry \in Seq(Entries)
      /\ zl = [entry |-> zl.entry, bytes |-> zl.bytes, tail |-> zl.tail, count |-> zl.count]
  BY ZipIs
<1>2. prev \in Nat /\ size = 1
  <2>1. i \in 1 .. n + 1
    BY <1>1
  <2>2. QED
    BY <2>1, PrevAtIs
<1>3. /\ e \in Entries /\ e.prev = prev /\ e.prevsize = 1
      /\ L!RawLength(e) = L!RawLength(zl.entry[i])
  BY <1>1, <1>2, BehindIs
<1>4. Replaces(es, zl.entry, i, e)
  <2>1. [zl.entry[i] EXCEPT !.prevsize = size, !.prev = prev] = e
    BY <1>1, <1>2, BehindSets
  <2> HIDE DEF e, size
  <2>2. QED
    BY <2>1 DEF L!Prefixed, Replaces
<1>5. zm = [zl EXCEPT !.entry = es, !.bytes = b, !.tail = t]
  BY DEF L!Resized
<1>6. b = zl.bytes /\ t = zl.tail
  BY <1>1
<1> HIDE DEF e, size, es, b, t, zm
<1>7. /\ es \in Seq(Entries) /\ Len(es) = n /\ es[i] = e
      /\ \A k \in 1 .. n : k # i => es[k] = zl.entry[k]
  <2>1. zm.entry = es
    BY <1>1, <1>5
  <2>2. QED
    BY <2>1, <1>3, <1>4, OneChanged
<1>8. zm = [entry |-> es, bytes |-> zl.bytes, tail |-> zl.tail, count |-> zl.count]
  BY ONLY <1>1, <1>5, <1>6
<1>9. zm \in Zips /\ zm.entry = es /\ zm.bytes = zl.bytes /\ zm.tail = zl.tail /\ zm.count = zl.count
  BY ONLY <1>1, <1>7, <1>8, IsZip
<1>10. \A k \in 1 .. n + 1 : L!Offset(zm, k) = L!Offset(zl, k)
  BY <1>3, <1>4, <1>9, OneChanged
<1> HIDE DEF n
<1>11. HeaderRight(zm)
  <2>1. /\ zl.bytes = L!Offset(zl, n + 1) + 1 /\ zl.tail = L!Offset(zl, n)
        /\ zl.count = IF zl.count < MaxCount THEN n ELSE MaxCount
    <3>1. zl.entry # <<>>
      BY <1>1
    <3>2. QED
      BY <3>1 DEF RightBut, HeaderRight, n
  <2>2. n \in 1 .. n + 1 /\ n + 1 \in 1 .. n + 1
    BY <1>1 DEF n
  <2>3. L!Offset(zm, n + 1) = L!Offset(zl, n + 1) /\ L!Offset(zm, n) = L!Offset(zl, n)
    BY <1>10, <2>2
  <2>4. Len(zm.entry) = n /\ zm.entry # <<>>
    <3>1. n # 0
      BY <1>1 DEF n
    <3>2. QED
      BY <1>7, <1>9, <3>1
  <2>5. QED
    BY ONLY <1>9, <2>1, <2>3, <2>4 DEF HeaderRight
<1>12. \A k \in 1 .. n : zm.entry[k].prevsize >= L!PrevSize(zm.entry[k].prev)
  <2>1. \A k \in 1 .. n : zl.entry[k].prevsize >= L!PrevSize(zl.entry[k].prev)
    BY DEF RightBut, n
  <2>2. e.prevsize >= L!PrevSize(e.prev)
    BY <1>2, <1>3 DEF size
  <2>3. QED
    BY <1>7, <1>9, <2>1, <2>2
<1>13. ASSUME NEW k \in 1 .. n PROVE zm.entry[k].prev = PrevAt(zm, k)
  <2>1. PrevAt(zm, k) = PrevAt(zl, k)
    <3>1. CASE k = 1
      BY <3>1 DEF PrevAt
    <3>2. CASE k # 1
      <4>1. k - 1 \in 1 .. n
        BY <1>1, <3>2 DEF n
      <4>2. L!RawLength(zm.entry[k - 1]) = L!RawLength(zl.entry[k - 1])
        BY <1>3, <1>7, <1>9, <4>1
      <4>3. QED
        BY <3>2, <4>2 DEF PrevAt
    <3>3. QED
      BY <3>1, <3>2
  <2>2. CASE k = i
    BY <1>3, <1>7, <1>9, <2>1, <2>2
  <2>3. CASE k # i
    <3>1. zl.entry[k].prev = PrevAt(zl, k)
      BY <2>3 DEF RightBut, n
    <3>2. QED
      BY <1>7, <1>9, <2>1, <2>3, <3>1
  <2>4. QED
    BY <2>2, <2>3
<1>14. Len(zm.entry) = n
  BY <1>7, <1>9
<1>15. RightBut(zm, 0)
  BY <1>11, <1>12, <1>13, <1>14 DEF RightBut
<1>16. QED
  BY <1>9, <1>14, <1>15 DEF Blocks, n, zm

\* The same by the code, which compares the sizes of the two lengths and finds no
\* difference: it does not enter the cascade.
LEMMA PrecededIs ==
  ASSUME NEW zl, zl \in Zips, NEW i, i \in 1 .. Len(zl.entry), RightBut(zl, i),
         NEW prev, prev = PrevAt(zl, i)
  PROVE  L!Preceded(zl, i, prev) \in Blocks /\ Len(L!Preceded(zl, i, prev).entry) = Len(zl.entry)
<1>1. L!PrevSize(prev) = 1 /\ zl.entry[i].prevsize = 1
  <2>1. i \in 1 .. Len(zl.entry) + 1 /\ zl.entry[i] \in Entries
    BY ZipIs
  <2>2. QED
    BY <2>1, PrevAtIs, RawIs
<1>2. L!Preceded(zl, i, prev) = L!Resized(zl, i, prev, 0)
  BY <1>1 DEF L!Preceded
<1>3. PICK d : d = 0
  OBVIOUS
<1>4. /\ L!Resized(zl, i, prev, d) \in Blocks
      /\ Len(L!Resized(zl, i, prev, d).entry) = Len(zl.entry)
  BY <1>3, ResizedIs
<1>5. QED
  BY <1>2, <1>3, <1>4

-----------------------------------------------------------------------------
(* Entries put into a sequence and taken out of it.                        *)

\* Two sequences of entries, joined.
LEMMA Joins ==
  ASSUME NEW a, a \in Seq(Entries), NEW b, b \in Seq(Entries), NEW m, m = Len(a), NEW n, n = Len(b)
  PROVE  /\ m \in Nat /\ n \in Nat /\ a \o b \in Seq(Entries) /\ Len(a \o b) = m + n
         /\ \A k \in 1 .. m + n : (a \o b)[k] = IF k <= m THEN a[k] ELSE b[k - m]
  BY ConcatProperties

PutIn(fs, es, i, e) ==
  /\ fs \in Seq(Entries) /\ Len(fs) = Len(es) + 1 /\ fs[i] = e
  /\ \A k \in 1 .. i - 1 : fs[k] = es[k]
  /\ \A k \in i .. Len(es) : fs[k + 1] = es[k]

\* InsertAt puts one entry in.
LEMMA InsertAtIs ==
  ASSUME NEW es, es \in Seq(Entries), NEW i, i \in 1 .. Len(es) + 1, NEW e, e \in Entries
  PROVE  PutIn(L!InsertAt(es, i, e), es, i, e)
<1> DEFINE n == Len(es)
           a == SubSeq(es, 1, i - 1)
           b == SubSeq(es, i, n)
           m == a \o <<e>>
           fs == m \o b
<1>1. n \in Nat /\ i \in 1 .. n + 1
  OBVIOUS
<1>2. L!InsertAt(es, i, e) = fs
  BY DEF L!InsertAt
<1>3. a \in Seq(Entries) /\ Len(a) = i - 1 /\ \A k \in 1 .. i - 1 : a[k] = es[k]
  BY <1>1
<1>4. b \in Seq(Entries) /\ Len(b) = n - i + 1 /\ \A k \in 1 .. n - i + 1 : b[k] = es[i + k - 1]
  BY <1>1
<1> HIDE DEF a, b
<1>5. m \in Seq(Entries) /\ Len(m) = i /\ \A k \in 1 .. i : m[k] = IF k <= i - 1 THEN a[k] ELSE e
  BY <1>1, <1>3
<1> HIDE DEF n, m
<1>6. /\ fs \in Seq(Entries) /\ Len(fs) = i + (n - i + 1)
      /\ \A k \in 1 .. i + (n - i + 1) : fs[k] = IF k <= i THEN m[k] ELSE b[k - i]
  <2> DEFINE p == i
             q == n - i + 1
  <2>1. m \in Seq(Entries) /\ b \in Seq(Entries) /\ p = Len(m) /\ q = Len(b)
    BY <1>4, <1>5
  <2> HIDE DEF p, q
  <2>2. /\ fs \in Seq(Entries) /\ Len(fs) = p + q
        /\ \A k \in 1 .. p + q : fs[k] = IF k <= p THEN m[k] ELSE b[k - p]
    BY ONLY <2>1, Joins
  <2>3. QED
    BY <2>2 DEF p, q
<1> HIDE DEF fs
<1>7. Len(fs) = n + 1 /\ \A k \in 1 .. n + 1 : fs[k] = IF k <= i THEN m[k] ELSE b[k - i]
  BY ONLY <1>1, <1>6
<1>8. fs[i] = e
  BY ONLY <1>1, <1>3, <1>5, <1>7
<1>9. \A k \in 1 .. i - 1 : fs[k] = es[k]
  BY ONLY <1>1, <1>3, <1>5, <1>7
<1>10. ASSUME NEW k \in i .. n PROVE fs[k + 1] = es[k]
  <2>1. k + 1 \in 1 .. n + 1 /\ ~ (k + 1 <= i) /\ (k + 1) - i \in 1 .. n - i + 1 /\ i + ((k + 1) - i) - 1 = k
    BY ONLY <1>1, <1>10
  <2>2. QED
    BY ONLY <1>4, <1>7, <2>1
<1>11. QED
  BY <1>2, <1>6, <1>7, <1>8, <1>9, <1>10 DEF PutIn, n

TakenOut(fs, es, i, d) ==
  /\ fs \in Seq(Entries) /\ Len(fs) = Len(es) - d
  /\ \A k \in 1 .. i - 1 : fs[k] = es[k]
  /\ \A k \in i .. Len(es) - d : fs[k] = es[k + d]

\* What SubSeq leaves of a sequence when d entries are taken out.
LEMMA CutIs ==
  ASSUME NEW es, es \in Seq(Entries), NEW i, i \in 1 .. Len(es) + 1, NEW d, d \in 0 .. Len(es) + 1 - i,
         NEW fs, fs = SubSeq(es, 1, i - 1) \o SubSeq(es, i + d, Len(es))
  PROVE  TakenOut(fs, es, i, d)
<1> DEFINE n == Len(es)
           a == SubSeq(es, 1, i - 1)
           b == SubSeq(es, i + d, n)
           p == i - 1
           q == n - d - i + 1
<1>1. n \in Nat /\ i \in 1 .. n + 1 /\ d \in 0 .. n + 1 - i
  OBVIOUS
<1>2. a \in Seq(Entries) /\ Len(a) = p /\ \A k \in 1 .. p : a[k] = es[k]
  BY <1>1
<1>3. b \in Seq(Entries) /\ Len(b) = q /\ \A k \in 1 .. q : b[k] = es[i + d + k - 1]
  <2> DEFINE j == i + d
  <2>1. j \in 1 .. n + 1 /\ q = n - j + 1
    BY <1>1
  <2> HIDE DEF j, n, q
  <2>2. SubSeq(es, j, n) \in Seq(Entries) /\ Len(SubSeq(es, j, n)) = q
    BY <1>1, <2>1 DEF n
  <2>3. \A k \in 1 .. q : SubSeq(es, j, n)[k] = es[j + k - 1]
    BY <1>1, <2>1 DEF n
  <2>4. QED
    BY <2>2, <2>3 DEF j
<1>4. fs = a \o b
  OBVIOUS
<1> HIDE DEF a, b, n, p, q
<1>5. /\ fs \in Seq(Entries) /\ Len(fs) = p + q
      /\ \A k \in 1 .. p + q : fs[k] = IF k <= p THEN a[k] ELSE b[k - p]
  BY ONLY <1>2, <1>3, <1>4, Joins
<1>6. p + q = n - d /\ p = i - 1 /\ q = n - d - i + 1
  BY ONLY <1>1 DEF p, q
<1>7. \A k \in 1 .. i - 1 : fs[k] = es[k]
  BY ONLY <1>1, <1>2, <1>5, <1>6
<1>8. ASSUME NEW k \in i .. n - d PROVE fs[k] = es[k + d]
  <2>1. k \in 1 .. p + q /\ ~ (k <= p) /\ k - p \in 1 .. q /\ i + d + (k - p) - 1 = k + d
    BY ONLY <1>1, <1>6, <1>8
  <2>2. QED
    BY ONLY <1>3, <1>5, <2>1
<1>9. QED
  BY <1>5, <1>6, <1>7, <1>8 DEF TakenOut, n

SameHead(fs, es, i) ==
  i \in 1 .. Len(es) + 1 /\ i \in 1 .. Len(fs) + 1 /\ \A k \in 1 .. i - 1 : fs[k] = es[k]

SameTail(fs, j, es, i) ==
  /\ i \in 1 .. Len(es) + 1 /\ j \in 1 .. Len(fs) + 1 /\ Len(fs) - j = Len(es) - i
  /\ \A k \in i .. Len(es) : fs[k + (j - i)] = es[k]

\* Where the same entries begin the list, they have the same offsets.
LEMMA SameStart ==
  ASSUME NEW es, es \in Seq(Entries), NEW fs, fs \in Seq(Entries), NEW i, SameHead(fs, es, i),
         NEW zl, es = zl.entry, NEW zm, fs = zm.entry
  PROVE  \A k \in 1 .. i : L!Offset(zm, k) = L!Offset(zl, k)
<1> DEFINE n == Len(es)
           m == Len(fs)
<1>1. /\ n \in Nat /\ m \in Nat /\ i \in 1 .. n + 1 /\ i \in 1 .. m + 1 /\ n = Len(es) /\ m = Len(fs)
      /\ \A k \in 1 .. i - 1 : fs[k] = es[k]
  BY DEF SameHead
<1>2. L!Offset(zl, 1) = 10 /\ L!Offset(zm, 1) = 10
  BY OffsetIs
<1> HIDE DEF n, m
<1>3. ASSUME NEW k \in 1 .. i PROVE L!Offset(zm, k) = L!Offset(zl, k)
  <2>1. PICK a : a = 1
    OBVIOUS
  <2>2. SamePart(es, a, k, fs, a, k)
    <3>1. \A c \in 0 .. k - a - 1 : a + c \in 1 .. i - 1
      BY ONLY <1>1, <1>3, <2>1
    <3>2. \A c \in 0 .. k - a - 1 : L!RawLength(es[a + c]) = L!RawLength(fs[a + c])
      BY <1>1, <3>1
    <3>3. a \in 1 .. n + 1 /\ k \in a .. n + 1 /\ a \in 1 .. m + 1 /\ k \in a .. m + 1
      BY ONLY <1>1, <1>3, <2>1
    <3>4. QED
      BY ONLY <1>1, <3>2, <3>3 DEF SamePart
  <2>3. /\ L!Offset(zl, k) \in Int /\ L!Offset(zm, k) \in Int /\ L!Offset(zl, a) = 10 /\ L!Offset(zm, a) = 10
        /\ L!Offset(zm, k) - L!Offset(zm, a) = L!Offset(zl, k) - L!Offset(zl, a)
    <3>1. es = zl.entry /\ es \in Seq(Entries) /\ fs = zm.entry /\ fs \in Seq(Entries)
      OBVIOUS
    <3>2. QED
      BY ONLY <1>2, <2>1, <2>2, <3>1, OffsetsShift
  <2>4. QED
    BY ONLY <2>3
<1>4. QED
  BY <1>3

\* Where the same entries end the list, they are all as far from their old place.
LEMMA SameEnd ==
  ASSUME NEW es, es \in Seq(Entries), NEW fs, fs \in Seq(Entries),
         NEW i, NEW j, SameTail(fs, j, es, i),
         NEW zl, es = zl.entry, NEW zm, fs = zm.entry,
         NEW len, len \in Int, L!Offset(zm, j) = L!Offset(zl, i) + len
  PROVE  \A k \in i .. Len(es) + 1 : L!Offset(zm, k + (j - i)) = L!Offset(zl, k) + len
<1> DEFINE n == Len(es)
           m == Len(fs)
<1>1. /\ n \in Nat /\ m \in Nat /\ i \in 1 .. n + 1 /\ j \in 1 .. m + 1 /\ n = Len(es) /\ m = Len(fs)
      /\ m - j = n - i /\ \A k \in i .. n : fs[k + (j - i)] = es[k]
  BY DEF SameTail
<1> HIDE DEF n, m
<1>2. ASSUME NEW k \in i .. n + 1 PROVE L!Offset(zm, k + (j - i)) = L!Offset(zl, k) + len
  <2>1. PICK d : d = k + (j - i)
    OBVIOUS
  <2>2. SamePart(es, i, k, fs, j, d)
    <3>1. \A c \in 0 .. k - i - 1 : i + c \in i .. n /\ i + c + (j - i) = j + c
      BY ONLY <1>1, <1>2
    <3>2. \A c \in 0 .. k - i - 1 : L!RawLength(es[i + c]) = L!RawLength(fs[j + c])
      BY <1>1, <3>1
    <3>3. k \in i .. n + 1 /\ d \in j .. m + 1 /\ d - j = k - i
      BY ONLY <1>1, <1>2, <2>1
    <3>4. QED
      BY ONLY <1>1, <3>2, <3>3 DEF SamePart
  <2>3. /\ L!Offset(zl, i) \in Int /\ L!Offset(zm, j) \in Int /\ L!Offset(zl, k) \in Int /\ L!Offset(zm, d) \in Int
        /\ L!Offset(zm, d) - L!Offset(zm, j) = L!Offset(zl, k) - L!Offset(zl, i)
    <3>1. es = zl.entry /\ es \in Seq(Entries) /\ fs = zm.entry /\ fs \in Seq(Entries)
      OBVIOUS
    <3>2. QED
      BY ONLY <2>2, <3>1, OffsetsShift
  <2>4. L!Offset(zm, d) = L!Offset(zl, k) + len
    <3>1. L!Offset(zm, j) = L!Offset(zl, i) + len /\ len \in Int
      OBVIOUS
    <3>2. QED
      BY ONLY <2>3, <3>1
  <2>5. QED
    BY ONLY <2>1, <2>4
<1>3. QED
  BY <1>1, <1>2

\* The n - i + 1 places from i on are len bytes further back.
Moved(zm, zl, i, n, len) ==
  /\ \A k \in 1 .. i : L!Offset(zm, k) = L!Offset(zl, k)
  /\ \A k \in i .. n + 1 : L!Offset(zm, k + 1) = L!Offset(zl, k) + len

\* Where the entries are when one has been put in.
LEMMA PutOffsets ==
  ASSUME NEW es, es \in Seq(Entries), NEW i, i \in 1 .. Len(es) + 1, NEW e, e \in Entries,
         NEW fs, PutIn(fs, es, i, e), NEW zl, es = zl.entry, NEW zm, fs = zm.entry
  PROVE  Moved(zm, zl, i, Len(es), L!RawLength(e))
<1> DEFINE n == Len(es)
<1>1. n \in Nat /\ i \in 1 .. n + 1 /\ n = Len(es)
  OBVIOUS
<1>2. /\ fs \in Seq(Entries) /\ Len(fs) = n + 1 /\ fs[i] = e /\ \A k \in 1 .. i - 1 : fs[k] = es[k]
      /\ \A k \in i .. n : fs[k + 1] = es[k]
  BY DEF PutIn
<1> HIDE DEF n
<1>3. \A k \in 1 .. i : L!Offset(zm, k) = L!Offset(zl, k)
  <2>1. SameHead(fs, es, i)
    BY ONLY <1>1, <1>2 DEF SameHead
  <2>2. QED
    BY <1>2, <2>1, SameStart
<1>4. L!RawLength(e) \in Int
  BY RawIs
<1>5. PICK j : j = i + 1
  OBVIOUS
<1>6. L!Offset(zm, j) = L!Offset(zl, i) + L!RawLength(e)
  <2>1. i \in 1 .. Len(fs) /\ i \in 1 .. i
    BY ONLY <1>1, <1>2
  <2>2. L!Offset(zm, j) = L!Offset(zm, i) + L!RawLength(fs[i])
    BY <1>2, <1>5, <2>1, OffsetIs
  <2>3. QED
    BY <1>2, <1>3, <2>1, <2>2
<1>7. \A k \in i .. n + 1 : L!Offset(zm, k + (j - i)) = L!Offset(zl, k) + L!RawLength(e)
  <2>1. PICK len : len = L!RawLength(e)
    OBVIOUS
  <2>2. j \in 1 .. Len(fs) + 1 /\ Len(fs) - j = n - i /\ \A k \in i .. n : k + (j - i) = k + 1
    BY ONLY <1>1, <1>2, <1>5
  <2>3. \A k \in i .. n : fs[k + (j - i)] = es[k]
    BY ONLY <1>2, <2>2
  <2>6. SameTail(fs, j, es, i)
    BY ONLY <1>1, <2>2, <2>3 DEF SameTail
  <2>4. \A k \in i .. n + 1 : L!Offset(zm, k + (j - i)) = L!Offset(zl, k) + len
    BY <1>1, <1>2, <1>4, <1>6, <2>1, <2>6, SameEnd
  <2>5. QED
    BY ONLY <2>1, <2>4
<1>8. \A k \in i .. n + 1 : L!Offset(zm, k + 1) = L!Offset(zl, k) + L!RawLength(e)
  <2>1. \A k \in i .. n + 1 : k + (j - i) = k + 1
    BY ONLY <1>1, <1>5
  <2>2. QED
    BY ONLY <1>7, <2>1
<1>9. QED
  BY ONLY <1>1, <1>3, <1>8 DEF Moved

PutsIn(zm, zl, i, e) ==
  /\ zm \in Zips /\ PutIn(zm.entry, zl.entry, i, e) /\ zm.bytes = zl.bytes + L!RawLength(e)
  /\ zm.tail = IF i = Len(zl.entry) + 1 THEN zl.bytes - 1 ELSE zl.tail + L!RawLength(e)
  /\ zm.count = L!IncrLength(zl.count, 1)

\* With an entry more, only its successor does not have the right length.
LEMMA PutRight ==
  ASSUME NEW zl, zl \in Blocks, NEW i, i \in 1 .. Len(zl.entry) + 1,
         NEW e, e \in Entries, e.prev = PrevAt(zl, i), e.prevsize >= L!PrevSize(e.prev),
         NEW zm, PutsIn(zm, zl, i, e)
  PROVE  RightBut(zm, i + 1) /\ Len(zm.entry) = Len(zl.entry) + 1
<1> DEFINE n == Len(zl.entry)
           es == zl.entry
           fs == zm.entry
           len == L!RawLength(e)
<1>1. n \in Nat /\ i \in 1 .. n + 1 /\ es \in Seq(Entries) /\ zl \in Zips /\ len \in Int /\ n = Len(es)
  BY ZipIs, RawIs DEF Blocks
<1>2. /\ fs \in Seq(Entries) /\ Len(fs) = n + 1 /\ fs[i] = e
      /\ \A k \in 1 .. i - 1 : fs[k] = es[k]
      /\ \A k \in i .. n : fs[k + 1] = es[k]
  BY DEF PutsIn, PutIn
<1>3. /\ zm.bytes = zl.bytes + len /\ zm.tail = IF i = n + 1 THEN zl.bytes - 1 ELSE zl.tail + len
      /\ zm.count = L!IncrLength(zl.count, 1)
  BY DEF PutsIn
<1>4. /\ zl.bytes = L!Offset(zl, n + 1) + 1
      /\ n # 0 => zl.tail = L!Offset(zl, n)
      /\ zl.count = IF zl.count < MaxCount THEN n ELSE MaxCount
      /\ zl.count \in Int /\ MaxCount \in Nat
  <2>1. n # 0 => es # <<>>
    BY <1>1
  <2>2. /\ zl.bytes = L!Offset(zl, n + 1) + 1
        /\ zl.tail = L!Offset(zl, IF es = <<>> THEN 1 ELSE n)
        /\ zl.count = IF zl.count < MaxCount THEN n ELSE MaxCount
    BY DEF Blocks, RightBut, HeaderRight
  <2>3. zl.count \in Int /\ MaxCount \in Nat
    BY <1>1, ZipIs, ListAssumption
  <2> HIDE DEF n, es
  <2>4. QED
    BY ONLY <2>1, <2>2, <2>3
<1>5. /\ \A k \in 1 .. n : es[k].prevsize >= L!PrevSize(es[k].prev)
      /\ \A k \in 1 .. n : es[k].prev = PrevAt(zl, k)
  <2>1. \A k \in 1 .. n : k # 0
    OBVIOUS
  <2>2. QED
    BY <2>1 DEF Blocks, RightBut
<1>6. /\ \A k \in 1 .. i : L!Offset(zm, k) = L!Offset(zl, k)
      /\ \A k \in i .. n + 1 : L!Offset(zm, k + 1) = L!Offset(zl, k) + len
  <2>1. /\ PutIn(fs, es, i, e) /\ e \in Entries /\ es = zl.entry /\ fs = zm.entry
        /\ len = L!RawLength(e) /\ i \in 1 .. Len(es) + 1
    BY DEF PutsIn
  <2> HIDE DEF n, es, fs, len
  <2>2. es \in Seq(Entries) /\ n = Len(es)
    BY ONLY <1>1
  <2>3. Moved(zm, zl, i, Len(es), L!RawLength(e))
    BY ONLY <2>1, <2>2, PutOffsets
  <2>4. QED
    BY ONLY <2>1, <2>2, <2>3 DEF Moved
<1>7. L!Offset(zl, n + 1) \in Int /\ (n # 0 => L!Offset(zl, n) \in Int)
  <2>1. n + 1 \in 1 .. n + 1 /\ (n # 0 => n \in 1 .. n + 1)
    BY <1>1
  <2>2. QED
    BY <1>1, <2>1, OffsetIs
<1> HIDE DEF n, es, fs, len
<1>8. HeaderRight(zm)
  <2>1. PICK m : m = n + 1
    OBVIOUS
  <2>2. L!Offset(zm, m + 1) = L!Offset(zl, m) + len /\ L!Offset(zl, m) \in Int
    <3>1. m \in i .. n + 1
      BY ONLY <1>1, <2>1
    <3>2. QED
      BY ONLY <1>6, <1>7, <2>1, <3>1
  <2>3. zm.bytes = L!Offset(zm, m + 1) + 1
    BY ONLY <1>1, <1>3, <1>4, <2>1, <2>2
  <2>4. zm.tail = L!Offset(zm, m)
    <3>1. CASE i = n + 1
      <4>1. L!Offset(zm, m) = L!Offset(zl, m)
        BY ONLY <1>1, <1>6, <2>1, <3>1
      <4>2. QED
        BY ONLY <1>1, <1>3, <1>4, <2>1, <2>2, <3>1, <4>1
    <3>2. CASE i # n + 1
      <4>1. n \in i .. n + 1 /\ n # 0
        BY ONLY <1>1, <3>2
      <4>2. L!Offset(zm, n + 1) = L!Offset(zl, n) + len
        BY ONLY <1>6, <4>1
      <4>3. QED
        BY ONLY <1>3, <1>4, <2>1, <3>2, <4>1, <4>2
    <3>3. QED
      BY ONLY <3>1, <3>2
  <2>5. zm.count = IF zm.count < MaxCount THEN m ELSE MaxCount
    BY ONLY <1>1, <1>3, <1>4, <2>1 DEF L!IncrLength
  <2>6. Len(zm.entry) = m /\ zm.entry # <<>>
    BY <1>1, <1>2, <2>1 DEF fs
  <2>7. QED
    BY ONLY <2>3, <2>4, <2>5, <2>6 DEF HeaderRight
<1>9. PICK m : m = n + 1
  OBVIOUS
<1>10. ASSUME NEW k, k \in 1 .. m
       PROVE  /\ fs[k].prevsize >= L!PrevSize(fs[k].prev)
              /\ k # i + 1 => fs[k].prev = PrevAt(zm, k)
  <2>0. k \in Int /\ 1 <= k /\ k <= n + 1 /\ i \in Int /\ 1 <= i /\ i <= n + 1 /\ n \in Int
    BY ONLY <1>1, <1>9, <1>10
  <2>1. CASE k < i
    <3>1. k \in 1 .. i - 1 /\ k \in 1 .. n /\ (k # 1 => k - 1 \in 1 .. i - 1)
      BY ONLY <2>0, <2>1
    <3>2. fs[k] = es[k] /\ (k # 1 => fs[k - 1] = es[k - 1])
      BY ONLY <1>2, <3>1
    <3>3. PrevAt(zm, k) = PrevAt(zl, k)
      BY ONLY <3>2 DEF PrevAt, es, fs
    <3>4. QED
      BY ONLY <1>5, <3>1, <3>2, <3>3
  <2>2. CASE k = i
    <3>1. k # 1 => k - 1 \in 1 .. i - 1
      BY ONLY <2>0, <2>2
    <3>2. k # 1 => fs[k - 1] = es[k - 1]
      BY ONLY <1>2, <3>1
    <3>3. PrevAt(zm, k) = PrevAt(zl, k)
      BY ONLY <3>2 DEF PrevAt, es, fs
    <3>4. e.prev = PrevAt(zl, i) /\ e.prevsize >= L!PrevSize(e.prev)
      OBVIOUS
    <3>5. QED
      BY ONLY <1>2, <2>2, <3>3, <3>4
  <2>3. CASE i < k
    <3>1. PICK j : j = k - 1
      OBVIOUS
    <3>2. j \in i .. n /\ j \in 1 .. n /\ j + 1 = k /\ k # 1
      BY ONLY <2>0, <2>3, <3>1
    <3>3. fs[k] = es[j]
      BY ONLY <1>2, <3>2
    <3>4. ASSUME k # i + 1 PROVE PrevAt(zm, k) = PrevAt(zl, j)
      <4>1. PICK a : a = j - 1
        OBVIOUS
      <4>2. a \in i .. n /\ a + 1 = j /\ j # 1
        BY ONLY <2>0, <3>2, <3>4, <4>1
      <4>3. fs[j] = es[a]
        BY ONLY <1>2, <4>2
      <4>4. k - 1 = j /\ j - 1 = a
        BY ONLY <3>1, <4>1
      <4>5. QED
        BY ONLY <3>2, <4>2, <4>3, <4>4 DEF PrevAt, es, fs
    <3>5. QED
      BY ONLY <1>5, <3>2, <3>3, <3>4
  <2>4. QED
    BY ONLY <2>0, <2>1, <2>2, <2>3
<1>11. Len(zm.entry) = m
  BY <1>2, <1>9 DEF fs
<1>12. RightBut(zm, i + 1)
  BY ONLY <1>8, <1>10, <1>11 DEF RightBut, fs
<1>13. QED
  BY <1>9, <1>11, <1>12 DEF n, es

\* An entry put in and its successor put right: the block is exact.
LEMMA PlacedIs ==
  ASSUME NEW zl, zl \in Blocks, NEW i, i \in 1 .. Len(zl.entry) + 1,
         NEW e, e \in Entries, e.prev = PrevAt(zl, i), e.prevsize >= L!PrevSize(e.prev)
  PROVE  L!PlacedEntry(zl, i, e) \in Blocks /\ Len(L!PlacedEntry(zl, i, e).entry) = Len(zl.entry) + 1
<1> DEFINE n == Len(zl.entry)
           len == L!RawLength(e)
           es == L!InsertAt(zl.entry, i, e)
           b == zl.bytes + len
           t == IF i = n + 1 THEN zl.bytes - 1 ELSE zl.tail + len
           c == L!IncrLength(zl.count, 1)
           zm == [entry |-> es, bytes |-> b, tail |-> t, count |-> c]
<1>1. /\ zl \in Zips /\ zl.entry \in Seq(Entries) /\ n \in Nat /\ i \in 1 .. n + 1 /\ n = Len(zl.entry)
      /\ zl.bytes \in Int /\ zl.tail \in Int /\ zl.count \in Int
  BY ZipIs DEF Blocks
<1>2. PutIn(es, zl.entry, i, e)
  BY <1>1, InsertAtIs
<1>3. len \in Int
  BY RawIs
<1>4. b \in Int /\ t \in Int /\ c \in Int
  <2> HIDE DEF n, len
  <2>1. QED
    BY <1>1, <1>3 DEF L!IncrLength
<1>5. L!PlacedEntry(zl, i, e) = IF i = n + 1 THEN zm ELSE L!Preceded(zm, i + 1, len)
  BY DEF L!PlacedEntry, L!Placed
<1>6. zm = [entry |-> es, bytes |-> b, tail |-> t, count |-> c]
  OBVIOUS
<1>7. es \in Seq(Entries)
  BY <1>2 DEF PutIn
<1> HIDE DEF es, b, t, c, zm
<1>8. zm \in Zips /\ zm.entry = es /\ zm.bytes = b /\ zm.tail = t /\ zm.count = c
  BY ONLY <1>4, <1>6, <1>7, IsZip
<1>9. PutsIn(zm, zl, i, e)
  BY <1>2, <1>8 DEF PutsIn, b, t, c
<1>10. RightBut(zm, i + 1) /\ Len(zm.entry) = n + 1
  BY <1>9, PutRight
<1> HIDE DEF n, len
<1>11. CASE i = n + 1
  <2>1. PICK q : q = i + 1
    OBVIOUS
  <2>2. q \in Nat /\ ~ (q \in 1 .. Len(zm.entry)) /\ RightBut(zm, q)
    BY <1>1, <1>10, <1>11, <2>1
  <2>3. RightBut(zm, 0)
    BY <1>8, <2>2, ButNone
  <2>4. QED
    BY <1>5, <1>8, <1>10, <1>11, <2>3 DEF Blocks, n
<1>12. CASE i # n + 1
  <2>1. PICK q : q = i + 1
    OBVIOUS
  <2>2. q \in 1 .. Len(zm.entry) /\ RightBut(zm, q) /\ q # 1 /\ q - 1 = i
    <3>1. q \in 1 .. Len(zm.entry) /\ q # 1 /\ q - 1 = i
      BY ONLY <1>1, <1>10, <1>12, <2>1
    <3>2. QED
      BY <3>1, <1>10, <2>1
  <2>3. len = PrevAt(zm, q)
    BY <1>2, <1>8, <2>2 DEF PrevAt, PutIn, len
  <2>4. L!Preceded(zm, q, len) \in Blocks /\ Len(L!Preceded(zm, q, len).entry) = Len(zm.entry)
    BY <1>8, <2>2, <2>3, PrecededIs
  <2>5. QED
    BY <1>5, <1>10, <1>12, <2>1, <2>4 DEF n
<1>13. QED
  BY <1>11, <1>12

\* An offset is that of one entry.
LEMMA EntryAtIs ==
  ASSUME NEW zl, zl \in Zips
  PROVE  /\ \A x : L!EntryAt(zl, x) \in 0 .. Len(zl.entry)
         /\ \A k \in 1 .. Len(zl.entry) : L!EntryAt(zl, L!Offset(zl, k)) = k
<1> DEFINE n == Len(zl.entry)
           At(x) == {k \in 1 .. n : L!Offset(zl, k) = x}
<1>1. zl.entry \in Seq(Entries) /\ n \in Nat /\ DOMAIN zl.entry = 1 .. n /\ n = Len(zl.entry)
  BY ZipIs
<1>2. \A x : L!EntryAt(zl, x) = IF At(x) = {} THEN 0 ELSE S!Max(At(x))
  BY <1>1 DEF L!EntryAt, L!Max, S!Max
<1>3. ASSUME NEW x PROVE L!EntryAt(zl, x) \in 0 .. n
  <2>1. At(x) \in SUBSET (1 .. n)
    OBVIOUS
  <2>2. At(x) # {} => S!Max(At(x)) \in At(x)
    <3> HIDE DEF At, n
    <3>1. QED
      BY <1>1, <2>1, MaxIs
  <2>3. CASE At(x) = {}
    <3> HIDE DEF At, n
    <3>1. L!EntryAt(zl, x) = 0
      BY <1>2, <2>3
    <3>2. QED
      BY <1>1, <3>1
  <2>4. CASE At(x) # {}
    <3>1. S!Max(At(x)) \in 1 .. n
      BY <2>1, <2>2, <2>4
    <3> HIDE DEF At, n
    <3>2. L!EntryAt(zl, x) \in 1 .. n
      BY <1>2, <2>4, <3>1
    <3>3. QED
      BY <1>1, <3>2
  <2>5. QED
    BY <2>3, <2>4
<1>4. ASSUME NEW k, k \in 1 .. n PROVE L!EntryAt(zl, L!Offset(zl, k)) = k
  <2>1. ASSUME NEW j, j \in 1 .. n, j # k PROVE L!Offset(zl, j) # L!Offset(zl, k)
    <3>1. j \in 1 .. n + 1 /\ k \in 1 .. n + 1 /\ (j < k \/ k < j)
      BY ONLY <1>1, <1>4, <2>1
    <3>2. L!Offset(zl, j) \in Int /\ L!Offset(zl, k) \in Int
      BY <1>1, <3>1, OffsetIs
    <3>3. CASE j < k
      <4>1. L!Offset(zl, j) < L!Offset(zl, k)
        BY <1>1, <3>1, <3>3, OffsetsIncrease
      <4>2. QED
        BY ONLY <3>2, <4>1
    <3>4. CASE k < j
      <4>1. L!Offset(zl, k) < L!Offset(zl, j)
        BY <1>1, <3>1, <3>4, OffsetsIncrease
      <4>2. QED
        BY ONLY <3>2, <4>1
    <3>5. QED
      BY <3>1, <3>3, <3>4
  <2>2. PICK x : x = L!Offset(zl, k)
    OBVIOUS
  <2>3. At(x) = {k}
    BY <1>4, <2>1, <2>2
  <2>4. S!Max({k}) = k
    <3>1. {k} \in SUBSET (1 .. n) /\ {k} # {}
      BY <1>4
    <3> HIDE DEF n
    <3>2. S!Max({k}) \in {k}
      BY <1>1, <3>1, MaxIs
    <3>3. QED
      BY <3>2
  <2>5. QED
    <3> HIDE DEF At
    <3>1. L!EntryAt(zl, x) = k
      BY <1>2, <2>3, <2>4
    <3>2. QED
      BY <2>2, <3>1
<1>5. QED
  BY <1>3, <1>4

\* __ziplistInsert keeps the layout.
LEMMA InsertKeeps ==
  ASSUME NEW zl, zl \in Blocks, NEW i, i \in 1 .. Len(zl.entry) + 1, NEW v, v \in Short
  PROVE  L!ziplistInsert(zl, i, v) \in Blocks /\ Len(L!ziplistInsert(zl, i, v).entry) = Len(zl.entry) + 1
<1> DEFINE n == Len(zl.entry)
           prevlen == IF i = n + 1 THEN L!LengthAt(zl, L!EntryAt(zl, zl.tail)) ELSE zl.entry[i].prev
           e == L!NewEntry(prevlen, v)
<1>1. zl \in Zips /\ n \in Nat /\ i \in 1 .. n + 1 /\ n = Len(zl.entry) /\ zl.entry \in Seq(Entries)
  BY ZipIs DEF Blocks
<1>2. L!ziplistInsert(zl, i, v) = L!PlacedEntry(zl, i, e)
  BY DEF L!ziplistInsert
<1>3. prevlen = PrevAt(zl, i)
  <2>1. CASE i # n + 1
    <3>1. i \in 1 .. n /\ i # 0
      BY <1>1, <2>1
    <3>2. zl.entry[i].prev = PrevAt(zl, i)
      BY <3>1 DEF Blocks, RightBut
    <3>3. QED
      BY <2>1, <3>2
  <2>2. CASE i = n + 1 /\ n = 0
    <3>1. L!EntryAt(zl, zl.tail) = 0
      <4>1. L!EntryAt(zl, zl.tail) \in 0 .. n
        BY <1>1, EntryAtIs
      <4>2. QED
        BY <1>1, <2>2, <4>1
    <3>2. i = 1
      BY <2>2
    <3>3. QED
      BY <2>2, <3>1, <3>2 DEF L!LengthAt, PrevAt
  <2>3. CASE i = n + 1 /\ n # 0
    <3>1. zl.entry # <<>> /\ n \in 1 .. n /\ i # 1 /\ i - 1 = n
      BY <1>1, <2>3
    <3>2. zl.tail = L!Offset(zl, n)
      BY <3>1 DEF Blocks, RightBut, HeaderRight
    <3>3. L!EntryAt(zl, zl.tail) = n
      <4> HIDE DEF n
      <4>1. L!EntryAt(zl, L!Offset(zl, n)) = n
        BY <1>1, <3>1, EntryAtIs
      <4>2. QED
        BY <3>2, <4>1
    <3>4. QED
      BY <2>3, <3>1, <3>3 DEF L!LengthAt, PrevAt
  <2>4. QED
    BY <2>1, <2>2, <2>3
<1>4. prevlen \in Nat /\ L!PrevSize(prevlen) = 1
  <2>1. PrevAt(zl, i) \in Nat /\ L!PrevSize(PrevAt(zl, i)) = 1
    BY <1>1, PrevAtIs
  <2>2. QED
    BY <1>3, <2>1
<1> HIDE DEF prevlen
<1>5. e = [prevsize |-> 1, prev |-> prevlen, val |-> v]
  BY <1>4 DEF L!NewEntry
<1>6. e \in Entries /\ e.prev = prevlen /\ e.prevsize >= L!PrevSize(e.prev)
  <2> HIDE DEF e
  <2>1. e \in Entries /\ e.prev = prevlen /\ e.prevsize = 1
    BY <1>4, <1>5 DEF Entries
  <2>2. QED
    BY <1>4, <2>1
<1> HIDE DEF e, n
<1>7. QED
  BY <1>2, <1>3, <1>6, PlacedIs

TakesOut(zm, zl, i, d, len) ==
  /\ zm \in Zips /\ TakenOut(zm.entry, zl.entry, i, d) /\ zm.bytes = zl.bytes - len
  /\ zm.tail = IF i + d = Len(zl.entry) + 1 THEN L!Offset(zl, i) - zl.entry[i].prev ELSE zl.tail - len
  /\ zm.count = L!IncrLength(zl.count, - d)

\* The bytes of d entries from i on.
Measures(len, zl, i, d) ==
  /\ i \in 1 .. Len(zl.entry) /\ d \in 1 .. Len(zl.entry) + 1 - i
  /\ len = L!Offset(zl, i + d) - L!Offset(zl, i)

\* Where the entries are when some have been taken out.
LEMMA TakenOffsets ==
  ASSUME NEW es, es \in Seq(Entries), NEW i, NEW d, NEW fs, TakenOut(fs, es, i, d),
         NEW zl, es = zl.entry, NEW zm, fs = zm.entry, NEW len, Measures(len, zl, i, d)
  PROVE  /\ \A k \in 1 .. i : L!Offset(zm, k) = L!Offset(zl, k)
         /\ \A k \in i .. Len(es) + 1 - d : L!Offset(zm, k) = L!Offset(zl, k + d) - len
         /\ len \in Int
<1> DEFINE n == Len(es)
<1>1. n \in Nat /\ i \in 1 .. n /\ n = Len(es) /\ d \in 1 .. n + 1 - i
  BY DEF Measures
<1>2. /\ fs \in Seq(Entries) /\ Len(fs) = n - d /\ \A k \in 1 .. i - 1 : fs[k] = es[k]
      /\ \A k \in i .. n - d : fs[k] = es[k + d]
  BY DEF TakenOut
<1> HIDE DEF n
<1>3. \A k \in 1 .. i : L!Offset(zm, k) = L!Offset(zl, k)
  <2>1. SameHead(fs, es, i)
    <3>1. i \in 1 .. n + 1 /\ i \in 1 .. n - d + 1
      BY ONLY <1>1
    <3>2. QED
      BY ONLY <1>1, <1>2, <3>1 DEF SameHead
  <2>2. QED
    BY <1>2, <2>1, SameStart
<1>4. PICK j : j = i + d
  OBVIOUS
<1>5. /\ L!Offset(zl, i) \in Int /\ L!Offset(zl, j) \in Int
      /\ len = L!Offset(zl, j) - L!Offset(zl, i) /\ len \in Int
  <2>1. i \in 1 .. n + 1 /\ j \in 1 .. n + 1
    BY ONLY <1>1, <1>4
  <2>2. L!Offset(zl, i) \in Int /\ L!Offset(zl, j) \in Int
    BY <1>1, <2>1, OffsetIs
  <2>3. len = L!Offset(zl, j) - L!Offset(zl, i)
    BY <1>4 DEF Measures
  <2>4. QED
    BY ONLY <2>2, <2>3
<1>6. \A k \in j .. n + 1 : L!Offset(zm, k + (i - j)) = L!Offset(zl, k) - len
  <2>1. PICK len2 : len2 = - len
    OBVIOUS
  <2>2. SameTail(fs, i, es, j)
    <3>1. /\ j \in 1 .. n + 1 /\ i \in 1 .. Len(fs) + 1 /\ Len(fs) - i = n - j
          /\ \A k \in j .. n : k + (i - j) \in i .. n - d /\ k + (i - j) + d = k
      BY ONLY <1>1, <1>2, <1>4
    <3>2. \A k \in j .. n : fs[k + (i - j)] = es[k]
      BY ONLY <1>2, <3>1
    <3>3. QED
      BY ONLY <1>1, <3>1, <3>2 DEF SameTail
  <2>3. i \in 1 .. i
    BY ONLY <1>1
  <2>4. L!Offset(zm, i) = L!Offset(zl, j) + len2 /\ len2 \in Int
    BY ONLY <1>3, <1>5, <2>1, <2>3
  <2>5. \A k \in j .. n + 1 : L!Offset(zm, k + (i - j)) = L!Offset(zl, k) + len2
    <3>1. es \in Seq(Entries) /\ es = zl.entry /\ fs = zm.entry
      OBVIOUS
    <3>2. QED
      BY ONLY <1>1, <1>2, <2>2, <2>4, <3>1, SameEnd
  <2>6. \A k \in j .. n + 1 : L!Offset(zl, k) \in Int
    <3>1. \A k \in j .. n + 1 : k \in 1 .. n + 1
      BY ONLY <1>1, <1>4
    <3>2. QED
      BY <1>1, <3>1, OffsetIs
  <2>7. QED
    BY ONLY <1>5, <2>1, <2>5, <2>6
<1>7. ASSUME NEW k, k \in i .. n + 1 - d PROVE L!Offset(zm, k) = L!Offset(zl, k + d) - len
  <2>1. PICK m : m = k + d
    OBVIOUS
  <2>2. m \in j .. n + 1 /\ m + (i - j) = k
    BY ONLY <1>1, <1>4, <1>7, <2>1
  <2>3. QED
    BY ONLY <1>6, <2>1, <2>2
<1>8. QED
  BY <1>1, <1>3, <1>5, <1>7

\* Without d entries, only the one that followed them may not have the right length.
LEMMA TakenRight ==
  ASSUME NEW zl, zl \in Blocks, NEW i, NEW d, NEW len, Measures(len, zl, i, d),
         NEW zm, TakesOut(zm, zl, i, d, len)
  PROVE  RightBut(zm, i) /\ Len(zm.entry) = Len(zl.entry) - d /\ (i # 1 => zm.entry[i - 1] = zl.entry[i - 1])
<1> DEFINE n == Len(zl.entry)
           es == zl.entry
           fs == zm.entry
<1>1. n \in Nat /\ i \in 1 .. n /\ d \in 1 .. n + 1 - i /\ es \in Seq(Entries) /\ zl \in Zips /\ n = Len(es)
  BY ZipIs DEF Blocks, Measures
<1>2. /\ fs \in Seq(Entries) /\ Len(fs) = n - d
      /\ \A k \in 1 .. i - 1 : fs[k] = es[k]
      /\ \A k \in i .. n - d : fs[k] = es[k + d]
  BY DEF TakesOut, TakenOut
<1>3. /\ zm.bytes = zl.bytes - len
      /\ zm.tail = IF i + d = n + 1 THEN L!Offset(zl, i) - es[i].prev ELSE zl.tail - len
      /\ zm.count = L!IncrLength(zl.count, - d)
  BY DEF TakesOut
<1>4. /\ zl.bytes = L!Offset(zl, n + 1) + 1
      /\ zl.tail = L!Offset(zl, n)
      /\ zl.count = IF zl.count < MaxCount THEN n ELSE MaxCount
      /\ zl.count \in Int /\ MaxCount \in Nat
  <2>1. es # <<>>
    BY <1>1
  <2>2. /\ zl.bytes = L!Offset(zl, n + 1) + 1
        /\ zl.tail = L!Offset(zl, IF es = <<>> THEN 1 ELSE n)
        /\ zl.count = IF zl.count < MaxCount THEN n ELSE MaxCount
    BY DEF Blocks, RightBut, HeaderRight
  <2>3. zl.count \in Int /\ MaxCount \in Nat
    BY <1>1, ZipIs, ListAssumption
  <2> HIDE DEF n, es
  <2>4. QED
    BY ONLY <2>1, <2>2, <2>3
<1>5. /\ \A k \in 1 .. n : es[k].prevsize >= L!PrevSize(es[k].prev)
      /\ \A k \in 1 .. n : es[k].prev = PrevAt(zl, k)
  <2>1. \A k \in 1 .. n : k # 0
    OBVIOUS
  <2>2. QED
    BY <2>1 DEF Blocks, RightBut
<1>6. /\ \A k \in 1 .. i : L!Offset(zm, k) = L!Offset(zl, k)
      /\ \A k \in i .. n + 1 - d : L!Offset(zm, k) = L!Offset(zl, k + d) - len
      /\ len \in Int
  <2>1. TakenOut(fs, es, i, d)
    BY DEF TakesOut
  <2> HIDE DEF n
  <2>2. Measures(len, zl, i, d)
    OBVIOUS
  <2>3. es = zl.entry /\ fs = zm.entry
    OBVIOUS
  <2> HIDE DEF es, fs
  <2>4. QED
    BY ONLY <1>1, <2>1, <2>2, <2>3, TakenOffsets
<1>7. \A k \in 1 .. n + 1 : L!Offset(zl, k) \in Int
  BY <1>1, OffsetIs
<1>8. \A k \in 1 .. n : L!Offset(zl, k + 1) = L!Offset(zl, k) + L!RawLength(es[k]) /\ L!RawLength(es[k]) \in Int
  <2>1. \A k \in 1 .. n : es[k] \in Entries
    BY <1>1
  <2>2. QED
    BY <1>1, <2>1, OffsetIs, RawIs
<1> HIDE DEF n, es, fs
<1>9. PICK m : m = n - d
  OBVIOUS
<1>10. m \in Nat /\ m + d = n /\ m + 1 + d = n + 1 /\ i \in 1 .. m + 1 /\ m \in 0 .. n /\ n + 1 - d = m + 1
  BY ONLY <1>1, <1>9
<1>11. HeaderRight(zm)
  <2>1. L!Offset(zm, m + 1) = L!Offset(zl, n + 1) - len /\ L!Offset(zl, n + 1) \in Int
    <3>1. PICK a : a = m + 1
      OBVIOUS
    <3>2. a \in i .. n + 1 - d /\ a + d = n + 1 /\ n + 1 \in 1 .. n + 1
      BY ONLY <1>1, <1>10, <3>1
    <3>3. QED
      BY ONLY <1>6, <1>7, <3>1, <3>2
  <2>2. zm.bytes = L!Offset(zm, m + 1) + 1
    BY ONLY <1>3, <1>4, <1>6, <2>1
  <2>3. ASSUME m # 0 PROVE zm.tail = L!Offset(zm, m)
    <3>1. CASE i = m + 1
      <4>1. m \in 1 .. n /\ i - 1 = m /\ i # 1 /\ m \in 1 .. i /\ m + 1 = i /\ i + d = n + 1
        BY ONLY <1>1, <1>10, <2>3, <3>1
      <4>2. es[i].prev = L!RawLength(es[m])
        BY ONLY <1>1, <1>5, <4>1 DEF PrevAt, es
      <4>3. L!Offset(zl, i) = L!Offset(zl, m) + L!RawLength(es[m]) /\ L!RawLength(es[m]) \in Int
        BY ONLY <1>8, <4>1
      <4>4. L!Offset(zl, m) \in Int /\ L!Offset(zm, m) = L!Offset(zl, m)
        <5>1. m \in 1 .. n + 1
          BY ONLY <1>1, <4>1
        <5>2. QED
          BY ONLY <1>6, <1>7, <4>1, <5>1
      <4>5. QED
        BY ONLY <1>3, <4>1, <4>2, <4>3, <4>4
    <3>2. CASE i # m + 1
      <4>1. m \in i .. n + 1 - d /\ m + d = n /\ i + d # n + 1
        BY ONLY <1>1, <1>10, <3>2
      <4>2. L!Offset(zm, m) = L!Offset(zl, n) - len
        BY ONLY <1>6, <4>1
      <4>3. QED
        BY ONLY <1>3, <1>4, <4>1, <4>2
    <3>3. QED
      BY <3>1, <3>2
  <2>4. ASSUME m = 0 PROVE zm.tail = L!Offset(zm, 1)
    <3>1. i = 1 /\ i + d = n + 1 /\ 1 \in 1 .. i /\ 1 \in 1 .. n + 1 /\ 1 \in 1 .. n
      BY ONLY <1>1, <1>10, <2>4
    <3>2. es[i].prev = 0
      BY ONLY <1>5, <3>1 DEF PrevAt
    <3>3. L!Offset(zm, 1) = L!Offset(zl, 1) /\ L!Offset(zl, 1) \in Int
      BY ONLY <1>6, <1>7, <3>1
    <3>4. QED
      BY ONLY <1>3, <3>1, <3>2, <3>3
  <2>5. zm.count = IF zm.count < MaxCount THEN m ELSE MaxCount
    BY ONLY <1>1, <1>3, <1>4, <1>9, <1>10 DEF L!IncrLength
  <2>6. Len(zm.entry) = m /\ (zm.entry = <<>> <=> m = 0)
    <3>1. fs \in Seq(Entries) /\ Len(fs) = m
      BY <1>2, <1>9
    <3>2. fs = <<>> <=> m = 0
      BY ONLY <3>1
    <3>3. QED
      BY ONLY <3>1, <3>2 DEF fs
  <2>7. QED
    BY ONLY <2>2, <2>3, <2>4, <2>5, <2>6 DEF HeaderRight
<1>12. ASSUME NEW k, k \in 1 .. m
       PROVE  /\ fs[k].prevsize >= L!PrevSize(fs[k].prev)
              /\ k # i => fs[k].prev = PrevAt(zm, k)
  <2>0. k \in Int /\ 1 <= k /\ k <= m /\ i \in Int /\ 1 <= i /\ i <= n /\ n \in Int /\ d \in Int /\ m \in Int
        /\ 1 <= d /\ m = n - d
    BY ONLY <1>1, <1>9, <1>10, <1>12
  <2>1. CASE k < i
    <3>1. k \in 1 .. i - 1 /\ k \in 1 .. n /\ (k # 1 => k - 1 \in 1 .. i - 1)
      BY ONLY <2>0, <2>1
    <3>2. fs[k] = es[k] /\ (k # 1 => fs[k - 1] = es[k - 1])
      BY ONLY <1>2, <3>1
    <3>3. PrevAt(zm, k) = PrevAt(zl, k)
      BY ONLY <3>2 DEF PrevAt, es, fs
    <3>4. QED
      BY ONLY <1>5, <3>1, <3>2, <3>3
  <2>2. CASE ~ (k < i)
    <3>1. PICK j : j = k + d
      OBVIOUS
    <3>2. k \in i .. n - d /\ j \in 1 .. n /\ j # 1
      BY ONLY <2>0, <2>2, <3>1
    <3>3. fs[k] = es[j]
      BY ONLY <1>2, <3>1, <3>2
    <3>4. ASSUME k # i PROVE PrevAt(zm, k) = PrevAt(zl, j)
      <4>1. PICK a : a = k - 1
        OBVIOUS
      <4>2. a \in i .. n - d /\ a + d = j - 1 /\ k # 1
        BY ONLY <2>0, <2>2, <3>1, <3>4, <4>1
      <4>3. fs[k - 1] = es[j - 1]
        BY ONLY <1>2, <4>1, <4>2
      <4>4. QED
        BY ONLY <3>2, <4>2, <4>3 DEF PrevAt, es, fs
    <3>5. QED
      BY ONLY <1>5, <3>2, <3>3, <3>4
  <2>3. QED
    BY ONLY <2>1, <2>2
<1>13. RightBut(zm, i) /\ Len(fs) = m
  <2>1. Len(zm.entry) = m
    BY <1>2, <1>9 DEF fs
  <2>2. QED
    BY ONLY <1>11, <1>12, <2>1 DEF RightBut, fs
<1>14. i # 1 => fs[i - 1] = es[i - 1]
  <2>1. i # 1 => i - 1 \in 1 .. i - 1
    BY ONLY <1>1
  <2>2. QED
    BY ONLY <1>2, <2>1
<1>15. QED
  BY <1>9, <1>13, <1>14 DEF n, es, fs

\* Entries taken out and their successor put right: the block is exact.
LEMMA DeletedIs ==
  ASSUME NEW zl, zl \in Blocks, NEW i, NEW d, NEW len, Measures(len, zl, i, d)
  PROVE  L!Deleted(zl, i, d, len) \in Blocks /\ Len(L!Deleted(zl, i, d, len).entry) = Len(zl.entry) - d
<1> DEFINE n == Len(zl.entry)
           toEnd == i + d = n + 1
           es == SubSeq(zl.entry, 1, i - 1) \o SubSeq(zl.entry, i + d, n)
           b == zl.bytes - len
           t == IF toEnd THEN L!Offset(zl, i) - zl.entry[i].prev ELSE zl.tail - len
           c == L!IncrLength(zl.count, - d)
           zm == [entry |-> es, bytes |-> b, tail |-> t, count |-> c]
<1>1. /\ zl \in Zips /\ zl.entry \in Seq(Entries) /\ n \in Nat /\ n = Len(zl.entry)
      /\ i \in 1 .. n /\ d \in 1 .. n + 1 - i
      /\ zl.bytes \in Int /\ zl.tail \in Int /\ zl.count \in Int
  BY ZipIs DEF Blocks, Measures
<1>2. len \in Int /\ L!Offset(zl, i) \in Int /\ len > 0 /\ zl.entry[i].prev \in Int
  <2>1. PICK j : j = i + d
    OBVIOUS
  <2>2. i \in 1 .. n + 1 /\ j \in 1 .. n + 1 /\ i < j
    BY ONLY <1>1, <2>1
  <2>3. L!Offset(zl, i) \in Int /\ L!Offset(zl, j) \in Int
    BY <1>1, <2>2, OffsetIs
  <2>4. L!Offset(zl, i) < L!Offset(zl, j)
    BY <1>1, <2>2, OffsetsIncrease
  <2>5. len = L!Offset(zl, j) - L!Offset(zl, i)
    BY <2>1 DEF Measures
  <2>6. zl.entry[i].prev \in Int
    <3>1. zl.entry[i] \in Entries
      BY <1>1
    <3>2. QED
      BY <3>1, RawIs
  <2>7. QED
    BY ONLY <2>3, <2>4, <2>5, <2>6
<1>3. TakenOut(es, zl.entry, i, d)
  <2>1. i \in 1 .. n + 1 /\ d \in 0 .. n + 1 - i
    BY ONLY <1>1
  <2> HIDE DEF es
  <2>2. es = SubSeq(zl.entry, 1, i - 1) \o SubSeq(zl.entry, i + d, Len(zl.entry))
    BY DEF es
  <2>3. QED
    BY <1>1, <2>1, <2>2, CutIs
<1>4. b \in Int /\ t \in Int /\ c \in Int
  <2>1. b \in Int
    BY <1>1, <1>2
  <2>2. c \in Int
    <3>1. PICK m : m = - d
      OBVIOUS
    <3>2. m \in Int /\ zl.count \in Int
      BY ONLY <1>1, <3>1
    <3>3. L!IncrLength(zl.count, m) \in Int
      BY ONLY <3>2 DEF L!IncrLength
    <3>4. QED
      BY <3>1, <3>3
  <2>3. t \in Int
    <3>1. CASE toEnd
      <4>1. t = L!Offset(zl, i) - zl.entry[i].prev
        BY <3>1
      <4> HIDE DEF t
      <4>2. QED
        BY ONLY <1>2, <4>1
    <3>2. CASE ~ toEnd
      <4>1. t = zl.tail - len
        BY <3>2
      <4> HIDE DEF t
      <4>2. QED
        BY ONLY <1>1, <1>2, <4>1
    <3>3. QED
      BY <3>1, <3>2
  <2>4. QED
    BY ONLY <2>1, <2>2, <2>3
<1>5. L!Deleted(zl, i, d, len) = IF len = 0 THEN zl ELSE IF toEnd THEN zm ELSE L!Preceded(zm, i, zl.entry[i].prev)
  BY DEF L!Deleted
<1>6. zm = [entry |-> es, bytes |-> b, tail |-> t, count |-> c]
  OBVIOUS
<1>7. es \in Seq(Entries)
  BY <1>3 DEF TakenOut
<1> HIDE DEF es, b, t, c, zm
<1>8. zm \in Zips /\ zm.entry = es /\ zm.bytes = b /\ zm.tail = t /\ zm.count = c
  BY ONLY <1>4, <1>6, <1>7, IsZip
<1>9. TakesOut(zm, zl, i, d, len)
  BY <1>3, <1>8 DEF TakesOut, b, t, c
<1>10. RightBut(zm, i) /\ Len(zm.entry) = n - d /\ (i # 1 => zm.entry[i - 1] = zl.entry[i - 1])
  BY <1>9, TakenRight
<1> HIDE DEF n
<1>11. CASE toEnd
  <2>1. i \in Nat /\ ~ (i \in 1 .. Len(zm.entry))
    BY ONLY <1>1, <1>10, <1>11
  <2>2. RightBut(zm, 0)
    BY <1>8, <1>10, <2>1, ButNone
  <2>3. L!Deleted(zl, i, d, len) = zm
    BY ONLY <1>2, <1>5, <1>11
  <2>4. QED
    BY <1>8, <1>10, <2>2, <2>3 DEF Blocks, n
<1>12. CASE ~ toEnd
  <2>1. i \in 1 .. Len(zm.entry) /\ i # 0
    BY ONLY <1>1, <1>10, <1>12
  <2>2. zl.entry[i].prev = PrevAt(zm, i)
    <3>1. zl.entry[i].prev = PrevAt(zl, i)
      BY <1>1, <2>1 DEF Blocks, RightBut, n
    <3>2. PrevAt(zl, i) = PrevAt(zm, i)
      BY ONLY <1>10 DEF PrevAt
    <3>3. QED
      BY <3>1, <3>2
  <2>3. PICK prev : prev = zl.entry[i].prev
    OBVIOUS
  <2>4. L!Preceded(zm, i, prev) \in Blocks /\ Len(L!Preceded(zm, i, prev).entry) = Len(zm.entry)
    BY <1>8, <1>10, <2>1, <2>2, <2>3, PrecededIs
  <2>5. L!Deleted(zl, i, d, len) = L!Preceded(zm, i, prev)
    BY ONLY <1>2, <1>5, <1>12, <2>3
  <2>6. QED
    BY <1>10, <2>4, <2>5 DEF n
<1>13. QED
  BY <1>11, <1>12

\* The lesser of two numbers.
LEMMA MinOf ==
  ASSUME NEW a, a \in Nat, NEW b, b \in Nat
  PROVE  L!Min({a, b}) = IF a <= b THEN a ELSE b
<1>1. L!Min({a, b}) \in {a, b} /\ \A x \in {a, b} : L!Min({a, b}) <= x
  <2>1. \E x \in {a, b} : \A y \in {a, b} : x <= y
    OBVIOUS
  <2>2. QED
    BY <2>1 DEF L!Min
<1>2. QED
  BY <1>1

\* __ziplistDelete keeps the layout.
LEMMA DeleteFromKeeps ==
  ASSUME NEW zl, zl \in Blocks, NEW i, i \in 1 .. Len(zl.entry) + 1, NEW num, num \in Nat
  PROVE  /\ L!DeleteFrom(zl, i, num) \in Blocks
         /\ num = 1 /\ i <= Len(zl.entry) => Len(L!DeleteFrom(zl, i, num).entry) = Len(zl.entry) - 1
<1> DEFINE n == Len(zl.entry)
           d == L!Min({num, n + 1 - i})
           len == L!Offset(zl, i + d) - L!Offset(zl, i)
<1>1. /\ zl \in Zips /\ zl.entry \in Seq(Entries) /\ n \in Nat /\ n = Len(zl.entry) /\ i \in 1 .. n + 1
  BY ZipIs DEF Blocks
<1>2. d \in 0 .. n + 1 - i /\ (d = 0 => num = 0 \/ i = n + 1) /\ (num = 1 /\ i <= n => d = 1)
  <2>1. PICK m : m = n + 1 - i
    OBVIOUS
  <2>2. m \in Nat
    BY ONLY <1>1, <2>1
  <2> HIDE DEF n
  <2>3. L!Min({num, m}) = IF num <= m THEN num ELSE m
    BY <2>2, MinOf
  <2>4. d = IF num <= m THEN num ELSE m
    BY <2>1, <2>3
  <2> HIDE DEF d
  <2>5. num \in Nat
    OBVIOUS
  <2>6. QED
    BY ONLY <1>1, <2>1, <2>2, <2>4, <2>5
<1>3. L!DeleteFrom(zl, i, num) = L!Deleted(zl, i, d, len)
  BY DEF L!DeleteFrom
<1>4. len = L!Offset(zl, i + d) - L!Offset(zl, i)
  OBVIOUS
<1> HIDE DEF n, d, len
<1>5. CASE d = 0
  <2>1. PICK j : j = i + d
    OBVIOUS
  <2>2. j = i /\ i \in 1 .. n + 1
    BY ONLY <1>1, <1>5, <2>1
  <2>3. L!Offset(zl, i) \in Int
    BY <1>1, <2>2, OffsetIs
  <2>4. len = 0
    BY ONLY <1>4, <2>1, <2>2, <2>3
  <2>5. L!Deleted(zl, i, d, len) = zl
    BY <2>4 DEF L!Deleted
  <2>6. ~ (num = 1 /\ i <= n)
    BY ONLY <1>2, <1>5
  <2>7. QED
    BY <1>1, <1>3, <2>5, <2>6
<1>6. CASE d # 0
  <2>1. Measures(len, zl, i, d)
    <3>1. i \in 1 .. n /\ d \in 1 .. n + 1 - i
      BY ONLY <1>1, <1>2, <1>6
    <3>2. QED
      BY ONLY <1>1, <1>4, <3>1 DEF Measures
  <2>2. L!Deleted(zl, i, d, len) \in Blocks /\ Len(L!Deleted(zl, i, d, len).entry) = n - d
    BY <1>1, <2>1, DeletedIs
  <2>3. QED
    BY <1>1, <1>2, <1>3, <2>2
<1>7. QED
  BY <1>5, <1>6

\* ziplistDelete
LEMMA DeleteKeeps ==
  ASSUME NEW zl, zl \in Blocks, NEW i, i \in 1 .. Len(zl.entry)
  PROVE  L!ziplistDelete(zl, i) \in Blocks /\ Len(L!ziplistDelete(zl, i).entry) = Len(zl.entry) - 1
<1>1. zl \in Zips
  BY DEF Blocks
<1>2. i \in 1 .. Len(zl.entry) + 1 /\ i <= Len(zl.entry)
  BY <1>1, ZipIs
<1>3. PICK num : num = 1
  OBVIOUS
<1>4. num \in Nat /\ num = 1
  BY <1>3
<1>5. /\ L!DeleteFrom(zl, i, num) \in Blocks
      /\ Len(L!DeleteFrom(zl, i, num).entry) = Len(zl.entry) - 1
  BY <1>2, <1>4, DeleteFromKeeps
<1>6. QED
  BY <1>3, <1>5 DEF L!ziplistDelete

-----------------------------------------------------------------------------
(* The way to an entry.                                                    *)

\* One step back from the tail.
BackStep(o, k, zl) ==
  IF o.at = 0 \/ zl.entry[o.at].prev = 0 THEN o
  ELSE [at |-> L!ziplistPrev(zl, o.at), left |-> o.left - 1]

BackRounds(f, sq, base, zl) ==
  [s \in SUBSET DOMAIN sq |->
     IF s = {} THEN base ELSE BackStep(f[s \ {L!Max(s)}], sq[L!Max(s)], zl)]

BackLoop(sq, base, zl) == (CHOOSE f : f = BackRounds(f, sq, base, zl))[DOMAIN sq]

BackStays(sq, B, n, zl) == \A b \in B, i \in 1 .. n : BackStep(b, sq[i], zl) \in B

BackRuns(r, sq, base, n, zl) ==
  r[0] = base /\ \A k \in 1 .. n : r[k] = BackStep(r[k - 1], sq[k], zl)

\* The loop from the tail towards the head, round by round.
LEMMA BackLoopIs ==
  ASSUME NEW B, NEW base \in B, NEW n \in Nat, NEW sq, NEW zl, DOMAIN sq = 1 .. n,
         BackStays(sq, B, n, zl)
  PROVE  \E r \in [0 .. n -> B] : BackRuns(r, sq, base, n, zl) /\ r[n] = BackLoop(sq, base, zl)
<1> DEFINE iter == CHOOSE f : f = BackRounds(f, sq, base, zl)
           C == B \cup {iter[s] : s \in SUBSET (1 .. n)}
           F == [p \in C \X (1 .. n) |-> BackStep(p[1], sq[p[2]], zl)]
           Is(f) == \A s \in SUBSET (1 .. n) :
                      f[s] = IF s = {} THEN base ELSE BackStep(f[s \ {L!Max(s)}], sq[L!Max(s)], zl)
<1>1. \A c \in C, i \in 1 .. n : F[<<c, i>>] = BackStep(c, sq[i], zl)
  OBVIOUS
<1>2. B \subseteq C /\ \A s \in SUBSET (1 .. n) : iter[s] \in C
  OBVIOUS
<1> HIDE DEF F, C
<1>3. \A b \in B, i \in 1 .. n : F[<<b, i>>] = BackStep(b, sq[i], zl) /\ F[<<b, i>>] \in B
  BY <1>1, <1>2 DEF BackStays
<1>4. PICK g : g \in [SUBSET (1 .. n) -> B] /\ Loops(g, F, base, n)
  BY <1>3, LoopRuns
<1>5. ASSUME NEW f, \A s \in SUBSET (1 .. n) : f[s] \in C
      PROVE  Is(f) <=> Loops(f, F, base, n)
  <2>1. ASSUME NEW s \in SUBSET (1 .. n), s # {}
        PROVE  /\ L!Max(s) = S!Max(s)
               /\ F[<<f[s \ {S!Max(s)}], S!Max(s)>>] = BackStep(f[s \ {L!Max(s)}], sq[L!Max(s)], zl)
    <3> DEFINE x == S!Max(s)
    <3>1. x \in s
      BY <2>1, MaxIs
    <3>2. L!Max(s) = x
      BY DEF L!Max, S!Max
    <3> HIDE DEF x
    <3>3. s \ {x} \in SUBSET (1 .. n) /\ x \in 1 .. n
      BY <3>1
    <3>4. F[<<f[s \ {x}], x>>] = BackStep(f[s \ {x}], sq[x], zl)
      BY <3>3, <1>1, <1>5
    <3>5. QED
      BY <3>2, <3>4 DEF x
  <2>2. QED
    BY <2>1 DEF Loops
<1> HIDE DEF Is
<1>6. g = BackRounds(g, sq, base, zl)
  <2> DEFINE h == BackRounds(g, sq, base, zl)
  <2>1. \A s \in SUBSET (1 .. n) : g[s] \in C
    BY <1>2, <1>4
  <2>2. Is(g)
    BY <2>1, <1>4, <1>5
  <2>3. h = [s \in SUBSET (1 .. n) |->
               IF s = {} THEN base ELSE BackStep(g[s \ {L!Max(s)}], sq[L!Max(s)], zl)]
    BY DEF BackRounds
  <2> HIDE DEF h
  <2>4. g = h
    BY <1>4, <2>2, <2>3 DEF Is
  <2>5. QED
    BY <2>4 DEF h
<1>7. iter = BackRounds(iter, sq, base, zl)
  BY <1>6
<1>8. BackLoop(sq, base, zl) = iter[1 .. n]
  BY DEF BackLoop
<1> HIDE DEF iter
<1>9. Loops(iter, F, base, n)
  <2> DEFINE h == BackRounds(iter, sq, base, zl)
  <2>1. \A s \in SUBSET (1 .. n) :
          h[s] = IF s = {} THEN base ELSE BackStep(iter[s \ {L!Max(s)}], sq[L!Max(s)], zl)
    BY DEF BackRounds
  <2> HIDE DEF h
  <2>2. iter = h
    BY <1>7 DEF h
  <2>3. Is(iter)
    BY <2>1, <2>2 DEF Is
  <2>4. QED
    BY <2>3, <1>2, <1>5
<1>10. PICK r \in [0 .. n -> B] : Unrolled(r, F, base, n) /\ r[n] = iter[1 .. n]
  <2>1. Stays(F, B, n)
    BY <1>3 DEF Stays
  <2>2. QED
    BY <2>1, <1>9, LoopUnrolled
<1>11. ASSUME NEW k \in 1 .. n PROVE r[k] = BackStep(r[k - 1], sq[k], zl)
  <2>1. r[k - 1] \in B
    BY <1>10
  <2>2. QED
    BY <2>1, <1>3, <1>10 DEF Unrolled
<1>12. QED
  BY <1>8, <1>10, <1>11 DEF Unrolled, BackRuns

\* ziplistPrev stays in the block.
LEMMA PrevIs ==
  ASSUME NEW zl, zl \in Zips, NEW i
  PROVE  L!ziplistPrev(zl, i) \in 0 .. Len(zl.entry)
<1>1. Len(zl.entry) \in Nat /\ \A x : L!EntryAt(zl, x) \in 0 .. Len(zl.entry)
  BY ZipIs, EntryAtIs
<1>2. 0 \in 0 .. Len(zl.entry)
  BY <1>1
<1>3. QED
  BY <1>1, <1>2 DEF L!ziplistPrev

\* ziplistNext stays in the block.
LEMMA NextIs ==
  ASSUME NEW zl, zl \in Zips, NEW i, i \in Nat
  PROVE  L!ziplistNext(zl, i) \in 0 .. Len(zl.entry)
<1>1. Len(zl.entry) \in Nat
  BY ZipIs
<1>2. L!ziplistNext(zl, i) = IF i >= Len(zl.entry) THEN 0 ELSE i + 1
  BY DEF L!ziplistNext
<1>3. QED
  BY <1>1, <1>2

\* As many steps back from the tail.
BackFrom(zl, steps) ==
  BackLoop([k \in 1 .. steps |-> k], [at |-> L!EntryAt(zl, zl.tail), left |-> steps], zl)

BackResult(zl, steps) == IF BackFrom(zl, steps).left > 0 THEN 0 ELSE BackFrom(zl, steps).at

\* The two directions of ziplistIndex.
LEMMA IndexUnfolds ==
  ASSUME NEW zl, NEW index, index \in Int, NEW steps, steps = - index - 1
  PROVE  /\ index >= 0 => L!ziplistIndex(zl, index) = IF index < Len(zl.entry) THEN index + 1 ELSE 0
         /\ ~ (index >= 0) => L!ziplistIndex(zl, index) = BackResult(zl, steps)
<1>1. L!ziplistIndex(zl, index) = IF index >= 0 THEN IF index < Len(zl.entry) THEN index + 1 ELSE 0
                                  ELSE BackResult(zl, steps)
  BY DEF L!ziplistIndex, L!FoldLeft, L!MapThenFoldSet, BackResult, BackFrom, BackLoop, BackRounds, BackStep
<1>2. QED
  BY <1>1

\* ziplistIndex names an entry, or none.
LEMMA IndexIs ==
  ASSUME NEW zl, zl \in Zips, NEW index, index \in Int
  PROVE  L!ziplistIndex(zl, index) \in 0 .. Len(zl.entry)
<1> DEFINE n == Len(zl.entry)
           steps == - index - 1
           sq == [k \in 1 .. steps |-> k]
           base == [at |-> L!EntryAt(zl, zl.tail), left |-> steps]
           o == BackFrom(zl, steps)
           B == [at : 0 .. n, left : Int]
<1>1. n \in Nat
  BY ZipIs
<1>2. /\ index >= 0 => L!ziplistIndex(zl, index) = IF index < n THEN index + 1 ELSE 0
      /\ ~ (index >= 0) => L!ziplistIndex(zl, index) = BackResult(zl, steps)
  <2> DEFINE d == steps
  <2>1. d = - index - 1
    OBVIOUS
  <2> HIDE DEF d
  <2>2. /\ index >= 0 => L!ziplistIndex(zl, index) = IF index < Len(zl.entry) THEN index + 1 ELSE 0
        /\ ~ (index >= 0) => L!ziplistIndex(zl, index) = BackResult(zl, d)
    BY <2>1, IndexUnfolds
  <2>3. QED
    BY <2>2 DEF d
<1>3. base \in B
  <2>1. L!EntryAt(zl, zl.tail) \in 0 .. n
    BY EntryAtIs
  <2>2. steps \in Int
    OBVIOUS
  <2> HIDE DEF steps
  <2>3. QED
    BY <2>1, <2>2
<1>4. DOMAIN sq = 1 .. steps
  OBVIOUS
<1>5. BackStays(sq, B, steps, zl)
  <2>1. ASSUME NEW b \in B, NEW k PROVE BackStep(b, k, zl) \in B
    <3>1. L!ziplistPrev(zl, b.at) \in 0 .. n
      BY PrevIs
    <3>2. b.left - 1 \in Int
      OBVIOUS
    <3> HIDE DEF n
    <3>3. [at |-> L!ziplistPrev(zl, b.at), left |-> b.left - 1] \in B
      BY <3>1, <3>2
    <3> HIDE DEF B
    <3>4. QED
      BY <3>3 DEF BackStep
  <2> HIDE DEF B
  <2>2. QED
    BY <2>1 DEF BackStays
<1>6. CASE index >= 0
  <2>1. L!ziplistIndex(zl, index) = IF index < n THEN index + 1 ELSE 0
    BY <1>2, <1>6
  <2> HIDE DEF n
  <2>2. L!ziplistIndex(zl, index) \in 0 .. n
    BY <1>1, <1>6, <2>1
  <2>3. QED
    BY <2>2 DEF n
<1>7. CASE ~ (index >= 0)
  <2>1. steps \in Nat
    BY <1>7
  <2>2. o \in B
    <3>0. o = BackLoop(sq, base, zl)
      BY DEF BackFrom
    <3> HIDE DEF B, steps, sq, base, o
    <3>1. PICK r \in [0 .. steps -> B] : r[steps] = BackLoop(sq, base, zl)
      BY <1>3, <1>4, <1>5, <2>1, BackLoopIs
    <3>2. QED
      BY <2>1, <3>0, <3>1
  <2> HIDE DEF o
  <2>3. o.at \in 0 .. n
    BY <2>2
  <2>4. L!ziplistIndex(zl, index) = IF o.left > 0 THEN 0 ELSE o.at
    BY <1>2, <1>7 DEF BackResult, o
  <2>5. 0 \in 0 .. n
    BY <1>1
  <2>6. QED
    BY <2>3, <2>4, <2>5 DEF n
<1>8. QED
  BY <1>6, <1>7

\* ziplistDeleteRange
LEMMA DeleteRangeKeeps ==
  ASSUME NEW zl, zl \in Blocks, NEW index, index \in Int, NEW num, num \in Nat
  PROVE  L!ziplistDeleteRange(zl, index, num) \in Blocks
<1> DEFINE i == L!ziplistIndex(zl, index)
<1>1. i \in 0 .. Len(zl.entry) /\ Len(zl.entry) \in Nat
  BY IndexIs, ZipIs DEF Blocks
<1>2. L!ziplistDeleteRange(zl, index, num) = IF i = 0 THEN zl ELSE L!DeleteFrom(zl, i, num)
  BY DEF L!ziplistDeleteRange
<1> HIDE DEF i
<1>3. CASE i = 0
  BY <1>2, <1>3
<1>4. CASE i # 0
  <2>1. i \in 1 .. Len(zl.entry) + 1
    BY <1>1, <1>4
  <2>2. QED
    BY <1>2, <1>4, <2>1, DeleteFromKeeps
<1>5. QED
  BY <1>3, <1>4

\* ziplistNew
LEMMA NewKeeps == L!ziplistNew \in Blocks /\ Len(L!ziplistNew.entry) = 0
<1> DEFINE zm == L!ziplistNew
           es == <<>>
<1>1. es \in Seq(Entries) /\ Len(es) = 0 /\ 10 \in Int /\ 11 \in Int /\ 0 \in Int
  OBVIOUS
<1>2. zm = [entry |-> es, bytes |-> 11, tail |-> 10, count |-> 0]
  BY DEF L!ziplistNew, L!HeaderSize
<1> HIDE DEF es, zm
<1>3. zm \in Zips /\ zm.entry = es /\ zm.bytes = 11 /\ zm.tail = 10 /\ zm.count = 0
  <2>1. PICK b \in Int, x \in Int, c \in Int : b = 11 /\ x = 10 /\ c = 0
    BY <1>1
  <2>2. zm = [entry |-> es, bytes |-> b, tail |-> x, count |-> c]
    BY ONLY <1>2, <2>1
  <2>3. zm \in Zips /\ zm.entry = es /\ zm.bytes = b /\ zm.tail = x /\ zm.count = c
    <3>1. es \in Seq(Entries)
      BY <1>1
    <3>2. b \in Int /\ x \in Int /\ c \in Int
      OBVIOUS
    <3>3. QED
      BY ONLY <2>2, <3>1, <3>2, IsZip
  <2>4. QED
    BY ONLY <2>1, <2>3
<1>4. L!Offset(zm, 1) = 10
  BY <1>1, <1>3, OffsetIs
<1>5. HeaderRight(zm)
  <2>1. es = <<>>
    BY DEF es
  <2>2. MaxCount \in Nat
    BY ListAssumption
  <2>3. zm.bytes = L!Offset(zm, Len(zm.entry) + 1) + 1
    BY <1>1, <1>3, <1>4
  <2>4. zm.tail = L!Offset(zm, IF zm.entry = <<>> THEN 1 ELSE Len(zm.entry))
    BY <1>3, <1>4, <2>1
  <2>5. zm.count = IF zm.count < MaxCount THEN Len(zm.entry) ELSE MaxCount
    <3>1. MaxCount > 0
      BY ListAssumption
    <3>2. QED
      BY <1>1, <1>3, <3>1
  <2>6. QED
    BY <2>3, <2>4, <2>5 DEF HeaderRight
<1>6. RightBut(zm, 0)
  BY <1>1, <1>3, <1>5 DEF RightBut
<1>7. QED
  BY <1>1, <1>3, <1>6 DEF Blocks, zm

\* ziplistLen may write the count again: the entries stay.
LEMMA CountedKeeps ==
  ASSUME NEW zl, zl \in Blocks
  PROVE  L!Counted(zl) \in Blocks /\ L!Counted(zl).entry = zl.entry
<1> DEFINE c == IF zl.count = MaxCount /\ Len(zl.entry) < MaxCount THEN Len(zl.entry) ELSE zl.count
           zm == L!Counted(zl)
<1>1. /\ zl \in Zips /\ zl.entry \in Seq(Entries) /\ Len(zl.entry) \in Nat
      /\ zl.bytes \in Int /\ zl.tail \in Int /\ zl.count \in Int
      /\ zl = [entry |-> zl.entry, bytes |-> zl.bytes, tail |-> zl.tail, count |-> zl.count]
  BY ZipIs DEF Blocks
<1>2. c \in Int
  BY <1>1
<1>3. zm = [zl EXCEPT !.count = c]
  BY DEF L!Counted
<1> HIDE DEF zm, c
<1>4. zm = [entry |-> zl.entry, bytes |-> zl.bytes, tail |-> zl.tail, count |-> c]
  BY ONLY <1>1, <1>3
<1>5. zm \in Zips /\ zm.entry = zl.entry /\ zm.bytes = zl.bytes /\ zm.tail = zl.tail /\ zm.count = c
  BY ONLY <1>1, <1>2, <1>4, IsZip
<1>6. /\ \A i \in 1 .. Len(zl.entry) : zl.entry[i].prevsize >= L!PrevSize(zl.entry[i].prev)
      /\ \A i \in 1 .. Len(zl.entry) : i # 0 => zl.entry[i].prev = PrevAt(zl, i)
      /\ zl.bytes = L!Offset(zl, Len(zl.entry) + 1) + 1
      /\ zl.tail = L!Offset(zl, IF zl.entry = <<>> THEN 1 ELSE Len(zl.entry))
      /\ zl.count = IF zl.count < MaxCount THEN Len(zl.entry) ELSE MaxCount
  BY DEF Blocks, RightBut, HeaderRight
<1>7. \A x : L!Offset(zm, x) = L!Offset(zl, x) /\ PrevAt(zm, x) = PrevAt(zl, x)
  BY <1>5 DEF L!Offset, PrevAt
<1>8. c = IF c < MaxCount THEN Len(zl.entry) ELSE MaxCount
  <2>1. MaxCount \in Nat
    BY ListAssumption
  <2>2. QED
    BY <1>1, <1>6, <2>1 DEF c
<1>9. HeaderRight(zm)
  BY <1>5, <1>6, <1>7, <1>8 DEF HeaderRight
<1>10. RightBut(zm, 0)
  BY ONLY <1>5, <1>6, <1>7, <1>9 DEF RightBut
<1>11. QED
  BY <1>5, <1>10 DEF Blocks, zm

-----------------------------------------------------------------------------
(* The list under the key, in both forms.                                  *)

\* One argument of LPUSH or RPUSH.
PushStep(p, v, head) == L!listTypePush(p, v, head)

PushRounds(f, sq, base, head) ==
  [s \in SUBSET DOMAIN sq |->
     IF s = {} THEN base ELSE PushStep(f[s \ {L!Max(s)}], sq[L!Max(s)], head)]

PushLoop(sq, base, head) == (CHOOSE f : f = PushRounds(f, sq, base, head))[DOMAIN sq]

PushLoops(g, sq, base, n, head) ==
  \A s \in SUBSET (1 .. n) :
    g[s] = IF s = {} THEN base ELSE PushStep(g[s \ {S!Max(s)}], sq[S!Max(s)], head)

PushRuns(r, sq, base, n, head) ==
  r[0] = base /\ \A k \in 1 .. n : r[k] = PushStep(r[k - 1], sq[k], head)

\* The loop over the pushed values has a result for each number of values.
LEMMA PushLoopRuns ==
  ASSUME NEW n \in Nat, NEW sq, NEW base, NEW head
  PROVE  \E g : PushLoops(g, sq, base, n, head)
<1> DEFINE Bad == {k \in 0 .. n : ~ \E g : PushLoops(g, sq, base, k, head)}
<1>1. Bad = {}
  <2> SUFFICES ASSUME Bad # {} PROVE FALSE
    OBVIOUS
  <2>1. PICK b \in Bad : \A x \in Bad : b <= x
    <3>1. Bad \subseteq Nat
      OBVIOUS
    <3> HIDE DEF Bad
    <3>2. QED
      BY <3>1, Least
  <2>2. b \in 0 .. n /\ ~ \E g : PushLoops(g, sq, base, b, head)
    OBVIOUS
  <2>3. b # 0
    <3> DEFINE g == [s \in SUBSET (1 .. 0) |-> base]
    <3>1. SUBSET (1 .. 0) = {{}}
      OBVIOUS
    <3>2. \A s \in SUBSET (1 .. 0) : s = {} /\ g[s] = base
      BY <3>1
    <3> HIDE DEF g
    <3>3. PushLoops(g, sq, base, 0, head)
      BY <3>2 DEF PushLoops
    <3>4. QED
      BY <3>3, <2>2
  <2>4. b - 1 \in 0 .. n /\ b \in 1 .. n /\ b \in Nat /\ b - 1 \notin Bad
    <3>1. b - 1 \in 0 .. n /\ b \in 1 .. n /\ b \in Nat /\ ~ (b <= b - 1)
      BY <2>2, <2>3
    <3> HIDE DEF Bad
    <3>2. QED
      BY <3>1, <2>1
  <2>5. PICK f : PushLoops(f, sq, base, b - 1, head)
    BY <2>4
  <2> HIDE DEF Bad
  <2> DEFINE old == SUBSET (1 .. b - 1)
             g == [s \in SUBSET (1 .. b) |-> IF b \in s THEN PushStep(f[s \ {b}], sq[b], head) ELSE f[s]]
  <2>6. ASSUME NEW s \in SUBSET (1 .. b)
        PROVE  /\ b \in s => s \ {b} \in old
               /\ b \notin s => s \in old
    BY <2>4
  <2>7. \A s \in SUBSET (1 .. b) : g[s] = IF b \in s THEN PushStep(f[s \ {b}], sq[b], head) ELSE f[s]
    OBVIOUS
  <2> HIDE DEF g
  <2>9. \A s \in old : g[s] = f[s]
    <3>1. \A s \in old : s \in SUBSET (1 .. b) /\ b \notin s
      BY <2>4
    <3>2. QED
      BY <3>1, <2>7
  <2>10. ASSUME NEW s \in SUBSET (1 .. b), s # {}
         PROVE  g[s] = PushStep(g[s \ {S!Max(s)}], sq[S!Max(s)], head)
    <3> DEFINE x == S!Max(s)
    <3>1. x \in s /\ \A y \in s : y <= x
      BY <2>4, <2>10, MaxIs
    <3> HIDE DEF x
    <3>2. CASE b \in s
      <4>1. x = b
        BY <3>1, <3>2, <2>4
      <4>2. g[s \ {b}] = f[s \ {b}]
        BY <3>2, <2>6, <2>9
      <4>3. g[s] = PushStep(f[s \ {b}], sq[b], head)
        BY <3>2, <2>7
      <4>4. QED
        BY <4>1, <4>2, <4>3 DEF x
    <3>3. CASE b \notin s
      <4>1. s \in old /\ s \ {x} \in old
        BY <3>3, <2>6
      <4>2. f[s] = PushStep(f[s \ {x}], sq[x], head)
        BY <4>1, <2>5, <2>10 DEF PushLoops, x
      <4>3. g[s] = f[s] /\ g[s \ {x}] = f[s \ {x}]
        BY <4>1, <2>9
      <4>4. QED
        BY <4>2, <4>3 DEF x
    <3>4. QED
      BY <3>2, <3>3
  <2>11. ASSUME NEW s \in SUBSET (1 .. b), s = {}
         PROVE  g[s] = base
    <3>1. s \in old
      BY <2>11
    <3>2. f[s] = base
      BY <2>5, <2>11, <3>1 DEF PushLoops
    <3>3. QED
      BY <3>1, <3>2, <2>9
  <2>12. PushLoops(g, sq, base, b, head)
    BY <2>10, <2>11 DEF PushLoops
  <2>13. QED
    BY <2>2, <2>12
<1>2. n \in 0 .. n /\ n \notin Bad
  <2>1. n \in 0 .. n
    OBVIOUS
  <2> HIDE DEF Bad
  <2>2. QED
    BY <1>1, <2>1
<1>3. QED
  BY <1>2

\* The loop over the pushed values, round by round.
LEMMA PushLoopIs ==
  ASSUME NEW n \in Nat, NEW sq, NEW base, NEW head, DOMAIN sq = 1 .. n
  PROVE  \E r : PushRuns(r, sq, base, n, head) /\ r[n] = PushLoop(sq, base, head)
<1> DEFINE iter == CHOOSE f : f = PushRounds(f, sq, base, head)
           r == [k \in 0 .. n |-> iter[1 .. k]]
<1>1. PICK g : PushLoops(g, sq, base, n, head)
  BY PushLoopRuns
<1>2. \A s \in SUBSET (1 .. n) : L!Max(s) = S!Max(s)
  BY DEF L!Max, S!Max
<1>3. \E h : h = PushRounds(h, sq, base, head)
  <2> DEFINE h == [s \in SUBSET (1 .. n) |-> g[s]]
             q == PushRounds(h, sq, base, head)
  <2>1. \A s \in SUBSET (1 .. n) : h[s] = g[s]
    OBVIOUS
  <2>2. q = [s \in SUBSET (1 .. n) |->
               IF s = {} THEN base ELSE PushStep(h[s \ {L!Max(s)}], sq[L!Max(s)], head)]
    BY DEF PushRounds
  <2>3. h = [s \in SUBSET (1 .. n) |-> g[s]]
    OBVIOUS
  <2> HIDE DEF h, q
  <2>4. ASSUME NEW s \in SUBSET (1 .. n)
        PROVE  g[s] = IF s = {} THEN base ELSE PushStep(h[s \ {L!Max(s)}], sq[L!Max(s)], head)
    <3>1. CASE s = {}
      BY <1>1, <3>1 DEF PushLoops
    <3>2. CASE s # {}
      <4> DEFINE x == S!Max(s)
      <4>1. s \ {x} \in SUBSET (1 .. n) /\ L!Max(s) = x
        BY <1>2
      <4>2. g[s] = PushStep(g[s \ {x}], sq[x], head)
        BY <1>1, <3>2 DEF PushLoops
      <4> HIDE DEF x
      <4>3. h[s \ {x}] = g[s \ {x}]
        BY <2>1, <4>1
      <4>4. QED
        BY <3>2, <4>1, <4>2, <4>3
    <3>3. QED
      BY <3>1, <3>2
  <2>5. h = q
    BY ONLY <2>2, <2>3, <2>4
  <2>6. QED
    BY <2>5 DEF q
<1>4. iter = PushRounds(iter, sq, base, head)
  BY <1>3
<1>5. PushLoop(sq, base, head) = iter[1 .. n]
  BY DEF PushLoop
<1> HIDE DEF iter
<1>6. \A s \in SUBSET (1 .. n) :
        iter[s] = IF s = {} THEN base ELSE PushStep(iter[s \ {L!Max(s)}], sq[L!Max(s)], head)
  <2> DEFINE q == PushRounds(iter, sq, base, head)
  <2>1. \A s \in SUBSET (1 .. n) :
          q[s] = IF s = {} THEN base ELSE PushStep(iter[s \ {L!Max(s)}], sq[L!Max(s)], head)
    BY DEF PushRounds
  <2>2. iter = q
    BY <1>4
  <2> HIDE DEF q
  <2>3. QED
    BY <2>1, <2>2
<1>7. \A k \in 0 .. n : r[k] = iter[1 .. k]
  OBVIOUS
<1> HIDE DEF r
<1>8. r[0] = base
  <2>1. 0 \in 0 .. n /\ 1 .. 0 = {} /\ {} \in SUBSET (1 .. n)
    OBVIOUS
  <2>2. iter[{}] = base
    BY <1>6, <2>1
  <2>3. QED
    BY <1>7, <2>1, <2>2
<1>9. ASSUME NEW k \in 1 .. n PROVE r[k] = PushStep(r[k - 1], sq[k], head)
  <2> DEFINE s == 1 .. k
  <2>1. s \in SUBSET (1 .. n) /\ s # {} /\ S!Max(s) = k /\ s \ {k} = 1 .. k - 1
    BY LastIs
  <2>2. k \in 0 .. n /\ k - 1 \in 0 .. n
    OBVIOUS
  <2> HIDE DEF s
  <2>3. L!Max(s) = k
    BY <1>2, <2>1
  <2>4. iter[s] = PushStep(iter[1 .. k - 1], sq[k], head)
    BY <1>6, <2>1, <2>3
  <2>5. QED
    BY <1>7, <2>2, <2>4 DEF s
<1>10. n \in 0 .. n
  OBVIOUS
<1>11. QED
  BY <1>5, <1>7, <1>8, <1>9, <1>10 DEF PushRuns

Exact(o) == L!IsZiplist(o) => o.zl \in Blocks

\* What is under the key between two commands: no empty list.
Full(o) == L!IsZiplist(o) => o.zl \in Blocks /\ Len(o.zl.entry) # 0

\* The two forms of a list, and no list, are different things.
LEMMA FormsAre ==
  /\ \A zl : L!IsZiplist(L!Zipped(zl)) /\ L!Zipped(zl).zl = zl
  /\ \A l : ~ L!IsZiplist(L!Linked(l))
  /\ ~ L!IsZiplist(L!Missing) /\ ~ L!IsZiplist(Missing) /\ L!Missing = Missing
  BY DEF L!IsZiplist, L!Zipped, L!Linked, L!Missing, Missing

\* A list in a ziplist.
LEMMA ZippedIs ==
  ASSUME NEW zl, zl \in Blocks, NEW o, o = L!Zipped(zl)
  PROVE  L!IsZiplist(o) /\ o.zl = zl /\ Exact(o) /\ (Len(zl.entry) # 0 => Full(o))
  BY FormsAre DEF Exact, Full

\* Of a list in another form nothing is asked.
LEMMA OtherIs ==
  ASSUME NEW o, ~ L!IsZiplist(o)
  PROVE  Full(o) /\ Exact(o)
  BY DEF Exact, Full

\* A block with entries is a block.
LEMMA FullIs ==
  ASSUME NEW o, Full(o)
  PROVE  Exact(o)
  BY DEF Exact, Full

\* ziplistLen counts the entries.
LEMMA LengthIs ==
  ASSUME NEW zl, zl \in Blocks
  PROVE  L!ziplistLen(zl) = Len(zl.entry) /\ Len(zl.entry) \in Nat
<1>1. zl.count = IF zl.count < MaxCount THEN Len(zl.entry) ELSE MaxCount
  BY DEF Blocks, RightBut, HeaderRight
<1>2. Len(zl.entry) \in Nat
  BY ZipIs DEF Blocks
<1>3. QED
  BY <1>1, <1>2 DEF L!ziplistLen

\* listTypeConvert leaves a linked list.
LEMMA ConvertedIs ==
  ASSUME NEW o
  PROVE  ~ L!IsZiplist(L!listTypeConvert(o))
  BY FormsAre DEF L!listTypeConvert

\* listTypeTryConversion leaves the ziplist as it is or leaves a linked list, and
\* for a long element always a linked list.
LEMMA TryKeeps ==
  ASSUME NEW o, NEW v, NEW p, p = L!listTypeTryConversion(o, v)
  PROVE  /\ Exact(o) => Exact(p)
         /\ Full(o) => Full(p)
         /\ p = o \/ ~ L!IsZiplist(p)
         /\ v \in Elements /\ L!IsZiplist(p) => v \in Short
<1>1. p = o \/ ~ L!IsZiplist(p)
  BY ConvertedIs DEF L!listTypeTryConversion
<1>2. v \in Elements /\ L!IsZiplist(p) => v \in Short
  BY ConvertedIs DEF L!listTypeTryConversion, Short
<1>3. QED
  BY <1>1, <1>2, OtherIs

\* listTypeLength may write the count of the block again.
LEMMA MeasuredKeeps ==
  ASSUME NEW o, NEW p, p = L!Measured(o)
  PROVE  /\ Exact(o) => Exact(p)
         /\ Full(o) => Full(p)
         /\ L!IsZiplist(p) => L!IsZiplist(o)
<1>1. CASE ~ L!IsZiplist(o)
  BY <1>1 DEF L!Measured
<1>2. CASE L!IsZiplist(o)
  <2> DEFINE zl == o.zl
             zm == L!Counted(zl)
  <2>1. p = L!Zipped(zm)
    BY <1>2 DEF L!Measured
  <2>2. zl \in Blocks => zm \in Blocks /\ zm.entry = zl.entry
    BY CountedKeeps
  <2>3. (Exact(o) => zl \in Blocks) /\ (Full(o) => zl \in Blocks /\ Len(zl.entry) # 0)
    BY <1>2 DEF Exact, Full
  <2> HIDE DEF zl, zm
  <2>4. zm \in Blocks => Exact(p) /\ (Len(zm.entry) # 0 => Full(p))
    BY <2>1, ZippedIs
  <2>5. QED
    BY <1>2, <2>2, <2>3, <2>4
<1>3. QED
  BY <1>1, <1>2

\* listTypePush, for either end and either form.
LEMMA PushedKeeps ==
  ASSUME NEW o, Exact(o), NEW v, L!IsZiplist(o) => v \in Short, NEW head
  PROVE  Full(L!Pushed(o, v, head))
<1>1. CASE ~ L!IsZiplist(o)
  <2>1. ~ L!IsZiplist(L!Pushed(o, v, head))
    BY <1>1, FormsAre DEF L!Pushed
  <2>2. QED
    BY <2>1, OtherIs
<1>2. CASE L!IsZiplist(o)
  <2> DEFINE zl == o.zl
             i == IF head THEN 1 ELSE Len(zl.entry) + 1
             zm == L!ziplistInsert(zl, i, v)
             p == L!Pushed(o, v, head)
  <2>1. p = L!Zipped(zm)
    BY <1>2 DEF L!Pushed, L!ziplistPush
  <2>2. zl \in Blocks /\ Len(zl.entry) \in Nat /\ v \in Short
    BY <1>2, ZipIs DEF Exact, Blocks
  <2>3. i \in 1 .. Len(zl.entry) + 1
    <3> HIDE DEF zl
    <3>1. CASE i = 1
      BY <2>2, <3>1
    <3>2. CASE i = Len(zl.entry) + 1
      BY <2>2, <3>2
    <3>3. QED
      BY <3>1, <3>2
  <2> HIDE DEF zl, i
  <2>4. zm \in Blocks /\ Len(zm.entry) = Len(zl.entry) + 1
    BY <2>2, <2>3, InsertKeeps
  <2>5. Len(zm.entry) # 0
    BY <2>2, <2>4
  <2> HIDE DEF zm, p
  <2>6. Full(p)
    BY <2>1, <2>4, <2>5, ZippedIs
  <2>7. QED
    BY <2>6 DEF p
<1>3. QED
  BY <1>1, <1>2

\* listTypePush
LEMMA TypePushKeeps ==
  ASSUME NEW o, Exact(o), NEW v, v \in Elements, NEW head
  PROVE  Full(L!listTypePush(o, v, head))
<1> DEFINE p == L!listTypeTryConversion(o, v)
           q == L!Measured(p)
           r == L!Roomy(q)
<1>1. Exact(p) /\ (L!IsZiplist(p) => v \in Short)
  <2> HIDE DEF p
  <2>1. p = L!listTypeTryConversion(o, v)
    BY DEF p
  <2>2. QED
    BY <2>1, TryKeeps
<1> HIDE DEF p
<1>2. Exact(q) /\ (L!IsZiplist(q) => L!IsZiplist(p))
  <2> HIDE DEF q
  <2>1. q = L!Measured(p)
    BY DEF q
  <2>2. QED
    BY <1>1, <2>1, MeasuredKeeps
<1> HIDE DEF q
<1>3. Exact(r) /\ (L!IsZiplist(r) => L!IsZiplist(q))
  <2>1. r = q \/ ~ L!IsZiplist(r)
    BY ConvertedIs DEF L!Roomy
  <2> HIDE DEF r
  <2>2. QED
    BY <1>2, <2>1, OtherIs
<1>4. L!listTypePush(o, v, head) = L!Pushed(r, v, head)
  BY DEF L!listTypePush, p, q
<1> HIDE DEF r
<1>5. L!IsZiplist(r) => v \in Short
  BY <1>1, <1>2, <1>3
<1>6. QED
  BY <1>3, <1>4, <1>5, PushedKeeps

\* The value a command leaves at the key.
LEMMA BecomesKeeps ==
  ASSUME NEW o, Full(o), NEW r, L!Becomes(o, r)
  PROVE  Full(list')
<1>1. list' = o \/ ~ L!IsZiplist(list')
  BY FormsAre DEF L!Becomes
<1>2. CASE list' = o
  BY <1>2 DEF Full
<1>3. CASE ~ L!IsZiplist(list')
  BY <1>3, OtherIs DEF Full
<1>4. QED
  BY <1>1, <1>2, <1>3

\* A command that empties a list takes the key away.
LEMMA LeftKeeps ==
  ASSUME NEW o, Exact(o)
  PROVE  Full(L!Left(o))
<1>1. CASE ~ L!IsZiplist(o)
  <2>1. ~ L!IsZiplist(L!Left(o))
    BY <1>1, FormsAre DEF L!Left, L!Measured
  <2>2. QED
    BY <2>1, OtherIs
<1>2. CASE L!IsZiplist(o)
  <2> DEFINE zl == o.zl
  <2>1. zl \in Blocks
    BY <1>2 DEF Exact
  <2>2. L!listTypeLength(o) = Len(zl.entry)
    <3>1. L!listTypeLength(o) = L!ziplistLen(zl)
      BY <1>2 DEF L!listTypeLength
    <3> HIDE DEF zl
    <3>2. QED
      BY <2>1, <3>1, LengthIs
  <2>3. CASE Len(zl.entry) = 0
    <3>1. L!Left(o) = L!Missing
      BY <2>2, <2>3 DEF L!Left
    <3>2. QED
      BY <3>1, FormsAre, OtherIs
  <2>4. CASE Len(zl.entry) # 0
    <3>1. Full(o)
      BY <1>2, <2>1, <2>4 DEF Full
    <3>2. PICK p : p = L!Measured(o)
      OBVIOUS
    <3>3. L!Left(o) = p
      BY <2>2, <2>4, <3>2 DEF L!Left
    <3>4. Full(p)
      BY <3>1, <3>2, MeasuredKeeps
    <3>5. QED
      BY <3>3, <3>4
  <2>5. QED
    BY <2>3, <2>4
<1>3. QED
  BY <1>1, <1>2

\* A list that grew, with its reply.
LEMMA GrowsKeeps ==
  ASSUME NEW o, Full(o), L!Grows(o)
  PROVE  Full(list')
<1>1. PICK p : p = L!Measured(o)
  OBVIOUS
<1>2. Full(p)
  BY <1>1, MeasuredKeeps
<1>3. PICK n : L!Becomes(p, n)
  BY <1>1 DEF L!Grows
<1>4. QED
  BY <1>2, <1>3, BecomesKeeps

\* LPUSH and RPUSH
LEMMA PushKeeps ==
  ASSUME Full(list), NEW vs, vs \in Pushes, NEW head, L!Push(vs, head)
  PROVE  Full(list')
<1> DEFINE n == Len(vs)
           found == IF L!Absent THEN L!Zipped(L!ziplistNew) ELSE list
<1>1. vs \in Seq(Elements) /\ n \in Nat /\ n # 0 /\ DOMAIN vs = 1 .. n /\ \A k \in 1 .. n : vs[k] \in Elements
  <2>1. vs \in Seq(Elements) /\ vs # <<>>
    BY ListAssumption
  <2>2. QED
    BY <2>1
<1>2. L!Grows(PushLoop(vs, found, head))
  BY DEF L!Push, L!FoldLeft, L!MapThenFoldSet, PushLoop, PushRounds, PushStep
<1>3. Exact(found)
  <2>1. CASE L!Absent
    <3>1. PICK zl : zl = L!ziplistNew
      OBVIOUS
    <3>2. zl \in Blocks
      BY <3>1, NewKeeps
    <3>3. found = L!Zipped(zl)
      BY <2>1, <3>1
    <3> HIDE DEF found
    <3>4. QED
      BY <3>2, <3>3, ZippedIs
  <2>2. CASE ~ L!Absent
    BY <2>2, FullIs
  <2>3. QED
    BY <2>1, <2>2
<1> HIDE DEF found, n
<1>4. PICK r : PushRuns(r, vs, found, n, head) /\ r[n] = PushLoop(vs, found, head)
  BY <1>1, PushLoopIs
<1>5. \A k \in 1 .. n : Exact(r[k - 1]) => Full(r[k])
  <2>1. \A k \in 1 .. n : r[k] = L!listTypePush(r[k - 1], vs[k], head)
    BY <1>4 DEF PushRuns, PushStep
  <2>2. QED
    BY <1>1, <2>1, TypePushKeeps
<1> DEFINE Bad == {k \in 0 .. n : ~ Exact(r[k])}
<1>6. Bad = {}
  <2> SUFFICES ASSUME Bad # {} PROVE FALSE
    OBVIOUS
  <2>1. PICK c \in 0 .. n : ~ Exact(r[c]) /\ \A x \in Bad : c <= x
    <3>1. Bad \subseteq Nat
      BY <1>1
    <3>2. \A x \in Bad : x \in 0 .. n /\ ~ Exact(r[x])
      OBVIOUS
    <3> HIDE DEF Bad
    <3>3. PICK c \in Bad : \A x \in Bad : c <= x
      BY <3>1, Least
    <3>4. QED
      BY <3>2, <3>3
  <2>2. c # 0
    BY <1>3, <1>4, <2>1 DEF PushRuns
  <2>3. c \in 1 .. n /\ c - 1 \in 0 .. n /\ ~ (c <= c - 1)
    BY ONLY <1>1, <2>1, <2>2
  <2>4. Exact(r[c - 1])
    BY <2>1, <2>3
  <2>5. QED
    BY <1>5, <2>1, <2>3, <2>4, FullIs
<1>7. Exact(r[n - 1]) /\ n \in 1 .. n
  <2>1. n - 1 \in 0 .. n /\ n \in 1 .. n
    BY <1>1
  <2>2. QED
    BY <1>6, <2>1
<1>8. Full(r[n])
  BY <1>5, <1>7
<1>9. QED
  BY <1>2, <1>4, <1>8, GrowsKeeps

\* LPUSHX and RPUSHX
LEMMA PushXKeeps ==
  ASSUME Full(list), NEW v, v \in Elements, NEW head, L!PushX(v, head)
  PROVE  Full(list')
<1>1. CASE L!Absent
  BY <1>1, BecomesKeeps DEF L!PushX
<1>2. CASE ~ L!Absent
  <2>1. Full(L!listTypePush(list, v, head))
    BY FullIs, TypePushKeeps
  <2>2. L!Grows(L!listTypePush(list, v, head))
    BY <1>2 DEF L!PushX
  <2>3. QED
    BY <2>1, <2>2, GrowsKeeps
<1>3. QED
  BY <1>1, <1>2

\* LLEN
LEMMA LLenKeeps ==
  ASSUME Full(list), L!LLen
  PROVE  Full(list')
<1>1. PICK p : p = L!Measured(list)
  OBVIOUS
<1>2. Full(p)
  BY <1>1, MeasuredKeeps
<1>3. PICK r : L!Becomes(list, r) \/ L!Becomes(p, r)
  BY <1>1 DEF L!LLen
<1>4. QED
  BY <1>2, <1>3, BecomesKeeps

\* An entry of a ziplist is taken out.
LEMMA RemovedKeeps ==
  ASSUME NEW o, Exact(o), NEW x, L!IsZiplist(o) => x \in 1 .. Len(o.zl.entry)
  PROVE  /\ Exact(L!Removed(o, x))
         /\ L!IsZiplist(o) => /\ L!Removed(o, x).zl \in Blocks
                              /\ Len(L!Removed(o, x).zl.entry) = Len(o.zl.entry) - 1
         /\ L!IsZiplist(L!Removed(o, x)) <=> L!IsZiplist(o)
<1>1. CASE ~ L!IsZiplist(o)
  <2>1. ~ L!IsZiplist(L!Removed(o, x))
    BY <1>1, FormsAre DEF L!Removed
  <2>2. QED
    BY <1>1, <2>1, OtherIs
<1>2. CASE L!IsZiplist(o)
  <2>1. PICK zl : zl = o.zl
    OBVIOUS
  <2>2. zl \in Blocks /\ x \in 1 .. Len(zl.entry)
    BY <1>2, <2>1 DEF Exact
  <2>3. PICK zm : zm = L!ziplistDelete(zl, x)
    OBVIOUS
  <2>4. zm \in Blocks /\ Len(zm.entry) = Len(zl.entry) - 1
    BY <2>2, <2>3, DeleteKeeps
  <2>5. PICK p : p = L!Removed(o, x)
    OBVIOUS
  <2>6. p = L!Zipped(zm)
    BY <1>2, <2>1, <2>3, <2>5 DEF L!Removed
  <2>7. L!IsZiplist(p) /\ p.zl = zm /\ Exact(p)
    BY <2>4, <2>6, ZippedIs
  <2>8. QED
    BY <1>2, <2>1, <2>4, <2>5, <2>7
<1>3. QED
  BY <1>1, <1>2

\* The first and the last entry.
LEMMA EndsAre ==
  ASSUME NEW zl, zl \in Blocks, Len(zl.entry) # 0
  PROVE  L!ziplistIndex(zl, 0) = 1 /\ L!ziplistIndex(zl, -1) = Len(zl.entry)
<1> DEFINE n == Len(zl.entry)
           sq == [k \in 1 .. 0 |-> k]
           base == [at |-> L!EntryAt(zl, zl.tail), left |-> 0]
<1>1. n \in Nat /\ n # 0 /\ zl \in Zips
  BY ZipIs DEF Blocks
<1>2. L!ziplistIndex(zl, 0) = 1
  <2>1. PICK index \in Int : index = 0
    OBVIOUS
  <2>2. L!ziplistIndex(zl, index) = IF index < n THEN index + 1 ELSE 0
    BY <2>1, IndexUnfolds
  <2> HIDE DEF n
  <2>3. QED
    BY <1>1, <2>1, <2>2
<1>3. L!EntryAt(zl, zl.tail) = n
  <2>1. zl.tail = L!Offset(zl, n)
    <3>1. zl.entry # <<>>
      BY <1>1
    <3>2. QED
      BY <3>1 DEF Blocks, RightBut, HeaderRight
  <2>2. n \in 1 .. n
    BY <1>1
  <2> HIDE DEF n
  <2>3. L!EntryAt(zl, L!Offset(zl, n)) = n
    BY <1>1, <2>2, EntryAtIs DEF n
  <2>4. QED
    BY <2>1, <2>3
<1>4. L!ziplistIndex(zl, -1) = IF BackLoop(sq, base, zl).left > 0 THEN 0 ELSE BackLoop(sq, base, zl).at
  <2>1. PICK index \in Int : index = -1
    OBVIOUS
  <2>2. PICK steps : steps = - index - 1
    OBVIOUS
  <2>3. steps = 0 /\ ~ (index >= 0)
    <3>1. index < 0 /\ index >= -1
      BY ONLY <2>1
    <3>2. QED
      BY ONLY <2>2, <3>1
  <2>4. L!ziplistIndex(zl, index) = BackResult(zl, steps)
    BY <2>2, <2>3, IndexUnfolds
  <2>5. BackResult(zl, 0) = IF BackLoop(sq, base, zl).left > 0 THEN 0 ELSE BackLoop(sq, base, zl).at
    BY DEF BackResult, BackFrom
  <2>6. QED
    BY <2>1, <2>3, <2>4, <2>5
<1>5. BackLoop(sq, base, zl) = base
  <2>1. DOMAIN sq = 1 .. 0
    OBVIOUS
  <2> DEFINE B == {base}
             n0 == 0
  <2>2. base \in B /\ n0 \in Nat /\ DOMAIN sq = 1 .. n0 /\ BackStays(sq, B, n0, zl)
    BY <2>1 DEF BackStays
  <2> HIDE DEF B, n0, sq, base
  <2>3. PICK r \in [0 .. n0 -> B] : BackRuns(r, sq, base, n0, zl) /\ r[n0] = BackLoop(sq, base, zl)
    BY <2>2, BackLoopIs
  <2>4. r[0] = base
    BY <2>3 DEF BackRuns
  <2>5. QED
    BY <2>3, <2>4 DEF n0
<1>6. base.left = 0 /\ base.at = n
  BY <1>3
<1> HIDE DEF base
<1>7. QED
  BY <1>2, <1>4, <1>5, <1>6

\* One entry passed in the search for a pivot.
PivotStep(x, k, o, v) == IF x = 0 \/ L!listTypeEqual(o, x, v) THEN x ELSE L!After(o, x, TRUE)

PivotRounds(f, sq, base, o, v) ==
  [s \in SUBSET DOMAIN sq |->
     IF s = {} THEN base ELSE PivotStep(f[s \ {L!Max(s)}], sq[L!Max(s)], o, v)]

PivotLoop(sq, base, o, v) == (CHOOSE f : f = PivotRounds(f, sq, base, o, v))[DOMAIN sq]

PivotStays(sq, B, n, o, v) == \A b \in B, i \in 1 .. n : PivotStep(b, sq[i], o, v) \in B

PivotRuns(r, sq, base, n, o, v) ==
  r[0] = base /\ \A k \in 1 .. n : r[k] = PivotStep(r[k - 1], sq[k], o, v)

\* LINSERT's search for the pivot, round by round.
LEMMA PivotLoopIs ==
  ASSUME NEW B, NEW base \in B, NEW n \in Nat, NEW sq, NEW o, NEW v, DOMAIN sq = 1 .. n,
         PivotStays(sq, B, n, o, v)
  PROVE  \E r \in [0 .. n -> B] : PivotRuns(r, sq, base, n, o, v) /\ r[n] = PivotLoop(sq, base, o, v)
<1> DEFINE iter == CHOOSE f : f = PivotRounds(f, sq, base, o, v)
           C == B \cup {iter[s] : s \in SUBSET (1 .. n)}
           F == [p \in C \X (1 .. n) |-> PivotStep(p[1], sq[p[2]], o, v)]
           Is(f) == \A s \in SUBSET (1 .. n) :
                      f[s] = IF s = {} THEN base ELSE PivotStep(f[s \ {L!Max(s)}], sq[L!Max(s)], o, v)
<1>1. \A c \in C, i \in 1 .. n : F[<<c, i>>] = PivotStep(c, sq[i], o, v)
  OBVIOUS
<1>2. B \subseteq C /\ \A s \in SUBSET (1 .. n) : iter[s] \in C
  OBVIOUS
<1> HIDE DEF F, C
<1>3. \A b \in B, i \in 1 .. n : F[<<b, i>>] = PivotStep(b, sq[i], o, v) /\ F[<<b, i>>] \in B
  BY <1>1, <1>2 DEF PivotStays
<1>4. PICK g : g \in [SUBSET (1 .. n) -> B] /\ Loops(g, F, base, n)
  BY <1>3, LoopRuns
<1>5. ASSUME NEW f, \A s \in SUBSET (1 .. n) : f[s] \in C
      PROVE  Is(f) <=> Loops(f, F, base, n)
  <2>1. ASSUME NEW s \in SUBSET (1 .. n), s # {}
        PROVE  /\ L!Max(s) = S!Max(s)
               /\ F[<<f[s \ {S!Max(s)}], S!Max(s)>>] = PivotStep(f[s \ {L!Max(s)}], sq[L!Max(s)], o, v)
    <3> DEFINE x == S!Max(s)
    <3>1. x \in s
      BY <2>1, MaxIs
    <3>2. L!Max(s) = x
      BY DEF L!Max, S!Max
    <3> HIDE DEF x
    <3>3. s \ {x} \in SUBSET (1 .. n) /\ x \in 1 .. n
      BY <3>1
    <3>4. F[<<f[s \ {x}], x>>] = PivotStep(f[s \ {x}], sq[x], o, v)
      BY <3>3, <1>1, <1>5
    <3>5. QED
      BY <3>2, <3>4 DEF x
  <2>2. QED
    BY <2>1 DEF Loops
<1> HIDE DEF Is
<1>6. g = PivotRounds(g, sq, base, o, v)
  <2> DEFINE h == PivotRounds(g, sq, base, o, v)
  <2>1. \A s \in SUBSET (1 .. n) : g[s] \in C
    BY <1>2, <1>4
  <2>2. Is(g)
    BY <2>1, <1>4, <1>5
  <2>3. h = [s \in SUBSET (1 .. n) |->
               IF s = {} THEN base ELSE PivotStep(g[s \ {L!Max(s)}], sq[L!Max(s)], o, v)]
    BY DEF PivotRounds
  <2> HIDE DEF h
  <2>4. g = h
    BY <1>4, <2>2, <2>3 DEF Is
  <2>5. QED
    BY <2>4 DEF h
<1>7. iter = PivotRounds(iter, sq, base, o, v)
  BY <1>6
<1>8. PivotLoop(sq, base, o, v) = iter[1 .. n]
  BY DEF PivotLoop
<1> HIDE DEF iter
<1>9. Loops(iter, F, base, n)
  <2> DEFINE h == PivotRounds(iter, sq, base, o, v)
  <2>1. \A s \in SUBSET (1 .. n) :
          h[s] = IF s = {} THEN base ELSE PivotStep(iter[s \ {L!Max(s)}], sq[L!Max(s)], o, v)
    BY DEF PivotRounds
  <2> HIDE DEF h
  <2>2. iter = h
    BY <1>7 DEF h
  <2>3. Is(iter)
    BY <2>1, <2>2 DEF Is
  <2>4. QED
    BY <2>3, <1>2, <1>5
<1>10. PICK r \in [0 .. n -> B] : Unrolled(r, F, base, n) /\ r[n] = iter[1 .. n]
  <2>1. Stays(F, B, n)
    BY <1>3 DEF Stays
  <2>2. QED
    BY <2>1, <1>9, LoopUnrolled
<1>11. ASSUME NEW k \in 1 .. n PROVE r[k] = PivotStep(r[k - 1], sq[k], o, v)
  <2>1. r[k - 1] \in B
    BY <1>10
  <2>2. QED
    BY <2>1, <1>3, <1>10 DEF Unrolled
<1>12. QED
  BY <1>8, <1>10, <1>11 DEF Unrolled, PivotRuns

\* LPOP and RPOP
LEMMA PopKeeps ==
  ASSUME Full(list), NEW head, L!Pop(head)
  PROVE  Full(list')
<1>1. CASE L!Absent
  BY <1>1, BecomesKeeps DEF L!Pop
<1>2. CASE ~ L!Absent
  <2>1. PICK x : x = L!End(list, head)
    OBVIOUS
  <2>2. PICK p : p = L!Removed(list, x)
    OBVIOUS
  <2>3. PICK r : L!Becomes(L!Left(p), r)
    BY <1>2, <2>1, <2>2 DEF L!Pop
  <2>4. L!IsZiplist(list) => x \in 1 .. Len(list.zl.entry)
    <3> SUFFICES ASSUME L!IsZiplist(list) PROVE x \in 1 .. Len(list.zl.entry)
      OBVIOUS
    <3>1. PICK zl : zl = list.zl
      OBVIOUS
    <3>2. zl \in Blocks /\ Len(zl.entry) # 0
      BY <3>1 DEF Full
    <3>3. Len(zl.entry) \in Nat
      BY <3>2, ZipIs DEF Blocks
    <3>4. x = L!ziplistIndex(zl, IF head THEN 0 ELSE -1)
      BY <2>1, <3>1 DEF L!End
    <3>5. x = 1 \/ x = Len(zl.entry)
      BY <3>2, <3>4, EndsAre
    <3>6. QED
      BY <3>1, <3>2, <3>3, <3>5
  <2>5. Exact(p)
    BY <2>2, <2>4, FullIs, RemovedKeeps
  <2>6. Full(L!Left(p))
    BY <2>5, LeftKeeps
  <2>7. QED
    BY <2>3, <2>6, BecomesKeeps
<1>3. QED
  BY <1>1, <1>2

\* A long cut to an int is a number.
LEMMA CutIsInt ==
  ASSUME NEW index \in Int
  PROVE  L!Cut(index) \in Int
<1>1. IntHalf \in Nat /\ 2 * IntHalf \in Nat /\ 2 * IntHalf > 0
  BY ListAssumption
<1>2. PICK m : m = 2 * IntHalf
  OBVIOUS
<1>3. PICK a : a = index + IntHalf
  OBVIOUS
<1>4. m \in Nat /\ m > 0 /\ a \in Int
  BY <1>1, <1>2, <1>3
<1>5. a % m \in Int
  BY ONLY <1>4
<1>6. L!Cut(index) = (a % m) - IntHalf
  BY <1>2, <1>3 DEF L!Cut
<1>7. QED
  BY ONLY <1>1, <1>5, <1>6

\* LSET
LEMMA LSetKeeps ==
  ASSUME Full(list), NEW index, index \in Indices, NEW v, v \in Elements, L!LSet(index, v)
  PROVE  Full(list')
<1>1. CASE L!Absent
  BY <1>1, BecomesKeeps DEF L!LSet
<1>2. CASE ~ L!Absent
  <2>1. PICK o : o = L!listTypeTryConversion(list, v)
    OBVIOUS
  <2>2. Full(o) /\ (L!IsZiplist(o) => v \in Short)
    BY <2>1, TryKeeps
  <2>3. PICK x : x = L!EntryOf(o, index)
    OBVIOUS
  <2>4. CASE x = 0
    <3>1. PICK r : L!Becomes(o, r)
      BY <1>2, <2>1, <2>3, <2>4 DEF L!LSet
    <3>2. QED
      BY <2>2, <3>1, BecomesKeeps
  <2>5. CASE x # 0 /\ ~ L!IsZiplist(o)
    <3>1. PICK l, r : L!Becomes(L!Linked(l), r)
      BY <1>2, <2>1, <2>3, <2>5 DEF L!LSet
    <3>2. Full(L!Linked(l))
      BY FormsAre, OtherIs
    <3>3. QED
      BY <3>1, <3>2, BecomesKeeps
  <2>6. CASE x # 0 /\ L!IsZiplist(o)
    <3>1. PICK zl : zl = o.zl
      OBVIOUS
    <3>2. zl \in Blocks /\ Len(zl.entry) # 0
      BY <2>2, <2>6, <3>1 DEF Full
    <3>3. x \in 1 .. Len(zl.entry) /\ Len(zl.entry) \in Nat
      <4>1. L!Cut(index) \in Int
        BY ListAssumption, CutIsInt
      <4>2. x = L!ziplistIndex(zl, L!Cut(index))
        BY <2>3, <2>6, <3>1 DEF L!EntryOf
      <4>3. x \in 0 .. Len(zl.entry)
        BY <3>2, <4>1, <4>2, IndexIs DEF Blocks
      <4>4. Len(zl.entry) \in Nat
        BY <3>2, ZipIs DEF Blocks
      <4>5. QED
        BY <2>6, <4>3, <4>4
    <3>4. PICK zm : zm = L!ziplistDelete(zl, x)
      OBVIOUS
    <3>5. zm \in Blocks /\ Len(zm.entry) = Len(zl.entry) - 1
      BY <3>2, <3>3, <3>4, DeleteKeeps
    <3>6. PICK zn : zn = L!ziplistInsert(zm, x, v)
      OBVIOUS
    <3>7. x \in 1 .. Len(zm.entry) + 1
      BY <3>3, <3>5
    <3>8. zn \in Blocks /\ Len(zn.entry) = Len(zm.entry) + 1
      BY <2>2, <2>6, <3>5, <3>6, <3>7, InsertKeeps
    <3>9. Len(zn.entry) # 0
      BY ONLY <3>2, <3>3, <3>5, <3>8
    <3>10. PICK r : L!Becomes(L!Zipped(zn), r)
      BY <1>2, <2>1, <2>3, <2>6, <3>1, <3>4, <3>6 DEF L!LSet
    <3>11. Full(L!Zipped(zn))
      BY <3>8, <3>9, ZippedIs
    <3>12. QED
      BY <3>10, <3>11, BecomesKeeps
  <2>7. QED
    BY <2>4, <2>5, <2>6
<1>3. QED
  BY <1>1, <1>2

\* An element beside the pivot.
LEMMA TypeInsertKeeps ==
  ASSUME NEW o, Exact(o), NEW v, L!IsZiplist(o) => v \in Short, NEW after,
         NEW x, L!IsZiplist(o) => x \in 1 .. Len(o.zl.entry)
  PROVE  Full(L!listTypeInsert(o, x, v, after))
<1>1. CASE ~ L!IsZiplist(o)
  <2>1. ~ L!IsZiplist(L!listTypeInsert(o, x, v, after))
    BY <1>1, FormsAre DEF L!listTypeInsert
  <2>2. QED
    BY <2>1, OtherIs
<1>2. CASE L!IsZiplist(o)
  <2>1. PICK zl : zl = o.zl
    OBVIOUS
  <2>2. zl \in Blocks /\ x \in 1 .. Len(zl.entry) /\ zl \in Zips
    BY <1>2, <2>1 DEF Exact, Blocks
  <2>3. Len(zl.entry) \in Nat
    BY <2>2, ZipIs
  <2>4. PICK next : next = L!ziplistNext(zl, x)
    OBVIOUS
  <2>5. next \in 0 .. Len(zl.entry)
    <3>1. x \in Nat
      BY <2>2
    <3>2. QED
      BY <2>2, <2>4, <3>1, NextIs
  <2>6. PICK at : at = IF ~ after THEN x ELSE IF next = 0 THEN Len(zl.entry) + 1 ELSE next
    OBVIOUS
  <2>7. at \in 1 .. Len(zl.entry) + 1
    <3>1. x \in 1 .. Len(zl.entry) + 1 /\ Len(zl.entry) + 1 \in 1 .. Len(zl.entry) + 1
          /\ (next # 0 => next \in 1 .. Len(zl.entry) + 1)
      BY <2>2, <2>3, <2>5
    <3>2. QED
      BY <2>6, <3>1
  <2>8. PICK zm : zm = L!ziplistInsert(zl, at, v)
    OBVIOUS
  <2>9. zm \in Blocks /\ Len(zm.entry) = Len(zl.entry) + 1
    BY <1>2, <2>2, <2>7, <2>8, InsertKeeps
  <2>10. L!listTypeInsert(o, x, v, after) = L!Zipped(zm)
    BY <1>2, <2>1, <2>4, <2>6, <2>8 DEF L!listTypeInsert
  <2>11. Len(zm.entry) # 0
    BY <2>3, <2>9
  <2>12. QED
    BY <2>9, <2>10, <2>11, ZippedIs
<1>3. QED
  BY <1>1, <1>2

\* The search names an entry of the block, or none.
LEMMA SearchIs ==
  ASSUME NEW o, Exact(o), L!IsZiplist(o), NEW v
  PROVE  L!Search(o, v) \in 0 .. Len(o.zl.entry)
<1>1. PICK zl : zl = o.zl
  OBVIOUS
<1>2. zl \in Blocks /\ zl \in Zips
  BY <1>1 DEF Exact, Blocks
<1> DEFINE n == L!listTypeLength(o)
           sq == [k \in 1 .. n |-> k]
           base == L!EntryOf(o, 0)
           B == 0 .. Len(zl.entry)
<1>3. L!Search(o, v) = PivotLoop(sq, base, o, v)
  BY DEF L!Search, L!FoldLeft, L!MapThenFoldSet, PivotLoop, PivotRounds, PivotStep
<1>4. n \in Nat
  <2>1. n = L!ziplistLen(zl)
    BY <1>1 DEF L!listTypeLength
  <2>2. QED
    BY <1>2, <2>1, LengthIs
<1>5. base \in B
  <2>1. PICK index \in Int : index = 0
    OBVIOUS
  <2>2. base = L!ziplistIndex(zl, L!Cut(index))
    BY <1>1, <2>1 DEF L!EntryOf
  <2>3. QED
    BY <1>2, <2>1, <2>2, IndexIs, CutIsInt
<1>6. DOMAIN sq = 1 .. n
  OBVIOUS
<1>7. PivotStays(sq, B, n, o, v)
  <2>1. ASSUME NEW x, x \in B, NEW k PROVE PivotStep(x, k, o, v) \in B
    <3>1. L!After(o, x, TRUE) = L!ziplistNext(zl, x)
      BY <1>1 DEF L!After
    <3>2. x \in Nat
      BY <2>1
    <3>3. L!ziplistNext(zl, x) \in B
      BY <1>2, <3>2, NextIs
    <3> HIDE DEF B
    <3>4. QED
      BY <2>1, <3>1, <3>3 DEF PivotStep
  <2> HIDE DEF B
  <2>2. QED
    BY <2>1 DEF PivotStays
<1> HIDE DEF n, sq, base, B
<1>8. PICK r \in [0 .. n -> B] : r[n] = PivotLoop(sq, base, o, v)
  BY <1>4, <1>5, <1>6, <1>7, PivotLoopIs
<1>9. n \in 0 .. n
  BY <1>4
<1>10. QED
  BY <1>1, <1>3, <1>8, <1>9 DEF B

\* LINSERT
LEMMA LInsertKeeps ==
  ASSUME Full(list), NEW pivot, NEW v, v \in Elements, NEW after, L!LInsert(pivot, v, after)
  PROVE  Full(list')
<1>1. CASE L!Absent
  BY <1>1, BecomesKeeps DEF L!LInsert
<1>2. CASE ~ L!Absent
  <2>1. PICK o : o = L!listTypeTryConversion(list, v)
    OBVIOUS
  <2>2. Full(o) /\ Exact(o) /\ (L!IsZiplist(o) => v \in Short)
    BY <2>1, TryKeeps, FullIs
  <2>3. PICK x : x = L!Search(o, pivot)
    OBVIOUS
  <2>4. L!InsertAtPivot(o, x, v, after)
    BY <1>2, <2>1, <2>3 DEF L!LInsert
  <2>5. CASE x = 0
    <3>1. PICK r : L!Becomes(o, r)
      BY <2>4, <2>5 DEF L!InsertAtPivot
    <3>2. QED
      BY <2>2, <3>1, BecomesKeeps
  <2>6. CASE x # 0
    <3>1. L!IsZiplist(o) => x \in 1 .. Len(o.zl.entry)
      <4> SUFFICES ASSUME L!IsZiplist(o) PROVE x \in 1 .. Len(o.zl.entry)
        OBVIOUS
      <4>1. x \in 0 .. Len(o.zl.entry)
        BY <2>2, <2>3, SearchIs
      <4>2. QED
        BY <2>6, <4>1
    <3>2. PICK p : p = L!listTypeInsert(o, x, v, after)
      OBVIOUS
    <3>3. Full(p)
      BY <2>2, <3>1, <3>2, TypeInsertKeeps
    <3>4. PICK q : q = L!Measured(p)
      OBVIOUS
    <3>5. Full(q)
      BY <3>3, <3>4, MeasuredKeeps
    <3>6. PICK w : w = L!Limited(q)
      OBVIOUS
    <3>7. Full(w)
      <4>1. w = q \/ ~ L!IsZiplist(w)
        BY <3>6, ConvertedIs DEF L!Limited
      <4>2. QED
        BY <3>5, <4>1, OtherIs
    <3>8. L!Grows(w)
      BY <2>4, <2>6, <3>2, <3>4, <3>6 DEF L!InsertAtPivot
    <3>9. QED
      BY <3>7, <3>8, GrowsKeeps
  <2>7. QED
    BY <2>5, <2>6
<1>3. QED
  BY <1>1, <1>2

\* One entry passed in LREM.
RemEntryStep(o, k, v, forward, toremove) ==
  IF o.at = 0 \/ (toremove # 0 /\ o.removed = toremove) THEN o
  ELSE IF ~ L!listTypeEqual(o.list, o.at, v)
  THEN [o EXCEPT !.at = L!After(o.list, @, forward)]
  ELSE [list |-> L!Removed(o.list, o.at), removed |-> o.removed + 1,
        at |-> L!NextAfterDelete(o.list, o.at, forward)]

RemEntryRounds(f, sq, base, v, forward, toremove) ==
  [s \in SUBSET DOMAIN sq |->
     IF s = {} THEN base ELSE RemEntryStep(f[s \ {L!Max(s)}], sq[L!Max(s)], v, forward, toremove)]

RemEntryLoop(sq, base, v, forward, toremove) ==
  (CHOOSE f : f = RemEntryRounds(f, sq, base, v, forward, toremove))[DOMAIN sq]

RemEntryLoops(g, sq, base, n, v, forward, toremove) ==
  \A s \in SUBSET (1 .. n) :
    g[s] = IF s = {} THEN base ELSE RemEntryStep(g[s \ {S!Max(s)}], sq[S!Max(s)], v, forward, toremove)

RemEntryRuns(r, sq, base, n, v, forward, toremove) ==
  r[0] = base /\ \A k \in 1 .. n : r[k] = RemEntryStep(r[k - 1], sq[k], v, forward, toremove)

\* LREM's loop has a result for each number of rounds.
LEMMA RemEntryLoopRuns ==
  ASSUME NEW n \in Nat, NEW sq, NEW base, NEW v, NEW forward, NEW toremove
  PROVE  \E g : RemEntryLoops(g, sq, base, n, v, forward, toremove)
<1> DEFINE Bad == {k \in 0 .. n : ~ \E g : RemEntryLoops(g, sq, base, k, v, forward, toremove)}
<1>1. Bad = {}
  <2> SUFFICES ASSUME Bad # {} PROVE FALSE
    OBVIOUS
  <2>1. PICK b \in Bad : \A x \in Bad : b <= x
    <3>1. Bad \subseteq Nat
      OBVIOUS
    <3> HIDE DEF Bad
    <3>2. QED
      BY <3>1, Least
  <2>2. b \in 0 .. n /\ ~ \E g : RemEntryLoops(g, sq, base, b, v, forward, toremove)
    OBVIOUS
  <2>3. b # 0
    <3> DEFINE g == [s \in SUBSET (1 .. 0) |-> base]
    <3>1. SUBSET (1 .. 0) = {{}}
      OBVIOUS
    <3>2. \A s \in SUBSET (1 .. 0) : s = {} /\ g[s] = base
      BY <3>1
    <3> HIDE DEF g
    <3>3. RemEntryLoops(g, sq, base, 0, v, forward, toremove)
      BY <3>2 DEF RemEntryLoops
    <3>4. QED
      BY <3>3, <2>2
  <2>4. b - 1 \in 0 .. n /\ b \in 1 .. n /\ b \in Nat /\ b - 1 \notin Bad
    <3>1. b - 1 \in 0 .. n /\ b \in 1 .. n /\ b \in Nat /\ ~ (b <= b - 1)
      BY <2>2, <2>3
    <3> HIDE DEF Bad
    <3>2. QED
      BY <3>1, <2>1
  <2>5. PICK f : RemEntryLoops(f, sq, base, b - 1, v, forward, toremove)
    BY <2>4
  <2> HIDE DEF Bad
  <2> DEFINE old == SUBSET (1 .. b - 1)
             g == [s \in SUBSET (1 .. b) |-> IF b \in s THEN RemEntryStep(f[s \ {b}], sq[b], v, forward, toremove) ELSE f[s]]
  <2>6. ASSUME NEW s \in SUBSET (1 .. b)
        PROVE  /\ b \in s => s \ {b} \in old
               /\ b \notin s => s \in old
    BY <2>4
  <2>7. \A s \in SUBSET (1 .. b) : g[s] = IF b \in s THEN RemEntryStep(f[s \ {b}], sq[b], v, forward, toremove) ELSE f[s]
    OBVIOUS
  <2> HIDE DEF g
  <2>9. \A s \in old : g[s] = f[s]
    <3>1. \A s \in old : s \in SUBSET (1 .. b) /\ b \notin s
      BY <2>4
    <3>2. QED
      BY <3>1, <2>7
  <2>10. ASSUME NEW s \in SUBSET (1 .. b), s # {}
         PROVE  g[s] = RemEntryStep(g[s \ {S!Max(s)}], sq[S!Max(s)], v, forward, toremove)
    <3> DEFINE x == S!Max(s)
    <3>1. x \in s /\ \A y \in s : y <= x
      BY <2>4, <2>10, MaxIs
    <3> HIDE DEF x
    <3>2. CASE b \in s
      <4>1. x = b
        BY <3>1, <3>2, <2>4
      <4>2. g[s \ {b}] = f[s \ {b}]
        BY <3>2, <2>6, <2>9
      <4>3. g[s] = RemEntryStep(f[s \ {b}], sq[b], v, forward, toremove)
        BY <3>2, <2>7
      <4>4. QED
        BY <4>1, <4>2, <4>3 DEF x
    <3>3. CASE b \notin s
      <4>1. s \in old /\ s \ {x} \in old
        BY <3>3, <2>6
      <4>2. f[s] = RemEntryStep(f[s \ {x}], sq[x], v, forward, toremove)
        BY <4>1, <2>5, <2>10 DEF RemEntryLoops, x
      <4>3. g[s] = f[s] /\ g[s \ {x}] = f[s \ {x}]
        BY <4>1, <2>9
      <4>4. QED
        BY <4>2, <4>3 DEF x
    <3>4. QED
      BY <3>2, <3>3
  <2>11. ASSUME NEW s \in SUBSET (1 .. b), s = {}
         PROVE  g[s] = base
    <3>1. s \in old
      BY <2>11
    <3>2. f[s] = base
      BY <2>5, <2>11, <3>1 DEF RemEntryLoops
    <3>3. QED
      BY <3>1, <3>2, <2>9
  <2>12. RemEntryLoops(g, sq, base, b, v, forward, toremove)
    BY <2>10, <2>11 DEF RemEntryLoops
  <2>13. QED
    BY <2>2, <2>12
<1>2. n \in 0 .. n /\ n \notin Bad
  <2>1. n \in 0 .. n
    OBVIOUS
  <2> HIDE DEF Bad
  <2>2. QED
    BY <1>1, <2>1
<1>3. QED
  BY <1>2

\* LREM's loop, round by round.
LEMMA RemEntryLoopIs ==
  ASSUME NEW n \in Nat, NEW sq, NEW base, NEW v, NEW forward, NEW toremove, DOMAIN sq = 1 .. n
  PROVE  \E r : /\ RemEntryRuns(r, sq, base, n, v, forward, toremove)
               /\ r[n] = RemEntryLoop(sq, base, v, forward, toremove)
<1> DEFINE iter == CHOOSE f : f = RemEntryRounds(f, sq, base, v, forward, toremove)
           r == [k \in 0 .. n |-> iter[1 .. k]]
<1>1. PICK g : RemEntryLoops(g, sq, base, n, v, forward, toremove)
  BY RemEntryLoopRuns
<1>2. \A s \in SUBSET (1 .. n) : L!Max(s) = S!Max(s)
  BY DEF L!Max, S!Max
<1>3. \E h : h = RemEntryRounds(h, sq, base, v, forward, toremove)
  <2> DEFINE h == [s \in SUBSET (1 .. n) |-> g[s]]
             q == RemEntryRounds(h, sq, base, v, forward, toremove)
  <2>1. \A s \in SUBSET (1 .. n) : h[s] = g[s]
    OBVIOUS
  <2>2. q = [s \in SUBSET (1 .. n) |->
               IF s = {} THEN base ELSE RemEntryStep(h[s \ {L!Max(s)}], sq[L!Max(s)], v, forward, toremove)]
    BY DEF RemEntryRounds
  <2>3. h = [s \in SUBSET (1 .. n) |-> g[s]]
    OBVIOUS
  <2> HIDE DEF h, q
  <2>4. ASSUME NEW s \in SUBSET (1 .. n)
        PROVE  g[s] = IF s = {} THEN base ELSE RemEntryStep(h[s \ {L!Max(s)}], sq[L!Max(s)], v, forward, toremove)
    <3>1. CASE s = {}
      BY <1>1, <3>1 DEF RemEntryLoops
    <3>2. CASE s # {}
      <4> DEFINE x == S!Max(s)
      <4>1. s \ {x} \in SUBSET (1 .. n) /\ L!Max(s) = x
        BY <1>2
      <4>2. g[s] = RemEntryStep(g[s \ {x}], sq[x], v, forward, toremove)
        BY <1>1, <3>2 DEF RemEntryLoops
      <4> HIDE DEF x
      <4>3. h[s \ {x}] = g[s \ {x}]
        BY <2>1, <4>1
      <4>4. QED
        BY <3>2, <4>1, <4>2, <4>3
    <3>3. QED
      BY <3>1, <3>2
  <2>5. h = q
    BY ONLY <2>2, <2>3, <2>4
  <2>6. QED
    BY <2>5 DEF q
<1>4. iter = RemEntryRounds(iter, sq, base, v, forward, toremove)
  BY <1>3
<1>5. RemEntryLoop(sq, base, v, forward, toremove) = iter[1 .. n]
  BY DEF RemEntryLoop
<1> HIDE DEF iter
<1>6. \A s \in SUBSET (1 .. n) :
        iter[s] = IF s = {} THEN base ELSE RemEntryStep(iter[s \ {L!Max(s)}], sq[L!Max(s)], v, forward, toremove)
  <2> DEFINE q == RemEntryRounds(iter, sq, base, v, forward, toremove)
  <2>1. \A s \in SUBSET (1 .. n) :
          q[s] = IF s = {} THEN base ELSE RemEntryStep(iter[s \ {L!Max(s)}], sq[L!Max(s)], v, forward, toremove)
    BY DEF RemEntryRounds
  <2>2. iter = q
    BY <1>4
  <2> HIDE DEF q
  <2>3. QED
    BY <2>1, <2>2
<1>7. \A k \in 0 .. n : r[k] = iter[1 .. k]
  OBVIOUS
<1> HIDE DEF r
<1>8. r[0] = base
  <2>1. 0 \in 0 .. n /\ 1 .. 0 = {} /\ {} \in SUBSET (1 .. n)
    OBVIOUS
  <2>2. iter[{}] = base
    BY <1>6, <2>1
  <2>3. QED
    BY <1>7, <2>1, <2>2
<1>9. ASSUME NEW k \in 1 .. n PROVE r[k] = RemEntryStep(r[k - 1], sq[k], v, forward, toremove)
  <2> DEFINE s == 1 .. k
  <2>1. s \in SUBSET (1 .. n) /\ s # {} /\ S!Max(s) = k /\ s \ {k} = 1 .. k - 1
    BY LastIs
  <2>2. k \in 0 .. n /\ k - 1 \in 0 .. n
    OBVIOUS
  <2> HIDE DEF s
  <2>3. L!Max(s) = k
    BY <1>2, <2>1
  <2>4. iter[s] = RemEntryStep(iter[1 .. k - 1], sq[k], v, forward, toremove)
    BY <1>6, <2>1, <2>3
  <2>5. QED
    BY <1>7, <2>2, <2>4 DEF s
<1>10. n \in 0 .. n
  OBVIOUS
<1>11. QED
  BY <1>5, <1>7, <1>8, <1>9, <1>10 DEF RemEntryRuns

\* The iterator is at an entry, at the end mark, or at none.
RemRight(l, x) == Exact(l) /\ (L!IsZiplist(l) => x \in 0 .. Len(l.zl.entry) + 1)

RemState(o) == \E l, m, x : o = [list |-> l, removed |-> m, at |-> x] /\ RemRight(l, x)

\* The iterator of LREM's loop moves on.
LEMMA AtSet ==
  ASSUME NEW l, NEW m, NEW x, NEW y, NEW o, o = [list |-> l, removed |-> m, at |-> x]
  PROVE  /\ [o EXCEPT !.at = y] = [list |-> l, removed |-> m, at |-> y]
         /\ o.list = l /\ o.removed = m /\ o.at = x
  OBVIOUS

\* A round of LREM's loop: the block stays exact and the iterator stays in it.
LEMMA RemEntryKeeps ==
  ASSUME NEW o, RemState(o), NEW k, NEW v, NEW forward, NEW toremove
  PROVE  RemState(RemEntryStep(o, k, v, forward, toremove))
<1>1. PICK l, m, x : o = [list |-> l, removed |-> m, at |-> x] /\ RemRight(l, x)
  BY DEF RemState
<1>2. o.list = l /\ o.removed = m /\ o.at = x
  BY <1>1, AtSet
<1>3. PICK p : p = RemEntryStep(o, k, v, forward, toremove)
  OBVIOUS
<1>4. CASE x = 0 \/ (toremove # 0 /\ m = toremove)
  <2>1. p = o
    BY <1>2, <1>3, <1>4 DEF RemEntryStep
  <2>2. QED
    BY <1>3, <2>1
<1>5. CASE ~ (x = 0 \/ (toremove # 0 /\ m = toremove)) /\ ~ L!listTypeEqual(l, x, v)
  <2>1. PICK y : y = L!After(l, x, forward)
    OBVIOUS
  <2>2. p = [o EXCEPT !.at = y]
    BY <1>2, <1>3, <1>5, <2>1 DEF RemEntryStep
  <2>3. p = [list |-> l, removed |-> m, at |-> y]
    BY <1>1, <2>2, AtSet
  <2>4. L!IsZiplist(l) => y \in 0 .. Len(l.zl.entry) + 1
    <3> SUFFICES ASSUME L!IsZiplist(l) PROVE y \in 0 .. Len(l.zl.entry) + 1
      OBVIOUS
    <3>1. PICK zl : zl = l.zl
      OBVIOUS
    <3>2. zl \in Zips /\ Len(zl.entry) \in Nat /\ x \in 0 .. Len(zl.entry) + 1
      <4>1. zl \in Zips /\ x \in 0 .. Len(zl.entry) + 1
        BY <1>1, <3>1 DEF RemRight, Exact, Blocks
      <4>2. QED
        BY <4>1, ZipIs
    <3>3. x \in Nat
      BY <3>2
    <3>4. L!ziplistNext(zl, x) \in 0 .. Len(zl.entry) /\ L!ziplistPrev(zl, x) \in 0 .. Len(zl.entry)
      BY <3>2, <3>3, NextIs, PrevIs
    <3>5. y = IF forward THEN L!ziplistNext(zl, x) ELSE L!ziplistPrev(zl, x)
      BY <2>1, <3>1 DEF L!After
    <3>6. y \in 0 .. Len(zl.entry)
      BY <3>4, <3>5
    <3>7. QED
      BY <3>1, <3>2, <3>6
  <2>5. RemRight(l, y)
    BY <1>1, <2>4 DEF RemRight
  <2>6. RemState(p)
    BY <2>3, <2>5 DEF RemState
  <2>7. QED
    BY <1>3, <2>6
<1>6. CASE ~ (x = 0 \/ (toremove # 0 /\ m = toremove)) /\ L!listTypeEqual(l, x, v)
  <2>1. PICK h : h = L!Removed(l, x)
    OBVIOUS
  <2>2. PICK y : y = L!NextAfterDelete(l, x, forward)
    OBVIOUS
  <2>3. p = [list |-> h, removed |-> m + 1, at |-> y]
    BY <1>2, <1>3, <1>6, <2>1, <2>2 DEF RemEntryStep
  <2>4. L!IsZiplist(l) => x \in 1 .. Len(l.zl.entry) /\ Len(l.zl.entry) \in Nat
    <3> SUFFICES ASSUME L!IsZiplist(l) PROVE x \in 1 .. Len(l.zl.entry) /\ Len(l.zl.entry) \in Nat
      OBVIOUS
    <3>1. PICK n : n = Len(l.zl.entry)
      OBVIOUS
    <3>2. x \in 0 .. n + 1
      BY <1>1, <3>1 DEF RemRight
    <3>3. x <= n
      BY <1>6, <3>1 DEF L!listTypeEqual
    <3>4. n \in Nat
      BY <1>1, <3>1, ZipIs DEF RemRight, Exact, Blocks
    <3>5. QED
      BY <1>6, <3>1, <3>2, <3>3, <3>4
  <2>5. /\ Exact(h)
        /\ L!IsZiplist(l) => h.zl \in Blocks /\ Len(h.zl.entry) = Len(l.zl.entry) - 1
        /\ L!IsZiplist(h) <=> L!IsZiplist(l)
    <3>1. Exact(l) /\ (L!IsZiplist(l) => x \in 1 .. Len(l.zl.entry))
      BY <1>1, <2>4 DEF RemRight
    <3>2. QED
      BY <2>1, <3>1, RemovedKeeps
  <2>6. L!IsZiplist(h) => y \in 0 .. Len(h.zl.entry) + 1
    <3> SUFFICES ASSUME L!IsZiplist(h) PROVE y \in 0 .. Len(h.zl.entry) + 1
      OBVIOUS
    <3>1. PICK zm : zm = h.zl
      OBVIOUS
    <3>2. zm \in Zips /\ Len(zm.entry) = Len(l.zl.entry) - 1 /\ L!IsZiplist(l)
      BY <2>5, <3>1 DEF Blocks
    <3>3. x \in 0 .. Len(zm.entry) + 1 /\ Len(zm.entry) \in Nat
      BY <2>4, <3>2
    <3>4. y = IF forward THEN x ELSE L!ziplistPrev(zm, x)
      BY <2>1, <2>2, <3>1, <3>2 DEF L!NextAfterDelete
    <3>5. L!ziplistPrev(zm, x) \in 0 .. Len(zm.entry)
      BY <3>2, PrevIs
    <3>6. y \in 0 .. Len(zm.entry) + 1
      BY <3>3, <3>4, <3>5
    <3>7. QED
      BY <3>1, <3>6
  <2>7. RemRight(h, y)
    BY <2>5, <2>6 DEF RemRight
  <2>8. RemState(p)
    BY <2>3, <2>7 DEF RemState
  <2>9. QED
    BY <1>3, <2>8
<1>7. QED
  BY <1>4, <1>5, <1>6

\* LREM
LEMMA LRemKeeps ==
  ASSUME Full(list), NEW count, count \in L!Counts, NEW v, L!LRem(count, v)
  PROVE  Full(list')
<1>1. CASE L!Absent
  BY <1>1, BecomesKeeps DEF L!LRem
<1>2. CASE ~ L!Absent
  <2> DEFINE forward == count >= 0
             toremove == IF count >= 0 THEN count ELSE - count
             n == MaxLength + 1
             sq == [k \in 1 .. n |-> k]
             base == [list |-> list, removed |-> 0, at |-> L!EntryOf(list, IF forward THEN 0 ELSE -1)]
             o == RemEntryLoop(sq, base, v, forward, toremove)
  <2>1. L!Becomes(L!Left(o.list), o.removed)
    BY <1>2 DEF L!LRem, L!FoldLeft, L!MapThenFoldSet, RemEntryLoop, RemEntryRounds, RemEntryStep
  <2>2. n \in Nat /\ DOMAIN sq = 1 .. n
    BY ListAssumption
  <2>3. RemState(base)
    <3>1. PICK x : x = L!EntryOf(list, IF forward THEN 0 ELSE -1)
      OBVIOUS
    <3>2. L!IsZiplist(list) => x \in 0 .. Len(list.zl.entry) + 1
      <4> SUFFICES ASSUME L!IsZiplist(list) PROVE x \in 0 .. Len(list.zl.entry) + 1
        OBVIOUS
      <4>1. PICK zl : zl = list.zl
        OBVIOUS
      <4>2. zl \in Blocks /\ Len(zl.entry) # 0
        BY <4>1 DEF Full
      <4>3. Len(zl.entry) \in Nat
        BY <4>2, ZipIs DEF Blocks
      <4>4. PICK index \in Int : index = IF forward THEN 0 ELSE -1
        OBVIOUS
      <4>5. x = L!ziplistIndex(zl, L!Cut(index))
        BY <3>1, <4>1, <4>4 DEF L!EntryOf
      <4>6. x \in 0 .. Len(zl.entry)
        BY <4>2, <4>5, IndexIs, CutIsInt DEF Blocks
      <4>7. QED
        BY <4>1, <4>3, <4>6
    <3>3. RemRight(list, x)
      BY <3>2, FullIs DEF RemRight
    <3>4. base = [list |-> list, removed |-> 0, at |-> x]
      BY <3>1
    <3> HIDE DEF base
    <3>5. QED
      BY <3>3, <3>4 DEF RemState
  <2> HIDE DEF base, sq, n, toremove, forward
  <2>4. PICK r : RemEntryRuns(r, sq, base, n, v, forward, toremove) /\ r[n] = o
    BY <2>2, RemEntryLoopIs
  <2> HIDE DEF o
  <2>5. \A k \in 1 .. n : RemState(r[k - 1]) => RemState(r[k])
    BY <2>4, RemEntryKeeps DEF RemEntryRuns
  <2> DEFINE Bad == {k \in 0 .. n : ~ RemState(r[k])}
  <2>6. Bad = {}
    <3> SUFFICES ASSUME Bad # {} PROVE FALSE
      OBVIOUS
    <3>1. PICK c \in 0 .. n : ~ RemState(r[c]) /\ \A x \in Bad : c <= x
      <4>1. Bad \subseteq Nat
        BY <2>2
      <4>2. \A x \in Bad : x \in 0 .. n /\ ~ RemState(r[x])
        OBVIOUS
      <4> HIDE DEF Bad
      <4>3. PICK c \in Bad : \A x \in Bad : c <= x
        BY <4>1, Least
      <4>4. QED
        BY <4>2, <4>3
    <3>2. c # 0
      BY <2>3, <2>4, <3>1 DEF RemEntryRuns
    <3>3. c \in 1 .. n /\ c - 1 \in 0 .. n /\ ~ (c <= c - 1)
      BY ONLY <2>2, <3>1, <3>2
    <3>4. RemState(r[c - 1])
      BY <3>1, <3>3
    <3>5. QED
      BY <2>5, <3>1, <3>3, <3>4
  <2>7. RemState(o)
    <3>1. n \in 0 .. n
      BY <2>2
    <3>2. QED
      BY <2>4, <2>6, <3>1
  <2>8. Exact(o.list)
    <3>1. PICK l, m, x : o = [list |-> l, removed |-> m, at |-> x] /\ RemRight(l, x)
      BY <2>7 DEF RemState
    <3>2. o.list = l
      BY <3>1, AtSet
    <3>3. QED
      BY <3>1, <3>2 DEF RemRight
  <2>9. Full(L!Left(o.list))
    BY <2>8, LeftKeeps
  <2>10. QED
    BY <2>1, <2>9, BecomesKeeps
<1>3. QED
  BY <1>1, <1>2

\* LTRIM
LEMMA LTrimKeeps ==
  ASSUME Full(list), NEW first, first \in Indices, NEW last, last \in Indices, L!LTrim(first, last)
  PROVE  Full(list')
<1>1. CASE L!Absent
  BY <1>1, BecomesKeeps DEF L!LTrim
<1>2. CASE ~ L!Absent /\ ~ L!IsZiplist(list)
  <2>1. PICK l, r : L!Becomes(L!Left(L!Linked(l)), r)
    BY <1>2 DEF L!LTrim
  <2>2. Full(L!Left(L!Linked(l)))
    BY FormsAre, OtherIs, LeftKeeps
  <2>3. QED
    BY <2>1, <2>2, BecomesKeeps
<1>3. CASE ~ L!Absent /\ L!IsZiplist(list)
  <2>1. PICK zl : zl = list.zl
    OBVIOUS
  <2>2. zl \in Blocks
    BY <1>3, <2>1 DEF Full
  <2>3. PICK llen : llen = L!listTypeLength(list)
    OBVIOUS
  <2>4. llen \in Nat
    <3>1. llen = L!ziplistLen(zl)
      BY <1>3, <2>1, <2>3 DEF L!listTypeLength
    <3>2. QED
      BY <2>2, <3>1, LengthIs
  <2>5. PICK from : from = IF first < 0 THEN llen + first ELSE first
    OBVIOUS
  <2>6. PICK start : start = IF from < 0 THEN 0 ELSE from
    OBVIOUS
  <2>7. PICK end : end = IF last < 0 THEN llen + last ELSE last
    OBVIOUS
  <2>8. first \in Int /\ last \in Int
    BY ListAssumption
  <2>9. from \in Int /\ end \in Int
    BY ONLY <2>4, <2>5, <2>7, <2>8
  <2>10. start \in Nat
    BY ONLY <2>6, <2>9
  <2>11. PICK ltrim : ltrim = IF start > end \/ start >= llen THEN llen ELSE start
    OBVIOUS
  <2>12. PICK rtrim : rtrim = IF (start > end \/ start >= llen) \/ end >= llen THEN 0 ELSE llen - end - 1
    OBVIOUS
  <2>13. ltrim \in Nat /\ rtrim \in Nat
    BY ONLY <2>4, <2>9, <2>10, <2>11, <2>12
  <2>14. PICK back : back = - rtrim
    OBVIOUS
  <2>15. back \in Int
    BY ONLY <2>13, <2>14
  <2>16. PICK zm : zm = L!ziplistDeleteRange(L!Counted(zl), 0, ltrim)
    OBVIOUS
  <2>17. zm \in Blocks
    <3>1. L!Counted(zl) \in Blocks
      BY <2>2, CountedKeeps
    <3>2. PICK index \in Int : index = 0
      OBVIOUS
    <3>3. L!ziplistDeleteRange(L!Counted(zl), index, ltrim) \in Blocks
      BY <2>13, <3>1, DeleteRangeKeeps
    <3>4. QED
      BY <2>16, <3>2, <3>3
  <2>18. PICK zn : zn = L!ziplistDeleteRange(zm, back, rtrim)
    OBVIOUS
  <2>19. zn \in Blocks
    BY <2>13, <2>15, <2>17, <2>18, DeleteRangeKeeps
  <2>20. PICK r : L!Becomes(L!Left(L!Zipped(zn)), r)
    BY <1>3, <2>1, <2>3, <2>5, <2>6, <2>7, <2>11, <2>12, <2>14, <2>16, <2>18 DEF L!LTrim
  <2>21. Exact(L!Zipped(zn))
    BY <2>19, ZippedIs
  <2>22. Full(L!Left(L!Zipped(zn)))
    BY <2>21, LeftKeeps
  <2>23. QED
    BY <2>20, <2>22, BecomesKeeps
<1>4. QED
  BY <1>1, <1>2, <1>3

ListInv == Full(list)

\* Between two commands the ziplist of a list is a block, and has entries.
LEMMA ListInvHolds == Spec => []ListInv
<1>1. Init => ListInv
  <2> SUFFICES ASSUME Init PROVE Full(list)
    BY DEF ListInv
  <2>1. ~ L!IsZiplist(list)
    BY FormsAre DEF Init
  <2>2. QED
    BY <2>1, OtherIs
<1>2. ListInv /\ [Next]_vars => ListInv'
  <2> SUFFICES ASSUME Full(list), [Next]_vars PROVE Full(list')
    BY DEF ListInv, Full
  <2>1. CASE L!Next
    BY <2>1, PushKeeps, PushXKeeps, LInsertKeeps, PopKeeps, LLenKeeps, LRemKeeps, LTrimKeeps, LSetKeeps
       DEF L!Next
  <2>2. CASE list' = list
    BY <2>2 DEF Full
  <2>3. CASE list' = Missing
    <3>1. ~ L!IsZiplist(list')
      BY <2>3, FormsAre
    <3>2. QED
      BY <3>1, OtherIs DEF Full
  <2>4. L!Next \/ list' = list \/ list' = Missing
    BY DEF Next, vars, Refused, Set, Del
  <2>5. QED
    BY <2>1, <2>2, <2>3, <2>4
<1>3. QED
  BY <1>1, <1>2, PTL DEF Spec

\* The block of a list's ziplist is exact: every length and offset in it is right
\* behind every command (ziplist.c).
THEOREM BlocksSound == Spec => []ZiplistExact
<1>1. ListInv => ZiplistExact
  <2> SUFFICES ASSUME Full(list), L!IsZiplist(list) PROVE L!LayoutOK(list.zl)
    BY DEF ListInv, ZiplistExact, L!BlockExact
  <2>1. list.zl \in Zips /\ RightBut(list.zl, 0)
    BY DEF Full, Blocks
  <2>2. QED
    BY <2>1, LayoutIs
<1>2. QED
  BY <1>1, ListInvHolds, PTL

\* In the ziplist of a list every entry is short, and the length of its predecessor
\* has one byte: no entry can become too long for the field behind it, which is
\* what __ziplistCascadeUpdate is there for (ziplist.c:690).
ShortFields ==
  L!IsZiplist(list) =>
    \A i \in 1 .. Len(list.zl.entry) :
      /\ list.zl.entry[i].val \notin LongElements
      /\ list.zl.entry[i].prevsize = 1
      /\ L!RawLength(list.zl.entry[i]) < BigLen

\* The fields of a list's ziplist are short behind every command.
THEOREM CascadeNeverDue == Spec => []ShortFields
<1>1. ListInv => ShortFields
  <2> SUFFICES ASSUME Full(list), L!IsZiplist(list), NEW i \in 1 .. Len(list.zl.entry)
               PROVE  /\ list.zl.entry[i].val \notin LongElements
                      /\ list.zl.entry[i].prevsize = 1
                      /\ L!RawLength(list.zl.entry[i]) < BigLen
    BY DEF ListInv, ShortFields
  <2>1. PICK e : e = list.zl.entry[i]
    OBVIOUS
  <2>2. e \in Entries
    BY <2>1, ZipIs DEF Full, Blocks
  <2>3. e.val \notin LongElements
    BY <2>2 DEF Entries, Short
  <2>4. e.prevsize = 1 /\ L!RawLength(e) < BigLen
    BY <2>2, RawIs DEF L!PrevSize
  <2>5. QED
    BY <2>1, <2>3, <2>4
<1>2. QED
  BY <1>1, ListInvHolds, PTL
=============================================================================
