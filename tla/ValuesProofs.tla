---------------------------- MODULE ValuesProofs ----------------------------
(***************************************************************************)
(* Proofs about Values: the binary search of intset.c finds the place of a *)
(* value, the operations on an integer set keep its array sorted, free of  *)
(* repetition and wide enough, and so do the commands of t_set.c.          *)
(***************************************************************************)
EXTENDS Values, SequenceTheorems, WellFoundedInduction, TLAPS

(* The least number of a set.                                              *)
LEMMA Least ==
  ASSUME NEW N, N \subseteq Nat, N # {}
  PROVE  \E b \in N : \A x \in N : b <= x
<1> DEFINE Less == {pair \in Nat \X Nat : pair[1] < pair[2]}
<1>1. IsWellFoundedOn(Less, Nat)
  BY NatLessThanWellFounded DEF OpToRel
<1>2. \A x, y \in Nat : x < y => <<x, y>> \in Less
  OBVIOUS
<1> HIDE DEF Less
<1>3. \E b \in N : \A y \in N : <<y, b>> \notin Less
  BY <1>1, WFMin
<1>4. PICK b \in N : \A y \in N : ~ (y < b)
  BY <1>2, <1>3
<1>5. \A x \in N : b <= x
  BY <1>4
<1>6. QED
  BY <1>5
-----------------------------------------------------------------------------
(* The arrays of integers of intset.c.                                     *)

Arrays == {is \in [encoding : 1 .. 3, contents : Seq(Int)] : S!IntSetOK(is)}

\* What an array is.
LEMMA ArrayIs ==
  ASSUME NEW is \in Arrays
  PROVE  /\ is.encoding \in 1 .. 3 /\ is.contents \in Seq(Int) /\ Len(is.contents) \in Nat
         /\ \A i \in 1 .. Len(is.contents) : is.contents[i] \in Int /\ S!Fits(is.contents[i], is.encoding)
         /\ \A i \in 1 .. Len(is.contents) - 1 : is.contents[i] < is.contents[i + 1]
<1>1. is \in [encoding : 1 .. 3, contents : Seq(Int)] /\ S!IntSetOK(is)
  BY DEF Arrays
<1>2. DOMAIN is.contents = 1 .. Len(is.contents) /\ is.contents \in Seq(Int) /\ Len(is.contents) \in Nat
  BY <1>1
<1>3. QED
  BY <1>1, <1>2 DEF S!IntSetOK

\* What it takes to be one.
LEMMA IsArray ==
  ASSUME NEW e \in 1 .. 3, NEW c, c \in Seq(Int), NEW is, is = [encoding |-> e, contents |-> c],
         \A i \in 1 .. Len(c) : S!Fits(c[i], e),
         \A i \in 1 .. Len(c) - 1 : c[i] < c[i + 1]
  PROVE  is \in Arrays
<1>1. is.encoding = e /\ is.contents = c /\ is \in [encoding : 1 .. 3, contents : Seq(Int)]
  OBVIOUS
<1>2. DOMAIN c = 1 .. Len(c)
  OBVIOUS
<1>3. S!IntSetOK(is)
  BY <1>1, <1>2 DEF S!IntSetOK
<1>4. QED
  BY <1>1, <1>3 DEF Arrays

\* An array without repetition whose neighbours are in order is in order.
LEMMA Ordered ==
  ASSUME NEW c, c \in Seq(Int), \A i \in 1 .. Len(c) - 1 : c[i] < c[i + 1]
  PROVE  \A i, j \in 1 .. Len(c) : i < j => c[i] < c[j]
<1> DEFINE n == Len(c)
<1>1. n \in Nat /\ \A i \in 1 .. n : c[i] \in Int
  OBVIOUS
<1> HIDE DEF n
<1> SUFFICES ASSUME NEW i \in 1 .. n PROVE \A j \in 1 .. n : i < j => c[i] < c[j]
  BY DEF n
<1> DEFINE Bad == {j \in 1 .. n : i < j /\ ~ (c[i] < c[j])}
<1>2. Bad = {}
  <2> SUFFICES ASSUME Bad # {} PROVE FALSE
    OBVIOUS
  <2>1. Bad \subseteq Nat
    BY <1>1
  <2>2. PICK b \in Bad : \A x \in Bad : b <= x
    <3> HIDE DEF Bad
    <3>1. QED
      BY <2>1, Least
  <2>3. b \in 1 .. n /\ i < b /\ ~ (c[i] < c[b])
    OBVIOUS
  <2>4. b - 1 \in 1 .. n - 1 /\ b - 1 \in 1 .. n /\ b = (b - 1) + 1
    BY <1>1, <2>3
  <2>5. c[b - 1] < c[b]
    BY <2>4, n = Len(c) DEF n
  <2>6. b - 1 \notin Bad
    <3> HIDE DEF Bad
    <3>1. ~ (b <= b - 1)
      BY <2>3
    <3>2. QED
      BY <2>2, <3>1
  <2>7. CASE i = b - 1
    BY <2>3, <2>5, <2>7
  <2>8. CASE i # b - 1
    <3>1. c[i] < c[b - 1]
      BY <1>1, <2>3, <2>4, <2>6, <2>8
    <3>2. c[i] \in Int /\ c[b - 1] \in Int /\ c[b] \in Int
      BY <1>1, <2>3, <2>4
    <3>3. QED
      BY <3>1, <3>2, <2>3, <2>5
  <2>9. QED
    BY <2>7, <2>8
<1>3. QED
  BY <1>2
-----------------------------------------------------------------------------
(* The binary search: intsetSearch.                                        *)

\* A round of the loop, which goes on as f says.
Round(f, c, v, range) ==
  LET min == range[1]
      max == range[2]
      mid == (min + max) \div 2
  IN  IF max < min THEN [found |-> FALSE, pos |-> min]
      ELSE IF v > c[mid + 1] THEN f[<<mid + 1, max>>]
      ELSE IF v < c[mid + 1] THEN f[<<min, mid - 1>>]
      ELSE [found |-> TRUE, pos |-> mid]

Ranges(n) == (0 .. n) \X (-1 .. n - 1)

\* ... with the definition of intsetSearch as one equation.
Rounds(f, c, v) == [range \in Ranges(Len(c)) |-> Round(f, c, v, range)]

\* Where v belongs in c.
Place(c, v, r) ==
  /\ r.found \in BOOLEAN /\ r.pos \in 0 .. Len(c)
  /\ r.found => r.pos \in 0 .. Len(c) - 1 /\ c[r.pos + 1] = v
  /\ ~ r.found => /\ \A i \in 1 .. r.pos : c[i] < v
                  /\ \A i \in r.pos + 1 .. Len(c) : v < c[i]

\* The length of a range.
Rank(range) == range[2] - range[1]

\* What a range is, ...
LEMMA RangeIs ==
  ASSUME NEW n \in Nat, NEW range \in Ranges(n)
  PROVE  /\ range[1] \in 0 .. n /\ range[2] \in -1 .. n - 1 /\ range = <<range[1], range[2]>>
         /\ Rank(range) \in Int /\ Rank(range) = range[2] - range[1] /\ Rank(range) < n
<1>1. range[1] \in 0 .. n /\ range[2] \in -1 .. n - 1 /\ range = <<range[1], range[2]>>
  BY DEF Ranges
<1>2. Rank(range) = range[2] - range[1]
  BY DEF Rank
<1>3. QED
  BY <1>1, <1>2

\* ... and what is left of it.
LEMMA Halves ==
  ASSUME NEW n \in Nat, NEW range \in Ranges(n), ~ (range[2] < range[1])
  PROVE  LET mid == (range[1] + range[2]) \div 2
         IN  /\ mid \in range[1] .. range[2] /\ mid \in 0 .. n - 1
             /\ <<mid + 1, range[2]>> \in Ranges(n) /\ Rank(<<mid + 1, range[2]>>) < Rank(range)
             /\ <<range[1], mid - 1>> \in Ranges(n) /\ Rank(<<range[1], mid - 1>>) < Rank(range)
<1> DEFINE min == range[1]
           max == range[2]
           mid == (min + max) \div 2
<1>1. min \in 0 .. n /\ max \in -1 .. n - 1 /\ Rank(range) = max - min /\ ~ (max < min)
  BY RangeIs
<1> HIDE DEF min, max
<1>2. /\ mid \in min .. max /\ mid \in 0 .. n - 1
      /\ mid + 1 \in 0 .. n /\ mid - 1 \in -1 .. n - 1
      /\ max - (mid + 1) < max - min /\ (mid - 1) - min < max - min
  BY <1>1
<1>3. \A x \in 0 .. n, y \in -1 .. n - 1 : <<x, y>> \in Ranges(n) /\ Rank(<<x, y>>) = y - x
  BY DEF Ranges, Rank
<1> HIDE DEF mid
<1>4. /\ <<mid + 1, max>> \in Ranges(n) /\ Rank(<<mid + 1, max>>) = max - (mid + 1)
      /\ <<min, mid - 1>> \in Ranges(n) /\ Rank(<<min, mid - 1>>) = (mid - 1) - min
  BY <1>1, <1>2, <1>3
<1>5. QED
  BY <1>1, <1>2, <1>4 DEF min, max, mid

\* A round looks at shorter ranges only.
LEMMA RoundLocal ==
  ASSUME NEW c, NEW v, NEW n \in Nat, NEW range \in Ranges(n), NEW f, NEW g,
         \A r \in Ranges(n) : Rank(r) < Rank(range) => f[r] = g[r]
  PROVE  Round(f, c, v, range) = Round(g, c, v, range)
<1> DEFINE min == range[1]
           max == range[2]
           mid == (min + max) \div 2
<1>1. ASSUME ~ (max < min)
      PROVE  f[<<mid + 1, max>>] = g[<<mid + 1, max>>] /\ f[<<min, mid - 1>>] = g[<<min, mid - 1>>]
  BY <1>1, Halves
<1>2. Round(f, c, v, range) = IF max < min THEN [found |-> FALSE, pos |-> min]
                              ELSE IF v > c[mid + 1] THEN f[<<mid + 1, max>>]
                              ELSE IF v < c[mid + 1] THEN f[<<min, mid - 1>>]
                              ELSE [found |-> TRUE, pos |-> mid]
  BY DEF Round
<1>3. Round(g, c, v, range) = IF max < min THEN [found |-> FALSE, pos |-> min]
                              ELSE IF v > c[mid + 1] THEN g[<<mid + 1, max>>]
                              ELSE IF v < c[mid + 1] THEN g[<<min, mid - 1>>]
                              ELSE [found |-> TRUE, pos |-> mid]
  BY DEF Round
<1> HIDE DEF min, max, mid
<1>4. QED
  BY <1>1, <1>2, <1>3

\* The equation is right for the ranges shorter than k.
Upto(f, c, v, k) ==
  \A r \in Ranges(Len(c)) : Rank(r) < k => f[r] = Round(f, c, v, r)

\* There is a function that solves the equation.
LEMMA SearchRuns ==
  ASSUME NEW c, c \in Seq(Int), NEW v
  PROVE  \E f : f = Rounds(f, c, v)
<1> DEFINE n == Len(c)
           Bad == {k \in 0 .. n : ~ \E f : Upto(f, c, v, k)}
<1>1. n \in Nat
  OBVIOUS
<1> HIDE DEF n
<1>2. Bad = {}
  <2> SUFFICES ASSUME Bad # {} PROVE FALSE
    OBVIOUS
  <2>1. Bad \subseteq Nat
    BY <1>1
  <2>2. PICK b \in Bad : \A x \in Bad : b <= x
    <3> HIDE DEF Bad
    <3>1. QED
      BY <2>1, Least
  <2>3. b \in 0 .. n /\ ~ \E f : Upto(f, c, v, b)
    OBVIOUS
  <2>4. b # 0
    <3> DEFINE f == [r \in Ranges(n) |-> [found |-> FALSE, pos |-> r[1]]]
    <3>1. ASSUME NEW r \in Ranges(n), Rank(r) < 0 PROVE f[r] = Round(f, c, v, r)
      <4>1. r[2] < r[1]
        BY <3>1, <1>1, RangeIs
      <4>2. f[r] = [found |-> FALSE, pos |-> r[1]]
        OBVIOUS
      <4> HIDE DEF f
      <4>3. QED
        BY <4>1, <4>2 DEF Round
    <3> HIDE DEF f
    <3>2. Upto(f, c, v, 0)
      BY <3>1 DEF Upto, n
    <3>3. QED
      BY <3>2, <2>3
  <2>5. b - 1 \in 0 .. n /\ b \in 1 .. n /\ b - 1 \notin Bad
    <3>1. b - 1 \in 0 .. n /\ b \in 1 .. n /\ ~ (b <= b - 1)
      BY <2>3, <2>4, <1>1
    <3> HIDE DEF Bad
    <3>2. QED
      BY <3>1, <2>2
  <2>6. PICK f : Upto(f, c, v, b - 1)
    BY <2>5
  <2> HIDE DEF Bad
  <2> DEFINE g == [r \in Ranges(n) |-> IF Rank(r) < b - 1 THEN f[r] ELSE Round(f, c, v, r)]
  <2>7. \A r \in Ranges(n) : g[r] = IF Rank(r) < b - 1 THEN f[r] ELSE Round(f, c, v, r)
    OBVIOUS
  <2> HIDE DEF g
  <2>8. ASSUME NEW r \in Ranges(n), Rank(r) < b PROVE g[r] = Round(g, c, v, r)
    <3>1. g[r] = Round(f, c, v, r)
      BY <2>6, <2>7 DEF Upto, n
    <3>2. \A s \in Ranges(n) : Rank(s) \in Int
      BY <1>1, RangeIs
    <3>3. \A s \in Ranges(n) : Rank(s) < Rank(r) => f[s] = g[s]
      <4>1. \A s \in Ranges(n) : Rank(s) < Rank(r) => Rank(s) < b - 1
        BY <3>2, <2>5, <2>8
      <4>2. QED
        BY <4>1, <2>7
    <3>4. Round(f, c, v, r) = Round(g, c, v, r)
      BY <1>1, <3>3, RoundLocal
    <3>5. QED
      BY <3>1, <3>4
  <2>9. Upto(g, c, v, b)
    BY <2>8 DEF Upto, n
  <2>10. QED
    BY <2>3, <2>9
<1>3. PICK f : Upto(f, c, v, n)
  <2>1. n \in 0 .. n
    BY <1>1
  <2>2. n \notin Bad
    BY <1>2
  <2>3. QED
    BY <2>1, <2>2
<1> HIDE DEF Bad
<1> DEFINE g == [r \in Ranges(n) |-> f[r]]
<1>4. \A r \in Ranges(n) : g[r] = f[r]
  OBVIOUS
<1>5. ASSUME NEW r \in Ranges(n) PROVE g[r] = Round(g, c, v, r)
  <2>1. Rank(r) < n
    BY <1>1, RangeIs
  <2>2. f[r] = Round(f, c, v, r)
    BY <1>3, <2>1 DEF Upto, n
  <2>3. Round(f, c, v, r) = Round(g, c, v, r)
    <3> HIDE DEF g
    <3>1. QED
      BY <1>1, <1>4, RoundLocal
  <2>4. g[r] = f[r]
    OBVIOUS
  <2> HIDE DEF g
  <2>5. QED
    BY <2>2, <2>3, <2>4
<1>6. g = [r \in Ranges(n) |-> Round(g, c, v, r)]
  <2> DEFINE h == [r \in Ranges(n) |-> Round(g, c, v, r)]
  <2>1. \A r \in Ranges(n) : h[r] = g[r]
    BY <1>5
  <2>2. QED
    BY <2>1
<1> HIDE DEF g
<1>7. g = Rounds(g, c, v)
  BY <1>6 DEF Rounds, n
<1>8. QED
  BY <1>7

\* What is outside the range is known.
Window(c, v, range) ==
  /\ range[1] <= range[2] + 1
  /\ \A i \in 1 .. range[1] : c[i] < v
  /\ \A i \in range[2] + 2 .. Len(c) : v < c[i]

\* A range with v in its window leads to the place of v.
LEMMA SearchFinds ==
  ASSUME NEW c, c \in Seq(Int), \A i \in 1 .. Len(c) - 1 : c[i] < c[i + 1], NEW v \in Int,
         NEW f, f = Rounds(f, c, v),
         NEW range \in Ranges(Len(c)), Window(c, v, range)
  PROVE  Place(c, v, f[range])
<1> DEFINE n == Len(c)
           Lost(r) == Window(c, v, r) /\ ~ Place(c, v, f[r])
           Bad == {k \in 0 .. n : \E r \in Ranges(n) : Rank(r) + 1 = k /\ Lost(r)}
<1>1. n \in Nat /\ \A i \in 1 .. n : c[i] \in Int
  OBVIOUS
<1>2. \A i, j \in 1 .. n : i < j => c[i] < c[j]
  BY Ordered
<1>3. \A r \in Ranges(n) : f[r] = Round(f, c, v, r)
  <2> DEFINE g == Rounds(f, c, v)
  <2>1. \A r \in Ranges(n) : g[r] = Round(f, c, v, r)
    BY DEF Rounds
  <2> HIDE DEF g
  <2>2. f = g
    BY DEF g
  <2>3. QED
    BY <2>1, <2>2
<1> HIDE DEF n
<1>4. ASSUME NEW r \in Ranges(n), Window(c, v, r)
      PROVE  Rank(r) + 1 \in 0 .. n
  BY <1>1, <1>4, RangeIs DEF Window
<1>5. ASSUME NEW r \in Ranges(n), Window(c, v, r),
             \A s \in Ranges(n) : Rank(s) < Rank(r) /\ Window(c, v, s) => Place(c, v, f[s])
      PROVE  Place(c, v, f[r])
  <2> DEFINE min == r[1]
             max == r[2]
             mid == (min + max) \div 2
  <2>1. min \in 0 .. n /\ max \in -1 .. n - 1
    BY <1>1, RangeIs
  <2>2. /\ min <= max + 1
        /\ \A i \in 1 .. min : c[i] < v
        /\ \A i \in max + 2 .. n : v < c[i]
    BY <1>5 DEF Window, n
  <2>3. f[r] = IF max < min THEN [found |-> FALSE, pos |-> min]
               ELSE IF v > c[mid + 1] THEN f[<<mid + 1, max>>]
               ELSE IF v < c[mid + 1] THEN f[<<min, mid - 1>>]
               ELSE [found |-> TRUE, pos |-> mid]
    <3>1. f[r] = Round(f, c, v, r)
      BY <1>3
    <3>2. QED
      BY <3>1 DEF Round
  <2>4. CASE max < min
    <3> DEFINE result == [found |-> FALSE, pos |-> min]
    <3>1. result.found \in BOOLEAN /\ ~ result.found /\ result.pos = min /\ min = max + 1
      BY <2>1, <2>2, <2>4
    <3>2. f[r] = result
      BY <2>3, <2>4
    <3> HIDE DEF result, min, max, mid
    <3>3. Place(c, v, result)
      BY <3>1, <2>1, <2>2, <1>1 DEF Place, n
    <3>4. QED
      BY <3>2, <3>3
  <2>5. CASE ~ (max < min)
    <3>1. /\ mid \in min .. max /\ mid \in 0 .. n - 1
          /\ <<mid + 1, max>> \in Ranges(n) /\ Rank(<<mid + 1, max>>) < Rank(r)
          /\ <<min, mid - 1>> \in Ranges(n) /\ Rank(<<min, mid - 1>>) < Rank(r)
      BY <1>1, <2>5, Halves
    <3> HIDE DEF min, max, mid
    <3>2. mid + 1 \in 1 .. n /\ c[mid + 1] \in Int
      BY <1>1, <3>1
    <3>3. CASE v > c[mid + 1]
      <4> DEFINE s == <<mid + 1, max>>
      <4>1. s[1] = mid + 1 /\ s[2] = max /\ s \in Ranges(n) /\ Rank(s) < Rank(r)
        BY <3>1
      <4>2. f[r] = f[s]
        BY <2>3, <2>5, <3>3
      <4> HIDE DEF s
      <4>3. ASSUME NEW i \in 1 .. mid + 1 PROVE c[i] < v
        <5>1. i \in 1 .. n /\ c[i] \in Int /\ (i = mid + 1 \/ i < mid + 1)
          BY <1>1, <3>1, <3>2
        <5>2. c[i] = c[mid + 1] \/ c[i] < c[mid + 1]
          BY <5>1, <1>2, <3>2
        <5>3. QED
          BY <5>1, <5>2, <3>2, <3>3
      <4>4. Window(c, v, s)
        BY <4>1, <4>3, <2>1, <2>2, <3>1 DEF Window, n
      <4>5. QED
        BY <4>1, <4>2, <4>4, <1>5
    <3>4. CASE v < c[mid + 1]
      <4> DEFINE s == <<min, mid - 1>>
      <4>1. s[1] = min /\ s[2] = mid - 1 /\ s \in Ranges(n) /\ Rank(s) < Rank(r)
        BY <3>1
      <4>2. f[r] = f[s]
        <5>1. ~ (v > c[mid + 1])
          BY <3>2, <3>4
        <5>2. QED
          BY <2>3, <2>5, <3>4, <5>1
      <4> HIDE DEF s
      <4>3. ASSUME NEW i \in mid + 1 .. n PROVE v < c[i]
        <5>1. i \in 1 .. n /\ c[i] \in Int /\ (i = mid + 1 \/ mid + 1 < i)
          BY <1>1, <3>1, <3>2
        <5>2. c[i] = c[mid + 1] \/ c[mid + 1] < c[i]
          BY <5>1, <1>2, <3>2
        <5>3. QED
          BY <5>1, <5>2, <3>2, <3>4
      <4>4. (mid - 1) + 2 = mid + 1 /\ min <= (mid - 1) + 1
        BY <2>1, <3>1
      <4>5. Window(c, v, s)
        BY <4>1, <4>3, <4>4, <2>2 DEF Window, n
      <4>6. QED
        BY <4>1, <4>2, <4>5, <1>5
    <3>5. CASE ~ (v > c[mid + 1]) /\ ~ (v < c[mid + 1])
      <4> DEFINE result == [found |-> TRUE, pos |-> mid]
      <4>1. result.found \in BOOLEAN /\ result.found /\ result.pos = mid
        OBVIOUS
      <4>2. f[r] = result
        BY <2>3, <2>5, <3>5
      <4>3. c[mid + 1] = v
        BY <3>2, <3>5
      <4> HIDE DEF result
      <4>4. Place(c, v, result)
        BY <4>1, <4>3, <3>1, <1>1 DEF Place, n
      <4>5. QED
        BY <4>2, <4>4
    <3>6. QED
      BY <3>3, <3>4, <3>5
  <2>6. QED
    BY <2>4, <2>5
<1>6. Bad = {}
  <2> SUFFICES ASSUME Bad # {} PROVE FALSE
    OBVIOUS
  <2>1. Bad \subseteq Nat
    BY <1>1
  <2>2. PICK b \in Bad : \A x \in Bad : b <= x
    <3> HIDE DEF Bad
    <3>1. QED
      BY <2>1, Least
  <2>3. PICK r \in Ranges(n) : Rank(r) + 1 = b /\ Lost(r)
    OBVIOUS
  <2>4. ASSUME NEW s \in Ranges(n), Rank(s) < Rank(r), Window(c, v, s)
        PROVE  Place(c, v, f[s])
    <3>1. Rank(s) + 1 \in 0 .. n
      BY <1>4, <2>4
    <3>2. ~ (b <= Rank(s) + 1)
      BY <1>1, <2>3, <2>4, RangeIs
    <3>3. Rank(s) + 1 \notin Bad
      <4> HIDE DEF Bad
      <4>1. QED
        BY <2>2, <3>2
    <3>4. QED
      BY <3>1, <3>3, <2>4
  <2> HIDE DEF Bad
  <2>5. Place(c, v, f[r])
    BY <2>3, <2>4, <1>5
  <2>6. QED
    BY <2>3, <2>5
<1>7. Rank(range) + 1 \notin Bad /\ Rank(range) + 1 \in 0 .. n /\ range \in Ranges(n)
  <2>1. range \in Ranges(n) /\ Window(c, v, range)
    BY DEF n
  <2> HIDE DEF Bad
  <2>2. QED
    BY <2>1, <1>4, <1>6
<1>8. QED
  BY <1>7

\* intsetSearch finds where v is, or where it would be.
LEMMA SearchIsRight ==
  ASSUME NEW is \in Arrays, NEW v \in Int
  PROVE  Place(is.contents, v, S!intsetSearch(is, v))
<1> DEFINE c == is.contents
           n == Len(c)
           search == CHOOSE f : f = Rounds(f, c, v)
<1>1. c \in Seq(Int) /\ n \in Nat /\ (\A i \in 1 .. n - 1 : c[i] < c[i + 1]) /\ \A i \in 1 .. n : c[i] \in Int
  BY ArrayIs
<1>2. S!intsetSearch(is, v) = IF n = 0 THEN [found |-> FALSE, pos |-> 0]
                              ELSE IF v > c[n - 1 + 1] THEN [found |-> FALSE, pos |-> n]
                              ELSE IF v < c[0 + 1] THEN [found |-> FALSE, pos |-> 0]
                              ELSE search[<<0, n - 1>>]
  BY DEF S!intsetSearch, Rounds, Round, Ranges
<1> SUFFICES Place(c, v, S!intsetSearch(is, v))
  OBVIOUS
<1> HIDE DEF c
<1>3. search = Rounds(search, c, v)
  BY <1>1, SearchRuns
<1> HIDE DEF search
<1>4. \A i, j \in 1 .. n : i < j => c[i] < c[j]
  BY <1>1, Ordered
<1> HIDE DEF n
<1>5. ASSUME NEW r, NEW p \in 0 .. n, r = [found |-> FALSE, pos |-> p],
             \A i \in 1 .. p : c[i] < v, \A i \in p + 1 .. n : v < c[i]
      PROVE  Place(c, v, r)
  <2>1. r.found \in BOOLEAN /\ ~ r.found /\ r.pos = p
    BY <1>5
  <2>2. QED
    BY <2>1, <1>5, <1>1 DEF Place, n
<1>6. CASE n = 0
  <2>1. 0 \in 0 .. n /\ (\A i \in 1 .. 0 : c[i] < v) /\ \A i \in 0 + 1 .. n : v < c[i]
    BY <1>6
  <2>2. S!intsetSearch(is, v) = [found |-> FALSE, pos |-> 0]
    BY <1>2, <1>6
  <2>3. QED
    BY <2>1, <2>2, <1>5
<1>7. CASE n # 0
  <2>1. n \in 1 .. n /\ 1 \in 1 .. n /\ n \in 0 .. n /\ 0 \in 0 .. n /\ n - 1 + 1 = n /\ 0 + 1 = 1
    BY <1>1, <1>7
  <2>2. c[n] \in Int /\ c[1] \in Int
    BY <1>1, <2>1
  <2>3. CASE v > c[n]
    <3>1. \A i \in 1 .. n : c[i] < v
      <4> SUFFICES ASSUME NEW i \in 1 .. n PROVE c[i] < v
        OBVIOUS
      <4>1. c[i] \in Int /\ (i = n \/ i < n)
        BY <1>1
      <4>2. i < n => c[i] < c[n]
        BY <1>4, <2>1
      <4>3. QED
        BY <4>1, <4>2, <2>2, <2>3
    <3>2. S!intsetSearch(is, v) = [found |-> FALSE, pos |-> n]
      BY <1>2, <1>7, <2>1, <2>3
    <3>3. \A i \in n + 1 .. n : v < c[i]
      BY <1>1
    <3>4. QED
      BY <1>5, <2>1, <3>1, <3>2, <3>3
  <2>4. CASE v < c[1]
    <3>1. \A i \in 0 + 1 .. n : v < c[i]
      <4> SUFFICES ASSUME NEW i \in 1 .. n PROVE v < c[i]
        BY <2>1
      <4>1. c[i] \in Int /\ (i = 1 \/ 1 < i)
        BY <1>1
      <4>2. 1 < i => c[1] < c[i]
        BY <1>4, <2>1
      <4>3. QED
        BY <4>1, <4>2, <2>2, <2>4
    <3>2. S!intsetSearch(is, v) = [found |-> FALSE, pos |-> 0]
      <4>1. ~ (v > c[n])
        <5>1. c[1] <= c[n]
          BY <1>4, <2>1, <2>2
        <5>2. QED
          BY <5>1, <2>2, <2>4
      <4>2. QED
        BY <4>1, <1>2, <1>7, <2>1, <2>4
    <3>3. \A i \in 1 .. 0 : c[i] < v
      OBVIOUS
    <3>4. QED
      BY <1>5, <2>1, <3>1, <3>2, <3>3
  <2>5. CASE ~ (v > c[n]) /\ ~ (v < c[1])
    <3> DEFINE range == <<0, n - 1>>
    <3>1. range[1] = 0 /\ range[2] = n - 1 /\ range \in Ranges(n)
      BY <1>1, <2>1 DEF Ranges
    <3>2. S!intsetSearch(is, v) = search[range]
      BY <1>2, <1>7, <2>1, <2>5
    <3> HIDE DEF range
    <3>3. Window(c, v, range)
      BY <1>1, <2>1, <3>1 DEF Window, n
    <3>4. Place(c, v, search[range])
      <4>1. range \in Ranges(Len(c))
        BY <3>1 DEF n
      <4>2. \A i \in 1 .. Len(c) - 1 : c[i] < c[i + 1]
        BY <1>1 DEF n
      <4>3. QED
        BY <4>1, <4>2, <3>3, <1>1, <1>3, SearchFinds
    <3>5. QED
      BY <3>2, <3>4
  <2>6. QED
    BY <2>3, <2>4, <2>5
<1>8. QED
  BY <1>6, <1>7
-----------------------------------------------------------------------------
(* Encodings.                                                              *)

LEMMA Widths ==
  /\ \A e \in 1 .. 3 : Half[e] \in Nat /\ Half[e] > 0
  /\ \A e, f \in 1 .. 3 : e <= f => Half[e] <= Half[f]
<1>1. Half \in [1 .. 3 -> Nat \ {0}] /\ Half[1] < Half[2] /\ Half[2] < Half[3]
  BY SetAssumption
<1>2. \A e \in 1 .. 3 : Half[e] \in Nat /\ Half[e] > 0
  BY <1>1
<1>3. ASSUME NEW e \in 1 .. 3, NEW f \in 1 .. 3, e <= f PROVE Half[e] <= Half[f]
  <2>1. e = f \/ (e = 1 /\ f = 2) \/ (e = 1 /\ f = 3) \/ (e = 2 /\ f = 3)
    BY <1>3
  <2>2. QED
    BY <2>1, <1>1, <1>2
<1>4. QED
  BY <1>2, <1>3

\* _intsetValueEncoding is the least encoding that a value fits.
LEMMA EncodingIs ==
  ASSUME NEW v \in Int
  PROVE  /\ S!ValueEncoding(v) \in 1 .. 3
         /\ S!Fits(v, 3) => S!Fits(v, S!ValueEncoding(v))
         /\ \A e \in 1 .. 3 : e < S!ValueEncoding(v) => ~ S!Fits(v, e)
<1>1. S!ValueEncoding(v) = IF S!Fits(v, 1) THEN 1 ELSE IF S!Fits(v, 2) THEN 2 ELSE 3
  BY DEF S!ValueEncoding
<1>2. S!ValueEncoding(v) \in 1 .. 3 /\ (S!Fits(v, 3) => S!Fits(v, S!ValueEncoding(v)))
  BY <1>1
<1>3. ASSUME NEW e \in 1 .. 3, e < S!ValueEncoding(v) PROVE ~ S!Fits(v, e)
  <2>1. e = 1 \/ e = 2
    BY <1>2, <1>3
  <2>2. QED
    BY <2>1, <1>1, <1>3
<1>4. QED
  BY <1>2, <1>3

\* What fits an encoding fits a wider one, ...
LEMMA FitsWider ==
  ASSUME NEW v \in Int, NEW e \in 1 .. 3, NEW f \in 1 .. 3, e <= f, S!Fits(v, e)
  PROVE  S!Fits(v, f)
<1>1. Half[e] \in Nat /\ Half[f] \in Nat /\ Half[e] <= Half[f]
  BY Widths
<1>2. QED
  BY <1>1 DEF S!Fits

\* ... and is stored as it is.
LEMMA NarrowedIs ==
  ASSUME NEW v \in Int, NEW e \in 1 .. 3, S!Fits(v, e)
  PROVE  S!Narrowed(v, e) = v
<1> DEFINE h == Half[e]
<1>1. h \in Nat /\ h > 0 /\ v >= - h /\ v < h
  BY Widths DEF S!Fits
<1>2. S!Narrowed(v, e) = ((v + h) % (2 * h)) - h
  BY DEF S!Narrowed
<1> HIDE DEF h
<1>3. (v + h) % (2 * h) = v + h
  BY <1>1
<1>4. QED
  BY <1>1, <1>2, <1>3
-----------------------------------------------------------------------------
(* The operations on an array.                                             *)

\* Two sequences in one.
LEMMA Joined ==
  ASSUME NEW a, a \in Seq(Int), NEW b, b \in Seq(Int)
  PROVE  /\ a \o b \in Seq(Int) /\ Len(a \o b) = Len(a) + Len(b)
         /\ \A i \in 1 .. Len(a) + Len(b) : (a \o b)[i] = IF i <= Len(a) THEN a[i] ELSE b[i - Len(a)]
  BY ConcatProperties

\* A value between two others.
LEMMA InsertIs ==
  ASSUME NEW c, c \in Seq(Int), NEW x \in Int, NEW p \in 0 .. Len(c)
  PROVE  /\ S!InsertAt(c, p + 1, x) \in Seq(Int)
         /\ Len(S!InsertAt(c, p + 1, x)) = Len(c) + 1
         /\ \A i \in 1 .. Len(c) + 1 :
              S!InsertAt(c, p + 1, x)[i] = IF i <= p THEN c[i] ELSE IF i = p + 1 THEN x ELSE c[i - 1]
<1> DEFINE a == SubSeq(c, 1, p)
           b == SubSeq(c, p + 1, Len(c))
           m == a \o <<x>>
<1>1. Len(c) \in Nat /\ p + 1 - 1 = p
  OBVIOUS
<1>2. S!InsertAt(c, p + 1, x) = m \o b
  <2>1. \A q : S!InsertAt(c, q, x) = (SubSeq(c, 1, q - 1) \o <<x>>) \o SubSeq(c, q, Len(c))
    BY DEF S!InsertAt
  <2>2. PICK q : q = p + 1
    OBVIOUS
  <2>3. q - 1 = p
    BY <2>2
  <2>4. S!InsertAt(c, q, x) = (SubSeq(c, 1, p) \o <<x>>) \o SubSeq(c, q, Len(c))
    BY <2>1, <2>3, Zenon
  <2>5. QED
    BY <2>2, <2>4, Zenon
<1>3. a \in Seq(Int) /\ Len(a) = p /\ \A i \in 1 .. p : a[i] = c[i]
  BY <1>1
<1>4. b \in Seq(Int) /\ Len(b) = Len(c) - p /\ \A i \in 1 .. Len(c) - p : b[i] = c[p + i]
  BY <1>1
<1> HIDE DEF a, b
<1>5. m \in Seq(Int) /\ Len(m) = p + 1 /\ \A i \in 1 .. p + 1 : m[i] = IF i <= p THEN c[i] ELSE x
  BY <1>1, <1>3
<1> HIDE DEF m
<1>6. /\ m \o b \in Seq(Int) /\ Len(m \o b) = Len(c) + 1
      /\ \A i \in 1 .. Len(c) + 1 : (m \o b)[i] = IF i <= p + 1 THEN m[i] ELSE b[i - (p + 1)]
  <2>1. Len(m) + Len(b) = Len(c) + 1
    BY <1>1, <1>4, <1>5
  <2>2. QED
    BY <2>1, <1>4, <1>5, Joined
<1>7. ASSUME NEW i \in 1 .. Len(c) + 1
      PROVE  (m \o b)[i] = IF i <= p THEN c[i] ELSE IF i = p + 1 THEN x ELSE c[i - 1]
  <2>1. CASE i <= p + 1
    BY <1>1, <1>5, <1>6, <2>1
  <2>2. CASE ~ (i <= p + 1)
    <3>1. i - (p + 1) \in 1 .. Len(c) - p /\ p + (i - (p + 1)) = i - 1 /\ ~ (i <= p) /\ i # p + 1
      BY <1>1, <2>2
    <3>2. QED
      BY <3>1, <1>4, <1>6, <2>2
  <2>3. QED
    BY <2>1, <2>2
<1> DEFINE d == m \o b
<1>8. /\ d \in Seq(Int) /\ Len(d) = Len(c) + 1
      /\ \A i \in 1 .. Len(c) + 1 : d[i] = IF i <= p THEN c[i] ELSE IF i = p + 1 THEN x ELSE c[i - 1]
  BY <1>6, <1>7
<1> HIDE DEF d
<1>9. S!InsertAt(c, p + 1, x) = d
  BY <1>2 DEF d
<1>10. QED
  BY <1>8, <1>9, Zenon

\* A sequence without one of its elements.
LEMMA RemoveIs ==
  ASSUME NEW c, c \in Seq(Int), NEW p \in 1 .. Len(c)
  PROVE  /\ S!RemoveAt(c, p) \in Seq(Int) /\ Len(S!RemoveAt(c, p)) = Len(c) - 1
         /\ \A i \in 1 .. Len(c) - 1 : S!RemoveAt(c, p)[i] = IF i < p THEN c[i] ELSE c[i + 1]
<1> DEFINE a == SubSeq(c, 1, p - 1)
           b == SubSeq(c, p + 1, Len(c))
<1>1. Len(c) \in Nat
  OBVIOUS
<1>2. S!RemoveAt(c, p) = a \o b
  BY DEF S!RemoveAt
<1>3. a \in Seq(Int) /\ Len(a) = p - 1 /\ \A i \in 1 .. p - 1 : a[i] = c[i]
  BY <1>1
<1>4. b \in Seq(Int) /\ Len(b) = Len(c) - p /\ \A i \in 1 .. Len(c) - p : b[i] = c[p + i]
  BY <1>1
<1> HIDE DEF a, b
<1>5. /\ a \o b \in Seq(Int) /\ Len(a \o b) = Len(c) - 1
      /\ \A i \in 1 .. Len(c) - 1 : (a \o b)[i] = IF i <= p - 1 THEN a[i] ELSE b[i - (p - 1)]
  <2>1. Len(a) + Len(b) = Len(c) - 1
    BY <1>1, <1>3, <1>4
  <2>2. a \in Seq(Int) /\ b \in Seq(Int) /\ Len(a) = p - 1
    BY <1>3, <1>4
  <2>3. /\ a \o b \in Seq(Int) /\ Len(a \o b) = Len(a) + Len(b)
        /\ \A i \in 1 .. Len(a) + Len(b) : (a \o b)[i] = IF i <= Len(a) THEN a[i] ELSE b[i - Len(a)]
    BY <2>2, Joined, Zenon
  <2>4. QED
    BY <2>1, <2>2, <2>3, Zenon
<1>6. ASSUME NEW i \in 1 .. Len(c) - 1
      PROVE  (a \o b)[i] = IF i < p THEN c[i] ELSE c[i + 1]
  <2>1. CASE i < p
    BY <1>1, <1>3, <1>5, <2>1
  <2>2. CASE ~ (i < p)
    <3>1. i - (p - 1) \in 1 .. Len(c) - p /\ p + (i - (p - 1)) = i + 1 /\ ~ (i <= p - 1)
      BY <1>1, <2>2
    <3>2. QED
      BY <3>1, <1>4, <1>5, <2>2
  <2>3. QED
    BY <2>1, <2>2
<1>7. QED
  BY <1>2, <1>5, <1>6

\* intsetUpgradeAndAdd: a value too wide for the encoding is the least or the largest.
LEMMA UpgradeKeeps ==
  ASSUME NEW is \in Arrays, NEW v \in Int, S!Fits(v, 3), S!ValueEncoding(v) > is.encoding
  PROVE  S!UpgradeAndAdd(is, v) \in Arrays
<1> DEFINE c == is.contents
           n == Len(c)
           old == is.encoding
           e == S!ValueEncoding(v)
           wider == [i \in DOMAIN c |-> S!Narrowed(c[i], e)]
           d == IF v < 0 THEN <<v>> \o c ELSE Append(c, v)
<1>1. /\ c \in Seq(Int) /\ n \in Nat /\ old \in 1 .. 3
      /\ \A i \in 1 .. n : c[i] \in Int /\ S!Fits(c[i], old)
      /\ \A i \in 1 .. n - 1 : c[i] < c[i + 1]
  BY ArrayIs
<1>2. e \in 1 .. 3 /\ S!Fits(v, e) /\ ~ S!Fits(v, old) /\ old <= e
  BY <1>1, EncodingIs
<1>3. S!UpgradeAndAdd(is, v) = [encoding |-> e, contents |-> IF v < 0 THEN <<v>> \o wider ELSE Append(wider, v)]
  BY DEF S!UpgradeAndAdd
<1> HIDE DEF e, old, n
<1>4. \A i \in 1 .. n : S!Fits(c[i], e) /\ S!Narrowed(c[i], e) = c[i]
  BY <1>1, <1>2, FitsWider, NarrowedIs
<1>5. wider = c
  <2>1. DOMAIN c = 1 .. n
    BY <1>1 DEF n
  <2> HIDE DEF c
  <2>2. \A i \in 1 .. n : wider[i] = c[i]
    BY <1>4, <2>1
  <2>3. QED
    BY <1>1, <2>1, <2>2 DEF n
<1> HIDE DEF wider
<1>6. S!UpgradeAndAdd(is, v) = [encoding |-> e, contents |-> d]
  BY <1>3, <1>5
<1>7. IF v < 0 THEN \A i \in 1 .. n : v < c[i] ELSE \A i \in 1 .. n : c[i] < v
  <2>1. Half[old] \in Nat
    BY <1>1, Widths
  <2>2. v < - Half[old] \/ v >= Half[old]
    BY <1>2, <2>1 DEF S!Fits
  <2>3. \A i \in 1 .. n : c[i] >= - Half[old] /\ c[i] < Half[old] /\ c[i] \in Int
    BY <1>1 DEF S!Fits
  <2> HIDE DEF c
  <2>4. QED
    BY <2>1, <2>2, <2>3
<1> HIDE DEF c
<1>8. d \in Seq(Int) /\ (\A i \in 1 .. Len(d) : S!Fits(d[i], e)) /\ \A i \in 1 .. Len(d) - 1 : d[i] < d[i + 1]
  <2>1. CASE v < 0
    <3>1. d = <<v>> \o c
      BY <2>1
    <3> HIDE DEF d
    <3>2. d \in Seq(Int) /\ Len(d) = n + 1 /\ d[1] = v /\ \A i \in 1 .. n : d[i + 1] = c[i]
      BY <3>1, <1>1 DEF n
    <3>3. ASSUME NEW i \in 1 .. n + 1 PROVE d[i] = IF i = 1 THEN v ELSE c[i - 1]
      <4>1. i # 1 => i - 1 \in 1 .. n /\ (i - 1) + 1 = i
        BY <1>1
      <4>2. QED
        BY <4>1, <3>2
    <3>4. \A i \in 1 .. n + 1 : S!Fits(d[i], e)
      <4>1. \A i \in 1 .. n + 1 : i # 1 => i - 1 \in 1 .. n
        BY <1>1
      <4>2. QED
        BY <4>1, <3>3, <1>2, <1>4
    <3>5. ASSUME NEW i \in 1 .. n PROVE d[i] < d[i + 1]
      <4>1. d[i + 1] = c[i] /\ (i = 1 => d[i] = v) /\ (i # 1 => d[i] = c[i - 1])
        BY <3>2, <3>3, <1>1
      <4>2. i # 1 => i - 1 \in 1 .. n - 1 /\ (i - 1) + 1 = i
        BY <1>1
      <4>3. i # 1 => c[i - 1] < c[i]
        BY <4>2, <1>1
      <4>4. QED
        BY <4>1, <4>3, <1>7, <2>1
    <3>6. Len(d) - 1 = n
      BY <3>2, <1>1
    <3>7. QED
      BY <3>2, <3>4, <3>5, <3>6
  <2>2. CASE ~ (v < 0)
    <3>1. d = Append(c, v)
      BY <2>2
    <3> HIDE DEF d
    <3>2. d \in Seq(Int) /\ Len(d) = n + 1 /\ d[n + 1] = v /\ \A i \in 1 .. n : d[i] = c[i]
      BY <3>1, <1>1 DEF n
    <3>3. ASSUME NEW i \in 1 .. n + 1 PROVE S!Fits(d[i], e)
      <4>1. i = n + 1 \/ i \in 1 .. n
        BY <1>1
      <4>2. QED
        BY <4>1, <3>2, <1>2, <1>4
    <3>4. ASSUME NEW i \in 1 .. n PROVE d[i] < d[i + 1]
      <4>1. CASE i = n
        BY <4>1, <3>2, <1>7, <2>2
      <4>2. CASE i # n
        <5>1. i \in 1 .. n - 1 /\ i + 1 \in 1 .. n
          BY <4>2, <1>1
        <5>2. QED
          BY <5>1, <3>2, <1>1
      <4>3. QED
        BY <4>1, <4>2
    <3>5. Len(d) - 1 = n
      BY <3>2, <1>1
    <3>6. QED
      BY <3>2, <3>3, <3>4, <3>5
  <2>3. QED
    BY <2>1, <2>2
<1> HIDE DEF d
<1>9. QED
  BY <1>2, <1>6, <1>8, IsArray

\* intsetAdd
LEMMA AddKeeps ==
  ASSUME NEW is \in Arrays, NEW v \in Int, S!Fits(v, 3)
  PROVE  S!intsetAdd(is, v).is \in Arrays
<1> DEFINE c == is.contents
           e == is.encoding
           place == S!intsetSearch(is, v)
           n == Len(c)
           d == S!InsertAt(c, place.pos + 1, S!Narrowed(v, e))
           wide == [is EXCEPT !.contents = d]
<1>1. /\ c \in Seq(Int) /\ n \in Nat /\ e \in 1 .. 3
      /\ \A i \in 1 .. n : c[i] \in Int /\ S!Fits(c[i], e)
      /\ \A i \in 1 .. n - 1 : c[i] < c[i + 1]
  BY ArrayIs
<1>2. S!intsetAdd(is, v) = IF S!ValueEncoding(v) > e THEN [is |-> S!UpgradeAndAdd(is, v), success |-> TRUE]
                           ELSE IF place.found THEN [is |-> is, success |-> FALSE]
                           ELSE [is |-> wide, success |-> TRUE]
  BY DEF S!intsetAdd
<1>3. CASE S!ValueEncoding(v) > e
  <2>1. S!intsetAdd(is, v).is = S!UpgradeAndAdd(is, v)
    BY <1>2, <1>3
  <2>2. QED
    BY <2>1, <1>3, UpgradeKeeps
<1>4. CASE ~ (S!ValueEncoding(v) > e) /\ place.found
  <2>1. S!intsetAdd(is, v).is = is
    BY <1>2, <1>4
  <2>2. QED
    BY <2>1
<1>5. CASE ~ (S!ValueEncoding(v) > e) /\ ~ place.found
  <2>1. S!intsetAdd(is, v).is = wide
    BY <1>2, <1>5
  <2>2. S!Fits(v, e)
    <3>1. S!ValueEncoding(v) \in 1 .. 3 /\ S!Fits(v, S!ValueEncoding(v))
      BY EncodingIs
    <3>2. S!ValueEncoding(v) <= e
      BY <1>1, <1>5, <3>1
    <3>3. QED
      BY <1>1, <3>1, <3>2, FitsWider
  <2>3. S!Narrowed(v, e) = v
    BY <1>1, <2>2, NarrowedIs
  <2> DEFINE p == place.pos
  <2>4. /\ p \in 0 .. n
        /\ \A i \in 1 .. p : c[i] < v
        /\ \A i \in p + 1 .. n : v < c[i]
    BY <1>5, SearchIsRight DEF Place
  <2>5. wide = [encoding |-> e, contents |-> d]
    <3>1. is \in [encoding : 1 .. 3, contents : Seq(Int)]
      BY DEF Arrays
    <3> HIDE DEF d
    <3>2. QED
      BY <3>1
  <2>6. d = S!InsertAt(c, p + 1, v)
    BY <2>3
  <2> HIDE DEF wide, d, p, place, c, e
  <2>7. /\ d \in Seq(Int) /\ Len(d) = n + 1
        /\ \A i \in 1 .. n + 1 : d[i] = IF i <= p THEN c[i] ELSE IF i = p + 1 THEN v ELSE c[i - 1]
    BY <1>1, <2>4, <2>6, InsertIs
  <2> HIDE DEF n
  <2>8. ASSUME NEW i \in 1 .. n + 1 PROVE S!Fits(d[i], e)
    <3>1. CASE i <= p
      <4>1. i \in 1 .. n
        BY <3>1, <2>4, <1>1
      <4>2. QED
        BY <4>1, <3>1, <2>7, <1>1
    <3>2. CASE i = p + 1
      BY <3>2, <2>2, <2>4, <2>7
    <3>3. CASE ~ (i <= p) /\ i # p + 1
      <4>1. i - 1 \in 1 .. n
        BY <3>3, <2>4, <1>1
      <4>2. QED
        BY <4>1, <3>3, <2>7, <1>1
    <3>4. QED
      BY <3>1, <3>2, <3>3
  <2>9. ASSUME NEW i \in 1 .. n PROVE d[i] < d[i + 1]
    <3>1. i \in 1 .. n + 1 /\ i + 1 \in 1 .. n + 1 /\ i + 1 - 1 = i
      BY <1>1
    <3>2. CASE i < p
      <4>1. i <= p /\ i + 1 <= p /\ i \in 1 .. n - 1
        BY <3>2, <2>4, <1>1
      <4>2. QED
        BY <3>1, <4>1, <2>7, <1>1
    <3>3. CASE i = p
      <4>1. i <= p /\ ~ (i + 1 <= p) /\ i + 1 = p + 1 /\ i \in 1 .. p
        BY <3>3, <2>4, <1>1
      <4>2. QED
        BY <3>1, <4>1, <2>4, <2>7
    <3>4. CASE i = p + 1
      <4>1. ~ (i <= p) /\ ~ (i + 1 <= p) /\ i + 1 # p + 1 /\ i \in p + 1 .. n
        BY <3>4, <2>4, <1>1
      <4>2. d[i + 1] = c[i] /\ d[i] = v
        BY <3>1, <3>4, <4>1, <2>7
      <4>3. QED
        BY <4>1, <4>2, <2>4
    <3>5. CASE i > p + 1
      <4>1. /\ ~ (i <= p) /\ i # p + 1 /\ ~ (i + 1 <= p) /\ i + 1 # p + 1
            /\ i - 1 \in 1 .. n - 1 /\ (i - 1) + 1 = i
        BY <3>5, <2>4, <1>1
      <4>2. d[i + 1] = c[i] /\ d[i] = c[i - 1]
        BY <3>1, <4>1, <2>7
      <4>3. c[i - 1] < c[i]
        BY <4>1, <1>1
      <4>4. QED
        BY <4>2, <4>3
    <3>6. QED
      BY <3>2, <3>3, <3>4, <3>5, <2>4
  <2>10. Len(d) - 1 = n
    BY <2>7, <1>1
  <2>11. wide \in Arrays
    BY <1>1, <2>5, <2>7, <2>8, <2>9, <2>10, IsArray
  <2>12. QED
    BY <2>1, <2>11
<1>6. QED
  BY <1>3, <1>4, <1>5

\* intsetRemove
LEMMA RemoveKeeps ==
  ASSUME NEW is \in Arrays, NEW v \in Int
  PROVE  S!intsetRemove(is, v).is \in Arrays
<1> DEFINE c == is.contents
           e == is.encoding
           place == S!intsetSearch(is, v)
           n == Len(c)
           d == S!RemoveAt(c, place.pos + 1)
           less == [is EXCEPT !.contents = d]
<1>1. /\ c \in Seq(Int) /\ n \in Nat /\ e \in 1 .. 3
      /\ \A i \in 1 .. n : c[i] \in Int /\ S!Fits(c[i], e)
      /\ \A i \in 1 .. n - 1 : c[i] < c[i + 1]
  BY ArrayIs
<1>2. S!intsetRemove(is, v) = IF S!intsetFind(is, v) THEN [is |-> less, success |-> TRUE]
                              ELSE [is |-> is, success |-> FALSE]
  BY DEF S!intsetRemove
<1>3. CASE ~ S!intsetFind(is, v)
  <2>1. S!intsetRemove(is, v).is = is
    BY <1>2, <1>3
  <2>2. QED
    BY <2>1
<1>4. CASE S!intsetFind(is, v)
  <2>1. S!intsetRemove(is, v).is = less
    BY <1>2, <1>4
  <2> DEFINE p == place.pos + 1
  <2>2. p \in 1 .. n
    <3>1. place.found /\ place.pos \in 0 .. n - 1
      BY <1>4, SearchIsRight DEF Place, S!intsetFind
    <3> HIDE DEF place, n
    <3>2. QED
      BY <3>1, <1>1
  <2>3. less = [encoding |-> e, contents |-> d]
    <3>1. is \in [encoding : 1 .. 3, contents : Seq(Int)]
      BY DEF Arrays
    <3> HIDE DEF d
    <3>2. QED
      BY <3>1
  <2>4. d = S!RemoveAt(c, p)
    OBVIOUS
  <2> HIDE DEF less, d, p, place, c, e
  <2>5. /\ d \in Seq(Int) /\ Len(d) = n - 1
        /\ \A i \in 1 .. n - 1 : d[i] = IF i < p THEN c[i] ELSE c[i + 1]
    BY <1>1, <2>2, <2>4, RemoveIs
  <2> HIDE DEF n
  <2>6. ASSUME NEW i \in 1 .. n - 1 PROVE S!Fits(d[i], e)
    <3>1. i \in 1 .. n /\ i + 1 \in 1 .. n
      BY <1>1
    <3>2. QED
      BY <3>1, <1>1, <2>5
  <2>7. ASSUME NEW i \in 1 .. n - 1 - 1 PROVE d[i] < d[i + 1]
    <3>1. i \in 1 .. n - 1 /\ i + 1 \in 1 .. n - 1 /\ i + 1 \in 1 .. n /\ i + 1 + 1 \in 1 .. n
      BY <1>1
    <3>2. c[i] < c[i + 1] /\ c[i + 1] < c[i + 1 + 1] /\ c[i] \in Int /\ c[i + 1] \in Int /\ c[i + 1 + 1] \in Int
      BY <3>1, <1>1
    <3>3. /\ d[i] = IF i < p THEN c[i] ELSE c[i + 1]
          /\ d[i + 1] = IF i + 1 < p THEN c[i + 1] ELSE c[i + 1 + 1]
      BY <3>1, <2>5
    <3>4. i + 1 < p => i < p
      BY <2>2
    <3>5. QED
      BY <3>2, <3>3, <3>4
  <2>8. Len(d) = n - 1 /\ Len(d) - 1 = n - 1 - 1
    BY <2>5
  <2>9. less \in Arrays
    BY <1>1, <2>3, <2>5, <2>6, <2>7, <2>8, IsArray
  <2>10. QED
    BY <2>1, <2>9
<1>5. QED
  BY <1>3, <1>4
-----------------------------------------------------------------------------
(* Sets: t_set.c.                                                          *)

\* The values a set has.
SetValues ==
  {Missing} \cup {S!Hashed(m) : m \in SUBSET Int} \cup {S!Intset(is) : is \in Arrays}

LEMMA SetValueIs ==
  /\ Missing \in SetValues /\ S!Missing = Missing
  /\ \A m \in SUBSET Int : S!Hashed(m) \in SetValues
  /\ \A is \in Arrays : S!Intset(is) \in SetValues
  /\ \A s \in SetValues :
       \/ s = Missing
       \/ ~ S!IsIntset(s) /\ s # Missing /\ s.members \in SUBSET Int
       \/ S!IsIntset(s) /\ s # Missing /\ s.is \in Arrays
  /\ \A s \in SetValues : s.enc = "intset" => s.is \in Arrays
<1>1. S!Missing = Missing
  BY DEF S!Missing, Missing
<1>2. \A m : S!Hashed(m).enc = "ht" /\ S!Hashed(m).members = m
  BY DEF S!Hashed
<1>3. \A is : S!Intset(is).enc = "intset" /\ S!Intset(is).is = is
  BY DEF S!Intset
<1>4. Missing.enc = "none"
  BY DEF Missing
<1>5. \A s : S!IsIntset(s) <=> s.enc = "intset"
  BY DEF S!IsIntset
<1>6. ASSUME NEW s \in SetValues
      PROVE  \/ s = Missing
             \/ ~ S!IsIntset(s) /\ s # Missing /\ s.members \in SUBSET Int
             \/ S!IsIntset(s) /\ s # Missing /\ s.is \in Arrays
  <2>1. CASE \E m \in SUBSET Int : s = S!Hashed(m)
    BY <2>1, <1>2, <1>4, <1>5
  <2>2. CASE \E is \in Arrays : s = S!Intset(is)
    BY <2>2, <1>3, <1>4, <1>5
  <2>3. QED
    BY <2>1, <2>2 DEF SetValues
<1>7. ASSUME NEW s \in SetValues, s.enc = "intset" PROVE s.is \in Arrays
  BY <1>4, <1>5, <1>6, <1>7
<1>8. QED
  BY <1>1, <1>6, <1>7 DEF SetValues

\* The members that SADD and SREM are called with.
LEMMA ArgumentsAre ==
  ASSUME NEW vs \in SetAdditions \cup SetRemovals
  PROVE  /\ vs \in Seq(Int) /\ Len(vs) \in Nat /\ vs # <<>> /\ Len(vs) # 0
         /\ \A i \in 1 .. Len(vs) : vs[i] \in Int /\ (S!Representable(vs[i]) => S!Fits(vs[i], 3))
<1>1. vs \in Seq(Int) \ {<<>>} /\ \A i \in DOMAIN vs : vs[i] \in Words \/ vs[i] \in - Half[3] .. Half[3] - 1
  BY SetAssumption
<1>2. Half[3] \in Nat
  BY Widths
<1>3. DOMAIN vs = 1 .. Len(vs) /\ Len(vs) \in Nat /\ Len(vs) # 0 /\ \A i \in 1 .. Len(vs) : vs[i] \in Int
  BY <1>1
<1>4. ASSUME NEW i \in 1 .. Len(vs), S!Representable(vs[i]) PROVE S!Fits(vs[i], 3)
  <2>1. vs[i] \in - Half[3] .. Half[3] - 1
    BY <1>1, <1>3, <1>4 DEF S!Representable
  <2>2. QED
    BY <1>2, <2>1 DEF S!Fits
<1>5. QED
  BY <1>1, <1>3, <1>4

\* setTypeAdd keeps a set a set, ...
LEMMA TypeAddKeeps ==
  ASSUME NEW s \in SetValues, s # Missing, NEW v \in Int, S!Representable(v) => S!Fits(v, 3)
  PROVE  S!setTypeAdd(s, v).set \in SetValues
<1> DEFINE r == S!intsetAdd(s.is, v)
           larger == S!Intset(r.is)
           Objects(is) == {S!Boxed(x) : x \in S!ToSet(is.contents)}
<1>1. S!setTypeAdd(s, v) =
        IF ~ S!IsIntset(s) THEN [set |-> S!Hashed(s.members \cup {v}), added |-> v \notin s.members]
        ELSE IF ~ S!Representable(v)
        THEN [set |-> S!Hashed(S!setTypeConvert(s).members \cup {v}), added |-> TRUE]
        ELSE IF ~ r.success THEN [set |-> s, added |-> FALSE]
        ELSE [set |-> IF S!intsetLen(r.is) > SetMaxEntries THEN S!setTypeConvert(larger) ELSE larger,
              added |-> TRUE]
  BY DEF S!setTypeAdd
<1>2. ASSUME NEW is \in Arrays PROVE Objects(is) \in SUBSET Int
  <2>1. is.contents \in Seq(Int)
    BY ArrayIs
  <2>2. S!ToSet(is.contents) \in SUBSET Int
    BY <2>1 DEF S!ToSet
  <2>3. SetHeader \in Int
    BY SetAssumption
  <2>4. \A x \in Int : S!Boxed(x) \in Int
    BY <2>3 DEF S!Boxed
  <2>5. QED
    BY <2>2, <2>4
<1>3. CASE ~ S!IsIntset(s)
  <2>1. s.members \cup {v} \in SUBSET Int
    BY <1>3, SetValueIs
  <2>2. S!setTypeAdd(s, v).set = S!Hashed(s.members \cup {v})
    BY <1>1, <1>3
  <2>3. QED
    BY <2>1, <2>2, SetValueIs
<1>4. CASE S!IsIntset(s)
  <2>1. s.is \in Arrays
    BY <1>4, SetValueIs
  <2>2. CASE ~ S!Representable(v)
    <3>1. S!setTypeConvert(s).members = Objects(s.is)
      BY DEF S!setTypeConvert, S!Hashed
    <3>2. Objects(s.is) \cup {v} \in SUBSET Int
      BY <2>1, <1>2
    <3>3. S!setTypeAdd(s, v).set = S!Hashed(Objects(s.is) \cup {v})
      BY <1>1, <1>4, <2>2, <3>1
    <3>4. QED
      BY <3>2, <3>3, SetValueIs
  <2>3. CASE S!Representable(v)
    <3>1. r.is \in Arrays
      BY <2>1, <2>3, AddKeeps
    <3> HIDE DEF r
    <3>2. larger \in SetValues /\ larger.is = r.is
      BY <3>1, SetValueIs DEF S!Intset
    <3>3. S!setTypeConvert(larger) = S!Hashed(Objects(r.is))
      BY <3>2 DEF S!setTypeConvert
    <3>4. S!setTypeConvert(larger) \in SetValues
      BY <3>1, <3>3, <1>2, SetValueIs
    <3> HIDE DEF larger
    <3>5. S!setTypeAdd(s, v).set \in {s, S!setTypeConvert(larger), larger}
      BY <1>1, <1>4, <2>3
    <3>6. QED
      BY <3>2, <3>4, <3>5
  <2>4. QED
    BY <2>2, <2>3
<1>5. QED
  BY <1>3, <1>4

\* ... which is there.
LEMMA TypeAddThere ==
  ASSUME NEW s \in SetValues, s # Missing, NEW v
  PROVE  S!setTypeAdd(s, v).set # Missing
<1>1. \A m : S!Hashed(m) # Missing
  BY DEF S!Hashed, Missing
<1>2. \A is : S!Intset(is) # Missing
  BY DEF S!Intset, Missing
<1>3. \A o : S!setTypeConvert(o) # Missing
  BY <1>1 DEF S!setTypeConvert
<1>4. QED
  BY <1>1, <1>2, <1>3 DEF S!setTypeAdd

\* setTypeRemove
LEMMA TypeRemoveKeeps ==
  ASSUME NEW s \in SetValues, s # Missing, NEW v, S!IsIntset(s) => v \in Int
  PROVE  S!setTypeRemove(s, v).set \in SetValues
<1> DEFINE r == S!intsetRemove(s.is, v)
<1>1. S!setTypeRemove(s, v) =
        IF ~ S!IsIntset(s) THEN [set |-> S!Hashed(s.members \ {v}), removed |-> v \in s.members]
        ELSE IF ~ S!Representable(v) THEN [set |-> s, removed |-> FALSE]
        ELSE [set |-> S!Intset(r.is), removed |-> r.success]
  BY DEF S!setTypeRemove
<1>2. CASE ~ S!IsIntset(s)
  <2>1. s.members \ {v} \in SUBSET Int
    BY <1>2, SetValueIs
  <2>2. S!setTypeRemove(s, v).set = S!Hashed(s.members \ {v})
    BY <1>1, <1>2
  <2>3. QED
    BY <2>1, <2>2, SetValueIs
<1>3. CASE S!IsIntset(s)
  <2>1. r.is \in Arrays
    BY <1>3, SetValueIs, RemoveKeeps
  <2> HIDE DEF r
  <2>2. S!setTypeRemove(s, v).set \in {s, S!Intset(r.is)}
    BY <1>1, <1>3
  <2>3. QED
    BY <2>1, <2>2, SetValueIs
<1>4. QED
  BY <1>2, <1>3
-----------------------------------------------------------------------------
(* Loops over the arguments of a command: FoldLeft, which takes the        *)
(* positions of a sequence from the last one down.                         *)

LEMMA MaxIs ==
  ASSUME NEW n \in Nat, NEW s \in SUBSET (1 .. n), s # {}
  PROVE  S!Max(s) \in s /\ \A x \in s : x <= S!Max(s)
<1> DEFINE below == {n - x : x \in s}
<1>1. below \subseteq Nat /\ below # {}
  OBVIOUS
<1>2. PICK b \in below : \A y \in below : b <= y
  <2> HIDE DEF below
  <2>1. QED
    BY <1>1, Least
<1>3. PICK x \in s : b = n - x
  OBVIOUS
<1>4. \A y \in s : x >= y
  <2> SUFFICES ASSUME NEW y \in s PROVE x >= y
    OBVIOUS
  <2>1. b <= n - y
    BY <1>2
  <2>2. QED
    BY <1>3, <2>1
<1>5. S!Max(s) \in s /\ \A y \in s : S!Max(s) >= y
  BY <1>4 DEF S!Max
<1>6. QED
  BY <1>5

\* A loop over n positions whose step is F.
Loops(g, F, base, n) ==
  \A s \in SUBSET (1 .. n) :
    g[s] = IF s = {} THEN base ELSE F[<<g[s \ {S!Max(s)}], S!Max(s)>>]

\* There is one.
LEMMA LoopRuns ==
  ASSUME NEW B, NEW base \in B, NEW n \in Nat, NEW F, \A b \in B, i \in 1 .. n : F[<<b, i>>] \in B
  PROVE  \E g : g \in [SUBSET (1 .. n) -> B] /\ Loops(g, F, base, n)
<1> DEFINE Bad == {k \in 0 .. n : ~ \E g : g \in [SUBSET (1 .. k) -> B] /\ Loops(g, F, base, k)}
<1>1. Bad = {}
  <2> SUFFICES ASSUME Bad # {} PROVE FALSE
    OBVIOUS
  <2>1. PICK b \in Bad : \A x \in Bad : b <= x
    <3>1. Bad \subseteq Nat
      OBVIOUS
    <3> HIDE DEF Bad
    <3>2. QED
      BY <3>1, Least
  <2>2. b \in 0 .. n /\ ~ \E g : g \in [SUBSET (1 .. b) -> B] /\ Loops(g, F, base, b)
    OBVIOUS
  <2>3. b # 0
    <3> DEFINE g == [s \in SUBSET (1 .. 0) |-> base]
    <3>1. SUBSET (1 .. 0) = {{}}
      OBVIOUS
    <3>2. g \in [SUBSET (1 .. 0) -> B] /\ \A s \in SUBSET (1 .. 0) : s = {} /\ g[s] = base
      BY <3>1
    <3> HIDE DEF g
    <3>3. Loops(g, F, base, 0)
      BY <3>2 DEF Loops
    <3>4. QED
      BY <3>2, <3>3, <2>2
  <2>4. b - 1 \in 0 .. n /\ b \in 1 .. n /\ b \in Nat /\ b - 1 \notin Bad
    <3>1. b - 1 \in 0 .. n /\ b \in 1 .. n /\ b \in Nat /\ ~ (b <= b - 1)
      BY <2>2, <2>3
    <3> HIDE DEF Bad
    <3>2. QED
      BY <3>1, <2>1
  <2>5. PICK f : f \in [SUBSET (1 .. b - 1) -> B] /\ Loops(f, F, base, b - 1)
    BY <2>4
  <2> HIDE DEF Bad
  <2> DEFINE old == SUBSET (1 .. b - 1)
             g == [s \in SUBSET (1 .. b) |-> IF b \in s THEN F[<<f[s \ {b}], b>>] ELSE f[s]]
  <2>6. ASSUME NEW s \in SUBSET (1 .. b)
        PROVE  /\ b \in s => s \ {b} \in old
               /\ b \notin s => s \in old
    BY <2>4
  <2>7. \A s \in SUBSET (1 .. b) : g[s] = IF b \in s THEN F[<<f[s \ {b}], b>>] ELSE f[s]
    OBVIOUS
  <2>8. g \in [SUBSET (1 .. b) -> B]
    <3>1. \A s \in SUBSET (1 .. b) : (IF b \in s THEN F[<<f[s \ {b}], b>>] ELSE f[s]) \in B
      <4> SUFFICES ASSUME NEW s \in SUBSET (1 .. b)
                   PROVE  (IF b \in s THEN F[<<f[s \ {b}], b>>] ELSE f[s]) \in B
        OBVIOUS
      <4>1. b \in s => f[s \ {b}] \in B
        BY <2>5, <2>6
      <4>2. b \notin s => f[s] \in B
        BY <2>5, <2>6
      <4>3. b \in s => F[<<f[s \ {b}], b>>] \in B
        BY <4>1, <2>4
      <4>4. QED
        BY <4>2, <4>3
    <3>2. QED
      BY <3>1
  <2> HIDE DEF g
  <2>9. \A s \in old : g[s] = f[s]
    <3>1. \A s \in old : s \in SUBSET (1 .. b) /\ b \notin s
      BY <2>4
    <3>2. QED
      BY <3>1, <2>7
  <2>10. ASSUME NEW s \in SUBSET (1 .. b), s # {}
         PROVE  g[s] = F[<<g[s \ {S!Max(s)}], S!Max(s)>>]
    <3> DEFINE x == S!Max(s)
    <3>1. x \in s /\ \A y \in s : y <= x
      BY <2>4, <2>10, MaxIs
    <3> HIDE DEF x
    <3>2. CASE b \in s
      <4>1. x = b
        BY <3>1, <3>2, <2>4
      <4>2. g[s \ {b}] = f[s \ {b}]
        BY <3>2, <2>6, <2>9
      <4>3. g[s] = F[<<f[s \ {b}], b>>]
        BY <3>2, <2>7
      <4>4. QED
        BY <4>1, <4>2, <4>3 DEF x
    <3>3. CASE b \notin s
      <4>1. s \in old /\ s \ {x} \in old
        BY <3>3, <2>6
      <4>2. f[s] = F[<<f[s \ {x}], x>>]
        BY <4>1, <2>5, <2>10 DEF Loops, x
      <4>3. g[s] = f[s] /\ g[s \ {x}] = f[s \ {x}]
        BY <4>1, <2>9
      <4>4. QED
        BY <4>2, <4>3 DEF x
    <3>4. QED
      BY <3>2, <3>3
  <2>11. ASSUME NEW s \in SUBSET (1 .. b), s = {}
         PROVE  g[s] = base
    <3>1. s \in old
      BY <2>11
    <3>2. f[s] = base
      BY <2>5, <2>11, <3>1 DEF Loops
    <3>3. QED
      BY <3>1, <3>2, <2>9
  <2>12. Loops(g, F, base, b)
    BY <2>10, <2>11 DEF Loops
  <2>13. QED
    BY <2>2, <2>8, <2>12
<1>2. n \in 0 .. n /\ n \notin Bad
  <2>1. n \in 0 .. n
    OBVIOUS
  <2> HIDE DEF Bad
  <2>2. QED
    BY <1>1, <2>1
<1>3. QED
  BY <1>2

\* The last of the first k positions.
LEMMA LastIs ==
  ASSUME NEW n \in Nat, NEW k \in 1 .. n
  PROVE  /\ 1 .. k \in SUBSET (1 .. n) /\ 1 .. k # {}
         /\ S!Max(1 .. k) = k /\ (1 .. k) \ {k} = 1 .. k - 1
<1> DEFINE s == 1 .. k
           x == S!Max(s)
<1>1. s \in SUBSET (1 .. n) /\ s # {} /\ k \in Nat
  OBVIOUS
<1>2. x = k
  <2>1. x \in s /\ \A y \in s : y <= x
    BY <1>1, MaxIs
  <2> HIDE DEF x
  <2>2. QED
    BY <2>1
<1>3. s \ {k} = 1 .. k - 1
  OBVIOUS
<1>4. QED
  BY <1>1, <1>2, <1>3

\* The arguments of SADD, one after the other.
AddStep(o, v) ==
  LET r == S!setTypeAdd(o.set, v) IN [set |-> r.set, n |-> IF r.added THEN o.n + 1 ELSE o.n]

AddRounds(f, vs, base) ==
  [s \in SUBSET DOMAIN vs |-> IF s = {} THEN base ELSE AddStep(f[s \ {S!Max(s)}], vs[S!Max(s)])]

AddLoop(vs, base) == (CHOOSE f : f = AddRounds(f, vs, base))[DOMAIN vs]

AddStates == [set : SetValues \ {Missing}, n : Int]

LEMMA AddStepKeeps ==
  ASSUME NEW o \in AddStates, NEW vs \in SetAdditions, NEW i \in 1 .. Len(vs)
  PROVE  AddStep(o, vs[i]) \in AddStates
<1>1. o.set \in SetValues /\ o.set # Missing /\ o.n \in Int
  BY DEF AddStates
<1>2. vs[i] \in Int /\ (S!Representable(vs[i]) => S!Fits(vs[i], 3))
  BY ArgumentsAre
<1> DEFINE v == vs[i]
           r == S!setTypeAdd(o.set, v)
           m == IF r.added THEN o.n + 1 ELSE o.n
<1>3. r.set \in SetValues
  BY <1>1, <1>2, TypeAddKeeps
<1>4. r.set # Missing
  BY <1>1, TypeAddThere
<1>5. AddStep(o, v) = [set |-> r.set, n |-> m]
  BY DEF AddStep
<1> HIDE DEF r
<1>6. m \in Int
  BY <1>1
<1> HIDE DEF v, m
<1>7. AddStep(o, v) \in AddStates
  BY <1>3, <1>4, <1>5, <1>6 DEF AddStates
<1>8. QED
  BY <1>7 DEF v

LEMMA AddLoopKeeps ==
  ASSUME NEW vs \in SetAdditions, NEW base \in AddStates
  PROVE  AddLoop(vs, base) \in AddStates
<1> DEFINE n == Len(vs)
           B == AddStates
           F == [p \in B \X (1 .. n) |-> AddStep(p[1], vs[p[2]])]
           iter == CHOOSE f : f = AddRounds(f, vs, base)
           Bad == {k \in 0 .. n : iter[1 .. k] \notin B}
<1>1. n \in Nat /\ DOMAIN vs = 1 .. n
  BY ArgumentsAre
<1>2. \A b \in B, i \in 1 .. n : AddStep(b, vs[i]) \in B
  BY AddStepKeeps
<1>3. \A b \in B, i \in 1 .. n : F[<<b, i>>] = AddStep(b, vs[i])
  OBVIOUS
<1> HIDE DEF n, F, B
<1>4. PICK g : g \in [SUBSET (1 .. n) -> B] /\ Loops(g, F, base, n)
  <2>1. \A b \in B, i \in 1 .. n : F[<<b, i>>] \in B
    BY <1>2, <1>3
  <2>2. base \in B
    BY DEF B
  <2>3. QED
    BY <2>1, <2>2, <1>1, LoopRuns
<1>5. g = AddRounds(g, vs, base)
  <2> DEFINE h == AddRounds(g, vs, base)
  <2>1. ASSUME NEW s \in SUBSET (1 .. n)
        PROVE  g[s] = IF s = {} THEN base ELSE AddStep(g[s \ {S!Max(s)}], vs[S!Max(s)])
    <3> DEFINE x == S!Max(s)
    <3>1. g[s] = IF s = {} THEN base ELSE F[<<g[s \ {x}], x>>]
      BY <1>4 DEF Loops
    <3>2. s # {} => x \in 1 .. n /\ g[s \ {x}] \in B
      <4>1. s # {} => x \in s
        BY <1>1, MaxIs
      <4> HIDE DEF x
      <4>2. s \ {x} \in SUBSET (1 .. n)
        OBVIOUS
      <4>3. QED
        BY <4>1, <4>2, <1>4
    <3> HIDE DEF x
    <3>3. s # {} => F[<<g[s \ {x}], x>>] = AddStep(g[s \ {x}], vs[x])
      BY <3>2, <1>3
    <3>4. g[s] = IF s = {} THEN base ELSE AddStep(g[s \ {x}], vs[x])
      BY <3>1, <3>3
    <3>5. QED
      BY <3>4 DEF x
  <2>2. h = [s \in SUBSET (1 .. n) |-> IF s = {} THEN base ELSE AddStep(g[s \ {S!Max(s)}], vs[S!Max(s)])]
    BY <1>1 DEF AddRounds
  <2> HIDE DEF h
  <2>3. g = h
    BY <1>4, <2>1, <2>2
  <2>4. QED
    BY <2>3 DEF h
<1>6. iter = AddRounds(iter, vs, base)
  BY <1>5
<1> HIDE DEF iter
<1>7. \A s \in SUBSET (1 .. n) :
        iter[s] = IF s = {} THEN base ELSE AddStep(iter[s \ {S!Max(s)}], vs[S!Max(s)])
  <2> DEFINE h == AddRounds(iter, vs, base)
  <2>1. \A s \in SUBSET (1 .. n) :
          h[s] = IF s = {} THEN base ELSE AddStep(iter[s \ {S!Max(s)}], vs[S!Max(s)])
    BY <1>1 DEF AddRounds
  <2> HIDE DEF h
  <2>2. iter = h
    BY <1>6 DEF h
  <2>3. QED
    BY <2>1, <2>2
<1>8. Bad = {}
  <2> SUFFICES ASSUME Bad # {} PROVE FALSE
    OBVIOUS
  <2>1. PICK b \in Bad : \A x \in Bad : b <= x
    <3>1. Bad \subseteq Nat
      BY <1>1
    <3> HIDE DEF Bad
    <3>2. QED
      BY <3>1, Least
  <2>2. b \in 0 .. n /\ iter[1 .. b] \notin B
    OBVIOUS
  <2>3. b # 0
    <3>1. 1 .. 0 = {} /\ {} \in SUBSET (1 .. n)
      OBVIOUS
    <3>2. iter[{}] = base
      BY <3>1, <1>7
    <3>3. QED
      BY <3>1, <3>2, <2>2 DEF B
  <2>4. b \in 1 .. n /\ b - 1 \in 0 .. n /\ b - 1 \notin Bad
    <3>1. b \in 1 .. n /\ b - 1 \in 0 .. n /\ ~ (b <= b - 1)
      BY <2>2, <2>3, <1>1
    <3> HIDE DEF Bad
    <3>2. QED
      BY <3>1, <2>1
  <2>5. iter[1 .. b - 1] \in B
    BY <2>4
  <2> HIDE DEF Bad
  <2>6. /\ 1 .. b \in SUBSET (1 .. n) /\ 1 .. b # {}
        /\ S!Max(1 .. b) = b /\ (1 .. b) \ {b} = 1 .. b - 1
    BY <2>4, <1>1, LastIs
  <2>7. iter[1 .. b] = AddStep(iter[1 .. b - 1], vs[b])
    <3> DEFINE s == 1 .. b
    <3>1. s \in SUBSET (1 .. n) /\ s # {} /\ S!Max(s) = b /\ s \ {b} = 1 .. b - 1
      BY <2>6
    <3> HIDE DEF s
    <3>2. iter[s] = AddStep(iter[1 .. b - 1], vs[b])
      BY <3>1, <1>7
    <3>3. QED
      BY <3>2 DEF s
  <2>8. QED
    BY <2>2, <2>4, <2>5, <2>7, <1>2
<1>9. iter[1 .. n] \in B
  <2>1. n \in 0 .. n /\ n \notin Bad
    <3>1. n \in 0 .. n
      BY <1>1
    <3> HIDE DEF Bad
    <3>2. QED
      BY <3>1, <1>8
  <2>2. QED
    BY <2>1
<1>10. AddLoop(vs, base) = iter[1 .. n]
  BY <1>1 DEF AddLoop, iter
<1>11. QED
  BY <1>9, <1>10 DEF B

\* SADD
LEMMA SAddKeeps ==
  ASSUME NEW vs \in SetAdditions, S!SAdd(vs), set \in SetValues
  PROVE  set' \in SetValues
<1> DEFINE base == [set |-> IF S!Absent THEN S!setTypeCreate(vs[1]) ELSE set, n |-> 0]
<1>1. set' = AddLoop(vs, base).set
  BY DEF S!SAdd, S!FoldLeft, S!MapThenFoldSet, AddLoop, AddRounds, AddStep
<1>2. base \in AddStates
  <2> DEFINE s == IF S!Absent THEN S!setTypeCreate(vs[1]) ELSE set
  <2>1. S!Absent <=> set = Missing
    BY SetValueIs DEF S!Absent
  <2>2. S!setTypeCreate(vs[1]) \in SetValues
    <3>1. S!intsetNew \in Arrays
      <4> DEFINE c == <<>>
      <4>1. S!intsetNew = [encoding |-> 1, contents |-> c]
        BY DEF S!intsetNew
      <4>2. c \in Seq(Int) /\ Len(c) = 0 /\ 1 \in 1 .. 3
        OBVIOUS
      <4> HIDE DEF c
      <4>3. (\A i \in 1 .. Len(c) : S!Fits(c[i], 1)) /\ \A i \in 1 .. Len(c) - 1 : c[i] < c[i + 1]
        BY <4>2
      <4>4. QED
        BY <4>1, <4>2, <4>3, IsArray
    <3>2. S!setTypeCreate(vs[1]) \in {S!Intset(S!intsetNew), S!Hashed({})}
      BY DEF S!setTypeCreate
    <3>3. {} \in SUBSET Int
      OBVIOUS
    <3>4. S!Intset(S!intsetNew) \in SetValues /\ S!Hashed({}) \in SetValues
      BY <3>1, <3>3, SetValueIs
    <3>5. QED
      BY <3>2, <3>4
  <2>3. S!setTypeCreate(vs[1]) # Missing
    BY DEF S!setTypeCreate, S!Intset, S!Hashed, Missing
  <2>4. s \in SetValues /\ s # Missing
    BY <2>1, <2>2, <2>3
  <2> HIDE DEF s
  <2>5. [set |-> s, n |-> 0] \in AddStates
    BY <2>4 DEF AddStates
  <2>6. QED
    BY <2>5 DEF s
<1> HIDE DEF base
<1>3. AddLoop(vs, base) \in AddStates
  BY <1>2, AddLoopKeeps
<1>4. QED
  BY <1>1, <1>3 DEF AddStates

\* The arguments of SREM, until the set is empty.
RemStep(o, v) ==
  LET r == S!setTypeRemove(o.set, v)
  IN  IF o.set = S!Missing \/ ~ r.removed THEN o
      ELSE [set |-> IF S!setTypeSize(r.set) = 0 THEN S!Missing ELSE r.set, n |-> o.n + 1]

RemRounds(f, vs, base) ==
  [s \in SUBSET DOMAIN vs |-> IF s = {} THEN base ELSE RemStep(f[s \ {S!Max(s)}], vs[S!Max(s)])]

RemLoop(vs, base) == (CHOOSE f : f = RemRounds(f, vs, base))[DOMAIN vs]

RemStates == [set : SetValues, n : Int]

LEMMA RemStepKeeps ==
  ASSUME NEW o \in RemStates, NEW vs \in SetRemovals, NEW i \in 1 .. Len(vs)
  PROVE  RemStep(o, vs[i]) \in RemStates
<1>1. o.set \in SetValues /\ o.n \in Int
  BY DEF RemStates
<1>2. vs[i] \in Int
  BY ArgumentsAre
<1> DEFINE v == vs[i]
           r == S!setTypeRemove(o.set, v)
           s == IF S!setTypeSize(r.set) = 0 THEN S!Missing ELSE r.set
           m == o.n + 1
<1>3. o.set # Missing => r.set \in SetValues
  BY <1>1, <1>2, TypeRemoveKeeps
<1>4. S!Missing = Missing /\ Missing \in SetValues
  BY SetValueIs
<1>5. o.set # Missing => s \in SetValues
  BY <1>3, <1>4
<1>6. RemStep(o, v) = IF o.set = Missing \/ ~ r.removed THEN o ELSE [set |-> s, n |-> m]
  BY <1>4 DEF RemStep
<1> HIDE DEF s, r
<1>7. m \in Int
  BY <1>1
<1> HIDE DEF v, m
<1>8. o.set # Missing => [set |-> s, n |-> m] \in RemStates
  BY <1>5, <1>7 DEF RemStates
<1>9. RemStep(o, v) \in RemStates
  BY <1>6, <1>8
<1>10. QED
  BY <1>9 DEF v

LEMMA RemLoopKeeps ==
  ASSUME NEW vs \in SetRemovals, NEW base \in RemStates
  PROVE  RemLoop(vs, base) \in RemStates
<1> DEFINE n == Len(vs)
           B == RemStates
           F == [p \in B \X (1 .. n) |-> RemStep(p[1], vs[p[2]])]
           iter == CHOOSE f : f = RemRounds(f, vs, base)
           Bad == {k \in 0 .. n : iter[1 .. k] \notin B}
<1>1. n \in Nat /\ DOMAIN vs = 1 .. n
  BY ArgumentsAre
<1>2. \A b \in B, i \in 1 .. n : RemStep(b, vs[i]) \in B
  BY RemStepKeeps
<1>3. \A b \in B, i \in 1 .. n : F[<<b, i>>] = RemStep(b, vs[i])
  OBVIOUS
<1> HIDE DEF n, F, B
<1>4. PICK g : g \in [SUBSET (1 .. n) -> B] /\ Loops(g, F, base, n)
  <2>1. \A b \in B, i \in 1 .. n : F[<<b, i>>] \in B
    BY <1>2, <1>3
  <2>2. base \in B
    BY DEF B
  <2>3. QED
    BY <2>1, <2>2, <1>1, LoopRuns
<1>5. g = RemRounds(g, vs, base)
  <2> DEFINE h == RemRounds(g, vs, base)
  <2>1. ASSUME NEW s \in SUBSET (1 .. n)
        PROVE  g[s] = IF s = {} THEN base ELSE RemStep(g[s \ {S!Max(s)}], vs[S!Max(s)])
    <3> DEFINE x == S!Max(s)
    <3>1. g[s] = IF s = {} THEN base ELSE F[<<g[s \ {x}], x>>]
      BY <1>4 DEF Loops
    <3>2. s # {} => x \in 1 .. n /\ g[s \ {x}] \in B
      <4>1. s # {} => x \in s
        BY <1>1, MaxIs
      <4> HIDE DEF x
      <4>2. s \ {x} \in SUBSET (1 .. n)
        OBVIOUS
      <4>3. QED
        BY <4>1, <4>2, <1>4
    <3> HIDE DEF x
    <3>3. s # {} => F[<<g[s \ {x}], x>>] = RemStep(g[s \ {x}], vs[x])
      BY <3>2, <1>3
    <3>4. g[s] = IF s = {} THEN base ELSE RemStep(g[s \ {x}], vs[x])
      BY <3>1, <3>3
    <3>5. QED
      BY <3>4 DEF x
  <2>2. h = [s \in SUBSET (1 .. n) |-> IF s = {} THEN base ELSE RemStep(g[s \ {S!Max(s)}], vs[S!Max(s)])]
    BY <1>1 DEF RemRounds
  <2> HIDE DEF h
  <2>3. g = h
    BY <1>4, <2>1, <2>2
  <2>4. QED
    BY <2>3 DEF h
<1>6. iter = RemRounds(iter, vs, base)
  BY <1>5
<1> HIDE DEF iter
<1>7. \A s \in SUBSET (1 .. n) :
        iter[s] = IF s = {} THEN base ELSE RemStep(iter[s \ {S!Max(s)}], vs[S!Max(s)])
  <2> DEFINE h == RemRounds(iter, vs, base)
  <2>1. \A s \in SUBSET (1 .. n) :
          h[s] = IF s = {} THEN base ELSE RemStep(iter[s \ {S!Max(s)}], vs[S!Max(s)])
    BY <1>1 DEF RemRounds
  <2> HIDE DEF h
  <2>2. iter = h
    BY <1>6 DEF h
  <2>3. QED
    BY <2>1, <2>2
<1>8. Bad = {}
  <2> SUFFICES ASSUME Bad # {} PROVE FALSE
    OBVIOUS
  <2>1. PICK b \in Bad : \A x \in Bad : b <= x
    <3>1. Bad \subseteq Nat
      BY <1>1
    <3> HIDE DEF Bad
    <3>2. QED
      BY <3>1, Least
  <2>2. b \in 0 .. n /\ iter[1 .. b] \notin B
    OBVIOUS
  <2>3. b # 0
    <3>1. 1 .. 0 = {} /\ {} \in SUBSET (1 .. n)
      OBVIOUS
    <3>2. iter[{}] = base
      BY <3>1, <1>7
    <3>3. QED
      BY <3>1, <3>2, <2>2 DEF B
  <2>4. b \in 1 .. n /\ b - 1 \in 0 .. n /\ b - 1 \notin Bad
    <3>1. b \in 1 .. n /\ b - 1 \in 0 .. n /\ ~ (b <= b - 1)
      BY <2>2, <2>3, <1>1
    <3> HIDE DEF Bad
    <3>2. QED
      BY <3>1, <2>1
  <2>5. iter[1 .. b - 1] \in B
    BY <2>4
  <2> HIDE DEF Bad
  <2>6. /\ 1 .. b \in SUBSET (1 .. n) /\ 1 .. b # {}
        /\ S!Max(1 .. b) = b /\ (1 .. b) \ {b} = 1 .. b - 1
    BY <2>4, <1>1, LastIs
  <2>7. iter[1 .. b] = RemStep(iter[1 .. b - 1], vs[b])
    <3> DEFINE s == 1 .. b
    <3>1. s \in SUBSET (1 .. n) /\ s # {} /\ S!Max(s) = b /\ s \ {b} = 1 .. b - 1
      BY <2>6
    <3> HIDE DEF s
    <3>2. iter[s] = RemStep(iter[1 .. b - 1], vs[b])
      BY <3>1, <1>7
    <3>3. QED
      BY <3>2 DEF s
  <2>8. QED
    BY <2>2, <2>4, <2>5, <2>7, <1>2
<1>9. iter[1 .. n] \in B
  <2>1. n \in 0 .. n /\ n \notin Bad
    <3>1. n \in 0 .. n
      BY <1>1
    <3> HIDE DEF Bad
    <3>2. QED
      BY <3>1, <1>8
  <2>2. QED
    BY <2>1
<1>10. RemLoop(vs, base) = iter[1 .. n]
  BY <1>1 DEF RemLoop, iter
<1>11. QED
  BY <1>9, <1>10 DEF B

\* SREM
LEMMA SRemKeeps ==
  ASSUME NEW vs \in SetRemovals, S!SRem(vs), set \in SetValues
  PROVE  set' \in SetValues
<1> DEFINE base == [set |-> set, n |-> 0]
<1>1. set' = RemLoop(vs, base).set
  BY DEF S!SRem, S!FoldLeft, S!MapThenFoldSet, RemLoop, RemRounds, RemStep
<1>2. base \in RemStates
  BY DEF RemStates
<1> HIDE DEF base
<1>3. RemLoop(vs, base) \in RemStates
  BY <1>2, RemLoopKeeps
<1>4. QED
  BY <1>1, <1>3 DEF RemStates

\* SPOP
LEMMA SPopKeeps ==
  ASSUME S!SPop, set \in SetValues
  PROVE  set' \in SetValues
<1>1. S!Missing = Missing /\ Missing \in SetValues
  BY SetValueIs
<1>2. CASE S!Absent
  BY <1>2 DEF S!SPop
<1>3. CASE ~ S!Absent
  <2>1. PICK v \in S!setTypeRandomElement(set) :
          set' = IF S!setTypeSize(S!setTypeRemove(set, v).set) = 0 THEN S!Missing ELSE S!setTypeRemove(set, v).set
    BY <1>3 DEF S!SPop
  <2>2. set # Missing
    BY <1>1, <1>3 DEF S!Absent
  <2>3. S!IsIntset(set) => v \in Int
    <3>1. SUFFICES ASSUME S!IsIntset(set) PROVE v \in Int
      OBVIOUS
    <3>2. set.is \in Arrays
      BY <2>2, <3>1, SetValueIs
    <3>3. set.is.contents \in Seq(Int)
      BY <3>2, ArrayIs
    <3>4. S!setTypeRandomElement(set) = S!ToSet(set.is.contents)
      BY <3>1 DEF S!setTypeRandomElement, S!ElementsOf
    <3>5. QED
      BY <2>1, <3>3, <3>4 DEF S!ToSet
  <2>4. S!setTypeRemove(set, v).set \in SetValues
    BY <2>2, <2>3, TypeRemoveKeeps
  <2>5. QED
    BY <1>1, <2>1, <2>4
<1>4. QED
  BY <1>2, <1>3
-----------------------------------------------------------------------------
\* The set is missing, a hash table of integers or a sound array of them.
SetInv == set \in SetValues

\* Integer sets are sorted, without repetition, and wide enough for their
\* elements (intset.c), for any members and any widths.
THEOREM IntsetsSound == Spec => []IntsetExact
<1>1. Init => SetInv
  BY SetValueIs DEF Init, SetInv
<1>2. SetInv /\ [Next]_vars => SetInv'
  <2> SUFFICES ASSUME set \in SetValues, [Next]_vars PROVE set' \in SetValues
    BY DEF SetInv
  <2>1. CASE S!Next
    BY <2>1, SAddKeeps, SRemKeeps, SPopKeeps DEF S!Next
  <2>2. CASE set' = set
    BY <2>2
  <2>3. CASE set' = Missing
    BY <2>3, SetValueIs
  <2>4. S!Next \/ set' = set \/ set' = Missing
    BY DEF Next, vars, Refused, Set, Del
  <2>5. QED
    BY <2>1, <2>2, <2>3, <2>4
<1>3. SetInv => IntsetExact
  BY SetValueIs DEF IntsetExact, Arrays, SetInv
<1>4. QED
  BY <1>1, <1>2, <1>3, PTL DEF Spec
=============================================================================
