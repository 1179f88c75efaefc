--------------------------- MODULE ProtocolProofs ---------------------------
(***************************************************************************)
(* What holds of the request parser for any scripts, whatever is in them,  *)
(* and for any way of splitting their bytes into reads.                    *)
(***************************************************************************)
EXTENDS Protocol, SequenceTheorems, WellFoundedInduction, TLAPS

\* What of the query buffer has not been consumed.
Rest == Len(querybuf) - pos

\* An argument comes next, not a header.
ArgumentNext == c.multibulklen > 0 /\ c.bulklen # -1

\* The first CR behind what has been consumed is at i.
FirstCR(i) ==
  /\ i \in pos + 1 .. Len(querybuf) /\ querybuf[i] = CR
  /\ \A j \in pos + 1 .. i - 1 : querybuf[j] # CR

\* The client structure.  The number of arguments is for multibulk requests.
IsClient ==
  /\ c = [reqtype |-> c.reqtype, multibulklen |-> c.multibulklen, bulklen |-> c.bulklen,
          argv |-> c.argv, closing |-> c.closing, open |-> c.open]
  /\ c.reqtype \in {"none", "inline", "multibulk"}
  /\ c.multibulklen \in 0 .. MaxArgs /\ c.bulklen \in -1 .. MaxBulk
  /\ c.closing \in BOOLEAN /\ c.open \in BOOLEAN
  /\ c.multibulklen > 0 => c.reqtype = "multibulk"

\* The bytes.  Only processMultibulkBuffer keeps consumed bytes in the buffer.  A
\* command is executed when no argument is missing.
Buffers ==
  /\ script \in Scripts /\ got \in 0 .. Len(Stream)
  /\ querybuf \in Seq(Int) /\ pos \in 0 .. Len(querybuf)
  /\ pc \in {"read", "loop", "args", "exec"}
  /\ pc # "args" => pos = 0
  /\ pc = "exec" => c.multibulklen = 0

\* Of a request whose number of arguments is not known nothing has been
\* consumed.
Untouched ==
  pc \in {"read", "loop"} /\ c.multibulklen = 0 /\ ~ c.closing =>
    /\ c.argv = <<>>
    /\ c.reqtype = "multibulk" => querybuf # <<>> /\ querybuf[1] = Star

\* A connection is given up between two reads, at its end or after an error.
Closed == ~ c.open => pc = "read" /\ (got = Len(Stream) \/ c.closing)

\* What the parser leaves in the buffer for want of more: less than an argument
\* with its line end, a header that is not too long, or one that has all but
\* the last byte of its line end.
Leftover ==
  IF ArgumentNext
  THEN Rest < c.bulklen + 2
  ELSE Rest <= InlineMax \/ (/\ Rest <= InlineMax + ReadLen
                             /\ c.reqtype = "multibulk" /\ FirstCR(Len(querybuf)))

\* The line end of the header has come with the last read.
LineEndCame ==
  /\ ~ ArgumentNext /\ c.reqtype = "multibulk"
  /\ pc = "loop" \/ (pc = "args" /\ c.multibulklen > 0)
  /\ \E i \in pos + 1 .. Len(querybuf) - 1 : FirstCR(i) /\ Len(querybuf) - i <= ReadLen

\* What the parser has before it: what was left and one read more.
Workload ==
  \/ Rest <= InlineMax + ReadLen
  \/ ArgumentNext /\ Rest <= c.bulklen + 2
  \/ LineEndCame

Bounded == c.open /\ ~ c.closing => IF pc = "read" THEN Leftover ELSE Workload

\* The inductive invariant.
PInv == IsClient /\ Buffers /\ Untouched /\ Closed /\ Bounded
-----------------------------------------------------------------------------
(* The helpers.                                                            *)

\* A set of natural numbers that is not empty has a least element.
LEMMA LeastNumber ==
  ASSUME NEW S, S \subseteq Nat, S # {}
  PROVE  \E b \in S : \A x \in S : b <= x
<1> DEFINE Less == {pair \in Nat \X Nat : pair[1] < pair[2]}
<1>1. IsWellFoundedOn(Less, Nat)
  BY NatLessThanWellFounded DEF OpToRel
<1>2. \A x, y \in Nat : x < y => <<x, y>> \in Less
  OBVIOUS
<1> HIDE DEF Less
<1>3. \E b \in S : \A y \in S : <<y, b>> \notin Less
  BY <1>1, WFMin
<1>4. PICK b \in S : \A y \in S : ~ (y < b)
  BY <1>2, <1>3
<1>5. \A x \in S : b <= x
  BY <1>4
<1>6. QED
  BY <1>5

\* The limits as numbers.
LEMMA Limits ==
  /\ ReadLen \in Nat /\ BigArg \in Nat /\ InlineMax \in Nat /\ QueryMax \in Nat
  /\ MaxArgs \in Nat /\ MaxBulk \in Nat
  /\ ReadLen > 0 /\ BigArg > 2 /\ MaxArgs > 0 /\ MaxBulk > BigArg
  /\ BigArg + ReadLen <= InlineMax
  /\ MaxBulk + 2 + ReadLen <= QueryMax
  /\ InlineMax + 2 * ReadLen <= QueryMax
BY LimitsAssumption

\* Drop: what is behind the first n bytes.
LEMMA DropIs ==
  ASSUME NEW s, s \in Seq(Int), NEW n, n \in 0 .. Len(s)
  PROVE  /\ Drop(s, n) \in Seq(Int) /\ Len(Drop(s, n)) = Len(s) - n
         /\ \A i \in 1 .. Len(s) - n : Drop(s, n)[i] = s[n + i]
<1>1. Len(s) \in Nat /\ n \in Int /\ n >= 0 /\ n <= Len(s)
  OBVIOUS
<1>2. \A i \in n + 1 .. Len(s) : s[i] \in Int
  BY <1>1
<1>3. n + 1 \in Int /\ Len(s) \in Int
  BY <1>1
<1> DEFINE t == SubSeq(s, n + 1, Len(s))
<1>4. /\ t \in Seq(Int)
      /\ Len(t) = IF n + 1 <= Len(s) THEN Len(s) - (n + 1) + 1 ELSE 0
      /\ \A i \in 1 .. Len(s) - (n + 1) + 1 : t[i] = s[(n + 1) + i - 1]
  BY <1>2, <1>3, SubSeqProperties
<1> HIDE DEF t
<1>5. Len(t) = Len(s) - n /\ \A i \in 1 .. Len(s) - n : t[i] = s[n + i]
  <2>1. Len(s) - (n + 1) + 1 = Len(s) - n /\ \A i \in Int : (n + 1) + i - 1 = n + i
    BY <1>1
  <2>2. \A i \in 1 .. Len(s) - n : i \in Int
    BY <1>1
  <2>3. \A i \in 1 .. Len(s) - n : t[i] = s[n + i]
    BY <2>1, <2>2, <1>4
  <2>4. Len(t) = Len(s) - n
    BY <1>1, <1>4
  <2>5. QED
    BY <2>3, <2>4
<1>6. QED
  BY <1>4, <1>5 DEF t, Drop

\* Drop of any length.
LEMMA DropAny ==
  ASSUME NEW s, s \in Seq(Int), NEW n, n \in Nat
  PROVE  Drop(s, n) \in Seq(Int) /\ Len(Drop(s, n)) \in Nat /\ Len(Drop(s, n)) <= Len(s)
<1>1. CASE n \in 0 .. Len(s)
  <2>1. Drop(s, n) \in Seq(Int) /\ Len(Drop(s, n)) = Len(s) - n /\ Len(s) \in Nat
    BY <1>1, DropIs
  <2>2. QED
    BY <2>1, <1>1
<1>2. CASE n \notin 0 .. Len(s)
  <2>1. Len(s) \in Nat /\ n + 1 \in Int /\ ~ (n + 1 <= Len(s))
    BY <1>2
  <2>2. \A i \in n + 1 .. Len(s) : s[i] \in Int
    BY <2>1
  <2> DEFINE t == SubSeq(s, n + 1, Len(s))
  <2>3. t \in Seq(Int) /\ Len(t) = IF n + 1 <= Len(s) THEN Len(s) - (n + 1) + 1 ELSE 0
    BY <2>1, <2>2, SubSeqProperties
  <2> HIDE DEF t
  <2>4. t \in Seq(Int) /\ Len(t) = 0
    BY <2>1, <2>3
  <2>5. QED
    BY <2>1, <2>4 DEF t, Drop
<1>3. QED
  BY <1>1, <1>2

\* The n bytes of s behind the first m.
LEMMA SliceIs ==
  ASSUME NEW s, s \in Seq(Int), NEW m, m \in Nat, NEW n, n \in Nat, n > 0, m + n <= Len(s)
  PROVE  SubSeq(s, m + 1, m + n) \in Seq(Int) /\ Len(SubSeq(s, m + 1, m + n)) = n
<1>1. Len(s) \in Nat
  OBVIOUS
<1>2. m + 1 \in Int /\ m + n \in Int /\ \A i \in m + 1 .. m + n : s[i] \in Int
  BY <1>1
<1> DEFINE t == SubSeq(s, m + 1, m + n)
<1>3. t \in Seq(Int) /\ Len(t) = IF m + 1 <= m + n THEN m + n - (m + 1) + 1 ELSE 0
  BY <1>2, SubSeqProperties
<1> HIDE DEF t
<1>4. QED
  BY <1>3 DEF t

\* Find: the first b behind the first n bytes of s, or 0.
LEMMA FindIs ==
  ASSUME NEW s, s \in Seq(Int), NEW n, n \in 0 .. Len(s), NEW b
  PROVE  /\ Find(s, n, b) \in {0} \cup (n + 1 .. Len(s))
         /\ Find(s, n, b) = 0 => \A i \in n + 1 .. Len(s) : s[i] # b
         /\ Find(s, n, b) # 0 =>
              s[Find(s, n, b)] = b /\ \A i \in n + 1 .. Find(s, n, b) - 1 : s[i] # b
<1> DEFINE I == {i \in n + 1 .. Len(s) : s[i] = b}
           least == CHOOSE x \in I : \A y \in I : x <= y
<1>1. Find(s, n, b) = IF I # {} THEN least ELSE 0
  BY DEF Find, SelectInSubSeq, Min
<1>2. Len(s) \in Nat /\ n \in Int /\ n >= 0
  OBVIOUS
<1>3. CASE I = {}
  BY <1>1, <1>2, <1>3
<1>4. CASE I # {}
  <2>1. I \subseteq Nat
    BY <1>2
  <2> HIDE DEF I
  <2>2. least \in I /\ \A y \in I : least <= y
    BY <2>1, <1>4, LeastNumber
  <2> HIDE DEF least
  <2>3. Find(s, n, b) = least
    BY <1>1, <1>4
  <2>4. least \in n + 1 .. Len(s) /\ s[least] = b
    BY <2>2 DEF I
  <2>5. ASSUME NEW i, i \in n + 1 .. least - 1 PROVE s[i] # b
    <3>1. i \in n + 1 .. Len(s) /\ ~ (least <= i)
      BY <1>2, <2>4, <2>5
    <3>2. i \notin I
      BY <2>2, <3>1
    <3>3. QED
      BY <3>1, <3>2 DEF I
  <2>6. least # 0
    BY <1>2, <2>4
  <2>7. QED
    BY <2>3, <2>4, <2>5, <2>6
<1>5. QED
  BY <1>3, <1>4

\* The concatenations of the first k sequences.
Flattens(f, seqs, k) ==
  /\ f = [i \in 1 .. k |-> f[i]]
  /\ \A i \in 1 .. k : f[i] \in Seq(Int)
  /\ \A i \in 1 .. k : f[i] = IF i = 1 THEN seqs[i] ELSE f[i - 1] \o seqs[i]

\* ... exist for every k.
LEMMA FlattenRun ==
  ASSUME NEW seqs, seqs \in Seq(Seq(Int)), NEW k, k \in 1 .. Len(seqs)
  PROVE  \E f : Flattens(f, seqs, k)
<1> DEFINE Wrong == {i \in 1 .. Len(seqs) : ~ \E f : Flattens(f, seqs, i)}
<1>0. Len(seqs) \in Nat /\ \A i \in 1 .. Len(seqs) : seqs[i] \in Seq(Int)
  OBVIOUS
<1>1. SUFFICES ASSUME Wrong # {} PROVE FALSE
  OBVIOUS
<1>2. PICK b \in Wrong : \A x \in Wrong : b <= x
  <2>1. Wrong \subseteq Nat
    BY <1>0
  <2> HIDE DEF Wrong
  <2>2. QED
    BY <2>1, <1>1, LeastNumber
<1>3. b \in 1 .. Len(seqs) /\ ~ \E f : Flattens(f, seqs, b)
  BY <1>2
<1>4. CASE b = 1
  <2> DEFINE f == [i \in 1 .. 1 |-> seqs[1]]
  <2>1. \A i \in 1 .. 1 : i = 1 /\ f[i] = seqs[1]
    OBVIOUS
  <2>2. f = [i \in 1 .. 1 |-> f[i]]
    OBVIOUS
  <2>3. seqs[1] \in Seq(Int)
    BY <1>0, <1>3, <1>4
  <2> HIDE DEF f
  <2>4. Flattens(f, seqs, 1)
    BY <2>1, <2>2, <2>3 DEF Flattens
  <2>5. QED
    BY <2>4, <1>3, <1>4
<1>5. CASE b # 1
  <2>1. b \in Int /\ b > 1 /\ b - 1 \in 1 .. Len(seqs) /\ ~ (b <= b - 1)
    BY <1>0, <1>3, <1>5
  <2>2. b - 1 \notin Wrong
    BY <2>1, <1>2
  <2>3. PICK g : Flattens(g, seqs, b - 1)
    BY <2>1, <2>2
  <2> DEFINE f == [i \in 1 .. b |-> IF i = b THEN g[b - 1] \o seqs[b] ELSE g[i]]
  <2>4. \A i \in 1 .. b - 1 : i \in 1 .. b /\ i # b /\ i - 1 # b
    BY <2>1
  <2>5. \A i \in 1 .. b : i = b \/ i \in 1 .. b - 1
    BY <2>1
  <2>6. \A i \in 1 .. b : i # 1 => i - 1 \in 1 .. b - 1
    BY <2>1
  <2>7. f[b] = g[b - 1] \o seqs[b]
    <3>1. b \in 1 .. b
      BY <2>1
    <3>2. QED
      BY <3>1
  <2>8. \A i \in 1 .. b - 1 : f[i] = g[i]
    BY <2>4
  <2>9. f = [i \in 1 .. b |-> f[i]]
    OBVIOUS
  <2> HIDE DEF f
  <2>10. g[b - 1] \in Seq(Int) /\ seqs[b] \in Seq(Int)
    BY <2>1, <2>3, <1>0, <1>3 DEF Flattens
  <2>11. f[b] \in Seq(Int)
    BY <2>7, <2>10
  <2>12. \A i \in 1 .. b : f[i] \in Seq(Int)
    BY <2>3, <2>5, <2>8, <2>11 DEF Flattens
  <2>13. ASSUME NEW i, i \in 1 .. b PROVE f[i] = IF i = 1 THEN seqs[i] ELSE f[i - 1] \o seqs[i]
    <3>1. CASE i = b
      <4>1. f[b - 1] = g[b - 1]
        BY <2>1, <2>6, <2>8, <2>13, <3>1, <1>5
      <4>2. QED
        BY <4>1, <3>1, <2>7, <1>5
    <3>2. CASE i # b
      <4>1. i \in 1 .. b - 1
        BY <2>5, <2>13, <3>2
      <4>2. g[i] = IF i = 1 THEN seqs[i] ELSE g[i - 1] \o seqs[i]
        BY <4>1, <2>3 DEF Flattens
      <4>3. i # 1 => f[i - 1] = g[i - 1]
        BY <2>6, <2>8, <2>13
      <4>4. QED
        BY <4>1, <4>2, <4>3, <2>8
    <3>3. QED
      BY <3>1, <3>2
  <2>14. Flattens(f, seqs, b)
    BY <2>9, <2>12, <2>13 DEF Flattens
  <2>15. QED
    BY <2>14, <1>3
<1>6. QED
  BY <1>4, <1>5

\* FlattenSeq makes a sequence of sequences into one.
LEMMA FlattenIs ==
  ASSUME NEW seqs, seqs \in Seq(Seq(Int))
  PROVE  FlattenSeq(seqs) \in Seq(Int)
<1> DEFINE len == Len(seqs)
           Step(f) == [i \in 1 .. len |-> IF i = 1 THEN seqs[i] ELSE f[i - 1] \o seqs[i]]
           flatten == CHOOSE f : f = Step(f)
<1>0. len \in Nat /\ \A i \in 1 .. len : seqs[i] \in Seq(Int)
  OBVIOUS
<1>1. CASE len = 0
  <2>1. FlattenSeq(seqs) = seqs
    BY <1>1 DEF FlattenSeq
  <2>2. seqs = <<>>
    BY <1>1
  <2>3. QED
    BY <2>1, <2>2
<1>2. CASE len # 0
  <2>1. FlattenSeq(seqs) = flatten[len]
    BY <1>2 DEF FlattenSeq
  <2>2. len \in 1 .. len
    BY <1>0, <1>2
  <2>3. PICK f : Flattens(f, seqs, len)
    BY <2>2, FlattenRun
  <2>4. f = Step(f)
    <3> HIDE DEF len
    <3>1. \A i \in 1 .. len : f[i] = IF i = 1 THEN seqs[i] ELSE f[i - 1] \o seqs[i]
      BY <2>3 DEF Flattens
    <3>2. f = [i \in 1 .. len |-> f[i]]
      BY <2>3 DEF Flattens
    <3>3. QED
      BY <3>1, <3>2
  <2>5. flatten = Step(flatten)
    <3> HIDE DEF Step
    <3>1. QED
      BY <2>4
  <2> HIDE DEF flatten
  <2>6. \A i \in 1 .. len : flatten[i] = IF i = 1 THEN seqs[i] ELSE flatten[i - 1] \o seqs[i]
    <3>1. \A i \in 1 .. len :
            Step(flatten)[i] = IF i = 1 THEN seqs[i] ELSE flatten[i - 1] \o seqs[i]
      OBVIOUS
    <3> HIDE DEF Step
    <3>2. QED
      BY <3>1, <2>5
  <2> DEFINE Wrong == {i \in 1 .. len : flatten[i] \notin Seq(Int)}
  <2>7. Wrong = {}
    <3> SUFFICES ASSUME Wrong # {} PROVE FALSE
      OBVIOUS
    <3> HIDE DEF len
    <3>1. Wrong \subseteq Nat
      BY <1>0
    <3>2. PICK b \in Wrong : \A x \in Wrong : b <= x
      <4> HIDE DEF Wrong
      <4>1. QED
        BY <3>1, LeastNumber
    <3>3. b \in 1 .. len /\ flatten[b] \notin Seq(Int)
      BY <3>2
    <3>4. b # 1
      BY <3>3, <2>6, <1>0
    <3>5. b - 1 \in 1 .. len /\ ~ (b <= b - 1)
      BY <3>3, <3>4, <1>0
    <3>6. b - 1 \notin Wrong
      BY <3>2, <3>5
    <3>7. flatten[b - 1] \in Seq(Int) /\ seqs[b] \in Seq(Int)
      BY <3>3, <3>5, <3>6, <1>0
    <3>8. flatten[b] = flatten[b - 1] \o seqs[b]
      BY <3>3, <3>4, <2>6
    <3>9. QED
      BY <3>3, <3>7, <3>8
  <2>8. flatten[len] \in Seq(Int)
    BY <2>2, <2>7
  <2>9. QED
    BY <2>1, <2>8
<1>3. QED
  BY <1>1, <1>2

\* What the client sends is a sequence of bytes.
LEMMA StreamIs ==
  ASSUME script \in Scripts
  PROVE  Stream \in Seq(Int) /\ Len(Stream) \in Nat
<1>1. DOMAIN script = 1 .. Len(script) /\ \A i \in DOMAIN script : script[i].wire \in Seq(Int)
  BY ScriptsAssumption
<1> DEFINE wires == [i \in DOMAIN script |-> script[i].wire]
<1>2. Len(script) \in Nat
  BY ScriptsAssumption
<1>3. wires \in Seq(Seq(Int))
  BY <1>1, <1>2
<1>4. FlattenSeq(wires) \in Seq(Int)
  BY <1>3, FlattenIs
<1>5. Stream \in Seq(Int)
  BY <1>4 DEF Stream
<1>6. QED
  BY <1>5
-----------------------------------------------------------------------------
(* The steps.                                                              *)

\* The invariant as numbers: what every proof below starts from.
LEMMA Numbers ==
  ASSUME PInv
  PROVE  /\ Len(querybuf) \in Nat /\ pos \in Nat /\ pos <= Len(querybuf)
         /\ got \in Nat /\ Len(Stream) \in Nat /\ got <= Len(Stream)
         /\ Stream \in Seq(Int) /\ querybuf \in Seq(Int)
         /\ c.bulklen \in Int /\ c.bulklen >= -1 /\ c.bulklen <= MaxBulk
         /\ c.multibulklen \in Int /\ c.multibulklen >= 0 /\ c.multibulklen <= MaxArgs
<1>1. Stream \in Seq(Int) /\ Len(Stream) \in Nat
  BY StreamIs DEF PInv, Buffers
<1>2. QED
  BY <1>1, Limits DEF PInv, Buffers, IsClient

\* The first request has not been looked at.
LEMMA Starts ==
  ASSUME Init
  PROVE  PInv
<1>1. c = [reqtype |-> "none", multibulklen |-> 0, bulklen |-> -1, argv |-> <<>>,
           closing |-> FALSE, open |-> TRUE]
  BY DEF Init, NoRequest
<1>2. /\ script \in Scripts /\ got = 0 /\ querybuf = <<>> /\ pos = 0 /\ pc = "read"
  BY DEF Init
<1>3. IsClient
  BY <1>1, Limits DEF IsClient
<1>4. Buffers
  <2>1. Len(Stream) \in Nat
    BY <1>2, StreamIs
  <2>2. QED
    BY <1>2, <2>1 DEF Buffers
<1>5. Untouched /\ Closed
  BY <1>1, <1>2 DEF Untouched, Closed
<1>6. Bounded
  BY <1>1, <1>2, Limits DEF Bounded, Leftover, ArgumentNext, Rest
<1>7. QED
  BY <1>3, <1>4, <1>5, <1>6 DEF PInv

\* A read brings at most ReadLen bytes, and no more than a big argument lacks.
LEMMA ReadLimitIs ==
  ASSUME PInv
  PROVE  /\ ReadLimit \in Int /\ ReadLimit <= ReadLen
         /\ ArgumentNext /\ c.bulklen >= BigArg => ReadLimit <= c.bulklen + 2 - Len(querybuf)
         /\ pc = "read" /\ c.open /\ ~ c.closing => ReadLimit > 0
<1>1. c.multibulklen > 0 => c.reqtype = "multibulk"
  BY DEF PInv, IsClient
<1>2. pc = "read" => pos = 0
  BY DEF PInv, Buffers
<1>3. pc = "read" /\ c.open /\ ~ c.closing /\ ArgumentNext => Len(querybuf) < c.bulklen + 2
  BY <1>2, Numbers DEF PInv, Bounded, Leftover, Rest
<1> DEFINE remaining == c.bulklen + 2 - Len(querybuf)
           big == c.reqtype = "multibulk" /\ c.multibulklen > 0 /\ c.bulklen >= BigArg /\ remaining < ReadLen
<1>4. ReadLimit = IF big THEN remaining ELSE ReadLen
  BY DEF ReadLimit
<1>5. remaining \in Int /\ ReadLen \in Nat /\ ReadLen > 0
  BY Numbers, Limits
<1>6. ArgumentNext /\ c.bulklen >= BigArg /\ remaining < ReadLen => big
  BY <1>1 DEF ArgumentNext
<1>7. big => ArgumentNext
  BY Numbers, Limits DEF ArgumentNext
<1>8. big => remaining < ReadLen
  OBVIOUS
<1>9. ArgumentNext /\ Len(querybuf) < c.bulklen + 2 => remaining > 0
  BY Numbers
<1> HIDE DEF remaining, big
<1>10. ReadLimit \in Int /\ ReadLimit <= ReadLen
  BY <1>4, <1>5, <1>8
<1>11. ArgumentNext /\ c.bulklen >= BigArg => ReadLimit <= remaining
  BY <1>4, <1>5, <1>6
<1>12. pc = "read" /\ c.open /\ ~ c.closing => ReadLimit > 0
  BY <1>3, <1>4, <1>5, <1>7, <1>9
<1>13. QED
  BY <1>10, <1>11, <1>12 DEF remaining

\* What a read does to the buffer.
LEMMA ReadIs ==
  ASSUME PInv, readQueryFromClient
  PROVE  /\ Len(querybuf') \in Nat /\ Len(querybuf) < Len(querybuf')
         /\ Len(querybuf') <= Len(querybuf) + ReadLimit
         /\ querybuf' \in Seq(Int)
         /\ \A i \in 1 .. Len(querybuf) : querybuf'[i] = querybuf[i]
         /\ got' \in 0 .. Len(Stream) /\ Stream' = Stream
<1>1. PICK n \in 1 .. ReadLimit :
        /\ got + n <= Len(Stream)
        /\ got' = got + n
        /\ querybuf' = querybuf \o SubSeq(Stream, got + 1, got + n)
  BY DEF readQueryFromClient
<1>2. n \in Int /\ n >= 1 /\ n <= ReadLimit
  BY <1>1, ReadLimitIs
<1> DEFINE new == SubSeq(Stream, got + 1, got + n)
<1>3. new \in Seq(Int) /\ Len(new) = n
  <2>1. QED
    <3>1. got \in Nat /\ n \in Nat /\ n > 0 /\ got + n <= Len(Stream) /\ Stream \in Seq(Int)
      BY <1>1, <1>2, Numbers
    <3>2. QED
      BY <3>1, SliceIs
<1>4. querybuf' = querybuf \o new
  BY <1>1
<1> HIDE DEF new
<1>0. querybuf \in Seq(Int)
  BY Numbers
<1>5. querybuf' \in Seq(Int) /\ Len(querybuf') = Len(querybuf) + n
  <2>1. querybuf \o new \in Seq(Int) /\ Len(querybuf \o new) = Len(querybuf) + Len(new)
    BY <1>0, <1>3
  <2>2. QED
    BY <2>1, <1>3, <1>4
<1>6. \A i \in 1 .. Len(querybuf) : querybuf'[i] = querybuf[i]
  BY <1>0, <1>3, <1>4, <1>2
<1>7. script' = script
  BY DEF readQueryFromClient
<1>8. Stream' = Stream
  BY <1>7 DEF Stream
<1>9. QED
  <2>1. Len(querybuf) \in Nat /\ got \in Nat /\ Len(Stream) \in Nat /\ ReadLimit \in Int
    BY Numbers, ReadLimitIs
  <2>2. Len(querybuf') \in Nat /\ Len(querybuf) < Len(querybuf')
    BY <1>2, <1>5, <2>1
  <2>3. Len(querybuf') <= Len(querybuf) + ReadLimit
    BY <1>2, <1>5, <2>1
  <2>4. got' \in 0 .. Len(Stream)
    BY <1>1, <1>2, <2>1
  <2>5. QED
    BY <1>5, <1>6, <1>8, <2>2, <2>3, <2>4

\* A read.
LEMMA ReadKeeps ==
  ASSUME PInv, readQueryFromClient
  PROVE  PInv'
<1> DEFINE full == Len(querybuf') > QueryMax
<1>1. /\ pc = "read" /\ c.open /\ pos' = pos /\ script' = script /\ pos = 0
      /\ full => c' = [c EXCEPT !.open = FALSE] /\ pc' = pc
      /\ ~ full => c' = c /\ pc' = "loop"
  BY DEF readQueryFromClient, PInv, Buffers
<1> DEFINE was == Len(querybuf)
           is == Len(querybuf')
<1>0. /\ was \in Nat /\ is \in Nat /\ was < is /\ is <= was + ReadLimit
      /\ ReadLimit \in Int /\ ReadLimit <= ReadLen
      /\ ArgumentNext /\ c.bulklen >= BigArg => ReadLimit <= c.bulklen + 2 - was
      /\ c.bulklen \in Int /\ c.bulklen <= MaxBulk
  BY ReadIs, ReadLimitIs, Numbers
<1>2. Buffers'
  <2>1. pos' \in 0 .. Len(querybuf') /\ got' \in 0 .. Len(Stream')
    BY <1>1, ReadIs
  <2>2. QED
    BY <1>1, <2>1, ReadIs DEF PInv, Buffers
<1>3. ASSUME ~ c.closing PROVE ~ full
  <2>1. Leftover
    BY <1>1, <1>3 DEF PInv, Bounded
  <2>2. Rest = was
    BY <1>0, <1>1 DEF Rest
  <2> HIDE DEF was, is
  <2>3. was <= InlineMax + ReadLen \/ was < c.bulklen + 2
    BY <1>0, <2>1, <2>2, Limits DEF Leftover
  <2>4. is <= QueryMax
    BY <1>0, <2>3, Limits
  <2>5. QED
    BY <2>4, <1>0, Limits DEF is
<1>4. IsClient'
  <2>1. c' = c \/ c' = [c EXCEPT !.open = FALSE]
    BY <1>1
  <2>2. IsClient
    BY DEF PInv
  <2>3. CASE c' = c
    BY <2>2, <2>3 DEF IsClient
  <2>4. CASE c' = [c EXCEPT !.open = FALSE]
    BY <2>2, <2>4 DEF IsClient
  <2>5. QED
    BY <2>1, <2>3, <2>4
<1>5. CASE full
  <2>1. c.closing /\ IsClient
    BY <1>3, <1>5 DEF PInv, IsClient
  <2>2. c'.closing /\ ~ c'.open /\ pc' = "read"
    BY <1>1, <1>5, <2>1 DEF IsClient
  <2>3. Untouched' /\ Closed' /\ Bounded'
    BY <2>2 DEF Untouched, Closed, Bounded
  <2>4. QED
    BY <1>2, <1>4, <2>3 DEF PInv
<1>6. CASE ~ full
  <2>1. c' = c /\ pc' = "loop"
    BY <1>1, <1>6
  <2>2. Untouched'
    <3>1. querybuf # <<>> => 1 \in 1 .. Len(querybuf)
      BY Numbers
    <3>2. querybuf # <<>> /\ querybuf[1] = Star => querybuf' # <<>> /\ querybuf'[1] = Star
      BY <3>1, ReadIs, Numbers
    <3>3. QED
      BY <1>1, <2>1, <3>2 DEF PInv, Untouched
  <2>3. Closed'
    BY <1>1, <2>1 DEF Closed
  <2>4. ASSUME ~ c.closing PROVE Workload'
    <3>1. Leftover
      BY <1>1, <2>4 DEF PInv, Bounded
    <3>2. /\ ArgumentNext' = ArgumentNext /\ Rest' = Len(querybuf') /\ Rest = Len(querybuf)
          /\ c'.reqtype = c.reqtype
      BY <1>1, <2>1, Numbers, ReadIs DEF ArgumentNext, Rest
    <3>3. CASE ArgumentNext
      <4>1. Len(querybuf) < c.bulklen + 2
        BY <3>1, <3>2, <3>3 DEF Leftover
      <4>2. is <= InlineMax + ReadLen \/ is <= c.bulklen + 2
        <5>1. was < c.bulklen + 2
          BY <4>1
        <5> HIDE DEF was, is
        <5>2. QED
          BY <5>1, <3>3, <1>0, Limits
      <4>3. c'.bulklen = c.bulklen
        BY <2>1
      <4>4. QED
        BY <4>2, <4>3, <3>2, <3>3 DEF Workload
    <3>4. CASE ~ ArgumentNext /\ Rest <= InlineMax
      BY <3>2, <3>4, ReadIs, ReadLimitIs, Numbers, Limits DEF Workload
    <3>5. CASE ~ ArgumentNext /\ c.reqtype = "multibulk" /\ FirstCR(Len(querybuf))
      <4> DEFINE i == Len(querybuf)
      <4>1. i \in 1 .. i /\ querybuf[i] = CR /\ \A j \in 1 .. i - 1 : querybuf[j] # CR
        BY <3>5, <1>1 DEF FirstCR
      <4>2. i \in pos' + 1 .. Len(querybuf') - 1 /\ Len(querybuf') - i <= ReadLen
        <5>1. was \in 1 .. was /\ pos' = 0
          BY <4>1, <1>1
        <5> HIDE DEF was, is
        <5>2. was \in pos' + 1 .. is - 1 /\ is - was <= ReadLen
          BY <5>1, <1>0, Limits
        <5>3. QED
          BY <5>2 DEF was, is
      <4>3. i \in pos' + 1 .. Len(querybuf')
        BY <4>2, ReadIs, Numbers
      <4>4. querybuf'[i] = CR /\ \A j \in pos' + 1 .. i - 1 : querybuf'[j] # CR
        <5>1. \A j \in pos' + 1 .. i - 1 : j \in 1 .. i - 1 /\ j \in 1 .. i
          BY <1>1, Numbers
        <5>2. QED
          BY <5>1, <4>1, ReadIs
      <4> HIDE DEF i
      <4>5. \E k \in pos' + 1 .. Len(querybuf') - 1 :
               /\ k \in pos' + 1 .. Len(querybuf') /\ querybuf'[k] = CR
               /\ \A j \in pos' + 1 .. k - 1 : querybuf'[j] # CR
               /\ Len(querybuf') - k <= ReadLen
        BY <4>2, <4>3, <4>4
      <4>6. LineEndCame'
        BY <4>5, <3>2, <3>5, <2>1 DEF LineEndCame, FirstCR
      <4>7. QED
        BY <4>6 DEF Workload
    <3>6. QED
      BY <3>1, <3>3, <3>4, <3>5 DEF Leftover
  <2>5. Bounded'
    BY <2>1, <2>4 DEF Bounded
  <2>6. QED
    BY <1>2, <1>4, <2>2, <2>3, <2>5 DEF PInv
<1>7. QED
  BY <1>5, <1>6

\* The end of the file, not a read of length zero.
LEMMA EndKeeps ==
  ASSUME PInv, EndOfFile
  PROVE  PInv'
<1>1. /\ pc = "read" /\ c.open /\ c' = [c EXCEPT !.open = FALSE]
      /\ got = Len(Stream) \/ ReadLimit <= 0
      /\ script' = script /\ got' = got /\ querybuf' = querybuf /\ pos' = pos /\ pc' = pc
  BY DEF EndOfFile
<1>2. IsClient' /\ c'.closing = c.closing /\ c'.open = FALSE
  BY <1>1 DEF PInv, IsClient
<1>3. got = Len(Stream) \/ c.closing
  BY <1>1, ReadLimitIs
<1>4. Stream' = Stream
  BY <1>1 DEF Stream
<1>5. Buffers'
  BY <1>1, <1>4 DEF PInv, Buffers
<1>6. Untouched'
  <2>1. c'.multibulklen = c.multibulklen /\ c'.argv = c.argv /\ c'.reqtype = c.reqtype
    BY <1>1 DEF PInv, IsClient
  <2>2. QED
    BY <1>1, <1>2, <2>1 DEF PInv, Untouched
<1>7. Closed' /\ Bounded'
  BY <1>1, <1>2, <1>3, <1>4 DEF Closed, Bounded
<1>8. QED
  BY <1>2, <1>5, <1>6, <1>7 DEF PInv

\* An error: the parser stops.
LEMMA ErrorKeeps ==
  ASSUME PInv, c.open, NEW n, n \in 0 .. Len(querybuf), ProtocolError(n)
  PROVE  PInv'
<1>1. /\ c' = [c EXCEPT !.closing = TRUE, !.reqtype = IF @ = "none" THEN "inline" ELSE @]
      /\ querybuf' = Drop(querybuf, n) /\ pos' = 0 /\ pc' = "read"
      /\ script' = script /\ got' = got
  BY DEF ProtocolError
<1>2. IsClient' /\ c'.closing = TRUE /\ c'.open = TRUE
  BY <1>1 DEF PInv, IsClient
<1>3. Stream' = Stream
  BY <1>1 DEF Stream
<1>4. querybuf' \in Seq(Int)
  BY <1>1, DropIs, Numbers
<1>5. Buffers'
  BY <1>1, <1>3, <1>4 DEF PInv, Buffers
<1>6. Untouched' /\ Closed' /\ Bounded'
  BY <1>1, <1>2 DEF Untouched, Closed, Bounded
<1>7. QED
  BY <1>2, <1>5, <1>6 DEF PInv

\* What the parser may leave for the next read.
Leaves(type) ==
  IF ArgumentNext
  THEN Rest < c.bulklen + 2
  ELSE Rest <= InlineMax \/ (/\ Rest <= InlineMax + ReadLen
                             /\ type = "multibulk" /\ FirstCR(Len(querybuf)))

\* The parser waits for more.
LEMMA WaitKeeps ==
  ASSUME PInv, c.open, NEW type, type \in {"inline", "multibulk"}, Wait(type),
         c.multibulklen > 0 => type = "multibulk",
         ~ c.closing => Leaves(type),
         ~ c.closing /\ c.multibulklen = 0 =>
            pc = "loop" /\ (type = "multibulk" => querybuf # <<>> /\ querybuf[1] = Star)
  PROVE  PInv'
<1>1. /\ c' = [c EXCEPT !.reqtype = type]
      /\ querybuf' = Drop(querybuf, pos) /\ pos' = 0 /\ pc' = "read"
      /\ script' = script /\ got' = got
  BY DEF Wait
<1>2. /\ c'.reqtype = type /\ c'.multibulklen = c.multibulklen /\ c'.bulklen = c.bulklen
      /\ c'.argv = c.argv /\ c'.closing = c.closing /\ c'.open = c.open
  BY <1>1 DEF PInv, IsClient
<1>3. IsClient'
  <2>1. IsClient
    BY DEF PInv
  <2>2. QED
    BY <1>1, <2>1 DEF IsClient
<1>4. Stream' = Stream
  BY <1>1 DEF Stream
<1>5. pos \in 0 .. Len(querybuf) /\ querybuf \in Seq(Int)
  BY Numbers
<1>6. /\ querybuf' \in Seq(Int) /\ Len(querybuf') = Len(querybuf) - pos
      /\ \A i \in 1 .. Len(querybuf) - pos : querybuf'[i] = querybuf[pos + i]
  BY <1>1, <1>5, DropIs
<1>7. Buffers'
  BY <1>1, <1>4, <1>6 DEF PInv, Buffers
<1>8. Untouched'
  <2>1. SUFFICES ASSUME c.multibulklen = 0, ~ c.closing
                 PROVE  /\ c.argv = <<>>
                        /\ type = "multibulk" => querybuf' # <<>> /\ querybuf'[1] = Star
    BY <1>1, <1>2 DEF Untouched
  <2>2. pc = "loop" /\ pos = 0
    BY <2>1 DEF PInv, Buffers
  <2>3. c.argv = <<>>
    BY <2>1, <2>2 DEF PInv, Untouched
  <2>4. querybuf # <<>> => Len(querybuf') # 0 /\ querybuf'[1] = querybuf[1]
    BY <2>2, <1>6, Numbers
  <2>5. QED
    BY <2>1, <2>3, <2>4, <1>6
<1>9. Closed'
  BY <1>2 DEF Closed
<1>10. ASSUME ~ c.closing PROVE Leftover'
  <2>1. /\ ArgumentNext' = ArgumentNext /\ Rest' = Rest /\ c'.bulklen = c.bulklen
        /\ c'.reqtype = type
    BY <1>1, <1>2, <1>6, Numbers DEF ArgumentNext, Rest
  <2>0. Len(querybuf) \in Nat /\ pos \in Nat /\ pos <= Len(querybuf)
    BY Numbers
  <2>2. ASSUME FirstCR(Len(querybuf)) PROVE FirstCR(Len(querybuf))'
    <3>1. /\ Len(querybuf) \in pos + 1 .. Len(querybuf) /\ querybuf[Len(querybuf)] = CR
          /\ \A j \in pos + 1 .. Len(querybuf) - 1 : querybuf[j] # CR
      BY <2>2 DEF FirstCR
    <3>2. Len(querybuf') \in 1 .. Len(querybuf') /\ Len(querybuf') \in 1 .. Len(querybuf) - pos
          /\ pos + Len(querybuf') = Len(querybuf)
      BY <3>1, <1>6, <2>0
    <3>3. querybuf'[Len(querybuf')] = CR
      BY <3>1, <3>2, <1>6
    <3>4. ASSUME NEW j, j \in 1 .. Len(querybuf') - 1 PROVE querybuf'[j] # CR
      <4>1. pos + j \in pos + 1 .. Len(querybuf) - 1 /\ j \in 1 .. Len(querybuf) - pos
        BY <3>4, <1>6, <2>0
      <4>2. QED
        BY <4>1, <3>1, <1>6
    <3>5. pos' + 1 = 1
      BY <1>1
    <3>6. QED
      BY <3>2, <3>3, <3>4, <3>5 DEF FirstCR
  <2>3. Leaves(type)
    BY <1>10
  <2>4. QED
    BY <2>1, <2>2, <2>3 DEF Leaves, Leftover
<1>11. Bounded'
  BY <1>1, <1>2, <1>10 DEF Bounded
<1>12. QED
  BY <1>3, <1>7, <1>8, <1>9, <1>11 DEF PInv

\* The parser runs on open connections only.
LEMMA Running ==
  ASSUME PInv, pc # "read"
  PROVE  c.open /\ (pc # "args" => pos = 0)
BY DEF PInv, Closed, Buffers, IsClient

\* Where a header is expected, its line end is in what the last read brought, or
\* the buffer is short.
LEMMA HeaderBounds ==
  ASSUME PInv, pc # "read", ~ c.closing, ~ ArgumentNext,
         NEW cr, cr = Find(querybuf, pos, CR)
  PROVE  /\ cr = 0 \/ cr = Len(querybuf) => Rest <= InlineMax + ReadLen
         /\ cr # 0 /\ cr # Len(querybuf) =>
              /\ cr + 1 \in 0 .. Len(querybuf) /\ pos < cr
              /\ Len(querybuf) - (cr + 1) <= InlineMax + ReadLen
         /\ cr # 0 /\ cr = Len(querybuf) => FirstCR(cr)
<1>1. Len(querybuf) \in Nat /\ pos \in Nat /\ pos <= Len(querybuf) /\ querybuf \in Seq(Int)
  BY Numbers
<1>2. /\ cr \in {0} \cup (pos + 1 .. Len(querybuf))
      /\ cr = 0 => \A i \in pos + 1 .. Len(querybuf) : querybuf[i] # CR
      /\ cr # 0 => querybuf[cr] = CR /\ \A i \in pos + 1 .. cr - 1 : querybuf[i] # CR
  BY <1>1, FindIs
<1>3. cr # 0 => FirstCR(cr)
  BY <1>2 DEF FirstCR
<1>4. cr # 0 => cr \in Int /\ cr > pos /\ cr <= Len(querybuf)
  BY <1>1, <1>2
<1>5. CASE Rest <= InlineMax + ReadLen
  BY <1>1, <1>3, <1>4, <1>5, Limits DEF Rest
<1>6. CASE LineEndCame
  <2>1. PICK i \in pos + 1 .. Len(querybuf) - 1 : FirstCR(i) /\ Len(querybuf) - i <= ReadLen
    BY <1>6 DEF LineEndCame
  <2>2. /\ i \in pos + 1 .. Len(querybuf) /\ querybuf[i] = CR
        /\ \A j \in pos + 1 .. i - 1 : querybuf[j] # CR
    BY <2>1 DEF FirstCR
  <2>3. i \in Int /\ i > pos /\ i <= Len(querybuf) - 1 /\ Len(querybuf) - i <= ReadLen
    BY <2>1, <1>1
  <2>4. cr # 0
    BY <2>2, <1>2
  <2>5. ~ (i < cr)
    <3>1. i < cr => i \in pos + 1 .. cr - 1
      BY <2>3, <2>4, <1>1, <1>4
    <3>2. QED
      BY <3>1, <2>2, <2>4, <1>2
  <2>6. ~ (cr < i)
    <3>1. cr < i => cr \in pos + 1 .. i - 1
      BY <2>3, <2>4, <1>1, <1>4
    <3>2. QED
      BY <3>1, <2>2, <2>4, <1>2
  <2>7. cr = i
    BY <2>3, <2>4, <2>5, <2>6, <1>4
  <2>8. QED
    BY <2>3, <2>7, <1>1, <1>3, <1>4, Limits
<1>7. Workload
  BY Running DEF PInv, Bounded
<1>8. QED
  BY <1>5, <1>6, <1>7 DEF Workload

\* The rest behind the header is not too much.
LEMMA HeaderDone ==
  ASSUME PInv, pc # "read", ~ ArgumentNext, NEW cr, cr = Find(querybuf, pos, CR),
         cr # 0, cr # Len(querybuf)
  PROVE  /\ cr \in Int /\ cr + 1 \in 0 .. Len(querybuf)
         /\ ~ c.closing => Len(querybuf) - (cr + 1) <= InlineMax + ReadLen
<1>1. Len(querybuf) \in Nat /\ pos \in 0 .. Len(querybuf) /\ querybuf \in Seq(Int)
  BY Numbers
<1>2. cr \in {0} \cup (pos + 1 .. Len(querybuf))
  BY <1>1, FindIs
<1>3. cr \in Int /\ cr + 1 \in 0 .. Len(querybuf)
  BY <1>1, <1>2
<1>4. QED
  BY <1>3, HeaderBounds

\* A header that is not complete may be left.
LEMMA HeaderLeft ==
  ASSUME PInv, pc # "read", ~ ArgumentNext, NEW cr, cr = Find(querybuf, pos, CR),
         \/ cr = 0 /\ Len(querybuf) <= InlineMax
         \/ cr # 0 /\ cr = Len(querybuf)
  PROVE  ~ c.closing => Leaves("multibulk")
<1>1. SUFFICES ASSUME ~ c.closing PROVE Leaves("multibulk")
  OBVIOUS
<1>2. Len(querybuf) \in Nat /\ pos \in Nat
  BY Numbers
<1>3. CASE cr = 0
  <2>1. Rest <= InlineMax
    BY <1>2, <1>3, Limits DEF Rest
  <2>2. QED
    BY <2>1 DEF Leaves
<1>4. CASE cr # 0
  <2>1. FirstCR(cr) /\ cr = Len(querybuf) /\ Rest <= InlineMax + ReadLen
    BY <1>1, <1>4, HeaderBounds
  <2>2. QED
    BY <2>1 DEF Leaves
<1>5. QED
  BY <1>3, <1>4

\* Nothing is left to parse.
LEMMA LoopEndKeeps ==
  ASSUME PInv, LoopEnd
  PROVE  PInv'
<1>1. /\ pc = "loop" /\ (querybuf = <<>> \/ c.closing) /\ pc' = "read"
      /\ script' = script /\ got' = got /\ querybuf' = querybuf /\ pos' = pos /\ c' = c
  BY DEF LoopEnd
<1>2. Stream' = Stream
  BY <1>1 DEF Stream
<1>3. IsClient' /\ Buffers' /\ Untouched'
  BY <1>1, <1>2 DEF PInv, IsClient, Buffers, Untouched
<1>4. Closed'
  BY <1>1, <1>2 DEF PInv, Closed
<1>5. Bounded'
  <2>1. CASE c.closing
    BY <1>1, <2>1 DEF Bounded
  <2>2. CASE querybuf = <<>>
    <3>1. Rest' = 0
      BY <1>1, <2>2, Numbers DEF Rest
    <3>2. ArgumentNext' => c'.bulklen \in Int /\ c'.bulklen >= 0
      BY <1>1, Numbers DEF ArgumentNext
    <3>3. Leftover'
      BY <3>1, <3>2, Limits DEF Leftover
    <3>4. QED
      BY <1>1, <3>3 DEF Bounded
  <2>3. QED
    BY <1>1, <2>1, <2>2
<1>6. QED
  BY <1>3, <1>4, <1>5 DEF PInv

\* An inline request.
LEMMA InlineKeeps ==
  ASSUME PInv, processInlineBuffer
  PROVE  PInv'
<1> DEFINE newline == Find(querybuf, 0, LF)
           line == SubSeq(querybuf, 1, LineLen(newline))
<1>1. pc = "loop" /\ c.reqtype # "multibulk" /\ ~ c.closing
  BY DEF processInlineBuffer, InLoop
<1>2. c.open /\ pos = 0 /\ c.multibulklen = 0
  BY <1>1, Running, Numbers DEF PInv, IsClient
<1>3. ~ ArgumentNext /\ Rest = Len(querybuf)
  BY <1>2, Numbers DEF ArgumentNext, Rest
<1>4. Rest <= InlineMax + ReadLen
  BY <1>1, <1>2, <1>3 DEF PInv, Bounded, Workload, LineEndCame
<1>5. CASE ProtocolError(0)
  BY <1>2, <1>5, ErrorKeeps, Numbers
<1>6. CASE newline = 0 /\ Len(querybuf) <= InlineMax /\ Wait("inline")
  <2>1. Leaves("inline")
    BY <1>3, <1>6 DEF Leaves
  <2>2. Wait("inline") /\ "inline" \in {"inline", "multibulk"} /\ ~ (c.multibulklen > 0)
    BY <1>2, <1>6
  <2>3. QED
    BY <1>1, <1>2, <2>1, <2>2, WaitKeeps
<1>7. CASE /\ newline # 0
           /\ querybuf' = Drop(querybuf, LineLen(newline) + 2)
           /\ c' = [c EXCEPT !.reqtype = "inline", !.argv = Words(line)]
           /\ pc' = "exec"
           /\ UNCHANGED <<script, got, pos, served>>
  <2>1. querybuf \in Seq(Int) /\ 0 \in 0 .. Len(querybuf) /\ Len(querybuf) \in Nat
    BY Numbers
  <2>2. newline \in Int /\ newline >= 1
    BY <2>1, <1>7, FindIs
  <2> HIDE DEF newline
  <2>3. LineLen(newline) + 2 \in Nat
    BY <2>2 DEF LineLen
  <2>4. querybuf' \in Seq(Int) /\ Len(querybuf') \in Nat /\ Len(querybuf') <= Len(querybuf)
    BY <2>1, <2>3, <1>7, DropAny
  <2>5. script' = script /\ got' = got /\ pos' = 0 /\ pc' = "exec" /\ Stream' = Stream
    BY <1>2, <1>7 DEF Stream
  <2> DEFINE words == Words(line)
  <2>6. c' = [c EXCEPT !.reqtype = "inline", !.argv = words]
    BY <1>7
  <2> HIDE DEF words, line
  <2>7. IsClient' /\ c'.multibulklen = 0 /\ c'.open = c.open
    <3>1. IsClient
      BY DEF PInv
    <3>2. c'.multibulklen = 0 /\ c'.open = c.open
      BY <1>2, <2>6, <3>1 DEF IsClient
    <3>3. c'.reqtype = "inline" /\ ~ (c'.multibulklen > 0)
      BY <3>2, <2>6, <3>1 DEF IsClient
    <3>4. IsClient'
      BY <2>6, <3>1, <3>3 DEF IsClient
    <3>5. QED
      BY <3>2, <3>4
  <2>8. Buffers'
    BY <2>4, <2>5, <2>7 DEF PInv, Buffers
  <2>9. Untouched' /\ Closed'
    BY <1>2, <2>5, <2>7 DEF Untouched, Closed
  <2>10. Rest' <= InlineMax + ReadLen
    <3>1. Rest' = Len(querybuf')
      BY <2>4, <2>5 DEF Rest
    <3>2. QED
      BY <3>1, <2>1, <2>4, <1>3, <1>4, Limits
  <2>11. Bounded'
    BY <2>5, <2>10 DEF Bounded, Workload
  <2>12. QED
    BY <2>7, <2>8, <2>9, <2>11 DEF PInv
<1>8. QED
  BY <1>5, <1>6, <1>7 DEF processInlineBuffer

\* A multibulk request that has not been looked at begins with a star.
LEMMA StarAhead ==
  ASSUME PInv, InLoop("multibulk"), c.multibulklen = 0
  PROVE  querybuf # <<>> /\ querybuf[1] = Star
<1>1. CASE c.reqtype = "none"
  BY <1>1 DEF InLoop
<1>2. CASE c.reqtype # "none"
  BY <1>2 DEF InLoop, PInv, Untouched
<1>3. QED
  BY <1>1, <1>2

\* The number of arguments.
LEMMA HeaderKeeps ==
  ASSUME PInv, MultibulkHeader
  PROVE  PInv'
<1> DEFINE cr == Find(querybuf, 0, CR)
           number == SubSeq(querybuf, 2, cr - 1)
<1>1. /\ InLoop("multibulk") /\ c.multibulklen = 0
      /\ pc = "loop" /\ ~ c.closing
  BY DEF MultibulkHeader, InLoop
<1>2. c.open /\ pos = 0 /\ cr = Find(querybuf, pos, CR)
  BY <1>1, Running
<1>3. ~ ArgumentNext /\ ~ (c.multibulklen > 0) /\ querybuf \in Seq(Int) /\ Len(querybuf) \in Nat
  BY <1>1, Numbers DEF ArgumentNext
<1>4. CASE ProtocolError(0)
  BY <1>2, <1>4, ErrorKeeps, <1>3
<1>5. CASE /\ \/ cr = 0 /\ Len(querybuf) <= InlineMax
              \/ cr # 0 /\ cr = Len(querybuf)
           /\ Wait("multibulk")
  <2>1. Leaves("multibulk")
    <3> HIDE DEF cr
    <3>1. QED
      BY <1>1, <1>2, <1>3, <1>5, HeaderLeft
  <2>2. Wait("multibulk") /\ "multibulk" \in {"inline", "multibulk"}
    BY <1>5
  <2>3. querybuf # <<>> /\ querybuf[1] = Star
    BY <1>1, StarAhead
  <2>4. QED
    BY <1>1, <1>2, <2>1, <2>2, <2>3, WaitKeeps
<1>6. CASE /\ cr # 0 /\ cr # Len(querybuf) /\ IsNumber(number, -1, MaxArgs)
           /\ c' = [c EXCEPT !.reqtype = "multibulk",
                             !.multibulklen = IF number[1] > 0 THEN number[1] ELSE 0]
           /\ IF number[1] > 0
              THEN pos' = cr + 1 /\ pc' = "args" /\ UNCHANGED querybuf
              ELSE pc' = "exec" /\ querybuf' = EmptyRequest(cr) /\ UNCHANGED pos
           /\ UNCHANGED <<script, got, served>>
  <2> DEFINE n == number[1]
             count == IF n > 0 THEN n ELSE 0
  <2>1. n \in -1 .. MaxArgs
    BY <1>6 DEF IsNumber
  <2>2. cr \in Int /\ cr + 1 \in 0 .. Len(querybuf) /\ Len(querybuf) - (cr + 1) <= InlineMax + ReadLen
    <3> HIDE DEF cr
    <3>1. QED
      BY <1>1, <1>2, <1>3, <1>6, HeaderDone
  <2>3. /\ c' = [c EXCEPT !.reqtype = "multibulk", !.multibulklen = count]
        /\ script' = script /\ got' = got /\ Stream' = Stream
        /\ n > 0 => pos' = cr + 1 /\ pc' = "args" /\ querybuf' = querybuf
        /\ ~ (n > 0) => pc' = "exec" /\ querybuf' = Drop(querybuf, cr + 1) /\ pos' = 0
    BY <1>2, <1>6 DEF Stream, EmptyRequest
  <2> HIDE DEF cr, number, n
  <2>4. count \in 0 .. MaxArgs /\ (n > 0 <=> count > 0) /\ (~ (n > 0) => count = 0)
    BY <2>1, Limits
  <2> HIDE DEF count
  <2>5. c'.multibulklen = count /\ c'.open = c.open /\ c'.reqtype = "multibulk"
    BY <2>3 DEF PInv, IsClient
  <2>6. IsClient'
    <3>1. IsClient
      BY DEF PInv
    <3>2. QED
      BY <2>3, <2>4, <3>1 DEF IsClient
  <2>7. ~ (n > 0) => querybuf' \in Seq(Int) /\ Len(querybuf') = Len(querybuf) - (cr + 1)
    BY <1>3, <2>2, <2>3, DropIs
  <2>8. Buffers'
    <3>1. CASE n > 0
      BY <2>2, <2>3, <3>1 DEF PInv, Buffers
    <3>2. CASE ~ (n > 0)
      BY <2>3, <2>4, <2>5, <2>7, <3>2 DEF PInv, Buffers
    <3>3. QED
      BY <3>1, <3>2
  <2>9. Untouched' /\ Closed'
    BY <1>2, <2>3, <2>5 DEF Untouched, Closed
  <2>10. Rest' = Len(querybuf) - (cr + 1)
    BY <1>3, <2>2, <2>3, <2>7 DEF Rest
  <2>11. Bounded'
    BY <2>2, <2>3, <2>10 DEF Bounded, Workload
  <2>12. QED
    BY <2>6, <2>8, <2>9, <2>11 DEF PInv
<1>7. QED
  BY <1>4, <1>5, <1>6 DEF MultibulkHeader

\* The parser goes on with a request whose number of arguments is known.
LEMMA ResumedKeeps ==
  ASSUME PInv, MultibulkResumed
  PROVE  PInv'
<1>1. /\ pc = "loop" /\ c.multibulklen > 0 /\ pc' = "args"
      /\ script' = script /\ got' = got /\ querybuf' = querybuf /\ pos' = pos /\ c' = c
  BY DEF MultibulkResumed, InLoop
<1>2. Stream' = Stream
  BY <1>1 DEF Stream
<1>3. IsClient' /\ Buffers' /\ Untouched'
  BY <1>1, <1>2 DEF PInv, IsClient, Buffers, Untouched
<1>4. Closed'
  BY <1>1, Running DEF Closed
<1>5. ASSUME c.open, ~ c.closing PROVE Workload'
  <2>1. Workload
    BY <1>1, <1>5 DEF PInv, Bounded
  <2>2. Rest' = Rest /\ ArgumentNext' = ArgumentNext
    BY <1>1 DEF Rest, ArgumentNext
  <2>3. LineEndCame => LineEndCame'
    BY <1>1, <2>2 DEF LineEndCame, FirstCR
  <2>4. QED
    BY <1>1, <2>1, <2>2, <2>3 DEF Workload
<1>6. Bounded'
  BY <1>1, <1>5 DEF Bounded
<1>7. QED
  BY <1>3, <1>4, <1>6 DEF PInv

\* The header of an argument.
LEMMA BulkHeaderKeeps ==
  ASSUME PInv, BulkHeader
  PROVE  PInv'
<1> DEFINE cr == Find(querybuf, pos, CR)
           number == SubSeq(querybuf, pos + 2, cr - 1)
<1>1. pc = "args" /\ c.multibulklen > 0 /\ c.bulklen = -1
  BY DEF BulkHeader
<1>2. c.open
  BY <1>1, Running
<1>3. /\ ~ ArgumentNext /\ querybuf \in Seq(Int) /\ Len(querybuf) \in Nat
      /\ pos \in 0 .. Len(querybuf) /\ c.multibulklen # 0
  BY <1>1, Numbers DEF ArgumentNext
<1>4. CASE ProtocolError(0) \/ ProtocolError(pos)
  BY <1>2, <1>4, ErrorKeeps, <1>3
<1>5. CASE /\ \/ cr = 0 /\ Len(querybuf) <= InlineMax
              \/ cr # 0 /\ cr = Len(querybuf)
           /\ Wait("multibulk")
  <2>1. ~ c.closing => Leaves("multibulk")
    <3> HIDE DEF cr
    <3>0. cr = Find(querybuf, pos, CR)
      BY DEF cr
    <3>1. QED
      BY <1>1, <1>3, <1>5, <3>0, HeaderLeft
  <2>2. Wait("multibulk") /\ "multibulk" \in {"inline", "multibulk"}
    BY <1>5
  <2>3. QED
    BY <1>2, <1>3, <2>1, <2>2, WaitKeeps
<1>6. CASE /\ cr # 0 /\ cr # Len(querybuf) /\ IsNumber(number, 0, MaxBulk)
           /\ c' = [c EXCEPT !.bulklen = number[1]]
           /\ IF number[1] >= BigArg
              THEN querybuf' = Drop(querybuf, cr + 1) /\ pos' = 0
              ELSE pos' = cr + 1 /\ UNCHANGED querybuf
           /\ UNCHANGED <<script, got, pc, served>>
  <2> DEFINE n == number[1]
  <2>1. n \in 0 .. MaxBulk
    BY <1>6 DEF IsNumber
  <2>2. /\ cr \in Int /\ cr + 1 \in 0 .. Len(querybuf)
        /\ ~ c.closing => Len(querybuf) - (cr + 1) <= InlineMax + ReadLen
    <3> HIDE DEF cr
    <3>0. cr = Find(querybuf, pos, CR)
      BY DEF cr
    <3>1. QED
      BY <1>1, <1>3, <1>6, <3>0, HeaderDone
  <2>3. /\ c' = [c EXCEPT !.bulklen = n]
        /\ script' = script /\ got' = got /\ Stream' = Stream /\ pc' = "args"
        /\ n >= BigArg => querybuf' = Drop(querybuf, cr + 1) /\ pos' = 0
        /\ ~ (n >= BigArg) => pos' = cr + 1 /\ querybuf' = querybuf
    BY <1>1, <1>6 DEF Stream
  <2> HIDE DEF cr, number, n
  <2>4. /\ c'.multibulklen = c.multibulklen /\ c'.open = c.open /\ c'.closing = c.closing
    BY <2>3 DEF PInv, IsClient
  <2>5. IsClient'
    <3>1. IsClient
      BY DEF PInv
    <3>2. n \in -1 .. MaxBulk
      BY <2>1, Limits
    <3>3. QED
      BY <2>3, <3>1, <3>2 DEF IsClient
  <2>6. n >= BigArg => querybuf' \in Seq(Int) /\ Len(querybuf') = Len(querybuf) - (cr + 1)
    BY <1>3, <2>2, <2>3, DropIs
  <2>7. Buffers'
    <3>1. CASE n >= BigArg
      BY <2>3, <2>6, <3>1, <1>3, <2>2 DEF PInv, Buffers
    <3>2. CASE ~ (n >= BigArg)
      BY <2>2, <2>3, <3>2 DEF PInv, Buffers
    <3>3. QED
      BY <3>1, <3>2
  <2>8. Untouched' /\ Closed'
    BY <1>2, <2>3, <2>4 DEF Untouched, Closed
  <2>9. Rest' = Len(querybuf) - (cr + 1)
    BY <1>3, <2>2, <2>3, <2>6 DEF Rest
  <2>10. Bounded'
    BY <2>2, <2>3, <2>4, <2>9 DEF Bounded, Workload
  <2>11. QED
    BY <2>5, <2>7, <2>8, <2>10 DEF PInv
<1>7. QED
  BY <1>4, <1>5, <1>6 DEF BulkHeader

\* An argument.
LEMMA BulkArgumentKeeps ==
  ASSUME PInv, BulkArgument
  PROVE  PInv'
<1>1. pc = "args" /\ c.multibulklen > 0 /\ c.bulklen # -1
  BY DEF BulkArgument
<1>2. c.open
  BY <1>1, Running
<1>3. /\ ArgumentNext /\ querybuf \in Seq(Int) /\ Len(querybuf) \in Nat
      /\ pos \in Nat /\ pos <= Len(querybuf) /\ c.multibulklen # 0
      /\ c.bulklen \in Nat /\ c.multibulklen \in 1 .. MaxArgs
  BY <1>1, Numbers, Limits DEF ArgumentNext
<1>4. CASE ~ Enough /\ Wait("multibulk")
  <2>1. Leaves("multibulk")
    BY <1>3, <1>4 DEF Enough, Leaves, Rest
  <2>2. Wait("multibulk") /\ "multibulk" \in {"inline", "multibulk"}
    BY <1>4
  <2>3. QED
    BY <1>2, <1>3, <2>1, <2>2, WaitKeeps
<1>5. CASE /\ Enough
           /\ c' = [c EXCEPT !.argv = Append(@, SubSeq(querybuf, pos + 1, pos + c.bulklen)),
                             !.bulklen = -1, !.multibulklen = @ - 1]
           /\ IF pos = 0 /\ c.bulklen >= BigArg /\ Len(querybuf) = c.bulklen + 2
              THEN querybuf' = <<>> /\ UNCHANGED pos
              ELSE pos' = pos + c.bulklen + 2 /\ UNCHANGED querybuf
           /\ UNCHANGED <<script, got, pc, served>>
  <2> DEFINE args == Append(c.argv, SubSeq(querybuf, pos + 1, pos + c.bulklen))
             left == c.multibulklen - 1
             whole == pos = 0 /\ c.bulklen >= BigArg /\ Len(querybuf) = c.bulklen + 2
  <2>1. /\ c' = [c EXCEPT !.argv = args, !.bulklen = -1, !.multibulklen = left]
        /\ script' = script /\ got' = got /\ Stream' = Stream /\ pc' = "args"
        /\ whole => querybuf' = <<>> /\ pos' = pos
        /\ ~ whole => pos' = pos + c.bulklen + 2 /\ querybuf' = querybuf
    BY <1>1, <1>5 DEF Stream
  <2> HIDE DEF args
  <2>2. left \in 0 .. MaxArgs
    BY <1>3, Limits
  <2> HIDE DEF left
  <2>3. IsClient' /\ c'.open = c.open /\ c'.closing = c.closing
    <3>1. IsClient
      BY DEF PInv
    <3>2. c.reqtype = "multibulk"
      BY <1>1, <3>1 DEF IsClient
    <3>3. -1 \in -1 .. MaxBulk
      BY Limits
    <3>4. QED
      BY <2>1, <2>2, <3>1, <3>2, <3>3 DEF IsClient
  <2>4. pos + c.bulklen + 2 <= Len(querybuf)
    BY <1>3, <1>5 DEF Enough
  <2>5. Len(querybuf') - pos' = Len(querybuf) - (pos + c.bulklen + 2)
    <3>1. CASE whole
      BY <2>1, <3>1, <1>3
    <3>2. CASE ~ whole
      BY <2>1, <3>2, <1>3
    <3>3. QED
      BY <3>1, <3>2
  <2>6. querybuf' \in Seq(Int) /\ pos' \in 0 .. Len(querybuf')
    <3>1. CASE whole
      <4>1. querybuf' = <<>> /\ pos' = 0
        BY <2>1, <3>1
      <4>2. Len(querybuf') = 0 /\ querybuf' \in Seq(Int)
        BY <4>1
      <4>3. QED
        BY <4>1, <4>2
    <3>2. CASE ~ whole
      <4>1. pos + c.bulklen + 2 \in 0 .. Len(querybuf)
        BY <2>4, <1>3
      <4>2. QED
        BY <2>1, <3>2, <1>3, <4>1
    <3>3. QED
      BY <3>1, <3>2
  <2> HIDE DEF whole
  <2>7. Buffers'
    BY <2>1, <2>6 DEF PInv, Buffers
  <2>8. Untouched' /\ Closed'
    BY <1>2, <2>1, <2>3 DEF Untouched, Closed
  <2>9. ASSUME ~ c.closing PROVE Rest' <= InlineMax + ReadLen
    <3>1. Rest <= InlineMax + ReadLen \/ Rest <= c.bulklen + 2
      BY <1>1, <1>2, <1>3, <2>9 DEF PInv, Bounded, Workload, LineEndCame
    <3>2. Rest' = Rest - (c.bulklen + 2)
      BY <1>3, <2>5 DEF Rest
    <3>3. Rest \in Int
      BY <1>3 DEF Rest
    <3>4. QED
      BY <3>1, <3>2, <3>3, <1>3, Limits
  <2>10. Bounded'
    BY <2>1, <2>3, <2>9 DEF Bounded, Workload
  <2>11. QED
    BY <2>3, <2>7, <2>8, <2>10 DEF PInv
<1>6. QED
  BY <1>4, <1>5 DEF BulkArgument

\* The last argument has been read: what was consumed leaves the buffer.
LEMMA MultibulkEndKeeps ==
  ASSUME PInv, MultibulkEnd
  PROVE  PInv'
<1>1. /\ pc = "args" /\ c.multibulklen = 0 /\ querybuf' = Drop(querybuf, pos)
      /\ pos' = 0 /\ pc' = "exec" /\ script' = script /\ got' = got /\ c' = c
  BY DEF MultibulkEnd
<1>2. Stream' = Stream
  BY <1>1 DEF Stream
<1>3. /\ querybuf \in Seq(Int) /\ pos \in 0 .. Len(querybuf) /\ Len(querybuf) \in Nat
      /\ querybuf' \in Seq(Int) /\ Len(querybuf') = Len(querybuf) - pos
  BY <1>1, Numbers, DropIs
<1>4. IsClient' /\ Buffers' /\ Untouched' /\ Closed'
  BY <1>1, <1>2, <1>3, Running DEF PInv, IsClient, Buffers, Untouched, Closed
<1>5. ASSUME c.open, ~ c.closing PROVE Rest' <= InlineMax + ReadLen
  <2>1. Rest' = Rest
    BY <1>1, <1>3 DEF Rest
  <2>2. ~ ArgumentNext /\ ~ LineEndCame
    BY <1>1 DEF ArgumentNext, LineEndCame
  <2>3. Workload
    BY <1>1, <1>5 DEF PInv, Bounded
  <2>4. QED
    BY <2>1, <2>2, <2>3 DEF Workload
<1>6. Bounded'
  BY <1>1, <1>5 DEF Bounded, Workload
<1>7. QED
  BY <1>4, <1>6 DEF PInv

\* A command.
LEMMA CommandKeeps ==
  ASSUME PInv, processCommand
  PROVE  PInv'
<1>1. /\ pc = "exec" /\ pc' = "loop" /\ (c' = resetClient \/ c' = AfterQuit)
      /\ script' = script /\ got' = got /\ querybuf' = querybuf /\ pos' = pos
  BY DEF processCommand
<1>2. c.open /\ pos = 0 /\ c.multibulklen = 0 /\ Stream' = Stream /\ c.closing \in BOOLEAN
  BY <1>1, Running DEF PInv, Buffers, Stream, IsClient
<1>3. CASE c' = resetClient
  <2>1. /\ c' = [reqtype |-> "none", multibulklen |-> 0, bulklen |-> -1, argv |-> <<>>,
                 closing |-> c.closing, open |-> c.open]
    BY <1>3 DEF resetClient, NoRequest
  <2>2. IsClient'
    BY <2>1, <1>2, Limits DEF IsClient
  <2>3. Buffers' /\ Untouched' /\ Closed'
    BY <2>1, <1>1, <1>2 DEF PInv, Buffers, Untouched, Closed
  <2>4. ASSUME ~ c.closing PROVE Rest' <= InlineMax + ReadLen
    <3>1. Workload /\ ~ ArgumentNext /\ ~ LineEndCame /\ Rest' = Rest
      BY <1>1, <1>2, <2>4 DEF PInv, Bounded, ArgumentNext, LineEndCame, Rest
    <3>2. QED
      BY <3>1 DEF Workload
  <2>5. Bounded'
    BY <1>1, <2>1, <2>4 DEF Bounded, Workload
  <2>6. QED
    BY <2>2, <2>3, <2>5 DEF PInv
<1>4. CASE c' = AfterQuit
  <2>1. c' = [c EXCEPT !.closing = TRUE]
    BY <1>4 DEF AfterQuit
  <2>2. IsClient' /\ c'.closing = TRUE /\ c'.open = c.open
    BY <2>1 DEF PInv, IsClient
  <2>3. Buffers' /\ Untouched' /\ Closed' /\ Bounded'
    BY <2>2, <1>1, <1>2 DEF PInv, Buffers, Untouched, Closed, Bounded
  <2>4. QED
    BY <2>2, <2>3 DEF PInv
<1>5. QED
  BY <1>1, <1>3, <1>4
-----------------------------------------------------------------------------
(* The theorems.                                                           *)

\* PInv holds of any scripts and any way of splitting their bytes into reads
\* (readQueryFromClient, processInputBuffer and what they call).
THEOREM Invariance == Spec => []PInv
<1>1. Init => PInv
  BY Starts
<1>2. PInv /\ [Next]_vars => PInv'
  <2> SUFFICES ASSUME PInv, [Next]_vars PROVE PInv'
    OBVIOUS
  <2>1. CASE Next
    <3>1. CASE readQueryFromClient \/ EndOfFile
      BY <3>1, ReadKeeps, EndKeeps
    <3>2. CASE Handler
      BY <3>2, LoopEndKeeps, InlineKeeps, HeaderKeeps, ResumedKeeps, BulkHeaderKeeps,
         BulkArgumentKeeps, MultibulkEndKeeps, CommandKeeps DEF Handler
    <3>3. QED
      BY <2>1, <3>1, <3>2 DEF Next
  <2>2. CASE UNCHANGED vars
    BY <2>2 DEF vars, PInv, IsClient, Buffers, Untouched, Closed, Bounded, Leftover, Workload,
       LineEndCame, FirstCR, ArgumentNext, Rest, Stream
  <2>3. QED
    BY <2>1, <2>2
<1>3. QED
  BY <1>1, <1>2, PTL DEF Spec

\* TypeOK, with the assertions of processMultibulkBuffer: no argument is there
\* before the number of arguments is known, and a multibulk request begins with
\* a star.
THEOREM TypeCorrect == Spec => []TypeOK
<1>1. PInv => TypeOK
  <2> SUFFICES ASSUME PInv PROVE TypeOK
    OBVIOUS
  <2>1. InLoop("multibulk") /\ c.multibulklen = 0 => querybuf[1] = Star
    BY StarAhead
  <2>2. pc = "loop" /\ c.multibulklen = 0 /\ ~ c.closing => c.argv = <<>>
    BY DEF PInv, Untouched
  <2>3. QED
    BY <2>1, <2>2 DEF TypeOK, PInv, IsClient, Buffers
<1>2. QED
  BY Invariance, <1>1, PTL

\* No connection is given up before its end unless it is closing anyway: the
\* query buffer never exceeds its limit and no read of length zero is made
\* (readQueryFromClient), whatever the client sends.
THEOREM KeptOpenAlways == Spec => []KeptOpen
<1>1. PInv => KeptOpen
  BY DEF PInv, Closed, KeptOpen
<1>2. QED
  BY Invariance, <1>1, PTL
=============================================================================
