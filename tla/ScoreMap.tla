------------------------------ MODULE ScoreMap ------------------------------
(***************************************************************************)
(* What a sorted set promises: a score for every member, and an order, by  *)
(* score first and then by name.                                           *)
(***************************************************************************)
EXTENDS Integers, Sequences, FiniteSets, SequencesExt

CONSTANTS
  Members,   \* integers in the order of the names
  Additions, \* the arguments of ZADD: sequences of [ele, score]
  Removals   \* the arguments of ZREM: sequences of members

None == -1   \* the score of what is not a member; scores are naturals

VARIABLES
  score,     \* the score of every member
  call,      \* the last command, with its arguments
  reply      \* its reply

Scored(f, pair) == [f EXCEPT ![pair.ele] = pair.score]
Unscored(f, m) == [f EXCEPT ![m] = None]

Ranked(f) == {m \in Members : f[m] # None}

\* All arguments in their order; the reply is the number of new members.
ZAdd(pairs) ==
  /\ score' = FoldLeft(Scored, score, pairs)
  /\ reply' = Cardinality({p.ele : p \in ToSet(pairs)} \ Ranked(score))

ZRem(members) ==
  /\ score' = FoldLeft(Unscored, score, members)
  /\ reply' = Cardinality(ToSet(members) \cap Ranked(score))

Next ==
  \/ \E pairs \in Additions : call' = <<"zadd", pairs>> /\ ZAdd(pairs)
  \/ \E members \in Removals : call' = <<"zrem", members>> /\ ZRem(members)
-----------------------------------------------------------------------------
(* What the commands that only read answer, given the scores f.            *)

InOrder(f) ==
  LET Before(a, b) == f[a] < f[b] \/ (f[a] = f[b] /\ a < b)
  IN  SetToSortSeq(Ranked(f), Before)

\* ZRANK counts from 0.
Rank(f, m) == Cardinality({e \in Ranked(f) : f[e] < f[m] \/ (f[e] = f[m] /\ e < m)})

Within(f, m, range) ==
  /\ f[m] # None
  /\ range.min <= f[m] /\ (range.minex => f[m] # range.min)
  /\ f[m] <= range.max /\ (range.maxex => f[m] # range.max)

CountInRange(f, range) == Cardinality({m \in Members : Within(f, m, range)})

\* Indices count from 0, negative ones from the end: -1 is the last.
Slice(seq, start, end) ==
  LET at(i) == 1 + IF i < 0 THEN Len(seq) + i ELSE i
  IN  SubSeq(seq, Max({1, at(start)}), Min({Len(seq), at(end)}))
=============================================================================
