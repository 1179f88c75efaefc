------------------------------ MODULE DictScan ------------------------------
(***************************************************************************)
(* The stateless iteration of SCAN: dictScan of dict.c, called in a loop   *)
(* by scanGenericCommand (db.c) until it has collected Count keys, with    *)
(* the cursor handed back by the client in its next command.  Between two  *)
(* commands other clients add and delete keys and the timer rehashes.      *)
(***************************************************************************)
EXTENDS Dict

CONSTANTS
  CursorBits,  \* bits of unsigned long: more than any sizemask has
  Count        \* COUNT of the SCAN command (10 if it is not given)

ASSUME CursorAssumption ==
  /\ CursorBits \in Nat /\ \A s \in Sizes : s < 2 ^ CursorBits
  /\ Count \in Nat \ {0}

VARIABLE
  scan    \* phase and cursor; left is how many keys the command in progress still
          \* wants, 0 between two commands.  History of the iteration: the keys
          \* returned, the keys that have been stored all the time, and whether
          \* it has seen the dictionary move into a smaller table

scanVars == <<d, it, seen, owed, scan>>
-----------------------------------------------------------------------------
(* Cursor arithmetic, on CursorBits bits.  A mask is the size n of a table  *)
(* less 1, so v & mask is v % n, and v | ~mask is (v % n) + Word - n.       *)

Word == 2 ^ CursorBits
Cursors == 0 .. Word - 1

\* rev(): bit i goes to where bit CursorBits - 1 - i was.
rev == [v \in Cursors |->
  MapThenSumSet(LAMBDA i : ((v \div 2 ^ i) % 2) * 2 ^ (CursorBits - 1 - i),
                0 .. CursorBits - 1)]

\* Faulty: the bits above the mask are not set before the increment.
NextCursorUnmasked == [v \in Cursors, n \in Sizes |-> rev[(rev[v] + 1) % Word]]

\* Faulty: a plain increment, which never wraps to 0.
NextCursorPlain == [v \in Cursors, n \in Sizes |-> (v % n) + 1]

\* v |= ~m0; v = rev(v); v++; v = rev(v);
NextCursor == [v \in Cursors, n \in Sizes |->
  rev[(rev[(v % n) + Word - n] + 1) % Word]]

\* Faulty: only one bucket of the larger table.
ExpansionsOne(v, n0, n1) == {v % n1}

\* The buckets of the larger table that the do-while loop visits: each turn
\* adds n0, the lowest bit that the smaller mask lacks, until the bits that
\* only the larger mask has are zero again.
Expansions(v, n0, n1) == {b \in 0 .. n1 - 1 : (b % n0) = (v % n0) /\ b >= (v % n1)}

KeysIn(t, b) == {e.key : e \in t.table[b]}

\* dictScan: the keys it passes to the callback and the cursor it returns.
dictScan(h, v) ==
  LET shrinks == h.ht0.size > h.ht1.size
      t0 == IF shrinks THEN h.ht1 ELSE h.ht0
      t1 == IF shrinks THEN h.ht0 ELSE h.ht1
  IN  IF dictSize(h) = 0 THEN [keys |-> {}, cursor |-> 0]
      ELSE IF ~ dictIsRehashing(h)
      THEN [keys |-> KeysIn(h.ht0, v % h.ht0.size),
            cursor |-> NextCursor[v, h.ht0.size]]
      ELSE [keys |-> KeysIn(t0, v % t0.size) \cup
                       UNION {KeysIn(t1, b) : b \in Expansions(v, t0.size, t1.size)},
            cursor |-> NextCursor[v, t0.size]]
-----------------------------------------------------------------------------
ScanInit ==
  /\ Init
  /\ scan = [phase |-> "idle", cursor |-> 0, left |-> 0, emitted |-> {}, must |-> {},
             shrunk |-> FALSE]

Shrinking(h) == dictIsRehashing(h) /\ h.ht1.size < h.ht0.size

\* One turn of the loop of scanGenericCommand.  The first SCAN has cursor 0,
\* the others the cursor the last one answered; a command calls dictScan until
\* it has Count keys or the cursor is 0, which tells the client that the
\* iteration is over.  (The lookups SCAN makes while it filters its keys are
\* Fetch steps after the command.)
ScanStep ==
  LET first == scan.phase # "running"
      before == IF first THEN {} ELSE scan.emitted
      want == IF scan.left = 0 THEN Count ELSE scan.left
  IN  /\ \E r \in {dictScan(d, scan.cursor)} :
           scan' = [phase |-> IF r.cursor = 0 THEN "done" ELSE "running",
                    cursor |-> r.cursor,
                    left |-> IF r.cursor = 0 \/ Cardinality(r.keys) >= want THEN 0
                             ELSE want - Cardinality(r.keys),
                    emitted |-> before \cup r.keys,
                    must |-> IF first THEN StoredKeys(d) ELSE scan.must,
                    shrunk |-> Shrinking(d) \/ (~ first /\ scan.shrunk)]
      /\ UNCHANGED vars

\* What the other clients and the timer do between two SCAN commands.
Others ==
  /\ scan.left = 0
  /\ \/ \E k \in Keys, v \in Vals : Add(k, v)
     \/ \E k \in Keys : Fetch(k) \/ Delete(k)
     \/ Resize
     \/ RehashMilliseconds
  /\ scan' = IF scan.phase = "running"
             THEN [scan EXCEPT !.must = @ \cap StoredKeys(d'),
                               !.shrunk = @ \/ Shrinking(d')]
             ELSE scan

ScanNext == ScanStep \/ Others

\* A command runs to its end and the client sends the next one.
ScanSpec == ScanInit /\ [][ScanNext]_scanVars /\ WF_scanVars(ScanStep)
-----------------------------------------------------------------------------
(* Properties.                                                             *)

\* The cursor a client holds is a bucket of a table the dictionary had: no bit
\* of a larger table or of the walk over one survives in it.
ScanTypeOK ==
  /\ scan.phase \in {"idle", "running", "done"}
  /\ \E s \in Sizes : scan.cursor \in 0 .. s - 1
  /\ scan.left \in 0 .. Count
  /\ scan.emitted \subseteq Keys /\ scan.must \subseteq Keys
  /\ scan.phase = "running" <=> scan.cursor # 0
  /\ scan.shrunk \in BOOLEAN

\* The comment on dictScan: all the elements that are present in the dictionary
\* from the start to the end of the iteration are returned.
ScanMissesNothing == scan.phase = "done" => scan.must \subseteq scan.emitted

\* What does hold of it: an iteration during which the dictionary at most grows
\* misses nothing, wherever the rehashes begin and end.
ScanCompleteIfGrowing ==
  scan.phase = "done" /\ ~ scan.shrunk => scan.must \subseteq scan.emitted

\* An iteration ends, whatever other clients add while it goes on.
ScanEnds == scan.phase = "running" ~> scan.phase = "done"
=============================================================================
