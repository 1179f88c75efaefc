----------------------------- MODULE ReplyStream ----------------------------
(***************************************************************************)
(* What a connection promises its client: the replies to its commands, as  *)
(* they were when the commands ran, byte by byte and in order; after QUIT  *)
(* or an error of the protocol it is closed when the last of them has been *)
(* sent.  The database has one key with a string: what a waiting reply     *)
(* could share with the database.                                          *)
(***************************************************************************)
EXTENDS Integers, Sequences, SequencesExt

CONSTANTS
  Values,  \* the strings that commands store or find, sequences of naturals
  MaxLen,  \* the longest string a key may have
  MaxKeys  \* bound: the most names KEYS finds

VARIABLES
  value,   \* the string of the key, NoValue if there is none
  queue,   \* the bytes that wait to be sent
  out,     \* the bytes that the last step has sent
  state    \* "open", "closing", "closed" or "lost"

vars == <<value, queue, out, state>>

\* A line of the protocol is one byte, whatever it says; the line that says how
\* many elements follow tells.
Line == -1
Count(n) == -2 - n

NoValue == <<Line>>

Bulk(v) == <<Line>> \o v \o <<Line>>
ErrorLines == <<Line, Line, Line>>

Init ==
  /\ value = NoValue
  /\ queue = <<>> /\ out = <<>>
  /\ state = "open"

Says(bytes) ==
  /\ state = "open"
  /\ queue' = queue \o bytes
  /\ out' = <<>>

Get ==
  /\ Says(IF value = NoValue THEN <<Line>> ELSE Bulk(value))
  /\ UNCHANGED <<value, state>>

Set(v) == Says(<<Line>>) /\ value' = v /\ UNCHANGED state

AppendTo(v) ==
  /\ IF value # NoValue /\ Len(value) + Len(v) > MaxLen
     THEN Says(ErrorLines) /\ UNCHANGED value
     ELSE Says(<<Line>>) /\ value' = IF value = NoValue THEN v ELSE value \o v
  /\ UNCHANGED state

Del == Says(<<Line>>) /\ value' = NoValue /\ UNCHANGED state

\* A command that finds v elsewhere.
Find(v) == Says(Bulk(v)) /\ UNCHANGED <<value, state>>

Keys(items) ==
  /\ Says(<<Count(Len(items))>> \o FlattenSeq([i \in DOMAIN items |-> Bulk(items[i])]))
  /\ UNCHANGED <<value, state>>

Quit == Says(<<Line>>) /\ state' = "closing" /\ UNCHANGED value

ProtocolError == Says(ErrorLines) /\ state' = "closing" /\ UNCHANGED value

Send ==
  /\ state \in {"open", "closing"}
  /\ out' # <<>> /\ queue = out' \o queue'
  /\ UNCHANGED <<value, state>>

Close ==
  /\ state = "closing" /\ queue = <<>>
  /\ state' = "closed" /\ out' = <<>>
  /\ UNCHANGED <<value, queue>>

Lose ==
  /\ state \in {"open", "closing"}
  /\ state' = "lost" /\ queue' = <<>> /\ out' = <<>>
  /\ UNCHANGED value

Accept ==
  /\ state \in {"closed", "lost"}
  /\ state' = "open" /\ out' = <<>>
  /\ UNCHANGED <<value, queue>>

Pause == out' = <<>> /\ UNCHANGED <<value, queue, state>>

Next ==
  \/ Get \/ Del \/ Quit \/ ProtocolError \/ Send \/ Close \/ Lose \/ Accept \/ Pause
  \/ \E v \in Values : Set(v) \/ AppendTo(v) \/ Find(v)
  \/ \E n \in 0 .. MaxKeys : \E items \in [1 .. n -> Values] : Keys(items)

Spec == Init /\ [][Next]_vars
=============================================================================
