------------------------------ MODULE Protocol ------------------------------
(***************************************************************************)
(* How networking.c makes commands of the bytes a client sends.  A request *)
(* arrives in any number of reads; whatever cannot be parsed yet stays in  *)
(* the query buffer, and what is known of a request that is not complete   *)
(* stays in the client structure.  One action is one turn of a loop of     *)
(* processInputBuffer or processMultibulkBuffer.                           *)
(*                                                                         *)
(* Bytes are integers.  A number in a header is one byte, its value.  (A   *)
(* read that ends in the middle of a number finds no line end, just like   *)
(* one that ends behind it.)                                               *)
(***************************************************************************)
EXTENDS Integers, Sequences, SequencesExt, FiniteSets

CONSTANTS
  Scripts,     \* sequences of requests, see below, that clients send
  ReadLen,     \* REDIS_IOBUF_LEN
  BigArg,      \* REDIS_MBULK_BIG_ARG
  InlineMax,   \* REDIS_INLINE_MAX_SIZE
  QueryMax,    \* client_max_querybuf_len
  MaxArgs,     \* the largest number of arguments accepted
  MaxBulk      \* the largest argument accepted

\* The proportions of the constants in the code: a query buffer that holds as
\* much as it can of well-formed requests is not taken for a line without end,
\* nor does it exceed its limit; and a line without end is found out before it
\* does, even if a read ends in the middle of a line end.
ASSUME LimitsAssumption ==
  /\ {ReadLen, BigArg, InlineMax, QueryMax, MaxArgs, MaxBulk} \subseteq Nat
  /\ ReadLen > 0 /\ BigArg > 2 /\ MaxArgs > 0 /\ MaxBulk > BigArg
  /\ BigArg + ReadLen <= InlineMax
  /\ MaxBulk + 2 + ReadLen <= QueryMax
  /\ InlineMax + 2 * ReadLen <= QueryMax

\* A script is a sequence of requests, each with the bytes it is made of.
ASSUME ScriptsAssumption ==
  \A s \in Scripts : /\ Len(s) \in Nat /\ DOMAIN s = 1 .. Len(s)
                     /\ \A i \in DOMAIN s : s[i].wire \in Seq(Int)

VARIABLES
  script,   \* the requests of the client
  got,      \* how many bytes of theirs have been read
  querybuf, \* the query buffer
  pos,      \* processMultibulkBuffer: how much of it has been consumed
  c,        \* the client
  pc,       \* where the read handler is ("read": it has returned)
  served    \* history: the commands executed; <<>> for a protocol error

vars == <<script, got, querybuf, pos, c, pc, served>>

CR == -2
LF == -3
Star == -4
Dollar == -5
Space == -6
Quote == -7

\* string2ll, and the bounds on its result.
IsNumber(s, least, most) == Len(s) = 1 /\ s[1] \in least .. most

\* The bytes of s behind the first n; none if there are not so many.
Drop(s, n) == SubSeq(s, n + 1, Len(s))

\* strchr: the first b behind the first n bytes of s, 0 if there is none.
Find(s, n, b) == SelectInSubSeq(s, n + 1, Len(s), LAMBDA x : x = b)
-----------------------------------------------------------------------------
(* The client.  A request: its bytes; what it does, <<argv>>, <<>> or      *)
(* <<error>>; whether the connection ends with it; and how many of its     *)
(* bytes must have come before it can be, and is sure to be, served.       *)

Request(wire, does, stops, from, due) ==
  [wire |-> wire, does |-> does, stops |-> stops, from |-> from, due |-> due]

Sent(wire, argv) == Request(wire, <<argv>>, FALSE, Len(wire), Len(wire))
Ignored(wire) == Request(wire, <<>>, FALSE, Len(wire), Len(wire))
Malformed(wire, from, due) == Request(wire, <<<<>>>>, TRUE, from, due)

QuitName == <<77>>

MultiWire(argv) ==
  <<Star, Len(argv), CR, LF>> \o
  FlattenSeq([i \in DOMAIN argv |-> <<Dollar, Len(argv[i]), CR, LF>> \o argv[i] \o <<CR, LF>>])

Multi(argv) == Sent(MultiWire(argv), argv)

InlineWire(words) == FlattenSeq([i \in DOMAIN words |-> <<Space>> \o words[i]]) \o <<CR, LF>>

Inline(words) == Sent(InlineWire(words), words)

Quit == [Multi(<<QuitName>>) EXCEPT !.stops = TRUE]

Stream == FlattenSeq([i \in DOMAIN script |-> script[i].wire])

\* The requests that can be served, or are sure to be, when got bytes have
\* been read (bound is "from" or "due").
Reached(bound) ==
  LET Before(i) == Len(FlattenSeq([j \in 1 .. i - 1 |-> script[j].wire]))
  IN  {i \in DOMAIN script :
         Before(i) + script[i][bound] <= got /\ \A j \in 1 .. i - 1 : ~ script[j].stops}

\* What a server does that gets every request in one piece.
ServedOf(bound) == FlattenSeq([i \in 1 .. Cardinality(Reached(bound)) |-> script[i].does])
-----------------------------------------------------------------------------
NoRequest == [reqtype |-> "none", multibulklen |-> 0, bulklen |-> -1, argv |-> <<>>,
              closing |-> FALSE, open |-> TRUE]

\* The client structure without the request just executed.
resetClient == [NoRequest EXCEPT !.closing = c.closing, !.open = c.open]

Init ==
  /\ script \in Scripts
  /\ got = 0 /\ querybuf = <<>> /\ pos = 0
  /\ c = NoRequest
  /\ pc = "read"
  /\ served = <<>>

\* Faulty: the line end of a big argument is forgotten.
ReadLimitShort ==
  IF c.reqtype = "multibulk" /\ c.multibulklen > 0 /\ c.bulklen >= BigArg
  THEN IF c.bulklen - Len(querybuf) < ReadLen THEN c.bulklen - Len(querybuf) ELSE ReadLen
  ELSE ReadLen

\* The most that the next read takes.
ReadLimit ==
  LET remaining == c.bulklen + 2 - Len(querybuf)
  IN  IF /\ c.reqtype = "multibulk" /\ c.multibulklen > 0
         /\ c.bulklen >= BigArg /\ remaining < ReadLen
      THEN remaining
      ELSE ReadLen

readQueryFromClient ==
  /\ pc = "read" /\ c.open
  /\ \E n \in 1 .. ReadLimit :
       /\ got + n <= Len(Stream)
       /\ got' = got + n
       /\ querybuf' = querybuf \o SubSeq(Stream, got + 1, got + n)
  /\ IF Len(querybuf') > QueryMax
     THEN c' = [c EXCEPT !.open = FALSE] /\ UNCHANGED pc
     ELSE pc' = "loop" /\ UNCHANGED c
  /\ UNCHANGED <<script, pos, served>>

\* read returns 0: at the end of file, or because it was asked for nothing.
EndOfFile ==
  /\ pc = "read" /\ c.open
  /\ got = Len(Stream) \/ ReadLimit <= 0
  /\ c' = [c EXCEPT !.open = FALSE]
  /\ UNCHANGED <<script, got, querybuf, pos, pc, served>>

\* addReplyError and setProtocolError: nothing that follows will be parsed.
ProtocolError(n) ==
  /\ c' = [c EXCEPT !.closing = TRUE, !.reqtype = IF @ = "none" THEN "inline" ELSE @]
  /\ querybuf' = Drop(querybuf, n)
  /\ served' = Append(served, <<>>)
  /\ pos' = 0 /\ pc' = "read"
  /\ UNCHANGED <<script, got>>

\* What cannot be parsed yet stays in the buffer.
Wait(type) ==
  /\ c' = [c EXCEPT !.reqtype = type]
  /\ querybuf' = Drop(querybuf, pos)
  /\ pos' = 0 /\ pc' = "read"
  /\ UNCHANGED <<script, got, served>>
-----------------------------------------------------------------------------
(* processInputBuffer                                                      *)

LoopEnd ==
  /\ pc = "loop"
  /\ querybuf = <<>> \/ c.closing
  /\ pc' = "read"
  /\ UNCHANGED <<script, got, querybuf, pos, c, served>>

InLoop(type) ==
  /\ pc = "loop"
  /\ querybuf # <<>> /\ ~ c.closing
  /\ type = IF c.reqtype # "none" THEN c.reqtype
            ELSE IF querybuf[1] = Star THEN "multibulk" ELSE "inline"

\* sdssplitargs: the words between spaces.
Words(line) ==
  LET Ends == {i \in DOMAIN line : line[i] # Space /\ (i = Len(line) \/ line[i + 1] = Space)}
      Starts == {i \in DOMAIN line : line[i] # Space /\ (i = 1 \/ line[i - 1] = Space)}
      Nth(S, n) == CHOOSE i \in S : Cardinality({j \in S : j <= i}) = n
  IN  [n \in 1 .. Cardinality(Ends) |-> SubSeq(line, Nth(Starts, n), Nth(Ends, n))]

\* The length of the first line: up to \n or \r\n.  The line ends at newline.
LineLen(newline) ==
  IF newline > 1 /\ querybuf[newline - 1] = CR THEN newline - 2 ELSE newline - 1

processInlineBuffer ==
  LET newline == Find(querybuf, 0, LF)
      line == SubSeq(querybuf, 1, LineLen(newline))
  IN  /\ InLoop("inline")
      /\ \/ newline = 0 /\ Len(querybuf) > InlineMax /\ ProtocolError(0)
         \/ newline = 0 /\ Len(querybuf) <= InlineMax /\ Wait("inline")
         \/ newline # 0 /\ Quote \in ToSet(line) /\ ProtocolError(0)
         \/ /\ newline # 0 /\ Quote \notin ToSet(line)
            /\ querybuf' = Drop(querybuf, LineLen(newline) + 2)
            /\ c' = [c EXCEPT !.reqtype = "inline", !.argv = Words(line)]
            /\ pc' = "exec"
            /\ UNCHANGED <<script, got, pos, served>>

\* Faulty: an empty request stays in the buffer.
EmptyRequestLeft(cr) == querybuf

\* The rest behind the header of a request that has no arguments.
EmptyRequest(cr) == Drop(querybuf, cr + 1)

\* processMultibulkBuffer up to the number of arguments.
MultibulkHeader ==
  LET cr == Find(querybuf, 0, CR)
      number == SubSeq(querybuf, 2, cr - 1)
      bad == ~ IsNumber(number, -1, MaxArgs)
  IN  /\ InLoop("multibulk") /\ c.multibulklen = 0
      /\ \/ cr = 0 /\ Len(querybuf) > InlineMax /\ ProtocolError(0)
         \/ cr = 0 /\ Len(querybuf) <= InlineMax /\ Wait("multibulk")
         \/ cr # 0 /\ cr = Len(querybuf) /\ Wait("multibulk")
         \/ cr # 0 /\ cr # Len(querybuf) /\ bad /\ ProtocolError(0)
         \/ /\ cr # 0 /\ cr # Len(querybuf) /\ ~ bad
            /\ c' = [c EXCEPT !.reqtype = "multibulk",
                              !.multibulklen = IF number[1] > 0 THEN number[1] ELSE 0]
            /\ IF number[1] > 0
               THEN pos' = cr + 1 /\ pc' = "args" /\ UNCHANGED querybuf
               ELSE pc' = "exec" /\ querybuf' = EmptyRequest(cr) /\ UNCHANGED pos
            /\ UNCHANGED <<script, got, served>>

\* ... and with the number of arguments known from an earlier read.
MultibulkResumed ==
  /\ InLoop("multibulk") /\ c.multibulklen > 0
  /\ pc' = "args"
  /\ UNCHANGED <<script, got, querybuf, pos, c, served>>

\* The header of an argument.  From a big argument on, nothing of what was
\* consumed stays in the buffer.
BulkHeader ==
  LET cr == Find(querybuf, pos, CR)
      number == SubSeq(querybuf, pos + 2, cr - 1)
      bad == ~ (querybuf[pos + 1] = Dollar /\ IsNumber(number, 0, MaxBulk))
  IN  /\ pc = "args" /\ c.multibulklen > 0 /\ c.bulklen = -1
      /\ \/ cr = 0 /\ Len(querybuf) > InlineMax /\ ProtocolError(0)
         \/ cr = 0 /\ Len(querybuf) <= InlineMax /\ Wait("multibulk")
         \/ cr # 0 /\ cr = Len(querybuf) /\ Wait("multibulk")
         \/ cr # 0 /\ cr # Len(querybuf) /\ bad /\ ProtocolError(pos)
         \/ /\ cr # 0 /\ cr # Len(querybuf) /\ ~ bad
            /\ c' = [c EXCEPT !.bulklen = number[1]]
            /\ IF number[1] >= BigArg
               THEN querybuf' = Drop(querybuf, cr + 1) /\ pos' = 0
               ELSE pos' = cr + 1 /\ UNCHANGED querybuf
            /\ UNCHANGED <<script, got, pc, served>>

\* Faulty: the line end behind the argument need not have come.
EnoughWithoutLineEnd == Len(querybuf) - pos >= c.bulklen

\* The argument and its line end are in the buffer.
Enough == Len(querybuf) - pos >= c.bulklen + 2

\* The argument itself.  If it is big and alone in the buffer, the buffer
\* becomes the object.
BulkArgument ==
  /\ pc = "args" /\ c.multibulklen > 0 /\ c.bulklen # -1
  /\ \/ ~ Enough /\ Wait("multibulk")
     \/ /\ Enough
        /\ c' = [c EXCEPT !.argv = Append(@, SubSeq(querybuf, pos + 1, pos + c.bulklen)),
                          !.bulklen = -1, !.multibulklen = @ - 1]
        /\ IF pos = 0 /\ c.bulklen >= BigArg /\ Len(querybuf) = c.bulklen + 2
           THEN querybuf' = <<>> /\ UNCHANGED pos
           ELSE pos' = pos + c.bulklen + 2 /\ UNCHANGED querybuf
        /\ UNCHANGED <<script, got, pc, served>>

MultibulkEnd ==
  /\ pc = "args" /\ c.multibulklen = 0
  /\ querybuf' = Drop(querybuf, pos)
  /\ pos' = 0 /\ pc' = "exec"
  /\ UNCHANGED <<script, got, c, served>>

\* Faulty: the client is reset after QUIT like after any command.
AfterQuitReset == [resetClient EXCEPT !.closing = FALSE]

\* QUIT is answered, and the connection closed after the answer.
AfterQuit == [c EXCEPT !.closing = TRUE]

\* processCommand, and what processInputBuffer does around it.
processCommand ==
  /\ pc = "exec"
  /\ pc' = "loop"
  /\ \/ c.argv = <<>> /\ c' = resetClient /\ UNCHANGED served
     \/ /\ c.argv # <<>> /\ c.argv[1] = QuitName
        /\ c' = AfterQuit /\ served' = Append(served, c.argv)
     \/ /\ c.argv # <<>> /\ c.argv[1] # QuitName
        /\ c' = resetClient /\ served' = Append(served, c.argv)
  /\ UNCHANGED <<script, got, querybuf, pos>>

Handler ==
  \/ LoopEnd \/ processInlineBuffer \/ MultibulkHeader \/ MultibulkResumed
  \/ BulkHeader \/ BulkArgument \/ MultibulkEnd \/ processCommand

Next == readQueryFromClient \/ EndOfFile \/ Handler

Spec == Init /\ [][Next]_vars

\* The handler is a loop in the only thread.
FairSpec == Spec /\ WF_vars(Handler)
-----------------------------------------------------------------------------
(* Properties.                                                             *)

\* The types of the variables, and the assertions of processMultibulkBuffer:
\* no arguments before their number is known, and a multibulk request that has
\* not been looked at begins with a star.
TypeOK ==
  /\ c.reqtype \in {"none", "inline", "multibulk"}
  /\ c.multibulklen \in 0 .. MaxArgs /\ c.bulklen \in -1 .. MaxBulk
  /\ c.closing \in BOOLEAN /\ c.open \in BOOLEAN
  /\ pc \in {"read", "loop", "args", "exec"}
  /\ got \in 0 .. Len(Stream) /\ pos \in 0 .. Len(querybuf)
  /\ (pc = "loop" /\ c.multibulklen = 0 /\ ~ c.closing => c.argv = <<>>)
  /\ (InLoop("multibulk") /\ c.multibulklen = 0 => querybuf[1] = Star)

\* However the bytes were split into reads, when the read handler returns it
\* has executed exactly the commands whose bytes have come, in their order and
\* with their arguments; it has reported an error only in a malformed request,
\* and executed nothing after that or after QUIT.
ServedExactly ==
  pc = "read" => /\ IsPrefix(ServedOf("due"), served)
                 /\ IsPrefix(served, ServedOf("from"))

\* The server gives a connection up at its end only; earlier only if the
\* connection is closing anyway and its client still floods the query buffer.
\* (A read of length zero would look like the end of the file.)
KeptOpen == ~ c.open => got = Len(Stream) \/ c.closing

\* The read handler returns: no request, not even an empty one, is parsed for
\* ever.
HandlerReturns == []<>(pc = "read")

\* What networking.c says of processInlineBuffer: the data after the first line
\* of the query is left in the buffer.
LineLeavesRest ==
  [][processInlineBuffer /\ pc' = "exec" =>
       querybuf' = Drop(querybuf, Find(querybuf, 0, LF))]_vars
=============================================================================
