------------------------------- MODULE Replies ------------------------------
(***************************************************************************)
(* How networking.c keeps the replies of one client until they can be      *)
(* sent: in the buffer c->buf, and once that is full in a list of string   *)
(* objects, which the list may share with the database and with the other  *)
(* clients.  A command is one action; the write handler takes one step for *)
(* each write(2).                                                          *)
(***************************************************************************)
EXTENDS Integers, Sequences, FiniteSets, SequencesExt

CONSTANTS
  Objects,   \* memory for objects, the integers 1 .. n
  Values,    \* the strings that commands store or find, sequences of naturals
  Numbers,   \* those of them that are stored as integers
  MaxLen,    \* the longest string a key may have
  Chunk,     \* REDIS_REPLY_CHUNK_BYTES
  EmbMax,    \* REDIS_ENCODING_EMBSTR_SIZE_LIMIT
  IntRoom,   \* the room an integer must find in the buffer
  WriteMax,  \* REDIS_MAX_WRITE_PER_EVENT
  MaxKeys,   \* bound: the most names KEYS finds
  MaxPending \* bound: no command runs with more bytes than this to be sent

ASSUME SizesAssumption ==
  /\ Chunk \in Nat \ {0} /\ WriteMax \in Nat \ {0} /\ MaxLen \in Nat
  /\ EmbMax \in 0 .. MaxLen /\ IntRoom \in Nat
  /\ \A v \in Values : v \in Seq(Nat)
  /\ Numbers \subseteq Values
  /\ \A v \in Numbers : Len(v) <= IntRoom

VARIABLES
  heap,   \* the objects: reference count, encoding, bytes
  stored, \* the object of the key, 0 if there is none
  c,      \* the client
  tot,    \* totwritten of the write handler, -1 when it is not running
  out     \* history: the bytes that the last step has sent

vars == <<heap, stored, c, tot, out>>

\* Lines of the protocol, as in ReplyStream.
Line == -1
Count(n) == -2 - n

(* Objects.  Object 1 is one of the shared ones: the server keeps a        *)
(* reference to it for ever.                                               *)

shared == 1

ASSUME ObjectsAssumption == shared \in Objects /\ Objects \subseteq Nat \ {0}

Free == [refs |-> 0, enc |-> "none", bytes |-> <<>>]

New(h) == CHOOSE o \in Objects : h[o].refs = 0

createObject(h, enc, bytes) ==
  [h EXCEPT ![New(h)] = [refs |-> 1, enc |-> enc, bytes |-> bytes]]

Encoding(v) == IF Len(v) <= EmbMax THEN "embstr" ELSE "raw"

incrRefCount(h, o) == [h EXCEPT ![o].refs = @ + 1]

decrRefCount(h, o) ==
  IF h[o].refs = 1 THEN [h EXCEPT ![o] = Free] ELSE [h EXCEPT ![o].refs = @ - 1]

\* How many nodes of a list refer to o.
RefsIn(list, o) == Cardinality({i \in DOMAIN list : list[i] = o})

\* listRelease: decrRefCount for every node.
Released(h, list) ==
  [o \in Objects |->
    IF h[o].refs = RefsIn(list, o) THEN Free ELSE [h[o] EXCEPT !.refs = @ - RefsIn(list, o)]]

\* getStringObjectSdsUseMemory, zmalloc_size_sds: an allocation has a header.
Memory(x) ==
  CASE x.enc = "raw" -> Len(x.bytes) + 1
    [] x.enc = "embstr" -> Len(x.bytes)
    [] OTHER -> 0
-----------------------------------------------------------------------------
(* The functions that add to the replies take and give the pair of the heap *)
(* and the client.                                                          *)

NewClient == [buf |-> <<>>, reply |-> <<>>, reply_bytes |-> 0, sentlen |-> 0,
              handler |-> FALSE, state |-> "open"]

\* Faulty: only the buffer is looked at.
NothingInBuffer(s) == s.c.buf = <<>>

Nothing(s) == s.c.buf = <<>> /\ s.c.reply = <<>>

prepareClientToWrite(s) == IF Nothing(s) THEN [s EXCEPT !.c.handler = TRUE] ELSE s

\* Faulty: off by one.
FitsBarely(s, v) == s.c.reply = <<>> /\ Len(v) <= Chunk - Len(s.c.buf) + 1

Fits(s, v) == s.c.reply = <<>> /\ Len(v) <= Chunk - Len(s.c.buf)

addReplyToBuffer(s, v) == [s EXCEPT !.c.buf = @ \o v]

\* Faulty: the list keeps its reference to the object it has copied.
dupLastObjectKept(s) ==
  LET o == Last(s.c.reply)
      copy == createObject(s.heap, s.heap[o].enc, s.heap[o].bytes)
  IN  IF s.heap[o].refs > 1
      THEN [s EXCEPT !.heap = copy, !.c.reply = Append(Front(@), New(s.heap))]
      ELSE s

\* The list gets a copy of its last object for itself, if others refer to it.
dupLastObjectIfNeeded(s) ==
  LET o == Last(s.c.reply)
      copy == createObject(s.heap, s.heap[o].enc, s.heap[o].bytes)
  IN  IF s.heap[o].refs > 1
      THEN [s EXCEPT !.heap = decrRefCount(copy, o),
                     !.c.reply = Append(Front(@), New(s.heap))]
      ELSE s

HasRoom(s, v) ==
  /\ s.c.reply # <<>>
  /\ LET tail == s.heap[Last(s.c.reply)]
     IN  tail.enc = "raw" /\ Len(tail.bytes) + Len(v) <= Chunk

AppendToTail(s, v) ==
  LET d == dupLastObjectIfNeeded(s)
      o == Last(d.c.reply)
  IN  [d EXCEPT !.heap[o].bytes = @ \o v,
                !.c.reply_bytes = @ + Len(v)]

\* Faulty: an embedded string is counted like one with memory of its own.
AppendNodeAsRaw(s, o) ==
  [s EXCEPT !.c.reply = Append(@, o), !.c.reply_bytes = @ + Len(s.heap[o].bytes) + 1]

AppendNode(s, o) ==
  [s EXCEPT !.c.reply = Append(@, o), !.c.reply_bytes = @ + Memory(s.heap[o])]

addReplyObjectToList(s, o) ==
  IF HasRoom(s, s.heap[o].bytes)
  THEN AppendToTail(s, s.heap[o].bytes)
  ELSE AppendNode([s EXCEPT !.heap = incrRefCount(@, o)], o)

addReplyStringToList(s, v) ==
  IF HasRoom(s, v)
  THEN AppendToTail(s, v)
  ELSE AppendNode([s EXCEPT !.heap = createObject(@, Encoding(v), v)], New(s.heap))

addReplyEncoded(s, o) ==
  IF Fits(s, s.heap[o].bytes)
  THEN addReplyToBuffer(s, s.heap[o].bytes)
  ELSE addReplyObjectToList(s, o)

\* An integer is written out, in the buffer or in an object that is made for it.
addReplyInteger(s, o) ==
  LET v == s.heap[o].bytes
      made == [s EXCEPT !.heap = createObject(@, Encoding(v), v)]
      n == New(s.heap)
      added == addReplyEncoded(made, n)
  IN  IF s.c.reply = <<>> /\ Chunk - Len(s.c.buf) >= IntRoom
      THEN addReplyToBuffer(s, v)
      ELSE [added EXCEPT !.heap = decrRefCount(@, n)]

addReply(s, o) ==
  LET p == prepareClientToWrite(s)
  IN  IF s.heap[o].enc = "int" THEN addReplyInteger(p, o) ELSE addReplyEncoded(p, o)

addReplyString(s, v) ==
  LET p == prepareClientToWrite(s)
  IN  IF Fits(p, v) THEN addReplyToBuffer(p, v) ELSE addReplyStringToList(p, v)

addReplyBulk(s, o) == addReply(addReply(addReply(s, shared), o), shared)

addReplyBulkCBuffer(s, v) == addReply(addReplyString(addReply(s, shared), v), shared)

addReplyError(s) ==
  addReplyString(addReplyString(addReplyString(s, <<Line>>), <<Line>>), <<Line>>)

\* An object with no string yet; nothing is appended to it.
addDeferredMultiBulkLength(s) ==
  LET p == prepareClientToWrite(s)
  IN  [p EXCEPT !.heap = createObject(@, "none", <<>>), !.c.reply = Append(@, New(p.heap))]

\* The i-th node gets its length, ...
SetLength(s, i, n) ==
  [s EXCEPT !.heap[s.c.reply[i]] = [refs |-> 1, enc |-> "raw", bytes |-> <<Count(n)>>],
            !.c.reply_bytes = @ + 2]

\* ... and takes over what is in the next one.
GlueNext(s, i) ==
  LET o == s.c.reply[i]
      next == s.c.reply[i + 1]
      bytes == s.heap[next].bytes
      glued == [s.heap EXCEPT ![o].bytes = @ \o bytes]
  IN  [s EXCEPT !.heap = decrRefCount(glued, next),
                !.c.reply = RemoveAt(@, i + 1),
                !.c.reply_bytes = @ + Len(bytes) - Memory(s.heap[next])]

setDeferredMultiBulkLength(s, i, n) ==
  LET done == SetLength(s, i, n)
  IN  IF i = Len(s.c.reply) THEN done ELSE GlueNext(done, i)
-----------------------------------------------------------------------------
(* Commands                                                                *)

Init ==
  /\ heap = [o \in Objects |->
               IF o = shared THEN [refs |-> 1, enc |-> "raw", bytes |-> <<Line>>] ELSE Free]
  /\ stored = 0
  /\ c = NewClient
  /\ tot = -1
  /\ out = <<>>

InList == FlattenSeq([i \in DOMAIN c.reply |-> heap[c.reply[i]].bytes])

\* The bytes that wait to be sent.
Pending == LET all == c.buf \o InList IN SubSeq(all, c.sentlen + 1, Len(all))

Replied(s) == heap' = s.heap /\ c' = s.c

Now == [heap |-> heap, c |-> c]
On(h) == [heap |-> h, c |-> c]

Command ==
  /\ c.state = "open" /\ tot = -1
  /\ Len(Pending) <= MaxPending
  /\ out' = <<>> /\ UNCHANGED tot

Get ==
  /\ Command
  /\ IF stored = 0 THEN Replied(addReply(Now, shared)) ELSE Replied(addReplyBulk(Now, stored))
  /\ UNCHANGED stored

\* tryObjectEncoding: an integer, if the string is one.
Encoded(v) == IF v \in Numbers THEN "int" ELSE Encoding(v)

\* The heap without the value of the key.
Dropped == IF stored = 0 THEN heap ELSE decrRefCount(heap, stored)

\* A new object, and a reply that says so.
Store(h, enc, v) ==
  /\ stored' = New(h)
  /\ Replied(addReply(On(createObject(h, enc, v)), shared))

Set(v) == Command /\ Store(Dropped, Encoded(v), v)

\* Faulty: the value is changed in place although a reply refers to it.
dbUnshareNever == FALSE

\* dbUnshareStringValue: the value needs a copy before it may be changed.
dbUnshare == heap[stored].refs # 1 \/ heap[stored].enc # "raw"

AppendTo(v) ==
  /\ Command
  /\ \/ stored = 0 /\ Store(heap, Encoded(v), v)
     \/ /\ stored # 0 /\ Len(heap[stored].bytes) + Len(v) > MaxLen
        /\ Replied(addReplyError(Now)) /\ UNCHANGED stored
     \/ /\ stored # 0 /\ Len(heap[stored].bytes) + Len(v) <= MaxLen
        /\ IF dbUnshare
           THEN Store(Dropped, "raw", heap[stored].bytes \o v)
           ELSE /\ Replied(addReply(On([heap EXCEPT ![stored].bytes = @ \o v]), shared))
                /\ UNCHANGED stored

Del == Command /\ Replied(addReply(On(Dropped), shared)) /\ stored' = 0

\* A reply of a string that no object holds (of a ziplist, an intset, ...).
Find(v) == Command /\ Replied(addReplyBulkCBuffer(Now, v)) /\ UNCHANGED stored

\* KEYS: an object for each name, for the time of its reply.
KeyReply(s, v) ==
  LET n == New(s.heap)
      r == addReplyBulk([s EXCEPT !.heap = createObject(@, Encoding(v), v)], n)
  IN  [r EXCEPT !.heap = decrRefCount(@, n)]

Keys(items) ==
  LET deferred == addDeferredMultiBulkLength(Now)
      after[i \in 0 .. Len(items)] ==
        IF i = 0 THEN deferred ELSE KeyReply(after[i - 1], items[i])
  IN  /\ Command
      /\ Replied(setDeferredMultiBulkLength(after[Len(items)], Len(deferred.c.reply), Len(items)))
      /\ UNCHANGED stored

\* QUIT, and an error of the protocol: no command follows.
Closing(s) == Replied([s EXCEPT !.c.state = "closing"])

Quit == Command /\ Closing(addReply(Now, shared)) /\ UNCHANGED stored

ProtocolError == Command /\ Closing(addReplyError(Now)) /\ UNCHANGED stored
-----------------------------------------------------------------------------
(* The write handler                                                       *)

Alive == c.state \in {"open", "closing"}

WriteStart ==
  /\ Alive /\ tot = -1 /\ c.handler
  /\ tot' = 0 /\ out' = <<>>
  /\ UNCHANGED <<heap, stored, c>>

\* The first node, when the buffer has been sent.
Head1 == heap[c.reply[1]]

\* Faulty: sentlen survives the node it counts in.
DropHeadOnly ==
  /\ heap' = decrRefCount(heap, c.reply[1])
  /\ c' = [c EXCEPT !.reply = Tail(@), !.reply_bytes = @ - Memory(Head1)]

DropHead ==
  /\ heap' = decrRefCount(heap, c.reply[1])
  /\ c' = [c EXCEPT !.reply = Tail(@), !.sentlen = 0,
                    !.reply_bytes = @ - Memory(Head1)]

WriteBuffer ==
  /\ c.buf # <<>>
  /\ \E n \in 1 .. Len(c.buf) - c.sentlen :
       /\ out' = SubSeq(c.buf, c.sentlen + 1, c.sentlen + n)
       /\ c' = IF c.sentlen + n = Len(c.buf) THEN [c EXCEPT !.buf = <<>>, !.sentlen = 0]
               ELSE [c EXCEPT !.sentlen = @ + n]
       /\ tot' = tot + n
  /\ UNCHANGED heap

\* An empty node is dropped.
WriteNode ==
  /\ c.buf = <<>> /\ c.reply # <<>>
  /\ \E n \in IF Head1.bytes = <<>> THEN {0} ELSE 1 .. Len(Head1.bytes) - c.sentlen :
       /\ out' = SubSeq(Head1.bytes, c.sentlen + 1, c.sentlen + n)
       /\ IF c.sentlen + n = Len(Head1.bytes)
          THEN DropHead
          ELSE c' = [c EXCEPT !.sentlen = @ + n] /\ UNCHANGED heap
       /\ tot' = tot + n

\* sendReplyToClient: its loop.
Write ==
  /\ tot \in 0 .. WriteMax
  /\ WriteBuffer \/ WriteNode
  /\ UNCHANGED stored

\* freeClient: the list gives up its references.
freeClient(state) ==
  /\ heap' = Released(heap, c.reply)
  /\ c' = [NewClient EXCEPT !.state = state]
  /\ tot' = -1 /\ out' = <<>>
  /\ UNCHANGED stored

\* The loop ends when everything has been sent, when it has sent enough, or
\* when the socket takes no more.
WriteEnd ==
  /\ tot # -1
  /\ \/ Nothing(Now) /\ c.state = "closing" /\ freeClient("closed")
     \/ /\ ~ (Nothing(Now) /\ c.state = "closing")
        /\ c' = IF Nothing(Now) THEN [c EXCEPT !.sentlen = 0, !.handler = FALSE] ELSE c
        /\ tot' = -1 /\ out' = <<>>
        /\ UNCHANGED <<heap, stored>>

\* An error of read or write, or the end of the connection.
Lose == Alive /\ freeClient("lost")

\* createClient, for the next connection.
Accept ==
  /\ ~ Alive
  /\ c' = NewClient /\ out' = <<>>
  /\ UNCHANGED <<heap, stored, tot>>

Next ==
  \/ Get \/ Del \/ Quit \/ ProtocolError
  \/ \E v \in Values : Set(v) \/ AppendTo(v) \/ Find(v)
  \/ \E n \in 0 .. MaxKeys : \E items \in [1 .. n -> Values] : Keys(items)
  \/ WriteStart \/ Write \/ WriteEnd \/ Lose \/ Accept

Spec == Init /\ [][Next]_vars

\* The event loop calls the handler; a socket that is ready takes some bytes
\* again and again.
FairSpec == Spec /\ WF_vars(WriteStart) /\ SF_vars(Write) /\ WF_vars(WriteEnd)
-----------------------------------------------------------------------------
(* Properties                                                              *)

TypeOK ==
  /\ heap \in [Objects -> [refs : Nat, enc : {"none", "raw", "embstr", "int"}, bytes : Seq(Int)]]
  /\ stored \in Objects \cup {0}
  /\ c.reply \in Seq(Objects) /\ c.buf \in Seq(Int) /\ c.reply_bytes \in Int
  /\ Len(c.buf) <= Chunk
  /\ c.sentlen \in 0 .. Len(IF Nothing(Now) THEN <<>> ELSE IF c.buf # <<>> THEN c.buf ELSE Head1.bytes)
  /\ c.handler \in BOOLEAN
  /\ c.state \in {"open", "closing", "closed", "lost"}
  /\ tot \in Nat \cup {-1}

\* An object has as many references as there are places that refer to it: the
\* key, the nodes of the reply list, the table of shared objects.  So nothing
\* is freed that a reply will need, and nothing is kept for ever.
RefsExact ==
  \A o \in Objects :
    heap[o].refs = RefsIn(c.reply, o)
                   + (IF stored = o THEN 1 ELSE 0) + (IF o = shared THEN 1 ELSE 0)

\* What is subtracted from reply_bytes when a node leaves the list is what was
\* added for it, although objects are copied, appended to and glued meanwhile.
\* (An assertion stops the server if reply_bytes falls below zero.)
AccountExact ==
  LET memory[i \in 0 .. Len(c.reply)] ==
        IF i = 0 THEN 0 ELSE memory[i - 1] + Memory(heap[c.reply[i]])
  IN  c.reply_bytes = memory[Len(c.reply)]

\* The write handler is installed exactly while something waits to be sent: a
\* reply is not forgotten, and a writable socket does not wake the server for
\* nothing.
HandlerIffPending ==
  Alive /\ tot = -1 => (c.handler <=> ~ Nothing(Now))

\* The client is sent the replies as they were when its commands ran, in order,
\* none lost or repeated, and the connection is closed behind the last one.
Stream == INSTANCE ReplyStream WITH
  value <- IF stored = 0 THEN <<Line>> ELSE heap[stored].bytes,
  queue <- Pending,
  state <- c.state

ImplementsStream == Stream!Spec

\* A connection that is to be closed after the reply is closed, whatever is in
\* the list, unless it is lost before.
QuitCloses == c.state = "closing" ~> c.state # "closing"
=============================================================================
