# TinyRedisDatabase in TLA+

This directory specifies and verifies the core of TinyRedisDatabase, a
single-process key-value server (a reduced Redis in C under `src/src/redis_db`).
Every definition is translated from the code; the comments in the C files serve
only as statements to check. There are TLC models for small instances and TLAPS
proofs for all values of the constants.

## 1. The system

One thread runs the event loop: it accepts clients, reads requests, executes one
command at a time on the databases, queues replies, and between commands runs
`serverCron` from a timer. Two more threads of `bio.c` would close files and
sync them, but nothing in this code base gives them a job. Nothing is persisted (`aof.c` holds
stubs), nothing is replicated, eviction is off (`maxmemory` is 0).

| Component | State | Operations | Hard because | What makes it right |
|---|---|---|---|---|
| Hash table `dict.c` | two tables, `rehashidx`, open iterators | add, replace, find, delete, random key, empty, expand, shrink, rehash step, safe iterator, stateless scan | every call moves a bucket, so each lookup sees another stage of a rehash; iterators live across calls; a scan cursor outlives tables | it behaves as one map; counts exact; a safe iteration is exact; a scan misses nothing; rehashes end |
| Keyspace `db.c`, expiry in `redis.c` | per database a key dictionary and an expires dictionary | SET, GET, DEL, RENAME, MOVE, KEYS, RANDOMKEY, lazy and timer expiry | the clock is read anew by each lookup, the two dictionaries share key strings | expires is a part of the keyspace; no lookup answers an expired key; no object is used after it was freed |
| Objects `object.c` | reference counts, encodings, shared integers | create, share, encode, retain, release | objects are shared by the keyspace, argument vectors and reply lists | count equals references; nothing freed while referenced |
| Clients `networking.c` | query buffer, argument vector, reply buffer and list, flags, list of clients to close | accept, read, write, close now or later | handlers free the client they work for; partial writes; closing with replies pending | bytes leave once and in order; no freed client is used; no command after close-after-reply |
| Request parser `networking.c` | `reqtype`, `multibulklen`, `bulklen`, rest of the buffer | inline and multibulk requests | a request arrives split in any way | the parsed commands depend only on the bytes |
| Event loop `ae.c` | registered events, timers, the fired batch | create and delete events, poll, timers | handlers change what the batch refers to | no handler for an event that was withdrawn; timers neither lost nor repeated |
| Background jobs `bio.c` | per type a queue, a mutex, a condition variable, a count | create, process, count pending | lost wake-ups, work without the lock | each job once, in order, eventually |
| Data types `t_*.c`, `ziplist.c`, `intset.c`, `zskiplist.c`, `adlist.c` | one value in one of two encodings | insert, delete, convert, range | conversion thresholds, index arithmetic, two structures per sorted set | both encodings act as the abstract type |
| Cron, dispatch, stats `redis.c` | global counters, command table | `serverCron`, `processCommand` | runs between any two commands | see keyspace and dictionary |
| Support `sds.c`, `zmalloc.c`, `anet.c`, `utils.c` | - | strings, allocation, sockets | - | abstracted to values |

Who calls whom: the event loop calls the handlers of `networking.c`; these call
the parser and `processCommand`; the command functions use the keyspace, which
uses two dictionaries per database; `serverCron` calls `tryResizeHashTables`,
`incrementallyRehash` and `activeExpireCycle` on the same dictionaries. Sets,
hashes and sorted sets are dictionaries once they outgrow their compact form.

## 2. Modules

| Module | Models |
|---|---|
| `Dict` | `dict.c`: the two tables, incremental rehash, all operations, the safe iterator; `tryResizeHashTables` and the timer's rehash |
| `DictCalls` | the same dictionary with what its callers see: the last call, its arguments and its result |
| `DictMap` | the abstract specification: a finite map with an exact iteration; `DictCalls` implements it |
| `DictScan` | `dictScan` under the loop of `scanGenericCommand`, with other clients and the timer between its calls |
| `DictProofs` | the theorems about `Dict` and its iterator, and that `DictCalls` implements `DictMap` |
| `Keyspace` | `db.c` and the expiry of `redis.c`: the two dictionaries of each database, as maps, under the commands, the clock and `activeExpireCycle` step by step |
| `LogicalDb` | the abstract specification: databases in which a key vanishes at its time of death; `Keyspace` implements it |
| `KeyspaceProofs` | the theorems about `Keyspace` |
| `Protocol` | `networking.c`: the read handler and the request parser over any split of the bytes into reads |
| `ProtocolProofs` | the theorems about `Protocol` |
| `Replies` | `networking.c`, the other direction: the reply buffer and list of a client, the objects they share with the database, the write handler |
| `ReplyStream` | the abstract specification: a queue of bytes; `Replies` implements it |
| `RepliesProofs` | the theorems about `Replies` |
| `SkipList` | `zskiplist.c` as operators: search, insertion, deletion, ranks and ranges, with spans and backward pointers |
| `SortedSet` | `t_zset.c`: a sorted set as a ziplist, then as a skip list with a dictionary that points into it |
| `ScoreMap` | the abstract specification of sorted sets: a map of scores and its order |
| `Ziplist` | `ziplist.c` as operators: entries with length fields, offsets, insertion, deletion, the cascade, the header |
| `AdList` | `adlist.c` as operators: the nodes and both chains of a linked list |
| `Lists` | `t_list.c`: a list as a ziplist, then as a linked list |
| `Hashes` | `t_hash.c`: a hash as a ziplist, then as a hash table |
| `IntSet`, `Sets` | `intset.c` as operators, and `t_set.c`: a set as an intset, then as a hash table |
| `Strings` | the numbers in `t_string.c` and `object.c` |
| `Values` | the composition: the value of one key under the commands of all types |
| `KeyValue` | the abstract specification: a string, sequence, function, set or score map; `Values` implements it |
| `ValuesProofs`, `ListsProofs` | the theorems about intsets and ziplists in `Values` |
| `EventLoop` | `ae.c`, `ae_epoll.c` as operators: registered events, the kernel's interest, the largest descriptor |
| `Bio` | `bio.c`: main thread and job threads with mutex and condition variable, step by step |
| `Server` | the composition: `aeMain` with the handlers that accept, serve and free clients (`networking.c`), the timer (`redis.c`) and `Bio` |
| `BioProofs`, `ServerProofs` | the theorems about `Bio`; about `EventLoop` and `Server`, and that `Server` implements `Bio` |
| `MCDict`, `MCDictScan`, `MCKeyspace`, `MCProtocol`, `MCReplies`, `MCValues`, `MCServer` | the constants for TLC |

### How `Dict` corresponds to the code

`d` is the `struct dict`: `ht0`, `ht1`, `rehashidx`, `iterators`. A table has
its `size`, its count `used` and the buckets; a bucket is the set of the entries
chained in it, since no caller depends on the order of a chain. `sizemask` is
`size - 1`. `Hash` is any function from the keys to the naturals, so every
pattern of collisions is an instance. Each operator named after a C function
(`dictAdd`, `dictReplace`, `dictRehash`, ...) maps the structure before the call
to the structure after it, with every step, expansion and swap the call makes on
its way. The actions are the calls a program makes.

`dictRehash(h, n)` stands for the loop: `MoveTo` describes the tables when it
has moved the next `n` occupied buckets, `FinishRehash` the swap at the head of
a round that finds `ht[0]` empty. The swap is a round of its own in the code, and
so it is here: after the last bucket has been moved a dictionary is still
rehashing, with `rehashidx` possibly equal to the size of `ht[0]`.

`it` is the one safe iterator the program opens (`KEYS`): its table, the bucket
it is in, the entry returned last and the rest of the chain. As the code says of
`nextEntry`, the user may delete the entry just returned and no other; `Delete`
has that guard while the iterator is open. `seen` and `owed` are history
variables.

Left out: the duplication and destruction callbacks (no key or value is
duplicated in this program), unsafe iterators (they call nothing that changes
the dictionary), `dictGetRandomKeys` (eviction is off), `dictDisableResize` (it
is called only while a child process runs and none is ever started).

### How `DictScan` corresponds to the code

`ScanStep` is one turn of the loop in `scanGenericCommand`: one call of
`dictScan` with the cursor at hand. Between two commands (`left = 0`) other
clients add, look up and delete, and the timer shrinks and rehashes. `rev` and
`NextCursor` are tables of the bit operations on words of `CursorBits` bits, and
`Expansions` is the set of buckets of the larger table that the `do` loop visits.

### How `Keyspace` corresponds to the code

`ks` has, for every database, `dict` (key to entry) and `expires` (key to time
of death), as the maps `DictMap` promises. An entry records which key string it
refers to: `dict` owns the string, `expires` borrows it (`setExpire` passes
`dictGetKey(kde)`), and `dictReplaceRaw` keeps the string that is there. One bit
is enough to tell whether two references are to the same string. `ok` turns
false when an assertion of `db.c` fails. The operators named after functions of
`db.c` map a keyspace to a keyspace, as in `Dict`.

`now` is the clock as last read. `expireIfNeeded` calls `mstime()` in every
lookup; each reading of a command (`t1`, `t2`, `t3` in `Set`) is any time not
before the one before it. So a key can die between the lookup of `SET XX` and
that of `setKey`, or between two lookups of `RENAME`. The model assumes that the
wall clock is not set back.

The commands that write a value in place (`INCR`, `APPEND`, `RPUSH`, ...) are
`Alter`, those that only read `Lookup`. Values have no references and no
encodings here. `dbDelete` is two deletions, `DropExpire` and `DropKey`, in the
order of the code: `dictDelete` in `expires` compares key strings, and the one it
finds there must not have been freed.

`activeExpireCycle` is a sequence of steps in `cron`, between which commands wait.
`CycleStart` sets the number of databases to visit (`left`): `DbsPerCall`, or all
if the last cycle ran out of time (`exit`, the static `timelimit_exit`). `NextDB`
goes to the next one and advances `current` (the static `current_db`) first, as
the code does, so that a cycle that is broken off does not start there again.
`Skip` leaves a database without a draw: it has no expire times, or its table is
too sparse to draw from. `Sample` is one round of the `do` loop: up to
`LookupsPerLoop` draws, of which those that hit an overdue key delete it. The loop
goes on with the same database if more than a quarter did, and every
`CheckEvery` rounds the time may be up, which ends the cycle. The fast cycle of
`beforeSleep` is one more call of the same steps. Left out: statistics (the
average TTL), and `EXPIRE`, `TTL`, `PERSIST`, `FLUSHDB` and the like (their
functions exist, the command table has no entry for them).

### How `Protocol` corresponds to the code

`querybuf` is the query buffer; `c` has the fields of the client that outlive a
call of the handler: `reqtype`, `multibulklen`, `bulklen`, `argv`, the flag
`REDIS_CLOSE_AFTER_REPLY` (`closing`), and whether the client still exists
(`open`). `pos` is the local variable of `processMultibulkBuffer`. The read
handler is a sequence of steps: `readQueryFromClient` takes some bytes, no more
than `ReadLimit`; then each action is one round of a loop, up to `LoopEnd` or
`Wait`, by which the handler returns. Where the code breaks off a loop and
trims the buffer (`networking.c:1373`), that is part of the step that breaks
off.

A client sends one of the `Scripts`, a sequence of requests. Beside its bytes
each request says what a server ought to do with it; `ServedOf` puts that
together for the bytes that have come, and `ServedExactly` compares it with what
the server did. Only the operators `Multi`, `Inline`, `Sent`, `Ignored` and
`Malformed`, which write requests, know the protocol; the parser knows nothing
of the scripts. For a line that never ends the two bounds `from` and `due`
differ: the error may be reported once the limit is passed, and has to be when
a whole read has passed it.

Bytes are integers, and a number in a header is one byte, its value:
`string2ll` is `IsNumber`. Quotes are in the model only as the error of
`sdssplitargs`. The commands themselves are only recorded, except QUIT, which
`processCommand` handles before it looks into the command table. Left out: read
errors (they free the client like the end of the connection), zero bytes inside
a request (`strchr` stops there), and growth of the buffer.

### How `Replies` corresponds to the code

`heap` is the memory for string objects, with reference count, encoding and
bytes. `stored` is the object of one key. `c` has the fields of the client for
its output: `buf` (as long as `bufpos` says), `reply` (the list, as references to
objects), `reply_bytes`, `sentlen`, whether the write handler is installed, and
in `state` whether `REDIS_CLOSE_AFTER_REPLY` is set and whether the client
exists. The operators named after functions of `networking.c` map the pair of
heap and client to the pair after the call; a command is a chain of them. What
each command frees and allocates in the keyspace is part of its action
(`setKey`, `dbUnshareStringValue`). References that a command takes and gives up
again (its arguments) are left out, except where a reply can get hold of them in
between (`KeyReply`).

`WriteStart`, `Write` and `WriteEnd` are one call of `sendReplyToClient`: each
`Write` is one `write(2)` that takes any part of what it is offered, and
`WriteEnd` ends the loop, also when the socket takes no more. Nothing else runs
meanwhile. The bytes given to `write(2)` are in `out`, so that the abstract
specification sees them.

A line of the protocol (a header, a line end, `+OK`) is one byte, and all of
them are one shared object, since only their sharing matters. The loop of
`listRelease` is `Released`, which takes from each object the references that the
list has (`RefsIn`); the loop of `KEYS` over its names and the sum in
`AccountExact` are recursive functions, not operators, so that proofs can be
made about them. Memory that an allocator rounds up is not modelled; an allocation of its own has a header, an
embedded string has none. The limits on the reply list are off for the clients
this server has (`config.c:8`), so nothing is ever closed by them.

### How `SortedSet` corresponds to the code

`zset` is the value of one key. A ziplist is the sequence of its pairs. A skip
list has its nodes by name, each with the `forward` and `span` of every level it
has; node 0 is the header. `Descent` is the search that all functions of
`zskiplist.c` write out, with the condition to go forward as a parameter, and
gives `update[]` and `rank[]`. The dictionary maps a member to the name of a
node, as the code stores `&node->score`; so a score is always read through the
pointer. A name is not used again while a pointer bears it, so that a pointer to
freed memory is told from one to a new node.

`ZAdd` and `ZRem` are whole commands: the arguments are folded one by one over
an outcome, which has the value so far, the count for the reply and whether an
assertion failed. `zslRandomLevel` may give any height each time, so that the
fold of ZADD is over sets of outcomes. The commands that only read are operators
(`Zrank`, `Zcount`, `Zrange`, `Score`).

Members are integers in the order of `compareStringObjects`, scores are
naturals; the text in which a ziplist holds a score gives the same number back
(17 digits). Left out: syntax and type errors, which change nothing, `ZINCRBY`
(no entry in the command table), removal of whole ranges and the conversion back
to a ziplist (never called).

### How `Values` corresponds to the code

A key has one value, of one type, in one of the forms of that type. `Values` has
a variable per type, all `Missing` but one at most, and the commands of the
command table for the five types as actions: the modules `SortedSet`, `Lists`,
`Hashes`, `Sets` and `Strings` give those of their type, `Values` adds `SET`,
`DEL` and the refusal of a command of the wrong type (`checkType`). Not among them
are `APPEND`, which is in `Replies` with the objects it changes, and
`INCRBYFLOAT`, which is not modelled. `call` and `reply` are what a client sees;
an abstract command has the same name and arguments, so that the refinement
compares replies command by command. Commands that only read are operators, and
`ReadsExact` compares them with the abstract value in every state, for every
index that an `int` holds, every count that 32 bits hold, and all lists of up to
three keys; what lies beyond is in section 5.

A list keeps its forms down to the memory: `Ziplist` has for each entry its
length field (value and size, one byte or five), the offset of the last entry,
the size of the block and the count, which is only valid below its maximum;
`__ziplistInsert` and `__ziplistDelete` read lengths and offsets from there as
the code does. `__ziplistCascadeUpdate` is in the model because these two call it
when the size of a length field changes, but it never gets that far: a field
takes five bytes for an entry of 254 bytes, and the first element longer than 64
bytes turns the list into a linked one (`CascadeNeverDue`, section 4). Entries
are values with a number of bytes (`Bytes`). `AdList` has named nodes with both
pointers. The loops of `LREM`, `LINSERT` and the rest go through an iterator,
which deletion moves on as `listTypeDelete` does. A hash in a ziplist is the
sequence of its entries, each a text with a length, because `hashTypeSet` can
store a value with the length of its field (section 5). An intset stores numbers
with a width; `Narrowed` is what is left of a number that is stored too narrow, so
that an upgrade that failed would show. Sets in other keys (`Others`) are there
for `SINTER`, `SUNION` and `SDIFF`, each written as its loops with both algorithms
of `SDIFF`. Integers of strings wrap at `MinLL` and `MaxLL`.

A number in a ziplist or an intset is made an object when the value changes its
form, and often when it is replied, by `createStringObjectFromLongLong`. `Boxed`
is what it makes of it, in each of the five modules: the same number, except for
`REDIS_SHARED_INTEGERS` itself, of which it makes the text `*0\r\n`
(section 5). `Cut` is what is left of a `long` index when `ziplistIndex` takes it
for an `int`.

`KeyValue` says what a correct server would do, without exception; no fault of the
code is written into it. Where the code does something else the run `values`
keeps the arguments out that make it: the shared number, values of another length
than their field in a hash, `DECRBY` with the least number, indices beyond an
`int` and counts beyond 32 bits. The runs `values_shared` and `values_hash` let
the first two in and find the refinement violated. With everything else that the
instance can say, the refinement holds.

The run identifies states that differ in `call` and `reply` only (`VIEW value`).
No action reads these two, so nothing is lost: TLC generates every step of every
value, and checks the implied actions of the refinement on each step it
generates.

### How `Server` corresponds to the code

`el` is the `aeEventLoop`: per descriptor the mask and the client
(`clientData`), what `epoll_ctl` has told the kernel, and `maxfd`. `clients` is
the list from head to tail, `conn` the fields of a client that matter here, and
the state of its socket. A client is named by the number of its connection,
which never comes back; descriptors do, as `accept` takes the least one that is
free. So an event that reaches a later client with the same descriptor is seen
as what it is.

`phase` says where the main thread is in `aeMain`. A step is one handler or one
round of a loop: `Poll` is `epoll_wait`, which leaves a batch in `fired` in any
order; `Handle` calls the read handler or the write handler of the first event,
if it is still installed (the test `fe->mask & mask` that `aeProcessEvents`
makes again before either call); `Accept` and `AcceptEnd` are the loop of
`acceptTcpHandler`; `serverCron`, `clientsCron` and `CronEnd` the timer. Of a
request only what it does to the connection is kept: no reply, a reply, a last
reply, the end of the client, or `SHUTDOWN`.

Peers connect, send, close, and stop reading. They act in the phase `poll`
only: a byte or an end of the connection that comes while handlers run is found
by them if it comes before they look, which is as if it had come before the
wait, or else by the next `epoll_wait`. What cannot be put off is a peer that is
gone when a reply is written: `sendReplyToClient` may fail at any time, or find
the socket full. `sigtermHandler` may interrupt anything.

Nothing calls `bioCreateBackgroundJob`. The model lets `beforeSleep` create jobs
where it calls `flushAppendOnlyFile` (empty in `aof.c`), so that the protocol of
`bio.c` is checked inside the loop it was written for.

Left out: `freeClientAsync` (only the limits on the reply list call it, and they
are off), `CLIENT KILL` (no entry in the command table), the shrinking of query
buffers, the time `epoll_wait` is told to wait (it ends at any time).

## 3. What the runs check

| Run | Instance | Shows |
|---|---|---|
| `dict_tables` | 3 keys, 2 values, tables of 1 to 8 buckets | types; no entry misplaced; no key twice; counts exact; rehash in bounds; a safe iteration is exact at each of its points; an open iterator freezes the tables; every rehash ends; `DictCalls` implements `DictMap` call by call, arguments and results included |
| `dict_scan` | 3 keys, 4-bit cursors, COUNT 1 | SCAN ends; its cursor fits a table; it is complete unless the dictionary shrinks during the iteration |
| `dict_scan_shrink` | the same | expected violation: the guarantee in the comment on `dictScan`, see section 5 |
| `keyspace` | 2 databases, 2 keys, 1 value, times 0 to 2, expire time 1; 1 database per cycle, 1 draw per round, a look at the time every 2 rounds | types; no assertion fails; `expires` borrows strings `dict` has; `Keyspace` implements `LogicalDb`; a key that stays dead is deleted though nobody asks for it, in whatever database |
| `keyspace_overflow` | expire times up to `LLONG_MAX` (scaled) | expected violation: the timer deletes a key that lookups find alive, see section 5 |
| `protocol` | 15 scripts, well-formed, empty, malformed and endless requests; reads of 1 to 3 bytes | whatever the reads, the commands executed are those whose bytes have come, in order, with their arguments; errors only for malformed requests; nothing after an error or QUIT; the connection is not given up early; the handler returns |
| `protocol_bare` | an inline request that ends with LF | expected violation: a byte of the next request is dropped, see section 5 |
| `replies` | strings of 0 to 3 bytes, a buffer and nodes of 3 bytes, writes of any size | types and the size of the buffer; references equal reference counts; `reply_bytes` exact; the write handler installed exactly while something waits; `Replies` implements `ReplyStream`; a connection closing after its reply closes |
| `values` | one key; sorted sets of 4 members, ziplists of up to 2, skip lists of up to 3 levels; lists of up to 6 elements, ziplists of up to 4, elements of 1, 8 and 12 bytes; hashes with 3 fields and 3 values; sets of 5 members, 3 widths; numbers from -8 to 7 | types and limits of each encoding; every link, span and backward pointer of a skip list, every pointer of the dictionary beside it; every length field, offset and count of a ziplist; both chains of a linked list; order and width of an intset; every reading command; `Values` implements `KeyValue` |
| `values_shared` | the same, and the shared number among the arguments of every type | expected violation: it becomes another text when it is made an object, see section 5 |
| `values_hash` | the same as `values`, with a field and a value of different lengths | expected violation: HSET stores the value with the length of its field, see section 5 |
| `server` | 2 clients at most, up to 3 connections, 2 accepted per call, one client per call of `clientsCron`; up to 4 jobs of a type; SIGTERM, spurious wake-ups | clients, event loop, kernel and `maxfd` agree after every step; no handler is called for a client its event is not about; jobs run in order, once; a silent client is closed, every job is finished, SIGTERM ends the process |

Bounds. The sizes of the code (4 buckets at first, shrink below 10 % load, 100
buckets per timer batch) are constants of the model. They are scaled to 1
bucket, 30 % and 1 bucket so that few keys already make a table grow three
times, shrink by a factor of four, and grow or shrink at every stage of a
rehash. `Sizes` has to hold a table of twice the number of keys, which
`SizesAssumption` states; no behaviour is cut off by it. There is no bound on
the length of a behaviour: the state space is finite as it is. The hashes of the
instance have keys that collide in all tables but the largest and keys that part
at each doubling.

`MaxTime` bounds the clock of the keyspace; two ticks let a key be given a time of
death, outlive it, and die between two lookups of a command. `LLMax` scales
`LLONG_MAX`. The 16 databases per cycle, 20 draws per round and 16 rounds between
two looks at the time are 1, 1 and 2, so that a cycle reaches only one of the two
databases, is broken off while there is work left, and goes on the next time where
`current_db` says. One value is enough to find a key that should not be there or
is missing; that the right value is there, for any values, is `LogicalRefinement`
(section 4).

`Protocol` scales the limits of the code (reads of 16 KB, big arguments of
32 KB, lines of 64 KB, a buffer of 1 GB for arguments of 512 MB) to 3, 3, 6 and
12 for 5 bytes, and keeps what the code needs of their proportions, which
`LimitsAssumption` states: a small argument that is not complete and one more
read are not longer than a line may be; a line of that length and two more reads
(one may end between CR and LF), or the largest argument and one more read, still
find room in the buffer. The instance meets the first and the second of these bounds exactly. The scripts have arguments on both sides of the limits, arguments made
of line ends and of header characters, and each protocol error.

`Replies` scales the 16 KB of the buffer and of a list node to 3 bytes, embedded
strings of 39 bytes to 1, 64 KB per write event to 3. So a reply of an ordinary
key already goes over from the buffer to the list, nodes fill up, shared nodes
are copied, and the write handler is cut short. `MaxPending` stops commands
while more than 2 bytes wait, `MaxKeys` bounds the names that `KEYS` finds;
`Objects` is large enough that memory never runs out.

`Values` scales the 128 entries of a ziplist to 2 for sorted sets, the 512 of
hashes and lists to 2 and 4, the 32 levels of a skip list to 3. Nodes of one and
of three levels make the list grow and shrink by two levels at once and leave
links that pass over any number of nodes. Four members reach every position of
an insertion or deletion between, before and behind others, with equal and with
different scores. The arguments of ZADD with two pairs (`MCAdditions`) change
the encoding between them, name a member twice, and exchange scores. The
elements of lists are one of the least length, one of the greatest that a ziplist
lets in (its entry is one byte shorter than what takes a field of five bytes: 10
in place of 254), and one that is too long for a ziplist; the count of a ziplist
is full at 2 in place of 65535. Members of sets need each of
the three widths, with either sign where the place of an upgrade depends on it,
or are no numbers. The 64 bits of a number
are 4. `MaxLength` is the one bound that cuts behaviours off: no list grows
beyond 6, two more than where it has changed its form.

`Server` has room for two clients and a third that is refused, whose descriptor
an event of the same batch may be about; a descriptor freed by a handler is
taken again by `accept` in the same batch. With two clients and one client per
call (`CronMin`, 50 in the code) the timer has to rotate the list to get at
both. `MaxIdle` is 1 tick; the default of 0 closes nobody. The bound on what
comes is `Loads`: connections, jobs, signals and spurious wake-ups. The main
thread is all that connections and jobs share, and one load has both.

Fairness. `WF(IterNext \/ IterEnd)`: a loop over an iterator runs to its end
within one command, in one thread. `SF(RehashMilliseconds)`: `serverCron` runs
between commands for ever, and finds the dictionary without an open iterator
each time; iterations of other commands may come between, so weak fairness would
not do. `WF(ScanStep)`: a client that scans goes on scanning.
`WF(ActiveExpireCycle)`: the timer fires as long as the server runs, and a cycle
that has started goes on. `SF(Draws(i, k))`: keys are drawn from `expires` at
random, so a key that can be drawn again and again is drawn some time, with
probability one. `Draws(i, k)` is possible only in a round of the cycle in
database `i`: that the cycle comes to every database again and again, though it
visits a few at a time and is broken off by the time limit, is not assumed but
follows from the rotation, and a mutant that does not advance `current_db`
violates `DeadCollected`. (`Skip` may leave a sparse table alone: the timer
shrinks it in time. The model lets a database be skipped any number of times, but
not for ever.) Nothing is assumed about the clock. `WF(Handler)`: the loops of the
read handler are plain loops of the only thread; nothing is assumed of the
client or of the arrival of bytes. `WF(WriteStart)`, `WF(WriteEnd)`: the event
loop calls the handler of a writable socket and the handler returns;
`SF(Write)`: a client that keeps its connection reads, so that its socket takes
something again and again.

`Server`: the main thread goes on whenever it waits for no mutex, because no
handler and no `epoll_wait` lasts for ever (the timer bounds the wait); stated
with the variables only its steps change. The job threads run
(`WF(JobThread(t))`). The timer is due again and again when the batch is done,
and the clock it reads advances: strong fairness of `serverCron(1)`, because
batches in which it is not due may come between. Nothing is assumed of peers,
of the order of a batch, nor that a wait ends without a signal. In the formula
`Fairness` the `ENABLED` of the first two conditions is written out (`MainReady`,
`CronReady`), which is the same and lets TLC evaluate it in little time.

Each property has a mutant: a definition of the model changed the way a bug
could change the code (`...StaleMask`, `...Uncounted`, and so on, in the modules
next to the definitions they change), under which TLC finds the property
violated.

## 4. What is proved

`DictProofs` proves, for every set of keys, every hash, every family of sizes
that satisfies `SizesAssumption` and every tuning:

- `Invariance`: `Spec => []Inv`, the inductive invariant;
- `TypeCorrect`, `NothingMisplaced`, `NoKeyTwice`, `CountsExact` and
  `RehashInBounds`: the invariants `TypeOK`, `Reachable`, `KeysUnique`,
  `UsedExact` and `RehashSound` of the run `dict_tables`.

None of the five is inductive alone. That a link stores no key twice needs that
the lookup before it misses nothing, which is `Reachable` in both tables; that
counts stay exact needs that an unlinked key occurs once; that a finished rehash
loses nothing needs `used` exact and everything before `rehashidx` empty. `Inv`
is the conjunction of the parts `IsDict`, `Placed`, `KeysOnce`, `Apart`, the
exact counts and `RehashBounds`, with the types of the other variables.

The argument goes operation by operation on structures rather than on
variables. Lemmas about tables (`NewTable`, `Link`, `Unlink`, `SetVal`, `Cut`,
`Paste`) say what each does to the entries, the placement and the count. From
them come lemmas that `dictExpand`, `dictRehash`, `dictAdd`, `dictReplace` and
`dictDelete` take a sound dictionary to a sound one. The proof of `Invariance`
then has one step per action.

It goes on with `DictCalls`, under the same assumptions:

- `IterationIsExact`: `IterationExact`, an invariant of run `dict_tables`. The
  inductive invariant is `IterInv` together with `Inv`. It names what is still
  ahead of the iterator (`AheadOf`: the rest of its chain, the buckets behind, and
  all of `ht[1]` while it is in `ht[0]`) and says that what is owed has been seen or
  is ahead, and that nothing is both;
- `TablesFrozen`: `FrozenWhileIterating`, an action property of the same run;
- `Refinement`: `CallSpec => ImplementsMap`. The entries of both tables are read
  as one function (`MapOf`). One lemma per call shows that the function
  after the call, and the result, are what the map would give; the steps of a
  rehash, which every call may take, leave the function alone.

`KeyspaceProofs` proves, for all databases, keys, values, expire times and
bounds on the clock, `TypeCorrect`, `NoAssertFails` and `ExpiresWithinDict`: the
three invariants of run `keyspace`. They are inductive only together. The
assertion in `getExpire` needs that `expires` is a part of `dict`; that
`setExpire` keeps the borrowed string right when an entry is already there needs
that the string in it is still the one of `dict`. `Sound` states this of any
keyspace, and one lemma per function of `db.c` shows that the function keeps it,
so that a command is a chain of lemmas, one for each call it makes.

Two more theorems assume `TimesFit`: that no expire time carries the clock beyond
`LLONG_MAX`. Without it they are false, which is the finding that run
`keyspace_overflow` shows.

- `LogicalRefinement`: `Spec => ImplementsLogical`, the refinement that run
  `keyspace` checks, here for all values as well. What a client sees of a key (`ViewAt`) is
  its value while its time of death is ahead. The lemmas say of each function
  which key of that view it changes, and to what; deleting a dead key, by a lookup
  or by the timer, changes nothing. A command that reads the clock several times
  is one step of `LogicalDb` because keys only fade in between (`Fades`);
- `TimerDeletesTheDead`: `TimerUnseen`, the property of run `keyspace_overflow`.

The invariant here is `TimelyInv`: `Inv`, and that no time of death is negative,
which lookups would take for none.

`BioProofs` proves for any types of jobs:

- `JobsSound`: `BioSpec => []BioInv`, the inductive invariant;
- `OrderKept`: `JobsInOrder`, an invariant of run `server`;
- `MutexFree`: `MutexFreeDuringJob`: a mutex is held by the main thread between
  its lock and unlock, by a job thread while it looks at the queue, and by
  nobody else, so no job keeps the main thread waiting.

`JobsInOrder` is not inductive: that the job a thread deletes is the head of the
queue, while others were appended as it ran without the mutex, needs that the
thread's job is one more than those it finished, and that only this thread
removes. `BioInv` relates the place of each thread, the holder of each mutex and
the queue for that.

`ServerProofs` proves `ImplementsBio`, `Spec => BioSpec`: each step of the
server is a step of `Bio` or leaves its variables alone. `ServerKeepsOrder` is
the invariant for the server that follows. It further proves, for any numbers of
clients, connections, accepts and jobs, any time limit and any table size above
`MaxClients + 1`:

- `RegistrationKept`: `RegistrationExact`;
- `BatchKept`: `BatchCurrent`.

Both follow from one inductive invariant, `Inv`. Its parts:

- `Sound(Now)`: the event loop is exact, each client of the list is registered
  under its own descriptor for what its reply calls for, nobody else is, and who
  is not in the list is gone. It is stated of any triple of loop, list and
  connections, so that a handler is a chain of lemmas over the functions it
  calls;
- `Batch`: an event that is still to be handled is about the listening socket,
  or about a client that is still there with what its read handler is called
  for, or, if it is the first, its descriptor has nothing registered any more.
  That two events never have the same descriptor makes it inductive: a handler
  can free the client of the first event only;
- `InPhase`: while connections are accepted, the first event is the listening
  socket's, so a descriptor that is closed there belongs to no event;
- `Counted`: connections that wait, come or came have numbers enough.

The lemmas show that the functions of `ae.c` keep a loop exact, the
search for the largest descriptor included, and that
`createClient`, `freeClient`, `acceptCommonHandler`, both handlers of a client and
a round of `clientsCron` keep `Sound`. That `accept` finds a free descriptor
among `MaxClients + 1` is the pigeonhole principle: a list without duplicates
has as many clients as places.

`ProtocolProofs` proves, for any scripts of any bytes, so also of requests no
client would send, and for any limits in the proportions that `LimitsAssumption`
states:

- `TypeCorrect`: `TypeOK` with the assertions of `processMultibulkBuffer`;
- `KeptOpenAlways`: `KeptOpen`, an invariant of run `protocol`.

Neither is inductive. That the query buffer never exceeds its limit, and no read
asks for nothing, depends on what the parser left in the buffer when it gave up
(`Leftover`: less than an argument, a line that is not too long, or one that ends
between CR and LF) and on what it has before it with one read more (`Workload`).
The third case needs that the LF comes with the next read (`LineEndCame`).
`PInv` puts this together with the fields of the client (`IsClient`), the bounds
of `pos` (`Buffers`), what a request not yet looked at is like (`Untouched`), and
why a connection was given up (`Closed`). TLC has checked `PInv` on the instance
of run `protocol`.

`RepliesProofs` proves, for any strings, any sizes that satisfy
`SizesAssumption`, and any length of the reply list:

- `TypeCorrect`: `TypeOK`, with the bounds of the buffer and of `sentlen`;
- `RefsCorrect`: `RefsExact`;
- `AccountCorrect`: `AccountExact`, so `reply_bytes` never falls below zero;
- `HandlerCorrect`: `HandlerIffPending`, the last of the four invariants of run
  `replies`;
- `StreamRefinement`: `Spec => ImplementsStream`, the refinement that run checks:
  the client is sent the replies as they were when its commands ran, byte by byte,
  none lost, repeated or out of order.

They assume `MemoryUnbounded`: there is always a free object. The code has no
other behaviour, since `zmalloc` ends the process when memory runs out, and the
objects of run `replies` are enough for all its states. The invariant is `RInv`.
Its main part, `Book(s, own)`, is stated of any pair of heap and client in the
midst of a command: each object has as many references as nodes of the list, and
local variables and keys (`own`), refer to it; what is free is blank; and
`reply_bytes` is the sum over the list. It needs that an object with one
reference is in the list once or is owned, never both, and that an owned object
keeps its bytes (`Keeps`), which is what makes it right that
`dupLastObjectIfNeeded` copies and that APPEND may change a string in place.
Between `addDeferredMultiBulkLength` and `setDeferredMultiBulkLength` a node of
the list is without a string (`Waits`), and no reply of KEYS in between touches
it. One lemma per function of `networking.c` shows what it does to `Book`, and a
command is a chain of them.

The refinement goes function by function as well. `Text(s)` is what has been said
and not sent: the buffer and the strings of the list, without the first `sentlen`
bytes. `Says(s, r, v)` is that a function has taken the client from `s` to `r` and
said `v`: the bytes in `r` are those in `s` with `v` behind them, whatever text
the node that waits for its length will get. This is what allows the length of
KEYS to be filled in after its elements have been said. It holds through the ways a
reply takes (buffer, a node shared with the database, a copy, a
string glued to the last node), and needs `Book`: a node that is appended to must
not be the string of a key, or what was said before would change with it. A
write moves the first bytes of `Text` to the socket and drops the nodes that are
sent in full, which is the abstract `Send`. `SInv` adds to `RInv` that the key, if it is there, holds a
string, never the constant by which the abstract specification says that it is
not.

What a recursive function computes is proved here by the least number for which
it would be wrong (`Least`): the sum of `AccountExact`, the loop of KEYS, what
`FlattenSeq` makes of a list that grows, shrinks or changes at one place, and in
`ProtocolProofs` the concatenation of the requests. The induction theorems of the
library take an operator as a parameter, which the prover cannot instantiate.

`ValuesProofs` proves for any members, widths and limits `IntsetsSound`:
`IntsetExact`, an invariant of run `values`. The binary search of `intsetSearch`
is a function over pairs of bounds that gets narrower with every round; the
least width at which it would be wrong does not exist, so it finds a value that
is there, or the place before which it belongs (`SearchIsRight`). From this
insertion and removal keep the array sorted and without repetition, and an
upgrade, whose value is beyond every value of the old width (`Widths`), may put it
first or last without a search. The inductive invariant is that the value is a
sound intset, in another form, or missing (`SetInv`); the loops of `SADD` and
`SREM` over their arguments are folds that keep it.

`ListsProofs` proves for any elements, of any sizes from one byte up, and any
indices and limits that satisfy `ListAssumption`, `BlocksSound`: `ZiplistExact`,
another invariant of that run. `ListAssumption` says of the sizes only what the
code's limits give: an element that is not too long for a ziplist makes an entry
of less than 254 bytes. The inductive invariant (`ListInv`) is that the list, if
it is a ziplist, is a block with at least one entry, all of them short, whose
every length field, offset and count is right (`Blocks`). In the midst of an
operation one entry is not: `RightBut(zl, q)` says that the block is right but for
the length that entry `q` gives of its predecessor.

- An offset is the sum of the lengths in front of it. `PutOffsets` and
  `TakenOffsets` say what insertion and deletion do to all of them, from which
  `PutRight` and `TakenRight` conclude that only the successor is wrong then.
- `__ziplistInsert` and `__ziplistDelete` write the successor's length. It takes
  one byte, as the field has already, so nothing moves and the block is right
  (`ResizedIs`).
- That only short elements get into a block is part of the invariant: a command
  with a long element converts the list before it inserts (`TryKeeps`).
  `CascadeNeverDue` is the theorem that follows: no entry of a block is long
  enough for `__ziplistCascadeUpdate` to have anything to do.

The commands follow, one lemma each. `LREM`, `LINSERT`, `LTRIM` and the pushes are
loops, folds here: `LoopUnrolled` and its like name the result of every round,
and what each round keeps is an invariant of the loop. For `LREM` this is that the
iterator is in the block or right behind it after its entry was deleted. Of a
list in linked form nothing is claimed.

Only model-checked:

- all liveness, which is beyond the prover, and with it `HandlerReturns`,
  `QuitCloses`, `AllServed` and the like;
- `ServedExactly` of the parser: a script states beside its bytes what they mean
  (`due`), and the theorem would assume that each is right about that, byte by
  byte, which is a second parser to be written and trusted;
- the properties of SCAN, whose argument is about the reversed bits of a cursor;
- of the data types in `Values`, skip lists (`SpansExact`, `PointersExact`), linked
  lists (`LinksExact`), the refinement `ImplementsKeyValue` and its `ReadsExact`,
  and their types (`TypeOK`): folds over sequences and chains of pointers, within
  the prover's reach as the intset and the ziplist show, and a matter of effort.

## 5. Findings

`dictScan` during a shrink (`dict.c:1042`). The comment at `dict.c:857` promises
that every element present from the start to the end of the iteration is
returned. Take a cursor from a time when the table was larger. When the next call
comes during a rehash to a smaller table, its low bits select the bucket of the
small table, but the loop over the larger table starts at the whole cursor, and
so visits only the expansions from there up. The iteration goes on with the next
bucket of the small table; entries in the lower expansions that have not moved
yet are never returned. `ScanCompleteIfGrowing` is what does hold, and run
`dict_scan` checks it.

Expire times that overflow (`t_string.c:72`). `SET k v PX n` adds `n` to the clock
without a test. The sum of a large `n` wraps to a negative time (the build, with
no optimisation flag, leaves it at that). `expireIfNeeded` takes a negative time
for no expire time (`db.c:962`), so every lookup finds the key alive;
`activeExpireCycleTryExpire` compares it with the clock like any other and
deletes the key. Run `keyspace_overflow` shows the timer taking away a key that
clients see.

Inline requests that end with a bare line feed (`networking.c:1210`). The parser
accepts them (`networking.c:1187` tells the two line ends apart), but drops two
bytes for the line end in either case. The comment above the line says that the
data after the first line is left in the buffer; run `protocol_bare` shows the
first byte of the following request go with it.

The number 10000 (`object.c:94`). The comment on `createStringObjectFromLongLong`
says that it creates a string object from the integer it is given.
`value <= REDIS_SHARED_INTEGERS` lets 10000 through to `shared.integers`, which ends
at 9999. What follows in the structure (`redis.h:481` to `484`) is `mbulkhdr[0]`,
the string `*0\r\n`. Run `values_shared` shows it for `INCRBY`. It is the same
wherever a number is made an object: with any one of the five types given its
number of this kind, and no other, TLC finds the refinement violated, when a list,
hash, set or sorted set changes its form (`SADD k 10000`, `SADD k x`,
`SISMEMBER k 10000` gives 0) or in the reply of `SUNION`, `SINTER`, `SPOP`, `LPOP`
or `LINDEX`.

Values of new fields (`t_hash.c:176`). The comment on `hashTypeSet` says that the
given pair is added. The first insertion of a pair into a hash in a ziplist
stores the value with the length of the field: a shorter value is followed by
bytes from behind it, a longer one is cut. Run `values_hash` shows it.

The following are deviations of which no document of the repository speaks, so
that no run states them, or cases that no model here has.

- `t_string.c:237`: `DECRBY` negates its argument, and the least number stays
  what it is: a negative counter is said to overflow, which it would not, and any
  other is decreased, which should be reported as an overflow. The model has the
  wrap; with `MinLL` in `Decrements` TLC finds `ImplementsKeyValue` violated.
- `t_list.c:743` and `t_list.c:567`: `LSET` and `LINDEX` pass a `long` where
  `ziplistIndex` takes an `int`, so an index of 2^32 is the first element of a
  list in a ziplist (`Cut`); with a small `IntHalf` TLC finds
  `ImplementsKeyValue` and `ReadsExact` violated.
- `t_set.c:744`: the count of `SRANDMEMBER` is cut to 32 bits, so that a count of
  2^32 returns nothing; `SRandMember` has it so (`UnsignedMax`), and `ReadsExact`
  speaks of counts below.
- `t_set.c:541`: `SUNION k k` and `SDIFF k k` keep the pointer the first lookup
  returned. If `k` dies before the second, that lookup deletes the key and frees
  the set, which is then read. `SINTER` returns when a key is missing and is
  safe.
- `ziplist.c:759`: an entry of less than 4 bytes inserted before one with a
  length field of five bytes would make the block shrink before it is moved. Such
  fields do not come up (`CascadeNeverDue`).
- `redis.c:1064`: the comment says that all clients are looked at within 10
  seconds. New clients go to the tail of the list, where the rotation takes from,
  so 50 new connections in every call (100 ms) keep the timer away from all
  others. `AllServed` holds because connections come to an end (`Loads`).

## 6. Not modelled

- Persistence and replication: `aof.c`, `rdb.h` and `config.c` have stubs, so
  there is no crash to recover from. Eviction: `maxmemory` is 0.
- `processCommand` and `call`: a lookup in a constant table and a test of the
  number of arguments, with conditions that are never true in this build.
- `sds.c`, `zmalloc.c`, `anet.c`: buffer arithmetic of one caller at a time, a
  counter, thin wrappers of system calls. `utils.c`: pure functions on text;
  pattern matching, parsing and formatting are character by character, and
  nothing else depends on how they do it.
- `INCRBYFLOAT`: `long double` arithmetic and its text. TLC has integers only.
- The hash functions, `dictGetRandomKeys`, `dictDisableResize`, `aeResizeSetSize`,
  `bioKillThreads`, range deletion in sorted sets, the STORE variants of set
  commands, `EXPIRE`, `TTL`, `PERSIST`, `FLUSHDB`: nothing in the program calls
  them.
- Objects across keyspace and types in one model (the `SUNION` item of the list
  above): it would multiply the states of `Keyspace` and `Values`.
- Time as such: the time limit of `activeExpireCycle` and the wait of
  `epoll_wait` adapt to the clock; the models let the limit be reached or not at
  every look at the time, and the wait end at any time.
