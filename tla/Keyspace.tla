------------------------------ MODULE Keyspace ------------------------------
(***************************************************************************)
(* The databases of db.c with the expiry of db.c and redis.c.  A database  *)
(* is two dictionaries: dict has the value of every key and expires the    *)
(* time of death of some.  Both promise what module DictMap says, and are  *)
(* functions here.  Value objects are their values: how many references an *)
(* object has is the subject of another module.                            *)
(*                                                                         *)
(* A command runs alone, but the clock does not stand still: every lookup  *)
(* reads it anew, and a key can die between two lookups of one command.    *)
(* Between commands the timer runs activeExpireCycle, which visits a few   *)
(* databases at a time, draws keys from their expires dictionaries, and    *)
(* gives up when it has taken too long.                                    *)
(***************************************************************************)
EXTENDS Integers, FiniteSets

CONSTANTS
  dbnum,     \* the number of databases
  Keys,      \* the names of keys
  Vals,      \* the values
  None,      \* no entry, no option, a nil reply
  TTLs,      \* the relative expire times, in milliseconds, that clients give
  MaxTime,   \* bound: the last reading of the clock
  LLMax,     \* LLONG_MAX
  DbsPerCall,      \* REDIS_DBCRON_DBS_PER_CALL
  LookupsPerLoop,  \* ACTIVE_EXPIRE_CYCLE_LOOKUPS_PER_LOOP
  CheckEvery       \* the rounds of activeExpireCycle between two looks at the time

ASSUME CycleAssumption ==
  /\ dbnum \in Nat \ {0} /\ DbsPerCall \in Nat \ {0}
  /\ LookupsPerLoop \in Nat \ {0} /\ CheckEvery \in Nat \ {0}

ASSUME TimeAssumption ==
  /\ MaxTime \in Nat /\ LLMax \in Nat /\ MaxTime <= LLMax
  /\ TTLs \subseteq -LLMax .. LLMax

VARIABLES
  ks,    \* dict and expires of every database; ok: no assertion has failed
  now,   \* the clock, as last read
  cmd,   \* history: the last command, its arguments and its reply
  cron   \* activeExpireCycle: its static variables and, while it runs, its locals

vars == <<ks, now, cmd, cron>>

\* The databases, in the order of server.db.
DBs == 0 .. dbnum - 1

\* The sum of a time and a long long, in a long long.  (The build has no
\* optimisation that would make more of an overflow than a wrap.)
Wrap(n) == IF n > LLMax THEN n - 2 * (LLMax + 1) ELSE n

Times == -LLMax - 1 .. LLMax

\* Key strings of one key in one database: all that matters is whether two
\* references are to the same one.
Strs == {0, 1}

KeyEntry == [str : Strs, val : Vals]
ExpireEntry == [str : Strs, when : Times]

\* What clients can see of a key: its value and time of death.
Life == [val : Vals, when : Times]

ASSUME NoneAssumption == None \notin KeyEntry \cup ExpireEntry \cup Life
-----------------------------------------------------------------------------
(* The functions of db.c.  s is the keyspace a function is called in, its   *)
(* value the one it leaves, and t what mstime() returns.                   *)

Failed(s) == [s EXCEPT !.ok = FALSE]

Present(s, i, k) == s.dict[i][k] # None

\* Key k of database i gets entry e in dict and entry x in expires.
Put(s, i, k, e, x) ==
  [dict |-> [s.dict EXCEPT ![i][k] = e], expires |-> [s.expires EXCEPT ![i][k] = x],
   ok |-> s.ok]

\* sdsdup: a string that no entry of expires refers to.
NewStr(s, i, k) ==
  CHOOSE str \in Strs : s.expires[i][k] = None \/ s.expires[i][k].str # str

dbAdd(s, i, k, v) ==
  IF Present(s, i, k) THEN Failed(s)
  ELSE Put(s, i, k, [str |-> NewStr(s, i, k), val |-> v], s.expires[i][k])

\* dictReplace keeps the key string.
dbOverwrite(s, i, k, v) ==
  IF ~ Present(s, i, k) THEN Failed(s)
  ELSE Put(s, i, k, [str |-> s.dict[i][k].str, val |-> v], s.expires[i][k])

\* dictDelete in dict: the key string is freed with the entry.
DropKey(s, i, k) == Put(s, i, k, None, s.expires[i][k])

\* dictDelete in expires.  To find the entry it compares key strings: one that
\* is in dict no more is freed memory.
DropExpire(s, i, k) ==
  IF s.expires[i][k] # None /\ ~ Present(s, i, k) THEN Failed(s)
  ELSE Put(s, i, k, s.dict[i][k], None)

\* Faulty: the key string is freed while expires borrows it.
dbDeleteKeyFirst(s, i, k) == DropExpire(DropKey(s, i, k), i, k)

dbDelete(s, i, k) == DropKey(DropExpire(s, i, k), i, k)

removeExpire(s, i, k) ==
  IF ~ Present(s, i, k) THEN Failed(s) ELSE Put(s, i, k, s.dict[i][k], None)

\* Faulty: the value of a new entry is never set.
setExpireUnset(s, i, k, w) ==
  LET x == s.expires[i][k]
  IN  IF ~ Present(s, i, k) THEN Failed(s)
      ELSE Put(s, i, k, s.dict[i][k],
               IF x = None THEN [str |-> s.dict[i][k].str, when |-> None]
               ELSE [str |-> x.str, when |-> w])

\* The entry of expires borrows the key string of dict, unless there is an
\* entry already: dictReplaceRaw keeps its key.
setExpire(s, i, k, w) ==
  LET x == s.expires[i][k]
  IN  IF ~ Present(s, i, k) THEN Failed(s)
      ELSE Put(s, i, k, s.dict[i][k],
               [str |-> IF x = None THEN s.dict[i][k].str ELSE x.str, when |-> w])

getExpire(s, i, k) == IF s.expires[i][k] = None THEN -1 ELSE s.expires[i][k].when

\* The tests of expireIfNeeded: when < 0 means no expire time.
Expired(w, t) == w >= 0 /\ t > w

expireIfNeeded(s, i, k, t) ==
  IF s.expires[i][k] # None /\ ~ Present(s, i, k) THEN Failed(s)
  ELSE IF Expired(getExpire(s, i, k), t) THEN dbDelete(s, i, k)
  ELSE s

\* Faulty: whether to add or to overwrite is decided by what was there before
\* the lookup.
setKeyStale(s, i, k, v, t) ==
  LET l == expireIfNeeded(s, i, k, t)
      w == IF Present(s, i, k) THEN dbOverwrite(l, i, k, v) ELSE dbAdd(l, i, k, v)
  IN  removeExpire(w, i, k)

setKey(s, i, k, v, t) ==
  LET l == expireIfNeeded(s, i, k, t)
      w == IF Present(l, i, k) THEN dbOverwrite(l, i, k, v) ELSE dbAdd(l, i, k, v)
  IN  removeExpire(w, i, k)

\* The keys of database i that a lookup at time t would delete.
Dead(s, i, t) == {k \in Keys : Present(s, i, k) /\ Expired(getExpire(s, i, k), t)}

\* dbDelete of every key in D.
Without(s, i, D) ==
  LET Drop(f) == [f EXCEPT ![i] = [k \in Keys |-> IF k \in D THEN None ELSE f[i][k]]]
  IN  [dict |-> Drop(s.dict), expires |-> Drop(s.expires), ok |-> s.ok]
-----------------------------------------------------------------------------
(* Commands.                                                               *)

Ran(op, i, k, arg, reply) ==
  [op |-> op, db |-> i, key |-> k, arg |-> arg, reply |-> reply]

Init ==
  /\ ks = [dict |-> [i \in DBs |-> [k \in Keys |-> None]],
           expires |-> [i \in DBs |-> [k \in Keys |-> None]], ok |-> TRUE]
  /\ now = 0
  /\ cmd = Ran("none", None, None, None, None)
  /\ cron = [current |-> 0, left |-> 0, at |-> None, round |-> 0, exit |-> FALSE]

\* SET with its options, SETNX, SETEX, PSETEX.  t1 is read by the lookup for
\* the options, t2 by the one of setKey and t3 for the time of death.
Set(i, k, v, flags, ttl) ==
  \E t1 \in now .. MaxTime : \E t2 \in t1 .. MaxTime : \E t3 \in t2 .. MaxTime :
    LET l == IF flags = {} THEN ks ELSE expireIfNeeded(ks, i, k, t1)
        s == setKey(l, i, k, v, t2)
        refused == \/ "NX" \in flags /\ Present(l, i, k)
                   \/ "XX" \in flags /\ ~ Present(l, i, k)
    IN  /\ ks' = IF refused THEN l
                 ELSE IF ttl = None THEN s ELSE setExpire(s, i, k, Wrap(t3 + ttl))
        /\ now' = t3
        /\ cmd' = Ran("set", i, k, <<v, flags, ttl>>, IF refused THEN None ELSE "OK")

\* GET, EXISTS, TYPE and every other command that looks one key up to read it.
Lookup(i, k) ==
  \E t \in now .. MaxTime :
    LET l == expireIfNeeded(ks, i, k, t)
    IN  /\ ks' = l
        /\ now' = t
        /\ cmd' = Ran("lookup", i, k, None,
                      IF Present(l, i, k) THEN l.dict[i][k].val ELSE None)

\* One argument of DEL; a command that takes the last element out of a value
\* deletes the key in the same way.
Del(i, k) ==
  \E t \in now .. MaxTime :
    LET l == expireIfNeeded(ks, i, k, t)
    IN  /\ ks' = dbDelete(l, i, k)
        /\ now' = t
        /\ cmd' = Ran("del", i, k, None, IF Present(l, i, k) THEN "one" ELSE "zero")

\* INCR, APPEND, RPUSH, SADD, ... : the key gets a new value and keeps its
\* time of death; if it is not there it is created.  (Refused for the type of
\* the value, the command is a Lookup.)
Alter(i, k, v) ==
  \E t \in now .. MaxTime :
    LET l == expireIfNeeded(ks, i, k, t)
    IN  /\ ks' = IF Present(l, i, k) THEN dbOverwrite(l, i, k, v) ELSE dbAdd(l, i, k, v)
        /\ now' = t
        /\ cmd' = Ran("alter", i, k, v, "OK")

\* Faulty: the time of death stays behind.
RenamedForever(s, i, k, m, w) ==
  LET free == IF Present(s, i, m) THEN dbDelete(s, i, m) ELSE s
  IN  dbDelete(dbAdd(free, i, m, s.dict[i][k].val), i, k)

\* What RENAME does after its lookups: k was found with time of death w.
Renamed(s, i, k, m, w) ==
  LET free == IF Present(s, i, m) THEN dbDelete(s, i, m) ELSE s
      new == dbAdd(free, i, m, s.dict[i][k].val)
  IN  dbDelete(IF w # -1 THEN setExpire(new, i, m, w) ELSE new, i, k)

\* RENAME, RENAMENX
Rename(i, k, m, nx) ==
  \E t1 \in now .. MaxTime : \E t2 \in t1 .. MaxTime :
    LET l == expireIfNeeded(ks, i, k, t1)
        r == expireIfNeeded(l, i, m, t2)
        Answer(reply) == cmd' = Ran("rename", i, k, <<m, nx>>, reply)
    IN  /\ now' = t2
        /\ \/ k = m /\ Answer("ERR") /\ UNCHANGED ks
           \/ k # m /\ ~ Present(l, i, k) /\ Answer("ERR") /\ ks' = l
           \/ k # m /\ Present(l, i, k) /\ nx /\ Present(r, i, m) /\ Answer("zero") /\ ks' = r
           \/ /\ k # m /\ Present(l, i, k) /\ ~ (nx /\ Present(r, i, m))
              /\ Answer("one")
              /\ ks' = Renamed(r, i, k, m, getExpire(l, i, k))

\* MOVE.  The key is persistent in its new database.
Move(i, j, k) ==
  \E t1 \in now .. MaxTime : \E t2 \in t1 .. MaxTime :
    LET l == expireIfNeeded(ks, i, k, t1)
        r == expireIfNeeded(l, j, k, t2)
        Answer(reply) == cmd' = Ran("move", i, k, j, reply)
    IN  /\ now' = t2
        /\ \/ i = j /\ Answer("ERR") /\ UNCHANGED ks
           \/ i # j /\ ~ Present(l, i, k) /\ Answer("zero") /\ ks' = l
           \/ i # j /\ Present(l, i, k) /\ Present(r, j, k) /\ Answer("zero") /\ ks' = r
           \/ /\ i # j /\ Present(l, i, k) /\ ~ Present(r, j, k)
              /\ Answer("one")
              /\ ks' = dbDelete(dbAdd(r, j, k, l.dict[i][k].val), i, k)

\* RANDOMKEY draws keys until one is alive: D are the dead ones it drew.
RandomKey(i) ==
  \E t \in now .. MaxTime : \E D \in SUBSET Dead(ks, i, t) :
    LET left == {k \in Keys : Present(ks, i, k)} \ D
    IN  /\ ks' = Without(ks, i, D)
        /\ now' = t
        /\ \E reply \in IF left = {} THEN {None} ELSE left \ Dead(ks, i, t) :
             cmd' = Ran("randomkey", i, None, None, reply)

\* KEYS, and the filter of SCAN, with the pattern that matches the keys of P:
\* one reading of the clock for each key, between now and t.
KeysOf(i, P) ==
  \E t \in now .. MaxTime : \E D \in SUBSET (P \cap Dead(ks, i, t)) :
    /\ P \cap Dead(ks, i, now) \subseteq D
    /\ ks' = Without(ks, i, D)
    /\ now' = t
    /\ cmd' = Ran("keys", i, None, P, {k \in P : Present(ks, i, k)} \ D)

-----------------------------------------------------------------------------
(* activeExpireCycle.  Nothing else runs between its steps, but time passes. *)

Idle == cron.left = 0 /\ cron.at = None

\* The keys with an entry in expires, and those of them whose time has passed.
Volatile(i) == {k \in Keys : ks.expires[i][k] # None}
Overdue(i) == {k \in Volatile(i) : now > ks.expires[i][k].when}

\* serverCron or beforeSleep calls it.  (The fast cycle of beforeSleep only
\* starts when the last one ran out of time; then both visit all databases.)
CycleStart ==
  /\ Idle
  /\ cron' = [cron EXCEPT !.left = IF DbsPerCall > dbnum \/ cron.exit THEN dbnum
                                   ELSE DbsPerCall,
                          !.round = 0, !.exit = FALSE]
  /\ UNCHANGED <<ks, now, cmd>>

\* Faulty: current_db stays where it is.
NextDBSame ==
  /\ cron.at = None /\ cron.left > 0
  /\ cron' = [cron EXCEPT !.at = cron.current, !.left = @ - 1]
  /\ UNCHANGED <<ks, now, cmd>>

\* It goes on to the next database; current_db is advanced before the visit.
NextDB ==
  /\ cron.at = None /\ cron.left > 0
  /\ cron' = [cron EXCEPT !.at = cron.current, !.left = @ - 1,
                          !.current = (@ + 1) % dbnum]
  /\ UNCHANGED <<ks, now, cmd>>

\* No key of the database has an expire time; or the tables of expires have so
\* many buckets for so few entries that drawing one would take too long.
Skip ==
  /\ cron.at # None
  /\ cron' = [cron EXCEPT !.at = None]
  /\ UNCHANGED <<ks, now, cmd>>

\* One round of the do loop in database i: as many draws from expires as it has
\* entries, but at most LookupsPerLoop.  A key that is drawn and overdue is
\* deleted: those of X.  A draw of any other key is wasted.
Sample(i, X) ==
  LET entries == Cardinality(Volatile(i))
      num == IF entries > LookupsPerLoop THEN LookupsPerLoop ELSE entries
      round == (cron.round + 1) % CheckEvery
  IN  /\ cron.at = i
      /\ Volatile(i) # {}
      /\ X \subseteq Overdue(i)
      /\ Cardinality(X) <= num
      /\ Cardinality(X) < num => Overdue(i) # Volatile(i)
      /\ ks' = Without(ks, i, X)
      /\ \/ round = 0   \* out of time
            /\ cron' = [cron EXCEPT !.left = 0, !.at = None, !.round = 0, !.exit = TRUE]
         \/ cron' = [cron EXCEPT !.round = round,
                       !.at = IF Cardinality(X) > LookupsPerLoop \div 4 THEN i ELSE None]
      /\ UNCHANGED <<now, cmd>>

\* A round in database i that draws key k, overdue.
Draws(i, k) == \E X \in SUBSET Keys : k \in X /\ Sample(i, X)

ActiveExpireCycle ==
  \/ CycleStart
  \/ NextDB
  \/ Skip
  \/ \E i \in DBs, X \in SUBSET Keys : Sample(i, X)

\* The server sleeps in its event loop.
Tick ==
  /\ now < MaxTime
  /\ now' = now + 1
  /\ UNCHANGED <<ks, cmd, cron>>

Command ==
  \/ \E i \in DBs, k \in Keys :
       \/ \E v \in Vals, flags \in SUBSET {"NX", "XX"}, ttl \in TTLs \cup {None} :
            Set(i, k, v, flags, ttl)
       \/ \E v \in Vals : Alter(i, k, v)
       \/ Lookup(i, k) \/ Del(i, k)
       \/ \E m \in Keys, nx \in BOOLEAN : Rename(i, k, m, nx)
       \/ \E j \in DBs : Move(i, j, k)
  \/ \E i \in DBs : RandomKey(i) \/ \E P \in SUBSET Keys : KeysOf(i, P)

Next ==
  \/ Idle /\ Command /\ UNCHANGED cron
  \/ ActiveExpireCycle
  \/ Tick

Spec == Init /\ [][Next]_vars

\* The timer fires as long as the server runs, and a cycle that has started goes
\* on.  The draws are random: a key that can be drawn again and again is drawn
\* some time (with probability one), once the tables are not too empty to try.
FairSpec ==
  /\ Spec
  /\ WF_vars(ActiveExpireCycle)
  /\ \A i \in DBs, k \in Keys : SF_vars(Draws(i, k))
-----------------------------------------------------------------------------
(* Properties.                                                             *)

\* The types of the variables.
TypeOK ==
  /\ ks = [dict |-> ks.dict, expires |-> ks.expires, ok |-> ks.ok]
  /\ ks.dict \in [DBs -> [Keys -> KeyEntry \cup {None}]]
  /\ ks.expires \in [DBs -> [Keys -> ExpireEntry \cup {None}]]
  /\ ks.ok \in BOOLEAN
  /\ now \in 0 .. MaxTime
  /\ cron \in [current : DBs, left : 0 .. dbnum, at : DBs \cup {None},
               round : 0 .. CheckEvery - 1, exit : BOOLEAN]

\* The assertions in dbAdd, dbOverwrite, removeExpire, setExpire and getExpire
\* hold in every command, wherever between its lookups a key dies, and no key
\* string is read that has been freed.
AssertsHold == ks.ok

\* expires is a part of the keyspace, and borrows the very string that dict
\* frees when the key goes: no entry of expires outlives that string.
ExpiresBorrow ==
  \A i \in DBs, k \in Keys :
    ks.expires[i][k] # None =>
      Present(ks, i, k) /\ ks.expires[i][k].str = ks.dict[i][k].str

\* What clients can see: a key that has died is gone, deleted or not.
View ==
  [i \in DBs |-> [k \in Keys |->
    IF ~ Present(ks, i, k) \/ k \in Dead(ks, i, now) THEN None
    ELSE [val |-> ks.dict[i][k].val, when |-> getExpire(ks, i, k)]]]

Logical == INSTANCE LogicalDb WITH db <- View

\* Every command answers and acts as if keys vanished by themselves at their
\* time of death: when they are really deleted, by a lookup or by the timer,
\* cannot be observed.
ImplementsLogical == Logical!Spec

\* A key the timer deletes is one that no lookup would find alive.  (The
\* comment in expireIfNeeded: a negative time means that there is no expire
\* time.)
TimerUnseen ==
  [][\A i \in DBs, X \in SUBSET Keys : Sample(i, X) => View' = View]_vars

\* A dead key that nobody asks for is deleted by the timer: every database has
\* its turn, however often the cycle runs out of time in the others.
DeadCollected ==
  \A i \in DBs, k \in Keys :
    (Present(ks, i, k) /\ k \in Dead(ks, i, now)) ~> ~ (k \in Dead(ks, i, now))
=============================================================================
