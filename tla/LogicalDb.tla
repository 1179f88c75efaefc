----------------------------- MODULE LogicalDb ------------------------------
(***************************************************************************)
(* What the databases promise their clients: keys with a time of death     *)
(* vanish when it has passed, by themselves.  A command takes some time;   *)
(* each key it looks up is judged at a moment within that time.            *)
(***************************************************************************)
EXTENDS Integers

CONSTANTS DBs, Keys, Vals, None, TTLs

VARIABLES
  db,    \* per database and key: its value and time of death (-1: it has none)
  now,   \* the clock
  cmd    \* the last command, its arguments and its reply

vars == <<db, now, cmd>>

Alive(x, t) == x # None /\ (x.when < 0 \/ t <= x.when)

\* The databases at time t: what is dead by then has vanished.
At(b, t) ==
  [i \in DBs |-> [k \in Keys |-> IF Alive(b[i][k], t) THEN b[i][k] ELSE None]]

Moments == now .. now'

Ran(op, i, k, arg) ==
  /\ cmd'.op = op
  /\ cmd'.db = i
  /\ cmd'.key = k
  /\ cmd'.arg = arg

Init ==
  /\ db = [i \in DBs |-> [k \in Keys |-> None]]
  /\ now = 0

\* SET: the options are judged at t, the life of the key starts at u.
Set(i, k, v, flags, ttl) ==
  /\ Ran("set", i, k, <<v, flags, ttl>>)
  /\ \E t \in Moments :
       LET allowed == /\ "NX" \in flags => ~ Alive(db[i][k], t)
                      /\ "XX" \in flags => Alive(db[i][k], t)
       IN  \/ ~ allowed /\ cmd'.reply = None /\ db' = At(db, now')
           \/ /\ allowed /\ cmd'.reply = "OK"
              /\ \E u \in t .. now' :
                   db' = At([db EXCEPT ![i][k] =
                               [val |-> v, when |-> IF ttl = None THEN -1 ELSE u + ttl]],
                            now')

\* GET and the others that read a key.
Lookup(i, k) ==
  /\ Ran("lookup", i, k, None)
  /\ \E t \in Moments :
       cmd'.reply = IF Alive(db[i][k], t) THEN db[i][k].val ELSE None
  /\ db' = At(db, now')

\* DEL of one key.
Del(i, k) ==
  /\ Ran("del", i, k, None)
  /\ \E t \in Moments : cmd'.reply = IF Alive(db[i][k], t) THEN "one" ELSE "zero"
  /\ db' = At([db EXCEPT ![i][k] = None], now')

\* A new value for a key that keeps its time of death, or a new key.
Alter(i, k, v) ==
  /\ Ran("alter", i, k, v)
  /\ \E t \in Moments :
       db' = At([db EXCEPT ![i][k] =
                   [val |-> v, when |-> IF Alive(@, t) THEN @.when ELSE -1]], now')

\* RENAME, RENAMENX: the source is judged at t, the target at u.
Rename(i, k, m, nx) ==
  /\ Ran("rename", i, k, <<m, nx>>)
  /\ \E t \in Moments : \E u \in t .. now' :
       \/ /\ k = m \/ ~ Alive(db[i][k], t)
          /\ cmd'.reply = "ERR"
          /\ db' = At(db, now')
       \/ /\ k # m /\ Alive(db[i][k], t) /\ nx /\ Alive(db[i][m], u)
          /\ cmd'.reply = "zero"
          /\ db' = At(db, now')
       \/ /\ k # m /\ Alive(db[i][k], t) /\ ~ (nx /\ Alive(db[i][m], u))
          /\ cmd'.reply = "one"
          /\ db' = At([db EXCEPT ![i][m] = db[i][k], ![i][k] = None], now')

\* MOVE: the source is judged at t, the target at u; the key comes to stay.
Move(i, j, k) ==
  /\ Ran("move", i, k, j)
  /\ \E t \in Moments : \E u \in t .. now' :
       \/ i = j /\ cmd'.reply = "ERR" /\ db' = At(db, now')
       \/ /\ i # j /\ ~ (Alive(db[i][k], t) /\ ~ Alive(db[j][k], u))
          /\ cmd'.reply = "zero"
          /\ db' = At(db, now')
       \/ /\ i # j /\ Alive(db[i][k], t) /\ ~ Alive(db[j][k], u)
          /\ cmd'.reply = "one"
          /\ db' = At([db EXCEPT ![j][k] = [db[i][k] EXCEPT !.when = -1],
                                 ![i][k] = None], now')

\* RANDOMKEY: a key that lives at some moment of the command.
RandomKey(i) ==
  /\ Ran("randomkey", i, None, None)
  /\ \E t \in Moments :
       LET alive == {k \in Keys : Alive(db[i][k], t)}
       IN  cmd'.reply \in IF alive = {} THEN {None} ELSE alive
  /\ db' = At(db, now')

\* KEYS: every matching key that lives through the command, and none that is
\* dead from the start.
KeysOf(i, P) ==
  LET AliveAt(t) == {k \in P : Alive(db[i][k], t)}
  IN  /\ Ran("keys", i, None, P)
      /\ AliveAt(now') \subseteq cmd'.reply
      /\ cmd'.reply \subseteq AliveAt(now)
      /\ db' = At(db, now')

\* Time passes, and what dies vanishes.
Pass ==
  /\ cmd' = cmd
  /\ now' > now
  /\ db' = At(db, now')

Next ==
  /\ now' >= now
  /\ \/ \E i \in DBs, k \in Keys :
          \/ \E v \in Vals, flags \in SUBSET {"NX", "XX"}, ttl \in TTLs \cup {None} :
               Set(i, k, v, flags, ttl)
          \/ \E v \in Vals : Alter(i, k, v)
          \/ Lookup(i, k) \/ Del(i, k)
          \/ \E m \in Keys, nx \in BOOLEAN : Rename(i, k, m, nx)
          \/ \E j \in DBs : Move(i, j, k)
     \/ \E i \in DBs : RandomKey(i) \/ \E P \in SUBSET Keys : KeysOf(i, P)
     \/ Pass

Spec == Init /\ [][Next]_vars
=============================================================================
