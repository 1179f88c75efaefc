------------------------------ MODULE Strings ------------------------------
(***************************************************************************)
(* t_string.c: the numbers kept in strings.  A string is the number that   *)
(* it spells, or one of the texts that spell none.                         *)
(***************************************************************************)
EXTENDS Integers

CONSTANTS
  MinLL, MaxLL,     \* LLONG_MIN and LLONG_MAX
  SharedIntegers,   \* REDIS_SHARED_INTEGERS
  Increments,       \* the arguments of INCRBY
  Decrements        \* the arguments of DECRBY

VARIABLES
  str,              \* the value of the key
  call,              \* the last command, with its arguments
  reply             \* its reply

Missing == [enc |-> "none"]
Number(n) == [enc |-> "int", n |-> n]
Word == [enc |-> "raw", text |-> "word"]
\* "*0\r\n", the first of the headers that follow the shared integers in memory.
Header == [enc |-> "raw", text |-> "header"]

\* Replies other than the number that is stored.
Ok == -1000
NotANumber == -1001
Overflow == -1002
Garbage == -1003

\* strtoll reads no number from a text.
IsNumber(s) == s.enc = "int"

Width == MaxLL - MinLL + 1
Wrapped(n) == ((n - MinLL) % Width) + MinLL

\* createStringObjectFromLongLong: the number SharedIntegers is looked up among
\* the shared integers, one behind the last of them.
createStringObjectFromLongLong(n) == IF n = SharedIntegers THEN Header ELSE Number(n)

Absent == str = Missing
OldValue == IF Absent THEN 0 ELSE str.n

Overflows(old, incr) ==
  \/ incr < 0 /\ old < 0 /\ incr < MinLL - old
  \/ incr > 0 /\ old > 0 /\ incr > MaxLL - old

\* incrDecrCommand
IncrDecr(incr) ==
  LET new == createStringObjectFromLongLong(Wrapped(OldValue + incr))
  IN  IF ~ Absent /\ ~ IsNumber(str) THEN UNCHANGED str /\ reply' = NotANumber
      ELSE IF Overflows(OldValue, incr) THEN UNCHANGED str /\ reply' = Overflow
      ELSE str' = new /\ reply' = IF IsNumber(new) THEN new.n ELSE Garbage

Incr == IncrDecr(1)
Decr == IncrDecr(-1)
IncrBy(n) == IncrDecr(n)
\* The argument is negated first; there is no number to negate LLONG_MIN to.
DecrBy(n) == IncrDecr(Wrapped(- n))

Next ==
  \/ call' = <<"incr">> /\ Incr
  \/ call' = <<"decr">> /\ Decr
  \/ \E n \in Increments : call' = <<"incrby", n>> /\ IncrBy(n)
  \/ \E n \in Decrements : call' = <<"decrby", n>> /\ DecrBy(n)
=============================================================================
