------------------------------- MODULE Values -------------------------------
(***************************************************************************)
(* All commands on the value of one key: t_string.c, t_list.c, t_hash.c,   *)
(* t_set.c and t_zset.c together, with the commands that do not care about *)
(* the type.  Every type has a variable of its own, and at most one of     *)
(* them is not Missing.                                                    *)
(***************************************************************************)
EXTENDS Integers, Sequences, FiniteSets

CONSTANTS
  Members, Long, MaxEntries, Heights, Additions, Removals, MaxLevel,  \* SortedSet, SkipList
  MemberShared, MemberHeader,
  Elements, LongElements, ListMaxEntries, MaxLength, Pushes, Indices, \* Lists
  ListShared, ListHeader, IntHalf,
  Bytes, BigLen, MaxCount,                                            \* Ziplist
  Fields, Texts, Length, LongTexts, HashMaxEntries,                   \* Hashes
  HashShared, HashHeader,
  Words, SetMaxEntries, UnsignedMax, Others,                          \* Sets
  SetAdditions, SetRemovals, SetHeader,
  Half,                                                               \* IntSet
  MinLL, MaxLL, SharedIntegers, Increments, Decrements                \* Strings

ASSUME SortedSetAssumption ==
  /\ MaxLevel \in Nat \ {0}
  /\ Members \subseteq Nat \ {0} /\ Long \subseteq Members
  /\ MaxEntries \in Nat /\ Heights \subseteq 1 .. MaxLevel
  /\ \A pairs \in Additions : pairs # <<>> /\ \A i \in DOMAIN pairs : pairs[i].score \in Nat
  /\ {MemberShared, MemberHeader} \subseteq Nat \ {0} /\ MemberHeader \notin Members

\* An entry takes a byte at least, and an element that may be in a ziplist (of
\* 64 bytes at most) makes no entry as long as BigLen (254 bytes).
ASSUME ListAssumption ==
  /\ Elements \subseteq Nat \ {0} /\ LongElements \subseteq Elements
  /\ Bytes \in [Elements -> Nat \ {0}]
  /\ \A v \in Elements \ LongElements : 1 + Bytes[v] < BigLen
  /\ {BigLen, MaxCount, ListMaxEntries, MaxLength, IntHalf} \subseteq Nat \ {0}
  /\ Pushes \subseteq Seq(Elements) \ {<<>>} /\ Indices \subseteq Int
  /\ ListShared \in Nat \ {0} /\ ListHeader \in Nat \ {0}

ASSUME HashAssumption ==
  /\ Fields \subseteq Texts /\ LongTexts \subseteq Texts
  /\ Length \in [Texts -> Nat] /\ HashMaxEntries \in Nat \ {0}
  /\ HashShared \in Texts => HashHeader \in Texts \ Fields

\* A member that is no word is a long long, as the widest encoding holds.
ASSUME SetAssumption ==
  /\ Half \in [1 .. 3 -> Nat \ {0}] /\ Half[1] < Half[2] /\ Half[2] < Half[3]
  /\ Words \subseteq Int /\ {SetMaxEntries, UnsignedMax} \subseteq Nat \ {0}
  /\ SharedIntegers \in Nat \ {0} /\ SetHeader \in Words
  /\ \A vs \in SetAdditions \cup SetRemovals :
       /\ vs \in Seq(Int) \ {<<>>}
       /\ \A i \in DOMAIN vs : vs[i] \in Words \/ vs[i] \in - Half[3] .. Half[3] - 1

ASSUME StringAssumption ==
  /\ MinLL \in Int /\ MinLL > -1000 /\ MaxLL = - MinLL - 1
  /\ Increments \subseteq MinLL .. MaxLL /\ Decrements \subseteq MinLL .. MaxLL

VARIABLES
  zset, list, hash, set, str,  \* the value of the key, in the variable of its type
  call,                        \* the last command, with its arguments
  reply                        \* its reply

\* The view of the runs: what a command does depends on no more than this.
value == <<zset, list, hash, set, str>>

vars == <<zset, list, hash, set, str, call, reply>>

Z == INSTANCE SortedSet
L == INSTANCE Lists
H == INSTANCE Hashes
S == INSTANCE Sets
St == INSTANCE Strings

WrongType == -6

Missing == [enc |-> "none"]

\* The types of the value.
Held ==
  LET of == [zset |-> zset, list |-> list, hash |-> hash, set |-> set, string |-> str]
  IN  {type \in DOMAIN of : of[type] # Missing}

Init ==
  /\ zset = Missing /\ list = Missing /\ hash = Missing /\ set = Missing /\ str = Missing
  /\ call = <<>> /\ reply = 0

\* checkType
Refused ==
  /\ Held # {} /\ call' = <<"refused">> /\ reply' = WrongType
  /\ UNCHANGED <<zset, list, hash, set, str>>

\* SET, whatever the type of the old value.  Numbers are taken from Increments.
Set(s) ==
  /\ str' = s
  /\ zset' = Missing /\ list' = Missing /\ hash' = Missing /\ set' = Missing
  /\ reply' = L!Ok

\* DEL
Del ==
  /\ str' = Missing /\ zset' = Missing /\ list' = Missing /\ hash' = Missing /\ set' = Missing
  /\ reply' = IF Held = {} THEN 0 ELSE 1

Next ==
  \/ Held \subseteq {"zset"} /\ Z!Next /\ UNCHANGED <<list, hash, set, str>>
  \/ Held \subseteq {"list"} /\ L!Next /\ UNCHANGED <<zset, hash, set, str>>
  \/ Held \subseteq {"hash"} /\ H!Next /\ UNCHANGED <<zset, list, set, str>>
  \/ Held \subseteq {"set"} /\ S!Next /\ UNCHANGED <<zset, list, hash, str>>
  \/ Held \subseteq {"string"} /\ St!Next /\ UNCHANGED <<zset, list, hash, set>>
  \/ Refused
  \/ call' = <<"set word">> /\ Set(St!Word)
  \/ \E n \in Increments : call' = <<"set", n>> /\ Set(St!Number(n))
  \/ call' = <<"del">> /\ Del

Spec == Init /\ [][Next]_vars
-----------------------------------------------------------------------------
(* Properties.                                                             *)

SetMembers == UNION {{vs[i] : i \in DOMAIN vs} : vs \in SetAdditions}

Abstract ==
  INSTANCE KeyValue WITH
    score <- Z!Contents,
    items <- L!Items,
    fields <- H!Contents,
    members <- S!MembersAmong(SetMembers),
    str <- IF str = Missing THEN [is |-> "none"]
           ELSE IF str.enc = "int" THEN [is |-> "number", n |-> str.n] ELSE [is |-> "word"]

\* Types, and the bounds within which a value stays in its small form
\* (tryConversion and convert of every type).
TypeOK ==
  /\ reply \in Int
  /\ Cardinality(Held) <= 1
  /\ Z!TypeOK /\ L!TypeOK /\ H!TypeOK /\ S!TypeOK
  /\ str \in {Missing, St!Word, St!Header} \cup {St!Number(n) : n \in MinLL .. MaxLL}

\* The layout of the skip list (zskiplist.c): links, spans, backward pointers.
SpansExact == Z!SpansExact

\* The dictionary beside the skip list points to its nodes only.
PointersExact == Z!PointersExact

\* The block of a list's ziplist (ziplist.c): after every insertion and deletion
\* each entry has the length of the one before it, in a field large enough, and
\* the header has the size of the block, the last entry, the count.
ZiplistExact == L!BlockExact

\* Both chains of a linked list (adlist.c) go through all of its nodes, in
\* opposite orders, between head and tail.
LinksExact == L!ChainsExact

\* An intset (intset.c) is sorted, has no element twice and none that is too
\* wide for its encoding, also after an upgrade.
IntsetExact == set.enc = "intset" => S!IntSetOK(set.is)

KeyLists == LET keys == {S!This} \cup DOMAIN Others IN UNION {[1 .. n -> keys] : n \in 1 .. 3}

\* The commands that only read answer what the abstract value says, in every
\* form: ranks, counts and ranges of a sorted set, LINDEX, HLEN and HGETALL,
\* SISMEMBER, SCARD and SRANDMEMBER, and SINTER, SUNION and SDIFF of up to three
\* keys, no member twice, whichever algorithm is chosen.  The count of SRANDMEMBER
\* is one that 32 bits hold, the index of LINDEX one that an int holds.
ReadsExact ==
  /\ Z!ReadsExact
  /\ list # Missing =>
       \A index \in - MaxLength - 1 .. MaxLength : L!LIndex(index) = Abstract!LIndex(L!Items, index)
  /\ hash # Missing =>
       /\ H!HLen = Cardinality(DOMAIN H!Contents)
       /\ H!HGetAll = {<<H!Whole(f), H!Contents[f]>> : f \in DOMAIN H!Contents}
  /\ set # Missing =>
       LET At(key) == IF key = S!This THEN S!MembersAmong(SetMembers) ELSE S!MembersOf(Others[key])
           Is(seq, members) == Len(seq) = Cardinality(members) /\ {seq[i] : i \in DOMAIN seq} = members
           sets(keys, from) == {At(keys[i]) : i \in from .. Len(keys)}
       IN  /\ S!setTypeSize(set) = Cardinality(At(S!This))
           /\ \A keys \in KeyLists :
                /\ Is(S!sunion(keys), UNION sets(keys, 1))
                /\ Is(S!sdiff(keys), At(keys[1]) \ UNION sets(keys, 2))
                /\ Is(S!sinterGeneric(keys), {v \in At(keys[1]) : \A s \in sets(keys, 2) : v \in s})
           /\ \A count \in - UnsignedMax .. UnsignedMax - 1 : \A r \in S!SRandMember(count) :
                /\ r.members \subseteq At(S!This) /\ Cardinality(r.members) <= r.length
                /\ IF count < 0 THEN r.length = - count
                   ELSE r.length = Cardinality(r.members)
                        /\ (r.length = count \/ (count > r.length /\ r.members = At(S!This)))

\* Every command on every type and form, also while it changes the form, does
\* to the value what it would do to the mathematical object, and replies so; no
\* assertion fails.
ImplementsKeyValue == Abstract!Spec
=============================================================================
