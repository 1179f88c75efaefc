------------------------------ MODULE BioProofs ------------------------------
(***************************************************************************)
(* Proofs about Bio, for any set of types of jobs: jobs are run in order   *)
(* and once, and a thread that runs a job does not hold the mutex.         *)
(***************************************************************************)
EXTENDS Bio, SequenceTheorems, TLAPS

Places == {At("start"), At("look"), At("wait"), At("woken")}
Threads == Places \cup {Running(job) : job \in Nat} \cup {Ran(job) : job \in Nat}
Mains == {Away} \cup {Main(place, t) : place \in {"lock", "append", "signal", "unlock"}, t \in Types}

BioTypes ==
  /\ jobs \in [Types -> Seq(Nat)] /\ pending \in [Types -> Nat]
  /\ owner \in [Types -> {"main", "thread", "none"}]
  /\ main \in Mains /\ thread \in [Types -> Threads]
  /\ created \in [Types -> Nat] /\ done \in [Types -> Seq(Nat)]

\* The job that a thread has in hand is the first of its queue, and the next to
\* be finished: it has been appended to done if it was run.
InHand(t) ==
  /\ thread[t].at \in {"run", "ran"} =>
       jobs[t] # <<>> /\ thread[t].job = jobs[t][1]
  /\ thread[t].at = "ran" => done[t] # <<>>

\* Neither property is inductive alone: that the deletion takes away the right
\* job needs InHand, and that no other step disturbs what a thread has in hand
\* needs that additions go to the other end.
BioInv ==
  /\ BioTypes /\ JobsInOrder /\ MutexFreeDuringJob
  /\ \A t \in Types : InHand(t)
-----------------------------------------------------------------------------
\* A place in the code, and no job, or a job.
LEMMA ThreadPlaces ==
  ASSUME NEW th \in Threads
  PROVE  /\ \A place \in {"start", "look", "wait", "woken"} : th = At(place) <=> th.at = place
         /\ th.at \in {"run", "ran"} => th.job \in Nat
         /\ th.at \in {"start", "look", "wait", "woken", "run", "ran"}
BY DEF Threads, Places, At, Running, Ran

\* What is left of a queue without its first job.
LEMMA WithoutFirst ==
  ASSUME NEW s \in Seq(Nat), s # <<>>
  PROVE  /\ RemoveAt(s, 1) \in Seq(Nat)
         /\ Len(RemoveAt(s, 1)) = Len(s) - 1
         /\ \A i \in 1 .. Len(s) - 1 : RemoveAt(s, 1)[i] = s[i + 1]
<1>1. SubSeq(s, 1, 0) = <<>> /\ Len(s) \in Nat \ {0}
  BY EmptySeq, SubSeqEmpty
<1>2. \A i \in 2 .. Len(s) : s[i] \in Nat
  BY <1>1, ElementOfSeq
<1> DEFINE n == Len(s)
           r == SubSeq(s, 2, n)
<1>3. /\ r \in Seq(Nat) /\ Len(r) = n - 1
      /\ \A i \in 1 .. n - 1 : r[i] = s[i + 1]
  <2>1. n \in Int /\ 2 \in Int /\ \A i \in 2 .. n : s[i] \in Nat
    BY <1>1, <1>2
  <2> HIDE DEF n
  <2>2. /\ r \in Seq(Nat) /\ Len(r) = IF 2 <= n THEN n - 2 + 1 ELSE 0
        /\ \A i \in 1 .. n - 2 + 1 : r[i] = s[2 + i - 1]
    BY <2>1, SubSeqProperties
  <2>3. n \in Nat \ {0}
    BY <1>1 DEF n
  <2>4. QED
    BY <2>2, <2>3
<1>4. RemoveAt(s, 1) = SubSeq(s, 2, Len(s))
  BY <1>1, <1>3 DEF RemoveAt
<1>5. QED
  BY <1>3, <1>4

\* What JobsInOrder and MutexFreeDuringJob say of one type.
InOrder(t) ==
  /\ \A i \in DOMAIN done[t] : done[t][i] = i
  /\ \A i \in DOMAIN jobs[t] : jobs[t][i] = Finished(t) + i
  /\ Finished(t) + Len(jobs[t]) = created[t]
  /\ pending[t] = Len(jobs[t])

Held(t) ==
  /\ owner[t] = "thread" <=> thread[t].at = "look"
  /\ owner[t] = "main" <=> main \in {Main(place, t) : place \in {"append", "signal", "unlock"}}

LEMMA OneByOne ==
  /\ BioInv <=> BioTypes /\ \A t \in Types : InOrder(t) /\ Held(t) /\ InHand(t)
  /\ BioInv' <=> BioTypes' /\ \A t \in Types : InOrder(t)' /\ Held(t)' /\ InHand(t)'
BY DEF BioInv, JobsInOrder, MutexFreeDuringJob, InOrder, Held

\* InOrder in terms of lengths.
LEMMA OrderFacts ==
  ASSUME BioTypes, NEW t \in Types, InOrder(t)
  PROVE  /\ Len(done[t]) \in Nat /\ Len(jobs[t]) \in Nat /\ Finished(t) \in Int
         /\ \A i \in 1 .. Len(done[t]) : done[t][i] = i
         /\ \A i \in 1 .. Len(jobs[t]) : jobs[t][i] = Finished(t) + i
         /\ Finished(t) + Len(jobs[t]) = created[t] /\ pending[t] = Len(jobs[t])
<1>1. done[t] \in Seq(Nat) /\ jobs[t] \in Seq(Nat)
  BY DEF BioTypes
<1>2. /\ Len(done[t]) \in Nat /\ DOMAIN done[t] = 1 .. Len(done[t])
      /\ Len(jobs[t]) \in Nat /\ DOMAIN jobs[t] = 1 .. Len(jobs[t])
  BY <1>1
<1>3. Finished(t) \in Int
  BY <1>2 DEF Finished
<1>4. QED
  BY <1>2, <1>3 DEF InOrder

LEMMA InitSound == BioInit => BioInv
<1> SUFFICES ASSUME BioInit PROVE BioInv
  OBVIOUS
<1>1. BioTypes
  BY DEF BioInit, BioTypes, Mains, Threads, Places
<1>2. ASSUME NEW t \in Types PROVE InOrder(t) /\ Held(t) /\ InHand(t)
  <2>1. /\ jobs[t] = <<>> /\ pending[t] = 0 /\ owner[t] = "none" /\ main.at = "away"
        /\ thread[t].at = "start" /\ created[t] = 0 /\ done[t] = <<>>
    BY DEF BioInit, At, Away
  <2>2. Len(jobs[t]) = 0 /\ DOMAIN jobs[t] = {} /\ Len(done[t]) = 0 /\ DOMAIN done[t] = {}
    BY <2>1
  <2>3. Finished(t) = 0
    BY <2>1, <2>2 DEF Finished
  <2>4. InOrder(t)
    BY <2>1, <2>2, <2>3 DEF InOrder
  <2>5. Held(t) /\ InHand(t)
    BY <2>1 DEF Held, InHand, Main
  <2>6. QED
    BY <2>4, <2>5
<1>3. QED
  BY <1>1, <1>2, OneByOne
-----------------------------------------------------------------------------
(* The steps.                                                              *)

\* A step that leaves the queue of a type alone, and its thread at least as to
\* whether it has a job in hand, keeps the order.
LEMMA QueueKept ==
  ASSUME BioTypes, BioTypes', NEW t \in Types, InOrder(t), InHand(t),
         jobs'[t] = jobs[t], pending'[t] = pending[t],
         created'[t] = created[t], done'[t] = done[t],
         \/ thread'[t] = thread[t]
         \/ {thread[t].at, thread'[t].at} \cap {"run", "ran"} = {}
  PROVE  InOrder(t)' /\ InHand(t)'
<1>1. Finished(t)' = Finished(t)
  BY DEF Finished
<1>2. QED
  BY <1>1 DEF InOrder, InHand

LEMMA CreateSound ==
  ASSUME BioInv, NEW t \in Types, Create(t)
  PROVE  BioInv'
<1>1. BioTypes'
  BY DEF BioInv, BioTypes, Create, Mains
<1>2. ASSUME NEW u \in Types PROVE InOrder(u)' /\ Held(u)' /\ InHand(u)'
  <2>1. InOrder(u) /\ Held(u) /\ InHand(u) /\ BioTypes
    BY OneByOne
  <2>2. InOrder(u)' /\ InHand(u)'
    BY <1>1, <2>1, QueueKept DEF Create
  <2>3. Held(u)'
    BY <2>1 DEF Create, Held, Away, Main
  <2>4. QED
    BY <2>2, <2>3
<1>3. QED
  BY <1>1, <1>2, OneByOne

LEMMA CreateLockSound ==
  ASSUME BioInv, NEW t \in Types, CreateLock(t)
  PROVE  BioInv'
<1>1. BioTypes'
  BY DEF BioInv, BioTypes, CreateLock, Mains
<1>2. ASSUME NEW u \in Types PROVE InOrder(u)' /\ Held(u)' /\ InHand(u)'
  <2>1. InOrder(u) /\ Held(u) /\ InHand(u) /\ BioTypes
    BY OneByOne
  <2>2. InOrder(u)' /\ InHand(u)'
    BY <1>1, <2>1, QueueKept DEF CreateLock
  <2>3. Held(u)'
    BY <2>1 DEF CreateLock, BioTypes, Held, Main
  <2>4. QED
    BY <2>2, <2>3
<1>3. QED
  BY <1>1, <1>2, OneByOne

LEMMA CreateAppendSound ==
  ASSUME BioInv, NEW t \in Types, CreateAppend(t)
  PROVE  BioInv'
<1>1. BioTypes /\ created[t] \in Nat /\ pending[t] \in Nat /\ jobs[t] \in Seq(Nat)
  BY DEF BioInv, BioTypes
<1>2. BioTypes'
  BY <1>1 DEF BioTypes, CreateAppend, Mains
<1>3. ASSUME NEW u \in Types PROVE InOrder(u)' /\ Held(u)' /\ InHand(u)'
  <2>1. InOrder(u) /\ Held(u) /\ InHand(u)
    BY OneByOne
  <2>2. Held(u)'
    BY <2>1 DEF CreateAppend, Held, Main
  <2>3. CASE u # t
    BY <1>1, <1>2, <2>1, <2>2, <2>3, QueueKept DEF CreateAppend, BioTypes
  <2>4. CASE u = t
    <3>1. /\ jobs'[t] = Append(jobs[t], created[t] + 1)
          /\ pending'[t] = pending[t] + 1 /\ created'[t] = created[t] + 1
          /\ done'[t] = done[t] /\ thread'[t] = thread[t]
      BY <1>1 DEF CreateAppend, BioTypes
    <3>2. /\ Len(jobs'[t]) = Len(jobs[t]) + 1
          /\ \A i \in 1 .. Len(jobs[t]) : jobs'[t][i] = jobs[t][i]
          /\ jobs'[t][Len(jobs[t]) + 1] = created[t] + 1
          /\ DOMAIN jobs'[t] = 1 .. Len(jobs[t]) + 1 /\ DOMAIN jobs[t] = 1 .. Len(jobs[t])
      BY <1>1, <3>1
    <3>3. Finished(t)' = Finished(t) /\ Finished(t) \in Int
      BY <1>1, <3>1 DEF Finished, BioTypes
    <3>4. InOrder(t)'
      <4>1. \A i \in DOMAIN done'[t] : done'[t][i] = i
        BY <2>1, <2>4, <3>1 DEF InOrder
      <4>2. \A i \in DOMAIN jobs'[t] : jobs'[t][i] = Finished(t) + i
        <5>1. Len(jobs[t]) \in Nat /\ Finished(t) + Len(jobs[t]) = created[t]
          BY <1>1, <2>1, <2>4 DEF InOrder
        <5>2. \A i \in 1 .. Len(jobs[t]) : jobs'[t][i] = Finished(t) + i
          BY <2>1, <2>4, <3>2 DEF InOrder
        <5>3. jobs'[t][Len(jobs[t]) + 1] = Finished(t) + (Len(jobs[t]) + 1)
          BY <1>1, <3>2, <3>3, <5>1
        <5>4. QED
          BY <3>2, <5>1, <5>2, <5>3
      <4>3. Finished(t) + Len(jobs'[t]) = created'[t] /\ pending'[t] = Len(jobs'[t])
        BY <1>1, <2>1, <2>4, <3>1, <3>2, <3>3 DEF InOrder
      <4>4. QED
        BY <3>3, <4>1, <4>2, <4>3 DEF InOrder
    <3>5. InHand(t)'
      BY <1>1, <2>1, <2>4, <3>1, <3>2 DEF InHand
    <3>6. QED
      BY <2>2, <2>4, <3>4, <3>5
  <2>5. QED
    BY <2>3, <2>4
<1>4. QED
  BY <1>2, <1>3, OneByOne

LEMMA CreateSignalSound ==
  ASSUME BioInv, NEW t \in Types, CreateSignal(t)
  PROVE  BioInv'
<1>1. BioTypes /\ thread[t] \in Threads
  BY DEF BioInv, BioTypes
<1>2. Signalled(t) \in Threads
  BY <1>1 DEF Signalled, Threads, Places
<1>3. BioTypes'
  BY <1>1, <1>2 DEF BioTypes, CreateSignal, Mains
<1>4. \/ Signalled(t) = thread[t]
      \/ Signalled(t).at = "woken" /\ thread[t].at = "wait"
  BY DEF Signalled, At
<1>5. ASSUME NEW u \in Types PROVE InOrder(u)' /\ Held(u)' /\ InHand(u)'
  <2>1. InOrder(u) /\ Held(u) /\ InHand(u)
    BY OneByOne
  <2>2. \/ thread'[u] = thread[u]
        \/ thread'[u].at = "woken" /\ thread[u].at = "wait"
    BY <1>1, <1>4 DEF CreateSignal, BioTypes
  <2>3. InOrder(u)' /\ InHand(u)'
    BY <1>1, <1>3, <2>1, <2>2, QueueKept DEF CreateSignal
  <2>4. Held(u)'
    BY <2>1, <2>2 DEF CreateSignal, Held, Main
  <2>5. QED
    BY <2>3, <2>4
<1>6. QED
  BY <1>3, <1>5, OneByOne

LEMMA CreateUnlockSound ==
  ASSUME BioInv, NEW t \in Types, CreateUnlock(t)
  PROVE  BioInv'
<1>1. BioTypes'
  BY DEF BioInv, BioTypes, CreateUnlock, Mains
<1>2. ASSUME NEW u \in Types PROVE InOrder(u)' /\ Held(u)' /\ InHand(u)'
  <2>1. InOrder(u) /\ Held(u) /\ InHand(u) /\ BioTypes
    BY OneByOne
  <2>2. InOrder(u)' /\ InHand(u)'
    BY <1>1, <2>1, QueueKept DEF CreateUnlock
  <2>3. Held(t)
    BY OneByOne
  <2>4. Held(u)'
    BY <2>1, <2>3 DEF CreateUnlock, BioTypes, Held, Main, Away
  <2>5. QED
    BY <2>2, <2>4
<1>3. QED
  BY <1>1, <1>2, OneByOne

\* ThreadLock, ThreadWait and SpuriousWakeup: from one place to another.
LEMMA PlaceChanged ==
  ASSUME BioInv, BioTypes', NEW t \in Types,
         \A u \in Types : Held(u)',
         NEW place \in {"start", "look", "wait", "woken"},
         thread[t].at \in {"start", "look", "wait", "woken"},
         thread' = [thread EXCEPT ![t] = At(place)],
         UNCHANGED <<jobs, pending, created, done>>
  PROVE  BioInv'
<1>1. ASSUME NEW u \in Types PROVE InOrder(u)' /\ InHand(u)'
  <2>1. BioTypes /\ InOrder(u) /\ InHand(u)
    BY OneByOne
  <2>2. \/ thread'[u] = thread[u]
        \/ thread[u].at \notin {"run", "ran"} /\ thread'[u].at \notin {"run", "ran"}
    BY <2>1 DEF BioTypes, At
  <2>3. QED
    BY <2>1, <2>2, QueueKept
<1>2. QED
  BY <1>1, OneByOne

LEMMA ThreadLockSound ==
  ASSUME BioInv, NEW t \in Types, ThreadLock(t)
  PROVE  BioInv'
<1>1. BioTypes /\ BioTypes'
  BY DEF BioInv, BioTypes, ThreadLock, Threads, Places
<1>2. thread[t].at \in {"start", "woken"}
  BY DEF ThreadLock, At
<1>3. ASSUME NEW u \in Types PROVE Held(u)'
  <2>1. Held(u) /\ Held(t)
    BY OneByOne
  <2>2. QED
    BY <1>1, <2>1 DEF ThreadLock, BioTypes, Held, At
<1>4. QED
  BY <1>1, <1>2, <1>3, PlaceChanged DEF ThreadLock

LEMMA ThreadWaitSound ==
  ASSUME BioInv, NEW t \in Types, ThreadWait(t)
  PROVE  BioInv'
<1>1. BioTypes /\ BioTypes'
  BY DEF BioInv, BioTypes, ThreadWait, Threads, Places
<1>2. thread[t].at = "look"
  BY DEF ThreadWait, At
<1>3. ASSUME NEW u \in Types PROVE Held(u)'
  <2>1. Held(u) /\ Held(t)
    BY OneByOne
  <2>2. QED
    BY <1>1, <1>2, <2>1 DEF ThreadWait, BioTypes, Held, At
<1>4. QED
  BY <1>1, <1>2, <1>3, PlaceChanged DEF ThreadWait

LEMMA SpuriousWakeupSound ==
  ASSUME BioInv, NEW t \in Types, SpuriousWakeup(t)
  PROVE  BioInv'
<1>1. BioTypes /\ BioTypes'
  BY DEF BioInv, BioTypes, SpuriousWakeup, Threads, Places
<1>2. thread[t].at = "wait"
  BY DEF SpuriousWakeup, At
<1>3. ASSUME NEW u \in Types PROVE Held(u)'
  <2>1. Held(u) /\ Held(t)
    BY OneByOne
  <2>2. QED
    BY <1>1, <1>2, <2>1 DEF SpuriousWakeup, BioTypes, Held, At
<1>4. QED
  BY <1>1, <1>2, <1>3, PlaceChanged DEF SpuriousWakeup

LEMMA ThreadTakeSound ==
  ASSUME BioInv, NEW t \in Types, ThreadTake(t)
  PROVE  BioInv'
<1>1. BioTypes /\ jobs[t] \in Seq(Nat) /\ jobs[t] # <<>> /\ thread[t].at = "look"
  BY DEF BioInv, BioTypes, ThreadTake, At
<1>2. Head(jobs[t]) = jobs[t][1] /\ Head(jobs[t]) \in Nat
  BY <1>1, HeadTailProperties
<1>3. BioTypes'
  BY <1>1, <1>2 DEF ThreadTake, BioTypes, Threads
<1>4. thread'[t].at = "run" /\ thread'[t].job = jobs[t][1]
  BY <1>1, <1>2 DEF ThreadTake, BioTypes, Running
<1>5. ASSUME NEW u \in Types PROVE InOrder(u)' /\ Held(u)' /\ InHand(u)'
  <2>1. InOrder(u) /\ Held(u) /\ InHand(u) /\ Held(t)
    BY OneByOne
  <2>2. Held(u)'
    BY <1>1, <1>4, <2>1 DEF ThreadTake, BioTypes, Held
  <2>3. CASE u # t
    BY <1>1, <1>3, <2>1, <2>2, <2>3, QueueKept DEF ThreadTake, BioTypes
  <2>4. CASE u = t
    <3>1. Finished(t)' = Finished(t)
      BY <1>1, <1>4 DEF ThreadTake, Finished
    <3>2. InOrder(t)'
      BY <2>1, <2>4, <3>1 DEF ThreadTake, InOrder
    <3>3. InHand(t)'
      BY <1>1, <1>4 DEF ThreadTake, InHand
    <3>4. QED
      BY <2>2, <2>4, <3>2, <3>3
  <2>5. QED
    BY <2>3, <2>4
<1>6. QED
  BY <1>3, <1>5, OneByOne

LEMMA ThreadRunSound ==
  ASSUME BioInv, NEW t \in Types, ThreadRun(t)
  PROVE  BioInv'
<1> DEFINE job == thread[t].job
<1>1. /\ BioTypes /\ thread[t] \in Threads /\ thread[t].at = "run" /\ job \in Nat
      /\ done[t] \in Seq(Nat) /\ jobs[t] \in Seq(Nat) /\ Len(done[t]) \in Nat
  BY ThreadPlaces DEF BioInv, BioTypes, ThreadRun
<1>2. thread' = [thread EXCEPT ![t] = Ran(job)] /\ done' = [done EXCEPT ![t] = Append(@, job)]
  BY <1>1 DEF ThreadRun, BioTypes
<1>3. BioTypes'
  <2>1. Ran(job) \in Threads /\ Append(done[t], job) \in Seq(Nat)
    BY <1>1 DEF Threads
  <2>2. thread' \in [Types -> Threads] /\ done' \in [Types -> Seq(Nat)]
    BY <1>1, <1>2, <2>1 DEF BioTypes
  <2>3. QED
    BY <1>1, <2>2 DEF ThreadRun, BioTypes
<1>4. /\ thread'[t].at = "ran" /\ thread'[t].job = job
      /\ done'[t] = Append(done[t], job)
  BY <1>1, <1>2 DEF BioTypes, Ran
<1>5. /\ Len(done'[t]) = Len(done[t]) + 1 /\ done'[t] # <<>>
      /\ DOMAIN done'[t] = 1 .. Len(done[t]) + 1 /\ DOMAIN done[t] = 1 .. Len(done[t])
      /\ \A i \in 1 .. Len(done[t]) : done'[t][i] = done[t][i]
      /\ done'[t][Len(done[t]) + 1] = job
  <2> HIDE DEF job
  <2> DEFINE s == done[t]
  <2>1. s \in Seq(Nat) /\ job \in Nat /\ done'[t] = Append(s, job)
    BY <1>1, <1>4
  <2> HIDE DEF s
  <2>2. /\ Len(Append(s, job)) = Len(s) + 1 /\ Append(s, job) # <<>>
        /\ \A i \in 1 .. Len(s) : Append(s, job)[i] = s[i]
        /\ Append(s, job)[Len(s) + 1] = job
    BY <2>1, AppendProperties
  <2>3. DOMAIN Append(s, job) = 1 .. Len(s) + 1 /\ DOMAIN s = 1 .. Len(s)
    BY <2>1
  <2>4. QED
    BY <2>1, <2>2, <2>3 DEF s
<1>6. ASSUME NEW u \in Types PROVE InOrder(u)' /\ Held(u)' /\ InHand(u)'
  <2>1. InOrder(u) /\ Held(u) /\ InHand(u) /\ Held(t)
    BY OneByOne
  <2>2. Held(u)'
    BY <1>1, <1>2, <1>4, <2>1 DEF ThreadRun, BioTypes, Held
  <2>3. CASE u # t
    BY <1>1, <1>3, <2>1, <2>2, <2>3, QueueKept DEF ThreadRun, BioTypes
  <2>4. CASE u = t
    <3>1. Finished(t)' = Finished(t) /\ Finished(t) = Len(done[t])
      BY <1>1, <1>4, <1>5 DEF Finished
    <3>2. jobs[t] # <<>> /\ job = jobs[t][1] /\ 1 \in DOMAIN jobs[t]
      BY <1>1, <2>1, <2>4, EmptySeq DEF InHand
    <3>3. job = Len(done[t]) + 1
      <4>1. jobs[t][1] = Finished(t) + 1
        BY <1>1, <2>1, <2>4, <3>2, OrderFacts
      <4>2. QED
        BY <3>1, <3>2, <4>1
    <3>4. \A i \in DOMAIN done'[t] : done'[t][i] = i
      <4>1. \A i \in 1 .. Len(done[t]) : done'[t][i] = i
        BY <1>1, <1>5, <2>1, <2>4, OrderFacts
      <4>2. done'[t][Len(done[t]) + 1] = Len(done[t]) + 1
        BY <1>5, <3>3
      <4>3. QED
        BY <1>1, <1>5, <4>1, <4>2
    <3>5. InOrder(t)'
      BY <2>1, <2>4, <3>1, <3>4 DEF ThreadRun, InOrder
    <3>6. InHand(t)'
      BY <1>4, <1>5, <3>2 DEF ThreadRun, InHand
    <3>7. QED
      BY <2>2, <2>4, <3>5, <3>6
  <2>5. QED
    BY <2>3, <2>4
<1>7. QED
  BY <1>3, <1>6, OneByOne

\* The job that is deleted is the first: that is the one the thread has in hand,
\* and no job is in the queue twice.
LEMMA ThreadDeleteSound ==
  ASSUME BioInv, NEW t \in Types, ThreadDelete(t)
  PROVE  BioInv'
<1>1. /\ BioTypes /\ thread[t].at = "ran" /\ thread[t].job \in Nat /\ owner[t] = "none"
      /\ done[t] \in Seq(Nat) /\ jobs[t] \in Seq(Nat) /\ pending[t] \in Nat
      /\ Len(done[t]) \in Nat /\ Len(jobs[t]) \in Nat /\ DOMAIN jobs[t] = 1 .. Len(jobs[t])
  BY ThreadPlaces DEF BioInv, BioTypes, ThreadDelete
<1>2. InOrder(t) /\ InHand(t)
  BY OneByOne
<1>3. jobs[t] # <<>> /\ thread[t].job = jobs[t][1] /\ Len(jobs[t]) >= 1
  BY <1>1, <1>2, EmptySeq DEF InHand
<1>4. jobs' = [jobs EXCEPT ![t] = RemoveAt(jobs[t], 1)]
  <2>1. PICK i \in DOMAIN jobs[t] : jobs[t][i] = jobs[t][1] /\ jobs' = [jobs EXCEPT ![t] = RemoveAt(@, i)]
    BY <1>3 DEF ThreadDelete
  <2>2. i = 1
    <3>1. jobs[t][i] = Finished(t) + i /\ jobs[t][1] = Finished(t) + 1 /\ Finished(t) \in Int
      BY <1>1, <1>2, <1>3, <2>1, OrderFacts
    <3>2. i \in Int /\ jobs[t][i] = jobs[t][1]
      BY <1>1, <2>1
    <3>3. QED
      BY <3>1, <3>2
  <2>3. QED
    BY <2>1, <2>2
<1>5. /\ jobs'[t] \in Seq(Nat) /\ Len(jobs'[t]) = Len(jobs[t]) - 1
      /\ \A i \in 1 .. Len(jobs[t]) - 1 : jobs'[t][i] = jobs[t][i + 1]
  <2>1. jobs'[t] = RemoveAt(jobs[t], 1)
    BY <1>1, <1>4 DEF BioTypes
  <2>2. QED
    BY <1>1, <1>3, <2>1, WithoutFirst
<1>6. pending[t] = Len(jobs[t])
  BY <1>2 DEF InOrder
<1>7. pending'[t] = pending[t] - 1 /\ pending'[t] \in Nat
  BY <1>1, <1>3, <1>6 DEF ThreadDelete, BioTypes
<1>8. BioTypes'
  <2>1. jobs' \in [Types -> Seq(Nat)]
    BY <1>1, <1>4, <1>5 DEF BioTypes
  <2>2. pending' \in [Types -> Nat]
    BY <1>1, <1>7 DEF ThreadDelete, BioTypes
  <2>3. thread' \in [Types -> Threads] /\ owner' \in [Types -> {"main", "thread", "none"}]
    BY <1>1 DEF ThreadDelete, BioTypes, Threads, Places
  <2>4. QED
    BY <1>1, <2>1, <2>2, <2>3 DEF ThreadDelete, BioTypes
<1>9. thread'[t].at = "look" /\ owner'[t] = "thread" /\ done'[t] = done[t] /\ created'[t] = created[t]
  BY <1>1 DEF ThreadDelete, BioTypes, At
<1>10. ASSUME NEW u \in Types PROVE InOrder(u)' /\ Held(u)' /\ InHand(u)'
  <2>1. InOrder(u) /\ Held(u) /\ InHand(u) /\ Held(t)
    BY OneByOne
  <2>2. Held(u)'
    BY <1>1, <1>9, <2>1 DEF ThreadDelete, BioTypes, Held
  <2>3. CASE u # t
    BY <1>1, <1>8, <2>1, <2>2, <2>3, QueueKept DEF ThreadDelete, BioTypes
  <2>4. CASE u = t
    <3>1. Finished(t) = Len(done[t]) - 1 /\ Finished(t)' = Len(done[t])
      BY <1>1, <1>9 DEF Finished
    <3>2. DOMAIN jobs'[t] = 1 .. Len(jobs[t]) - 1
      BY <1>5
    <3>3. \A i \in DOMAIN jobs'[t] : jobs'[t][i] = Len(done[t]) + i
      <4>1. \A i \in 1 .. Len(jobs[t]) : jobs[t][i] = Len(done[t]) - 1 + i
        BY <1>1, <1>2, <3>1, OrderFacts
      <4>2. ASSUME NEW i \in 1 .. Len(jobs[t]) - 1
            PROVE  jobs'[t][i] = Len(done[t]) + i
        <5>1. jobs'[t][i] = jobs[t][i + 1] /\ i + 1 \in 1 .. Len(jobs[t])
          BY <1>1, <1>5
        <5>2. QED
          BY <1>1, <4>1, <5>1
      <4>3. QED
        BY <3>2, <4>2
    <3>4. Len(done[t]) + Len(jobs'[t]) = created[t] /\ pending'[t] = Len(jobs'[t])
      <4>1. Finished(t) + Len(jobs[t]) = created[t] /\ Finished(t) \in Int
        BY <1>1, <1>2, OrderFacts
      <4>2. Len(jobs'[t]) = Len(jobs[t]) - 1
        BY <1>5
      <4>3. pending'[t] = Len(jobs'[t])
        BY <1>6, <1>7, <4>2
      <4>4. Len(done[t]) = Finished(t) + 1
        BY <1>1, <3>1
      <4>5. Len(done[t]) + Len(jobs'[t]) = Finished(t) + Len(jobs[t])
        <5>1. Finished(t) \in Int /\ Len(jobs[t]) \in Int
          BY <1>1, <4>1
        <5>2. \A f, j \in Int : f + 1 + (j - 1) = f + j
          OBVIOUS
        <5>3. QED
          BY <4>2, <4>4, <5>1, <5>2
      <4>6. QED
        BY <4>1, <4>3, <4>5
    <3>5. InOrder(t)'
      BY <1>2, <1>9, <3>1, <3>3, <3>4 DEF InOrder
    <3>6. InHand(t)'
      BY <1>9 DEF InHand
    <3>7. QED
      BY <2>2, <2>4, <3>5, <3>6
  <2>5. QED
    BY <2>3, <2>4
<1>11. QED
  BY <1>8, <1>10, OneByOne
-----------------------------------------------------------------------------
LEMMA StepSound == BioInv /\ [BioNext]_bioVars => BioInv'
<1> SUFFICES ASSUME BioInv, [BioNext]_bioVars PROVE BioInv'
  OBVIOUS
<1>1. ASSUME NEW t \in Types,
             \/ Create(t) \/ CreateLock(t) \/ CreateAppend(t) \/ CreateSignal(t) \/ CreateUnlock(t)
             \/ ThreadLock(t) \/ ThreadWait(t) \/ ThreadTake(t) \/ ThreadRun(t) \/ ThreadDelete(t)
             \/ SpuriousWakeup(t)
      PROVE  BioInv'
  BY <1>1, CreateSound, CreateLockSound, CreateAppendSound, CreateSignalSound, CreateUnlockSound,
     ThreadLockSound, ThreadWaitSound, ThreadTakeSound, ThreadRunSound, ThreadDeleteSound,
     SpuriousWakeupSound
<1>2. CASE UNCHANGED bioVars
  BY <1>2 DEF bioVars, BioInv, BioTypes, JobsInOrder, Finished, MutexFreeDuringJob, InHand
<1>3. QED
  BY <1>1, <1>2 DEF BioNext, Creating, Thread

\* The invariant of the background jobs: what they do to queues, counts and
\* mutexes is sound at each step of the main thread and of the job threads.
THEOREM JobsSound == BioSpec => []BioInv
BY InitSound, StepSound, PTL DEF BioSpec

\* Jobs of each type are run in the order of their creation, none twice and none
\* left out, and bio_pending counts those not finished, whenever jobs come.
THEOREM OrderKept == BioSpec => []JobsInOrder
<1>1. BioInv => JobsInOrder
  BY DEF BioInv
<1>2. QED
  BY JobsSound, <1>1, PTL

\* No thread holds the mutex while it runs a job or sleeps, so the main thread
\* waits for a few instructions at most when it creates a job.
THEOREM MutexFree == BioSpec => []MutexFreeDuringJob
<1>1. BioInv => MutexFreeDuringJob
  BY DEF BioInv
<1>2. QED
  BY JobsSound, <1>1, PTL
=============================================================================
