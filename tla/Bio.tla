-------------------------------- MODULE Bio --------------------------------
(***************************************************************************)
(* The background jobs of bio.c.  Every type of job has a queue, a count,  *)
(* a mutex, a condition variable and a thread of its own; the main thread  *)
(* appends a job and signals, the thread takes the first job, runs it      *)
(* without the mutex while it stays in the queue, and deletes it then.     *)
(* Nothing under src/ calls bioCreateBackgroundJob: who creates jobs, and  *)
(* what they do, is left open.  A job is the number of its creation.       *)
(***************************************************************************)
EXTENDS Naturals, Sequences, SequencesExt

CONSTANT Types   \* REDIS_BIO_CLOSE_FILE and REDIS_BIO_AOF_FSYNC

VARIABLES
  jobs,     \* bio_jobs: for each type the queue
  pending,  \* bio_pending
  owner,    \* bio_mutex: who holds it, "main", "thread" or "none"
  main,     \* where the main thread is in bioCreateBackgroundJob, and for which type
  thread,   \* where the thread of each type is, and with which job
  created,  \* how many jobs were created
  done      \* the jobs that were run, in this order

bioVars == <<jobs, pending, owner, main, thread, created, done>>

Away == [at |-> "away"]
At(place) == [at |-> place]
Running(job) == [at |-> "run", job |-> job]
Ran(job) == [at |-> "ran", job |-> job]

\* bioInit: the threads are started and have not taken their mutex yet.
BioInit ==
  /\ jobs = [t \in Types |-> <<>>] /\ pending = [t \in Types |-> 0]
  /\ owner = [t \in Types |-> "none"]
  /\ main = Away /\ thread = [t \in Types |-> At("start")]
  /\ created = [t \in Types |-> 0] /\ done = [t \in Types |-> <<>>]
-----------------------------------------------------------------------------
(* bioCreateBackgroundJob                                                  *)

Main(place, t) == [at |-> place, type |-> t]

Create(t) ==
  /\ main = Away /\ main' = Main("lock", t)
  /\ UNCHANGED <<jobs, pending, owner, thread, created, done>>

CreateLock(t) ==
  /\ main = Main("lock", t) /\ owner[t] = "none"
  /\ owner' = [owner EXCEPT ![t] = "main"] /\ main' = Main("append", t)
  /\ UNCHANGED <<jobs, pending, thread, created, done>>

CreateAppend(t) ==
  /\ main = Main("append", t) /\ main' = Main("signal", t)
  /\ created' = [created EXCEPT ![t] = @ + 1]
  /\ jobs' = [jobs EXCEPT ![t] = Append(@, created[t] + 1)]
  /\ pending' = [pending EXCEPT ![t] = @ + 1]
  /\ UNCHANGED <<owner, thread, done>>

\* A signal wakes the thread if it waits, and is lost if it does not.
Signalled(t) == IF thread[t] = At("wait") THEN At("woken") ELSE thread[t]

CreateSignal(t) ==
  /\ main = Main("signal", t) /\ main' = Main("unlock", t)
  /\ thread' = [thread EXCEPT ![t] = Signalled(t)]
  /\ UNCHANGED <<jobs, pending, owner, created, done>>

CreateUnlock(t) ==
  /\ main = Main("unlock", t) /\ main' = Away
  /\ owner' = [owner EXCEPT ![t] = "none"]
  /\ UNCHANGED <<jobs, pending, thread, created, done>>

\* The steps the main thread takes by itself once it has called.
Creating == \E t \in Types : CreateLock(t) \/ CreateAppend(t) \/ CreateSignal(t) \/ CreateUnlock(t)
-----------------------------------------------------------------------------
(* bioProcessBackgroundJobs                                                *)

\* pthread_mutex_lock, before the loop or inside pthread_cond_wait.
ThreadLock(t) ==
  /\ thread[t] \in {At("start"), At("woken")} /\ owner[t] = "none"
  /\ owner' = [owner EXCEPT ![t] = "thread"] /\ thread' = [thread EXCEPT ![t] = At("look")]
  /\ UNCHANGED <<jobs, pending, main, created, done>>

\* pthread_cond_wait releases the mutex in the same step.
ThreadWait(t) ==
  /\ thread[t] = At("look") /\ jobs[t] = <<>>
  /\ owner' = [owner EXCEPT ![t] = "none"] /\ thread' = [thread EXCEPT ![t] = At("wait")]
  /\ UNCHANGED <<jobs, pending, main, created, done>>

\* pthread_cond_wait may return without a signal.
SpuriousWakeup(t) ==
  /\ thread[t] = At("wait") /\ thread' = [thread EXCEPT ![t] = At("woken")]
  /\ UNCHANGED <<jobs, pending, owner, main, created, done>>

\* A mutant: the job is deleted when it is taken.
ThreadTakeOut(t) ==
  /\ thread[t] = At("look") /\ jobs[t] # <<>>
  /\ owner' = [owner EXCEPT ![t] = "none"]
  /\ thread' = [thread EXCEPT ![t] = Running(Head(jobs[t]))]
  /\ jobs' = [jobs EXCEPT ![t] = Tail(@)]
  /\ UNCHANGED <<pending, main, created, done>>

ThreadTake(t) ==
  /\ thread[t] = At("look") /\ jobs[t] # <<>>
  /\ owner' = [owner EXCEPT ![t] = "none"]
  /\ thread' = [thread EXCEPT ![t] = Running(Head(jobs[t]))]
  /\ UNCHANGED <<jobs, pending, main, created, done>>

ThreadRun(t) ==
  /\ thread[t].at = "run"
  /\ done' = [done EXCEPT ![t] = Append(@, thread[t].job)]
  /\ thread' = [thread EXCEPT ![t] = Ran(@.job)]
  /\ UNCHANGED <<jobs, pending, owner, main, created>>

\* The mutex is taken again, the node of the job is deleted (listDelNode), and
\* the loop starts over with the mutex held.
ThreadDelete(t) ==
  /\ thread[t].at = "ran" /\ owner[t] = "none"
  /\ owner' = [owner EXCEPT ![t] = "thread"] /\ thread' = [thread EXCEPT ![t] = At("look")]
  /\ \E i \in DOMAIN jobs[t] :
       /\ jobs[t][i] = thread[t].job
       /\ jobs' = [jobs EXCEPT ![t] = RemoveAt(@, i)]
  /\ pending' = [pending EXCEPT ![t] = @ - 1]
  /\ UNCHANGED <<main, created, done>>

Thread(t) ==
  ThreadLock(t) \/ ThreadWait(t) \/ ThreadTake(t) \/ ThreadRun(t) \/ ThreadDelete(t)
-----------------------------------------------------------------------------
BioNext ==
  \/ \E t \in Types : Create(t)
  \/ Creating
  \/ \E t \in Types : Thread(t) \/ SpuriousWakeup(t)

BioSpec == BioInit /\ [][BioNext]_bioVars
-----------------------------------------------------------------------------
\* How many jobs of a type are finished, that is run and deleted.
Finished(t) == Len(done[t]) - (IF thread[t].at = "ran" THEN 1 ELSE 0)

\* Jobs of one type are run in the order of their creation, each once (what
\* bio.c promises at its top); those not finished are in the queue, and
\* bio_pending is their number although it is read and written by two threads.
JobsInOrder ==
  \A t \in Types :
    /\ \A i \in DOMAIN done[t] : done[t][i] = i
    /\ \A i \in DOMAIN jobs[t] : jobs[t][i] = Finished(t) + i
    /\ Finished(t) + Len(jobs[t]) = created[t]
    /\ pending[t] = Len(jobs[t])

\* The main thread is never kept waiting by a job that runs: the mutex is held
\* by at most one thread, and by none of those that run a job or sleep.
MutexFreeDuringJob ==
  \A t \in Types :
    /\ owner[t] = "thread" <=> thread[t].at = "look"
    /\ owner[t] = "main" <=> main \in {Main(place, t) : place \in {"append", "signal", "unlock"}}
=============================================================================
