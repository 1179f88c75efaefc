------------------------------- MODULE Server -------------------------------
(***************************************************************************)
(* The process: the main thread runs the event loop (ae.c), which calls    *)
(* the handlers that accept, serve and free clients (networking.c) and the *)
(* timer (redis.c), beside the threads of the background jobs (Bio).       *)
(*                                                                         *)
(* One step of the main thread is one handler or one round of its loop;    *)
(* peers send, close and do not read as they like.  Of a request only its  *)
(* effect on the connection is kept (modules Protocol and Replies have the *)
(* rest).  Time is how many ticks of the cached clock a client was idle,   *)
(* up to one too many.                                                     *)
(***************************************************************************)
EXTENDS EventLoop, Bio

CONSTANTS
  MaxClients,      \* server.maxclients
  MaxAccepts,      \* MAX_ACCEPTS_PER_CALL
  MaxIdle,         \* server.maxidletime, in ticks; 0 is never, which is the default
  CronMin,         \* the least number of clients a call of clientsCron looks at: 50
  CronShare,       \* of how many clients it looks at one at least: server.hz * 10
  Loads,           \* bounds: how many connections, jobs, signals and wakeups come
  MaxConnections   \* the largest number of connections in Loads

ASSUME ServerAssumption ==
  /\ {MaxClients, MaxAccepts, CronMin, CronShare} \subseteq Nat \ {0}
  /\ {MaxIdle, MaxConnections, SetSize} \subseteq Nat /\ SetSize > MaxClients + 1
  /\ Loads \subseteq [conns : 0 .. MaxConnections, jobs : Nat, signals : Nat, wakeups : Nat]

VARIABLES
  el,       \* server.el
  phase,    \* where aeMain is: "poll" from beforeSleep to epoll_wait, "handle", in the
            \* loops "accept" and "cron"; or "exited"
  left,     \* how many rounds of the loop are left
  fired,    \* the events not handled yet; "of" is the client the kernel meant
  clients,  \* server.clients, from head to tail
  conn,     \* the state of each client and of its socket
  backlog,  \* connections that wait for accept
  opened,   \* how many connections were accepted; a client is its number
  asap,     \* server.shutdown_asap
  toCome    \* what is left of the load

loopVars == <<el, phase, left, fired, clients, conn, backlog, opened, asap, toCome>>
vars == <<loopVars, bioVars>>

Ids == 1 .. MaxConnections
Listener == 0

\* reply: is one pending, and is it the last (REDIS_CLOSE_AFTER_REPLY)?
\* sock: is there data to read, has the peer closed?
Connected(fd) == [fd |-> fd, reply |-> "none", sock |-> {}, idle |-> 0]
Gone == Connected(-1)

Init ==
  /\ el = aeCreateFileEvent(aeCreateEventLoop, Listener, {"r"}, None)
  /\ phase = "poll" /\ left = 0 /\ fired = <<>>
  /\ clients = <<>> /\ conn = [c \in Ids |-> Gone]
  /\ backlog = 0 /\ opened = 0 /\ asap = FALSE
  /\ toCome \in Loads
  /\ BioInit

Now == [el |-> el, clients |-> clients, conn |-> conn]
Become(s) == el' = s.el /\ clients' = s.clients /\ conn' = s.conn
-----------------------------------------------------------------------------
(* networking.c: a client comes and goes.                                  *)

\* A mutant: the handler of a pending reply is not withdrawn.
freeClientReadOnly(s, c) ==
  LET fd == s.conn[c].fd
  IN  [el |-> Closed(aeDeleteFileEvent(s.el, fd, {"r"}), fd),
       clients |-> RemoveFirst(s.clients, c),
       conn |-> [s.conn EXCEPT ![c] = Gone]]

freeClient(s, c) ==
  LET fd == s.conn[c].fd
  IN  [el |-> Closed(aeDeleteFileEvent(aeDeleteFileEvent(s.el, fd, {"r"}), fd, {"w"}), fd),
       clients |-> RemoveFirst(s.clients, c),
       conn |-> [s.conn EXCEPT ![c] = Gone]]

\* accept returns the least descriptor that is not open.
FreeFd(s) == Min((1 .. MaxClients + 1) \ {s.conn[c].fd : c \in Ids})

createClient(s, c, fd) ==
  IF ~ Creates(s.el, fd) THEN s
  ELSE [el |-> aeCreateFileEvent(s.el, fd, {"r"}, c),
        clients |-> Append(s.clients, c),
        conn |-> [s.conn EXCEPT ![c] = Connected(fd)]]

\* A client too many is created first, to have its socket told so, and freed.
acceptCommonHandler(s, c) ==
  LET new == createClient(s, c, FreeFd(s))
  IN  IF Len(new.clients) > MaxClients THEN freeClient(new, c) ELSE new

acceptTcpHandler == phase' = "accept" /\ left' = MaxAccepts /\ UNCHANGED <<el, clients, conn>>

Accept ==
  /\ phase = "accept" /\ left > 0 /\ backlog > 0
  /\ Become(acceptCommonHandler(Now, opened + 1))
  /\ left' = left - 1 /\ backlog' = backlog - 1 /\ opened' = opened + 1
  /\ UNCHANGED <<phase, fired, asap, toCome, bioVars>>

\* MAX_ACCEPTS_PER_CALL are accepted, or none waits (EAGAIN).
AcceptEnd ==
  /\ phase = "accept" /\ (left = 0 \/ backlog = 0)
  /\ phase' = "handle" /\ left' = 0
  /\ UNCHANGED <<el, fired, clients, conn, backlog, opened, asap, toCome, bioVars>>

\* The requests read leave no reply (they are not complete), or one, or the
\* last one (QUIT, a protocol error); or the query buffer is too long; or one is
\* SHUTDOWN.  The write handler is installed with the first reply.
Replying(c, reply) ==
  [el |-> IF reply = "none" THEN el ELSE aeCreateFileEvent(el, conn[c].fd, {"w"}, c),
   clients |-> clients,
   conn |-> [conn EXCEPT ![c] = [@ EXCEPT !.reply = reply, !.sock = conn[c].sock \ {"data"}, !.idle = 0]]]

Replies(c) ==
  IF conn[c].reply = "last" THEN {"last"}
  ELSE IF conn[c].reply = "some" THEN {"some", "last"} ELSE {"none", "some", "last"}

readQueryFromClient(c) ==
  /\ \/ /\ "data" \in conn[c].sock /\ UNCHANGED phase
        /\ \/ \E reply \in Replies(c) : Become(Replying(c, reply))
           \/ Become(freeClient(Now, c))
     \/ /\ "data" \in conn[c].sock /\ conn[c].reply # "last"
        /\ phase' = "exited" /\ UNCHANGED <<el, clients, conn>>
     \/ /\ conn[c].sock = {"closed"} /\ UNCHANGED phase
        /\ Become(freeClient(Now, c))
  /\ UNCHANGED left

\* All of the reply is sent, or a part, or nothing (EAGAIN), or the socket fails:
\* the peer may have closed it by now.
sendReplyToClient(c) ==
  LET sent == [el |-> aeDeleteFileEvent(el, conn[c].fd, {"w"}),
               clients |-> clients,
               conn |-> [conn EXCEPT ![c] = [@ EXCEPT !.reply = "none", !.idle = 0]]]
  IN  /\ \/ Become(IF conn[c].reply = "last" THEN freeClient(sent, c) ELSE sent)
         \/ Become([Now EXCEPT !.conn[c].idle = 0])
         \/ Become(Now)
         \/ Become(freeClient(Now, c))
      /\ UNCHANGED <<phase, left>>
-----------------------------------------------------------------------------
(* aeMain                                                                  *)

\* The call of bioCreateBackgroundJob.  Nothing under src/ makes it now;
\* it is placed where beforeSleep calls flushAppendOnlyFile, which is empty in
\* aof.c.
CreateJob ==
  /\ phase = "poll" /\ toCome.jobs > 0
  /\ toCome' = [toCome EXCEPT !.jobs = @ - 1]
  /\ \E t \in Types : Create(t)
  /\ UNCHANGED <<el, phase, left, fired, clients, conn, backlog, opened, asap>>

ContinueJob == phase # "exited" /\ Creating /\ UNCHANGED loopVars

\* What epoll_wait reports of a client: an error or a hang-up also as writable,
\* whether or not that was asked for.
Events(c, writable) ==
  LET ready == (IF conn[c].sock = {} THEN {} ELSE {"r"}) \cup (IF c \in writable THEN {"w"} ELSE {})
      interest == el.epoll[conn[c].fd] \cup (IF "closed" \in conn[c].sock THEN {"w"} ELSE {})
  IN  ready \cap interest

\* aeApiPoll: the events of all descriptors that are ready, in any order.
\* None if the timer is due first or a signal arrives.
Ready(writable) ==
  {[fd |-> conn[c].fd, mask |-> Events(c, writable), of |-> c] :
      c \in {d \in ToSet(clients) : Events(d, writable) # {}}}
    \cup (IF backlog > 0 THEN {[fd |-> Listener, mask |-> {"r"}, of |-> None]} ELSE {})

Poll ==
  /\ phase = "poll" /\ main = Away
  /\ \E writable \in SUBSET ToSet(clients) :
       /\ \A c \in ToSet(clients) : "closed" \in conn[c].sock => c \in writable
       /\ fired' \in SetToSeqs(Ready(writable)) \cup (IF asap THEN {<<>>} ELSE {})
  /\ phase' = "handle"
  /\ UNCHANGED <<el, left, clients, conn, backlog, opened, asap, toCome, bioVars>>

\* aeProcessEvents calls the read handler of an event, then the write handler,
\* each if it is still installed then.
Handle ==
  /\ phase = "handle" /\ fired # <<>>
  /\ LET e == Head(fired)
         c == el.events[e.fd].client
         valid == Valid(el, e)
     IN  \/ /\ valid = {} /\ fired' = Tail(fired)
            /\ UNCHANGED <<el, phase, left, clients, conn>>
         \/ /\ "r" \in valid /\ fired' = [fired EXCEPT ![1].mask = @ \ {"r"}]
            /\ IF e.fd = Listener THEN acceptTcpHandler ELSE readQueryFromClient(c)
         \/ /\ valid = {"w"} /\ fired' = Tail(fired)
            /\ sendReplyToClient(c)
  /\ UNCHANGED <<backlog, opened, asap, toCome, bioVars>>

\* processTimeEvents: serverCron is not due, or due.
NotDue ==
  /\ phase = "handle" /\ fired = <<>>
  /\ phase' = "poll"
  /\ UNCHANGED <<el, left, fired, clients, conn, backlog, opened, asap, toCome, bioVars>>

\* updateCachedTime: tick is 1 if server.unixtime advances.
Aged(tick) ==
  [c \in Ids |-> IF c \in ToSet(clients) THEN [conn[c] EXCEPT !.idle = Min({@ + tick, MaxIdle + 1})]
                 ELSE conn[c]]

\* A mutant: the list is not rotated.
listRotateNot(seq) == seq

listRotate(seq) == <<Last(seq)>> \o Front(seq)

clientsCronHandleTimeout(s, c) ==
  IF MaxIdle # 0 /\ s.conn[c].idle > MaxIdle THEN freeClient(s, c) ELSE s

Iterations(n) == Max({n \div CronShare, Min({n, CronMin})})

serverCron(tick) ==
  /\ phase = "handle" /\ fired = <<>>
  /\ IF asap THEN phase' = "exited" /\ UNCHANGED <<left, conn>>
     ELSE phase' = "cron" /\ left' = Iterations(Len(clients)) /\ conn' = Aged(tick)
  /\ UNCHANGED <<el, fired, clients, backlog, opened, asap, toCome, bioVars>>

\* A round of clientsCron looks at the client that was the last.
clientsCron ==
  /\ phase = "cron" /\ left > 0 /\ clients # <<>>
  /\ Become(clientsCronHandleTimeout([Now EXCEPT !.clients = listRotate(@)], Last(clients)))
  /\ left' = left - 1
  /\ UNCHANGED <<phase, fired, backlog, opened, asap, toCome, bioVars>>

CronEnd ==
  /\ phase = "cron" /\ (left = 0 \/ clients = <<>>)
  /\ phase' = "poll" /\ left' = 0
  /\ UNCHANGED <<el, fired, clients, conn, backlog, opened, asap, toCome, bioVars>>
-----------------------------------------------------------------------------
(* Peers and the operator.  Peers are let act until epoll_wait only: what   *)
(* they do while handlers run has the effect it would have had before the   *)
(* wait or has after the next, but for a write that fails.                  *)

Connect ==
  /\ phase = "poll" /\ toCome.conns > 0
  /\ toCome' = [toCome EXCEPT !.conns = @ - 1] /\ backlog' = backlog + 1
  /\ UNCHANGED <<el, phase, left, fired, clients, conn, opened, asap, bioVars>>

Peer(c, what) ==
  /\ phase = "poll" /\ c \in ToSet(clients) /\ conn[c].sock \cap {what, "closed"} = {}
  /\ conn' = [conn EXCEPT ![c].sock = @ \cup {what}]
  /\ UNCHANGED <<el, phase, left, fired, clients, backlog, opened, asap, toCome, bioVars>>

sigtermHandler ==
  /\ phase # "exited" /\ toCome.signals > 0
  /\ toCome' = [toCome EXCEPT !.signals = @ - 1] /\ asap' = TRUE
  /\ UNCHANGED <<el, phase, left, fired, clients, conn, backlog, opened, bioVars>>

Environment == Connect \/ (\E c \in Ids : Peer(c, "data") \/ Peer(c, "closed")) \/ sigtermHandler
-----------------------------------------------------------------------------
MainThread ==
  \/ CreateJob
  \/ ContinueJob
  \/ Poll
  \/ Handle \/ Accept \/ AcceptEnd
  \/ NotDue
  \/ (\E tick \in 0 .. 1 : serverCron(tick)) \/ clientsCron \/ CronEnd

JobThread(t) == phase # "exited" /\ Thread(t) /\ UNCHANGED loopVars

Wakeup(t) ==
  /\ phase # "exited" /\ toCome.wakeups > 0
  /\ toCome' = [toCome EXCEPT !.wakeups = @ - 1]
  /\ SpuriousWakeup(t)
  /\ UNCHANGED <<el, phase, left, fired, clients, conn, backlog, opened, asap>>

\* Once the main thread has called exit nothing moves.
Next ==
  \/ MainThread
  \/ \E t \in Types : JobThread(t) \/ Wakeup(t)
  \/ Environment

\* The main thread can take a step unless it waits for a mutex or has exited,
\* and only it changes these variables.
MainReady == phase # "exited" /\ \A t \in Types : main = Main("lock", t) => owner[t] = "none"
MainMoves == <<phase, left, fired, main>>' # <<phase, left, fired, main>>
CronReady == phase = "handle" /\ fired = <<>>

\* Both threads run on; the timer is due again and again and its clock
\* advances.  Nothing is assumed of peers, nor that a wait ends without a signal.
\* The first two formulas are WF_vars(MainThread) and SF_vars(serverCron(1)) with
\* their ENABLED spelled out.
Fairness ==
  /\ []<>(~ MainReady) \/ []<><<MainMoves>>_vars
  /\ <>[](~ CronReady) \/ []<><<serverCron(1)>>_vars
  /\ \A t \in Types : WF_vars(JobThread(t))

Spec == Init /\ [][Next]_vars /\ Fairness
-----------------------------------------------------------------------------
(* Properties.                                                             *)

\* The descriptors, the event loop, the kernel and the list of clients agree
\* after every handler and every round of a loop: every client in the list, each once and not more
\* than allowed, is registered for reading under its own descriptor, and for
\* writing if and only if a reply is pending; nobody else is registered; maxfd,
\* on which aeResizeSetSize relies, is the largest descriptor in use.
RegistrationExact ==
  /\ Len(clients) = Cardinality(ToSet(clients)) /\ Len(clients) <= MaxClients
  /\ ToSet(clients) = {c \in Ids : conn[c] # Gone}
  /\ \A c \in ToSet(clients) :
       el.events[conn[c].fd] =
         [mask |-> {"r"} \cup (IF conn[c].reply = "none" THEN {} ELSE {"w"}), client |-> c]
  /\ InUse(el.events) = {Listener} \cup {conn[c].fd : c \in ToSet(clients)}
  /\ \A fd \in Fds : el.epoll[fd] = el.events[fd].mask
  /\ el.maxfd = Max(InUse(el.events))

\* A handler that is about to be called for a fired event is called for the
\* client the event was about, which is still there, although handlers earlier
\* in the batch close descriptors and accept reuses them; and its socket has
\* what the handler is called for.
BatchCurrent ==
  \A i \in DOMAIN fired :
    LET e == fired[i]
    IN  (Valid(el, e) # {} /\ e.fd # Listener) =>
          /\ el.events[e.fd].client = e.of /\ e.of \in ToSet(clients)
          /\ "r" \in Valid(el, e) => conn[e.of].sock # {}
          /\ "w" \in Valid(el, e) => conn[e.of].reply # "none"

\* A client that stays is heard of again and again, even if the timer looks at
\* some clients only: one that is silent is closed (clientsCron).
SilentClosed ==
  \A c \in Ids : <>[](conn[c] # Gone) => []<>(conn[c].idle = 0 \/ phase = "exited")

\* Every job that is created is run and deleted, no signal is lost (bio.c).
JobsFinish == \A t \in Types : jobs[t] # <<>> ~> (jobs[t] = <<>> \/ phase = "exited")

\* SIGTERM ends the process, whatever clients and jobs do.
TermExits == asap ~> phase = "exited"

\* What the event loop and the threads owe, as long as the process lives.
AllServed == SilentClosed /\ JobsFinish /\ TermExits
=============================================================================
