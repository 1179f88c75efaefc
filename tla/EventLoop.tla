------------------------------ MODULE EventLoop -----------------------------
(***************************************************************************)
(* The file events of ae.c and ae_epoll.c, as operators on the state of an *)
(* event loop: for each descriptor the mask and the client (clientData)    *)
(* the program keeps, the interest the kernel keeps, and the largest       *)
(* descriptor in use.  A mask is a subset of {"r", "w"}.  What the handler *)
(* of an event is follows from the client: None stands for a listening     *)
(* socket.  The one timer is in module Server.                             *)
(***************************************************************************)
EXTENDS Integers, Sequences, FiniteSetsExt

CONSTANT SetSize   \* of the tables of the loop: maxclients and a reserve

None == 0

Fds == 0 .. SetSize - 1

aeCreateEventLoop ==
  [events |-> [fd \in Fds |-> [mask |-> {}, client |-> None]],
   epoll |-> [fd \in Fds |-> {}],
   maxfd |-> -1]

\* epoll_ctl adds a descriptor it does not have and modifies one it has.
Possible(el, fd) == (el.events[fd].mask = {}) <=> (el.epoll[fd] = {})

aeApiAddEvent(el, fd, mask) == [el EXCEPT !.epoll[fd] = el.events[fd].mask \cup mask]

aeApiDelEvent(el, fd, delmask) == [el EXCEPT !.epoll[fd] = el.events[fd].mask \ delmask]

\* Did aeCreateFileEvent succeed?
Creates(el, fd) == fd < SetSize /\ Possible(el, fd)

aeCreateFileEvent(el, fd, mask, client) ==
  IF ~ Creates(el, fd) THEN el
  ELSE [aeApiAddEvent(el, fd, mask) EXCEPT
          !.events[fd] = [mask |-> @.mask \cup mask, client |-> client],
          !.maxfd = IF fd > @ THEN fd ELSE @]

InUse(events) == {fd \in DOMAIN events : events[fd].mask # {}}

\* A mutant: the search for the next descriptor in use stops one too early.
LowerMaxFdShort(events, maxfd) ==
  IF maxfd \in InUse(events) THEN maxfd ELSE Max({fd \in InUse(events) : fd < maxfd - 1} \cup {-1})

\* The largest descriptor that is still in use.
LowerMaxFd(events, maxfd) ==
  IF maxfd \in InUse(events) THEN maxfd ELSE Max({fd \in InUse(events) : fd < maxfd} \cup {-1})

aeDeleteFileEvent(el, fd, mask) ==
  IF fd >= SetSize \/ el.events[fd].mask = {} THEN el
  ELSE LET events == [el.events EXCEPT ![fd].mask = @ \ mask]
           maxfd == IF fd = el.maxfd THEN LowerMaxFd(events, fd) ELSE el.maxfd
       IN  [events |-> events, epoll |-> aeApiDelEvent(el, fd, mask).epoll, maxfd |-> maxfd]

\* The mask of a fired event of which nothing was withdrawn meanwhile.
Valid(el, fired) == el.events[fired.fd].mask \cap fired.mask

\* close: the kernel forgets the descriptor.
Closed(el, fd) == [el EXCEPT !.epoll[fd] = {}]
=============================================================================
