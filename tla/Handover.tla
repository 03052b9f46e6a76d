------------------------------ MODULE Handover ------------------------------
(***************************************************************************)
(* The live update protocol of openDSU for one bound port.                 *)
(*                                                                         *)
(* Every process runs an application with the library preloaded.  A        *)
(* process that calls bind() either creates the port (no other version is  *)
(* running) or connects to the abstract unix socket of the running version *)
(* and receives two file descriptors over it: the TCP socket and the unix  *)
(* socket itself.  From then on it enters its event function (select, poll *)
(* or epoll_wait) again and again, and every entry runs the library's      *)
(* monitor: the newer version publishes its number in shared memory, the   *)
(* older one quits monitoring, finishes its connections and terminates.    *)
(*                                                                         *)
(* A step is one stretch of a process between two points where another     *)
(* process can be observed: a system call on a shared object, a semaphore  *)
(* operation, or a shared memory access made without a common lock.        *)
(*                                                                         *)
(* A definition that stands right before a like-named operator and that no *)
(* action uses is a faulty variant of it, which shows that some property   *)
(* would notice the fault.                                                 *)
(***************************************************************************)
EXTENDS Integers, Sequences, SequencesExt, FiniteSets

CONSTANTS
    Proc,             \* the processes that may exist
    Pgid,             \* the process group of each process
    Binder,           \* processes that call bind() themselves; others are forked
    First,            \* the process started when nothing else runs
    Master,           \* processes that fork workers and never wait for events
    Client,           \* TCP clients, each connecting at most once
    None,             \* no semaphore, no peer, or a descriptor that is not a socket
    Handler,          \* the event function each process uses
    Blocking,         \* the application left its listening socket blocking
    UserTimeout,      \* the application passes a finite timeout
    Signals,          \* the event function can be interrupted by a signal
    SemFails,         \* so can sem_wait: a handler lacks SA_RESTART
    LateFork,         \* the application forks after its first event call
    ConcurrentStart,  \* a version may be started before another one is live
    JunkLen,          \* the uninitialised len of dsu_write_fd can be negative
    ScanFaults,       \* reading past the application's pollfd array can fault
    SigpipeFatal,     \* the application leaves SIGPIPE at its default
    MaxCrashes        \* bound on the crashes in one behaviour

Group == {Pgid[p] : p \in Proc}

(* The semaphore objects: each process that takes the fresh path of bind()  *)
(* creates two of them, under one and the same name.                        *)
Sem == Proc \X {"status", "fd"}

(* Sockets are named by the process whose socket() call created them.       *)
Tcp(p) == <<"tcp", p>>
Com(p) == <<"com", p>>
Fd == {"tcp", "com"} \X Proc

ASSUME HandlerAssumption ==
    /\ Handler \in [Proc -> {"select", "poll", "epoll"}]
    /\ \A p, q \in Proc : Pgid[p] = Pgid[q] => Handler[p] = Handler[q]
ASSUME FlagsAssumption ==
    /\ {Blocking, UserTimeout, Signals, SemFails, LateFork, ConcurrentStart,
        JunkLen, ScanFaults, SigpipeFatal} \subseteq BOOLEAN
    /\ SemFails => Signals
ASSUME RolesAssumption ==
    /\ Binder \subseteq Proc /\ First \in Binder /\ Master \subseteq Proc
ASSUME NoneAssumption == None \notin Proc /\ None \notin Sem /\ None \notin Fd
ASSUME CrashesAssumption == MaxCrashes \in Nat

VARIABLES
    pc,           \* where each process is
    live,         \* dsu_program_state.live
    sock,         \* the struct dsu_socket_list of the port, per process
    call,         \* what the running event call watches and found ready
    reg,          \* the value a process has loaded and not yet used
    peer,         \* the internal connection being answered
    workers,      \* shared memory of a process group
    status,       \* shared memory of the port
    sem,          \* value of each semaphore object
    semName,      \* the object the port's semaphore name leads to
    bound,        \* sockets bound to the port's abstract unix name
    listening,    \* those listen() was called on
    nonblocking,  \* those that really became non-blocking
    backlog,      \* connections not yet accepted, per unix listener
    request,      \* the requester's message: not sent, unread, read
    replies,      \* descriptors on their way to a requester
    reset,        \* connections whose requester died with replies unread
    tcpBound,     \* TCP sockets bound to the port
    queue,        \* clients not yet accepted, per TCP socket
    visited,      \* clients that have connected
    crashes       \* processes that crashed so far

listenerVars == <<bound, listening, nonblocking, backlog>>
channelVars  == <<request, replies, reset>>
clientVars   == <<tcpBound, queue, visited>>
semVars      == <<sem, semName>>
callVars     == <<call, reg, peer>>
vars == <<pc, live, sock, callVars, workers, status, semVars, listenerVars,
          channelVars, clientVars, crashes>>

-----------------------------------------------------------------------------
(* State records.  interest is what stays registered in the process's epoll *)
(* instance between two calls of epoll_wait, and revents what stays in the  *)
(* TCP socket's entry of the array that the application hands to poll().    *)

NoSock == [fds |-> {}, shadowfd |-> None, comfds |-> {}, comfd |-> None,
           monitoring |-> FALSE, version |-> 0, locked |-> FALSE,
           transfer |-> FALSE, statusSem |-> None, fdSem |-> None,
           interest |-> {}, revents |-> FALSE]

(* After socket() and at the top of bind(): an unbound TCP socket that is    *)
(* its own shadow, and a new unix socket.                                    *)
NewSock(p) == [NoSock EXCEPT !.shadowfd = Tcp(p), !.comfd = Com(p)]

NothingReady == [tcp |-> FALSE, com |-> FALSE, user |-> FALSE, conns |-> {}]
NoCall == [watch |-> FALSE, hurry |-> FALSE, overrun |-> FALSE,
           ready |-> NothingReady]

Alive(p) == pc[p] \notin {"none", "dead"}

(* A socket exists while a process has it open or a reply in flight holds it. *)
Open(fd) == \/ \E p \in Proc : Alive(p) /\ fd \in {sock[p].shadowfd, sock[p].comfd}
            \/ \E c \in Proc : fd \in ToSet(replies[c])

(* The requester's end of an internal connection is open.                    *)
Requesting(c) == pc[c] \in {"send", "recv1", "recv2"}

(* Nobody is left at the other end of requester c's connection.              *)
Unserved(c) ==
    /\ \A q \in Proc : c \notin sock[q].comfds
    /\ \A l \in Proc : Open(Com(l)) => c \notin ToSet(backlog[l])

(* Process image and everything only it had open disappear.                  *)
Die(D) ==
    /\ pc' = [p \in Proc |-> IF p \in D THEN "dead" ELSE pc[p]]
    /\ sock' = [p \in Proc |-> IF p \in D THEN NoSock ELSE sock[p]]
    /\ call' = [p \in Proc |-> IF p \in D THEN NoCall ELSE call[p]]
    /\ reg' = [p \in Proc |-> IF p \in D THEN 0 ELSE reg[p]]
    /\ peer' = [p \in Proc |-> IF p \in D THEN None ELSE peer[p]]
    /\ reset' = reset \cup {p \in D : replies[p] # <<>>}
    /\ replies' = [p \in Proc |-> IF p \in D THEN <<>> ELSE replies[p]]
    /\ UNCHANGED <<live, request>>

Goto(p, label) == pc' = [pc EXCEPT ![p] = label]

(* sem_wait of a section that is one step, and of one that is two, needs a  *)
(* free semaphore; sem_post adds one, whoever calls it.                     *)
Free(s) == sem[s] > 0
SemWait(s) == sem' = [sem EXCEPT ![s] = @ - 1]
SemPost(s) == sem' = [sem EXCEPT ![s] = @ + 1]

-----------------------------------------------------------------------------
(* bind() of the application.                                               *)

(* A version starts: it opens its sockets and calls bind().  The operator   *)
(* starts an update only once a version is live, unless ConcurrentStart.    *)
Start(p) ==
    /\ pc[p] = "none" /\ p \in Binder
    /\ ConcurrentStart \/ p = First \/ \E q \in Proc : Alive(q) /\ live[q]
    /\ sock' = [sock EXCEPT ![p] = NewSock(p)]
    /\ Goto(p, "bind")
    /\ UNCHANGED <<live, callVars, workers, status, semVars, listenerVars,
                   channelVars, clientVars, crashes>>

(* dsu_monitor_init: the abstract name is taken while any process has the   *)
(* socket bound to it open.                                                 *)
NameFree == \A l \in bound : ~Open(Com(l))

MonitorBind(p) ==
    /\ pc[p] = "bind"
    /\ \/ /\ NameFree
          /\ bound' = bound \cup {p}
          /\ Goto(p, "listen")
       \/ /\ ~NameFree
          /\ Goto(p, "connect")
          /\ UNCHANGED bound
    /\ UNCHANGED <<live, sock, callVars, workers, status, semVars, listening,
                   nonblocking, backlog, channelVars, clientVars, crashes>>

(* F_SETFL is given the address of the flags instead of the flags, so a bit *)
(* of a stack address decides whether the listener becomes non-blocking.    *)
MonitorListen(p) ==
    /\ pc[p] = "listen"
    /\ listening' = listening \cup {p}
    /\ nonblocking' \in {nonblocking, nonblocking \cup {p}}
    /\ Goto(p, "sem1")
    /\ UNCHANGED <<live, sock, callVars, workers, status, semVars, bound,
                   backlog, channelVars, clientVars, crashes>>

(* dsu_inherit_fd: a failing step leaves the inheritance and bind() goes on *)
(* as if no other version were running.                                     *)
Connect(p) ==
    /\ pc[p] = "connect"
    /\ \/ \E l \in listening :
             /\ Open(Com(l))
             /\ backlog' = [backlog EXCEPT ![l] = Append(@, p)]
             /\ Goto(p, "send")
       \/ /\ \A l \in listening : ~Open(Com(l))
          /\ Goto(p, "sem1")
          /\ UNCHANGED backlog
    /\ UNCHANGED <<live, sock, callVars, workers, status, semVars, bound,
                   listening, nonblocking, channelVars, clientVars, crashes>>

SendPort(p) ==
    /\ pc[p] = "send"
    /\ \/ /\ ~Unserved(p)
          /\ request' = [request EXCEPT ![p] = "unread"]
          /\ Goto(p, "recv1")
          /\ UNCHANGED <<live, sock, callVars, replies, reset>>
       \/ /\ Unserved(p) /\ ~SigpipeFatal
          /\ Goto(p, "sem1")
          /\ UNCHANGED <<live, sock, callVars, channelVars>>
       \/ /\ Unserved(p) /\ SigpipeFatal
          /\ Die({p})
    /\ UNCHANGED <<workers, status, semVars, listenerVars, clientVars, crashes>>

ShadowIgnored(p) == sock[p].shadowfd
ReceivedShadow(p) == Head(replies[p])

(* The first dsu_read_fd fills shadowfd.  reg becomes the port once a reply *)
(* is received; end of file leaves it 0.                                    *)
ReadShadow(p) ==
    /\ pc[p] = "recv1"
    /\ \/ /\ replies[p] # <<>>
          /\ sock' = [sock EXCEPT ![p].shadowfd = ReceivedShadow(p)]
          /\ replies' = [replies EXCEPT ![p] = Tail(@)]
          /\ reg' = [reg EXCEPT ![p] = 1]
       \/ /\ replies[p] = <<>> /\ Unserved(p)
          /\ UNCHANGED <<sock, replies, reg>>
    /\ Goto(p, "recv2")
    /\ UNCHANGED <<live, call, peer, workers, status, semVars, listenerVars,
                   request, reset, clientVars, crashes>>

ComfdIgnored(p) == sock[p].comfd
ReceivedComfd(p) == Head(replies[p])

(* The second fills comfd, or leaves descriptor 0 in it at end of file; the *)
(* internal connection is closed.                                           *)
ReadComfd(p) ==
    /\ pc[p] = "recv2"
    /\ \/ /\ replies[p] # <<>>
          /\ sock' = [sock EXCEPT ![p].comfd = ReceivedComfd(p)]
          /\ replies' = [replies EXCEPT ![p] = Tail(@)]
          /\ Goto(p, "inherit1")
       \/ /\ replies[p] = <<>> /\ Unserved(p)
          /\ sock' = [sock EXCEPT ![p].comfd = None]
          /\ Goto(p, IF reg[p] > 0 THEN "inherit1" ELSE "sem1")
          /\ UNCHANGED replies
    /\ reg' = [reg EXCEPT ![p] = 0]
    /\ UNCHANGED <<live, call, peer, workers, status, semVars, listenerVars,
                   request, reset, clientVars, crashes>>

(* sem_open(O_CREAT) of the status and then of the fd semaphore.  Both go by *)
(* one name, so both calls open whatever that name leads to.                *)
Opened(p, kind) == IF semName = None THEN <<p, kind>> ELSE semName

OpenSem(p, kind) ==
    /\ semName' = Opened(p, kind)
    /\ sem' = IF semName = None THEN [sem EXCEPT ![<<p, kind>>] = 1] ELSE sem

InheritStatusSem(p) ==
    /\ pc[p] = "inherit1"
    /\ OpenSem(p, "status")
    /\ sock' = [sock EXCEPT ![p].monitoring = TRUE,
                            ![p].statusSem = Opened(p, "status")]
    /\ Goto(p, "inherit2")
    /\ UNCHANGED <<live, callVars, workers, status, listenerVars, channelVars,
                   clientVars, crashes>>

InheritFdSem(p) ==
    /\ pc[p] = "inherit2"
    /\ OpenSem(p, "fd")
    /\ sock' = [sock EXCEPT ![p].fdSem = Opened(p, "fd")]
    /\ Goto(p, "version")
    /\ UNCHANGED <<live, callVars, workers, status, listenerVars, channelVars,
                   clientVars, crashes>>

GroupIgnored(p) == status.version + 1
VersionSkipped(p) == status.version + 2
VersionBelow(p) == status.version - 1

(* One above the published version, or equal to it for a delayed process of *)
(* the group that published it.                                             *)
NewVersion(p) == IF status.pgid # Pgid[p] THEN status.version + 1 ELSE status.version

(* The application registers the socket with epoll_ctl after bind(); the    *)
(* library translates that to shadowfd, which for an heir is not the        *)
(* descriptor that the next epoll_wait deactivates.                         *)
InheritVersion(p) ==
    /\ pc[p] = "version" /\ Free(sock[p].statusSem)
    /\ sock' = [sock EXCEPT ![p].version = NewVersion(p),
                   ![p].interest = IF Handler[p] = "epoll" THEN {sock[p].shadowfd} ELSE {}]
    /\ Goto(p, "user")
    /\ UNCHANGED <<live, callVars, workers, status, semVars, listenerVars,
                   channelVars, clientVars, crashes>>

(* No other version running: sem_unlink and sem_open(O_CREAT | O_EXCL).     *)
CreateSem(s) ==
    /\ sem' = [sem EXCEPT ![s] = 1]
    /\ semName' = s

FreshStatusSem(p) ==
    /\ pc[p] = "sem1"
    /\ CreateSem(<<p, "status">>)
    /\ sock' = [sock EXCEPT ![p].statusSem = <<p, "status">>]
    /\ Goto(p, "sem2")
    /\ UNCHANGED <<live, callVars, workers, status, listenerVars, channelVars,
                   clientVars, crashes>>

FreshFdSem(p) ==
    /\ pc[p] = "sem2"
    /\ CreateSem(<<p, "fd">>)
    /\ sock' = [sock EXCEPT ![p].fdSem = <<p, "fd">>, ![p].monitoring = TRUE]
    /\ Goto(p, "fresh")
    /\ UNCHANGED <<live, callVars, workers, status, listenerVars, channelVars,
                   clientVars, crashes>>

FreshStatus(p) ==
    /\ pc[p] = "fresh" /\ Free(sock[p].statusSem)
    /\ status' = [pgid |-> Pgid[p], version |-> 0, transfer |-> 0]
    /\ sock' = [sock EXCEPT ![p].version = 0, ![p].transfer = FALSE]
    /\ Goto(p, "tcpbind")
    /\ UNCHANGED <<live, callVars, workers, semVars, listenerVars, channelVars,
                   clientVars, crashes>>

(* The bind() the application asked for, and its listen(); an application   *)
(* whose bind() fails exits.                                                *)
TcpBind(p) ==
    /\ pc[p] = "tcpbind"
    /\ \/ /\ \A t \in tcpBound : ~Open(Tcp(t))
          /\ tcpBound' = tcpBound \cup {p}
          /\ Goto(p, "user")
          /\ UNCHANGED <<live, sock, callVars, channelVars>>
       \/ /\ \E t \in tcpBound : Open(Tcp(t))
          /\ Die({p})
          /\ UNCHANGED tcpBound
    /\ UNCHANGED <<workers, status, semVars, listenerVars, queue, visited, crashes>>

-----------------------------------------------------------------------------
(* The application: forking before the event loop, the sessions.            *)

(* fork() copies the library's state: the child shares every descriptor.    *)
Fork(p, q) ==
    /\ pc[p] = "user" /\ (LateFork \/ ~live[p])
    /\ pc[q] = "none" /\ q \notin Binder /\ Pgid[q] = Pgid[p]
    /\ sock' = [sock EXCEPT ![q] = sock[p]]
    /\ live' = [live EXCEPT ![q] = live[p]]
    /\ Goto(q, "user")
    /\ UNCHANGED <<callVars, workers, status, semVars, listenerVars,
                   channelVars, clientVars, crashes>>

(* accept() of the application: on a non-blocking socket an empty queue is  *)
(* an error, on a blocking one the process sleeps until a client comes.     *)
Accept(p) ==
    /\ pc[p] = "accept"
    /\ \E t \in Proc :
          /\ sock[p].shadowfd = Tcp(t)
          /\ \/ \E c \in queue[t] :
                   /\ queue' = [queue EXCEPT ![t] = @ \ {c}]
                   /\ sock' = [sock EXCEPT ![p].fds = @ \cup {c}]
             \/ /\ queue[t] = {} /\ ~Blocking
                /\ UNCHANGED <<queue, sock>>
    /\ Goto(p, "user")
    /\ UNCHANGED <<live, callVars, workers, status, semVars, listenerVars,
                   channelVars, tcpBound, visited, crashes>>

(* close() of a client connection.                                          *)
CloseClient(p, c) ==
    /\ pc[p] = "user" /\ c \in sock[p].fds
    /\ sock' = [sock EXCEPT ![p].fds = @ \ {c}]
    /\ UNCHANGED <<pc, live, callVars, workers, status, semVars, listenerVars,
                   channelVars, clientVars, crashes>>

-----------------------------------------------------------------------------
(* Entry of the event function: activation, monitor, termination.           *)

ActivatesAlways(p) == TRUE
Activates(p) == ~live[p]

EventCall(p) ==
    /\ pc[p] = "user" /\ p \notin Master
    /\ workers' = IF Activates(p) THEN [workers EXCEPT ![Pgid[p]] = @ + 1]
                  ELSE workers
    /\ live' = [live EXCEPT ![p] = TRUE]
    /\ Goto(p, "monitor")
    /\ UNCHANGED <<sock, callVars, status, semVars, listenerVars, channelVars,
                   clientVars, crashes>>

QuitsEarly(p) ==
    sock[p].version <= status.version /\ sock[p].monitoring /\ ~sock[p].locked
PublishesLate(p) == sock[p].version > status.version + 1 /\ sock[p].monitoring

(* dsu_monitor_fd, under the status semaphore.                              *)
Quits(p) == sock[p].version < status.version /\ sock[p].monitoring /\ ~sock[p].locked
Publishes(p) == sock[p].version > status.version /\ sock[p].monitoring

(* Quitting closes comfd and loads TRANSFER; the decrement is stored by     *)
(* QuitStore.  The semaphore is held in between.                            *)
Monitor(p) ==
    /\ pc[p] = "monitor" /\ Free(sock[p].statusSem)
    /\ \/ /\ Quits(p)
          /\ SemWait(sock[p].statusSem)
          /\ sock' = [sock EXCEPT ![p].comfd = None, ![p].monitoring = FALSE]
          /\ reg' = [reg EXCEPT ![p] = status.transfer]
          /\ Goto(p, "quit")
          /\ UNCHANGED status
       \/ /\ ~Quits(p)
          /\ status' = IF Publishes(p)
                       THEN [status EXCEPT !.pgid = Pgid[p], !.version = @ + 1]
                       ELSE status
          /\ Goto(p, "terminate")
          /\ UNCHANGED <<sem, sock, reg>>
    /\ UNCHANGED <<live, call, peer, workers, semName, listenerVars,
                   channelVars, clientVars, crashes>>

TransferKept(p) == reg[p]
TransferLeft(p) == reg[p] - 1

QuitStore(p) ==
    /\ pc[p] = "quit"
    /\ status' = [status EXCEPT !.transfer = TransferLeft(p)]
    /\ reg' = [reg EXCEPT ![p] = 0]
    /\ sock' = [sock EXCEPT ![p].transfer = FALSE]
    /\ SemPost(sock[p].statusSem)
    /\ Goto(p, "terminate")
    /\ UNCHANGED <<live, call, peer, workers, semName, listenerVars,
                   channelVars, clientVars, crashes>>

TerminableWithClients(p) ==
    sock[p].version < status.version /\ ~sock[p].monitoring /\ sock[p].comfds = {}

(* dsu_termination_detection, for the one port of the model.                *)
Terminable(p) ==
    /\ sock[p].version < status.version
    /\ ~sock[p].monitoring
    /\ sock[p].comfds = {}
    /\ sock[p].fds = {}

TerminationDetection(p) ==
    /\ pc[p] = "terminate" /\ Free(sock[p].statusSem)
    /\ Goto(p, IF Terminable(p) THEN "exit" ELSE "pre")
    /\ UNCHANGED <<live, sock, callVars, workers, status, semVars, listenerVars,
                   channelVars, clientVars, crashes>>

AnyWorker(p) == TRUE
LastWorker(p) == workers[Pgid[p]] = 1

(* dsu_terminate: the last worker of the group goes on to kill the group.   *)
Terminate(p) ==
    /\ pc[p] = "exit"
    /\ workers' = [workers EXCEPT ![Pgid[p]] = @ - 1]
    /\ \/ /\ LastWorker(p)
          /\ Goto(p, "killpg")
          /\ UNCHANGED <<live, sock, callVars, channelVars>>
       \/ /\ ~LastWorker(p)
          /\ Die({p})
    /\ UNCHANGED <<status, semVars, listenerVars, clientVars, crashes>>

KilledAlone(p) == {p}
Killed(p) == {q \in Proc : Alive(q) /\ Pgid[q] = Pgid[p]}

KillGroup(p) ==
    /\ pc[p] = "killpg"
    /\ Die(Killed(p))
    /\ UNCHANGED <<workers, status, semVars, listenerVars, clientVars, crashes>>

-----------------------------------------------------------------------------
(* What the event function watches, and its return.                         *)

ExclusiveAfterOne == status.transfer > 1 /\ Blocking

(* While a transfer is counted, a blocking socket is watched under fd_sem.  *)
Exclusive == status.transfer > 0 /\ Blocking

(* sem_trywait(fd_sem), made while status_sem is held.                      *)
TryLock(p) == sock[p].fdSem # sock[p].statusSem /\ Free(sock[p].fdSem)

(* Whether the TCP socket is already in the interest list.                  *)
Registered(p) == sock[p].shadowfd \in sock[p].interest

WatchesRegistered(p, locks) == Registered(p)
Watches(p, locks) == Registered(p) \/ (Exclusive => locks)

PreEvent(p) ==
    LET locks == Exclusive /\ TryLock(p) IN
    /\ pc[p] = "pre"
    /\ \/ /\ ~sock[p].monitoring
          /\ call' = [call EXCEPT ![p].watch = Registered(p)]
          /\ UNCHANGED <<sem, sock>>
       \/ /\ sock[p].monitoring /\ Free(sock[p].statusSem)
          /\ call' = [call EXCEPT
                         ![p].watch = Watches(p, locks),
                         ![p].hurry = status.transfer > 0 /\ Handler[p] = "select"]
          /\ IF locks THEN SemWait(sock[p].fdSem) ELSE UNCHANGED sem
          /\ sock' = [sock EXCEPT
                         ![p].locked = @ \/ locks,
                         ![p].interest = IF Handler[p] = "epoll" THEN @ \cup {sock[p].comfd}
                                         ELSE @]
    /\ Goto(p, "wait")
    /\ UNCHANGED <<live, reg, peer, workers, status, semName, listenerVars,
                   channelVars, clientVars, crashes>>

(* An internal connection is readable: a request, or end of file.           *)
Readable(c) == request[c] = "unread" \/ ~Requesting(c)

(* A socket that is not listening (after a failed connect) reports hang-up. *)
(* A listener closed by this process stays in the interest list of its      *)
(* epoll instance for as long as another process has it open.               *)
ComReady(p) ==
    \E l \in Proc :
        \/ /\ sock[p].monitoring /\ sock[p].comfd = Com(l)
           /\ l \in listening => backlog[l] # <<>>
        \/ /\ ~sock[p].monitoring /\ Com(l) \in sock[p].interest
           /\ Open(Com(l)) /\ backlog[l] # <<>>

TcpReady(p) ==
    call[p].watch /\ \E t \in Proc : sock[p].shadowfd = Tcp(t) /\ queue[t] # {}

(* Whether a session has data for the application is up to its client.      *)
ReadySets(p) ==
    {[tcp |-> TcpReady(p), com |-> ComReady(p), user |-> u,
      conns |-> {c \in sock[p].comfds : Readable(c)}] :
        u \in {FALSE, sock[p].fds # {}}}

(* poll() handles the entries from the application's own number of entries  *)
(* on.  When the deactivated TCP socket has left the array, the first       *)
(* internal entry, comfd or else the head of comfds, lies below that and    *)
(* waits for a call that watches the TCP socket.                            *)
Handled(p, r) ==
    IF Handler[p] # "poll" \/ call[p].watch THEN {r}
    ELSE IF sock[p].monitoring \/ sock[p].comfds = {} THEN {[r EXCEPT !.com = FALSE]}
    ELSE {[r EXCEPT !.conns = @ \ {c}] : c \in sock[p].comfds}

Wake(p) ==
    /\ pc[p] = "wait"
    /\ \E r \in ReadySets(p) \ {NothingReady} : \E h \in Handled(p, r) :
          call' = [call EXCEPT
                      ![p].ready = h,
                      ![p].overrun = Handler[p] = "poll" /\ (r.com \/ r.conns # {})]
    /\ Goto(p, "handle")
    /\ UNCHANGED <<live, sock, reg, peer, workers, status, semVars, listenerVars,
                   channelVars, clientVars, crashes>>

Idle(p) == pc[p] = "wait" /\ NothingReady \in ReadySets(p)

(* The 100 microseconds of a transfer or the application's own timeout:     *)
(* nothing is left to handle.                                               *)
Timeout(p) ==
    /\ Idle(p) /\ Handler[p] # "poll" /\ (call[p].hurry \/ UserTimeout)
    /\ Goto(p, "handle")
    /\ UNCHANGED <<live, sock, callVars, workers, status, semVars, listenerVars,
                   channelVars, clientVars, crashes>>

(* poll() returns the 0 at once, without unlocking.  The application goes   *)
(* through its array, whose revents poll() sets but never clears.           *)
PollTimeout(p) ==
    /\ Idle(p) /\ Handler[p] = "poll" /\ UserTimeout
    /\ call' = [call EXCEPT ![p] = NoCall]
    /\ Goto(p, IF sock[p].revents THEN "accept" ELSE "user")
    /\ UNCHANGED <<live, sock, reg, peer, workers, status, semVars, listenerVars,
                   channelVars, clientVars, crashes>>

UnlockNever(p) ==
    UNCHANGED sem /\ sock' = [sock EXCEPT ![p].interest = @ \ {sock[p].shadowfd}]
UnlockAlways(p) ==
    /\ SemPost(sock[p].fdSem)
    /\ sock' = [sock EXCEPT ![p].locked = FALSE,
                            ![p].interest = @ \ {sock[p].shadowfd}]

(* post: sem_post(fd_sem) if a call took it and did not give it back.       *)
(* epoll_wait also takes shadowfd out of the interest list, and poll marks  *)
(* the TCP socket's entry in the application's array.                       *)
Unlock(p) ==
    /\ IF sock[p].locked THEN SemPost(sock[p].fdSem) ELSE UNCHANGED sem
    /\ sock' = [sock EXCEPT ![p].locked = FALSE,
                            ![p].interest = @ \ {sock[p].shadowfd},
                            ![p].revents = @ \/ (Handler[p] = "poll" /\ call[p].ready.tcp)]

(* EINTR: select() and poll() return at once, epoll_wait() after its        *)
(* post-processing.                                                         *)
Interrupt(p) ==
    /\ pc[p] = "wait" /\ Signals
    /\ IF Handler[p] = "epoll" THEN Unlock(p) ELSE UNCHANGED <<sem, sock>>
    /\ call' = [call EXCEPT ![p] = NoCall]
    /\ Goto(p, "user")
    /\ UNCHANGED <<live, reg, peer, workers, status, semName, listenerVars,
                   channelVars, clientVars, crashes>>

(* With nothing for the application and no timeout of its own, select() is  *)
(* entered again instead of returning 0.                                    *)
Restarts(p) ==
    /\ Handler[p] = "select" /\ ~UserTimeout
    /\ ~call[p].ready.tcp /\ ~call[p].ready.user

(* Every internal connection that was ready has been handled.               *)
HandledConns(p) ==
    pc[p] = "handle" /\ ~call[p].ready.com /\ call[p].ready.conns = {}

Post(p) ==
    /\ HandledConns(p)
    /\ Unlock(p)
    /\ call' = [call EXCEPT ![p] = NoCall]
    /\ Goto(p, CASE call[p].ready.tcp \/ sock[p].revents -> "accept"
                 [] Restarts(p) -> "monitor"
                 [] OTHER -> "user")
    /\ UNCHANGED <<live, reg, peer, workers, status, semName, listenerVars,
                   channelVars, clientVars, crashes>>

(* dsu_set_revents looks for every ready entry in the application's array;  *)
(* for an internal one it reads on behind the end of the array until some   *)
(* memory equals the descriptor, or faults.                                 *)
ScanFault(p) ==
    /\ HandledConns(p) /\ call[p].overrun /\ ScanFaults
    /\ IF sock[p].locked THEN SemPost(sock[p].fdSem) ELSE UNCHANGED sem
    /\ Die({p})
    /\ UNCHANGED <<workers, status, semName, listenerVars, clientVars, crashes>>

-----------------------------------------------------------------------------
(* Internal connections: dsu_handle_conn, _poll and _epoll.                 *)

(* accept4 on comfd.  With an empty backlog it fails on a non-blocking      *)
(* listener and sleeps on a blocking one.                                   *)
HandleAccept(p) ==
    /\ pc[p] = "handle" /\ call[p].ready.com
    /\ \/ \E l \in Proc :
             /\ sock[p].comfd = Com(l) /\ backlog[l] # <<>>
             /\ backlog' = [backlog EXCEPT ![l] = Tail(@)]
             /\ sock' = [sock EXCEPT ![p].comfds = @ \cup {Head(backlog[l])}]
       \/ /\ \A l \in listening :
                sock[p].comfd = Com(l) => backlog[l] = <<>> /\ l \in nonblocking
          /\ UNCHANGED <<backlog, sock>>
    /\ call' = [call EXCEPT ![p].ready.com = FALSE]
    /\ UNCHANGED <<pc, live, reg, peer, workers, status, semVars, bound,
                   listening, nonblocking, channelVars, clientVars, crashes>>

(* One readable connection is taken up; select() and poll() accept first.   *)
Takes(p, c) ==
    /\ pc[p] = "handle" /\ c \in call[p].ready.conns
    /\ Handler[p] # "epoll" => ~call[p].ready.com
    /\ call' = [call EXCEPT ![p].ready.conns = @ \ {c}]

ConnKept(p, c) == sock[p].comfds
ConnRemoved(p, c) == sock[p].comfds \ {c}

(* recv returned 0: the requester closed.                                   *)
HandleClose(p, c) ==
    /\ Takes(p, c)
    /\ request[c] # "unread" /\ ~Requesting(c) /\ c \notin reset
    /\ sock' = [sock EXCEPT ![p].comfds = ConnRemoved(p, c)]
    /\ UNCHANGED <<pc, live, reg, peer, workers, status, semVars, listenerVars,
                   channelVars, clientVars, crashes>>

(* recv failed with EAGAIN: another process already read the message.       *)
HandleRace(p, c) ==
    /\ Takes(p, c)
    /\ request[c] # "unread" /\ Requesting(c)
    /\ UNCHANGED <<pc, live, sock, reg, peer, workers, status, semVars,
                   listenerVars, channelVars, clientVars, crashes>>

(* recv failed otherwise, which it reports once: port is -1, the transfer   *)
(* is not counted, and the replies are attempted.                           *)
HandleError(p, c) ==
    /\ Takes(p, c)
    /\ request[c] # "unread" /\ c \in reset
    /\ reset' = reset \ {c}
    /\ peer' = [peer EXCEPT ![p] = c]
    /\ Goto(p, "reply1")
    /\ UNCHANGED <<live, sock, reg, workers, status, semVars, listenerVars,
                   request, replies, clientVars, crashes>>

HandleRequest(p, c) ==
    /\ Takes(p, c)
    /\ request[c] = "unread"
    /\ request' = [request EXCEPT ![c] = "read"]
    /\ peer' = [peer EXCEPT ![p] = c]
    /\ Goto(p, "count")
    /\ UNCHANGED <<live, sock, reg, workers, status, semVars, listenerVars,
                   replies, reset, clientVars, crashes>>

(* Each process counts itself in TRANSFER once; the increment is loaded     *)
(* here and stored by CountStore, with the status semaphore held.           *)
CountLoad(p) ==
    /\ pc[p] = "count" /\ Free(sock[p].statusSem)
    /\ \/ /\ sock[p].transfer
          /\ Goto(p, "reply1")
          /\ UNCHANGED <<sem, reg>>
       \/ /\ ~sock[p].transfer
          /\ SemWait(sock[p].statusSem)
          /\ reg' = [reg EXCEPT ![p] = status.transfer]
          /\ Goto(p, "store")
    /\ UNCHANGED <<live, sock, call, peer, workers, status, semName,
                   listenerVars, channelVars, clientVars, crashes>>

CountStore(p) ==
    /\ pc[p] = "store"
    /\ status' = [status EXCEPT !.transfer = reg[p] + 1]
    /\ reg' = [reg EXCEPT ![p] = 0]
    /\ sock' = [sock EXCEPT ![p].transfer = TRUE]
    /\ SemPost(sock[p].statusSem)
    /\ Goto(p, "reply1")
    /\ UNCHANGED <<live, call, peer, workers, semName, listenerVars,
                   channelVars, clientVars, crashes>>

(* dsu_write_fd: nothing is sent for a closed descriptor, and writing to a  *)
(* requester that is gone raises SIGPIPE.  The size handed to getsockopt is *)
(* uninitialised; when it is negative nothing is sent either.               *)
WriteFd(p, fd, next) ==
    \/ /\ fd # None /\ Requesting(peer[p])
       /\ replies' = [replies EXCEPT ![peer[p]] = Append(@, fd)]
       /\ Goto(p, next)
       /\ UNCHANGED <<sock, call, reg, reset>>
    \/ /\ \/ fd = None
          \/ JunkLen
          \/ ~Requesting(peer[p]) /\ ~SigpipeFatal
       /\ Goto(p, next)
       /\ UNCHANGED <<sock, call, reg, replies, reset>>

(* The process is killed by SIGPIPE while answering.                        *)
WriteKills(p, fd) ==
    /\ fd # None /\ ~Requesting(peer[p]) /\ SigpipeFatal
    /\ Die({p})

ReplyOnce(p) ==
    /\ pc[p] = "reply1"
    /\ WriteFd(p, sock[p].shadowfd, "handle")
    /\ peer' = [peer EXCEPT ![p] = None]
    /\ UNCHANGED <<live, request, workers, status, semVars, listenerVars,
                   clientVars, crashes>>

ReplyShadow(p) ==
    /\ pc[p] = "reply1"
    /\ \/ /\ WriteFd(p, sock[p].shadowfd, "reply2")
          /\ UNCHANGED <<live, peer, request>>
       \/ WriteKills(p, sock[p].shadowfd)
    /\ UNCHANGED <<workers, status, semVars, listenerVars, clientVars, crashes>>

ReplyComfd(p) ==
    /\ pc[p] = "reply2"
    /\ \/ /\ WriteFd(p, sock[p].comfd, "handle")
          /\ peer' = [peer EXCEPT ![p] = None]
          /\ UNCHANGED <<live, request>>
       \/ WriteKills(p, sock[p].comfd)
    /\ UNCHANGED <<workers, status, semVars, listenerVars, clientVars, crashes>>

-----------------------------------------------------------------------------
(* A failing sem_wait.  A process that sleeps in it is woken by a signal;   *)
(* the call returns -1 and the code goes on without the section, or, where  *)
(* it ignores the result, into it.                                          *)

InSection(p) ==
    \/ pc[p] \in {"version", "fresh", "monitor", "terminate", "count"}
    \/ pc[p] = "pre" /\ sock[p].monitoring

(* Only who finds the semaphore taken sleeps: by a holder, or by a process  *)
(* in the middle of a section that is one step here.                        *)
SleepsOnStatus(p) ==
    /\ SemFails /\ InSection(p)
    /\ \/ ~Free(sock[p].statusSem)
       \/ \E q \in Proc \ {p} :
             InSection(q) /\ sock[q].statusSem = sock[p].statusSem

(* What version holds if the section that sets it is skipped: a local       *)
(* variable of socket() was copied there without a value.                   *)
JunkVersion == {-1, 3}

SkipVersion(p) ==
    /\ pc[p] \in {"version", "fresh"}
    /\ \E v \in JunkVersion :
          sock' = [sock EXCEPT ![p].version = v,
                      ![p].interest = IF pc[p] = "version" /\ Handler[p] = "epoll"
                                      THEN {sock[p].shadowfd} ELSE {}]
    /\ Goto(p, IF pc[p] = "version" THEN "user" ELSE "tcpbind")
    /\ UNCHANGED <<call, reg, sem>>

SkipMonitor(p) ==
    /\ \/ pc[p] = "monitor" /\ Goto(p, "terminate")
       \/ pc[p] = "terminate" /\ Goto(p, "pre")
    /\ UNCHANGED <<sock, call, reg, sem>>

(* The deactivated TCP socket stays out of this call.                       *)
SkipWatch(p) ==
    /\ pc[p] = "pre"
    /\ call' = [call EXCEPT ![p].watch = Registered(p)]
    /\ sock' = [sock EXCEPT ![p].interest =
                   IF Handler[p] = "epoll" THEN @ \cup {sock[p].comfd} ELSE @]
    /\ Goto(p, "wait")
    /\ UNCHANGED <<reg, sem>>

(* The answer ignores the result: it counts itself without the semaphore    *)
(* and posts it, here or in CountStore.                                     *)
CountUnlocked(p) ==
    /\ pc[p] = "count"
    /\ \/ /\ sock[p].transfer
          /\ SemPost(sock[p].statusSem)
          /\ Goto(p, "reply1")
          /\ UNCHANGED reg
       \/ /\ ~sock[p].transfer
          /\ reg' = [reg EXCEPT ![p] = status.transfer]
          /\ Goto(p, "store")
          /\ UNCHANGED sem
    /\ UNCHANGED <<sock, call>>

StatusWaitFails(p) ==
    /\ SleepsOnStatus(p)
    /\ SkipVersion(p) \/ SkipMonitor(p) \/ SkipWatch(p) \/ CountUnlocked(p)
    /\ UNCHANGED <<live, peer, workers, status, semName, listenerVars,
                   channelVars, clientVars, crashes>>

(* The lock of the worker count: a worker goes uncounted, or leaves without *)
(* counting itself out and without killing the group.                       *)
InWorkers(p) ==
    \/ pc[p] = "user" /\ ~live[p] /\ p \notin Master
    \/ pc[p] = "exit"

WorkersWaitFails(p) ==
    /\ SemFails /\ InWorkers(p)
    /\ \E q \in Proc \ {p} : Pgid[q] = Pgid[p] /\ InWorkers(q)
    /\ \/ /\ pc[p] = "user"
          /\ live' = [live EXCEPT ![p] = TRUE]
          /\ Goto(p, "monitor")
          /\ UNCHANGED <<sock, callVars, channelVars>>
       \/ /\ pc[p] = "exit"
          /\ Die({p})
    /\ UNCHANGED <<workers, status, semVars, listenerVars, clientVars, crashes>>

-----------------------------------------------------------------------------
(* The environment.                                                         *)

ClientConnect(c) ==
    /\ c \notin visited
    /\ \E t \in tcpBound :
          /\ Open(Tcp(t))
          /\ queue' = [queue EXCEPT ![t] = @ \cup {c}]
    /\ visited' = visited \cup {c}
    /\ UNCHANGED <<pc, live, sock, callVars, workers, status, semVars,
                   listenerVars, channelVars, tcpBound, crashes>>

(* The process dies without running any code of the library.                *)
Crash(p) ==
    /\ Alive(p) /\ crashes < MaxCrashes
    /\ crashes' = crashes + 1
    /\ Die({p})
    /\ UNCHANGED <<workers, status, semVars, listenerVars, clientVars>>

-----------------------------------------------------------------------------

(* The port's shared memory is never unlinked, so it may hold the values of *)
(* an earlier run.                                                          *)
Leftover == [pgid : Group, version : {0, 2}, transfer : {0, 1}]

Init ==
    /\ pc = [p \in Proc |-> "none"]
    /\ live = [p \in Proc |-> FALSE]
    /\ sock = [p \in Proc |-> NoSock]
    /\ call = [p \in Proc |-> NoCall]
    /\ reg = [p \in Proc |-> 0]
    /\ peer = [p \in Proc |-> None]
    /\ workers = [g \in Group |-> 0]
    /\ status \in Leftover
    /\ sem = [s \in Sem |-> 0]
    /\ semName = None
    /\ bound = {} /\ listening = {} /\ nonblocking = {}
    /\ backlog = [p \in Proc |-> <<>>]
    /\ request = [p \in Proc |-> "none"]
    /\ replies = [p \in Proc |-> <<>>]
    /\ reset = {}
    /\ tcpBound = {} /\ visited = {}
    /\ queue = [p \in Proc |-> {}]
    /\ crashes = 0

BindStep(p) ==
    \/ MonitorBind(p) \/ MonitorListen(p)
    \/ Connect(p) \/ SendPort(p) \/ ReadShadow(p) \/ ReadComfd(p)
    \/ InheritStatusSem(p) \/ InheritFdSem(p) \/ InheritVersion(p)
    \/ FreshStatusSem(p) \/ FreshFdSem(p) \/ FreshStatus(p) \/ TcpBind(p)

HandleStep(p) ==
    \/ HandleAccept(p)
    \/ \E c \in Proc : \/ HandleClose(p, c) \/ HandleRace(p, c)
                       \/ HandleError(p, c) \/ HandleRequest(p, c)
    \/ CountLoad(p) \/ CountStore(p) \/ ReplyShadow(p) \/ ReplyComfd(p)

EventStep(p) ==
    \/ EventCall(p) \/ Monitor(p) \/ QuitStore(p) \/ TerminationDetection(p)
    \/ Terminate(p) \/ KillGroup(p) \/ PreEvent(p) \/ Wake(p) \/ Timeout(p)
    \/ PollTimeout(p) \/ HandleStep(p) \/ Post(p) \/ ScanFault(p)

AppStep(p) ==
    \/ Accept(p)
    \/ \E c \in Client : CloseClient(p, c)

(* What the scheduler and the application owe a running process.            *)
ProcessStep(p) == BindStep(p) \/ EventStep(p) \/ AppStep(p)

Environment ==
    \/ \E c \in Client : ClientConnect(c)
    \/ \E p \in Proc : Start(p) \/ Interrupt(p) \/ Crash(p)
    \/ \E p, q \in Proc : Fork(p, q)

Step == (\E p \in Proc : ProcessStep(p)) \/ Environment

Next == Step \/ \E p \in Proc : StatusWaitFails(p) \/ WorkersWaitFails(p)

Spec == Init /\ [][Next]_vars

(* Scheduling: a running process keeps running, accept() returns once a     *)
(* client waits, a sleeper on a semaphore that is posted again and again    *)
(* gets it, and every session gets its turn and is closed in the end.       *)
SemStep(p) ==
    \/ InheritVersion(p) \/ Monitor(p) \/ TerminationDetection(p)
    \/ PreEvent(p) \/ CountLoad(p)

UserEvent(p) == Wake(p) /\ call'[p].ready.user

Fairness ==
    \A p \in Proc :
        /\ WF_vars(BindStep(p)) /\ WF_vars(EventStep(p)) /\ WF_vars(Accept(p))
        /\ SF_vars(SemStep(p)) /\ SF_vars(UserEvent(p))
        /\ \A c \in Client : SF_vars(CloseClient(p, c))

FairSpec == Spec /\ Fairness

-----------------------------------------------------------------------------
(* Types.                                                                   *)

BindPc == {"bind", "listen", "connect", "send", "recv1", "recv2",
           "inherit1", "inherit2", "version", "sem1", "sem2", "fresh", "tcpbind"}
EventPc == {"monitor", "quit", "terminate", "exit", "killpg", "pre", "wait",
            "handle", "count", "store", "reply1", "reply2"}
AppPc == {"user", "accept"}
PcType == BindPc \cup EventPc \cup AppPc \cup {"none", "dead"}

SockType == [fds : SUBSET Client, shadowfd : Fd \cup {None},
             comfds : SUBSET Proc, comfd : Fd \cup {None},
             monitoring : BOOLEAN, version : Nat, locked : BOOLEAN,
             transfer : BOOLEAN, statusSem : Sem \cup {None},
             fdSem : Sem \cup {None}, interest : SUBSET (Fd \cup {None}),
             revents : BOOLEAN]
ReadyType == [tcp : BOOLEAN, com : BOOLEAN, user : BOOLEAN, conns : SUBSET Proc]
CallType == [watch : BOOLEAN, hurry : BOOLEAN, overrun : BOOLEAN,
             ready : ReadyType]
StatusType == [pgid : Group, version : Nat, transfer : Int]

(* Type invariant of the whole state.  That sem stays in {0, 1} is already  *)
(* a claim about the code: no semaphore is posted more often than it was    *)
(* taken.  A lock that an interrupted select() keeps and a fork then        *)
(* duplicates would break it, and so would a failing sem_wait.              *)
TypeOK ==
    /\ pc \in [Proc -> PcType]
    /\ live \in [Proc -> BOOLEAN]
    /\ sock \in [Proc -> SockType]
    /\ call \in [Proc -> CallType]
    /\ reg \in [Proc -> Int]
    /\ peer \in [Proc -> Proc \cup {None}]
    /\ workers \in [Group -> Int]
    /\ status \in StatusType
    /\ sem \in [Sem -> {0, 1}]
    /\ semName \in Sem \cup {None}
    /\ bound \subseteq Proc /\ listening \subseteq Proc /\ nonblocking \subseteq Proc
    /\ backlog \in [Proc -> Seq(Proc)]
    /\ request \in [Proc -> {"none", "unread", "read"}]
    /\ replies \in [Proc -> Seq(Fd)]
    /\ reset \subseteq Proc
    /\ tcpBound \subseteq Proc
    /\ queue \in [Proc -> SUBSET Client]
    /\ visited \subseteq Client
    /\ crashes \in Nat

-----------------------------------------------------------------------------
(* Locks and the shared counter of transfers.                               *)

Serves(p) == pc[p] \in EventPc \cup AppPc
Counting(p) == pc[p] \in {"quit", "store"}

Holds(p, s) == \/ Counting(p) /\ sock[p].statusSem = s
               \/ sock[p].locked /\ sock[p].fdSem = s

(* One semaphore object, one holder, although an heir's status_sem and      *)
(* fd_sem are both the first version's fd_sem (core.c:662-670 builds one    *)
(* name for the two), so that a status section of one process and an fd     *)
(* lock of another meet on the same object.                                 *)
LockExclusive ==
    \A s \in Sem, p, q \in Proc :
        Holds(p, s) /\ Holds(q, s) => p = q /\ sem[s] = 0

(* The shared status is modified under a lock: no two processes are between *)
(* the load and the store of TRANSFER (core.c:241 "Because shared memory is *)
(* updates, lock is required").                                             *)
StatusMutex == \A p, q \in Proc : Counting(p) /\ Counting(q) => p = q

(* TRANSFER is the number of serving processes that have counted            *)
(* themselves: neither a delayed decrement nor an answer given twice lets   *)
(* the counter drift.                                                       *)
TransferCounts ==
    (\E p \in Proc : Serves(p)) /\ (\A p \in Proc : ~Counting(p)) =>
        status.transfer = Cardinality({p \in Proc : sock[p].transfer})

Watching(p) == pc[p] = "wait" /\ call[p].watch

(* select.c:172 "Only one process can monitor a blocking socket.  During    *)
(* transfer use lock.": processes of two versions never wait on a blocking  *)
(* TCP socket at the same time.                                             *)
BlockingWatchExclusive ==
    Blocking => \A p, q \in Proc : Watching(p) /\ Watching(q) => Pgid[p] = Pgid[q]

-----------------------------------------------------------------------------
(* The service.                                                             *)

(* p runs the event loop on the port's TCP socket and will not quit at its  *)
(* next entry.                                                              *)
InService(p) ==
    /\ Serves(p) /\ live[p] /\ sock[p].monitoring
    /\ sock[p].version >= status.version
    /\ \E t \in tcpBound : sock[p].shadowfd = Tcp(t)

(* p also holds the listener that the next version will connect to.         *)
Updatable(p) == InService(p) /\ \E l \in listening : sock[p].comfd = Com(l)

(* Once the port is served and can be updated it stays so through every     *)
(* update, in every order of the versions' steps, short of a crash: an old  *)
(* version quits only after a newer one has taken over both sockets.        *)
ServiceKept ==
    [][(\E p \in Proc : Updatable(p)) /\ crashes' = crashes
        => (\E p \in Proc : Updatable(p))']_vars

(* While the port is served the published version only ever grows, by one:  *)
(* no version is skipped and no start resets the status under a version     *)
(* that is running.                                                         *)
VersionStep ==
    [][(\E p \in Proc : InService(p))
        => status'.version \in {status.version, status.version + 1}]_vars

(* All versions serve one and the same TCP socket, so that a client queued  *)
(* before an update is accepted by whoever comes first.                     *)
OneSocket ==
    \A p, q \in Proc : Serves(p) /\ Serves(q) => sock[p].shadowfd = sock[q].shadowfd

(* core.c:689 "Could be a delayed process.": the processes of one group are *)
(* one version, whenever they call bind().                                  *)
OneVersionPerGroup ==
    \A p, q \in Proc : Serves(p) /\ Serves(q) /\ Pgid[p] = Pgid[q] =>
        sock[p].version = sock[q].version

-----------------------------------------------------------------------------
(* The internal connections.                                                *)

(* Its request was read, but a descriptor it waits for will never be sent.  *)
Stranded(c) ==
    /\ pc[c] \in {"recv1", "recv2"} /\ request[c] = "read" /\ replies[c] = <<>>
    /\ \A p \in Proc : peer[p] # c

(* core.c:74 "receive the file descriptor [...]  Also, receive the file     *)
(* descriptor of the named unix domain socket": whoever is answered gets    *)
(* both descriptors.                                                        *)
NoneStranded == \A c \in Proc : ~Stranded(c)

-----------------------------------------------------------------------------
(* Termination.                                                             *)

(* The shared worker count is the number of live workers of the group until *)
(* its last worker starts to kill the group, so the group is killed exactly *)
(* when no live worker is left, whatever forks, retires and exits in        *)
(* between.                                                                 *)
WorkersAccurate ==
    \A g \in Group :
        LET members == {p \in Proc : Alive(p) /\ Pgid[p] = g} IN
        members # {} /\ (\A p \in members : pc[p] # "killpg") =>
            workers[g] = Cardinality({p \in members : live[p]})

(* core.c:113 "The singlely linked list fds still contains open connections *)
(* with clients": no process disappears while it serves a client, neither   *)
(* by its own termination nor by a sibling's killpg.                        *)
SessionsSurvive ==
    [][\A p \in Proc : sock[p].fds # {} /\ crashes' = crashes => Alive(p)']_vars

Superseded(p) == Serves(p) /\ sock[p].version < status.version

(* A process of an old version is gone in the end, forked siblings and a    *)
(* master that waits for no event included.                                 *)
OldVersionEnds == \A p \in Proc : Superseded(p) ~> pc[p] = "dead"

(* A version that found the port taken ends up publishing its version and   *)
(* serving.                                                                 *)
UpdateCompletes ==
    \A p \in Binder :
        pc[p] = "connect" ~> InService(p) /\ status.version >= sock[p].version

(* A client that has connected is accepted by some version.                 *)
ClientsAccepted ==
    \A c \in Client, t \in Proc : c \in queue[t] ~> c \notin queue[t]

-----------------------------------------------------------------------------
(* The abstract update.                                                     *)

Role(p) == CASE pc[p] = "dead" -> "gone"
             [] Serves(p) /\ live[p] /\ sock[p].monitoring -> "serving"
             [] Serves(p) /\ live[p] /\ ~sock[p].monitoring -> "draining"
             [] OTHER -> "new"

U == INSTANCE Update WITH
        Leftover <- {r.version : r \in Leftover},
        published <- status.version,
        role <- [p \in Proc |-> Role(p)],
        version <- [p \in Proc |-> IF Role(p) \in {"serving", "draining"}
                                   THEN sock[p].version ELSE 0]

(* Every behaviour of the protocol is an update without a gap: binding,     *)
(* handshake, locks, forks and killed groups add up to the five actions of  *)
(* Update.                                                                  *)
Refines == U!Spec
=============================================================================
