------------------------------- MODULE Ports --------------------------------
(***************************************************************************)
(* One process of an application that serves several ports, seen at the    *)
(* level of descriptor numbers.                                            *)
(*                                                                         *)
(* openDSU remembers descriptors by number: the socket the application     *)
(* knows (fd), the one that really serves (shadowfd), the unix listener    *)
(* (comfd), and lists of accepted connections.  The kernel hands out the   *)
(* lowest free number, so a number that the library still remembers after  *)
(* it closed it may come back as something else.  The module follows the   *)
(* numbers through socket(), bind(), accept(), close() and the event       *)
(* functions, whose translation between the two views is modelled in full. *)
(*                                                                         *)
(* Other processes are the environment: requesters ask for a port and,     *)
(* once answered, take it over.  Locks, TRANSFER, process groups and the   *)
(* interleaving within one event call are the subject of Handover; here    *)
(* listening sockets are non-blocking and a call is few steps.             *)
(*                                                                         *)
(* A definition that stands right before an operator with the same         *)
(* parameters and that no action uses is a faulty variant of it.           *)
(***************************************************************************)
EXTENDS Integers, Sequences, SequencesExt, FiniteSets

CONSTANTS
    Port,         \* the ports the application binds
    Taken,        \* those an older version serves when the process starts
    Client,       \* TCP clients, each connecting at most once
    Requester,    \* processes of newer versions that ask for a port
    Modes,        \* event functions and timeouts the application may use
    Asks,         \* which port each requester may ask for
    Doors,        \* which port each client may connect to
    Closes,       \* the application closes sockets before it binds them, or
                  \* listening ones while it runs
    OpensFiles,   \* the application opens a descriptor of its own
    MaxFd,        \* highest descriptor number of the process
    None          \* no object

Number == 3..MaxFd

ASSUME PortsAssumption == Taken \subseteq Port /\ IsFiniteSet(Port)
ASSUME ModesAssumption ==
    Modes \subseteq [handler : {"select", "poll", "epoll"}, timeout : BOOLEAN]
ASSUME AsksAssumption == Asks \subseteq [Requester -> Port]
ASSUME DoorsAssumption == Doors \subseteq [Client -> Port]
ASSUME SwitchAssumption == {Closes, OpensFiles} \subseteq BOOLEAN
ASSUME MaxFdAssumption == MaxFd \in Nat /\ MaxFd >= 3

(* What a descriptor can refer to.                                          *)
Tcp(p)     == <<"tcp", p>>
Com(p)     == <<"com", p>>
Conn(r)    == <<"conn", r>>
Session(c) == <<"session", c>>
File       == <<"file", None>>
Unbound    == <<"socket", None>>
Memory     == <<"memory", None>>
Object == {Tcp(p) : p \in Port} \cup {Com(p) : p \in Port} \cup
          {Conn(r) : r \in Requester} \cup {Session(c) : c \in Client} \cup
          {File, Unbound, Memory}

ASSUME NoneAssumption == None \notin Object

VARIABLES
    mode,      \* the event function and whether it is given a timeout
    asks,      \* the port each requester asks for
    door,      \* the port each client connects to
    pc,        \* where the process is
    live,      \* dsu_program_state.live
    table,     \* the kernel's descriptor table of the process
    sockets,   \* dsu_program_state.sockets: numbers of unbound sockets
    binds,     \* dsu_program_state.binds
    interest,  \* internal entries of the application's epoll instance
    revents,   \* entries of its pollfd array whose revents were set
    report,    \* what the last event call told the application
    status,    \* shared memory of each port: the version serving it
    request,   \* how far each requester is
    gave,      \* objects sent to each requester
    client     \* how far each client is

environment == <<mode, asks, door>>
process == <<pc, live, sockets, interest, revents, report>>
vars == <<environment, process, table, binds, status, request, gave, client>>

-----------------------------------------------------------------------------
(* Descriptors.                                                             *)

FreeNumbers(t) == {n \in Number : t[n] = None}
Lowest(t) == Min(FreeNumbers(t))
Opened(t, o) == [t EXCEPT ![Lowest(t)] = o]
IsOpen(o) == \E n \in Number : table[n] = o

Held(o) == IsOpen(o) \/ \E r \in Requester : o \in gave[r]

(* Entries of the two lists.  A bound socket keeps what it knows by number. *)
BoundFds == {binds[i].fd : i \in DOMAIN binds}
Monitoring(b) == {i \in DOMAIN b : b[i].monitoring}
Conns(b) == UNION {ToSet(b[i].comfds) : i \in DOMAIN b}

(* The numbers the application knows, and those it waits for.               *)
Own == {n \in Number : \/ table[n] = File
                       \/ \E c \in Client : table[n] = Session(c)}
Awaited == BoundFds \cup Own
Owned == Awaited \cup sockets

NoReport == [fds |-> {}, count |-> 0, ready |-> {}]

(* The version of the process at port p, and whether a newer one serves it. *)
Version(p) == IF p \in Taken THEN 1 ELSE 0
Superseded(p) == status[p] > Version(p)

-----------------------------------------------------------------------------
(* The application opens and binds its sockets, before its first event call.*)

OpenSocket ==
    /\ pc = "user" /\ ~live /\ FreeNumbers(table) # {}
    /\ Cardinality(sockets) + Len(binds) < Cardinality(Port)
    /\ sockets' = sockets \cup {Lowest(table)}
    /\ table' = Opened(table, Unbound)
    /\ UNCHANGED <<environment, pc, live, interest, revents, report, binds,
                   status, request, gave, client>>

NewBind(p, f, shadow, com) ==
    [port |-> p, fd |-> f, shadowfd |-> shadow, comfd |-> com, comfds |-> <<>>,
     fds |-> {}, monitoring |-> TRUE, version |-> Version(p)]

(* bind() of an unbound socket f: the unix socket and the shared memory are *)
(* opened first; the number of the memory is never closed.  If an older     *)
(* version answers, the two descriptors it sends get the next numbers and   *)
(* the unix socket is closed again.                                         *)
Bind(f, p) ==
    /\ pc = "user" /\ ~live /\ f \in sockets
    /\ \A i \in DOMAIN binds : binds[i].port # p
    /\ Cardinality(FreeNumbers(table)) >= 4
    /\ LET com0   == Lowest(table)
           asking == Opened(table, Unbound)
           mapped == Opened(asking, Memory)
           shadow == Lowest(mapped)
           given  == Opened(mapped, Tcp(p))
           com    == Lowest(given)
       IN IF p \in Taken
          THEN /\ table' = [Opened(given, Com(p)) EXCEPT ![com0] = None]
               /\ binds' = Append(binds, NewBind(p, f, shadow, com))
          ELSE /\ table' = [mapped EXCEPT ![f] = Tcp(p), ![com0] = Com(p)]
               /\ binds' = Append(binds, NewBind(p, f, f, com0))
    /\ sockets' = sockets \ {f}
    /\ UNCHANGED <<environment, pc, live, interest, revents, report,
                   status, request, gave, client>>

(* A descriptor outside the library's view that a request may need, by       *)
(* open() for example.  At most one at a time.                              *)
OpenFile ==
    /\ OpensFiles /\ pc = "user" /\ live /\ ~IsOpen(File) /\ FreeNumbers(table) # {}
    /\ table' = Opened(table, File)
    /\ UNCHANGED <<environment, process, binds, status, request, gave, client>>

(* accept() on a listening socket that the last call reported: the number   *)
(* is looked up for its shadow, the session is added to the port's list.    *)
Accept(i, c) ==
    /\ pc = "user" /\ binds[i].fd \in report.fds
    /\ client[c] = "queued" /\ table[binds[i].shadowfd] = Tcp(door[c])
    /\ FreeNumbers(table) # {}
    /\ table' = Opened(table, Session(c))
    /\ binds' = [binds EXCEPT ![i].fds = @ \cup {Lowest(table)}]
    /\ client' = [client EXCEPT ![c] = "open"]
    /\ UNCHANGED <<environment, process, status, request, gave>>

(* close() searches the lists in this order and changes only the first that *)
(* knows the number; the number is closed in any case.                      *)
BoundAt(f) == SelectInSeq(binds, LAMBDA b : b.fd = f)
ListenerAt(f) == SelectInSeq(binds, LAMBDA b : b.comfd = f)
MonitorAt(f) == SelectInSeq(binds, LAMBDA b : b.comfd = f /\ b.monitoring)
InternalAt(f) == SelectInSeq(binds, LAMBDA b : f \in ToSet(b.comfds))
SessionAt(f) == SelectInSeq(binds, LAMBDA b : f \in b.fds)

BindsWithout(f) ==
    IF f \in sockets          THEN binds
    ELSE IF BoundAt(f) > 0    THEN RemoveAt(binds, BoundAt(f))
    ELSE IF MonitorAt(f) > 0  THEN [binds EXCEPT ![MonitorAt(f)].monitoring = FALSE]
    ELSE IF InternalAt(f) > 0 THEN [binds EXCEPT ![InternalAt(f)].comfds = RemoveFirst(@, f)]
    ELSE IF SessionAt(f) > 0  THEN [binds EXCEPT ![SessionAt(f)].fds = @ \ {f}]
    ELSE binds

Close(f) ==
    /\ pc = "user" /\ f \in Owned
    /\ f \in sockets => Closes
    /\ f \in BoundFds => Closes /\ live
    /\ binds' = BindsWithout(f)
    /\ sockets' = sockets \ {f}
    /\ table' = [table EXCEPT ![f] = None]
    /\ revents' = revents \ {f}
    /\ report' = [report EXCEPT !.fds = @ \ {f}]
    /\ client' = [c \in Client |-> IF table[f] = Session(c) THEN "gone" ELSE client[c]]
    /\ UNCHANGED <<environment, pc, live, interest, status, request, gave>>

-----------------------------------------------------------------------------
(* Entry of an event function: monitor every port, then look for reasons    *)
(* not to terminate.  Each loop over the ports is one step: what it reads   *)
(* and writes of one port has no influence on what it does to another.      *)

(* dsu_monitor_fd: quit a port that a newer version serves, and close the    *)
(* listener without forgetting its number; publish the own version.         *)
QuitsLate(b) == b.monitoring /\ b.version + 1 < status[b.port]
Quits(b) == b.monitoring /\ b.version < status[b.port]
PublishesAlways(b) == b.monitoring
Publishes(b) == b.monitoring /\ b.version > status[b.port]

EventCall ==
    /\ \/ pc = "user" /\ sockets = {} /\ report' = NoReport
       \/ pc = "again" /\ report' = report
    /\ LET left == {binds[i].comfd : i \in {j \in DOMAIN binds : Quits(binds[j])}}
       IN table' = [n \in Number |-> IF n \in left THEN None ELSE table[n]]
    /\ binds' = [i \in DOMAIN binds |->
                    [binds[i] EXCEPT !.monitoring = @ /\ ~Quits(binds[i])]]
    /\ status' = [p \in Port |->
                    IF \E i \in DOMAIN binds : binds[i].port = p /\ Publishes(binds[i])
                    THEN status[p] + 1 ELSE status[p]]
    /\ pc' = "detect" /\ live' = TRUE
    /\ UNCHANGED <<environment, sockets, interest, revents, request, gave, client>>

(* dsu_termination_detection: one port that needs the process is enough.    *)
NeededForPeers(b) == \/ b.version >= status[b.port]
                     \/ b.monitoring \/ b.comfds # <<>>
Needed(b) == \/ b.version >= status[b.port]
             \/ b.monitoring \/ b.comfds # <<>> \/ b.fds # {}

Detect ==
    /\ pc = "detect" /\ \E i \in DOMAIN binds : Needed(binds[i])
    /\ pc' = "wait"
    /\ UNCHANGED <<environment, live, table, sockets, binds, interest, revents,
                   report, status, request, gave, client>>

(* No port needs the process: it exits, with whatever it has open.          *)
Terminate ==
    /\ pc = "detect" /\ \A i \in DOMAIN binds : ~Needed(binds[i])
    /\ pc' = "gone"
    /\ table' = [n \in Number |-> None]
    /\ client' = [c \in Client |-> IF IsOpen(Session(c)) THEN "gone" ELSE client[c]]
    /\ request' = [r \in Requester |-> IF IsOpen(Conn(r)) THEN "gone" ELSE request[r]]
    /\ UNCHANGED <<environment, live, sockets, binds, interest, revents, report,
                   status, gave>>

-----------------------------------------------------------------------------
(* The wait itself, and what the library makes of its result.               *)

Queued(p) == {r \in Requester : request[r] = "queued" /\ asks[r] = p}
Entry(n) == [fd |-> n, of |-> table[n]]

(* What dsu_pre_* and dsu_sniff_conn* put in place of the numbers that the   *)
(* application waits for.                                                   *)
Shadows == {binds[i].shadowfd : i \in Monitoring(binds)}
ListenersOnly(b) ==
    FlattenSeq([i \in DOMAIN b |->
        IF b[i].monitoring THEN <<b[i].comfd>> ELSE <<>>])
Internals(b) ==
    FlattenSeq([i \in DOMAIN b |->
        (IF b[i].monitoring THEN <<b[i].comfd>> ELSE <<>>) \o b[i].comfds])

(* An epoll instance keeps an entry until nobody has the object open.       *)
Kept == {e \in interest : table[e.fd] = e.of \/ (e.of[1] = "com" /\ Held(e.of))}
Internal == {Entry(n) : n \in ToSet(Internals(binds))}
         \cup IF mode.handler = "epoll" THEN Kept ELSE {}
Watched == {Entry(n) : n \in Shadows \cup Own} \cup Internal

(* What the kernel must report.  A session may also have data at any time.  *)
Pending(o) ==
    \/ o[1] = "tcp"  /\ \E c \in Client : client[c] = "queued" /\ door[c] = o[2]
    \/ o[1] = "com"  /\ Queued(o[2]) # {}
    \/ o[1] = "conn" /\ request[o[2]] \in {"sent", "closed"}
    \/ o[1] = "session" /\ client[o[2]] = "over"
MayHaveData(o) == o = File \/ o[1] = "session"

(* Poll handles only the entries from the application's nfds on, although   *)
(* removing the ports it no longer serves has moved the others forward.     *)
Reached ==
    IF mode.handler = "poll"
    THEN LET skipped == Cardinality({i \in DOMAIN binds : ~binds[i].monitoring})
         IN ToSet(SubSeq(Internals(binds), skipped + 1, Len(Internals(binds))))
    ELSE Number

(* dsu_accept4 on the number of the listener, whatever that is by now.       *)
(* Requesters of one port are taken in any order.                           *)
AcceptOn(s, i) ==
    LET n  == s.binds[i].comfd
        o  == s.table[n]
        rs == IF o # None /\ o[1] = "com"
              THEN {r \in Requester : s.request[r] = "queued" /\ asks[r] = o[2]} ELSE {}
    IN IF rs = {} \/ FreeNumbers(s.table) = {} THEN s
       ELSE LET r == CHOOSE r \in rs : TRUE
            IN [s EXCEPT !.table = Opened(s.table, Conn(r)),
                         !.binds[i].comfds = Append(@, Lowest(s.table)),
                         !.request[r] = "accepted"]

(* A message is answered with what the remembered numbers lead to.          *)
SentOfFirst(s, b) == {s.table[s.binds[1].shadowfd], s.table[b.comfd]} \ {None}
Sent(s, b) == {s.table[b.shadowfd], s.table[b.comfd]} \ {None}

(* An end of file closes the connection; epoll marks the event with -1.     *)
Receive(s, i, n) ==
    LET r == s.table[n][2]
    IN CASE s.request[r] = "sent" ->
              [s EXCEPT !.request[r] = "answered", !.gave[r] = @ \cup Sent(s, s.binds[i])]
         [] s.request[r] = "closed" ->
              [s EXCEPT !.request[r] = "gone", !.table[n] = None,
                        !.binds[i].comfds = RemoveFirst(@, n),
                        !.hot = {IF mode.handler = "epoll" /\ e.fd = n
                                 THEN [e EXCEPT !.fd = -1] ELSE e : e \in @}]
         [] OTHER -> s

(* select takes the event away from the ports that follow, and counts it.   *)
CountedUncleared(s, n) == [s EXCEPT !.corr = @ + 1]
ClearedUncounted(s, n) == [s EXCEPT !.hot = {e \in @ : e.fd # n}]
Cleared(s, n) == [s EXCEPT !.hot = {e \in @ : e.fd # n}, !.corr = @ + 1]

(* What an event on number n means to the i-th bound socket, which looks it  *)
(* up in its list as that is by then.                                       *)
HandleEvent(s, i, n) ==
    LET b == s.binds[i]
        u == IF n = b.comfd THEN AcceptOn(s, i) ELSE Receive(s, i, n)
    IN IF \/ n \notin {e.fd : e \in s.hot} \cap Reached
          \/ n \notin {b.comfd} \cup ToSet(b.comfds)
       THEN s
       ELSE IF mode.handler = "select" THEN Cleared(u, n) ELSE u

(* dsu_handle_conn* of the i-th bound socket.  Those of select and poll meet *)
(* the listener first; epoll's meets the events in the order of the kernel, *)
(* where those of the connections in ahead come before the listener's.      *)
HandlePort(ahead, s, i) ==
    LET conns  == s.binds[i].comfds
        L      == Len(conns)
        turn   == conns \o <<s.binds[i].comfd>> \o conns
        Due(k) == k = L + 1 \/ (k <= L) = (turn[k] \in ahead)
        start  == IF mode.handler = "poll"
                  THEN [s EXCEPT !.corr = @ + Cardinality({e.fd : e \in s.hot} \cap Reached)]
                  ELSE s
        after[k \in 0..(2 * L + 1)] ==
            IF k = 0 THEN start
            ELSE IF Due(k) THEN HandleEvent(after[k - 1], i, turn[k]) ELSE after[k - 1]
    IN after[2 * L + 1]

(* Back to the numbers of the application: dsu_post_select, dsu_originalfd, *)
(* and dsu_is_internal_conn for the events that epoll takes out.            *)
Untranslated(b, n) == n
Original(b, n) == LET i == SelectInSeq(b, LAMBDA x : x.shadowfd = n)
                  IN IF i = 0 THEN n ELSE b[i].fd
IsInternalConn(b, n) ==
    \/ \E i \in Monitoring(b) : b[i].comfd = n
    \/ n \in Conns(b)

(* What the application gets to see: the bits that select has left, the     *)
(* entries of its own pollfd array, the events that epoll has not taken out.*)
Visible(s) ==
    CASE mode.handler = "select" -> s.hot
      [] mode.handler = "poll"   -> s.hot \ Internal
      [] mode.handler = "epoll"  -> {e \in s.hot : ~IsInternalConn(s.binds, e.fd)}

(* The numbers of the application that are ready, whatever the library says.*)
Ready(hot) == {n \in Own : Entry(n) \in hot}
         \cup {binds[i].fd : i \in {j \in Monitoring(binds) : Entry(binds[j].shadowfd) \in hot}}

(* What the kernel may answer, and what becomes of it: all ports handle     *)
(* their connections in turn.                                               *)
Answers == {{e \in Watched : Pending(e.of)} \cup data :
                data \in SUBSET {e \in Watched : MayHaveData(e.of)}} \ {{}}
Handled(hot, ahead) ==
    LET start == [table |-> table, binds |-> binds, request |-> request, gave |-> gave,
                  hot |-> hot, corr |-> 0]
        after[i \in 0..Len(binds)] ==
            IF i = 0 THEN start ELSE HandlePort(ahead, after[i - 1], i)
    IN after[Len(binds)]

(* One event call from the kernel's answer to the return: connections of    *)
(* requesters are handled, events translated and counted.  select() enters  *)
(* itself again instead of returning 0; poll() adds to the revents of the   *)
(* application's own array and never clears them.                           *)
Wake ==
    /\ pc = "wait"
    /\ \E hot \in Answers,
          ahead \in IF mode.handler = "epoll" THEN SUBSET Conns(binds) ELSE {{}} :
       \E s \in {Handled(hot, ahead)} :
        LET fds   == {Original(s.binds, e.fd) : e \in Visible(s)}
            count == IF mode.handler = "epoll" THEN Cardinality(Visible(s))
                     ELSE Cardinality(hot) - s.corr
            again == mode.handler = "select" /\ count = 0 /\ ~mode.timeout
        IN /\ table' = s.table /\ binds' = s.binds
           /\ request' = s.request /\ gave' = s.gave
           /\ revents' = IF mode.handler = "poll" THEN revents \cup fds ELSE {}
           /\ report' = IF again THEN report
                        ELSE [fds |-> fds \cup revents', count |-> count, ready |-> Ready(hot)]
           /\ pc' = (IF again THEN "again" ELSE "user")
    /\ interest' = IF mode.handler = "epoll" THEN Internal ELSE {}
    /\ UNCHANGED <<environment, live, sockets, status, client>>

(* Nothing was ready in time.                                               *)
Timeout ==
    /\ pc = "wait" /\ mode.timeout /\ \A e \in Watched : ~Pending(e.of)
    /\ pc' = "user" /\ report' = NoReport
    /\ interest' = IF mode.handler = "epoll" THEN Internal ELSE {}
    /\ UNCHANGED <<environment, live, table, sockets, binds, revents,
                   status, request, gave, client>>

-----------------------------------------------------------------------------
(* The others.                                                              *)

others == <<environment, process, table, binds>>

Connect(c) ==
    /\ client[c] = "away" /\ Held(Tcp(door[c]))
    /\ client' = [client EXCEPT ![c] = "queued"]
    /\ UNCHANGED <<others, status, request, gave>>

(* A client closes its end; a newer version accepts it instead.             *)
Leave(c) ==
    /\ client[c] = "open" /\ client' = [client EXCEPT ![c] = "over"]
    /\ UNCHANGED <<others, status, request, gave>>

Elsewhere(c) ==
    /\ client[c] = "queued" /\ \E r \in Requester : Tcp(door[c]) \in gave[r]
    /\ client' = [client EXCEPT ![c] = "gone"]
    /\ UNCHANGED <<others, status, request, gave>>

(* A requester connects and sends the port.  It closes the connection when  *)
(* it has two descriptors, and may end before it asks.  That a newer version *)
(* takes requests from the same listener is left out: it need not be quick. *)
Request(r) ==
    /\ request[r] = "away" /\ Held(Com(asks[r]))
    /\ request' = [request EXCEPT ![r] = "queued"]
    /\ UNCHANGED <<others, status, gave, client>>

Send(r) ==
    /\ request[r] = "accepted" /\ request' = [request EXCEPT ![r] = "sent"]
    /\ UNCHANGED <<others, status, gave, client>>

Hangup(r) ==
    /\ \/ request[r] = "accepted"
       \/ request[r] = "answered" /\ Cardinality(gave[r]) = 2
    /\ request' = [request EXCEPT ![r] = "closed"]
    /\ UNCHANGED <<others, status, gave, client>>

(* The first version that has both sockets of the port publishes its number.*)
Supersede(p) ==
    /\ status[p] = Version(p)
    /\ \E r \in Requester : {Tcp(p), Com(p)} \subseteq gave[r]
    /\ status' = [status EXCEPT ![p] = @ + 1]
    /\ UNCHANGED <<others, request, gave, client>>

-----------------------------------------------------------------------------
Init ==
    /\ mode \in Modes /\ asks \in Asks /\ door \in Doors
    /\ pc = "user" /\ live = FALSE
    /\ table = [n \in Number |-> None]
    /\ sockets = {} /\ binds = <<>> /\ interest = {} /\ revents = {}
    /\ report = NoReport
    /\ status = [p \in Port |-> 0]
    /\ request = [r \in Requester |-> "away"]
    /\ gave = [r \in Requester |-> {}]
    /\ client = [c \in Client |-> "away"]

Setup == \/ OpenSocket \/ OpenFile
         \/ \E f \in sockets, p \in Port : Bind(f, p)
Serve == \/ \E i \in DOMAIN binds, c \in Client : Accept(i, c)
         \/ \E f \in Number : Close(f)
Call == EventCall \/ Detect \/ Terminate
Return == Wake \/ Timeout
Clients == \E c \in Client : Connect(c) \/ Leave(c) \/ Elsewhere(c)
Requesters == \E r \in Requester : Request(r) \/ Send(r) \/ Hangup(r)

Next == Setup \/ Serve \/ Call \/ Return \/ Clients \/ Requesters
        \/ \E p \in Port : Supersede(p)

Spec == Init /\ [][Next]_vars

(* The application calls its event function again and again and closes a    *)
(* session whose client has left; clients leave at last; requesters go on.  *)
(* Only Wake and Timeout leave the wait, and one of them can whenever        *)
(* something can be ready or there is a timeout; so fairness of leaving is  *)
(* fairness of the two.                                                     *)
Leaves == /\ pc = "wait" /\ (mode.timeout \/ Answers # {})
          /\ pc' \in {"user", "again"}
CloseOver == \E f \in Number, c \in Client :
                 table[f] = Session(c) /\ client[c] = "over" /\ Close(f)
Fairness ==
    /\ WF_vars(Call) /\ WF_pc(Leaves) /\ SF_vars(CloseOver)
    /\ \A c \in Client : WF_vars(Leave(c))
    /\ \A r \in Requester : WF_vars(Send(r) \/ Hangup(r))
FairSpec == Spec /\ Fairness

-----------------------------------------------------------------------------
(* Properties.                                                              *)

BindType == [port : Port, fd : Number, shadowfd : Number, comfd : Number,
             comfds : Seq(Number), fds : SUBSET Number,
             monitoring : BOOLEAN, version : {0, 1}]

TypeOK ==
    /\ mode \in Modes /\ asks \in Asks /\ door \in Doors
    /\ pc \in {"user", "again", "detect", "wait", "gone"}
    /\ live \in BOOLEAN
    /\ table \in [Number -> Object \cup {None}]
    /\ sockets \subseteq Number /\ binds \in Seq(BindType)
    /\ interest \subseteq [fd : Number, of : Object]
    /\ revents \subseteq Number \cup {-1}
    /\ report.fds \subseteq Number \cup {-1} /\ report.count \in Int
    /\ report.ready \subseteq Number
    /\ status \in [Port -> 0..2]
    /\ request \in [Requester -> {"away", "queued", "accepted", "sent",
                                  "answered", "closed", "gone"}]
    /\ gave \in [Requester -> SUBSET Object]
    /\ client \in [Client -> {"away", "queued", "open", "over", "gone"}]

(* Numbers that a bound socket remembers although it closed them.           *)
Stale == {binds[i].comfd : i \in DOMAIN binds \ Monitoring(binds)}

(* Numbers under which epoll still reports a listener that the process      *)
(* closed, as other processes have it open.                                 *)
Ghosts == {e.fd : e \in {x \in interest : x.of[1] = "com" /\ table[x.fd] # x.of}}

(* Internal descriptors still open of sockets that the application closed.  *)
Orphans == {n \in Number : /\ table[n] \in {Com(p) : p \in Port} \cup {Conn(r) : r \in Requester}
                          /\ ~IsInternalConn(binds, n)}

(* What the lists of a bound socket say is true: its shadow is the port's   *)
(* socket, its listener is open while it monitors, and its two lists are    *)
(* exactly the open connections of the port, whatever numbers came back.    *)
ListsTrue ==
    pc # "gone" => \A i \in DOMAIN binds :
        LET b == binds[i]
        IN /\ table[b.shadowfd] = Tcp(b.port)
           /\ b.monitoring => table[b.comfd] = Com(b.port)
           /\ b.fds = {n \in Number : \E c \in Client :
                          table[n] = Session(c) /\ door[c] = b.port}
           /\ ToSet(b.comfds) = {n \in Number : \E r \in Requester :
                          table[n] = Conn(r) /\ asks[r] = b.port}

(* A call that returns to the application.                                  *)
Returns == pc = "wait" /\ pc' = "user"

(* An event function hides the internal connections and translates the      *)
(* rest: it never reports what is not ready or not the application's.  Two  *)
(* exceptions are in the code: epoll may report -1 and numbers of listeners *)
(* that are closed or orphaned, and poll what was ready in an earlier call. *)
Spurious == report.fds \ report.ready
NothingSpurious ==
    [][Returns => /\ report'.fds \cap Conns(binds') = {}
                  /\ \A i \in Monitoring(binds') : binds'[i].comfd \notin report'.fds
                  /\ Spurious' \subseteq
                         CASE mode.handler = "select" -> {}
                           [] mode.handler = "epoll"  -> {-1} \cup Ghosts' \cup Orphans'
                           [] mode.handler = "poll"   -> revents \cap Awaited]_vars

(* It reports everything that is ready; select misses what has the number   *)
(* of a listener it closed (select.c:59).                                   *)
Missed == report.ready \ report.fds
NothingMissed ==
    [][Returns => Missed' \subseteq (IF mode.handler = "select" THEN Stale ELSE {})]_vars

Delivered == [][Returns => Missed' = {}]_vars

(* The number returned is that of the descriptors reported, apart from      *)
(* epoll's events on -1 and on dead listeners; with poll only while         *)
(* there is one port and it is monitored (poll.c:91).                       *)
CountRight ==
    [][Returns =>
        IF mode.handler = "poll"
        THEN Len(binds) = 1 /\ Stale = {} => report'.count = Cardinality(report'.ready)
        ELSE report'.fds \cap ({-1} \cup Ghosts' \cup Orphans') = {} =>
                 report'.count = Cardinality(report'.fds)]_vars

(* A requester is given the sockets of the port that it asked for.          *)
HandedRight ==
    \A r \in Requester : gave[r] \subseteq {Tcp(asks[r]), Com(asks[r])}

(* The process exits only when every port it still has is served by a newer *)
(* version and no session of such a port is open.                           *)
EndsDone ==
    [][pc' = "gone" /\ pc # "gone" =>
         \A i \in DOMAIN binds :
             /\ Superseded(binds[i].port)
             /\ \A c \in Client : door[c] = binds[i].port => ~IsOpen(Session(c))]_vars

(* No exit closes a connection with a client.                               *)
NoClientLost ==
    [][pc' = "gone" /\ pc # "gone" => \A c \in Client : ~IsOpen(Session(c))]_vars

(* A process whose ports are all served by newer versions ends.             *)
Done == live /\ \A i \in DOMAIN binds : Superseded(binds[i].port)
Ends == Done ~> pc = "gone"

(* Who asks for a port that nobody else asks for is answered by this         *)
(* version, once the application is in its loop.                            *)
Answered == \A r \in Requester :
    live /\ request[r] = "queued" ~> request[r] \in {"answered", "closed", "gone"}
=============================================================================
