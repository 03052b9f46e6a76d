---------------------------- MODULE SocketProofs ----------------------------
(* Proofs about Handover: all versions serve one and the same TCP socket,   *)
(* for any processes, groups and clients, with crashes as long as           *)
(* dsu_write_fd does not drop a descriptor; without crashes (ServiceProofs) *)
(* also when it does.                                                       *)
EXTENDS HandoverProofs, SequenceTheorems

-----------------------------------------------------------------------------
(* The inductive invariant.                                                 *)

ServesBound(p) == \E t \in tcpBound : sock[p].shadowfd = Tcp(t)

(* With a negative len either descriptor is dropped, and then nobody sends  *)
(* the requester another one.                                               *)
Unanswered(c) == JunkLen /\ \A q \in Proc : peer[q] # c

(* What shadowfd is at each point of bind(), and from then on.  A requester *)
(* whose shadowfd was dropped reads comfd in its place.                     *)
Shadows ==
    \A p \in Proc :
        /\ pc[p] \in {"bind", "listen", "connect", "send", "recv1", "sem1",
                      "sem2", "fresh", "tcpbind"} => sock[p].shadowfd = Tcp(p)
        /\ pc[p] = "recv2" =>
              \/ reg[p] = 0 /\ sock[p].shadowfd = Tcp(p)
              \/ /\ reg[p] = 1 /\ request[p] = "read"
                 /\ ServesBound(p) \/ (Unanswered(p) /\ replies[p] = <<>>)
        /\ pc[p] \in {"inherit1", "inherit2", "version"} => ServesBound(p)
        /\ Serves(p) => ServesBound(p)

(* Of the sockets bound to the port one is open: a second bind() fails.      *)
BoundOnce == \A t, u \in tcpBound : Open(Tcp(t)) /\ Open(Tcp(u)) => t = u

(* Nothing of a process that has not started exists.                        *)
Unstarted ==
    \A p \in Proc :
        /\ pc[p] = "none" => p \notin tcpBound /\ p \notin listening /\ backlog[p] = <<>>
        /\ pc[p] \in {"none", "bind", "listen", "connect", "send"} => request[p] = "none"
        /\ pc[p] \in {"none", "bind", "listen", "connect", "send", "recv1"} => reg[p] = 0

(* Who answers a requester has read its request and lists its connection;   *)
(* a requester has one answerer.                                            *)
AnsweringPc == {"count", "store", "reply1", "reply2"}

Answerers ==
    /\ \A q \in Proc : peer[q] # None <=> pc[q] \in AnsweringPc
    /\ \A q, c \in Proc : peer[q] = c =>
          /\ request[c] = "read"
          /\ Requesting(c) => c \in sock[q].comfds
    /\ \A q, r, c \in Proc :
          peer[q] = c /\ peer[r] = c /\ Requesting(c) => q = r

(* Before its request is read a requester has no reply, and the first one   *)
(* is the TCP socket: reply2 finds it sent, or dropped.                     *)
Repliers ==
    /\ \A c \in Proc : /\ request[c] # "read" => replies[c] = <<>>
                       /\ c \in reset => pc[c] = "dead" /\ request[c] = "read"
                       /\ pc[c] = "recv1" /\ replies[c] # <<>> =>
                              \/ \E t \in tcpBound : Head(replies[c]) = Tcp(t)
                              \/ Unanswered(c) /\ Len(replies[c]) = 1
    /\ \A q, c \in Proc : peer[q] = c /\ Requesting(c) =>
          /\ pc[q] \in {"count", "store", "reply1"} => replies[c] = <<>> /\ pc[c] = "recv1"
          /\ pc[q] = "reply2" /\ pc[c] = "recv1" => JunkLen \/ replies[c] # <<>>

(* A requester that met an end of file at its first read will get nothing.  *)
EofIsFinal ==
    \A c \in Proc : pc[c] = "recv2" /\ reg[c] = 0 => Unserved(c) /\ replies[c] = <<>>

(* A requester whose request was read is not forgotten: a crash could do    *)
(* that, and the end of file would make it go on with what it has.          *)
Attended ==
    \A c \in Proc : request[c] = "read" /\ Requesting(c) =>
        \E q \in Proc : c \in sock[q].comfds

DescriptorInv ==
    Shadows /\ BoundOnce /\ Unstarted /\ Answerers /\ Repliers /\ EofIsFinal

(* A connection found ready is in the list while it waits for its turn.     *)
ReadyListed ==
    \A p \in Proc : /\ call[p].ready.conns \subseteq sock[p].comfds
                    /\ pc[p] = "none" => call[p].ready.conns = {}

SocketInv == DescriptorInv /\ ReadyListed

-----------------------------------------------------------------------------
(* Steps that pass no descriptor.                                           *)

(* What a step leaves of a process's sockets: shadowfd stays, comfd stays   *)
(* or is closed, no connection comes and none of a requester that still     *)
(* waits goes.                                                              *)
KeepsFds(q) ==
    /\ sock'[q].shadowfd = sock[q].shadowfd
    /\ sock'[q].comfd \in {sock[q].comfd, None}
    /\ sock'[q].comfds \subseteq sock[q].comfds
    /\ \A c \in sock[q].comfds : Requesting(c) => c \in sock'[q].comfds

(* How the place of a process changes in such a step.                       *)
CalmMove(p) ==
    \/ pc[p] = "bind" /\ pc'[p] \in {"listen", "connect"} /\ reg'[p] = reg[p]
    \/ /\ pc[p] \in {"listen", "connect", "send", "sem1", "sem2", "fresh"}
       /\ pc'[p] \in {"sem1", "sem2", "fresh", "tcpbind"}
    \/ /\ pc[p] \in {"inherit1", "inherit2", "version"}
       /\ pc'[p] \in {"inherit2", "version", "user"}
    \/ Serves(p) /\ Serves(p)' /\ pc[p] \notin AnsweringPc /\ pc'[p] \notin AnsweringPc
    \/ /\ pc[p] \in {"count", "store", "reply1"}
       /\ pc'[p] \in {"count", "store", "reply1"}
    \/ pc[p] = "reply1" /\ pc'[p] = "reply2" /\ (JunkLen \/ ~Requesting(peer[p]))

(* A socket that is open after a step was open before, if no process and no *)
(* message got hold of one that was not.                                    *)
LEMMA NothingOpened ==
    ASSUME NEW fd, fd # None, Open(fd)',
           \A q \in Proc : Alive(q)' => Alive(q) /\ KeepsFds(q),
           \A c \in Proc : replies'[c] = replies[c]
    PROVE  Open(fd)
BY DEF Open, KeepsFds

LEMMA CalmStep ==
    ASSUME TypeOK, DescriptorInv, NEW p \in Proc, CalmMove(p),
           \A q \in Proc \ {p} : pc'[q] = pc[q] /\ reg'[q] = reg[q],
           \A q \in Proc : KeepsFds(q),
           listening' \subseteq listening \cup {p},
           UNCHANGED <<peer, request, replies, reset, backlog, tcpBound>>
    PROVE  DescriptorInv'
<1> USE DEF DescriptorInv
<1>1. \A q \in Proc : Alive(q)' => Alive(q)
  BY DEF Alive, CalmMove, Serves, EventPc, AppPc
<1>2. \A t \in Proc : Open(Tcp(t))' => Open(Tcp(t))
  BY <1>1, NothingOpened, NoneAssumption DEF Fd, Tcp
<1>3. \A t \in Proc : Open(Com(t))' => Open(Com(t))
  BY <1>1, NothingOpened, NoneAssumption DEF Fd, Com
<1>4. \A c \in Proc : Requesting(c)' => Requesting(c) /\ pc'[c] = pc[c]
  BY DEF Requesting, CalmMove, Serves, EventPc, AppPc
<1>5. \A q \in Proc : ServesBound(q) => ServesBound(q)'
  BY DEF ServesBound, KeepsFds
<1>6. Shadows'
  <2>1. \A q \in Proc \ {p} : Serves(q)' => Serves(q)
    BY DEF Serves
  <2>2. \A q \in Proc : sock'[q].shadowfd = sock[q].shadowfd
    BY DEF KeepsFds
  <2> QED
    BY <1>5, <2>1, <2>2 DEF Shadows, Unanswered, CalmMove, Serves, EventPc, AppPc, AnsweringPc
<1>7. BoundOnce'
  BY <1>2 DEF BoundOnce, TypeOK
<1>8. Unstarted'
  BY DEF Unstarted, CalmMove, Serves, EventPc, AppPc
<1>9. Answerers'
  <2>1. \A q \in Proc : pc'[q] \in AnsweringPc <=> pc[q] \in AnsweringPc
    BY DEF CalmMove, AnsweringPc
  <2> QED
    BY <2>1, <1>4 DEF Answerers, KeepsFds
<1>10. Repliers'
  <2>1. \A c \in Proc : pc[c] = "dead" => pc'[c] = "dead"
    BY DEF CalmMove, Serves, EventPc, AppPc
  <2>2. \A c \in Proc : pc'[c] = "recv1" => pc[c] = "recv1"
    BY DEF CalmMove, Serves, EventPc, AppPc
  <2>3. \A q \in Proc : /\ pc'[q] \in {"count", "store", "reply1"} =>
                              pc[q] \in {"count", "store", "reply1"}
                        /\ pc'[q] = "reply2" =>
                              pc[q] = "reply2" \/ JunkLen \/ ~Requesting(peer[q])
    BY DEF CalmMove, Serves, EventPc, AppPc, AnsweringPc
  <2> QED
    BY <1>4, <2>1, <2>2, <2>3 DEF Repliers, Unanswered
<1>11. EofIsFinal'
  <2>1. \A c \in Proc : Unserved(c) => Unserved(c)'
    BY <1>3 DEF Unserved, KeepsFds
  <2>2. \A c \in Proc : pc'[c] = "recv2" => pc[c] = "recv2" /\ reg'[c] = reg[c]
    BY DEF CalmMove, Serves, EventPc, AppPc
  <2> QED
    BY <2>1, <2>2 DEF EofIsFinal
<1> QED
  BY <1>6, <1>7, <1>8, <1>9, <1>10, <1>11

(* Processes that end.                                                      *)
LEMMA SocketDeath ==
    ASSUME TypeOK, DescriptorInv, NEW D \in SUBSET Proc, Die(D),
           UNCHANGED <<tcpBound, listening, backlog>>
    PROVE  DescriptorInv'
<1> USE DEF DescriptorInv
<1>1. \A q \in Proc : \/ /\ q \notin D /\ pc'[q] = pc[q] /\ sock'[q] = sock[q]
                         /\ reg'[q] = reg[q] /\ peer'[q] = peer[q]
                         /\ replies'[q] = replies[q]
                      \/ /\ q \in D /\ pc'[q] = "dead" /\ sock'[q] = NoSock
                         /\ peer'[q] = None /\ replies'[q] = <<>>
  BY DEF Die
<1>2. /\ request' = request
      /\ reset' = reset \cup {q \in D : replies[q] # <<>>}
  BY DEF Die
<1>3. \A fd : fd # None /\ Open(fd)' => Open(fd)
  <2>1. ToSet(<<>>) = {}
    BY DEF ToSet
  <2>2. NoSock.shadowfd = None /\ NoSock.comfd = None
    BY DEF NoSock
  <2> QED
    BY <1>1, <2>1, <2>2 DEF Open, Alive
<1>4. \A t \in Proc : Tcp(t) # None /\ Com(t) # None
  BY NoneAssumption DEF Fd, Tcp, Com
<1>5. \A c \in Proc : Requesting(c)' => Requesting(c) /\ c \notin D
  BY <1>1 DEF Requesting
<1>6. \A c \in Proc : Unanswered(c) => Unanswered(c)'
  BY <1>1, NoneAssumption DEF Unanswered
<1>7. Shadows'
  BY <1>1, <1>2, <1>6 DEF Shadows, ServesBound, Serves, EventPc, AppPc
<1>8. BoundOnce'
  BY <1>3, <1>4 DEF BoundOnce, TypeOK
<1>9. Unstarted'
  BY <1>1, <1>2 DEF Unstarted
<1>10. Answerers'
  <2>1. \A q \in Proc : peer'[q] # None => q \notin D /\ peer'[q] = peer[q]
    BY <1>1
  <2>2. \A q \in Proc : peer'[q] # None <=> pc'[q] \in AnsweringPc
    BY <1>1 DEF Answerers, AnsweringPc
  <2>3. None \notin Proc
    BY NoneAssumption
  <2> QED
    BY <1>1, <1>2, <1>5, <2>1, <2>2, <2>3 DEF Answerers
<1>11. Repliers'
  <2>1. \A q \in Proc : peer'[q] # None => q \notin D /\ peer'[q] = peer[q]
    BY <1>1
  <2>2. None \notin Proc
    BY NoneAssumption
  <2>3. \A c \in Proc : /\ request'[c] # "read" => replies'[c] = <<>>
                        /\ c \in reset' => pc'[c] = "dead" /\ request'[c] = "read"
                        /\ pc'[c] = "recv1" /\ replies'[c] # <<>> =>
                              \/ \E t \in tcpBound' : Head(replies'[c]) = Tcp(t)
                              \/ Unanswered(c)' /\ Len(replies'[c]) = 1
    BY <1>1, <1>2, <1>6 DEF Repliers
  <2>4. \A q, c \in Proc : peer'[q] = c /\ Requesting(c)' =>
          /\ pc'[q] \in {"count", "store", "reply1"} => replies'[c] = <<>> /\ pc'[c] = "recv1"
          /\ pc'[q] = "reply2" /\ pc'[c] = "recv1" => JunkLen \/ replies'[c] # <<>>
    BY <1>1, <1>5, <2>1, <2>2 DEF Repliers
  <2> QED
    BY <2>3, <2>4 DEF Repliers
<1>12. EofIsFinal'
  <2>1. \A c \in Proc : Unserved(c) => Unserved(c)'
    BY <1>1, <1>3, <1>4 DEF Unserved, NoSock
  <2> QED
    BY <1>1, <2>1 DEF EofIsFinal
<1> QED
  BY <1>7, <1>8, <1>9, <1>10, <1>11, <1>12

-----------------------------------------------------------------------------
(* Steps that pass a descriptor or a connection.                            *)

(* Messages as sets.                                                        *)
LEMMA QueueSets ==
    ASSUME NEW S, NEW s \in Seq(S), NEW x \in S
    PROVE  /\ ToSet(Append(s, x)) = ToSet(s) \cup {x}
           /\ s = <<>> => Head(Append(s, x)) = x /\ ToSet(s) = {}
           /\ s # <<>> => /\ Head(s) \in ToSet(s) /\ ToSet(Tail(s)) \subseteq ToSet(s)
                          /\ Head(Append(s, x)) = Head(s)
           /\ Append(s, x) # <<>>
           /\ s = <<>> => Len(Append(s, x)) = 1
           /\ Len(s) = 1 => Tail(s) = <<>>
<1>1. ToSet(Append(s, x)) = ToSet(s) \cup {x}
  <2>1. /\ DOMAIN Append(s, x) = DOMAIN s \cup {Len(s) + 1}
        /\ Append(s, x)[Len(s) + 1] = x
        /\ \A i \in DOMAIN s : Append(s, x)[i] = s[i]
    OBVIOUS
  <2> QED
    BY <2>1 DEF ToSet
<1>2. s # <<>> => Head(s) \in ToSet(s) /\ ToSet(Tail(s)) \subseteq ToSet(s)
  BY DEF ToSet
<1>3. s = <<>> => ToSet(s) = {}
  BY DEF ToSet
<1>4. s = <<>> => Len(Append(s, x)) = 1
  OBVIOUS
<1>5. Len(s) = 1 => Tail(s) = <<>>
  <2>1. Len(s) = 1 => Tail(s) \in Seq(S) /\ Len(Tail(s)) = 0
    OBVIOUS
  <2> QED
    BY <2>1, EmptySeq
<1> QED
  BY <1>1, <1>2, <1>3, <1>4, <1>5

(* A version starts with two sockets of its own.                            *)
LEMMA StartSocket ==
    ASSUME TypeOK, DescriptorInv, NEW p \in Proc, Start(p)
    PROVE  DescriptorInv'
<1> USE DEF DescriptorInv
<1>1. /\ pc[p] = "none" /\ pc' = [pc EXCEPT ![p] = "bind"]
      /\ sock' = [sock EXCEPT ![p] = NewSock(p)]
      /\ UNCHANGED <<reg, peer, request, replies, reset, backlog, listening, tcpBound>>
  BY DEF Start, Goto, callVars, listenerVars, channelVars, clientVars
<1>2. /\ pc \in [Proc -> PcType] /\ sock \in [Proc -> SockType]
  BY DEF TypeOK
<1>3. NewSock(p).shadowfd = Tcp(p) /\ NewSock(p).comfd = Com(p) /\ NewSock(p).comfds = {}
  BY DEF NewSock, NoSock
<1>4. \A fd : Open(fd)' => Open(fd) \/ fd \in {Tcp(p), Com(p)}
  BY <1>1, <1>2, <1>3 DEF Open, Alive
<1>5. \A c \in Proc : Requesting(c)' <=> Requesting(c)
  BY <1>1, <1>2 DEF Requesting
<1>6. Shadows'
  BY <1>1, <1>2, <1>3 DEF Shadows, Unanswered, ServesBound, Serves, EventPc, AppPc
<1>7. BoundOnce'
  <2>1. \A t \in tcpBound : t # p /\ t \in Proc
    BY <1>1 DEF Unstarted, TypeOK
  <2>2. \A t \in tcpBound : Open(Tcp(t))' => Open(Tcp(t))
    BY <1>4, <2>1 DEF Tcp, Com
  <2> QED
    BY <1>1, <2>2 DEF BoundOnce
<1>8. Unstarted'
  BY <1>1, <1>2 DEF Unstarted
<1>9. Answerers'
  <2>1. peer[p] = None
    BY <1>1 DEF Answerers, AnsweringPc
  <2>2. None \notin Proc
    BY NoneAssumption
  <2> QED
    BY <1>1, <1>2, <1>5, <2>1, <2>2 DEF Answerers, AnsweringPc
<1>10. Repliers'
  <2>1. peer[p] = None
    BY <1>1 DEF Answerers, AnsweringPc
  <2>2. None \notin Proc
    BY NoneAssumption
  <2> QED
    BY <1>1, <1>2, <1>5, <2>1, <2>2 DEF Repliers, Unanswered
<1>11. EofIsFinal'
  <2>1. \A c \in Proc : Unserved(c) => Unserved(c)'
    <3>1. \A l \in Proc \ {p} : Open(Com(l))' => Open(Com(l))
      BY <1>4 DEF Com, Tcp
    <3>2. ToSet(backlog[p]) = {}
      BY <1>1 DEF Unstarted, ToSet
    <3> QED
      BY <1>1, <1>2, <1>3, <3>1, <3>2 DEF Unserved
  <2> QED
    BY <1>1, <1>2, <2>1 DEF EofIsFinal
<1> QED
  BY <1>6, <1>7, <1>8, <1>9, <1>10, <1>11

(* connect(), answered or refused.                                          *)
LEMMA ConnectSocket ==
    ASSUME TypeOK, DescriptorInv, NEW p \in Proc, Connect(p)
    PROVE  DescriptorInv'
<1> USE DEF DescriptorInv
<1>1. /\ pc[p] = "connect"
      /\ UNCHANGED <<sock, reg, peer, request, replies, reset, listening, tcpBound>>
  BY DEF Connect, callVars, channelVars, clientVars
<1>2. pc \in [Proc -> PcType] /\ backlog \in [Proc -> Seq(Proc)]
  BY DEF TypeOK
<1>3. CASE UNCHANGED backlog /\ Goto(p, "sem1")
  <2>1. pc'[p] = "sem1" /\ \A q \in Proc \ {p} : pc'[q] = pc[q]
    BY <1>2, <1>3 DEF Goto
  <2> QED
    BY <1>1, <1>3, <2>1, CalmStep DEF CalmMove, KeepsFds
<1>4. ASSUME NEW l \in listening, Goto(p, "send"),
             backlog' = [backlog EXCEPT ![l] = Append(@, p)]
      PROVE  DescriptorInv'
  <2>1. /\ pc'[p] = "send" /\ \A q \in Proc \ {p} : pc'[q] = pc[q]
        /\ l \in Proc /\ pc[l] # "none"
    BY <1>2, <1>4 DEF Goto, TypeOK, Unstarted
  <2>2. \A fd : Open(fd)' <=> Open(fd)
    BY <1>1, <2>1 DEF Open, Alive
  <2>3. \A c \in Proc \ {p} : Requesting(c)' <=> Requesting(c)
    BY <2>1 DEF Requesting
  <2>4. request[p] = "none" /\ \A q \in Proc : peer[q] # p
    BY <1>1 DEF Unstarted, Answerers
  <2>5. Shadows'
    BY <1>1, <2>1 DEF Shadows, Unanswered, ServesBound, Serves, EventPc, AppPc
  <2>6. BoundOnce'
    BY <1>1, <2>2 DEF BoundOnce
  <2>7. Unstarted'
    BY <1>1, <1>2, <1>4, <2>1 DEF Unstarted
  <2>8. Answerers'
    BY <1>1, <2>1, <2>3, <2>4 DEF Answerers, AnsweringPc
  <2>9. Repliers'
    BY <1>1, <2>1, <2>3, <2>4 DEF Repliers, Unanswered
  <2>10. EofIsFinal'
    <3>1. \A k \in Proc : ToSet(backlog'[k]) \subseteq ToSet(backlog[k]) \cup {p}
      BY <1>2, <1>4, <2>1, QueueSets
    <3>2. \A c \in Proc \ {p} : Unserved(c) => Unserved(c)'
      BY <1>1, <2>2, <3>1 DEF Unserved
    <3> QED
      BY <1>1, <2>1, <3>2 DEF EofIsFinal
  <2> QED
    BY <2>5, <2>6, <2>7, <2>8, <2>9, <2>10
<1> QED
  BY <1>3, <1>4 DEF Connect

(* The request is sent, or there is nobody to send it to.                   *)
LEMMA SendSocket ==
    ASSUME TypeOK, DescriptorInv, NEW p \in Proc, SendPort(p)
    PROVE  DescriptorInv'
<1> USE DEF DescriptorInv
<1>1. /\ pc[p] = "send" /\ UNCHANGED <<backlog, listening, tcpBound>>
  BY DEF SendPort, listenerVars, clientVars
<1>2. pc \in [Proc -> PcType] /\ request \in [Proc -> {"none", "unread", "read"}]
  BY DEF TypeOK
<1>3. CASE Goto(p, "sem1") /\ UNCHANGED <<sock, callVars, channelVars>>
  <2>1. pc'[p] = "sem1" /\ \A q \in Proc \ {p} : pc'[q] = pc[q]
    BY <1>2, <1>3 DEF Goto
  <2>2. UNCHANGED <<sock, reg, peer, request, replies, reset>>
    BY <1>3 DEF callVars, channelVars
  <2> QED
    BY <1>1, <2>1, <2>2, CalmStep DEF CalmMove, KeepsFds
<1>4. CASE /\ request' = [request EXCEPT ![p] = "unread"] /\ Goto(p, "recv1")
           /\ UNCHANGED <<sock, callVars, replies, reset>>
  <2>1. /\ pc'[p] = "recv1" /\ \A q \in Proc \ {p} : pc'[q] = pc[q]
        /\ request'[p] = "unread" /\ \A q \in Proc \ {p} : request'[q] = request[q]
    BY <1>2, <1>4 DEF Goto
  <2>2. UNCHANGED <<sock, reg, peer, replies, reset>>
    BY <1>4 DEF callVars
  <2>3. \A fd : Open(fd)' <=> Open(fd)
    BY <1>1, <2>1, <2>2 DEF Open, Alive
  <2>4. \A c \in Proc : Requesting(c)' <=> Requesting(c)
    BY <1>1, <2>1 DEF Requesting
  <2>5. request[p] = "none" /\ \A q \in Proc : peer[q] # p
    BY <1>1 DEF Unstarted, Answerers
  <2>6. replies[p] = <<>> /\ p \notin reset
    BY <1>1, <2>5 DEF Repliers
  <2>7. Shadows'
    BY <1>1, <2>1, <2>2 DEF Shadows, Unanswered, ServesBound, Serves, EventPc, AppPc
  <2>8. BoundOnce'
    BY <1>1, <2>3 DEF BoundOnce
  <2>9. Unstarted'
    BY <1>1, <2>1, <2>2 DEF Unstarted
  <2>10. Answerers'
    BY <1>1, <2>1, <2>2, <2>4, <2>5 DEF Answerers, AnsweringPc
  <2>11. Repliers'
    BY <1>1, <2>1, <2>2, <2>4, <2>5, <2>6 DEF Repliers, Unanswered
  <2>12. EofIsFinal'
    BY <1>1, <2>1, <2>2, <2>3 DEF EofIsFinal, Unserved
  <2> QED
    BY <2>7, <2>8, <2>9, <2>10, <2>11, <2>12
<1>5. CASE Die({p})
  BY <1>1, <1>5, SocketDeath
<1> QED
  BY <1>3, <1>4, <1>5 DEF SendPort

(* The first receive: the TCP socket of the port, or an end of file.        *)
LEMMA ReadShadowSocket ==
    ASSUME TypeOK, DescriptorInv, NEW p \in Proc, ReadShadow(p)
    PROVE  DescriptorInv'
<1> USE DEF DescriptorInv
<1>1. /\ pc[p] = "recv1" /\ pc' = [pc EXCEPT ![p] = "recv2"]
      /\ UNCHANGED <<peer, request, reset, backlog, listening, tcpBound>>
  BY DEF ReadShadow, Goto, listenerVars, clientVars
<1>2. /\ pc \in [Proc -> PcType] /\ replies \in [Proc -> Seq(Fd)]
      /\ sock \in [Proc -> SockType] /\ reg \in [Proc -> Int]
  BY DEF TypeOK
<1>3. pc'[p] = "recv2" /\ \A q \in Proc \ {p} : pc'[q] = pc[q]
  BY <1>1, <1>2
<1>4. \A c \in Proc : Requesting(c)' <=> Requesting(c)
  BY <1>1, <1>3 DEF Requesting
<1>5. Unstarted'
  <2>1. \A q \in Proc \ {p} : reg'[q] = reg[q]
    BY <1>2 DEF ReadShadow
  <2> QED
    BY <1>1, <1>3, <2>1 DEF Unstarted
<1>6. reg[p] = 0
  BY <1>1 DEF Unstarted
<1>7. CASE replies[p] = <<>> /\ Unserved(p) /\ UNCHANGED <<sock, replies, reg>>
  <2>1. \A fd : Open(fd)' <=> Open(fd)
    BY <1>1, <1>3, <1>7 DEF Open, Alive
  <2>2. \A c \in Proc : Unserved(c) => Unserved(c)'
    BY <1>1, <1>7, <2>1 DEF Unserved
  <2>3. \A q \in Proc : peer[q] # p
    BY <1>1, <1>7 DEF Answerers, Unserved, Requesting
  <2>4. Shadows'
    BY <1>1, <1>3, <1>6, <1>7 DEF Shadows, Unanswered, ServesBound, Serves, EventPc, AppPc
  <2>5. BoundOnce'
    BY <1>1, <2>1 DEF BoundOnce
  <2>6. Answerers'
    BY <1>1, <1>3, <1>4, <1>7 DEF Answerers, AnsweringPc
  <2>7. Repliers'
    BY <1>1, <1>3, <1>4, <1>7, <2>3 DEF Repliers, Unanswered
  <2>8. EofIsFinal'
    BY <1>3, <1>7, <2>2 DEF EofIsFinal
  <2> QED
    BY <1>5, <2>4, <2>5, <2>6, <2>7, <2>8
<1>8. CASE /\ replies[p] # <<>>
           /\ sock' = [sock EXCEPT ![p].shadowfd = ReceivedShadow(p)]
           /\ replies' = [replies EXCEPT ![p] = Tail(@)]
           /\ reg' = [reg EXCEPT ![p] = 1]
  <2> DEFINE fd0 == Head(replies[p])
  <2>1. /\ sock'[p].shadowfd = fd0 /\ reg'[p] = 1
        /\ \A q \in Proc : sock'[q].comfd = sock[q].comfd /\ sock'[q].comfds = sock[q].comfds
        /\ \A q \in Proc \ {p} : /\ sock'[q].shadowfd = sock[q].shadowfd
                                 /\ reg'[q] = reg[q] /\ replies'[q] = replies[q]
    BY <1>2, <1>8 DEF SockType, ReceivedShadow
  <2>2. /\ fd0 \in ToSet(replies[p])
        /\ \A q \in Proc : ToSet(replies'[q]) \subseteq ToSet(replies[q])
    BY <1>2, <1>8, QueueSets, Popped
  <2>3. \A fd : Open(fd)' => Open(fd)
    BY <1>1, <1>3, <2>1, <2>2 DEF Open, Alive
  <2>4. /\ request[p] = "read"
        /\ \/ \E t \in tcpBound : fd0 = Tcp(t)
           \/ Unanswered(p)' /\ replies'[p] = <<>>
    <3>1. \/ \E t \in tcpBound : fd0 = Tcp(t)
          \/ Unanswered(p) /\ Len(replies[p]) = 1
      BY <1>1, <1>8 DEF Repliers
    <3>2. Len(replies[p]) = 1 => replies'[p] = <<>>
      <4>1. replies'[p] = Tail(replies[p]) /\ replies[p] \in Seq(Fd)
        BY <1>2, <1>8
      <4> QED
        BY <4>1, QueueSets
    <3> QED
      BY <1>1, <1>8, <3>1, <3>2 DEF Repliers, Unanswered
  <2>5. Shadows'
    BY <1>1, <1>3, <2>1, <2>4 DEF Shadows, Unanswered, ServesBound, Serves, EventPc, AppPc
  <2>6. BoundOnce'
    BY <1>1, <2>3 DEF BoundOnce
  <2>7. Answerers'
    BY <1>1, <1>3, <1>4, <2>1 DEF Answerers, AnsweringPc
  <2>8. Repliers'
    BY <1>1, <1>3, <1>4, <1>8, <2>1, <2>4 DEF Repliers, Unanswered
  <2>9. EofIsFinal'
    BY <1>1, <1>3, <2>1, <2>3 DEF EofIsFinal, Unserved
  <2> QED
    BY <1>5, <2>5, <2>6, <2>7, <2>8, <2>9
<1> QED
  BY <1>7, <1>8 DEF ReadShadow

(* The second receive: comfd, or an end of file; the connection is closed.  *)
LEMMA ReadComfdSocket ==
    ASSUME TypeOK, DescriptorInv, ~JunkLen \/ Attended, NEW p \in Proc, ReadComfd(p)
    PROVE  DescriptorInv'
<1> USE DEF DescriptorInv
<1>1. /\ pc[p] = "recv2" /\ reg' = [reg EXCEPT ![p] = 0]
      /\ UNCHANGED <<peer, request, reset, backlog, listening, tcpBound>>
  BY DEF ReadComfd, Goto, listenerVars, clientVars
<1>2. /\ pc \in [Proc -> PcType] /\ replies \in [Proc -> Seq(Fd)]
      /\ sock \in [Proc -> SockType] /\ reg \in [Proc -> Int]
  BY DEF TypeOK
<1>3. /\ pc'[p] \in {"inherit1", "sem1"}
      /\ pc'[p] = "inherit1" => ServesBound(p)
      /\ pc'[p] = "sem1" => sock[p].shadowfd = Tcp(p)
      /\ \A q \in Proc \ {p} : pc'[q] = pc[q] /\ reg'[q] = reg[q]
  <2>1. replies[p] # <<>> => ServesBound(p)
    BY <1>1 DEF Shadows, EofIsFinal
  <2>2. replies[p] = <<>> /\ Unserved(p) =>
            IF reg[p] > 0 THEN ServesBound(p) ELSE sock[p].shadowfd = Tcp(p)
    BY <1>1 DEF Shadows, Unanswered, Attended, Unserved, Requesting
  <2> QED
    BY <1>1, <1>2, <2>1, <2>2 DEF ReadComfd, Goto
<1>4. \A c \in Proc : Requesting(c)' => Requesting(c) /\ c # p
  BY <1>3 DEF Requesting
<1>5. /\ \A q \in Proc : /\ sock'[q].shadowfd = sock[q].shadowfd
                         /\ sock'[q].comfds = sock[q].comfds
      /\ \A q \in Proc \ {p} : sock'[q].comfd = sock[q].comfd /\ replies'[q] = replies[q]
  <2>1. ASSUME NEW fd, sock' = [sock EXCEPT ![p].comfd = fd]
        PROVE  /\ \A q \in Proc : /\ sock'[q].shadowfd = sock[q].shadowfd
                                  /\ sock'[q].comfds = sock[q].comfds
               /\ \A q \in Proc \ {p} : sock'[q].comfd = sock[q].comfd
    BY <1>2, <2>1 DEF SockType
  <2>2. \A q \in Proc \ {p} : replies'[q] = replies[q]
    BY <1>2 DEF ReadComfd
  <2> QED
    BY <2>1, <2>2 DEF ReadComfd
<1>6. /\ sock'[p].comfd = None \/ sock'[p].comfd \in ToSet(replies[p])
      /\ \A q \in Proc : ToSet(replies'[q]) \subseteq ToSet(replies[q])
      /\ replies[p] = <<>> => replies'[p] = <<>>
  <2>1. CASE replies[p] # <<>> /\ sock' = [sock EXCEPT ![p].comfd = ReceivedComfd(p)]
             /\ replies' = [replies EXCEPT ![p] = Tail(@)]
    BY <1>2, <2>1, QueueSets, Popped DEF ReceivedComfd, SockType
  <2>2. CASE replies[p] = <<>> /\ sock' = [sock EXCEPT ![p].comfd = None] /\ UNCHANGED replies
    BY <1>2, <2>2 DEF SockType
  <2> QED
    BY <2>1, <2>2 DEF ReadComfd
<1>7. \A fd : fd # None /\ Open(fd)' => Open(fd)
  BY <1>1, <1>3, <1>5, <1>6 DEF Open, Alive
<1>8. \A t \in Proc : Tcp(t) # None /\ Com(t) # None
  BY NoneAssumption DEF Fd, Tcp, Com
<1>9. Shadows'
  BY <1>1, <1>3, <1>5 DEF Shadows, Unanswered, ServesBound, Serves, EventPc, AppPc
<1>10. BoundOnce'
  BY <1>1, <1>7, <1>8 DEF BoundOnce, TypeOK
<1>11. Unstarted'
  BY <1>1, <1>3 DEF Unstarted
<1>12. Answerers'
  BY <1>1, <1>3, <1>4, <1>5 DEF Answerers, AnsweringPc
<1>13. Repliers'
  <2>1. request[p] # "read" => replies[p] = <<>>
    BY DEF Repliers
  <2> QED
    BY <1>1, <1>3, <1>4, <1>5, <1>6, <2>1 DEF Repliers, Unanswered
<1>14. EofIsFinal'
  <2>1. \A c \in Proc : Unserved(c) => Unserved(c)'
    BY <1>1, <1>5, <1>7, <1>8 DEF Unserved
  <2> QED
    BY <1>3, <1>5, <2>1 DEF EofIsFinal
<1> QED
  BY <1>9, <1>10, <1>11, <1>12, <1>13, <1>14

(* bind() of the TCP socket succeeds only while no bound one is open.       *)
LEMMA TcpBindSocket ==
    ASSUME TypeOK, DescriptorInv, NEW p \in Proc, TcpBind(p)
    PROVE  DescriptorInv'
<1> USE DEF DescriptorInv
<1>1. pc[p] = "tcpbind" /\ UNCHANGED <<backlog, listening>>
  BY DEF TcpBind, listenerVars
<1>2. CASE Die({p}) /\ UNCHANGED tcpBound
  BY <1>1, <1>2, SocketDeath
<1>3. CASE /\ \A t \in tcpBound : ~Open(Tcp(t))
           /\ tcpBound' = tcpBound \cup {p} /\ Goto(p, "user")
           /\ UNCHANGED <<live, sock, callVars, channelVars>>
  <2>1. pc'[p] = "user" /\ \A q \in Proc \ {p} : pc'[q] = pc[q]
    BY <1>3 DEF TypeOK, Goto
  <2>2. UNCHANGED <<sock, reg, peer, request, replies, reset>>
    BY <1>3 DEF callVars, channelVars
  <2>3. \A fd : Open(fd)' <=> Open(fd)
    BY <1>1, <2>1, <2>2 DEF Open, Alive
  <2>4. \A c \in Proc : Requesting(c)' <=> Requesting(c)
    BY <1>1, <2>1 DEF Requesting
  <2>5. \A q \in Proc : ServesBound(q) => ServesBound(q)'
    BY <1>3 DEF ServesBound
  <2>6. Shadows'
    BY <1>1, <1>3, <2>1, <2>2, <2>5 DEF Shadows, Unanswered, ServesBound, Serves, EventPc, AppPc
  <2>7. BoundOnce'
    BY <1>3, <2>3 DEF BoundOnce
  <2>8. Unstarted'
    BY <1>1, <1>3, <2>1, <2>2 DEF Unstarted
  <2>9. Answerers'
    BY <1>1, <2>1, <2>2, <2>4 DEF Answerers, AnsweringPc
  <2>10. Repliers'
    BY <1>1, <1>3, <2>1, <2>2, <2>4 DEF Repliers, Unanswered
  <2>11. EofIsFinal'
    BY <1>1, <2>1, <2>2, <2>3 DEF EofIsFinal, Unserved
  <2> QED
    BY <2>6, <2>7, <2>8, <2>9, <2>10, <2>11
<1> QED
  BY <1>2, <1>3 DEF TcpBind

(* The child shares its parent's descriptors and answers nobody.            *)
LEMMA ForkSocket ==
    ASSUME TypeOK, DescriptorInv, NEW p \in Proc, NEW q \in Proc, Fork(p, q)
    PROVE  DescriptorInv'
<1> USE DEF DescriptorInv
<1>1. /\ pc[p] = "user" /\ pc[q] = "none" /\ pc' = [pc EXCEPT ![q] = "user"]
      /\ sock' = [sock EXCEPT ![q] = sock[p]]
      /\ UNCHANGED <<reg, peer, request, replies, reset, backlog, listening, tcpBound>>
  BY DEF Fork, Goto, callVars, listenerVars, channelVars, clientVars
<1>2. /\ pc'[q] = "user" /\ sock'[q] = sock[p]
      /\ \A r \in Proc \ {q} : pc'[r] = pc[r] /\ sock'[r] = sock[r]
  BY <1>1 DEF TypeOK
<1>3. \A fd : Open(fd)' => Open(fd)
  BY <1>1, <1>2 DEF Open, Alive
<1>4. \A c \in Proc : Requesting(c)' <=> Requesting(c)
  BY <1>1, <1>2 DEF Requesting
<1>5. peer[q] = None /\ None \notin Proc
  BY <1>1, NoneAssumption DEF Answerers, AnsweringPc
<1>6. ServesBound(p)
  BY <1>1 DEF Shadows, Serves, EventPc, AppPc
<1>7. Shadows'
  BY <1>1, <1>2, <1>6 DEF Shadows, Unanswered, ServesBound, Serves, EventPc, AppPc
<1>8. BoundOnce'
  BY <1>1, <1>3 DEF BoundOnce
<1>9. Unstarted'
  BY <1>1, <1>2 DEF Unstarted
<1>10. Answerers'
  BY <1>1, <1>2, <1>4, <1>5 DEF Answerers, AnsweringPc
<1>11. Repliers'
  BY <1>1, <1>2, <1>4, <1>5 DEF Repliers, Unanswered
<1>12. EofIsFinal'
  BY <1>1, <1>2, <1>3 DEF EofIsFinal, Unserved
<1> QED
  BY <1>7, <1>8, <1>9, <1>10, <1>11, <1>12

(* accept4 moves a requester from the listener's backlog to the list.       *)
LEMMA AcceptSocket ==
    ASSUME TypeOK, DescriptorInv, NEW p \in Proc, HandleAccept(p)
    PROVE  DescriptorInv'
<1> USE DEF DescriptorInv
<1>1. /\ pc[p] = "handle"
      /\ UNCHANGED <<pc, reg, peer, request, replies, reset, listening, tcpBound>>
  BY DEF HandleAccept, channelVars, clientVars
<1>2. CASE UNCHANGED <<backlog, sock>>
  BY <1>1, <1>2, CalmStep DEF CalmMove, KeepsFds, Serves, EventPc, AppPc, AnsweringPc
<1>3. ASSUME NEW l \in Proc, sock[p].comfd = Com(l), backlog[l] # <<>>,
             backlog' = [backlog EXCEPT ![l] = Tail(@)],
             sock' = [sock EXCEPT ![p].comfds = @ \cup {Head(backlog[l])}]
      PROVE  DescriptorInv'
  <2>1. /\ \A q \in Proc : /\ sock'[q].shadowfd = sock[q].shadowfd
                           /\ sock'[q].comfd = sock[q].comfd
                           /\ sock[q].comfds \subseteq sock'[q].comfds
                           /\ sock'[q].comfds \subseteq sock[q].comfds \cup {Head(backlog[l])}
        /\ \A q \in Proc \ {p} : sock'[q].comfds = sock[q].comfds
    <3> DEFINE new == sock[p].comfds \cup {Head(backlog[l])}
    <3>1. sock' = [sock EXCEPT ![p].comfds = new]
      BY <1>3
    <3>2. sock \in [Proc -> SockType]
      BY DEF TypeOK
    <3>3. /\ sock'[p].comfds = new /\ \A q \in Proc \ {p} : sock'[q] = sock[q]
          /\ sock'[p].shadowfd = sock[p].shadowfd /\ sock'[p].comfd = sock[p].comfd
      <4> HIDE DEF new
      <4> QED
        BY <3>1, <3>2 DEF SockType
    <3> QED
      BY <3>3
  <2>2. /\ Head(backlog[l]) \in ToSet(backlog[l])
        /\ \A k \in Proc : ToSet(backlog'[k]) \subseteq ToSet(backlog[k])
        /\ \A k \in Proc : backlog[k] = <<>> => backlog'[k] = <<>>
    BY <1>3, QueueSets, Popped DEF TypeOK
  <2>3. \A fd : Open(fd)' <=> Open(fd)
    BY <1>1, <2>1 DEF Open, Alive
  <2>4. Open(Com(l))
    BY <1>1, <1>3 DEF Open, Alive
  <2>5. \A c \in Proc : Requesting(c)' <=> Requesting(c)
    BY <1>1 DEF Requesting
  <2>6. Shadows'
    BY <1>1, <2>1 DEF Shadows, Unanswered, ServesBound, Serves
  <2>7. BoundOnce'
    BY <1>1, <2>3 DEF BoundOnce
  <2>8. Unstarted'
    BY <1>1, <2>2 DEF Unstarted
  <2>9. Answerers'
    BY <1>1, <2>1, <2>5 DEF Answerers
  <2>10. Repliers'
    BY <1>1, <2>5 DEF Repliers, Unanswered
  <2>11. EofIsFinal'
    <3>1. \A c \in Proc : Unserved(c) => c # Head(backlog[l])
      BY <2>2, <2>4 DEF Unserved
    <3>2. \A c \in Proc : Unserved(c) => Unserved(c)'
      BY <2>1, <2>2, <2>3, <3>1 DEF Unserved
    <3> QED
      BY <1>1, <3>2 DEF EofIsFinal
  <2> QED
    BY <2>6, <2>7, <2>8, <2>9, <2>10, <2>11
<1> QED
  BY <1>2, <1>3 DEF HandleAccept

(* A request is read: its sender waits in its first receive, without a      *)
(* reply, and nobody else answers it.                                       *)
LEMMA RequestSocket ==
    ASSUME TypeOK, DescriptorInv, NEW p \in Proc, NEW c \in Proc,
           c \in sock[p].comfds, HandleRequest(p, c)
    PROVE  DescriptorInv'
<1> USE DEF DescriptorInv
<1>1. /\ pc[p] = "handle" /\ request[c] = "unread"
      /\ pc' = [pc EXCEPT ![p] = "count"] /\ peer' = [peer EXCEPT ![p] = c]
      /\ request' = [request EXCEPT ![c] = "read"]
      /\ UNCHANGED <<sock, reg, replies, reset, backlog, listening, tcpBound>>
  BY DEF HandleRequest, Takes, Goto, listenerVars, clientVars
<1>2. /\ pc'[p] = "count" /\ peer'[p] = c /\ request'[c] = "read"
      /\ \A q \in Proc \ {p} : pc'[q] = pc[q] /\ peer'[q] = peer[q]
      /\ \A q \in Proc \ {c} : request'[q] = request[q]
  BY <1>1 DEF TypeOK
<1>3. \A fd : Open(fd)' <=> Open(fd)
  BY <1>1, <1>2 DEF Open, Alive
<1>4. \A q \in Proc : Requesting(q)' <=> Requesting(q)
  BY <1>1, <1>2 DEF Requesting
<1>5. \A q \in Proc : peer[q] # c
  BY <1>1 DEF Answerers
<1>6. replies[c] = <<>> /\ c \notin reset
  BY <1>1 DEF Repliers
<1>7. Requesting(c) => pc[c] = "recv1"
  <2>1. pc[c] # "send"
    BY <1>1 DEF Unstarted
  <2>2. ~Unserved(c)
    BY DEF Unserved
  <2>3. pc[c] # "recv2"
    BY <1>1, <2>2 DEF Shadows, EofIsFinal
  <2> QED
    BY <2>1, <2>3 DEF Requesting
<1>8. Shadows'
  BY <1>1, <1>2 DEF Shadows, Unanswered, ServesBound, Serves, EventPc, AppPc
<1>9. BoundOnce'
  BY <1>1, <1>3 DEF BoundOnce
<1>10. Unstarted'
  BY <1>1, <1>2 DEF Unstarted
<1>11. Answerers'
  <2>1. None # c
    BY NoneAssumption
  <2> QED
    BY <1>1, <1>2, <1>4, <1>5, <2>1 DEF Answerers, AnsweringPc
<1>12. Repliers'
  BY <1>1, <1>2, <1>4, <1>5, <1>6, <1>7 DEF Repliers, Unanswered, Requesting
<1>13. EofIsFinal'
  BY <1>1, <1>2, <1>3 DEF EofIsFinal, Unserved
<1> QED
  BY <1>8, <1>9, <1>10, <1>11, <1>12, <1>13

(* A connection reset by its requester is answered too, in vain.            *)
LEMMA ErrorSocket ==
    ASSUME TypeOK, DescriptorInv, NEW p \in Proc, NEW c \in Proc, HandleError(p, c)
    PROVE  DescriptorInv'
<1> USE DEF DescriptorInv
<1>1. /\ pc[p] = "handle" /\ c \in reset /\ reset' = reset \ {c}
      /\ pc' = [pc EXCEPT ![p] = "reply1"] /\ peer' = [peer EXCEPT ![p] = c]
      /\ UNCHANGED <<sock, reg, request, replies, backlog, listening, tcpBound>>
  BY DEF HandleError, Takes, Goto, listenerVars, clientVars
<1>2. /\ pc'[p] = "reply1" /\ peer'[p] = c
      /\ \A q \in Proc \ {p} : pc'[q] = pc[q] /\ peer'[q] = peer[q]
  BY <1>1 DEF TypeOK
<1>3. \A fd : Open(fd)' <=> Open(fd)
  BY <1>1, <1>2 DEF Open, Alive
<1>4. \A q \in Proc : Requesting(q)' <=> Requesting(q)
  BY <1>1, <1>2 DEF Requesting
<1>5. ~Requesting(c) /\ request[c] = "read"
  BY <1>1 DEF Repliers, Requesting
<1>6. Shadows'
  BY <1>1, <1>2, <1>5 DEF Shadows, Unanswered, Requesting, ServesBound, Serves, EventPc, AppPc
<1>7. BoundOnce'
  BY <1>1, <1>3 DEF BoundOnce
<1>8. Unstarted'
  BY <1>1, <1>2 DEF Unstarted
<1>9. Answerers'
  <2>1. None # c
    BY NoneAssumption
  <2> QED
    BY <1>1, <1>2, <1>4, <1>5, <2>1 DEF Answerers, AnsweringPc
<1>10. Repliers'
  BY <1>1, <1>2, <1>4, <1>5 DEF Repliers, Unanswered
<1>11. EofIsFinal'
  BY <1>1, <1>2, <1>3 DEF EofIsFinal, Unserved
<1> QED
  BY <1>6, <1>7, <1>8, <1>9, <1>10, <1>11

(* The TCP socket is sent first.                                            *)
LEMMA ReplyShadowSocket ==
    ASSUME TypeOK, DescriptorInv, NEW p \in Proc, ReplyShadow(p)
    PROVE  DescriptorInv'
<1> USE DEF DescriptorInv
<1>1. pc[p] = "reply1" /\ UNCHANGED <<backlog, listening, tcpBound>>
  BY DEF ReplyShadow, listenerVars, clientVars
<1>2. PICK t \in tcpBound : sock[p].shadowfd = Tcp(t)
  BY <1>1 DEF Shadows, ServesBound, Serves, EventPc
<1>3. t \in Proc /\ Tcp(t) \in Fd /\ Tcp(t) # None /\ Open(Tcp(t))
  <2>1. t \in Proc /\ Tcp(t) \in Fd
    BY DEF TypeOK, Fd, Tcp
  <2>2. Open(Tcp(t))
    BY <1>1, <1>2 DEF Open, Alive
  <2> QED
    BY <2>1, <2>2, NoneAssumption
<1>4. PICK c \in Proc : peer[p] = c
  BY <1>1 DEF Answerers, AnsweringPc, TypeOK
<1>5. CASE Die({p})
  BY <1>1, <1>5, SocketDeath
<1>6. CASE /\ JunkLen \/ ~Requesting(c)
           /\ Goto(p, "reply2") /\ UNCHANGED <<sock, reg, replies, reset, peer, request>>
  <2>1. pc'[p] = "reply2" /\ \A q \in Proc \ {p} : pc'[q] = pc[q]
    BY <1>6 DEF TypeOK, Goto
  <2> QED
    BY <1>1, <1>4, <1>6, <2>1, CalmStep DEF CalmMove, KeepsFds
<1>7. CASE /\ Requesting(c) /\ Goto(p, "reply2")
           /\ replies' = [replies EXCEPT ![c] = Append(@, Tcp(t))]
           /\ UNCHANGED <<sock, reg, reset, peer, request>>
  <2>1. pc'[p] = "reply2" /\ \A q \in Proc \ {p} : pc'[q] = pc[q]
    BY <1>7 DEF TypeOK, Goto
  <2>2. replies[c] = <<>> /\ pc[c] = "recv1" /\ request[c] = "read"
    BY <1>1, <1>4, <1>7 DEF Repliers, Answerers
  <2>3. /\ Head(replies'[c]) = Tcp(t) /\ replies'[c] # <<>> /\ ToSet(replies'[c]) = {Tcp(t)}
        /\ \A q \in Proc \ {c} : replies'[q] = replies[q]
    <3>1. replies \in [Proc -> Seq(Fd)]
      BY DEF TypeOK
    <3>2. replies'[c] = Append(replies[c], Tcp(t)) /\ replies[c] \in Seq(Fd)
      BY <1>7, <3>1
    <3>3. ASSUME NEW s \in Seq(Fd), NEW x \in Fd, s = <<>>
          PROVE  Head(Append(s, x)) = x /\ Append(s, x) # <<>> /\ ToSet(Append(s, x)) = {x}
      <4>1. Head(Append(s, x)) = x /\ ToSet(s) = {}
        BY <3>3, QueueSets
      <4>2. Append(s, x) # <<>>
        BY QueueSets
      <4>3. ToSet(Append(s, x)) = ToSet(s) \cup {x}
        BY QueueSets
      <4>4. ToSet(Append(s, x)) = {x}
        BY <4>1, <4>3
      <4> QED
        BY <4>1, <4>2, <4>4
    <3>4. \A q \in Proc \ {c} : replies'[q] = replies[q]
      BY <1>7, <3>1
    <3> QED
      BY <1>3, <2>2, <3>2, <3>3, <3>4
  <2>4. \A fd : Open(fd)' => Open(fd)
    BY <1>1, <1>3, <1>7, <2>1, <2>3 DEF Open, Alive
  <2>5. \A q \in Proc : Requesting(q)' <=> Requesting(q)
    BY <1>1, <2>1 DEF Requesting
  <2>6. \A q \in Proc : peer[q] = c => q = p
    BY <1>4, <1>7 DEF Answerers
  <2>7. Shadows'
    BY <1>1, <1>7, <2>1, <2>2, <2>3 DEF Shadows, Unanswered, ServesBound, Serves, EventPc, AppPc
  <2>8. BoundOnce'
    BY <1>1, <2>4 DEF BoundOnce
  <2>9. Unstarted'
    BY <1>1, <1>7, <2>1 DEF Unstarted
  <2>10. Answerers'
    BY <1>1, <1>7, <2>1, <2>5 DEF Answerers, AnsweringPc
  <2>11. Repliers'
    <3>1. \A q \in Proc :
             /\ request'[q] # "read" => replies'[q] = <<>>
             /\ q \in reset' => pc'[q] = "dead" /\ request'[q] = "read"
             /\ pc'[q] = "recv1" /\ replies'[q] # <<>> =>
                    \/ \E u \in tcpBound' : Head(replies'[q]) = Tcp(u)
                    \/ Unanswered(q)' /\ Len(replies'[q]) = 1
      BY <1>1, <1>7, <2>1, <2>2, <2>3 DEF Repliers, Unanswered
    <3>2. \A q, r \in Proc : peer'[q] = r /\ Requesting(r)' =>
             /\ peer[q] = r /\ Requesting(r)
             /\ IF q = p THEN r = c ELSE r # c /\ pc'[q] = pc[q]
      BY <1>4, <1>7, <2>1, <2>5, <2>6
    <3>3. \A q, r \in Proc : peer'[q] = r /\ Requesting(r)' =>
             /\ pc'[q] \in {"count", "store", "reply1"} => replies'[r] = <<>> /\ pc'[r] = "recv1"
             /\ pc'[q] = "reply2" /\ pc'[r] = "recv1" => JunkLen \/ replies'[r] # <<>>
      <4> SUFFICES ASSUME NEW q \in Proc, NEW r \in Proc, peer'[q] = r, Requesting(r)'
                   PROVE  /\ pc'[q] \in {"count", "store", "reply1"} =>
                                replies'[r] = <<>> /\ pc'[r] = "recv1"
                          /\ pc'[q] = "reply2" /\ pc'[r] = "recv1" => JunkLen \/ replies'[r] # <<>>
        OBVIOUS
      <4>1. CASE q = p
        BY <2>1, <2>3, <3>2, <4>1
      <4>2. CASE q # p
        BY <1>1, <2>1, <2>3, <3>2, <4>2 DEF Repliers
      <4> QED
        BY <4>1, <4>2
    <3> QED
      BY <3>1, <3>3 DEF Repliers
  <2>12. EofIsFinal'
    <3>1. \A q \in Proc : Unserved(q) => Unserved(q)'
      BY <1>1, <1>7, <2>4 DEF Unserved
    <3>2. \A q \in Proc : pc'[q] = "recv2" => pc[q] = "recv2" /\ q # c
      BY <2>1, <2>2, <1>1
    <3> QED
      BY <1>7, <2>3, <3>1, <3>2 DEF EofIsFinal
  <2> QED
    BY <2>7, <2>8, <2>9, <2>10, <2>11, <2>12
<1> QED
  BY <1>2, <1>3, <1>4, <1>5, <1>6, <1>7 DEF ReplyShadow, WriteFd, WriteKills

(* comfd is sent second, if the process still has it.                       *)
LEMMA ReplyComfdSocket ==
    ASSUME TypeOK, DescriptorInv, NEW p \in Proc, ReplyComfd(p)
    PROVE  DescriptorInv'
<1> USE DEF DescriptorInv
<1>1. pc[p] = "reply2" /\ UNCHANGED <<backlog, listening, tcpBound>>
  BY DEF ReplyComfd, listenerVars, clientVars
<1>2. PICK c \in Proc : peer[p] = c
  BY <1>1 DEF Answerers, AnsweringPc, TypeOK
<1>3. CASE Die({p})
  BY <1>1, <1>3, SocketDeath
<1>4. ASSUME Goto(p, "handle"), peer' = [peer EXCEPT ![p] = None],
             UNCHANGED <<sock, reg, request, reset>>,
             \A q \in Proc : replies'[q] # replies[q] =>
                 /\ q = c /\ Requesting(c) /\ replies'[c] = Append(replies[c], sock[p].comfd)
                 /\ sock[p].comfd \in Fd
      PROVE  DescriptorInv'
  <2>1. /\ pc'[p] = "handle" /\ \A q \in Proc \ {p} : pc'[q] = pc[q]
        /\ peer'[p] = None /\ \A q \in Proc \ {p} : peer'[q] = peer[q]
    BY <1>4 DEF TypeOK, Goto
  <2>2. \A q \in Proc : Requesting(q)' <=> Requesting(q)
    BY <1>1, <2>1 DEF Requesting
  <2>3. Requesting(c) => /\ request[c] = "read" /\ c \in sock[p].comfds
                         /\ pc[c] = "recv1" => JunkLen \/ replies[c] # <<>>
                         /\ \A q \in Proc : peer[q] = c => q = p
    BY <1>1, <1>2 DEF Answerers, Repliers
  <2>4. \A q \in Proc : replies'[q] # replies[q] =>
            /\ q = c /\ Requesting(c)
            /\ ToSet(replies'[c]) = ToSet(replies[c]) \cup {sock[p].comfd}
            /\ IF replies[c] # <<>> THEN Head(replies'[c]) = Head(replies[c])
                                    ELSE Len(replies'[c]) = 1
    <3>1. replies \in [Proc -> Seq(Fd)]
      BY DEF TypeOK
    <3>2. sock[p].comfd \in Fd =>
              /\ ToSet(Append(replies[c], sock[p].comfd)) = ToSet(replies[c]) \cup {sock[p].comfd}
              /\ IF replies[c] # <<>>
                 THEN Head(Append(replies[c], sock[p].comfd)) = Head(replies[c])
                 ELSE Len(Append(replies[c], sock[p].comfd)) = 1
      BY <3>1, QueueSets
    <3> QED
      BY <1>4, <3>2
  <2>5. \A fd : Open(fd)' => Open(fd)
    BY <1>1, <1>4, <2>1, <2>4 DEF Open, Alive
  <2>6. None \notin Proc
    BY NoneAssumption
  <2>7. Shadows'
    BY <1>1, <1>2, <1>4, <2>1, <2>6 DEF Shadows, Unanswered, ServesBound, Serves, EventPc, AppPc
  <2>8. BoundOnce'
    BY <1>1, <2>5 DEF BoundOnce
  <2>9. Unstarted'
    BY <1>1, <1>4, <2>1 DEF Unstarted
  <2>10. Answerers'
    BY <1>1, <1>4, <2>1, <2>2, <2>6 DEF Answerers, AnsweringPc
  <2>11. Repliers'
    <3>1. \A q \in Proc :
             /\ request'[q] # "read" => replies'[q] = <<>>
             /\ q \in reset' => pc'[q] = "dead" /\ request'[q] = "read"
             /\ pc'[q] = "recv1" /\ replies'[q] # <<>> =>
                    \/ \E t \in tcpBound' : Head(replies'[q]) = Tcp(t)
                    \/ Unanswered(q)' /\ Len(replies'[q]) = 1
      <4>1. \A q \in Proc : Unanswered(q) => Unanswered(q)' /\ q # c
        BY <1>2, <2>1, <2>6 DEF Unanswered
      <4>2. Requesting(c) /\ JunkLen => Unanswered(c)'
        BY <2>1, <2>3, <2>6 DEF Unanswered
      <4>3. ASSUME NEW q \in Proc, replies'[q] # replies[q]
            PROVE  /\ request'[q] = "read" /\ q \notin reset'
                   /\ pc'[q] = "recv1" =>
                         \/ \E t \in tcpBound' : Head(replies'[q]) = Tcp(t)
                         \/ Unanswered(q)' /\ Len(replies'[q]) = 1
        <5>1. q = c /\ Requesting(c) /\ request'[q] = "read" /\ q \notin reset'
          BY <1>4, <2>3, <4>3 DEF Repliers, Requesting
        <5>2. ASSUME pc'[q] = "recv1", replies[c] # <<>>
              PROVE  \E t \in tcpBound' : Head(replies'[q]) = Tcp(t)
          BY <1>1, <2>1, <2>4, <4>1, <4>3, <5>1, <5>2 DEF Repliers
        <5>3. ASSUME pc'[q] = "recv1", replies[c] = <<>>
              PROVE  Unanswered(q)' /\ Len(replies'[q]) = 1
          BY <1>1, <2>1, <2>3, <2>4, <4>2, <4>3, <5>1, <5>3
        <5> QED
          BY <5>1, <5>2, <5>3
      <4>4. ASSUME NEW q \in Proc, replies'[q] = replies[q]
            PROVE  /\ request'[q] # "read" => replies'[q] = <<>>
                   /\ q \in reset' => pc'[q] = "dead" /\ request'[q] = "read"
                   /\ pc'[q] = "recv1" /\ replies'[q] # <<>> =>
                         \/ \E t \in tcpBound' : Head(replies'[q]) = Tcp(t)
                         \/ Unanswered(q)' /\ Len(replies'[q]) = 1
        BY <1>1, <1>4, <2>1, <4>1, <4>4 DEF Repliers
      <4> QED
        BY <4>3, <4>4
    <3>2. \A q, r \in Proc : peer'[q] = r /\ Requesting(r)' => q # p /\ peer[q] = r /\ r # c
      BY <1>2, <2>1, <2>2, <2>3, <2>6
    <3>3. \A q, r \in Proc : peer'[q] = r /\ Requesting(r)' =>
             /\ pc'[q] \in {"count", "store", "reply1"} => replies'[r] = <<>> /\ pc'[r] = "recv1"
             /\ pc'[q] = "reply2" /\ pc'[r] = "recv1" => JunkLen \/ replies'[r] # <<>>
      BY <1>1, <1>4, <2>1, <2>2, <3>2 DEF Repliers, Requesting
    <3> QED
      BY <3>1, <3>3 DEF Repliers
  <2>12. EofIsFinal'
    <3>1. \A q \in Proc : Unserved(q) => Unserved(q)'
      BY <1>1, <1>4, <2>5 DEF Unserved
    <3>2. \A q \in Proc : replies'[q] # replies[q] => ~Unserved(q)
      BY <1>4, <2>3 DEF Unserved
    <3>3. \A q \in Proc : pc'[q] = "recv2" => pc[q] = "recv2"
      BY <2>1
    <3> QED
      BY <1>4, <3>1, <3>2, <3>3 DEF EofIsFinal
  <2> QED
    BY <2>7, <2>8, <2>9, <2>10, <2>11, <2>12
<1>5. CASE WriteFd(p, sock[p].comfd, "handle") /\ peer' = [peer EXCEPT ![p] = None]
           /\ UNCHANGED <<live, request>>
  <2>1. Goto(p, "handle") /\ UNCHANGED <<sock, reg, request, reset>>
    BY <1>5 DEF WriteFd
  <2>2. \A q \in Proc : replies'[q] # replies[q] =>
                 /\ q = c /\ Requesting(c) /\ replies'[c] = Append(replies[c], sock[p].comfd)
                 /\ sock[p].comfd \in Fd
    <3>1. replies \in [Proc -> Seq(Fd)] /\ sock[p].comfd \in Fd \cup {None}
      BY DEF TypeOK, SockType
    <3>2. \/ /\ sock[p].comfd # None /\ Requesting(c)
             /\ replies' = [replies EXCEPT ![c] = Append(@, sock[p].comfd)]
          \/ UNCHANGED replies
      BY <1>2, <1>5 DEF WriteFd
    <3> QED
      BY <3>1, <3>2
  <2> QED
    BY <1>4, <1>5, <2>1, <2>2
<1> QED
  BY <1>3, <1>5 DEF ReplyComfd, WriteKills

-----------------------------------------------------------------------------
(* The steps of bind() that pass nothing.                                   *)

LEMMA BindCalm ==
    ASSUME TypeOK, DescriptorInv, NEW p \in Proc,
           \/ MonitorBind(p) \/ MonitorListen(p)
           \/ InheritStatusSem(p) \/ InheritFdSem(p) \/ InheritVersion(p)
           \/ FreshStatusSem(p) \/ FreshFdSem(p) \/ FreshStatus(p)
    PROVE  DescriptorInv'
<1> USE DEF callVars, channelVars, clientVars, listenerVars
<1>1. /\ pc \in [Proc -> PcType] /\ sock \in [Proc -> SockType]
      /\ Com(p) # None
  BY NoneAssumption DEF TypeOK, Fd, Com
<1>2. ASSUME NEW b, Goto(p, b)
      PROVE  pc'[p] = b /\ \A q \in Proc \ {p} : pc'[q] = pc[q]
  BY <1>1, <1>2 DEF Goto
<1>3. (UNCHANGED sock) => \A q \in Proc : KeepsFds(q)
  BY DEF KeepsFds
<1>4. CASE MonitorBind(p)
  <2>1. /\ pc[p] = "bind" /\ pc'[p] \in {"listen", "connect"}
        /\ \A q \in Proc \ {p} : pc'[q] = pc[q]
    BY <1>2, <1>4 DEF MonitorBind
  <2>2. /\ UNCHANGED <<sock, reg, peer, request, replies, reset, backlog, tcpBound, listening>>
    BY <1>4 DEF MonitorBind
  <2> QED
    BY <1>3, <2>1, <2>2, CalmStep DEF CalmMove
<1>5. CASE MonitorListen(p)
  <2>1. /\ pc[p] = "listen" /\ pc'[p] = "sem1"
        /\ \A q \in Proc \ {p} : pc'[q] = pc[q]
    BY <1>2, <1>5 DEF MonitorListen
  <2>2. /\ UNCHANGED <<sock, reg, peer, request, replies, reset, backlog, tcpBound>>
        /\ listening' \subseteq listening \cup {p}
    BY <1>5 DEF MonitorListen
  <2> QED
    BY <1>3, <2>1, <2>2, CalmStep DEF CalmMove
<1>6. CASE InheritStatusSem(p) \/ InheritFdSem(p) \/ InheritVersion(p)
  <2>1. /\ pc[p] \in {"inherit1", "inherit2", "version"}
        /\ pc'[p] \in {"inherit2", "version", "user"}
        /\ \A q \in Proc \ {p} : pc'[q] = pc[q]
    BY <1>2, <1>6 DEF InheritStatusSem, InheritFdSem, InheritVersion
  <2>2. UNCHANGED <<reg, peer, request, replies, reset, backlog, tcpBound, listening>>
    BY <1>6 DEF InheritStatusSem, InheritFdSem, InheritVersion
  <2>3. \A q \in Proc : KeepsFds(q)
    BY <1>1, <1>6 DEF InheritStatusSem, InheritFdSem, InheritVersion, KeepsFds, SockType
  <2> QED
    BY <2>1, <2>2, <2>3, CalmStep DEF CalmMove
<1>7. CASE FreshStatusSem(p) \/ FreshFdSem(p) \/ FreshStatus(p)
  <2>1. /\ pc[p] \in {"sem1", "sem2", "fresh"}
        /\ pc'[p] \in {"sem2", "fresh", "tcpbind"}
        /\ \A q \in Proc \ {p} : pc'[q] = pc[q]
    BY <1>2, <1>7 DEF FreshStatusSem, FreshFdSem, FreshStatus
  <2>2. UNCHANGED <<reg, peer, request, replies, reset, backlog, tcpBound, listening>>
    BY <1>7 DEF FreshStatusSem, FreshFdSem, FreshStatus
  <2>3. \A q \in Proc : KeepsFds(q)
    <3>1. CASE FreshStatusSem(p)
      BY <1>1, <3>1 DEF FreshStatusSem, KeepsFds, SockType
    <3>2. CASE FreshFdSem(p)
      BY <1>1, <3>2 DEF FreshFdSem, KeepsFds, SockType
    <3>3. CASE FreshStatus(p)
      BY <1>1, <3>3 DEF FreshStatus, KeepsFds, SockType
    <3> QED
      BY <1>7, <3>1, <3>2, <3>3
  <2> QED
    BY <2>1, <2>2, <2>3, CalmStep DEF CalmMove
<1> QED
  BY <1>4, <1>5, <1>6, <1>7

(* The steps of the event loop that pass nothing.                           *)
LEMMA ServingCalm ==
    ASSUME TypeOK, DescriptorInv, NEW p \in Proc,
           pc[p] \in (EventPc \cup AppPc) \ AnsweringPc,
           NEW b \in (EventPc \cup AppPc) \ AnsweringPc, Goto(p, b),
           \A q \in Proc : KeepsFds(q),
           \A q \in Proc \ {p} : reg'[q] = reg[q],
           UNCHANGED <<listening, peer, request, replies, reset, backlog, tcpBound>>
    PROVE  DescriptorInv'
<1>1. pc'[p] = b /\ \A q \in Proc \ {p} : pc'[q] = pc[q]
  BY DEF TypeOK, Goto
<1>2. CalmMove(p)
  BY <1>1 DEF CalmMove, Serves
<1> QED
  BY <1>1, <1>2, CalmStep

LEMMA EventCalm ==
    ASSUME TypeOK, DescriptorInv, NEW p \in Proc,
           \/ EventCall(p) \/ Monitor(p) \/ QuitStore(p) \/ TerminationDetection(p)
           \/ PreEvent(p) \/ Wake(p) \/ Timeout(p) \/ PollTimeout(p)
           \/ Interrupt(p) \/ Post(p)
    PROVE  DescriptorInv'
<1> USE DEF callVars, channelVars, clientVars, listenerVars, semVars, EventPc, AppPc, AnsweringPc
<1>1. sock \in [Proc -> SockType] /\ reg \in [Proc -> Int]
  BY DEF TypeOK
<1>2. (UNCHANGED sock) => \A q \in Proc : KeepsFds(q)
  BY DEF KeepsFds
<1>3. CASE EventCall(p) \/ TerminationDetection(p) \/ Wake(p) \/ Timeout(p) \/ PollTimeout(p)
  <2>1. \E b \in (EventPc \cup AppPc) \ AnsweringPc : Goto(p, b)
    BY <1>3 DEF EventCall, TerminationDetection, Wake, Timeout, PollTimeout
  <2>2. /\ pc[p] \in (EventPc \cup AppPc) \ AnsweringPc
        /\ UNCHANGED <<sock, reg, listening, peer, request, replies, reset, backlog, tcpBound>>
    BY <1>3 DEF EventCall, TerminationDetection, Wake, Timeout, PollTimeout, Idle
  <2> QED
    BY <1>2, <2>1, <2>2, ServingCalm
<1>4. CASE Monitor(p) \/ QuitStore(p)
  <2>1. \E b \in (EventPc \cup AppPc) \ AnsweringPc : Goto(p, b)
    BY <1>4 DEF Monitor, QuitStore
  <2>2. /\ pc[p] \in (EventPc \cup AppPc) \ AnsweringPc
        /\ UNCHANGED <<listening, peer, request, replies, reset, backlog, tcpBound>>
        /\ \A q \in Proc \ {p} : reg'[q] = reg[q]
    BY <1>1, <1>4 DEF Monitor, QuitStore
  <2>3. \A q \in Proc : KeepsFds(q)
    BY <1>1, <1>4 DEF Monitor, QuitStore, KeepsFds, SockType
  <2> QED
    BY <2>1, <2>2, <2>3, ServingCalm
<1>5. CASE PreEvent(p)
  <2>1. \E b \in (EventPc \cup AppPc) \ AnsweringPc : Goto(p, b)
    BY <1>5 DEF PreEvent
  <2>2. /\ pc[p] \in (EventPc \cup AppPc) \ AnsweringPc
        /\ UNCHANGED <<reg, listening, peer, request, replies, reset, backlog, tcpBound>>
    BY <1>5 DEF PreEvent
  <2>3. \A q \in Proc : KeepsFds(q)
    BY <1>1, <1>5 DEF PreEvent, KeepsFds, SockType
  <2> QED
    BY <2>1, <2>2, <2>3, ServingCalm
<1>6. CASE Interrupt(p) \/ Post(p)
  <2>1. \E b \in (EventPc \cup AppPc) \ AnsweringPc : Goto(p, b)
    BY <1>6 DEF Interrupt, Post
  <2>2. /\ pc[p] \in (EventPc \cup AppPc) \ AnsweringPc
        /\ UNCHANGED <<reg, listening, peer, request, replies, reset, backlog, tcpBound>>
    BY <1>6 DEF Interrupt, Post, HandledConns
  <2>3. \A q \in Proc : KeepsFds(q)
    BY <1>1, <1>6 DEF Interrupt, Post, Unlock, KeepsFds, SockType
  <2> QED
    BY <2>1, <2>2, <2>3, ServingCalm
<1> QED
  BY <1>3, <1>4, <1>5, <1>6

(* What the application does, and what does not answer a requester.         *)
LEMMA HandleCalm ==
    ASSUME TypeOK, DescriptorInv, NEW p \in Proc,
           \/ Accept(p) \/ \E c \in Client : CloseClient(p, c)
           \/ \E c \in Proc : HandleClose(p, c) \/ HandleRace(p, c)
           \/ CountLoad(p) \/ CountStore(p)
    PROVE  DescriptorInv'
<1> USE DEF callVars, channelVars, clientVars, listenerVars, semVars
<1>1. sock \in [Proc -> SockType] /\ reg \in [Proc -> Int] /\ pc \in [Proc -> PcType]
  BY DEF TypeOK
<1>2. (UNCHANGED sock) => \A q \in Proc : KeepsFds(q)
  BY DEF KeepsFds
<1>3. CASE Accept(p)
  <2>1. /\ pc[p] = "accept" /\ Goto(p, "user")
        /\ UNCHANGED <<reg, listening, peer, request, replies, reset, backlog, tcpBound>>
    BY <1>3 DEF Accept
  <2>2. \A q \in Proc : KeepsFds(q)
    <3>1. ASSUME NEW c, sock' = [sock EXCEPT ![p].fds = @ \cup {c}]
          PROVE  \A q \in Proc : KeepsFds(q)
      BY <1>1, <3>1 DEF KeepsFds, SockType
    <3> QED
      BY <1>2, <1>3, <3>1 DEF Accept
  <2> QED
    BY <2>1, <2>2, ServingCalm DEF EventPc, AppPc, AnsweringPc
<1>4. ASSUME NEW c \in Client, CloseClient(p, c)
      PROVE  DescriptorInv'
  <2>1. /\ pc[p] = "user"
        /\ UNCHANGED <<pc, reg, listening, peer, request, replies, reset, backlog, tcpBound>>
    BY <1>4 DEF CloseClient
  <2>2. \A q \in Proc : KeepsFds(q)
    BY <1>1, <1>4 DEF CloseClient, KeepsFds, SockType
  <2> QED
    BY <2>1, <2>2, CalmStep DEF CalmMove, Serves, EventPc, AppPc, AnsweringPc
<1>5. ASSUME NEW c \in Proc, HandleClose(p, c) \/ HandleRace(p, c)
      PROVE  DescriptorInv'
  <2>1. /\ pc[p] = "handle"
        /\ UNCHANGED <<pc, reg, listening, peer, request, replies, reset, backlog, tcpBound>>
    BY <1>5 DEF HandleClose, HandleRace, Takes
  <2>2. \A q \in Proc : KeepsFds(q)
    BY <1>1, <1>2, <1>5 DEF HandleClose, HandleRace, ConnRemoved, KeepsFds, SockType
  <2> QED
    BY <2>1, <2>2, CalmStep DEF CalmMove, Serves, EventPc, AppPc, AnsweringPc
<1>6. CASE CountLoad(p) \/ CountStore(p)
  <2>1. /\ pc[p] \in {"count", "store"} /\ pc'[p] \in {"store", "reply1"}
        /\ \A q \in Proc \ {p} : pc'[q] = pc[q]
    BY <1>1, <1>6 DEF CountLoad, CountStore, Goto
  <2>2. /\ UNCHANGED <<listening, peer, request, replies, reset, backlog, tcpBound>>
        /\ \A q \in Proc \ {p} : reg'[q] = reg[q]
    BY <1>1, <1>6 DEF CountLoad, CountStore
  <2>3. \A q \in Proc : KeepsFds(q)
    BY <1>1, <1>2, <1>6 DEF CountLoad, CountStore, KeepsFds, SockType
  <2> QED
    BY <2>1, <2>2, <2>3, CalmStep DEF CalmMove
<1> QED
  BY <1>3, <1>4, <1>5, <1>6

(* A worker that leaves, a killed group, a crash, a fault.                  *)
LEMMA EndSocket ==
    ASSUME TypeOK, DescriptorInv, NEW p \in Proc,
           Terminate(p) \/ KillGroup(p) \/ ScanFault(p) \/ Crash(p)
    PROVE  DescriptorInv'
<1> USE DEF callVars, channelVars, clientVars, listenerVars
<1>1. /\ UNCHANGED <<tcpBound, listening, backlog>>
      /\ p \in Proc /\ Killed(p) \in SUBSET Proc
  BY DEF Terminate, KillGroup, ScanFault, Crash, Killed
<1>2. CASE Die({p}) \/ Die(Killed(p))
  BY <1>1, <1>2, SocketDeath
<1>3. CASE pc[p] = "exit" /\ Goto(p, "killpg") /\ UNCHANGED <<live, sock, callVars, channelVars>>
  <2>1. \A q \in Proc : KeepsFds(q)
    BY <1>3 DEF KeepsFds
  <2> QED
    BY <1>1, <1>3, <2>1, ServingCalm DEF EventPc, AppPc, AnsweringPc
<1> QED
  BY <1>2, <1>3 DEF Terminate, KillGroup, ScanFault, Crash

-----------------------------------------------------------------------------
(* What is ready stays listed.                                              *)

(* A step of p that lets nothing become ready and takes no connection away. *)
LEMMA ReadyKept ==
    ASSUME ReadyListed, NEW p \in Proc, pc[p] # "none",
           \A q \in Proc : pc'[q] = "none" => pc[q] = "none",
           \A q \in Proc : /\ call'[q].ready.conns \subseteq call[q].ready.conns
                           /\ sock[q].comfds \subseteq sock'[q].comfds
    PROVE  ReadyListed'
BY DEF ReadyListed

LEMMA ReadyDeath ==
    ASSUME TypeOK, ReadyListed, NEW D \in SUBSET Proc, Die(D)
    PROVE  ReadyListed'
<1>1. \A q \in Proc : \/ pc'[q] = pc[q] /\ sock'[q] = sock[q] /\ call'[q] = call[q]
                      \/ pc'[q] = "dead" /\ call'[q] = NoCall
  BY DEF Die
<1>2. NoCall.ready.conns = {}
  BY DEF NoCall, NothingReady
<1> QED
  BY <1>1, <1>2 DEF ReadyListed

LEMMA ReadyBind ==
    ASSUME TypeOK, ReadyListed, NEW p \in Proc, BindStep(p)
    PROVE  ReadyListed'
<1> USE DEF callVars
<1>1. /\ pc \in [Proc -> PcType] /\ sock \in [Proc -> SockType]
  BY DEF TypeOK
<1>2. CASE Die({p})
  BY <1>2, ReadyDeath
<1>3. ASSUME NEW b \in PcType \ {"none"}, Goto(p, b), pc[p] # "none", UNCHANGED call,
             \A q \in Proc : sock[q].comfds \subseteq sock'[q].comfds
      PROVE  ReadyListed'
  BY <1>1, <1>3, ReadyKept DEF Goto
<1>4. (UNCHANGED sock) => \A q \in Proc : sock[q].comfds \subseteq sock'[q].comfds
  OBVIOUS
<1>5. CASE \/ MonitorBind(p) \/ MonitorListen(p) \/ Connect(p) \/ SendPort(p) \/ TcpBind(p)
  BY <1>2, <1>3, <1>4, <1>5
     DEF MonitorBind, MonitorListen, Connect, SendPort, TcpBind, PcType, BindPc, AppPc
<1>6. CASE \/ ReadShadow(p) \/ ReadComfd(p)
  <2>1. \A q \in Proc : sock[q].comfds \subseteq sock'[q].comfds
    <3>1. ASSUME NEW fd, \/ sock' = [sock EXCEPT ![p].shadowfd = fd]
                         \/ sock' = [sock EXCEPT ![p].comfd = fd]
          PROVE  \A q \in Proc : sock[q].comfds \subseteq sock'[q].comfds
      BY <1>1, <3>1 DEF SockType
    <3> QED
      BY <1>4, <1>6, <3>1 DEF ReadShadow, ReadComfd
  <2> QED
    BY <1>3, <1>6, <2>1 DEF ReadShadow, ReadComfd, PcType, BindPc
<1>7. CASE \/ InheritStatusSem(p) \/ InheritFdSem(p) \/ InheritVersion(p)
           \/ FreshStatusSem(p) \/ FreshFdSem(p) \/ FreshStatus(p)
  <2>1. \A q \in Proc : sock[q].comfds \subseteq sock'[q].comfds
    <3>1. CASE InheritStatusSem(p)
      BY <1>1, <3>1 DEF InheritStatusSem, SockType
    <3>2. CASE InheritFdSem(p)
      BY <1>1, <3>2 DEF InheritFdSem, SockType
    <3>3. CASE InheritVersion(p)
      BY <1>1, <3>3 DEF InheritVersion, SockType
    <3>4. CASE FreshStatusSem(p)
      BY <1>1, <3>4 DEF FreshStatusSem, SockType
    <3>5. CASE FreshFdSem(p)
      BY <1>1, <3>5 DEF FreshFdSem, SockType
    <3>6. CASE FreshStatus(p)
      BY <1>1, <3>6 DEF FreshStatus, SockType
    <3> QED
      BY <1>7, <3>1, <3>2, <3>3, <3>4, <3>5, <3>6
  <2> QED
    BY <1>3, <1>7, <2>1 DEF InheritStatusSem, InheritFdSem, InheritVersion,
                 FreshStatusSem, FreshFdSem, FreshStatus, PcType, BindPc, AppPc
<1> QED
  BY <1>5, <1>6, <1>7 DEF BindStep

LEMMA ReadyApp ==
    ASSUME TypeOK, ReadyListed, NEW p \in Proc, AppStep(p)
    PROVE  ReadyListed'
<1> USE DEF callVars
<1>1. /\ pc \in [Proc -> PcType] /\ sock \in [Proc -> SockType]
  BY DEF TypeOK
<1>2. ASSUME NEW F, UNCHANGED sock \/ sock' = [sock EXCEPT ![p].fds = F]
      PROVE  \A q \in Proc : sock[q].comfds \subseteq sock'[q].comfds
  BY <1>1, <1>2 DEF SockType
<1>3. CASE Accept(p)
  <2>1. \A q \in Proc : sock[q].comfds \subseteq sock'[q].comfds
    <3>1. ASSUME NEW c, sock' = [sock EXCEPT ![p].fds = @ \cup {c}]
          PROVE  \A q \in Proc : sock[q].comfds \subseteq sock'[q].comfds
      BY <1>1, <3>1 DEF SockType
    <3> QED
      BY <1>3, <3>1 DEF Accept
  <2> QED
    BY <1>1, <1>3, <2>1, ReadyKept DEF Accept, Goto
<1>4. ASSUME NEW c \in Client, CloseClient(p, c)
      PROVE  ReadyListed'
  <2>1. \A q \in Proc : sock[q].comfds \subseteq sock'[q].comfds
    BY <1>1, <1>4 DEF CloseClient, SockType
  <2> QED
    BY <1>4, <2>1, ReadyKept DEF CloseClient
<1> QED
  BY <1>3, <1>4 DEF AppStep

(* Only the return of the event function makes connections ready, out of    *)
(* the list.                                                                *)
LEMMA ReadyEvent ==
    ASSUME TypeOK, ReadyListed, NEW p \in Proc,
           \/ EventCall(p) \/ Monitor(p) \/ QuitStore(p) \/ TerminationDetection(p)
           \/ Terminate(p) \/ KillGroup(p) \/ PreEvent(p) \/ Wake(p) \/ Timeout(p)
           \/ PollTimeout(p) \/ Post(p) \/ ScanFault(p) \/ Interrupt(p)
    PROVE  ReadyListed'
<1> USE DEF callVars, semVars
<1>1. /\ pc \in [Proc -> PcType] /\ sock \in [Proc -> SockType] /\ call \in [Proc -> CallType]
  BY DEF TypeOK
<1>2. NoCall.ready.conns = {}
  BY DEF NoCall, NothingReady
<1>3. CASE Die({p}) \/ Die(Killed(p))
  BY <1>3, ReadyDeath DEF Killed
<1>4. ASSUME NEW b \in PcType \ {"none"}, Goto(p, b), pc[p] # "none",
             UNCHANGED call \/ call' = [call EXCEPT ![p] = NoCall],
             \A q \in Proc : sock[q].comfds \subseteq sock'[q].comfds
      PROVE  ReadyListed'
  <2>1. \A q \in Proc : call'[q].ready.conns \subseteq call[q].ready.conns
    BY <1>1, <1>2, <1>4
  <2> QED
    BY <1>1, <1>4, <2>1, ReadyKept DEF Goto
<1>5. (UNCHANGED sock) => \A q \in Proc : sock[q].comfds \subseteq sock'[q].comfds
  OBVIOUS
<1>6. CASE \/ EventCall(p) \/ TerminationDetection(p) \/ Timeout(p) \/ PollTimeout(p)
  <2>1. \E b \in PcType \ {"none"} : Goto(p, b)
    BY <1>6 DEF EventCall, TerminationDetection, Timeout, PollTimeout, PcType, EventPc, AppPc
  <2>2. /\ pc[p] # "none" /\ UNCHANGED sock
        /\ UNCHANGED call \/ call' = [call EXCEPT ![p] = NoCall]
    BY <1>6 DEF EventCall, TerminationDetection, Timeout, PollTimeout, Idle
  <2> QED
    BY <1>4, <1>5, <2>1, <2>2
<1>7. CASE Monitor(p) \/ QuitStore(p)
  <2>1. \A q \in Proc : sock[q].comfds \subseteq sock'[q].comfds
    <3>1. CASE Monitor(p)
      BY <1>1, <3>1 DEF Monitor, SockType
    <3>2. CASE QuitStore(p)
      BY <1>1, <3>2 DEF QuitStore, SockType
    <3> QED
      BY <1>7, <3>1, <3>2
  <2> QED
    BY <1>4, <1>7, <2>1 DEF Monitor, QuitStore, PcType, EventPc
<1>8. CASE Terminate(p) \/ KillGroup(p) \/ ScanFault(p)
  BY <1>3, <1>4, <1>5, <1>8 DEF Terminate, KillGroup, ScanFault, PcType, EventPc
<1>9. CASE PreEvent(p)
  <2>1. \A q \in Proc : sock[q].comfds \subseteq sock'[q].comfds
    <3>1. CASE UNCHANGED sock
      BY <3>1
    <3>2. CASE ~UNCHANGED sock
      <4> DEFINE l == sock[p].locked \/ (Exclusive /\ TryLock(p))
                 i == IF Handler[p] = "epoll" THEN sock[p].interest \cup {sock[p].comfd}
                      ELSE sock[p].interest
      <4>1. sock' = [sock EXCEPT ![p].locked = l, ![p].interest = i]
        BY <1>9, <3>2 DEF PreEvent
      <4> HIDE DEF l, i
      <4>2. sock' = [sock EXCEPT ![p] = [@ EXCEPT !.locked = l, !.interest = i]]
        BY <4>1
      <4>3. [sock[p] EXCEPT !.locked = l, !.interest = i].comfds = sock[p].comfds
        BY <1>1 DEF SockType
      <4> QED
        BY <1>1, <4>2, <4>3
    <3> QED
      BY <3>1, <3>2
  <2>2. \A q \in Proc : call'[q].ready.conns = call[q].ready.conns
    <3>1. ASSUME NEW w, call' = [call EXCEPT ![p].watch = w]
          PROVE  \A q \in Proc : call'[q].ready.conns = call[q].ready.conns
      BY <1>1, <3>1 DEF CallType
    <3>2. ASSUME NEW w, NEW h, call' = [call EXCEPT ![p] = [@ EXCEPT !.watch = w, !.hurry = h]]
          PROVE  \A q \in Proc : call'[q].ready.conns = call[q].ready.conns
      <4>1. [call[p] EXCEPT !.watch = w, !.hurry = h].ready = call[p].ready
        BY <1>1 DEF CallType
      <4> QED
        BY <1>1, <3>2, <4>1
    <3>3. CASE ~sock[p].monitoring
      BY <1>9, <3>1, <3>3 DEF PreEvent
    <3>4. CASE sock[p].monitoring
      <4>1. PICK w, h : call' = [call EXCEPT ![p].watch = w, ![p].hurry = h]
        BY <1>9, <3>4 DEF PreEvent
      <4>2. call' = [call EXCEPT ![p] = [@ EXCEPT !.watch = w, !.hurry = h]]
        BY <4>1
      <4> QED
        BY <3>2, <4>2
    <3> QED
      BY <3>3, <3>4
  <2> QED
    BY <1>1, <1>9, <2>1, <2>2, ReadyKept DEF PreEvent, Goto
<1>10. CASE Wake(p)
  <2> PICK r \in ReadySets(p) :
         \E h \in Handled(p, r) :
            call' = [call EXCEPT
                        ![p].ready = h,
                        ![p].overrun = Handler[p] = "poll" /\ (r.com \/ r.conns # {})]
    BY <1>10 DEF Wake
  <2>1. PICK h \in Handled(p, r) :
            call' = [call EXCEPT
                        ![p].ready = h,
                        ![p].overrun = Handler[p] = "poll" /\ (r.com \/ r.conns # {})]
    OBVIOUS
  <2>2. h.conns \subseteq sock[p].comfds
    <3>1. r.conns \subseteq sock[p].comfds
      BY DEF ReadySets
    <3>2. h.conns \subseteq r.conns
      <4>1. PICK u : r = [tcp |-> TcpReady(p), com |-> ComReady(p), user |-> u,
                          conns |-> {c \in sock[p].comfds : Readable(c)}]
        BY DEF ReadySets
      <4> QED
        BY <4>1 DEF Handled
    <3> QED
      BY <3>1, <3>2
  <2>3. /\ call'[p].ready.conns = h.conns
        /\ \A q \in Proc \ {p} : call'[q] = call[q]
    BY <1>1, <2>1 DEF CallType
  <2>4. pc'[p] # "none" /\ \A q \in Proc \ {p} : pc'[q] = pc[q]
    BY <1>1, <1>10 DEF Wake, Goto
  <2>5. UNCHANGED sock
    BY <1>10 DEF Wake
  <2> QED
    BY <2>2, <2>3, <2>4, <2>5 DEF ReadyListed
<1>11. CASE Post(p) \/ Interrupt(p)
  <2>1. \A q \in Proc : sock[q].comfds \subseteq sock'[q].comfds
    <3>1. CASE Unlock(p)
      BY <1>1, <3>1 DEF Unlock, SockType
    <3> QED
      BY <1>5, <1>11, <3>1 DEF Post, Interrupt
  <2>2. \E b \in PcType \ {"none"} : Goto(p, b)
    BY <1>11 DEF Post, Interrupt, PcType, EventPc, AppPc
  <2>3. pc[p] # "none" /\ call' = [call EXCEPT ![p] = NoCall]
    BY <1>11 DEF Post, HandledConns, Interrupt
  <2> QED
    BY <1>4, <2>1, <2>2, <2>3
<1> QED
  BY <1>6, <1>7, <1>8, <1>9, <1>10, <1>11

(* A connection is taken off the list in the step that takes it from the    *)
(* ready ones.                                                              *)
LEMMA ReadyHandle ==
    ASSUME TypeOK, ReadyListed, NEW p \in Proc, HandleStep(p)
    PROVE  ReadyListed'
<1> USE DEF callVars
<1>1. /\ pc \in [Proc -> PcType] /\ sock \in [Proc -> SockType] /\ call \in [Proc -> CallType]
  BY DEF TypeOK
<1>2. ASSUME NEW c \in Proc, Takes(p, c)
      PROVE  /\ pc[p] = "handle"
             /\ call'[p].ready.conns = call[p].ready.conns \ {c}
             /\ \A q \in Proc \ {p} : call'[q] = call[q]
  BY <1>1, <1>2 DEF Takes, CallType, ReadyType
<1>3. CASE HandleAccept(p)
  <2>1. \A q \in Proc : sock[q].comfds \subseteq sock'[q].comfds
    <3>1. ASSUME NEW c, sock' = [sock EXCEPT ![p].comfds = @ \cup {c}]
          PROVE  \A q \in Proc : sock[q].comfds \subseteq sock'[q].comfds
      <4> DEFINE new == sock[p].comfds \cup {c}
      <4>1. sock' = [sock EXCEPT ![p].comfds = new]
        BY <3>1
      <4>2. sock'[p].comfds = new /\ \A q \in Proc \ {p} : sock'[q] = sock[q]
        <5> HIDE DEF new
        <5> QED
          BY <1>1, <4>1 DEF SockType
      <4> QED
        BY <4>2
    <3> QED
      BY <1>3, <3>1 DEF HandleAccept
  <2>2. \A q \in Proc : call'[q].ready.conns = call[q].ready.conns
    BY <1>1, <1>3 DEF HandleAccept, CallType, ReadyType
  <2> QED
    BY <1>3, <2>1, <2>2, ReadyKept DEF HandleAccept
<1>4. ASSUME NEW c \in Proc, HandleClose(p, c)
      PROVE  ReadyListed'
  <2>1. /\ sock'[p].comfds = sock[p].comfds \ {c}
        /\ \A q \in Proc \ {p} : sock'[q] = sock[q]
    BY <1>1, <1>4 DEF HandleClose, ConnRemoved, SockType
  <2> QED
    BY <1>2, <1>4, <2>1 DEF HandleClose, ReadyListed
<1>5. ASSUME NEW c \in Proc, HandleRace(p, c) \/ HandleError(p, c) \/ HandleRequest(p, c)
      PROVE  ReadyListed'
  <2>1. /\ Takes(p, c) /\ UNCHANGED sock
        /\ \A q \in Proc : pc'[q] = "none" => pc[q] = "none"
    BY <1>1, <1>5 DEF HandleRace, HandleError, HandleRequest, Goto
  <2> QED
    BY <1>2, <2>1, ReadyKept
<1>6. CASE CountLoad(p) \/ CountStore(p)
  <2>1. \A q \in Proc : sock[q].comfds \subseteq sock'[q].comfds
    BY <1>1, <1>6 DEF CountLoad, CountStore, SockType
  <2> QED
    BY <1>1, <1>6, <2>1, ReadyKept DEF CountLoad, CountStore, Goto
<1>7. CASE ReplyShadow(p) \/ ReplyComfd(p)
  <2>1. CASE Die({p})
    BY <2>1, ReadyDeath
  <2>2. ASSUME NEW fd, WriteFd(p, fd, "reply2") \/ WriteFd(p, fd, "handle"), pc[p] # "none"
        PROVE  ReadyListed'
    BY <1>1, <2>2, ReadyKept DEF WriteFd, Goto
  <2> QED
    BY <1>7, <2>1, <2>2 DEF ReplyShadow, ReplyComfd, WriteKills
<1> QED
  BY <1>3, <1>4, <1>5, <1>6, <1>7 DEF HandleStep

-----------------------------------------------------------------------------
(* The theorem.                                                             *)

LEMMA InitialSockets == Init => SocketInv
<1> SUFFICES ASSUME Init PROVE SocketInv
  OBVIOUS
<1>1. \A p \in Proc :
        /\ pc[p] = "none" /\ sock[p] = NoSock /\ call[p] = NoCall /\ reg[p] = 0
        /\ peer[p] = None /\ request[p] = "none" /\ replies[p] = <<>> /\ backlog[p] = <<>>
  BY DEF Init
<1>2. listening = {} /\ tcpBound = {} /\ reset = {}
  BY DEF Init
<1>3. Shadows /\ EofIsFinal
  BY <1>1 DEF Shadows, EofIsFinal, Serves, EventPc, AppPc
<1>4. BoundOnce /\ Unstarted
  BY <1>1, <1>2 DEF BoundOnce, Unstarted
<1>5. Answerers
  BY <1>1, NoneAssumption DEF Answerers, AnsweringPc
<1>6. Repliers
  BY <1>1, <1>2, NoneAssumption DEF Repliers
<1>7. ReadyListed
  BY <1>1 DEF ReadyListed, NoCall, NothingReady
<1> QED
  BY <1>3, <1>4, <1>5, <1>6, <1>7 DEF SocketInv, DescriptorInv

LEMMA UnmovedSockets ==
    ASSUME SocketInv,
           UNCHANGED <<pc, sock, call, reg, peer, request, replies, reset, backlog,
                       listening, tcpBound>>
    PROVE  SocketInv'
<1>1. /\ \A fd : Open(fd)' <=> Open(fd)
      /\ \A c \in Proc : Requesting(c)' <=> Requesting(c)
  BY DEF Open, Alive, Requesting
<1>2. Shadows' /\ BoundOnce' /\ Unstarted'
  BY <1>1 DEF SocketInv, DescriptorInv, Shadows, Unanswered, ServesBound, Serves, BoundOnce, Unstarted
<1>3. Answerers' /\ Repliers'
  BY <1>1 DEF SocketInv, DescriptorInv, Answerers, Repliers, Unanswered
<1>4. EofIsFinal' /\ ReadyListed'
  BY <1>1 DEF SocketInv, DescriptorInv, EofIsFinal, Unserved, ReadyListed
<1> QED
  BY <1>2, <1>3, <1>4 DEF SocketInv, DescriptorInv

LEMMA SocketsPreserved ==
    ASSUME TypeOK, SocketInv, ~JunkLen \/ Attended, [Step]_vars
    PROVE  SocketInv'
<1>1. DescriptorInv /\ ReadyListed
  BY DEF SocketInv
<1>2. ASSUME NEW p \in Proc, BindStep(p)
      PROVE  SocketInv'
  <2>1. DescriptorInv'
    BY <1>1, <1>2, BindCalm, ConnectSocket, SendSocket, ReadShadowSocket,
       ReadComfdSocket, TcpBindSocket DEF BindStep
  <2> QED
    BY <1>1, <1>2, <2>1, ReadyBind DEF SocketInv
<1>3. ASSUME NEW p \in Proc, AppStep(p)
      PROVE  SocketInv'
  BY <1>1, <1>3, HandleCalm, ReadyApp DEF AppStep, SocketInv
<1>4. ASSUME NEW p \in Proc, HandleStep(p)
      PROVE  SocketInv'
  <2>1. ASSUME NEW c \in Proc, HandleRequest(p, c)
        PROVE  DescriptorInv'
    <3>1. c \in sock[p].comfds
      BY <1>1, <2>1 DEF HandleRequest, Takes, ReadyListed
    <3> QED
      BY <1>1, <2>1, <3>1, RequestSocket
  <2>2. DescriptorInv'
    BY <1>1, <1>4, <2>1, AcceptSocket, HandleCalm, ErrorSocket, ReplyShadowSocket,
       ReplyComfdSocket DEF HandleStep
  <2> QED
    BY <1>1, <1>4, <2>2, ReadyHandle DEF SocketInv
<1>5. ASSUME NEW p \in Proc, EventStep(p), ~HandleStep(p)
      PROVE  SocketInv'
  BY <1>1, <1>5, EventCalm, EndSocket, ReadyEvent DEF EventStep, SocketInv
<1>6. ASSUME NEW p \in Proc, Start(p) \/ Crash(p)
      PROVE  SocketInv'
  <2>1. DescriptorInv'
    BY <1>1, <1>6, StartSocket, EndSocket
  <2>2. ReadyListed'
    <3>1. CASE Start(p)
      <4>1. /\ pc[p] = "none" /\ UNCHANGED call
            /\ \A q \in Proc \ {p} : pc'[q] = pc[q] /\ sock'[q] = sock[q]
            /\ pc'[p] = "bind"
        BY <3>1 DEF Start, Goto, callVars, TypeOK
      <4> QED
        BY <1>1, <4>1 DEF ReadyListed
    <3>2. CASE Crash(p)
      BY <1>1, <3>2, ReadyDeath DEF Crash
    <3> QED
      BY <1>6, <3>1, <3>2
  <2> QED
    BY <2>1, <2>2 DEF SocketInv
<1>7. ASSUME NEW p \in Proc, Interrupt(p)
      PROVE  SocketInv'
  BY <1>1, <1>7, EventCalm, ReadyEvent DEF SocketInv
<1>8. ASSUME NEW p \in Proc, NEW q \in Proc, Fork(p, q)
      PROVE  SocketInv'
  <2>1. /\ pc[q] = "none" /\ UNCHANGED call /\ pc'[q] = "user"
        /\ \A r \in Proc \ {q} : pc'[r] = pc[r] /\ sock'[r] = sock[r]
    BY <1>8 DEF Fork, Goto, callVars, TypeOK
  <2>2. ReadyListed'
    BY <1>1, <2>1 DEF ReadyListed
  <2> QED
    BY <1>1, <1>8, <2>2, ForkSocket DEF SocketInv
<1>9. ASSUME NEW c \in Client, ClientConnect(c)
      PROVE  SocketInv'
  BY <1>9, UnmovedSockets DEF ClientConnect, callVars, channelVars, listenerVars
<1>10. CASE UNCHANGED vars
  BY <1>10, UnmovedSockets DEF vars, callVars, channelVars, listenerVars, clientVars
<1> QED
  BY <1>2, <1>3, <1>4, <1>5, <1>6, <1>7, <1>8, <1>9, <1>10
     DEF Step, ProcessStep, Environment

(* The bound sockets that two serving processes have open are one socket.   *)
LEMMA SocketsAgree == SocketInv => OneSocket
<1> SUFFICES ASSUME SocketInv, NEW p \in Proc, NEW q \in Proc, Serves(p), Serves(q)
             PROVE  sock[p].shadowfd = sock[q].shadowfd
  BY DEF OneSocket
<1>1. PICK t \in tcpBound, u \in tcpBound :
          sock[p].shadowfd = Tcp(t) /\ sock[q].shadowfd = Tcp(u)
  BY DEF SocketInv, DescriptorInv, Shadows, ServesBound
<1>2. Open(Tcp(t)) /\ Open(Tcp(u))
  BY <1>1 DEF Open, Alive, Serves, EventPc, AppPc
<1> QED
  BY <1>1, <1>2 DEF SocketInv, DescriptorInv, BoundOnce

(* All processes that run the event loop serve one TCP socket, whether      *)
(* bind() inherits it or binds it (core.c:676-700, core.c:738): for any     *)
(* processes and groups, with crashes, signals and forks.  It needs         *)
(* that dsu_write_fd sends what it is asked to (communication.c:19-20):     *)
(* with a negative len, and if who answers dies, a requester is left with   *)
(* the socket it came with.  Without crashes see OneSocketKept.             *)
THEOREM OneSocketHolds ==
    ASSUME ~JunkLen, ~SemFails, ~(LateFork /\ KeepsLock)
    PROVE  Spec => []OneSocket
<1>1. Init => SocketInv
  BY InitialSockets
<1>2. TypeOK /\ SocketInv /\ [Step]_vars => SocketInv'
  BY SocketsPreserved
<1>3. Spec => []TypeOK
  BY TypeCorrect
<1>4. SocketInv => OneSocket
  BY SocketsAgree
<1>5. Spec => Init /\ [][Step]_vars
  BY Uninterrupted
<1> QED
  BY <1>1, <1>2, <1>3, <1>4, <1>5, PTL

(* What the lists of sockets say of the open descriptors (state.c:70-98,    *)
(* core.c:676-738) holds in every state, for any processes and groups and   *)
(* with crashes, signals and forks: OneSocket and OneListener are read off  *)
(* it.                                                                      *)
THEOREM SocketInvHolds ==
    ASSUME ~JunkLen, ~SemFails, ~(LateFork /\ KeepsLock)
    PROVE  Spec => []SocketInv
<1>1. Init => SocketInv
  BY InitialSockets
<1>2. TypeOK /\ SocketInv /\ [Step]_vars => SocketInv'
  BY SocketsPreserved
<1>3. Spec => []TypeOK
  BY TypeCorrect
<1>4. Spec => Init /\ [][Step]_vars
  BY Uninterrupted
<1> QED
  BY <1>1, <1>2, <1>3, <1>4, PTL
=============================================================================
