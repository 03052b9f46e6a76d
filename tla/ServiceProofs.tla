---------------------------- MODULE ServiceProofs ----------------------------
(* Proofs about Handover: once a port is served and can be updated it stays *)
(* so through every update, for any number of versions of one process each. *)
EXTENDS SocketProofs

-----------------------------------------------------------------------------
(* The premises.  Versions are single processes that run to their own end:  *)
(* a crash between its two replies leaves a requester with no listener, and *)
(* a killed group may take one that serves with it.  No sem_wait fails.     *)

Alone == \A p, q \in Proc : Pgid[p] = Pgid[q] => p = q
NoCrashes == MaxCrashes = 0 /\ ~ScanFaults
ServicePremises ==
    Alone /\ NoCrashes /\ ~SemFails /\ ~(LateFork /\ KeepsLock)

-----------------------------------------------------------------------------
(* The inductive invariant.                                                 *)

Listener(fd) == \E l \in listening : fd = Com(l)

(* Whoever may publish a version has the listener that it inherited.  The   *)
(* version of a fresh start is 0, which is never above the published one.   *)
Heirs ==
    \A p \in Proc :
        /\ pc[p] \in {"inherit1", "inherit2", "version"} => Listener(sock[p].comfd)
        /\ pc[p] = "tcpbind" => sock[p].version = 0
        /\ Serves(p) /\ sock[p].monitoring /\ sock[p].version > 0 =>
              Listener(sock[p].comfd)

(* Who has accepted requesters has the listener, or has closed it; who is   *)
(* about to end has none left.                                              *)
Acceptors ==
    /\ \A p \in Proc :
          /\ ~Serves(p) => sock[p].comfds = {}
          /\ pc[p] \in {"exit", "killpg"} =>
                sock[p].comfds = {} /\ ~sock[p].monitoring
          /\ sock[p].comfds # {} => sock[p].comfd = None \/ Listener(sock[p].comfd)
    /\ \A l \in Proc : backlog[l] # <<>> => l \in listening

(* A requester waits while its request is handled, and whoever has read     *)
(* the request keeps the connection.                                        *)
Waiting ==
    \A c \in Proc :
        /\ request[c] = "unread" /\ ~Unserved(c) => pc[c] = "recv1"
        /\ request[c] = "read" /\ Requesting(c) => \E q \in Proc : c \in sock[q].comfds
        /\ \A q \in Proc : peer[q] = c => Requesting(c)

(* The first reply is sent and perhaps read, or was not sent at all.        *)
HalfAnswered(c) ==
    \/ /\ pc[c] = "recv1"
       /\ Len(replies[c]) = 1 \/ (JunkLen /\ Len(replies[c]) = 0)
    \/ pc[c] = "recv2" /\ Len(replies[c]) = 0

(* A requester is sent at most two descriptors, the second a listener, and  *)
(* reads one in each receive.                                               *)
TwoReplies ==
    /\ reset = {}
    /\ \A c \in Proc :
          /\ replies[c] # <<>> => pc[c] \in {"recv1", "recv2"}
          /\ pc[c] = "recv1" => /\ Len(replies[c]) <= 2
                                /\ Len(replies[c]) = 2 => Listener(replies[c][2])
          /\ pc[c] = "recv2" => /\ Len(replies[c]) <= 1
                                /\ Len(replies[c]) = 1 => Listener(replies[c][1])
    /\ \A q, c \in Proc : peer[q] = c /\ pc[q] = "reply2" => HalfAnswered(c)

(* Whoever may publish itself has got the listener from the version before  *)
(* it, by an answer that came while it waited (core.c:88-89,                *)
(* select.c:140-142).                                                       *)
ServiceInv == Heirs /\ Acceptors /\ Waiting /\ TwoReplies

-----------------------------------------------------------------------------
(* Steps that pass no descriptor.                                           *)

QuietMove(p) ==
    \/ /\ pc[p] \in {"bind", "listen", "connect", "send", "sem1", "sem2", "fresh"}
       /\ pc'[p] \in {"listen", "connect", "sem1", "sem2", "fresh", "tcpbind"}
    \/ pc[p] = "tcpbind" /\ pc'[p] = "user"
    \/ /\ pc[p] \in {"inherit1", "inherit2", "version"}
       /\ pc'[p] \in {"inherit2", "version", "user"}
       /\ pc'[p] = "user" => pc[p] = "version"
    \/ Serves(p) /\ Serves(p)' /\ pc'[p] # "reply2"

(* The listener is closed only by a version that quits, a connection only   *)
(* when its requester is gone.                                              *)
QuietSock(p) ==
    /\ sock'[p].shadowfd = sock[p].shadowfd
    /\ \/ sock'[p].comfds = sock[p].comfds
       \/ \E c \in Proc : ~Requesting(c) /\ sock'[p].comfds = sock[p].comfds \ {c}
    /\ \/ /\ Serves(p) /\ Quits(p)
          /\ sock'[p].comfd = None /\ ~sock'[p].monitoring
       \/ /\ sock'[p].comfd = sock[p].comfd
          /\ Serves(p) \/ pc[p] = "tcpbind" =>
                 /\ sock'[p].monitoring = sock[p].monitoring
                 /\ sock'[p].version = sock[p].version
    /\ pc'[p] = "tcpbind" => sock'[p].version = 0
    /\ pc'[p] \in {"exit", "killpg"} => sock'[p].comfds = {} /\ ~sock'[p].monitoring

Quiet(p) ==
    /\ QuietMove(p) /\ QuietSock(p)
    /\ \A q \in Proc \ {p} : pc'[q] = pc[q] /\ sock'[q] = sock[q]
    /\ listening \subseteq listening'
    /\ UNCHANGED <<peer, request, replies, reset, backlog>>

LEMMA QuietService ==
    ASSUME TypeOK, SocketInv, ServiceInv, NEW p \in Proc, Quiet(p)
    PROVE  ServiceInv'
<1> USE DEF ServiceInv, Quiet
<1>1. /\ Serves(p) => Serves(p)'
      /\ Serves(p)' => Serves(p) \/ pc[p] \in {"tcpbind", "version"}
  BY DEF QuietMove, Serves, EventPc, AppPc
<1>2. \A q \in Proc \ {p} : Serves(q)' <=> Serves(q)
  BY DEF Serves
<1>3. sock'[p].comfds \subseteq sock[p].comfds
  BY DEF QuietSock
<1>4. \A c \in Proc : /\ Requesting(c)' => Requesting(c) /\ pc'[c] = pc[c]
                      /\ Requesting(c) /\ ~Requesting(c)' => pc[c] = "send"
                      /\ pc[c] \in {"recv1", "recv2"} => pc'[c] = pc[c]
                      /\ pc'[c] \in {"recv1", "recv2"} => pc[c] = pc'[c]
  BY DEF QuietMove, Requesting, Serves, EventPc, AppPc
<1>5. Heirs'
  <2>1. ASSUME NEW q \in Proc \ {p}
        PROVE  /\ pc'[q] \in {"inherit1", "inherit2", "version"} => Listener(sock[q].comfd)'
               /\ pc'[q] = "tcpbind" => sock'[q].version = 0
               /\ Serves(q)' /\ sock'[q].monitoring /\ sock'[q].version > 0 =>
                     Listener(sock[q].comfd)'
    BY <1>2 DEF Heirs, Listener
  <2>2. pc'[p] \in {"inherit1", "inherit2", "version"} => Listener(sock[p].comfd)'
    BY DEF QuietMove, QuietSock, Heirs, Listener, Serves, EventPc, AppPc
  <2>3. pc'[p] = "tcpbind" => sock'[p].version = 0
    BY DEF QuietSock
  <2>4. Serves(p)' /\ sock'[p].monitoring /\ sock'[p].version > 0 => Listener(sock[p].comfd)'
    <3> SUFFICES ASSUME Serves(p)', sock'[p].monitoring, sock'[p].version > 0
                 PROVE  Listener(sock[p].comfd)'
      OBVIOUS
    <3>1. sock'[p].comfd = sock[p].comfd
      BY DEF QuietSock
    <3>2. CASE Serves(p)
      <4>1. sock[p].monitoring /\ sock[p].version > 0
        BY <3>2 DEF QuietSock
      <4> QED
        BY <3>1, <3>2, <4>1 DEF Heirs, Listener
    <3>3. CASE pc[p] = "tcpbind"
      BY <3>3 DEF QuietSock, Heirs
    <3>4. CASE pc[p] = "version"
      BY <3>1, <3>4 DEF Heirs, Listener
    <3> QED
      BY <1>1, <3>2, <3>3, <3>4
  <2> QED
    BY <2>1, <2>2, <2>3, <2>4 DEF Heirs
<1>6. Acceptors'
  <2>1. ASSUME NEW q \in Proc \ {p}
        PROVE  /\ ~Serves(q)' => sock'[q].comfds = {}
               /\ pc'[q] \in {"exit", "killpg"} =>
                     sock'[q].comfds = {} /\ ~sock'[q].monitoring
               /\ sock'[q].comfds # {} => sock'[q].comfd = None \/ Listener(sock[q].comfd)'
    BY <1>2 DEF Acceptors, Listener
  <2>2. ~Serves(p)' => sock'[p].comfds = {}
    BY <1>1, <1>3 DEF Acceptors
  <2>3. pc'[p] \in {"exit", "killpg"} => sock'[p].comfds = {} /\ ~sock'[p].monitoring
    BY DEF QuietSock
  <2>4. sock'[p].comfds # {} => sock'[p].comfd = None \/ Listener(sock[p].comfd)'
    BY <1>3 DEF QuietSock, Acceptors, Listener
  <2> QED
    BY <2>1, <2>2, <2>3, <2>4 DEF Acceptors
<1>7. Waiting'
  <2>1. ASSUME NEW c \in Proc, ~Unserved(c)' PROVE ~Unserved(c)
    <3>1. \A l \in Proc : Open(Com(l))' => Open(Com(l))
      <4>1. Alive(p)' => Alive(p)
        BY DEF QuietMove, Alive, Serves, EventPc, AppPc
      <4>2. sock'[p].comfd \in {sock[p].comfd, None}
        BY DEF QuietSock
      <4>3. \A q \in Proc \ {p} : Alive(q)' <=> Alive(q)
        BY DEF Alive
      <4>4. \A l \in Proc : Com(l) # None
        BY NoneAssumption DEF Com, Fd
      <4>5. sock'[p].shadowfd = sock[p].shadowfd
        BY DEF QuietSock
      <4> QED
        BY <4>1, <4>2, <4>3, <4>4, <4>5 DEF Open
    <3> QED
      BY <1>3, <2>1, <3>1 DEF Unserved
  <2>2. \A c \in Proc : Requesting(c) =>
            ((\E q \in Proc : c \in sock[q].comfds) => (\E q \in Proc : c \in sock'[q].comfds))
    BY DEF QuietSock
  <2>3. \A q, c \in Proc : peer[q] = c => pc[c] # "send"
    BY DEF SocketInv, DescriptorInv, Answerers, Unstarted
  <2>4. \A c \in Proc : /\ request'[c] = "unread" /\ ~Unserved(c)' => pc'[c] = "recv1"
                        /\ request'[c] = "read" /\ Requesting(c)' =>
                              \E q \in Proc : c \in sock'[q].comfds
    BY <1>4, <2>1, <2>2 DEF Waiting
  <2>5. \A q, c \in Proc : peer'[q] = c => Requesting(c)'
    BY <1>4, <2>3 DEF Waiting
  <2> QED
    BY <2>4, <2>5 DEF Waiting
<1>8. TwoReplies'
  <2>1. \A q \in Proc : pc'[q] = "reply2" => pc[q] = "reply2"
    BY DEF QuietMove
  <2>2. \A c \in Proc :
          /\ replies'[c] # <<>> => pc'[c] \in {"recv1", "recv2"}
          /\ pc'[c] = "recv1" => /\ Len(replies'[c]) <= 2
                                 /\ Len(replies'[c]) = 2 => Listener(replies[c][2])'
          /\ pc'[c] = "recv2" => /\ Len(replies'[c]) <= 1
                                 /\ Len(replies'[c]) = 1 => Listener(replies[c][1])'
    BY <1>4 DEF TwoReplies, Listener
  <2>3. \A q, c \in Proc : peer'[q] = c /\ pc'[q] = "reply2" => HalfAnswered(c)'
    BY <1>4, <2>1 DEF TwoReplies, HalfAnswered
  <2> QED
    BY <2>2, <2>3 DEF TwoReplies, HalfAnswered
<1> QED
  BY <1>5, <1>6, <1>7, <1>8

(* A process ends that nobody waits for.                                    *)
LEMMA DeathService ==
    ASSUME TypeOK, SocketInv, ServiceInv, NEW p \in Proc, Die({p}),
           pc[p] \in {"send", "tcpbind", "exit", "killpg"},
           UNCHANGED <<listening, backlog>>
    PROVE  ServiceInv'
<1> USE DEF ServiceInv
<1>1. /\ pc'[p] = "dead" /\ sock'[p] = NoSock /\ peer'[p] = None
      /\ \A q \in Proc \ {p} : /\ pc'[q] = pc[q] /\ sock'[q] = sock[q] /\ peer'[q] = peer[q]
      /\ UNCHANGED request
  BY DEF Die
<1>2. replies[p] = <<>> /\ sock[p].comfds = {}
  BY DEF TwoReplies, Acceptors, Serves, EventPc, AppPc
<1>3. \A q \in Proc : replies'[q] = replies[q]
  BY <1>2 DEF Die
<1>4. reset' = {}
  BY <1>2 DEF Die, TwoReplies
<1>5. \A q \in Proc : peer[q] # p
  <2>1. pc[p] # "send" => ~Requesting(p)
    BY DEF Requesting
  <2>2. pc[p] = "send" => \A q \in Proc : peer[q] # p
    BY DEF SocketInv, DescriptorInv, Answerers, Unstarted
  <2> QED
    BY <2>1, <2>2 DEF Waiting
<1>6. \A c \in Proc \ {p} : Requesting(c)' <=> Requesting(c)
  BY <1>1 DEF Requesting
<1>7. \A q \in Proc \ {p} : Serves(q)' <=> Serves(q)
  BY <1>1 DEF Serves
<1>8. NoSock.comfds = {} /\ NoSock.comfd = None /\ NoSock.shadowfd = None
  BY DEF NoSock
<1>9. Heirs'
  BY <1>1, <1>7 DEF Heirs, Listener, Serves, EventPc, AppPc
<1>10. Acceptors'
  BY <1>1, <1>7, <1>8 DEF Acceptors, Listener
<1>11. Waiting'
  <2>1. \A c \in Proc : ~Unserved(c)' => ~Unserved(c)
    <3>1. \A l \in Proc : Open(Com(l))' => Open(Com(l))
      BY <1>1, <1>3 DEF Open, Alive
    <3> QED
      BY <1>1, <1>8, <3>1 DEF Unserved
  <2>2. pc[p] = "send" => request[p] = "none"
    BY DEF SocketInv, DescriptorInv, Unstarted
  <2>3. ~Requesting(p)'
    BY <1>1 DEF Requesting
  <2>4. \A c \in Proc : /\ request'[c] = "unread" /\ ~Unserved(c)' => pc'[c] = "recv1"
                        /\ request'[c] = "read" /\ Requesting(c)' =>
                              \E q \in Proc : c \in sock'[q].comfds
    <3>1. \A c \in Proc : (\E q \in Proc : c \in sock[q].comfds) =>
                          \E q \in Proc : c \in sock'[q].comfds
      BY <1>1, <1>2
    <3> QED
      BY <1>1, <1>6, <2>1, <2>2, <2>3, <3>1 DEF Waiting
  <2>5. \A q, c \in Proc : peer'[q] = c => Requesting(c)'
    BY <1>1, <1>5, <1>6, NoneAssumption DEF Waiting
  <2> QED
    BY <2>4, <2>5 DEF Waiting
<1>12. TwoReplies'
  <2>1. \A c \in Proc : pc'[c] \in {"recv1", "recv2"} => pc[c] = pc'[c]
    BY <1>1
  <2>2. \A c \in Proc : pc[c] \in {"recv1", "recv2"} => pc[c] = pc'[c]
    BY <1>1
  <2>3. \A q, c \in Proc : peer'[q] = c => peer[q] = c /\ pc'[q] = pc[q]
    BY <1>1, NoneAssumption
  <2>4. \A c \in Proc :
          /\ replies'[c] # <<>> => pc'[c] \in {"recv1", "recv2"}
          /\ pc'[c] = "recv1" => /\ Len(replies'[c]) <= 2
                                 /\ Len(replies'[c]) = 2 => Listener(replies[c][2])'
          /\ pc'[c] = "recv2" => /\ Len(replies'[c]) <= 1
                                 /\ Len(replies'[c]) = 1 => Listener(replies[c][1])'
    BY <1>3, <2>1, <2>2 DEF TwoReplies, Listener
  <2>5. \A q, c \in Proc : peer'[q] = c /\ pc'[q] = "reply2" => HalfAnswered(c)'
    BY <1>3, <2>2, <2>3 DEF TwoReplies, HalfAnswered
  <2> QED
    BY <1>4, <2>4, <2>5 DEF TwoReplies, HalfAnswered
<1> QED
  BY <1>9, <1>10, <1>11, <1>12

-----------------------------------------------------------------------------
(* Steps that pass a descriptor or a connection.                            *)

LEMMA StartService ==
    ASSUME TypeOK, SocketInv, ServiceInv, NEW p \in Proc, Start(p)
    PROVE  ServiceInv'
<1> USE DEF ServiceInv
<1>1. /\ pc[p] = "none" /\ pc'[p] = "bind" /\ sock'[p] = NewSock(p)
      /\ \A q \in Proc \ {p} : pc'[q] = pc[q] /\ sock'[q] = sock[q]
      /\ UNCHANGED <<peer, request, replies, reset, backlog, listening>>
  BY DEF Start, Goto, TypeOK, callVars, listenerVars, channelVars
<1>2. NewSock(p).comfds = {} /\ NewSock(p).shadowfd = Tcp(p) /\ NewSock(p).comfd = Com(p)
  BY DEF NewSock, NoSock
<1>3. \A c \in Proc : Requesting(c)' <=> Requesting(c)
  BY <1>1 DEF Requesting
<1>4. \A q \in Proc : Serves(q)' <=> Serves(q)
  BY <1>1 DEF Serves, EventPc, AppPc
<1>5. sock[p].comfds = {}
  BY <1>1 DEF Acceptors, Serves, EventPc, AppPc
<1>6. Heirs'
  BY <1>1, <1>4 DEF Heirs, Listener, Serves, EventPc, AppPc
<1>7. Acceptors'
  BY <1>1, <1>2, <1>4 DEF Acceptors, Listener
<1>8. Waiting'
  <2>1. \A c \in Proc : Unserved(c) => Unserved(c)'
    <3>1. \A l \in Proc \ {p} : Open(Com(l))' => Open(Com(l))
      BY <1>1, <1>2 DEF Open, Alive, Com, Tcp
    <3>2. ToSet(backlog[p]) = {}
      BY <1>1 DEF SocketInv, DescriptorInv, Unstarted, ToSet
    <3> QED
      BY <1>1, <1>2, <3>1, <3>2 DEF Unserved
  <2>2. \A c \in Proc : (\E q \in Proc : c \in sock[q].comfds) =>
                        \E q \in Proc : c \in sock'[q].comfds
    BY <1>1, <1>5
  <2> QED
    BY <1>1, <1>3, <2>1, <2>2 DEF Waiting
<1>9. TwoReplies'
  BY <1>1 DEF TwoReplies, HalfAnswered, Listener
<1> QED
  BY <1>6, <1>7, <1>8, <1>9

LEMMA ConnectService ==
    ASSUME TypeOK, SocketInv, ServiceInv, NEW p \in Proc, pc[p] = "connect",
           NEW l \in listening, backlog' = [backlog EXCEPT ![l] = Append(@, p)],
           Goto(p, "send"),
           UNCHANGED <<sock, peer, request, replies, reset, listening>>
    PROVE  ServiceInv'
<1> USE DEF ServiceInv
<1>1. /\ pc'[p] = "send" /\ \A q \in Proc \ {p} : pc'[q] = pc[q]
      /\ l \in Proc
  BY DEF Goto, TypeOK
<1>2. request[p] = "none" /\ \A q \in Proc : peer[q] # p
  BY DEF SocketInv, DescriptorInv, Unstarted, Answerers
<1>3. \A c \in Proc \ {p} : Requesting(c)' <=> Requesting(c)
  BY <1>1 DEF Requesting
<1>4. \A q \in Proc : Serves(q)' <=> Serves(q)
  BY <1>1 DEF Serves, EventPc, AppPc
<1>5. \A k \in Proc : /\ ToSet(backlog'[k]) \subseteq ToSet(backlog[k]) \cup {p}
                      /\ k # l => backlog'[k] = backlog[k]
  BY <1>1, QueueSets DEF TypeOK
<1>6. Heirs'
  BY <1>1, <1>4 DEF Heirs, Listener
<1>7. Acceptors'
  BY <1>1, <1>4, <1>5 DEF Acceptors, Listener
<1>8. Waiting'
  <2>1. \A fd : Open(fd)' <=> Open(fd)
    BY <1>1 DEF Open, Alive
  <2>2. \A c \in Proc \ {p} : Unserved(c) => Unserved(c)'
    BY <1>5, <2>1 DEF Unserved
  <2> QED
    BY <1>1, <1>2, <1>3, <2>2 DEF Waiting
<1>9. TwoReplies'
  BY <1>1 DEF TwoReplies, HalfAnswered, Listener
<1> QED
  BY <1>6, <1>7, <1>8, <1>9

LEMMA SendService ==
    ASSUME TypeOK, SocketInv, ServiceInv, NEW p \in Proc, pc[p] = "send",
           request' = [request EXCEPT ![p] = "unread"], Goto(p, "recv1"),
           UNCHANGED <<sock, peer, replies, reset, backlog, listening>>
    PROVE  ServiceInv'
<1> USE DEF ServiceInv
<1>1. /\ pc'[p] = "recv1" /\ request'[p] = "unread"
      /\ \A q \in Proc \ {p} : pc'[q] = pc[q] /\ request'[q] = request[q]
  BY DEF Goto, TypeOK
<1>2. \A c \in Proc : Requesting(c)' <=> Requesting(c)
  BY <1>1 DEF Requesting
<1>3. \A q \in Proc : Serves(q)' <=> Serves(q)
  BY <1>1 DEF Serves, EventPc, AppPc
<1>4. replies[p] = <<>> /\ Len(replies[p]) = 0
  BY DEF TwoReplies
<1>5. \A q \in Proc : peer[q] # p
  BY DEF SocketInv, DescriptorInv, Unstarted, Answerers
<1>6. Heirs'
  BY <1>1, <1>3 DEF Heirs, Listener
<1>7. Acceptors'
  BY <1>1, <1>3 DEF Acceptors, Listener
<1>8. Waiting'
  <2>1. \A fd : Open(fd)' <=> Open(fd)
    BY <1>1 DEF Open, Alive
  <2>2. \A c \in Proc : Unserved(c) <=> Unserved(c)'
    BY <2>1 DEF Unserved
  <2> QED
    BY <1>1, <1>2, <2>2 DEF Waiting
<1>9. TwoReplies'
  BY <1>1, <1>4, <1>5 DEF TwoReplies, HalfAnswered, Listener
<1> QED
  BY <1>6, <1>7, <1>8, <1>9

(* The first receive.                                                       *)
LEMMA ReadShadowService ==
    ASSUME TypeOK, SocketInv, ServiceInv, NEW p \in Proc, ReadShadow(p)
    PROVE  ServiceInv'
<1> USE DEF ServiceInv
<1>1. /\ pc[p] = "recv1" /\ pc'[p] = "recv2"
      /\ \A q \in Proc \ {p} : pc'[q] = pc[q]
      /\ UNCHANGED <<peer, request, reset, backlog, listening>>
  BY DEF ReadShadow, Goto, TypeOK, listenerVars
<1>2. replies \in [Proc -> Seq(Fd)] /\ sock \in [Proc -> SockType]
  BY DEF TypeOK
<1>3. \A q \in Proc : /\ sock'[q].comfd = sock[q].comfd /\ sock'[q].comfds = sock[q].comfds
                      /\ sock'[q].monitoring = sock[q].monitoring
                      /\ sock'[q].version = sock[q].version
                      /\ q # p => sock'[q] = sock[q] /\ replies'[q] = replies[q]
  BY <1>2 DEF ReadShadow, SockType
<1>4. \/ /\ replies[p] # <<>> /\ replies'[p] = Tail(replies[p])
         /\ sock'[p].shadowfd = Head(replies[p])
      \/ replies[p] = <<>> /\ Unserved(p) /\ UNCHANGED <<sock, replies>>
  BY <1>2 DEF ReadShadow, ReceivedShadow, SockType
<1>5. \A c \in Proc : Requesting(c)' <=> Requesting(c)
  BY <1>1 DEF Requesting
<1>6. \A q \in Proc : Serves(q)' <=> Serves(q)
  BY <1>1 DEF Serves, EventPc, AppPc
<1>7. replies[p] # <<>> =>
          /\ Head(replies[p]) \in ToSet(replies[p])
          /\ ToSet(Tail(replies[p])) \subseteq ToSet(replies[p])
          /\ Len(Tail(replies[p])) = Len(replies[p]) - 1 /\ Len(replies[p]) > 0
          /\ Len(replies[p]) = 2 => Tail(replies[p])[1] = replies[p][2]
  <2>1. ASSUME NEW s \in Seq(Fd), s # <<>>
        PROVE  /\ Head(s) \in ToSet(s) /\ ToSet(Tail(s)) \subseteq ToSet(s)
               /\ Len(Tail(s)) = Len(s) - 1 /\ Len(s) > 0
               /\ Len(s) = 2 => Tail(s)[1] = s[2]
    BY <2>1 DEF ToSet
  <2> QED
    BY <1>2, <2>1
<1>8. Heirs'
  BY <1>1, <1>3, <1>6 DEF Heirs, Listener
<1>9. Acceptors'
  BY <1>1, <1>3, <1>6 DEF Acceptors, Listener
<1>10. Waiting'
  <2>1. \A fd : Open(fd)' => Open(fd)
    BY <1>1, <1>3, <1>4, <1>7 DEF Open, Alive
  <2>2. \A c \in Proc : Unserved(c) => Unserved(c)'
    BY <1>1, <1>3, <2>1 DEF Unserved
  <2>3. replies[p] # <<>> => request[p] = "read"
    BY DEF SocketInv, DescriptorInv, Repliers
  <2>4. request[p] = "unread" => Unserved(p)'
    BY <1>4, <2>2, <2>3
  <2> QED
    BY <1>1, <1>3, <1>5, <2>2, <2>4 DEF Waiting
<1>11. TwoReplies'
  <2>1. ASSUME NEW c \in Proc
        PROVE  /\ replies'[c] # <<>> => pc'[c] \in {"recv1", "recv2"}
               /\ pc'[c] = "recv1" => /\ Len(replies'[c]) <= 2
                                      /\ Len(replies'[c]) = 2 => Listener(replies[c][2])'
               /\ pc'[c] = "recv2" => /\ Len(replies'[c]) <= 1
                                      /\ Len(replies'[c]) = 1 => Listener(replies[c][1])'
    <3>1. CASE c # p
      BY <1>1, <1>3, <3>1 DEF TwoReplies, Listener
    <3>2. CASE c = p /\ replies[p] = <<>>
      BY <1>1, <1>4, <3>2 DEF TwoReplies, Listener
    <3>3. CASE c = p /\ replies[p] # <<>>
      <4>1. Len(replies[p]) \in Nat /\ Len(replies[p]) <= 2
        BY <1>1, <1>2 DEF TwoReplies
      <4>2. replies'[p] = Tail(replies[p]) /\ Len(replies'[p]) = Len(replies[p]) - 1
        BY <1>4, <1>7, <3>3
      <4>3. Len(replies'[p]) <= 1
        BY <4>1, <4>2
      <4>4. Len(replies'[p]) = 1 => Len(replies[p]) = 2
        BY <4>1, <4>2
      <4>5. Len(replies[p]) = 2 => Listener(replies[p][2]) /\ replies'[p][1] = replies[p][2]
        BY <1>1, <1>7, <3>3, <4>2 DEF TwoReplies
      <4>6. Len(replies'[p]) = 1 => Listener(replies[p][1])'
        BY <1>1, <4>4, <4>5 DEF Listener
      <4> QED
        BY <1>1, <3>3, <4>3, <4>6
    <3> QED
      BY <3>1, <3>2, <3>3
  <2>2. ASSUME NEW q \in Proc, NEW c \in Proc, peer'[q] = c, pc'[q] = "reply2"
        PROVE  HalfAnswered(c)'
    <3>1. pc[q] = "reply2" /\ peer[q] = c /\ HalfAnswered(c)
      BY <1>1, <2>2 DEF TwoReplies
    <3>2. CASE c # p
      BY <1>1, <1>3, <3>1, <3>2 DEF HalfAnswered
    <3>3. CASE c = p
      <4>1. ~Unserved(p)
        <5>1. Requesting(p)
          BY <1>1 DEF Requesting
        <5>2. p \in sock[q].comfds /\ q \in Proc
          BY <3>1, <3>3, <5>1, <2>2 DEF SocketInv, DescriptorInv, Answerers
        <5> QED
          BY <5>2 DEF Unserved
      <4>2. replies[p] # <<>> /\ Len(replies[p]) = 1
        BY <1>1, <1>4, <1>7, <3>1, <3>3, <4>1 DEF HalfAnswered
      <4>3. Len(replies'[p]) = Len(replies[p]) - 1
        BY <1>4, <1>7, <4>2
      <4>4. Len(replies'[p]) = 0
        BY <4>2, <4>3
      <4> QED
        BY <1>1, <3>3, <4>4 DEF HalfAnswered
    <3> QED
      BY <3>2, <3>3
  <2> QED
    BY <1>1, <2>1, <2>2 DEF TwoReplies
<1> QED
  BY <1>8, <1>9, <1>10, <1>11

LEMMA LastMessage ==
    ASSUME NEW S, NEW s \in Seq(S), s # <<>>, Len(s) <= 1
    PROVE  /\ Head(s) = s[1] /\ Head(s) \in ToSet(s)
           /\ Len(s) = 1 /\ Tail(s) = <<>>
<1>1. Len(s) \in Nat \ {0}
  BY EmptySeq
<1>2. Len(s) = 1
  BY <1>1
<1>3. Head(s) = s[1] /\ Head(s) \in ToSet(s)
  BY <1>2 DEF ToSet
<1>4. Tail(s) \in Seq(S) /\ Len(Tail(s)) = 0
  BY <1>2
<1>5. Tail(s) # <<>> => Len(Tail(s)) \in Nat \ {0}
  BY <1>4, EmptySeq
<1> QED
  BY <1>2, <1>3, <1>4, <1>5

(* The second receive, of a listener.                                       *)
LEMMA ReadComfdService ==
    ASSUME TypeOK, SocketInv, ServiceInv, NEW p \in Proc, ReadComfd(p)
    PROVE  ServiceInv'
<1> USE DEF ServiceInv
<1>1. /\ pc[p] = "recv2"
      /\ UNCHANGED <<peer, request, reset, backlog, listening>>
  BY DEF ReadComfd, listenerVars
<1>2. /\ replies \in [Proc -> Seq(Fd)] /\ sock \in [Proc -> SockType] /\ pc \in [Proc -> PcType]
  BY DEF TypeOK
<1>3. /\ \A q \in Proc : /\ sock'[q].comfds = sock[q].comfds
                         /\ sock'[q].shadowfd = sock[q].shadowfd
      /\ \A q \in Proc \ {p} : /\ sock'[q] = sock[q] /\ replies'[q] = replies[q]
                               /\ pc'[q] = pc[q]
  <2>1. ASSUME NEW fd, sock' = [sock EXCEPT ![p].comfd = fd]
        PROVE  /\ \A q \in Proc : /\ sock'[q].comfds = sock[q].comfds
                                  /\ sock'[q].shadowfd = sock[q].shadowfd
               /\ \A q \in Proc \ {p} : sock'[q] = sock[q]
    BY <1>2, <2>1 DEF SockType
  <2>2. \E fd : sock' = [sock EXCEPT ![p].comfd = fd]
    BY DEF ReadComfd
  <2>3. \A q \in Proc \ {p} : replies'[q] = replies[q] /\ pc'[q] = pc[q]
    BY <1>2 DEF ReadComfd, Goto
  <2> QED
    BY <2>1, <2>2, <2>3
<1>4. \/ /\ replies[p] # <<>> /\ replies'[p] = Tail(replies[p])
         /\ sock'[p].comfd = Head(replies[p]) /\ pc'[p] = "inherit1"
      \/ /\ replies[p] = <<>> /\ Unserved(p) /\ replies'[p] = <<>>
         /\ sock'[p].comfd = None
         /\ pc'[p] = IF reg[p] > 0 THEN "inherit1" ELSE "sem1"
  <2>1. ASSUME NEW fd, sock' = [sock EXCEPT ![p].comfd = fd]
        PROVE  sock'[p].comfd = fd
    BY <1>2, <2>1 DEF SockType
  <2>2. CASE /\ replies[p] # <<>> /\ Goto(p, "inherit1")
             /\ sock' = [sock EXCEPT ![p].comfd = ReceivedComfd(p)]
             /\ replies' = [replies EXCEPT ![p] = Tail(@)]
    BY <1>2, <2>1, <2>2 DEF ReceivedComfd, Goto
  <2>3. CASE /\ replies[p] = <<>> /\ Unserved(p)
             /\ sock' = [sock EXCEPT ![p].comfd = None]
             /\ Goto(p, IF reg[p] > 0 THEN "inherit1" ELSE "sem1")
             /\ UNCHANGED replies
    BY <1>2, <2>1, <2>3 DEF Goto
  <2> QED
    BY <2>2, <2>3 DEF ReadComfd
<1>5. Len(replies[p]) \in Nat /\ Len(replies[p]) <= 1
  BY <1>1, <1>2 DEF TwoReplies
<1>6. replies[p] # <<>> =>
          /\ Head(replies[p]) = replies[p][1] /\ Head(replies[p]) \in ToSet(replies[p])
          /\ Len(replies[p]) = 1 /\ Tail(replies[p]) = <<>>
  BY <1>2, <1>5, LastMessage
<1>7. replies'[p] = <<>>
  BY <1>4, <1>6
<1>8. \A q \in Proc : peer[q] # p
  <2> SUFFICES ASSUME NEW q \in Proc, peer[q] = p PROVE FALSE
    OBVIOUS
  <2>1. Requesting(p) /\ p \in sock[q].comfds /\ pc[q] \in AnsweringPc
    BY <1>1, NoneAssumption DEF Requesting, SocketInv, DescriptorInv, Answerers
  <2>2. ~Unserved(p)
    BY <2>1 DEF Unserved
  <2>3. pc[q] = "reply2"
    BY <1>1, <2>1 DEF AnsweringPc, SocketInv, DescriptorInv, Repliers
  <2>4. Len(replies[p]) = 0
    BY <1>1, <2>3 DEF TwoReplies, HalfAnswered
  <2> QED
    BY <1>4, <1>6, <2>2, <2>4
<1>9. pc'[p] = "inherit1" => Listener(sock[p].comfd)'
  <2>1. CASE replies[p] # <<>>
    BY <1>1, <1>4, <1>6, <2>1 DEF TwoReplies, Listener
  <2>2. CASE replies[p] = <<>>
    <3>1. Unserved(p)
      BY <1>4, <2>2
    <3>2. reg[p] > 0 => request[p] = "read"
      BY <1>1 DEF SocketInv, DescriptorInv, Shadows
    <3>3. ~(reg[p] > 0)
      BY <1>1, <3>1, <3>2 DEF Waiting, Unserved, Requesting
    <3> QED
      BY <1>4, <2>2, <3>3
  <2> QED
    BY <2>1, <2>2
<1>10. pc'[p] \in {"inherit1", "sem1"}
  BY <1>4
<1>11. /\ ~Serves(p) /\ ~Serves(p)'
       /\ \A q \in Proc \ {p} : Serves(q)' <=> Serves(q)
  BY <1>1, <1>3, <1>10 DEF Serves, EventPc, AppPc
<1>12. Heirs'
  BY <1>1, <1>3, <1>9, <1>10, <1>11 DEF Heirs, Listener
<1>13. Acceptors'
  <2>1. sock'[p].comfds = {}
    BY <1>3, <1>11 DEF Acceptors
  <2> QED
    BY <1>1, <1>3, <1>10, <1>11, <2>1 DEF Acceptors, Listener
<1>14. Waiting'
  <2>1. \A fd : fd # None /\ Open(fd)' => Open(fd)
    <3>1. \A q \in Proc : Alive(q)' <=> Alive(q)
      BY <1>1, <1>3, <1>10 DEF Alive
    <3>2. \A q \in Proc : ToSet(replies'[q]) \subseteq ToSet(replies[q])
      BY <1>3, <1>7 DEF ToSet
    <3>3. sock'[p].comfd = None \/ sock'[p].comfd \in ToSet(replies[p])
      BY <1>4, <1>6
    <3> QED
      BY <1>3, <3>1, <3>2, <3>3 DEF Open
  <2>2. \A l \in Proc : Com(l) # None
    BY NoneAssumption DEF Com, Fd
  <2>3. \A c \in Proc : Unserved(c) => Unserved(c)'
    BY <1>1, <1>3, <2>1, <2>2 DEF Unserved
  <2>4. request[p] = "unread" => Unserved(p)
    BY <1>1 DEF Waiting
  <2>5. \A c \in Proc \ {p} : Requesting(c)' <=> Requesting(c)
    BY <1>3 DEF Requesting
  <2>6. ~Requesting(p)'
    BY <1>10 DEF Requesting
  <2> QED
    BY <1>1, <1>3, <1>8, <2>3, <2>4, <2>5, <2>6 DEF Waiting
<1>15. TwoReplies'
  BY <1>1, <1>3, <1>7, <1>8, <1>10 DEF TwoReplies, HalfAnswered, Listener
<1> QED
  BY <1>12, <1>13, <1>14, <1>15

(* An internal connection is accepted from the listener.                    *)
LEMMA AcceptService ==
    ASSUME TypeOK, SocketInv, ServiceInv, NEW p \in Proc, pc[p] = "handle",
           NEW l \in Proc, sock[p].comfd = Com(l), backlog[l] # <<>>,
           backlog' = [backlog EXCEPT ![l] = Tail(@)],
           sock' = [sock EXCEPT ![p].comfds = @ \cup {Head(backlog[l])}],
           UNCHANGED <<pc, peer, request, replies, reset, listening>>
    PROVE  ServiceInv'
<1> USE DEF ServiceInv
<1>1. /\ \A q \in Proc : /\ sock'[q].shadowfd = sock[q].shadowfd
                         /\ sock'[q].comfd = sock[q].comfd
                         /\ sock'[q].monitoring = sock[q].monitoring
                         /\ sock'[q].version = sock[q].version
      /\ sock'[p].comfds = sock[p].comfds \cup {Head(backlog[l])}
      /\ \A q \in Proc \ {p} : sock'[q].comfds = sock[q].comfds
  <2> DEFINE new == sock[p].comfds \cup {Head(backlog[l])}
  <2>1. sock' = [sock EXCEPT ![p].comfds = new] /\ sock \in [Proc -> SockType]
    BY DEF TypeOK
  <2> HIDE DEF new
  <2>2. /\ sock'[p].comfds = new /\ \A q \in Proc \ {p} : sock'[q] = sock[q]
        /\ sock'[p].shadowfd = sock[p].shadowfd /\ sock'[p].comfd = sock[p].comfd
        /\ sock'[p].monitoring = sock[p].monitoring
        /\ sock'[p].version = sock[p].version
    BY <2>1 DEF SockType
  <2> QED
    BY <2>2 DEF new
<1>2. /\ Head(backlog[l]) \in ToSet(backlog[l])
      /\ \A k \in Proc : ToSet(backlog'[k]) \subseteq ToSet(backlog[k])
      /\ \A k \in Proc : backlog[k] = <<>> => backlog'[k] = <<>>
  BY QueueSets, Popped DEF TypeOK
<1>3. \A fd : Open(fd)' <=> Open(fd)
  BY <1>1 DEF Open, Alive
<1>4. Open(Com(l))
  BY DEF Open, Alive
<1>5. \A q \in Proc : /\ Serves(q)' <=> Serves(q)
                      /\ Requesting(q)' <=> Requesting(q)
  BY DEF Serves, Requesting
<1>6. Heirs'
  BY <1>1, <1>5 DEF Heirs, Listener
<1>7. Acceptors'
  <2>1. Serves(p) /\ pc[p] \notin {"exit", "killpg"}
    BY DEF Serves, EventPc
  <2>2. l \in listening /\ Listener(sock[p].comfd)'
    BY <1>1 DEF Acceptors, Listener
  <2>3. \A q \in Proc \ {p} :
           /\ ~Serves(q)' => sock'[q].comfds = {}
           /\ pc'[q] \in {"exit", "killpg"} =>
                 sock'[q].comfds = {} /\ ~sock'[q].monitoring
           /\ sock'[q].comfds # {} => sock'[q].comfd = None \/ Listener(sock[q].comfd)'
    BY <1>1, <1>5 DEF Acceptors, Listener
  <2>4. \A k \in Proc : backlog'[k] # <<>> => k \in listening'
    BY <1>2 DEF Acceptors
  <2> QED
    BY <1>5, <2>1, <2>2, <2>3, <2>4 DEF Acceptors
<1>8. Waiting'
  <2>1. \A c \in Proc : Unserved(c) => c # Head(backlog[l])
    BY <1>2, <1>4 DEF Unserved
  <2>2. \A c \in Proc : Unserved(c) => Unserved(c)'
    BY <1>1, <1>2, <1>3, <2>1 DEF Unserved
  <2>3. \A c \in Proc : (\E q \in Proc : c \in sock[q].comfds) =>
                        \E q \in Proc : c \in sock'[q].comfds
    BY <1>1
  <2> QED
    BY <1>5, <2>2, <2>3 DEF Waiting
<1>9. TwoReplies'
  BY DEF TwoReplies, HalfAnswered, Listener
<1> QED
  BY <1>6, <1>7, <1>8, <1>9

(* A request is read: its sender waits for the first reply.                 *)
LEMMA RequestService ==
    ASSUME TypeOK, SocketInv, ServiceInv, NEW p \in Proc, NEW c \in Proc,
           HandleRequest(p, c)
    PROVE  ServiceInv'
<1> USE DEF ServiceInv
<1>1. /\ pc[p] = "handle" /\ c \in sock[p].comfds /\ request[c] = "unread"
      /\ UNCHANGED <<sock, replies, reset, backlog, listening>>
  BY DEF HandleRequest, Takes, listenerVars, SocketInv, ReadyListed
<1>2. /\ pc'[p] = "count" /\ \A q \in Proc \ {p} : pc'[q] = pc[q]
      /\ peer'[p] = c /\ \A q \in Proc \ {p} : peer'[q] = peer[q]
      /\ request'[c] = "read" /\ \A d \in Proc \ {c} : request'[d] = request[d]
  BY DEF HandleRequest, Goto, TypeOK
<1>3. pc[c] = "recv1"
  <2>1. ~Unserved(c)
    BY <1>1 DEF Unserved
  <2> QED
    BY <1>1, <2>1 DEF Waiting
<1>4. \A q \in Proc : /\ Serves(q)' <=> Serves(q)
                      /\ Requesting(q)' <=> Requesting(q)
  BY <1>1, <1>2 DEF Serves, Requesting, EventPc, AppPc
<1>5. Heirs'
  BY <1>1, <1>2, <1>4 DEF Heirs, Listener
<1>6. Acceptors'
  BY <1>1, <1>2, <1>4 DEF Acceptors, Listener
<1>7. Waiting'
  <2>1. \A fd : Open(fd)' <=> Open(fd)
    BY <1>1, <1>2 DEF Open, Alive
  <2>2. \A d \in Proc : Unserved(d) => Unserved(d)'
    BY <1>1, <2>1 DEF Unserved
  <2>3. Requesting(c)
    BY <1>3 DEF Requesting
  <2>4. pc'[c] = "recv1"
    BY <1>1, <1>2, <1>3
  <2>5. \A d \in Proc : pc[d] = "recv1" => pc'[d] = "recv1"
    BY <1>1, <1>2
  <2> QED
    BY <1>1, <1>2, <1>4, <2>2, <2>3, <2>5 DEF Waiting
<1>8. TwoReplies'
  BY <1>1, <1>2 DEF TwoReplies, HalfAnswered, Listener
<1> QED
  BY <1>5, <1>6, <1>7, <1>8

(* The first reply: the TCP socket, to a requester that still waits, or     *)
(* nothing.                                                                 *)
LEMMA ReplyShadowService ==
    ASSUME TypeOK, SocketInv, ServiceInv, NEW p \in Proc, ReplyShadow(p)
    PROVE  ServiceInv'
<1> USE DEF ServiceInv
<1>1. pc[p] = "reply1" /\ UNCHANGED <<backlog, listening>>
  BY DEF ReplyShadow, listenerVars
<1>2. PICK c \in Proc : peer[p] = c
  BY <1>1 DEF SocketInv, DescriptorInv, Answerers, AnsweringPc, TypeOK
<1>3. Requesting(c) /\ \A q \in Proc : peer[q] = c => q = p
  BY <1>2 DEF Waiting, SocketInv, DescriptorInv, Answerers
<1>4. replies[c] = <<>> /\ pc[c] = "recv1"
  BY <1>1, <1>2, <1>3 DEF SocketInv, DescriptorInv, Repliers
<1>5. PICK t \in tcpBound : sock[p].shadowfd = Tcp(t)
  BY <1>1 DEF SocketInv, DescriptorInv, Shadows, ServesBound, Serves, EventPc
<1>6. Tcp(t) \in Fd /\ Tcp(t) # None
  BY NoneAssumption DEF TypeOK, Fd, Tcp
<1>7. /\ Goto(p, "reply2") /\ UNCHANGED <<sock, reset, peer, request>>
      /\ \/ replies' = [replies EXCEPT ![c] = Append(@, Tcp(t))]
         \/ JunkLen /\ UNCHANGED replies
  BY <1>2, <1>3, <1>5, <1>6 DEF ReplyShadow, WriteFd, WriteKills
<1>8. /\ pc'[p] = "reply2" /\ \A q \in Proc \ {p} : pc'[q] = pc[q]
      /\ \A d \in Proc \ {c} : replies'[d] = replies[d]
      /\ \/ replies'[c] = Append(replies[c], Tcp(t))
         \/ JunkLen /\ replies'[c] = replies[c]
      /\ replies[c] \in Seq(Fd)
  BY <1>7 DEF Goto, TypeOK
<1>9. /\ ToSet(replies'[c]) \subseteq {Tcp(t)}
      /\ Len(replies'[c]) = 1 \/ (JunkLen /\ Len(replies'[c]) = 0)
  <2>1. ASSUME NEW s \in Seq(Fd), s = <<>>
        PROVE  Len(Append(s, Tcp(t))) = 1 /\ ToSet(Append(s, Tcp(t))) = {Tcp(t)}
    <3>1. Len(s) = 0
      BY <2>1
    <3>2. Len(Append(s, Tcp(t))) = Len(s) + 1
      BY <1>6
    <3>3. ToSet(Append(s, Tcp(t))) = ToSet(s) \cup {Tcp(t)} /\ ToSet(s) = {}
      BY <1>6, <2>1, QueueSets
    <3> QED
      BY <3>1, <3>2, <3>3
  <2>2. ToSet(<<>>) = {} /\ Len(<<>>) = 0
    BY DEF ToSet
  <2>3. CASE replies'[c] = Append(replies[c], Tcp(t))
    BY <1>4, <1>8, <2>1, <2>3
  <2>4. CASE JunkLen /\ replies'[c] = replies[c]
    BY <1>4, <2>2, <2>4
  <2> QED
    BY <1>8, <2>3, <2>4
<1>10. \A q \in Proc : /\ Serves(q)' <=> Serves(q)
                       /\ Requesting(q)' <=> Requesting(q)
  BY <1>1, <1>8 DEF Serves, Requesting, EventPc, AppPc
<1>11. Heirs'
  BY <1>1, <1>7, <1>8, <1>10 DEF Heirs, Listener
<1>12. Acceptors'
  BY <1>1, <1>7, <1>8, <1>10 DEF Acceptors, Listener
<1>13. Waiting'
  <2>1. \A l \in Proc : Open(Com(l))' => Open(Com(l))
    <3>1. \A l \in Proc : Com(l) # Tcp(t)
      BY DEF Com, Tcp
    <3>2. \A q \in Proc : Alive(q)' <=> Alive(q)
      BY <1>1, <1>8 DEF Alive
    <3>3. \A l, d \in Proc : Com(l) \in ToSet(replies'[d]) => Com(l) \in ToSet(replies[d])
      BY <1>8, <1>9, <3>1
    <3> QED
      BY <1>7, <3>2, <3>3 DEF Open
  <2>2. \A d \in Proc : Unserved(d) => Unserved(d)'
    BY <1>1, <1>7, <2>1 DEF Unserved
  <2>3. \A d \in Proc : pc[d] = "recv1" => pc'[d] = "recv1"
    BY <1>1, <1>8
  <2> QED
    BY <1>7, <1>10, <2>2, <2>3 DEF Waiting
<1>14. TwoReplies'
  <2>1. c # p /\ pc'[c] = "recv1"
    BY <1>1, <1>4, <1>8
  <2>2. \A d \in Proc :
          /\ replies'[d] # <<>> => pc'[d] \in {"recv1", "recv2"}
          /\ pc'[d] = "recv1" => /\ Len(replies'[d]) <= 2
                                 /\ Len(replies'[d]) = 2 => Listener(replies[d][2])'
          /\ pc'[d] = "recv2" => /\ Len(replies'[d]) <= 1
                                 /\ Len(replies'[d]) = 1 => Listener(replies[d][1])'
    BY <1>1, <1>8, <1>9, <2>1 DEF TwoReplies, Listener
  <2>3. \A q, d \in Proc : peer'[q] = d /\ pc'[q] = "reply2" => HalfAnswered(d)'
    <3> SUFFICES ASSUME NEW q \in Proc, NEW d \in Proc, peer'[q] = d, pc'[q] = "reply2"
                 PROVE  HalfAnswered(d)'
      OBVIOUS
    <3>1. CASE q = p
      BY <1>2, <1>7, <1>9, <2>1, <3>1 DEF HalfAnswered
    <3>2. CASE q # p
      <4>1. d # c /\ pc[q] = "reply2" /\ peer[q] = d
        BY <1>3, <1>7, <1>8, <3>2
      <4>2. HalfAnswered(d) /\ d # p
        BY <1>1, <4>1 DEF TwoReplies, HalfAnswered
      <4> QED
        BY <1>8, <4>1, <4>2 DEF HalfAnswered
    <3> QED
      BY <3>1, <3>2
  <2> QED
    BY <1>7, <2>2, <2>3 DEF TwoReplies
<1> QED
  BY <1>11, <1>12, <1>13, <1>14

(* The second reply: the listener, unless it is closed.                     *)
LEMMA ReplyComfdService ==
    ASSUME TypeOK, SocketInv, ServiceInv, NEW p \in Proc, ReplyComfd(p)
    PROVE  ServiceInv'
<1> USE DEF ServiceInv
<1>1. pc[p] = "reply2" /\ UNCHANGED <<backlog, listening>>
  BY DEF ReplyComfd, listenerVars
<1>2. PICK c \in Proc : peer[p] = c
  BY <1>1 DEF SocketInv, DescriptorInv, Answerers, AnsweringPc, TypeOK
<1>3. Requesting(c) /\ c \in sock[p].comfds /\ \A q \in Proc : peer[q] = c => q = p
  BY <1>2 DEF Waiting, SocketInv, DescriptorInv, Answerers
<1>4. HalfAnswered(c)
  BY <1>1, <1>2 DEF TwoReplies
<1>5. sock[p].comfd = None \/ Listener(sock[p].comfd)
  BY <1>3 DEF Acceptors
<1>6. /\ Goto(p, "handle") /\ peer' = [peer EXCEPT ![p] = None]
      /\ UNCHANGED <<sock, reset, request>>
      /\ \/ /\ sock[p].comfd # None
            /\ replies' = [replies EXCEPT ![c] = Append(@, sock[p].comfd)]
         \/ UNCHANGED replies
  BY <1>2, <1>3 DEF ReplyComfd, WriteFd, WriteKills
<1>7. /\ pc'[p] = "handle" /\ \A q \in Proc \ {p} : pc'[q] = pc[q]
      /\ peer'[p] = None /\ \A q \in Proc \ {p} : peer'[q] = peer[q]
      /\ \A d \in Proc \ {c} : replies'[d] = replies[d]
  BY <1>6 DEF Goto, TypeOK
<1>8. \/ replies'[c] = replies[c]
      \/ /\ Listener(sock[p].comfd)
         /\ ToSet(replies'[c]) = ToSet(replies[c]) \cup {sock[p].comfd}
         /\ Len(replies'[c]) = Len(replies[c]) + 1
         /\ replies'[c][Len(replies[c]) + 1] = sock[p].comfd
  <2>1. ASSUME NEW s \in Seq(Fd), NEW fd \in Fd
        PROVE  /\ ToSet(Append(s, fd)) = ToSet(s) \cup {fd}
               /\ Len(Append(s, fd)) = Len(s) + 1
               /\ Append(s, fd)[Len(s) + 1] = fd
    BY QueueSets
  <2>2. replies \in [Proc -> Seq(Fd)] /\ sock[p].comfd \in Fd \cup {None}
    BY DEF TypeOK, SockType
  <2>3. CASE UNCHANGED replies
    BY <2>3
  <2>4. CASE /\ sock[p].comfd # None
             /\ replies' = [replies EXCEPT ![c] = Append(@, sock[p].comfd)]
    <3>1. replies'[c] = Append(replies[c], sock[p].comfd)
      BY <2>2, <2>4
    <3> QED
      BY <1>5, <2>1, <2>2, <2>4, <3>1
  <2> QED
    BY <1>6, <2>3, <2>4
<1>9. \A q \in Proc : /\ Serves(q)' <=> Serves(q)
                      /\ Requesting(q)' <=> Requesting(q)
  BY <1>1, <1>7 DEF Serves, Requesting, EventPc, AppPc
<1>10. \A d \in Proc : /\ pc'[d] \in {"recv1", "recv2"} => pc'[d] = pc[d]
                       /\ pc[d] \in {"recv1", "recv2"} => pc'[d] = pc[d]
  BY <1>1, <1>7
<1>11. Heirs'
  BY <1>1, <1>6, <1>7, <1>9 DEF Heirs, Listener
<1>12. Acceptors'
  BY <1>1, <1>6, <1>7, <1>9 DEF Acceptors, Listener
<1>13. Waiting'
  <2>1. \A fd : Open(fd)' => Open(fd)
    <3>1. \A q \in Proc : Alive(q)' <=> Alive(q)
      BY <1>1, <1>7 DEF Alive
    <3>2. Alive(p)
      BY <1>1 DEF Alive
    <3>3. \A d \in Proc : ToSet(replies'[d]) \subseteq ToSet(replies[d]) \cup {sock[p].comfd}
      BY <1>7, <1>8
    <3> QED
      BY <1>6, <3>1, <3>2, <3>3 DEF Open
  <2>2. \A d \in Proc : Unserved(d) => Unserved(d)'
    BY <1>1, <1>6, <2>1 DEF Unserved
  <2>3. \A q, d \in Proc : peer'[q] = d => Requesting(d)'
    BY <1>7, <1>9, NoneAssumption DEF Waiting
  <2>4. \A d \in Proc :
          /\ request'[d] = "unread" /\ ~Unserved(d)' => pc'[d] = "recv1"
          /\ request'[d] = "read" /\ Requesting(d)' => \E q \in Proc : d \in sock'[q].comfds
    BY <1>6, <1>9, <1>10, <2>2 DEF Waiting
  <2> QED
    BY <2>3, <2>4 DEF Waiting
<1>14. TwoReplies'
  <2>1. ASSUME NEW d \in Proc
        PROVE  /\ replies'[d] # <<>> => pc'[d] \in {"recv1", "recv2"}
               /\ pc'[d] = "recv1" => /\ Len(replies'[d]) <= 2
                                      /\ Len(replies'[d]) = 2 => Listener(replies[d][2])'
               /\ pc'[d] = "recv2" => /\ Len(replies'[d]) <= 1
                                      /\ Len(replies'[d]) = 1 => Listener(replies[d][1])'
    <3>1. CASE replies'[d] = replies[d]
      BY <1>1, <1>10, <3>1 DEF TwoReplies, Listener
    <3>2. CASE d = c /\ pc[c] = "recv1" /\ replies'[d] # replies[d]
      <4>1. /\ Listener(sock[p].comfd) /\ Len(replies'[c]) = Len(replies[c]) + 1
            /\ replies'[c][Len(replies[c]) + 1] = sock[p].comfd
        BY <1>8, <3>2
      <4>2. CASE Len(replies[c]) = 0
        <5>1. Len(replies[c]) + 1 = 1
          BY <4>2
        <5>2. Len(replies'[c]) = 1
          BY <4>1, <5>1
        <5> QED
          BY <1>1, <1>10, <3>2, <5>2 DEF Listener
      <4>3. CASE Len(replies[c]) = 1
        <5>1. Len(replies[c]) + 1 = 2
          BY <4>3
        <5>2. Len(replies'[c]) = 2 /\ replies'[c][2] = sock[p].comfd
          BY <4>1, <5>1
        <5> QED
          BY <1>1, <1>10, <3>2, <4>1, <5>2 DEF Listener
      <4> QED
        BY <1>4, <3>2, <4>2, <4>3 DEF HalfAnswered
    <3>3. CASE d = c /\ pc[c] = "recv2" /\ replies'[d] # replies[d]
      <4>0. Len(replies[c]) = 0
        BY <1>4, <3>3 DEF HalfAnswered
      <4>1. Len(replies'[c]) = 1 /\ replies'[c][1] = sock[p].comfd /\ Listener(sock[p].comfd)
        <5>1. /\ Listener(sock[p].comfd) /\ Len(replies'[c]) = Len(replies[c]) + 1
              /\ replies'[c][Len(replies[c]) + 1] = sock[p].comfd
          BY <1>8, <3>3
        <5>2. Len(replies[c]) + 1 = 1
          BY <4>0
        <5> QED
          BY <5>1, <5>2
      <4> QED
        BY <1>1, <1>10, <3>3, <4>1 DEF Listener
    <3> QED
      BY <1>4, <1>7, <3>1, <3>2, <3>3 DEF HalfAnswered
  <2>2. ASSUME NEW q \in Proc, NEW d \in Proc, peer'[q] = d, pc'[q] = "reply2"
        PROVE  HalfAnswered(d)'
    <3>1. q # p /\ peer[q] = d /\ pc[q] = "reply2"
      BY <1>7, <2>2
    <3>2. d # c
      BY <1>3, <3>1
    <3> QED
      BY <1>7, <1>10, <3>1, <3>2 DEF TwoReplies, HalfAnswered
  <2> QED
    BY <1>6, <2>1, <2>2 DEF TwoReplies
<1> QED
  BY <1>11, <1>12, <1>13, <1>14

-----------------------------------------------------------------------------
(* Which steps are quiet.                                                   *)

Undisturbed(p) ==
    /\ Quiet(p)
    /\ \A q \in Proc : live[q] => live'[q]
    /\ tcpBound \subseteq tcpBound'

LEMMA BindUndisturbed ==
    ASSUME TypeOK, NEW p \in Proc,
           \/ MonitorBind(p) \/ MonitorListen(p)
           \/ InheritStatusSem(p) \/ InheritFdSem(p) \/ InheritVersion(p)
           \/ FreshStatusSem(p) \/ FreshFdSem(p) \/ FreshStatus(p)
    PROVE  Undisturbed(p)
<1> USE DEF callVars, channelVars, clientVars, listenerVars
<1>1. pc \in [Proc -> PcType] /\ sock \in [Proc -> SockType] /\ listening \subseteq Proc
  BY DEF TypeOK
<1>2. ASSUME NEW b, Goto(p, b)
      PROVE  pc'[p] = b /\ \A q \in Proc \ {p} : pc'[q] = pc[q]
  BY <1>1, <1>2 DEF Goto
<1>3. CASE MonitorBind(p)
  <2>1. /\ pc[p] = "bind" /\ pc'[p] \in {"listen", "connect"}
        /\ \A q \in Proc \ {p} : pc'[q] = pc[q]
    BY <1>2, <1>3 DEF MonitorBind
  <2>2. UNCHANGED <<live, sock, peer, request, replies, reset, backlog, listening, tcpBound>>
    BY <1>3 DEF MonitorBind
  <2> QED
    BY <2>1, <2>2 DEF Undisturbed, Quiet, QuietMove, QuietSock, Serves, EventPc, AppPc
<1>4. CASE MonitorListen(p)
  <2>1. /\ pc[p] = "listen" /\ pc'[p] = "sem1"
        /\ \A q \in Proc \ {p} : pc'[q] = pc[q]
    BY <1>2, <1>4 DEF MonitorListen
  <2>2. /\ UNCHANGED <<live, sock, peer, request, replies, reset, backlog, tcpBound>>
        /\ listening \subseteq listening'
    BY <1>4 DEF MonitorListen
  <2> QED
    BY <2>1, <2>2 DEF Undisturbed, Quiet, QuietMove, QuietSock, Serves, EventPc, AppPc
<1>5. CASE InheritStatusSem(p) \/ InheritFdSem(p) \/ InheritVersion(p)
  <2>1. /\ pc[p] \in {"inherit1", "inherit2", "version"}
        /\ pc'[p] \in {"inherit2", "version", "user"}
        /\ pc'[p] = "user" => pc[p] = "version"
        /\ \A q \in Proc \ {p} : pc'[q] = pc[q]
    BY <1>2, <1>5 DEF InheritStatusSem, InheritFdSem, InheritVersion
  <2>2. UNCHANGED <<live, peer, request, replies, reset, backlog, tcpBound, listening>>
    BY <1>5 DEF InheritStatusSem, InheritFdSem, InheritVersion
  <2>3. /\ sock'[p].shadowfd = sock[p].shadowfd /\ sock'[p].comfds = sock[p].comfds
        /\ sock'[p].comfd = sock[p].comfd
        /\ \A q \in Proc \ {p} : sock'[q] = sock[q]
    BY <1>1, <1>5 DEF InheritStatusSem, InheritFdSem, InheritVersion, SockType
  <2> QED
    BY <2>1, <2>2, <2>3 DEF Undisturbed, Quiet, QuietMove, QuietSock, Serves, EventPc, AppPc
<1>6. CASE FreshStatusSem(p) \/ FreshFdSem(p) \/ FreshStatus(p)
  <2>1. /\ pc[p] \in {"sem1", "sem2", "fresh"}
        /\ pc'[p] \in {"sem2", "fresh", "tcpbind"}
        /\ pc'[p] = "tcpbind" => FreshStatus(p)
        /\ \A q \in Proc \ {p} : pc'[q] = pc[q]
    BY <1>2, <1>6 DEF FreshStatusSem, FreshFdSem, FreshStatus
  <2>2. UNCHANGED <<live, peer, request, replies, reset, backlog, tcpBound, listening>>
    BY <1>6 DEF FreshStatusSem, FreshFdSem, FreshStatus
  <2>3. /\ sock'[p].shadowfd = sock[p].shadowfd /\ sock'[p].comfds = sock[p].comfds
        /\ sock'[p].comfd = sock[p].comfd
        /\ \A q \in Proc \ {p} : sock'[q] = sock[q]
    BY <1>1, <1>6 DEF FreshStatusSem, FreshFdSem, FreshStatus, SockType
  <2>4. FreshStatus(p) => sock'[p].version = 0
    BY <1>1 DEF FreshStatus, SockType
  <2> QED
    BY <2>1, <2>2, <2>3, <2>4 DEF Undisturbed, Quiet, QuietMove, QuietSock, Serves, EventPc, AppPc
<1> QED
  BY <1>3, <1>4, <1>5, <1>6

(* A step in the event loop or the application that leaves the sockets.     *)
SameSockets(p) ==
    /\ sock'[p].shadowfd = sock[p].shadowfd /\ sock'[p].comfds = sock[p].comfds
    /\ sock'[p].comfd = sock[p].comfd /\ sock'[p].monitoring = sock[p].monitoring
    /\ sock'[p].version = sock[p].version

LEMMA ServingUndisturbed ==
    ASSUME TypeOK, NEW p \in Proc, Serves(p), Serves(p)', pc'[p] # "reply2",
           pc'[p] \in {"exit", "killpg"} => sock[p].comfds = {} /\ ~sock[p].monitoring,
           \A q \in Proc \ {p} : pc'[q] = pc[q] /\ sock'[q] = sock[q],
           SameSockets(p), \A q \in Proc : live[q] => live'[q],
           UNCHANGED <<listening, peer, request, replies, reset, backlog, tcpBound>>
    PROVE  Undisturbed(p)
<1>1. QuietMove(p)
  BY DEF QuietMove
<1>2. QuietSock(p)
  BY DEF QuietSock, SameSockets, Serves, EventPc, AppPc
<1> QED
  BY <1>1, <1>2 DEF Undisturbed, Quiet

LEMMA EventUndisturbed ==
    ASSUME TypeOK, NEW p \in Proc,
           \/ EventCall(p) \/ Monitor(p) \/ QuitStore(p) \/ TerminationDetection(p)
           \/ PreEvent(p) \/ Wake(p) \/ Timeout(p) \/ PollTimeout(p)
           \/ Interrupt(p) \/ Post(p)
    PROVE  Undisturbed(p)
<1> USE DEF callVars, channelVars, clientVars, listenerVars, semVars
<1>1. /\ pc \in [Proc -> PcType] /\ sock \in [Proc -> SockType] /\ live \in [Proc -> BOOLEAN]
  BY DEF TypeOK
<1>2. ASSUME NEW b, Goto(p, b)
      PROVE  pc'[p] = b /\ \A q \in Proc \ {p} : pc'[q] = pc[q]
  BY <1>1, <1>2 DEF Goto
<1>3. ASSUME UNCHANGED sock
      PROVE  SameSockets(p) /\ \A q \in Proc \ {p} : sock'[q] = sock[q]
  BY <1>3 DEF SameSockets
<1>4. CASE EventCall(p) \/ Wake(p) \/ Timeout(p) \/ PollTimeout(p)
  <2>1. /\ Serves(p) /\ Serves(p)' /\ pc'[p] \notin {"reply2", "exit", "killpg"}
        /\ \A q \in Proc \ {p} : pc'[q] = pc[q]
    BY <1>2, <1>4 DEF EventCall, Wake, Timeout, PollTimeout, Idle, Serves, EventPc, AppPc
  <2>2. UNCHANGED <<sock, listening, peer, request, replies, reset, backlog, tcpBound>>
    BY <1>4 DEF EventCall, Wake, Timeout, PollTimeout
  <2>3. \A q \in Proc : live[q] => live'[q]
    BY <1>1, <1>4 DEF EventCall, Wake, Timeout, PollTimeout
  <2> QED
    BY <1>3, <2>1, <2>2, <2>3, ServingUndisturbed
<1>5. CASE TerminationDetection(p)
  <2>1. /\ Serves(p) /\ Serves(p)' /\ pc'[p] # "reply2"
        /\ pc'[p] \in {"exit", "killpg"} => Terminable(p)
        /\ \A q \in Proc \ {p} : pc'[q] = pc[q]
    BY <1>2, <1>5 DEF TerminationDetection, Serves, EventPc, AppPc
  <2>2. UNCHANGED <<live, sock, listening, peer, request, replies, reset, backlog, tcpBound>>
    BY <1>5 DEF TerminationDetection
  <2> QED
    BY <1>3, <2>1, <2>2, ServingUndisturbed DEF Terminable
<1>6. CASE QuitStore(p)
  <2>1. /\ Serves(p) /\ Serves(p)' /\ pc'[p] \notin {"reply2", "exit", "killpg"}
        /\ \A q \in Proc \ {p} : pc'[q] = pc[q]
    BY <1>2, <1>6 DEF QuitStore, Serves, EventPc, AppPc
  <2>2. UNCHANGED <<live, listening, peer, request, replies, reset, backlog, tcpBound>>
    BY <1>6 DEF QuitStore
  <2>3. SameSockets(p) /\ \A q \in Proc \ {p} : sock'[q] = sock[q]
    BY <1>1, <1>6 DEF QuitStore, SameSockets, SockType
  <2> QED
    BY <2>1, <2>2, <2>3, ServingUndisturbed
<1>7. CASE Monitor(p)
  <2>1. /\ Serves(p) /\ Serves(p)' /\ pc'[p] \notin {"reply2", "exit", "killpg", "tcpbind"}
        /\ \A q \in Proc \ {p} : pc'[q] = pc[q]
    BY <1>2, <1>7 DEF Monitor, Serves, EventPc, AppPc
  <2>2. UNCHANGED <<live, listening, peer, request, replies, reset, backlog, tcpBound>>
    BY <1>7 DEF Monitor
  <2>3. CASE UNCHANGED sock
    BY <1>3, <2>1, <2>2, <2>3, ServingUndisturbed
  <2>4. CASE /\ Quits(p)
             /\ sock' = [sock EXCEPT ![p].comfd = None, ![p].monitoring = FALSE]
    <3>1. /\ sock'[p].shadowfd = sock[p].shadowfd /\ sock'[p].comfds = sock[p].comfds
          /\ sock'[p].comfd = None /\ ~sock'[p].monitoring
          /\ \A q \in Proc \ {p} : sock'[q] = sock[q]
      BY <1>1, <2>4 DEF SockType
    <3> QED
      BY <2>1, <2>2, <2>4, <3>1 DEF Undisturbed, Quiet, QuietMove, QuietSock
  <2> QED
    BY <1>7, <2>3, <2>4 DEF Monitor
<1>8. CASE PreEvent(p)
  <2>1. /\ Serves(p) /\ Serves(p)' /\ pc'[p] \notin {"reply2", "exit", "killpg"}
        /\ \A q \in Proc \ {p} : pc'[q] = pc[q]
    BY <1>2, <1>8 DEF PreEvent, Serves, EventPc, AppPc
  <2>2. UNCHANGED <<live, listening, peer, request, replies, reset, backlog, tcpBound>>
    BY <1>8 DEF PreEvent
  <2>3. SameSockets(p) /\ \A q \in Proc \ {p} : sock'[q] = sock[q]
    <3>1. CASE ~UNCHANGED sock
      <4> DEFINE l == sock[p].locked \/ (Exclusive /\ TryLock(p))
                 i == IF Handler[p] = "epoll" THEN sock[p].interest \cup {sock[p].comfd}
                      ELSE sock[p].interest
      <4>1. sock' = [sock EXCEPT ![p].locked = l, ![p].interest = i]
        BY <1>8, <3>1 DEF PreEvent
      <4> HIDE DEF l, i
      <4> DEFINE new == [sock[p] EXCEPT !.locked = l, !.interest = i]
      <4>2. sock' = [sock EXCEPT ![p] = new]
        BY <4>1
      <4>3. /\ new.shadowfd = sock[p].shadowfd /\ new.comfds = sock[p].comfds
            /\ new.comfd = sock[p].comfd /\ new.monitoring = sock[p].monitoring
            /\ new.version = sock[p].version
        BY <1>1 DEF SockType
      <4> HIDE DEF new
      <4>4. sock'[p] = new /\ \A q \in Proc \ {p} : sock'[q] = sock[q]
        BY <1>1, <4>2
      <4> QED
        BY <4>3, <4>4 DEF SameSockets
    <3> QED
      BY <1>3, <3>1
  <2> QED
    BY <2>1, <2>2, <2>3, ServingUndisturbed
<1>9. CASE Interrupt(p) \/ Post(p)
  <2>1. /\ Serves(p) /\ Serves(p)' /\ pc'[p] \notin {"reply2", "exit", "killpg"}
        /\ \A q \in Proc \ {p} : pc'[q] = pc[q]
    BY <1>2, <1>9 DEF Interrupt, Post, HandledConns, Serves, EventPc, AppPc
  <2>2. UNCHANGED <<live, listening, peer, request, replies, reset, backlog, tcpBound>>
    BY <1>9 DEF Interrupt, Post
  <2>3. SameSockets(p) /\ \A q \in Proc \ {p} : sock'[q] = sock[q]
    <3>1. CASE Unlock(p)
      BY <1>1, <3>1 DEF Unlock, SameSockets, SockType
    <3> QED
      BY <1>3, <1>9, <3>1 DEF Interrupt, Post
  <2> QED
    BY <2>1, <2>2, <2>3, ServingUndisturbed
<1> QED
  BY <1>4, <1>5, <1>6, <1>7, <1>8, <1>9

LEMMA HandleUndisturbed ==
    ASSUME TypeOK, NEW p \in Proc,
           \/ Accept(p) \/ \E c \in Client : CloseClient(p, c)
           \/ \E c \in Proc : HandleClose(p, c) \/ HandleRace(p, c)
           \/ CountLoad(p) \/ CountStore(p)
    PROVE  Undisturbed(p)
<1> USE DEF callVars, channelVars, clientVars, listenerVars, semVars
<1>1. /\ pc \in [Proc -> PcType] /\ sock \in [Proc -> SockType]
  BY DEF TypeOK
<1>2. ASSUME NEW b, Goto(p, b)
      PROVE  pc'[p] = b /\ \A q \in Proc \ {p} : pc'[q] = pc[q]
  BY <1>1, <1>2 DEF Goto
<1>3. ASSUME UNCHANGED sock
      PROVE  SameSockets(p) /\ \A q \in Proc \ {p} : sock'[q] = sock[q]
  BY <1>3 DEF SameSockets
<1>4. CASE Accept(p)
  <2>1. /\ Serves(p) /\ Serves(p)' /\ pc'[p] \notin {"reply2", "exit", "killpg"}
        /\ \A q \in Proc \ {p} : pc'[q] = pc[q]
    BY <1>2, <1>4 DEF Accept, Serves, EventPc, AppPc
  <2>2. UNCHANGED <<live, listening, peer, request, replies, reset, backlog, tcpBound>>
    BY <1>4 DEF Accept
  <2>3. SameSockets(p) /\ \A q \in Proc \ {p} : sock'[q] = sock[q]
    <3>1. ASSUME NEW c, sock' = [sock EXCEPT ![p].fds = @ \cup {c}]
          PROVE  SameSockets(p) /\ \A q \in Proc \ {p} : sock'[q] = sock[q]
      BY <1>1, <3>1 DEF SameSockets, SockType
    <3> QED
      BY <1>3, <1>4, <3>1 DEF Accept
  <2> QED
    BY <2>1, <2>2, <2>3, ServingUndisturbed
<1>5. ASSUME NEW c \in Client, CloseClient(p, c)
      PROVE  Undisturbed(p)
  <2>1. /\ pc[p] = "user"
        /\ UNCHANGED <<pc, live, listening, peer, request, replies, reset, backlog, tcpBound>>
    BY <1>5 DEF CloseClient
  <2>2. SameSockets(p) /\ \A q \in Proc \ {p} : sock'[q] = sock[q]
    BY <1>1, <1>5 DEF CloseClient, SameSockets, SockType
  <2> QED
    BY <2>1, <2>2, ServingUndisturbed DEF Serves, AppPc
<1>6. ASSUME NEW c \in Proc, HandleRace(p, c)
      PROVE  Undisturbed(p)
  <2>1. /\ pc[p] = "handle"
        /\ UNCHANGED <<pc, live, sock, listening, peer, request, replies, reset, backlog, tcpBound>>
    BY <1>6 DEF HandleRace, Takes
  <2> QED
    BY <1>3, <2>1, ServingUndisturbed DEF Serves, EventPc
<1>7. ASSUME NEW c \in Proc, HandleClose(p, c)
      PROVE  Undisturbed(p)
  <2>1. /\ pc[p] = "handle" /\ ~Requesting(c)
        /\ UNCHANGED <<pc, live, listening, peer, request, replies, reset, backlog, tcpBound>>
    BY <1>7 DEF HandleClose, Takes
  <2>2. /\ sock'[p].shadowfd = sock[p].shadowfd /\ sock'[p].comfds = sock[p].comfds \ {c}
        /\ sock'[p].comfd = sock[p].comfd /\ sock'[p].monitoring = sock[p].monitoring
        /\ sock'[p].version = sock[p].version
        /\ \A q \in Proc \ {p} : sock'[q] = sock[q]
    BY <1>1, <1>7 DEF HandleClose, ConnRemoved, SockType
  <2>3. QuietMove(p)
    BY <2>1 DEF QuietMove, Serves, EventPc
  <2>4. QuietSock(p)
    BY <2>1, <2>2 DEF QuietSock
  <2> QED
    BY <2>1, <2>2, <2>3, <2>4 DEF Undisturbed, Quiet
<1>8. CASE CountLoad(p) \/ CountStore(p)
  <2>1. /\ Serves(p) /\ Serves(p)' /\ pc'[p] \notin {"reply2", "exit", "killpg"}
        /\ \A q \in Proc \ {p} : pc'[q] = pc[q]
    BY <1>2, <1>8 DEF CountLoad, CountStore, Serves, EventPc, AppPc
  <2>2. UNCHANGED <<live, listening, peer, request, replies, reset, backlog, tcpBound>>
    BY <1>8 DEF CountLoad, CountStore
  <2>3. SameSockets(p) /\ \A q \in Proc \ {p} : sock'[q] = sock[q]
    <3>1. CASE CountStore(p)
      BY <1>1, <3>1 DEF CountStore, SameSockets, SockType
    <3> QED
      BY <1>3, <1>8, <3>1 DEF CountLoad
  <2> QED
    BY <2>1, <2>2, <2>3, ServingUndisturbed
<1> QED
  BY <1>4, <1>5, <1>6, <1>7, <1>8

-----------------------------------------------------------------------------
(* Every step preserves the invariant.                                      *)

LEMMA BindService ==
    ASSUME TypeOK, SocketInv, ServiceInv, NEW p \in Proc, BindStep(p)
    PROVE  ServiceInv'
<1> USE DEF callVars, channelVars, clientVars, listenerVars
<1>1. pc \in [Proc -> PcType]
  BY DEF TypeOK
<1>2. ASSUME NEW b, Goto(p, b)
      PROVE  pc'[p] = b /\ \A q \in Proc \ {p} : pc'[q] = pc[q]
  BY <1>1, <1>2 DEF Goto
<1>3. CASE Connect(p)
  <2>1. CASE Goto(p, "sem1") /\ UNCHANGED backlog
    <3>1. /\ pc[p] = "connect" /\ pc'[p] = "sem1"
          /\ \A q \in Proc \ {p} : pc'[q] = pc[q]
      BY <1>2, <1>3, <2>1 DEF Connect
    <3>2. UNCHANGED <<sock, peer, request, replies, reset, backlog, listening>>
      BY <1>3, <2>1 DEF Connect
    <3>3. Quiet(p)
      BY <3>1, <3>2 DEF Quiet, QuietMove, QuietSock, Serves, EventPc, AppPc
    <3> QED
      BY <3>3, QuietService
  <2>2. ASSUME NEW l \in listening, Goto(p, "send"),
               backlog' = [backlog EXCEPT ![l] = Append(@, p)]
        PROVE  ServiceInv'
    BY <1>3, <2>2, ConnectService DEF Connect
  <2> QED
    BY <1>3, <2>1, <2>2 DEF Connect
<1>4. CASE SendPort(p)
  <2>1. pc[p] = "send" /\ UNCHANGED <<listening, backlog>>
    BY <1>4 DEF SendPort
  <2>2. CASE Die({p})
    BY <2>1, <2>2, DeathService
  <2>3. CASE /\ request' = [request EXCEPT ![p] = "unread"] /\ Goto(p, "recv1")
             /\ UNCHANGED <<live, sock, callVars, replies, reset>>
    BY <2>1, <2>3, SendService
  <2>4. CASE Goto(p, "sem1") /\ UNCHANGED <<live, sock, callVars, channelVars>>
    <3>1. pc'[p] = "sem1" /\ \A q \in Proc \ {p} : pc'[q] = pc[q]
      BY <1>2, <2>4
    <3>2. Quiet(p)
      BY <2>1, <2>4, <3>1 DEF Quiet, QuietMove, QuietSock, Serves, EventPc, AppPc
    <3> QED
      BY <3>2, QuietService
  <2> QED
    BY <1>4, <2>2, <2>3, <2>4 DEF SendPort
<1>5. CASE TcpBind(p)
  <2>1. pc[p] = "tcpbind" /\ UNCHANGED <<listening, backlog>>
    BY <1>5 DEF TcpBind
  <2>2. CASE Die({p})
    BY <2>1, <2>2, DeathService
  <2>3. CASE Goto(p, "user") /\ UNCHANGED <<live, sock, callVars, channelVars>>
    <3>1. pc'[p] = "user" /\ \A q \in Proc \ {p} : pc'[q] = pc[q]
      BY <1>2, <2>3
    <3>2. Quiet(p)
      BY <2>1, <2>3, <3>1 DEF Quiet, QuietMove, QuietSock, Serves, EventPc, AppPc
    <3> QED
      BY <3>2, QuietService
  <2> QED
    BY <1>5, <2>2, <2>3 DEF TcpBind
<1>6. CASE \/ MonitorBind(p) \/ MonitorListen(p)
           \/ InheritStatusSem(p) \/ InheritFdSem(p) \/ InheritVersion(p)
           \/ FreshStatusSem(p) \/ FreshFdSem(p) \/ FreshStatus(p)
  BY <1>6, BindUndisturbed, QuietService DEF Undisturbed
<1> QED
  BY <1>3, <1>4, <1>5, <1>6, ReadShadowService, ReadComfdService DEF BindStep

(* A process that ends alone: a group is one process.                       *)
LEMMA EndService ==
    ASSUME Alone, TypeOK, SocketInv, ServiceInv, NEW p \in Proc,
           Terminate(p) \/ KillGroup(p)
    PROVE  ServiceInv'
<1> USE DEF callVars, channelVars, listenerVars
<1>1. pc[p] \in {"exit", "killpg"} /\ UNCHANGED <<listening, backlog>>
  BY DEF Terminate, KillGroup
<1>2. Killed(p) = {p}
  BY <1>1 DEF Killed, Alone, Alive
<1>3. CASE Die({p})
  BY <1>1, <1>3, DeathService
<1>4. CASE /\ pc[p] = "exit" /\ Goto(p, "killpg")
           /\ UNCHANGED <<live, sock, callVars, channelVars>>
  <2>1. pc'[p] = "killpg" /\ \A q \in Proc \ {p} : pc'[q] = pc[q]
    BY <1>4 DEF Goto, TypeOK
  <2>2. sock[p].comfds = {} /\ ~sock[p].monitoring
    BY <1>1 DEF ServiceInv, Acceptors
  <2>3. Quiet(p)
    BY <1>1, <1>4, <2>1, <2>2 DEF Quiet, QuietMove, QuietSock, Serves, EventPc, AppPc
  <2> QED
    BY <2>3, QuietService
<1> QED
  BY <1>2, <1>3, <1>4 DEF Terminate, KillGroup

LEMMA HandleService ==
    ASSUME TypeOK, SocketInv, ServiceInv, NEW p \in Proc, HandleStep(p)
    PROVE  ServiceInv'
<1> USE DEF callVars, channelVars, clientVars, listenerVars
<1>1. CASE HandleAccept(p)
  <2>1. /\ pc[p] = "handle"
        /\ UNCHANGED <<pc, live, peer, request, replies, reset, listening, tcpBound>>
    BY <1>1 DEF HandleAccept
  <2>2. ASSUME NEW l \in Proc, sock[p].comfd = Com(l), backlog[l] # <<>>,
               backlog' = [backlog EXCEPT ![l] = Tail(@)],
               sock' = [sock EXCEPT ![p].comfds = @ \cup {Head(backlog[l])}]
        PROVE  ServiceInv'
    BY <2>1, <2>2, AcceptService
  <2>3. CASE UNCHANGED <<backlog, sock>>
    <3>1. Undisturbed(p)
      BY <2>1, <2>3, ServingUndisturbed DEF Serves, EventPc, SameSockets
    <3> QED
      BY <3>1, QuietService DEF Undisturbed
  <2> QED
    BY <1>1, <2>2, <2>3 DEF HandleAccept
<1>2. ASSUME NEW c \in Proc, HandleError(p, c)
      PROVE  FALSE
  BY <1>2 DEF HandleError, ServiceInv, TwoReplies
<1>3. ASSUME \E c \in Proc : HandleClose(p, c) \/ HandleRace(p, c)
      PROVE  ServiceInv'
  BY <1>3, HandleUndisturbed, QuietService DEF Undisturbed
<1>4. CASE CountLoad(p) \/ CountStore(p)
  BY <1>4, HandleUndisturbed, QuietService DEF Undisturbed
<1> QED
  BY <1>1, <1>2, <1>3, <1>4, RequestService, ReplyShadowService, ReplyComfdService
     DEF HandleStep

LEMMA UnmovedService ==
    ASSUME ServiceInv,
           UNCHANGED <<pc, sock, peer, request, replies, reset, backlog, listening>>
    PROVE  ServiceInv'
<1> USE DEF ServiceInv
<1>1. /\ \A fd : Open(fd)' <=> Open(fd)
      /\ \A c \in Proc : Requesting(c)' <=> Requesting(c)
      /\ \A q \in Proc : Serves(q)' <=> Serves(q)
  BY DEF Open, Alive, Requesting, Serves
<1>2. Heirs' /\ Acceptors' /\ TwoReplies'
  BY <1>1 DEF Heirs, Acceptors, TwoReplies, HalfAnswered, Listener
<1>3. Waiting'
  BY <1>1 DEF Waiting, Unserved
<1> QED
  BY <1>2, <1>3

(* Without crashes no process ends but by its own decision, and alone no    *)
(* process forks.                                                           *)
LEMMA ServicePreserved ==
    ASSUME ServicePremises, TypeOK, SocketInv, ServiceInv, [Step]_vars
    PROVE  ServiceInv'
<1>1. Alone /\ MaxCrashes = 0 /\ ~ScanFaults
  BY DEF ServicePremises, NoCrashes
<1>2. ASSUME NEW p \in Proc, AppStep(p)
      PROVE  ServiceInv'
  BY <1>2, HandleUndisturbed, QuietService DEF AppStep, Undisturbed
<1>3. ASSUME NEW p \in Proc, EventStep(p)
      PROVE  ServiceInv'
  <2>1. ~ScanFault(p)
    BY <1>1 DEF ScanFault
  <2> QED
    BY <1>1, <1>3, <2>1, EventUndisturbed, QuietService, EndService, HandleService
       DEF EventStep, Undisturbed
<1>4. ASSUME NEW p \in Proc, Interrupt(p)
      PROVE  ServiceInv'
  BY <1>4, EventUndisturbed, QuietService DEF Undisturbed
<1>5. ASSUME NEW p \in Proc, Crash(p)
      PROVE  FALSE
  BY <1>1, <1>5 DEF Crash, TypeOK
<1>6. ASSUME NEW p \in Proc, NEW q \in Proc, Fork(p, q)
      PROVE  FALSE
  BY <1>1, <1>6 DEF Fork, Alone
<1>7. ASSUME NEW c \in Client, ClientConnect(c)
      PROVE  ServiceInv'
  BY <1>7, UnmovedService DEF ClientConnect, callVars, channelVars, listenerVars
<1>8. CASE UNCHANGED vars
  BY <1>8, UnmovedService DEF vars, callVars, channelVars, listenerVars
<1> QED
  BY <1>2, <1>3, <1>4, <1>5, <1>6, <1>7, <1>8, BindService, StartService
     DEF Step, ProcessStep, Environment

-----------------------------------------------------------------------------
(* Who can be updated stays so until the next version is published.         *)

LEMMA StaysUpdatable ==
    ASSUME TypeOK, TypeOK', NEW u \in Proc, Updatable(u), Serves(u)', SameSockets(u),
           live[u] => live'[u], tcpBound \subseteq tcpBound', listening \subseteq listening',
           status'.version <= status.version
    PROVE  Updatable(u)'
<1>1. /\ status.version \in Nat /\ status'.version \in Nat /\ sock[u].version \in Nat
      /\ sock[u].version >= status.version
  BY DEF TypeOK, StatusType, SockType, Updatable, InService
<1>2. sock'[u].version >= status'.version
  BY <1>1 DEF SameSockets
<1>3. /\ \E t \in tcpBound' : sock'[u].shadowfd = Tcp(t)
      /\ \E l \in listening' : sock'[u].comfd = Com(l)
  BY DEF Updatable, InService, SameSockets
<1> QED
  BY <1>2, <1>3 DEF Updatable, InService, SameSockets

LEMMA UndisturbedKeeps ==
    ASSUME TypeOK, TypeOK', NEW p \in Proc, Undisturbed(p), NEW u \in Proc, Updatable(u),
           status'.version <= status.version
    PROVE  Updatable(u)'
<1>1. Serves(u) /\ ~Quits(u)
  <2>1. sock[u].version \in Nat /\ status.version \in Nat
    BY DEF TypeOK, StatusType, SockType
  <2> QED
    BY <2>1 DEF Updatable, InService, Quits
<1>2. Serves(u)'
  BY <1>1 DEF Undisturbed, Quiet, QuietMove, Serves, EventPc, AppPc
<1>3. /\ sock'[u].shadowfd = sock[u].shadowfd /\ sock'[u].comfd = sock[u].comfd
      /\ sock'[u].monitoring = sock[u].monitoring /\ sock'[u].version = sock[u].version
  BY <1>1 DEF Undisturbed, Quiet, QuietSock
<1>4. /\ status.version \in Nat /\ status'.version \in Nat /\ sock[u].version \in Nat
      /\ sock[u].version >= status.version
  BY DEF TypeOK, StatusType, SockType, Updatable, InService
<1>5. sock'[u].version >= status'.version
  BY <1>3, <1>4
<1>6. /\ \E t \in tcpBound' : sock'[u].shadowfd = Tcp(t)
      /\ \E l \in listening' : sock'[u].comfd = Com(l)
      /\ live'[u] /\ sock'[u].monitoring
  BY <1>3 DEF Updatable, InService, Undisturbed, Quiet
<1> QED
  BY <1>2, <1>5, <1>6 DEF Updatable, InService

(* A process in bind(), or one that starts, disturbs nobody who serves.     *)
LEMMA BindKeeps ==
    ASSUME TypeOK, TypeOK', NEW p \in Proc, BindStep(p) \/ Start(p),
           NEW u \in Proc, Updatable(u)
    PROVE  Updatable(u)'
<1> USE DEF callVars, channelVars, clientVars, listenerVars
<1>1. /\ pc \in [Proc -> PcType] /\ sock \in [Proc -> SockType] /\ status \in StatusType
  BY DEF TypeOK
<1>2. pc[p] \in BindPc \cup {"none"}
  BY DEF BindStep, Start, MonitorBind, MonitorListen, Connect, SendPort, ReadShadow,
         ReadComfd, InheritStatusSem, InheritFdSem, InheritVersion, FreshStatusSem,
         FreshFdSem, FreshStatus, TcpBind, BindPc
<1>3. u # p
  BY <1>2 DEF Updatable, InService, Serves, BindPc, EventPc, AppPc
<1>4. pc'[u] = pc[u] /\ sock'[u] = sock[u] /\ live' = live
  <2>1. CASE Die({p})
    BY <1>3, <2>1 DEF Die
  <2>2. ASSUME NEW b, Goto(p, b)
        PROVE  pc'[u] = pc[u]
    BY <1>1, <1>3, <2>2 DEF Goto
  <2>3. CASE SendPort(p)
    BY <2>1, <2>2, <2>3 DEF SendPort
  <2>4. CASE TcpBind(p)
    BY <2>1, <2>2, <2>4 DEF TcpBind
  <2>5. CASE Start(p) \/ MonitorBind(p) \/ MonitorListen(p) \/ Connect(p)
    BY <1>1, <1>3, <2>2, <2>5 DEF Start, MonitorBind, MonitorListen, Connect
  <2>6. CASE ReadShadow(p) \/ ReadComfd(p)
    BY <1>1, <1>3, <2>2, <2>6 DEF ReadShadow, ReadComfd
  <2>7. CASE InheritStatusSem(p) \/ InheritFdSem(p) \/ InheritVersion(p)
    BY <1>1, <1>3, <2>2, <2>7 DEF InheritStatusSem, InheritFdSem, InheritVersion
  <2>8. CASE FreshStatusSem(p) \/ FreshFdSem(p) \/ FreshStatus(p)
    BY <1>1, <1>3, <2>2, <2>8 DEF FreshStatusSem, FreshFdSem, FreshStatus
  <2> QED
    BY <2>3, <2>4, <2>5, <2>6, <2>7, <2>8 DEF BindStep
<1>5. tcpBound \subseteq tcpBound' /\ listening \subseteq listening'
  BY DEF BindStep, Start, MonitorBind, MonitorListen, Connect, SendPort, ReadShadow,
         ReadComfd, InheritStatusSem, InheritFdSem, InheritVersion, FreshStatusSem,
         FreshFdSem, FreshStatus, TcpBind
<1>6. UNCHANGED status \/ status'.version = 0
  BY DEF BindStep, Start, MonitorBind, MonitorListen, Connect, SendPort, ReadShadow,
         ReadComfd, InheritStatusSem, InheritFdSem, InheritVersion, FreshStatusSem,
         FreshFdSem, FreshStatus, TcpBind
<1>7. status'.version <= status.version
  BY <1>1, <1>6 DEF StatusType
<1> QED
  BY <1>4, <1>5, <1>7, StaysUpdatable DEF Updatable, InService, Serves, SameSockets

(* Who ends has quit before.                                                *)
LEMMA EndKeeps ==
    ASSUME Alone, TypeOK, TypeOK', ServiceInv, NEW p \in Proc, Terminate(p) \/ KillGroup(p),
           NEW u \in Proc, Updatable(u)
    PROVE  Updatable(u)'
<1> USE DEF callVars, channelVars, clientVars, listenerVars
<1>1. pc[p] \in {"exit", "killpg"} /\ UNCHANGED <<listening, tcpBound, status>>
  BY DEF Terminate, KillGroup
<1>2. u # p
  BY <1>1 DEF ServiceInv, Acceptors, Updatable, InService
<1>3. Killed(p) = {p}
  BY <1>1 DEF Killed, Alone, Alive
<1>4. pc'[u] = pc[u] /\ sock'[u] = sock[u] /\ live' = live
  <2>1. CASE Die({p})
    BY <1>2, <2>1 DEF Die
  <2>2. CASE Goto(p, "killpg") /\ UNCHANGED <<live, sock>>
    BY <1>2, <2>2 DEF Goto, TypeOK
  <2> QED
    BY <1>3, <2>1, <2>2 DEF Terminate, KillGroup
<1>5. status'.version <= status.version
  BY <1>1 DEF TypeOK, StatusType
<1> QED
  BY <1>1, <1>4, <1>5, StaysUpdatable DEF Updatable, InService, Serves, SameSockets

(* Answering a requester disturbs nobody: it still waits, so that no        *)
(* SIGPIPE is raised.                                                       *)
LEMMA HandleKeeps ==
    ASSUME TypeOK, TypeOK', SocketInv, ServiceInv, NEW p \in Proc, HandleStep(p),
           NEW u \in Proc, Updatable(u)
    PROVE  Updatable(u)'
<1> USE DEF callVars, channelVars, clientVars, listenerVars, semVars
<1>1. /\ pc \in [Proc -> PcType] /\ sock \in [Proc -> SockType] /\ status \in StatusType
  BY DEF TypeOK
<1>2. ASSUME UNCHANGED status
      PROVE  status'.version <= status.version
  BY <1>1, <1>2 DEF StatusType
<1>3. ASSUME NEW b \in EventPc, Goto(p, b), pc[p] \in EventPc, UNCHANGED status,
             \A q \in Proc : SameSockets(q) \/ sock'[q] = sock[q] \/
                   /\ sock'[q].shadowfd = sock[q].shadowfd /\ sock'[q].comfd = sock[q].comfd
                   /\ sock'[q].monitoring = sock[q].monitoring
                   /\ sock'[q].version = sock[q].version,
             UNCHANGED <<live, listening, tcpBound>>
      PROVE  Updatable(u)'
  <2>1. Serves(u)'
    BY <1>1, <1>3 DEF Updatable, InService, Serves, Goto
  <2> QED
    BY <1>3, <2>1 DEF Updatable, InService, SameSockets
<1>4. CASE HandleAccept(p)
  <2>1. pc[p] \in EventPc /\ UNCHANGED <<pc, live, listening, tcpBound, status>>
    BY <1>4 DEF HandleAccept, EventPc
  <2>2. ASSUME NEW new, sock' = [sock EXCEPT ![p].comfds = new]
        PROVE  \A q \in Proc : /\ sock'[q].shadowfd = sock[q].shadowfd
                               /\ sock'[q].comfd = sock[q].comfd
                               /\ sock'[q].monitoring = sock[q].monitoring
                               /\ sock'[q].version = sock[q].version
    BY <1>1, <2>2 DEF SockType
  <2>3. \/ UNCHANGED sock
        \/ \E new : sock' = [sock EXCEPT ![p].comfds = new]
    BY <1>4 DEF HandleAccept
  <2> QED
    BY <2>1, <2>2, <2>3 DEF Updatable, InService, Serves
<1>5. ASSUME NEW c \in Proc, HandleClose(p, c) \/ HandleRace(p, c)
      PROVE  Updatable(u)'
  <2>1. Undisturbed(p) /\ UNCHANGED status
    BY <1>5, HandleUndisturbed DEF HandleClose, HandleRace
  <2> QED
    BY <1>2, <2>1, UndisturbedKeeps
<1>6. ASSUME NEW c \in Proc, HandleError(p, c) \/ HandleRequest(p, c)
      PROVE  Updatable(u)'
  <2>1. ~HandleError(p, c)
    BY DEF HandleError, ServiceInv, TwoReplies
  <2>2. pc[p] \in EventPc /\ Goto(p, "count") /\ UNCHANGED <<sock, live, listening, tcpBound, status>>
    BY <1>6, <2>1 DEF HandleRequest, Takes, EventPc
  <2> QED
    BY <1>3, <2>2 DEF EventPc
<1>7. CASE CountLoad(p)
  <2>1. Undisturbed(p) /\ UNCHANGED status
    BY <1>7, HandleUndisturbed DEF CountLoad
  <2> QED
    BY <1>2, <2>1, UndisturbedKeeps
<1>8. CASE CountStore(p)
  <2>1. Undisturbed(p)
    BY <1>8, HandleUndisturbed
  <2>2. status'.version <= status.version
    BY <1>1, <1>8 DEF CountStore, StatusType
  <2> QED
    BY <2>1, <2>2, UndisturbedKeeps
<1>9. CASE ReplyShadow(p) \/ ReplyComfd(p)
  <2>1. pc[p] \in {"reply1", "reply2"} /\ UNCHANGED <<listening, tcpBound, status>>
    BY <1>9 DEF ReplyShadow, ReplyComfd
  <2>2. peer[p] \in Proc /\ Requesting(peer[p])
    BY <2>1 DEF SocketInv, DescriptorInv, Answerers, AnsweringPc, TypeOK, ServiceInv, Waiting
  <2>3. ~WriteKills(p, sock[p].shadowfd) /\ ~WriteKills(p, sock[p].comfd)
    BY <2>2 DEF WriteKills
  <2>4. /\ UNCHANGED <<sock, live>>
        /\ Goto(p, "handle") \/ Goto(p, "reply2")
    BY <1>9, <2>3 DEF ReplyShadow, ReplyComfd, WriteFd
  <2> QED
    BY <1>3, <2>1, <2>4 DEF EventPc
<1> QED
  BY <1>4, <1>5, <1>6, <1>7, <1>8, <1>9 DEF HandleStep

(* A version quits or is published, and whoever publishes can be updated.   *)
LEMMA MonitorKeeps ==
    ASSUME TypeOK, TypeOK', LockInv, SocketInv, ServiceInv, NEW p \in Proc, Monitor(p),
           NEW u \in Proc, Updatable(u)
    PROVE  \E q \in Proc : Updatable(q)'
<1> USE DEF callVars, channelVars, clientVars, listenerVars
<1>1. /\ pc \in [Proc -> PcType] /\ sock \in [Proc -> SockType] /\ status \in StatusType
  BY DEF TypeOK
<1>2. CASE UNCHANGED status
  <2>1. status'.version <= status.version
    BY <1>1, <1>2 DEF StatusType
  <2> QED
    BY <2>1, EventUndisturbed, UndisturbedKeeps
<1>3. CASE ~UNCHANGED status
  <2>1. /\ Publishes(p) /\ UNCHANGED <<sock, live, listening, tcpBound>>
        /\ pc[p] = "monitor" /\ Goto(p, "terminate")
        /\ status' = [status EXCEPT !.pgid = Pgid[p], !.version = @ + 1]
    BY <1>3 DEF Monitor
  <2>2. /\ status.version \in Nat /\ sock[p].version \in Nat
        /\ status'.version = status.version + 1
    BY <1>1, <2>1 DEF StatusType, SockType
  <2>3. /\ sock[p].monitoring /\ sock[p].version > status.version
    BY <2>1 DEF Publishes
  <2>4. sock[p].version > 0 /\ sock[p].version >= status'.version
    BY <2>2, <2>3
  <2>5. Serves(p) /\ live[p]
    BY <2>1 DEF Serves, EventPc, LockInv, InsideLive
  <2>6. Listener(sock[p].comfd) /\ ServesBound(p)
    BY <2>3, <2>4, <2>5 DEF ServiceInv, Heirs, SocketInv, DescriptorInv, Shadows
  <2>7. Serves(p)'
    BY <1>1, <2>1 DEF Serves, EventPc, Goto
  <2> QED
    BY <2>1, <2>3, <2>4, <2>5, <2>6, <2>7
       DEF Updatable, InService, Listener, ServesBound
<1> QED
  BY <1>2, <1>3

LEMMA UpdatableKept ==
    ASSUME ServicePremises, TypeOK, TypeOK', LockInv, SocketInv, ServiceInv, Step,
           NEW u \in Proc, Updatable(u)
    PROVE  \E q \in Proc : Updatable(q)'
<1> USE DEF callVars, channelVars, clientVars, listenerVars, semVars
<1>1. Alone /\ MaxCrashes = 0 /\ ~ScanFaults /\ status \in StatusType
  BY DEF ServicePremises, NoCrashes, TypeOK
<1>2. (UNCHANGED status) => status'.version <= status.version
  BY <1>1 DEF StatusType
<1>3. ASSUME NEW p \in Proc, AppStep(p)
      PROVE  Updatable(u)'
  <2>1. Undisturbed(p) /\ UNCHANGED status
    BY <1>3, HandleUndisturbed DEF AppStep, Accept, CloseClient
  <2> QED
    BY <1>2, <2>1, UndisturbedKeeps
<1>4. ASSUME NEW p \in Proc,
             \/ EventCall(p) \/ QuitStore(p) \/ TerminationDetection(p) \/ PreEvent(p)
             \/ Wake(p) \/ Timeout(p) \/ PollTimeout(p) \/ Interrupt(p) \/ Post(p)
      PROVE  Updatable(u)'
  <2>1. Undisturbed(p)
    BY <1>4, EventUndisturbed
  <2>2. CASE QuitStore(p)
    <3>1. status'.version <= status.version
      BY <1>1, <2>2 DEF QuitStore, StatusType
    <3> QED
      BY <2>1, <3>1, UndisturbedKeeps
  <2>3. CASE ~QuitStore(p)
    <3>1. UNCHANGED status
      BY <1>4, <2>3 DEF EventCall, TerminationDetection, PreEvent, Wake, Timeout,
                        PollTimeout, Interrupt, Post
    <3> QED
      BY <1>2, <2>1, <3>1, UndisturbedKeeps
  <2> QED
    BY <2>2, <2>3
<1>5. ASSUME NEW p \in Proc, EventStep(p)
      PROVE  \E q \in Proc : Updatable(q)'
  <2>1. ~ScanFault(p)
    BY <1>1 DEF ScanFault
  <2> QED
    BY <1>1, <1>4, <1>5, <2>1, MonitorKeeps, EndKeeps, HandleKeeps DEF EventStep
<1>6. ASSUME NEW p \in Proc, Crash(p)
      PROVE  FALSE
  BY <1>1, <1>6 DEF Crash, TypeOK
<1>7. ASSUME NEW p \in Proc, NEW q \in Proc, Fork(p, q)
      PROVE  FALSE
  BY <1>1, <1>7 DEF Fork, Alone
<1>8. ASSUME NEW c \in Client, ClientConnect(c)
      PROVE  Updatable(u)'
  BY <1>2, <1>8, StaysUpdatable
     DEF ClientConnect, Updatable, InService, Serves, SameSockets
<1> QED
  BY <1>3, <1>4, <1>5, <1>6, <1>7, <1>8, BindKeeps DEF Step, ProcessStep, Environment

-----------------------------------------------------------------------------
(* The theorem.                                                             *)

LEMMA InitialService == Init => ServiceInv
<1> SUFFICES ASSUME Init PROVE ServiceInv
  OBVIOUS
<1>1. \A p \in Proc : /\ pc[p] = "none" /\ sock[p].comfds = {} /\ peer[p] = None
                      /\ request[p] = "none" /\ replies[p] = <<>> /\ backlog[p] = <<>>
  BY DEF Init, NoSock
<1>2. Heirs /\ Acceptors /\ reset = {}
  BY <1>1 DEF Init, Heirs, Acceptors, Serves, EventPc, AppPc
<1>3. Waiting
  BY <1>1, NoneAssumption DEF Waiting
<1>4. TwoReplies
  BY <1>1, <1>2 DEF TwoReplies
<1> QED
  BY <1>2, <1>3, <1>4 DEF ServiceInv

(* A reply that is not sent leaves its requester waiting on a connection    *)
(* that stays open, so that it never binds a socket of its own.             *)
LEMMA ServedSockets ==
    ASSUME TypeOK, SocketInv, ServiceInv, [Step]_vars
    PROVE  SocketInv'
<1>1. Attended
  BY DEF ServiceInv, Waiting, Attended
<1> QED
  BY <1>1, SocketsPreserved

(* An update never leaves the port without a version that serves it and     *)
(* that the next version can connect to: an old version closes its listener *)
(* (core.c:254) only after its heir, which was sent both descriptors        *)
(* (select.c:140-142, core.c:88-89), has published itself.  It holds for    *)
(* any number of versions that are one process each, started at any time,   *)
(* and whatever dsu_write_fd makes of its uninitialised len, as long as     *)
(* none crashes: a crash between the two replies leaves an heir without a   *)
(* listener.                                                                *)
THEOREM ServiceKeptHolds ==
    ASSUME ServicePremises
    PROVE  Spec => ServiceKept
<1> USE DEF ServicePremises
<1>1. Init => SocketInv /\ ServiceInv
  BY InitialSockets, InitialService
<1>2. IInv /\ SocketInv /\ ServiceInv /\ [Step]_vars => SocketInv' /\ ServiceInv'
  BY ServedSockets, ServicePreserved DEF IInv
<1>3. Spec => []IInv
  BY Inductive
<1>4. IInv /\ IInv' /\ SocketInv /\ ServiceInv /\ [Step]_vars =>
        [(\E p \in Proc : Updatable(p)) /\ crashes' = crashes
            => (\E p \in Proc : Updatable(p))']_vars
  <2> SUFFICES ASSUME IInv, IInv', SocketInv, ServiceInv, Step, \E p \in Proc : Updatable(p)
               PROVE  (\E p \in Proc : Updatable(p))'
    OBVIOUS
  <2> QED
    BY UpdatableKept DEF IInv
<1>5. Spec => Init /\ [][Step]_vars
  BY Uninterrupted
<1> QED
  BY <1>1, <1>2, <1>3, <1>4, <1>5, PTL DEF ServiceKept

(* The same premises keep, in every state, an owner for every kind of       *)
(* resource that an update hands on: the published version, the two         *)
(* sockets, the requests and the clients that wait (core.c:405-431,         *)
(* core.c:656-738, select.c:110-190).                                       *)
THEOREM ServiceInvHolds ==
    ASSUME ServicePremises
    PROVE  Spec => []ServiceInv
<1>1. Init => SocketInv /\ ServiceInv
  BY InitialSockets, InitialService DEF ServicePremises
<1>2. IInv /\ SocketInv /\ ServiceInv /\ [Step]_vars => SocketInv' /\ ServiceInv'
  BY ServedSockets, ServicePreserved DEF IInv
<1>3. Spec => []IInv
  BY Inductive DEF ServicePremises
<1>4. Spec => Init /\ [][Step]_vars
  BY Uninterrupted DEF ServicePremises
<1> QED
  BY <1>1, <1>2, <1>3, <1>4, PTL

(* All versions that run the event loop serve one TCP socket, even when the *)
(* replies are lost to the uninitialised len of dsu_write_fd                *)
(* (communication.c:19-33): a requester that is sent nothing waits on, and  *)
(* does not bind a second socket (core.c:676-700).  Without a crash nobody  *)
(* closes the connection on which it waits.                                 *)
THEOREM OneSocketKept ==
    ASSUME ServicePremises
    PROVE  Spec => []OneSocket
<1>1. Spec => []IInv
  BY Inductive DEF ServicePremises
<1>2. Init => SocketInv /\ ServiceInv
  BY InitialSockets, InitialService DEF ServicePremises
<1>3. IInv /\ SocketInv /\ ServiceInv /\ [Step]_vars => SocketInv' /\ ServiceInv'
  BY ServedSockets, ServicePreserved DEF IInv
<1>4. SocketInv => OneSocket
  BY SocketsAgree
<1>5. Spec => Init /\ [][Step]_vars
  BY Uninterrupted DEF ServicePremises
<1> QED
  BY <1>1, <1>2, <1>3, <1>4, <1>5, PTL
=============================================================================
