--------------------------- MODULE HandoverProofs ---------------------------
(* Proofs about Handover: types and mutual exclusion of the semaphores, for *)
(* any processes, groups, clients and crashes.                              *)
EXTENDS Handover, TLAPS

-----------------------------------------------------------------------------
(* The inductive invariant.                                                 *)

(* From some point of bind() on, a process has its semaphores open.         *)
SemsOpen ==
    \A p \in Proc :
        /\ pc[p] \in {"inherit2", "sem2"} => sock[p].statusSem \in Sem
        /\ pc[p] \in {"version", "fresh", "tcpbind"} \cup EventPc \cup AppPc
              => sock[p].statusSem \in Sem /\ sock[p].fdSem \in Sem

(* The objects that p may still create are not known to anybody, so that    *)
(* creating one with the value 1 frees no lock that somebody holds.         *)
Uncreated(p) ==
    CASE pc[p] \in {"none", "bind", "listen", "connect", "send", "recv1",
                    "recv2", "inherit1", "sem1"} -> {<<p, "status">>, <<p, "fd">>}
      [] pc[p] \in {"inherit2", "sem2"} -> {<<p, "fd">>}
      [] OTHER -> {}

UncreatedUnknown ==
    \A p \in Proc : \A s \in Uncreated(p) :
        /\ semName # s
        /\ \A q \in Proc : sock[q].statusSem # s /\ sock[q].fdSem # s

(* A signal that interrupts select() (select.c:305) or poll(), and a poll()  *)
(* that times out (poll.c:360), leave the event function with the lock.     *)
KeepsLock == Signals \/ (UserTimeout /\ \E p \in Proc : Handler[p] = "poll")

(* Only a process whose two semaphores are different ones locks fd_sem.  It *)
(* holds the lock inside the event function, outside only if KeepsLock.     *)
LockedInside ==
    \A p \in Proc : sock[p].locked =>
        /\ live[p]
        /\ sock[p].fdSem \in Sem /\ sock[p].fdSem # sock[p].statusSem
        /\ pc[p] \in EventPc \cup AppPc
        /\ pc[p] \in AppPc => KeepsLock

(* Whoever is inside the event function has been counted as a worker.       *)
InsideLive == \A p \in Proc : pc[p] \in EventPc => live[p]

LockInv ==
    /\ SemsOpen
    /\ UncreatedUnknown
    /\ LockedInside
    /\ InsideLive
    /\ LockExclusive

IInv == TypeOK /\ LockInv

-----------------------------------------------------------------------------
(* Lemmas on the data: what an update of one component leaves typed.        *)

(* A message joins a queue of its type.                                     *)
LEMMA Appended ==
    ASSUME NEW S, NEW f \in [Proc -> Seq(S)], NEW l \in Proc, NEW x \in S
    PROVE  [f EXCEPT ![l] = Append(@, x)] \in [Proc -> Seq(S)]
OBVIOUS

(* The head of a queue leaves it.                                           *)
LEMMA Popped ==
    ASSUME NEW S, NEW f \in [Proc -> Seq(S)], NEW l \in Proc, f[l] # <<>>
    PROVE  /\ Head(f[l]) \in S
           /\ [f EXCEPT ![l] = Tail(@)] \in [Proc -> Seq(S)]
OBVIOUS

(* One entry of a function changes within its type.                         *)
LEMMA Updated ==
    ASSUME NEW S, NEW f \in [Proc -> S], NEW p \in Proc, NEW x \in S
    PROVE  [f EXCEPT ![p] = x] \in [Proc -> S]
OBVIOUS

(* The null records.                                                        *)
LEMMA NullRecords ==
    /\ NoSock \in SockType
    /\ NoCall \in CallType
    /\ \A p \in Proc : NewSock(p) \in SockType
BY DEF NoSock, NewSock, NoCall, NothingReady, SockType, CallType, ReadyType,
       Fd, Tcp, Com

(* A semaphore that is taken when free, or posted by who holds it, stays    *)
(* binary.                                                                  *)
LEMMA WaitTyped ==
    ASSUME sem \in [Sem -> {0, 1}], NEW s \in Sem, Free(s), SemWait(s)
    PROVE  /\ sem[s] = 1
           /\ sem' = [sem EXCEPT ![s] = 0]
           /\ sem' \in [Sem -> {0, 1}]
<1>1. sem[s] = 1
  BY DEF Free
<1>2. sem' = [sem EXCEPT ![s] = 0]
  BY <1>1 DEF SemWait
<1> QED
  BY <1>1, <1>2

(* A semaphore that its holder posts goes from 0 to 1.                      *)
LEMMA PostTyped ==
    ASSUME sem \in [Sem -> {0, 1}], LockExclusive,
           NEW p \in Proc, NEW s \in Sem, Holds(p, s), SemPost(s)
    PROVE  /\ sem[s] = 0
           /\ sem' = [sem EXCEPT ![s] = 1]
           /\ sem' \in [Sem -> {0, 1}]
<1>1. sem[s] = 0
  BY DEF LockExclusive
<1>2. sem' = [sem EXCEPT ![s] = 1]
  BY <1>1 DEF SemPost
<1> QED
  BY <1>1, <1>2

(* A process that disappears leaves null records behind.                    *)
LEMMA DieTyped ==
    ASSUME TypeOK, NEW D \in SUBSET Proc, Die(D)
    PROVE  /\ pc' \in [Proc -> PcType]
           /\ sock' \in [Proc -> SockType]
           /\ call' \in [Proc -> CallType]
           /\ reg' \in [Proc -> Int]
           /\ peer' \in [Proc -> Proc \cup {None}]
           /\ reset' \subseteq Proc
           /\ replies' \in [Proc -> Seq(Fd)]
           /\ UNCHANGED <<live, request>>
<1>1. pc' \in [Proc -> PcType]
  BY DEF TypeOK, Die, PcType
<1>2. sock' \in [Proc -> SockType]
  BY NullRecords DEF TypeOK, Die
<1>3. call' \in [Proc -> CallType]
  BY NullRecords DEF TypeOK, Die
<1>4. reg' \in [Proc -> Int]
  BY DEF TypeOK, Die
<1>5. peer' \in [Proc -> Proc \cup {None}]
  BY DEF TypeOK, Die
<1>6. reset' \subseteq Proc
  BY DEF TypeOK, Die
<1>7. replies' \in [Proc -> Seq(Fd)]
  <2>1. <<>> \in Seq(Fd)
    OBVIOUS
  <2> QED
    BY <2>1 DEF TypeOK, Die
<1> QED
  BY <1>1, <1>2, <1>3, <1>4, <1>5, <1>6, <1>7 DEF Die

-----------------------------------------------------------------------------
(* Every action preserves the types.                                        *)

USE DEF callVars, semVars, listenerVars, channelVars, clientVars, Goto

(* The steps of bind() keep the types (core.c:600-749).                     *)
LEMMA BindTypes ==
    ASSUME TypeOK, LockInv, NEW p \in Proc, BindStep(p)
    PROVE  TypeOK'
<1>a. sock[p] \in SockType /\ sock \in [Proc -> SockType]
  BY DEF TypeOK
<1>b. None \in Sem \cup {None} /\ None \in Fd \cup {None}
  OBVIOUS
<1>1. CASE MonitorBind(p)
  <2>1. pc' \in [Proc -> PcType]
    BY <1>1 DEF TypeOK, MonitorBind, PcType, BindPc
  <2>2. bound' \subseteq Proc
    BY <1>1 DEF TypeOK, MonitorBind
  <2> QED
    BY <1>1, <2>1, <2>2 DEF TypeOK, MonitorBind
<1>2. CASE MonitorListen(p)
  <2>1. pc' \in [Proc -> PcType]
    BY <1>2 DEF TypeOK, MonitorListen, PcType, BindPc
  <2>2. listening' \subseteq Proc
    BY <1>2 DEF TypeOK, MonitorListen
  <2>3. nonblocking' \subseteq Proc
    BY <1>2 DEF TypeOK, MonitorListen
  <2> QED
    BY <1>2, <2>1, <2>2, <2>3 DEF TypeOK, MonitorListen
<1>3. CASE Connect(p)
  <2>1. pc' \in [Proc -> PcType]
    BY <1>3 DEF TypeOK, Connect, PcType, BindPc
  <2>2. backlog' \in [Proc -> Seq(Proc)]
    <3>1. backlog \in [Proc -> Seq(Proc)]
      BY DEF TypeOK
    <3>2. \A l \in Proc : [backlog EXCEPT ![l] = Append(@, p)] \in [Proc -> Seq(Proc)]
      BY <3>1, Appended
    <3>3. \/ backlog' = backlog
          \/ \E l \in Proc : backlog' = [backlog EXCEPT ![l] = Append(@, p)]
      BY <1>3 DEF TypeOK, Connect
    <3> QED
      BY <3>1, <3>2, <3>3
  <2> QED
    BY <1>3, <2>1, <2>2 DEF TypeOK, Connect
<1>4. CASE SendPort(p)
  <2>1. pc' \in [Proc -> PcType]
    BY <1>4 DEF TypeOK, SendPort, PcType, BindPc, Die
  <2>2. Die({p}) \/ UNCHANGED <<sock, call, reg, peer, live, replies, reset>>
    BY <1>4 DEF SendPort
  <2>3. Die({p}) \/ request' = request \/ request' = [request EXCEPT ![p] = "unread"]
    BY <1>4 DEF SendPort
  <2>4. request' \in [Proc -> {"none", "unread", "read"}]
    BY <2>3 DEF TypeOK, Die
  <2> QED
    BY <1>4, <2>1, <2>2, <2>4, DieTyped DEF TypeOK, SendPort
<1>5. CASE ReadShadow(p)
  <2>1. pc' \in [Proc -> PcType]
    BY <1>5 DEF TypeOK, ReadShadow, PcType, BindPc
  <2>2. replies[p] # <<>> => ReceivedShadow(p) \in Fd
    BY Popped DEF TypeOK, ReceivedShadow
  <2>3. replies[p] # <<>> => [sock[p] EXCEPT !.shadowfd = ReceivedShadow(p)] \in SockType
    BY <1>a, <2>2 DEF SockType
  <2>4. sock' \in [Proc -> SockType]
    <3>1. \/ replies[p] # <<>> /\ sock' = [sock EXCEPT ![p].shadowfd = ReceivedShadow(p)]
          \/ sock' = sock
      BY <1>5 DEF ReadShadow
    <3> QED
      BY <1>a, <2>3, <3>1
  <2>5. replies' \in [Proc -> Seq(Fd)]
    <3>1. replies \in [Proc -> Seq(Fd)]
      BY DEF TypeOK
    <3>2. replies[p] # <<>> => [replies EXCEPT ![p] = Tail(@)] \in [Proc -> Seq(Fd)]
      BY <3>1, Popped
    <3> QED
      BY <1>5, <3>1, <3>2 DEF ReadShadow
  <2>6. reg' \in [Proc -> Int]
    BY <1>5 DEF TypeOK, ReadShadow
  <2> QED
    BY <1>5, <2>1, <2>2, <2>3, <2>4, <2>5, <2>6 DEF TypeOK, ReadShadow
<1>6. CASE ReadComfd(p)
  <2>1. pc' \in [Proc -> PcType]
    BY <1>6 DEF TypeOK, ReadComfd, PcType, BindPc
  <2>2. replies[p] # <<>> => ReceivedComfd(p) \in Fd
    BY Popped DEF TypeOK, ReceivedComfd
  <2>3. \A x \in Fd \cup {None} : [sock[p] EXCEPT !.comfd = x] \in SockType
    BY <1>a DEF SockType
  <2>4. sock' \in [Proc -> SockType]
    <3>1. \/ replies[p] # <<>> /\ sock' = [sock EXCEPT ![p].comfd = ReceivedComfd(p)]
          \/ sock' = [sock EXCEPT ![p].comfd = None]
      BY <1>6 DEF ReadComfd
    <3>2. \A x \in Fd \cup {None} : [sock EXCEPT ![p].comfd = x] \in [Proc -> SockType]
      BY <1>a, <2>3
    <3> QED
      BY <1>b, <2>2, <3>1, <3>2
  <2>5. replies' \in [Proc -> Seq(Fd)]
    <3>1. replies \in [Proc -> Seq(Fd)]
      BY DEF TypeOK
    <3>2. replies[p] # <<>> => [replies EXCEPT ![p] = Tail(@)] \in [Proc -> Seq(Fd)]
      BY <3>1, Popped
    <3> QED
      BY <1>6, <3>1, <3>2 DEF ReadComfd
  <2>6. reg' \in [Proc -> Int]
    BY <1>6 DEF TypeOK, ReadComfd
  <2> QED
    BY <1>6, <2>1, <2>2, <2>3, <2>4, <2>5, <2>6 DEF TypeOK, ReadComfd
<1>7. CASE InheritStatusSem(p)
  <2>1. pc' \in [Proc -> PcType]
    BY <1>7 DEF TypeOK, InheritStatusSem, PcType, BindPc
  <2>2. Opened(p, "status") \in Sem /\ <<p, "status">> \in Sem
    BY DEF TypeOK, Opened, Sem
  <2>3. \A x \in Sem : [sock[p] EXCEPT !.monitoring = TRUE, !.statusSem = x] \in SockType
    BY <1>a DEF SockType
  <2>4. sock' \in [Proc -> SockType]
    BY <1>7, <2>2, <2>3 DEF TypeOK, InheritStatusSem
  <2>5. sem' \in [Sem -> {0, 1}]
    BY <1>7, <2>2 DEF TypeOK, InheritStatusSem, OpenSem
  <2>6. semName' \in Sem \cup {None}
    BY <1>7, <2>2 DEF TypeOK, InheritStatusSem, OpenSem
  <2> QED
    BY <1>7, <2>1, <2>2, <2>3, <2>4, <2>5, <2>6 DEF TypeOK, InheritStatusSem
<1>8. CASE InheritFdSem(p)
  <2>1. pc' \in [Proc -> PcType]
    BY <1>8 DEF TypeOK, InheritFdSem, PcType, BindPc
  <2>2. Opened(p, "fd") \in Sem /\ <<p, "fd">> \in Sem
    BY DEF TypeOK, Opened, Sem
  <2>3. \A x \in Sem : [sock[p] EXCEPT !.fdSem = x] \in SockType
    BY <1>a DEF SockType
  <2>4. sock' \in [Proc -> SockType]
    BY <1>8, <2>2, <2>3 DEF TypeOK, InheritFdSem
  <2>5. sem' \in [Sem -> {0, 1}]
    BY <1>8, <2>2 DEF TypeOK, InheritFdSem, OpenSem
  <2>6. semName' \in Sem \cup {None}
    BY <1>8, <2>2 DEF TypeOK, InheritFdSem, OpenSem
  <2> QED
    BY <1>8, <2>1, <2>2, <2>3, <2>4, <2>5, <2>6 DEF TypeOK, InheritFdSem
<1>9. CASE InheritVersion(p)
  <2>1. pc' \in [Proc -> PcType]
    BY <1>9 DEF TypeOK, InheritVersion, PcType, AppPc
  <2>2. NewVersion(p) \in Nat
    BY DEF TypeOK, StatusType, NewVersion
  <2>3. \A v \in Nat, I \in SUBSET (Fd \cup {None}) :
           [sock[p] EXCEPT !.version = v, !.interest = I] \in SockType
    BY <1>a DEF SockType
  <2>4. sock[p].shadowfd \in Fd \cup {None}
    BY <1>a DEF SockType
  <2>5. sock' \in [Proc -> SockType]
    BY <1>9, <2>2, <2>3, <2>4 DEF TypeOK, InheritVersion
  <2> QED
    BY <1>9, <2>1, <2>2, <2>3, <2>4, <2>5 DEF TypeOK, InheritVersion
<1>10. CASE FreshStatusSem(p)
  <2>1. pc' \in [Proc -> PcType]
    BY <1>10 DEF TypeOK, FreshStatusSem, PcType, BindPc
  <2>2. <<p, "status">> \in Sem
    BY DEF Sem
  <2>3. [sock[p] EXCEPT !.statusSem = <<p, "status">>] \in SockType
    BY <1>a, <2>2 DEF SockType
  <2>4. sock' \in [Proc -> SockType]
    BY <1>10, <2>3 DEF TypeOK, FreshStatusSem
  <2>5. sem' \in [Sem -> {0, 1}]
    BY <1>10, <2>2 DEF TypeOK, FreshStatusSem, CreateSem
  <2>6. semName' \in Sem \cup {None}
    BY <1>10, <2>2 DEF TypeOK, FreshStatusSem, CreateSem
  <2> QED
    BY <1>10, <2>1, <2>2, <2>3, <2>4, <2>5, <2>6 DEF TypeOK, FreshStatusSem
<1>11. CASE FreshFdSem(p)
  <2>1. pc' \in [Proc -> PcType]
    BY <1>11 DEF TypeOK, FreshFdSem, PcType, BindPc
  <2>2. <<p, "fd">> \in Sem
    BY DEF Sem
  <2>3. [sock[p] EXCEPT !.fdSem = <<p, "fd">>, !.monitoring = TRUE] \in SockType
    BY <1>a, <2>2 DEF SockType
  <2>4. sock' \in [Proc -> SockType]
    BY <1>11, <2>3 DEF TypeOK, FreshFdSem
  <2>5. sem' \in [Sem -> {0, 1}]
    BY <1>11, <2>2 DEF TypeOK, FreshFdSem, CreateSem
  <2>6. semName' \in Sem \cup {None}
    BY <1>11, <2>2 DEF TypeOK, FreshFdSem, CreateSem
  <2> QED
    BY <1>11, <2>1, <2>2, <2>3, <2>4, <2>5, <2>6 DEF TypeOK, FreshFdSem
<1>12. CASE FreshStatus(p)
  <2>1. pc' \in [Proc -> PcType]
    BY <1>12 DEF TypeOK, FreshStatus, PcType, BindPc
  <2>2. status' \in StatusType
    BY <1>12 DEF TypeOK, FreshStatus, StatusType, Group
  <2>3. [sock[p] EXCEPT !.version = 0, !.transfer = FALSE] \in SockType
    BY <1>a DEF SockType
  <2>4. sock' \in [Proc -> SockType]
    BY <1>12, <2>3 DEF TypeOK, FreshStatus
  <2> QED
    BY <1>12, <2>1, <2>2, <2>3, <2>4 DEF TypeOK, FreshStatus
<1>13. CASE TcpBind(p)
  <2>1. pc' \in [Proc -> PcType]
    <3>1. CASE Die({p})
      BY <3>1, DieTyped
    <3>2. CASE ~Die({p})
      BY <1>13, <3>2 DEF TypeOK, TcpBind, PcType, AppPc
    <3> QED
      BY <3>1, <3>2
  <2>2. tcpBound' \subseteq Proc
    BY <1>13 DEF TypeOK, TcpBind
  <2>3. Die({p}) \/ UNCHANGED <<sock, call, reg, peer, live, request, replies, reset>>
    BY <1>13 DEF TcpBind
  <2> QED
    BY <1>13, <2>1, <2>2, <2>3, DieTyped DEF TypeOK, TcpBind
<1> QED
  BY <1>1, <1>2, <1>3, <1>4, <1>5, <1>6, <1>7, <1>8, <1>9, <1>10, <1>11,
     <1>12, <1>13 DEF BindStep

(* The steps of the application between its event calls keep the types.     *)
LEMMA AppTypes ==
    ASSUME TypeOK, LockInv, NEW p \in Proc, AppStep(p)
    PROVE  TypeOK'
<1>a. sock[p] \in SockType /\ sock \in [Proc -> SockType]
  BY DEF TypeOK
<1>1. CASE Accept(p)
  <2>1. pc' \in [Proc -> PcType]
    BY <1>1 DEF TypeOK, Accept, PcType, AppPc
  <2>2. PICK t \in Proc :
           \/ \E c \in queue[t] :
                 /\ queue' = [queue EXCEPT ![t] = @ \ {c}]
                 /\ sock' = [sock EXCEPT ![p].fds = @ \cup {c}]
           \/ UNCHANGED <<queue, sock>>
    BY <1>1 DEF Accept
  <2>3. queue' \in [Proc -> SUBSET Client]
    <3>1. queue \in [Proc -> SUBSET Client]
      BY DEF TypeOK
    <3>2. \A c : [queue EXCEPT ![t] = @ \ {c}] \in [Proc -> SUBSET Client]
      BY <3>1
    <3> QED
      BY <2>2, <3>1, <3>2
  <2>4. \A c \in Client : [sock[p] EXCEPT !.fds = @ \cup {c}] \in SockType
    BY <1>a DEF SockType
  <2>5. sock' \in [Proc -> SockType]
    <3>1. \A c \in Client :
             [sock EXCEPT ![p].fds = @ \cup {c}] \in [Proc -> SockType]
      BY <1>a, <2>4
    <3>2. \A c \in queue[t] : c \in Client
      BY DEF TypeOK
    <3> QED
      BY <1>a, <2>2, <3>1, <3>2
  <2> QED
    BY <1>1, <2>1, <2>3, <2>5 DEF TypeOK, Accept
<1>2. ASSUME NEW c \in Client, CloseClient(p, c) PROVE TypeOK'
  <2>1. [sock[p] EXCEPT !.fds = @ \ {c}] \in SockType
    BY <1>a DEF SockType
  <2>2. sock' \in [Proc -> SockType]
    BY <1>a, <1>2, <2>1 DEF CloseClient
  <2> QED
    BY <1>2, <2>2 DEF TypeOK, CloseClient
<1> QED
  BY <1>1, <1>2 DEF AppStep

(* The steps of an event call outside of internal connections keep the      *)
(* types: in particular Unlock and QuitStore post only what is taken.       *)
LEMMA EventTypes ==
    ASSUME TypeOK, LockInv, NEW p \in Proc,
           \/ EventCall(p) \/ Monitor(p) \/ QuitStore(p)
           \/ TerminationDetection(p) \/ Terminate(p) \/ KillGroup(p)
           \/ PreEvent(p) \/ Wake(p) \/ Timeout(p) \/ PollTimeout(p)
           \/ Interrupt(p) \/ Post(p) \/ ScanFault(p)
    PROVE  TypeOK'
<1>a. sock[p] \in SockType /\ sock \in [Proc -> SockType]
  BY DEF TypeOK
<1>b. None \in Sem \cup {None} /\ None \in Fd \cup {None}
  OBVIOUS
<1>c. pc[p] \in EventPc => sock[p].statusSem \in Sem /\ sock[p].fdSem \in Sem
  BY DEF LockInv, SemsOpen
<1>d. sock[p].locked /\ SemPost(sock[p].fdSem) => sem' \in [Sem -> {0, 1}]
  <2>1. sock[p].locked => Holds(p, sock[p].fdSem) /\ sock[p].fdSem \in Sem
    BY DEF Holds, LockInv, LockedInside
  <2>2. sem \in [Sem -> {0, 1}] /\ LockExclusive
    BY DEF TypeOK, LockInv
  <2> QED
    BY <2>1, <2>2, PostTyped
<1>e. Unlock(p) => sem' \in [Sem -> {0, 1}] /\ sock' \in [Proc -> SockType]
  <2> SUFFICES ASSUME Unlock(p)
               PROVE  sem' \in [Sem -> {0, 1}] /\ sock' \in [Proc -> SockType]
    OBVIOUS
  <2>1. sem' \in [Sem -> {0, 1}]
    BY <1>d DEF TypeOK, Unlock
  <2>2. PICK b \in BOOLEAN :
           sock' = [sock EXCEPT ![p].locked = FALSE,
                                ![p].interest = @ \ {sock[p].shadowfd},
                                ![p].revents = b]
    <3>1. sock[p].revents \in BOOLEAN
      BY <1>a DEF SockType
    <3> QED
      BY <3>1 DEF Unlock
  <2>3. [sock[p] EXCEPT !.locked = FALSE, !.interest = @ \ {sock[p].shadowfd},
                        !.revents = b] \in SockType
    BY <1>a DEF SockType
  <2> QED
    BY <1>a, <2>1, <2>2, <2>3
<1>1. CASE EventCall(p)
  <2>1. pc' \in [Proc -> PcType]
    BY <1>1 DEF TypeOK, EventCall, PcType, EventPc
  <2>2. workers' \in [Group -> Int]
    <3>1. Pgid[p] \in Group
      BY DEF Group
    <3> QED
      BY <1>1, <3>1 DEF TypeOK, EventCall
  <2> QED
    BY <1>1, <2>1, <2>2 DEF TypeOK, EventCall
<1>2. CASE Monitor(p)
  <2>1. pc' \in [Proc -> PcType]
    <3>1. Goto(p, "quit") \/ Goto(p, "terminate")
      BY <1>2 DEF Monitor
    <3>2. {"quit", "terminate"} \subseteq PcType
      BY DEF PcType, EventPc
    <3> QED
      BY <3>1, <3>2 DEF TypeOK
  <2>2. sem' \in [Sem -> {0, 1}]
    <3>1. Free(sock[p].statusSem) /\ sock[p].statusSem \in Sem
      BY <1>2, <1>c DEF Monitor, EventPc
    <3>2. SemWait(sock[p].statusSem) \/ sem' = sem
      BY <1>2 DEF Monitor
    <3> QED
      BY <3>1, <3>2, WaitTyped DEF TypeOK
  <2>3. sock' \in [Proc -> SockType]
    <3>1. \/ sock' = sock
          \/ sock' = [sock EXCEPT ![p].comfd = None, ![p].monitoring = FALSE]
      BY <1>2 DEF Monitor
    <3>2. [sock[p] EXCEPT !.comfd = None, !.monitoring = FALSE] \in SockType
      BY <1>a, <1>b DEF SockType
    <3> QED
      BY <1>a, <3>1, <3>2
  <2>4. reg' \in [Proc -> Int]
    BY <1>2 DEF TypeOK, StatusType, Monitor
  <2>5. status' \in StatusType
    <3>1. status \in StatusType /\ Pgid[p] \in Group
      BY DEF TypeOK, Group
    <3>2. \A v \in Nat : [status EXCEPT !.pgid = Pgid[p], !.version = v] \in StatusType
      BY <3>1 DEF StatusType
    <3>3. status.version + 1 \in Nat
      BY <3>1 DEF StatusType
    <3> QED
      BY <1>2, <3>1, <3>2, <3>3 DEF Monitor
  <2> QED
    BY <1>2, <2>1, <2>2, <2>3, <2>4, <2>5 DEF TypeOK, Monitor
<1>3. CASE QuitStore(p)
  <2>1. pc' \in [Proc -> PcType]
    BY <1>3 DEF TypeOK, QuitStore, PcType, EventPc
  <2>2. sem' \in [Sem -> {0, 1}]
    <3>1. Holds(p, sock[p].statusSem) /\ sock[p].statusSem \in Sem
      BY <1>3, <1>c DEF QuitStore, EventPc, Holds, Counting
    <3> QED
      BY <1>3, <3>1, PostTyped DEF TypeOK, LockInv, QuitStore
  <2>3. sock' \in [Proc -> SockType]
    <3>1. [sock[p] EXCEPT !.transfer = FALSE] \in SockType
      BY <1>a DEF SockType
    <3> QED
      BY <1>3, <1>a, <3>1 DEF QuitStore
  <2>4. reg' \in [Proc -> Int]
    BY <1>3 DEF TypeOK, QuitStore
  <2>5. status' \in StatusType
    <3>1. status \in StatusType /\ TransferLeft(p) \in Int
      BY DEF TypeOK, TransferLeft
    <3>2. [status EXCEPT !.transfer = TransferLeft(p)] \in StatusType
      BY <3>1 DEF StatusType
    <3> QED
      BY <1>3, <3>2 DEF QuitStore
  <2> QED
    BY <1>3, <2>1, <2>2, <2>3, <2>4, <2>5 DEF TypeOK, QuitStore
<1>4. CASE TerminationDetection(p)
  <2>1. pc' \in [Proc -> PcType]
    BY <1>4 DEF TypeOK, TerminationDetection, PcType, EventPc
  <2> QED
    BY <1>4, <2>1 DEF TypeOK, TerminationDetection
<1>5. CASE Terminate(p)
  <2>1. workers' \in [Group -> Int]
    BY <1>5 DEF TypeOK, Terminate, Group
  <2>2. CASE Die({p})
    BY <1>5, <2>1, <2>2, DieTyped DEF TypeOK, Terminate
  <2>3. CASE ~Die({p})
    <3>1. pc' \in [Proc -> PcType]
      BY <1>5, <2>3 DEF TypeOK, Terminate, PcType, EventPc
    <3> QED
      BY <1>5, <2>1, <2>3, <3>1 DEF TypeOK, Terminate
  <2> QED
    BY <2>2, <2>3
<1>6. CASE KillGroup(p)
  <2>1. Killed(p) \in SUBSET Proc
    BY DEF Killed
  <2> QED
    BY <1>6, <2>1, DieTyped DEF TypeOK, KillGroup
<1>7. CASE PreEvent(p)
  <2>1. pc' \in [Proc -> PcType]
    BY <1>7 DEF TypeOK, PreEvent, PcType, EventPc
  <2>2. sem' \in [Sem -> {0, 1}]
    <3>1. sock[p].fdSem \in Sem
      BY <1>7, <1>c DEF PreEvent, EventPc
    <3>2. (Free(sock[p].fdSem) /\ SemWait(sock[p].fdSem)) \/ sem' = sem
      BY <1>7 DEF PreEvent, TryLock
    <3> QED
      BY <3>1, <3>2, WaitTyped DEF TypeOK
  <2>3. sock' \in [Proc -> SockType]
    <3>1. PICK b \in BOOLEAN, I \in SUBSET (Fd \cup {None}) :
             sock' = sock \/ sock' = [sock EXCEPT ![p].locked = b, ![p].interest = I]
      <4>1. sock[p].locked \in BOOLEAN /\ sock[p].interest \in SUBSET (Fd \cup {None})
            /\ sock[p].comfd \in Fd \cup {None}
        BY <1>a DEF SockType
      <4> QED
        BY <1>7, <4>1 DEF PreEvent
    <3>2. [sock[p] EXCEPT !.locked = b, !.interest = I] \in SockType
      BY <1>a DEF SockType
    <3> QED
      BY <1>a, <3>1, <3>2
  <2>4. call' \in [Proc -> CallType]
    <3>1. PICK b \in BOOLEAN, h \in BOOLEAN :
             \/ call' = [call EXCEPT ![p].watch = b]
             \/ call' = [call EXCEPT ![p].watch = b, ![p].hurry = h]
      <4>1. /\ Registered(p) \in BOOLEAN
            /\ Watches(p, Exclusive /\ TryLock(p)) \in BOOLEAN
            /\ (status.transfer > 0 /\ Handler[p] = "select") \in BOOLEAN
        BY DEF Registered, Watches
      <4> QED
        BY <1>7, <4>1 DEF PreEvent
    <3>2. call \in [Proc -> CallType]
      BY DEF TypeOK
    <3>3. /\ [call[p] EXCEPT !.watch = b] \in CallType
          /\ [call[p] EXCEPT !.watch = b, !.hurry = h] \in CallType
      BY <3>2 DEF CallType
    <3> QED
      BY <3>1, <3>2, <3>3
  <2> QED
    BY <1>7, <2>1, <2>2, <2>3, <2>4 DEF TypeOK, PreEvent
<1>8. CASE Wake(p)
  <2>1. pc' \in [Proc -> PcType]
    BY <1>8 DEF TypeOK, Wake, PcType, EventPc
  <2>2. \A r \in ReadySets(p) : r \in ReadyType
    <3>1. TcpReady(p) \in BOOLEAN /\ ComReady(p) \in BOOLEAN
      BY DEF TcpReady, ComReady
    <3>2. sock[p].comfds \subseteq Proc
      BY <1>a DEF SockType
    <3>3. SUFFICES ASSUME NEW u \in {FALSE, sock[p].fds /= {}}
                   PROVE  [tcp |-> TcpReady(p), com |-> ComReady(p), user |-> u,
                           conns |-> {c \in sock[p].comfds : Readable(c)}]
                             \in ReadyType
      BY DEF ReadySets
    <3>4. u \in BOOLEAN
      OBVIOUS
    <3> QED
      BY <3>1, <3>2, <3>4 DEF ReadyType
  <2>3. call' \in [Proc -> CallType]
    <3>1. PICK r \in ReadySets(p) : \E h \in Handled(p, r) :
             call' = [call EXCEPT
                         ![p].ready = h,
                         ![p].overrun = Handler[p] = "poll" /\ (r.com \/ r.conns # {})]
      BY <1>8 DEF Wake
    <3>2. PICK h \in Handled(p, r), b \in BOOLEAN :
             call' = [call EXCEPT ![p].ready = h, ![p].overrun = b]
      BY <3>1
    <3>3. r \in ReadyType
      BY <2>2
    <3>4. h \in ReadyType
      <4>1. [r EXCEPT !.com = FALSE] \in ReadyType
        BY <3>3 DEF ReadyType
      <4>2. \A c : [r EXCEPT !.conns = @ \ {c}] \in ReadyType
        BY <3>3 DEF ReadyType
      <4> QED
        BY <3>2, <3>3, <4>1, <4>2 DEF Handled
    <3>5. call \in [Proc -> CallType]
      BY DEF TypeOK
    <3>6. [call[p] EXCEPT !.ready = h, !.overrun = b] \in CallType
      BY <3>4, <3>5 DEF CallType
    <3> QED
      BY <3>2, <3>5, <3>6
  <2> QED
    BY <1>8, <2>1, <2>3 DEF TypeOK, Wake
<1>9. CASE Timeout(p)
  <2>1. pc' \in [Proc -> PcType]
    BY <1>9 DEF TypeOK, Timeout, PcType, EventPc
  <2> QED
    BY <1>9, <2>1 DEF TypeOK, Timeout
<1>10. CASE Interrupt(p)
  <2>1. pc' \in [Proc -> PcType]
    BY <1>10 DEF TypeOK, Interrupt, PcType, AppPc
  <2>2. sem' \in [Sem -> {0, 1}] /\ sock' \in [Proc -> SockType]
    BY <1>10, <1>e DEF TypeOK, Interrupt
  <2>3. call' \in [Proc -> CallType]
    BY <1>10, NullRecords DEF TypeOK, Interrupt
  <2> QED
    BY <1>10, <2>1, <2>2, <2>3 DEF TypeOK, Interrupt
<1>11. CASE Post(p)
  <2>1. pc' \in [Proc -> PcType]
    BY <1>11 DEF TypeOK, Post, PcType, AppPc, EventPc
  <2>2. sem' \in [Sem -> {0, 1}] /\ sock' \in [Proc -> SockType]
    BY <1>11, <1>e DEF Post
  <2>3. call' \in [Proc -> CallType]
    BY <1>11, NullRecords DEF TypeOK, Post
  <2> QED
    BY <1>11, <2>1, <2>2, <2>3 DEF TypeOK, Post
<1>12. CASE PollTimeout(p)
  <2>1. pc' \in [Proc -> PcType]
    BY <1>12 DEF TypeOK, PollTimeout, PcType, AppPc
  <2>2. call' \in [Proc -> CallType]
    BY <1>12, NullRecords DEF TypeOK, PollTimeout
  <2> QED
    BY <1>12, <2>1, <2>2 DEF TypeOK, PollTimeout
<1>13. CASE ScanFault(p)
  <2>1. sem' \in [Sem -> {0, 1}]
    BY <1>13, <1>d DEF TypeOK, ScanFault
  <2>2. Die({p})
    BY <1>13 DEF ScanFault
  <2> QED
    BY <1>13, <2>1, <2>2, DieTyped DEF TypeOK, ScanFault
<1> QED
  BY <1>1, <1>2, <1>3, <1>4, <1>5, <1>6, <1>7, <1>8, <1>9, <1>10, <1>11, <1>12,
     <1>13

(* Handling one readable connection removes it from the ready ones.         *)
LEMMA TakesTypes ==
    ASSUME TypeOK, NEW p \in Proc, NEW c \in Proc, Takes(p, c)
    PROVE  call' \in [Proc -> CallType]
<1>1. call \in [Proc -> CallType]
  BY DEF TypeOK
<1>2. [call[p].ready EXCEPT !.conns = @ \ {c}] \in ReadyType
  BY <1>1 DEF CallType, ReadyType
<1>3. [call[p] EXCEPT !.ready = [call[p].ready EXCEPT !.conns = @ \ {c}]] \in CallType
  BY <1>1, <1>2 DEF CallType
<1> QED
  BY <1>1, <1>3 DEF Takes

(* Handling an internal connection keeps the types (select.c:40-148).       *)
LEMMA HandleTypes ==
    ASSUME TypeOK, LockInv, NEW p \in Proc, HandleStep(p)
    PROVE  TypeOK'
<1>a. sock[p] \in SockType /\ sock \in [Proc -> SockType]
  BY DEF TypeOK
<1>b. pc[p] \in EventPc => sock[p].statusSem \in Sem /\ sock[p].fdSem \in Sem
  BY DEF LockInv, SemsOpen
<1>1. CASE HandleAccept(p)
  <2>1. backlog \in [Proc -> Seq(Proc)]
    BY DEF TypeOK
  <2>2. \/ UNCHANGED <<backlog, sock>>
        \/ \E l \in Proc :
              /\ backlog[l] # <<>>
              /\ backlog' = [backlog EXCEPT ![l] = Tail(@)]
              /\ sock' = [sock EXCEPT ![p].comfds = @ \cup {Head(backlog[l])}]
    BY <1>1 DEF HandleAccept
  <2>3. \A l \in Proc : backlog[l] # <<>> =>
           /\ Head(backlog[l]) \in Proc
           /\ [backlog EXCEPT ![l] = Tail(@)] \in [Proc -> Seq(Proc)]
    BY <2>1, Popped
  <2>4. \A c \in Proc : [sock[p] EXCEPT !.comfds = @ \cup {c}] \in SockType
    BY <1>a DEF SockType
  <2>5. \A c \in Proc : [sock EXCEPT ![p].comfds = @ \cup {c}] \in [Proc -> SockType]
    BY <1>a, <2>4
  <2>6. backlog' \in [Proc -> Seq(Proc)] /\ sock' \in [Proc -> SockType]
    <3>1. CASE UNCHANGED <<backlog, sock>>
      BY <1>a, <2>1, <3>1
    <3>2. CASE ~UNCHANGED <<backlog, sock>>
      <4>1. PICK l \in Proc :
              /\ backlog[l] # <<>>
              /\ backlog' = [backlog EXCEPT ![l] = Tail(@)]
              /\ sock' = [sock EXCEPT ![p].comfds = @ \cup {Head(backlog[l])}]
        BY <2>2, <3>2
      <4>2. Head(backlog[l]) \in Proc
        BY <2>3, <4>1
      <4> QED
        BY <2>3, <2>5, <4>1, <4>2
    <3> QED
      BY <3>1, <3>2
  <2>7. call' \in [Proc -> CallType]
    <3>1. call \in [Proc -> CallType]
      BY DEF TypeOK
    <3>2. [call[p].ready EXCEPT !.com = FALSE] \in ReadyType
      <4>1. \A r \in ReadyType, b \in BOOLEAN : [r EXCEPT !.com = b] \in ReadyType
        BY DEF ReadyType
      <4>2. call[p].ready \in ReadyType
        BY <3>1 DEF CallType
      <4> QED
        BY <4>1, <4>2
    <3>3. [call[p] EXCEPT !.ready = [call[p].ready EXCEPT !.com = FALSE]] \in CallType
      BY <3>1, <3>2 DEF CallType
    <3> QED
      BY <1>1, <3>1, <3>3 DEF HandleAccept
  <2> QED
    BY <1>1, <2>6, <2>7 DEF TypeOK, HandleAccept
<1>2. ASSUME NEW c \in Proc, HandleClose(p, c) PROVE TypeOK'
  <2>1. call' \in [Proc -> CallType]
    BY <1>2, TakesTypes DEF HandleClose
  <2>2. [sock[p] EXCEPT !.comfds = ConnRemoved(p, c)] \in SockType
    BY <1>a DEF SockType, ConnRemoved
  <2>3. sock' \in [Proc -> SockType]
    BY <1>2, <1>a, <2>2 DEF HandleClose
  <2> QED
    BY <1>2, <2>1, <2>3 DEF TypeOK, HandleClose
<1>3. ASSUME NEW c \in Proc, HandleRace(p, c) PROVE TypeOK'
  BY <1>3, TakesTypes DEF TypeOK, HandleRace
<1>4. ASSUME NEW c \in Proc, HandleError(p, c) PROVE TypeOK'
  <2>1. call' \in [Proc -> CallType]
    BY <1>4, TakesTypes DEF HandleError
  <2>2. pc' \in [Proc -> PcType]
    BY <1>4 DEF TypeOK, HandleError, PcType, EventPc
  <2>3. peer' \in [Proc -> Proc \cup {None}]
    BY <1>4 DEF TypeOK, HandleError
  <2>4. reset' \subseteq Proc
    BY <1>4 DEF TypeOK, HandleError
  <2> QED
    BY <1>4, <2>1, <2>2, <2>3, <2>4 DEF TypeOK, HandleError
<1>5. ASSUME NEW c \in Proc, HandleRequest(p, c) PROVE TypeOK'
  <2>1. call' \in [Proc -> CallType]
    BY <1>5, TakesTypes DEF HandleRequest
  <2>2. pc' \in [Proc -> PcType]
    BY <1>5 DEF TypeOK, HandleRequest, PcType, EventPc
  <2>3. peer' \in [Proc -> Proc \cup {None}]
    BY <1>5 DEF TypeOK, HandleRequest
  <2>4. request' \in [Proc -> {"none", "unread", "read"}]
    BY <1>5 DEF TypeOK, HandleRequest
  <2> QED
    BY <1>5, <2>1, <2>2, <2>3, <2>4 DEF TypeOK, HandleRequest
<1>6. CASE CountLoad(p)
  <2>1. pc' \in [Proc -> PcType]
    BY <1>6 DEF TypeOK, CountLoad, PcType, EventPc
  <2>2. sem' \in [Sem -> {0, 1}]
    <3>1. Free(sock[p].statusSem) /\ sock[p].statusSem \in Sem
      BY <1>6, <1>b DEF CountLoad, EventPc
    <3>2. SemWait(sock[p].statusSem) \/ sem' = sem
      BY <1>6 DEF CountLoad
    <3> QED
      BY <3>1, <3>2, WaitTyped DEF TypeOK
  <2>3. reg' \in [Proc -> Int]
    BY <1>6 DEF TypeOK, StatusType, CountLoad
  <2> QED
    BY <1>6, <2>1, <2>2, <2>3 DEF TypeOK, CountLoad
<1>7. CASE CountStore(p)
  <2>1. pc' \in [Proc -> PcType]
    BY <1>7 DEF TypeOK, CountStore, PcType, EventPc
  <2>2. sem' \in [Sem -> {0, 1}]
    <3>1. Holds(p, sock[p].statusSem) /\ sock[p].statusSem \in Sem
      BY <1>7, <1>b DEF CountStore, EventPc, Holds, Counting
    <3> QED
      BY <1>7, <3>1, PostTyped DEF TypeOK, LockInv, CountStore
  <2>3. sock' \in [Proc -> SockType]
    <3>1. \A b \in BOOLEAN : [sock[p] EXCEPT !.transfer = b] \in SockType
      BY <1>a DEF SockType
    <3> QED
      BY <1>7, <1>a, <3>1 DEF CountStore
  <2>4. reg' \in [Proc -> Int]
    BY <1>7 DEF TypeOK, CountStore
  <2>5. status' \in StatusType
    <3>1. status \in StatusType /\ reg[p] + 1 \in Int
      BY DEF TypeOK
    <3>2. \A n \in Int : [status EXCEPT !.transfer = n] \in StatusType
      BY <3>1 DEF StatusType
    <3> QED
      BY <1>7, <3>1, <3>2 DEF CountStore
  <2> QED
    BY <1>7, <2>1, <2>2, <2>3, <2>4, <2>5 DEF TypeOK, CountStore
<1>c. ASSUME NEW fd \in Fd \cup {None}, NEW next \in EventPc,
             \/ WriteFd(p, fd, next) /\ UNCHANGED <<live, request>>
             \/ WriteKills(p, fd)
      PROVE  /\ pc' \in [Proc -> PcType] /\ sock' \in [Proc -> SockType]
             /\ call' \in [Proc -> CallType] /\ reg' \in [Proc -> Int]
             /\ replies' \in [Proc -> Seq(Fd)] /\ reset' \subseteq Proc
             /\ UNCHANGED <<live, request>>
  <2>1. CASE WriteKills(p, fd)
    BY <2>1, DieTyped DEF WriteKills
  <2>2. CASE WriteFd(p, fd, next) /\ UNCHANGED <<live, request>>
    <3>1. pc' \in [Proc -> PcType]
      BY <2>2 DEF WriteFd, TypeOK, PcType
    <3>2. \/ replies' = replies
          \/ fd \in Fd /\ replies' = [replies EXCEPT ![peer[p]] = Append(@, fd)]
      BY <2>2 DEF WriteFd
    <3>3. replies \in [Proc -> Seq(Fd)] /\ peer[p] \in Proc \cup {None}
      BY DEF TypeOK
    <3>4. fd \in Fd /\ peer[p] \in Proc =>
            [replies EXCEPT ![peer[p]] = Append(@, fd)] \in [Proc -> Seq(Fd)]
      BY <3>3, Appended
    <3>5. peer[p] \notin Proc =>
            [replies EXCEPT ![peer[p]] = Append(@, fd)] \in [Proc -> Seq(Fd)]
      BY <3>3
    <3>6. replies' \in [Proc -> Seq(Fd)]
      BY <3>2, <3>3, <3>4, <3>5
    <3> QED
      BY <2>2, <3>1, <3>6 DEF WriteFd, TypeOK
  <2> QED
    BY <1>c, <2>1, <2>2
<1>d. sock[p].shadowfd \in Fd \cup {None} /\ sock[p].comfd \in Fd \cup {None}
  BY <1>a DEF SockType
<1>e. {"handle", "reply2"} \subseteq EventPc
  BY DEF EventPc
<1>8. CASE ReplyShadow(p)
  <2>1. \/ /\ WriteFd(p, sock[p].shadowfd, "reply2")
           /\ UNCHANGED <<live, request>> /\ peer' = peer
        \/ WriteKills(p, sock[p].shadowfd)
    BY <1>8 DEF ReplyShadow
  <2>2. peer' \in [Proc -> Proc \cup {None}]
    BY <2>1, DieTyped DEF WriteKills, TypeOK
  <2> QED
    BY <1>8, <1>c, <1>d, <1>e, <2>1, <2>2 DEF TypeOK, ReplyShadow
<1>9. CASE ReplyComfd(p)
  <2>1. \/ /\ WriteFd(p, sock[p].comfd, "handle")
           /\ UNCHANGED <<live, request>> /\ peer' = [peer EXCEPT ![p] = None]
        \/ WriteKills(p, sock[p].comfd)
    BY <1>9 DEF ReplyComfd
  <2>2. peer' \in [Proc -> Proc \cup {None}]
    BY <2>1, DieTyped DEF WriteKills, TypeOK
  <2> QED
    BY <1>9, <1>c, <1>d, <1>e, <2>1, <2>2 DEF TypeOK, ReplyComfd
<1> QED
  BY <1>1, <1>2, <1>3, <1>4, <1>5, <1>6, <1>7, <1>8, <1>9 DEF HandleStep

(* Clients, starts, forks, signals and crashes keep the types.              *)
LEMMA EnvironmentTypes ==
    ASSUME TypeOK, LockInv, Environment
    PROVE  TypeOK'
<1>1. ASSUME NEW c \in Client, ClientConnect(c) PROVE TypeOK'
  <2>1. visited' \subseteq Client
    BY <1>1 DEF TypeOK, ClientConnect
  <2>2. queue' \in [Proc -> SUBSET Client]
    <3>1. queue \in [Proc -> SUBSET Client]
      BY DEF TypeOK
    <3>2. PICK t : queue' = [queue EXCEPT ![t] = @ \cup {c}]
      BY <1>1 DEF ClientConnect
    <3> QED
      BY <3>1, <3>2
  <2> QED
    BY <1>1, <2>1, <2>2 DEF TypeOK, ClientConnect
<1>2. ASSUME NEW p \in Proc, Start(p) PROVE TypeOK'
  <2>1. pc' \in [Proc -> PcType]
    BY <1>2 DEF TypeOK, Start, PcType, BindPc
  <2>2. sock' \in [Proc -> SockType]
    BY <1>2, NullRecords DEF TypeOK, Start
  <2> QED
    BY <1>2, <2>1, <2>2 DEF TypeOK, Start
<1>3. ASSUME NEW p \in Proc, Interrupt(p) PROVE TypeOK'
  BY <1>3, EventTypes
<1>4. ASSUME NEW p \in Proc, Crash(p) PROVE TypeOK'
  BY <1>4, DieTyped DEF TypeOK, Crash
<1>5. ASSUME NEW p \in Proc, NEW q \in Proc, Fork(p, q) PROVE TypeOK'
  <2>1. pc' \in [Proc -> PcType]
    BY <1>5 DEF TypeOK, Fork, PcType, AppPc
  <2>2. sock' \in [Proc -> SockType] /\ live' \in [Proc -> BOOLEAN]
    BY <1>5 DEF TypeOK, Fork
  <2> QED
    BY <1>5, <2>1, <2>2 DEF TypeOK, Fork
<1> QED
  BY <1>1, <1>2, <1>3, <1>4, <1>5 DEF Environment

(* TypeOK is inductive relative to the locks.                               *)
LEMMA TypesPreserved == TypeOK /\ LockInv /\ [Step]_vars => TypeOK'
<1> SUFFICES ASSUME TypeOK, LockInv, [Step]_vars PROVE TypeOK'
  OBVIOUS
<1>1. ASSUME NEW p \in Proc, EventStep(p) PROVE TypeOK'
  BY <1>1, EventTypes, HandleTypes DEF EventStep
<1>2. CASE UNCHANGED vars
  BY <1>2 DEF TypeOK, vars
<1> QED
  BY <1>1, <1>2, BindTypes, AppTypes, EnvironmentTypes DEF Step, ProcessStep

(* The initial states are well typed.                                       *)
LEMMA InitialTypes == Init => TypeOK
<1> SUFFICES ASSUME Init PROVE TypeOK
  OBVIOUS
<1>1. status \in StatusType
  BY DEF Init, Leftover, StatusType
<1>2. pc \in [Proc -> PcType]
  BY DEF Init, PcType
<1>3. <<>> \in Seq(Proc) /\ <<>> \in Seq(Fd)
  OBVIOUS
<1> QED
  BY <1>1, <1>2, <1>3, NullRecords DEF Init, TypeOK

-----------------------------------------------------------------------------
(* Every action preserves the invariant of the locks.  Six kinds of steps   *)
(* matter: those that leave the semaphores alone, the death of processes,   *)
(* and taking and giving back the one and the other semaphore.              *)

Unready == {"none", "bind", "listen", "connect", "send", "recv1", "recv2",
            "inherit1", "sem1"}
Ready == {"version", "fresh", "tcpbind"} \cup EventPc \cup AppPc
CountingPc == {"quit", "store"}

SameSems(q) == sock'[q].statusSem = sock[q].statusSem /\ sock'[q].fdSem = sock[q].fdSem
SameLocks(q) == SameSems(q) /\ sock'[q].locked = sock[q].locked

(* A step of p that touches no semaphore preserves the locks, when it keeps *)
(* p on the same side of having its semaphores and does not leave the event *)
(* function with a lock, other than one it kept before.                     *)
LEMMA PlainStep ==
    ASSUME TypeOK, LockInv, NEW p \in Proc, NEW b \in PcType,
           Goto(p, b),
           \/ pc[p] \in Unready /\ b \in Unready
           \/ /\ pc[p] \in Ready \ CountingPc
              /\ b \in Ready \ CountingPc
              /\ \/ b \in EventPc \/ ~sock[p].locked
                 \/ pc[p] \in AppPc /\ b \in AppPc,
           b \in EventPc => live'[p],
           \A q \in Proc : SameLocks(q) /\ (live[q] => live'[q]),
           UNCHANGED <<sem, semName>>
    PROVE  LockInv'
<1> USE DEF LockInv, SameLocks, SameSems, Goto
<1>1. SemsOpen'
  BY DEF TypeOK, SemsOpen, Unready, Ready, EventPc, AppPc
<1>2. UncreatedUnknown'
  <2>1. \A q \in Proc : Uncreated(q)' \subseteq Uncreated(q)
    BY DEF TypeOK, Uncreated, Unready, Ready, EventPc, AppPc
  <2> QED
    BY <2>1 DEF UncreatedUnknown
<1>3. LockedInside'
  <2>1. pc' = [pc EXCEPT ![p] = b] /\ pc \in [Proc -> PcType]
    BY DEF TypeOK
  <2>2. sock[p].locked => pc[p] \notin Unready
    BY DEF LockedInside, Unready, EventPc, AppPc
  <2>3. sock[p].locked => b \in EventPc \/ (pc[p] \in AppPc /\ b \in EventPc \cup AppPc)
    BY <2>2
  <2>4. EventPc \cap AppPc = {}
    BY DEF EventPc, AppPc
  <2> QED
    BY <2>1, <2>3, <2>4 DEF LockedInside
<1>4. LockExclusive'
  <2>1. \A q \in Proc, s \in Sem : Holds(q, s)' => Holds(q, s)
    BY DEF TypeOK, Holds, Counting, Unready, Ready, CountingPc
  <2> QED
    BY <2>1 DEF LockExclusive
<1>l. InsideLive'
  BY DEF TypeOK, InsideLive, Unready, Ready
<1> QED
  BY <1>1, <1>2, <1>3, <1>4, <1>l

(* Processes that end release nothing: who held a lock is gone and the      *)
(* semaphore stays taken.                                                   *)
LEMMA DeathStep ==
    ASSUME TypeOK, LockInv, NEW D \in SUBSET Proc, Die(D),
           UNCHANGED <<sem, semName>>
    PROVE  LockInv'
<1>1. \A q \in Proc : \/ q \notin D /\ SameLocks(q) /\ pc'[q] = pc[q]
                      \/ /\ q \in D /\ pc'[q] = "dead"
                         /\ sock'[q].statusSem = None /\ sock'[q].fdSem = None
                         /\ sock'[q].locked = FALSE
  BY DEF Die, NoSock, SameLocks, SameSems
<1>2. live' = live
  BY DEF Die
<1> USE DEF LockInv, SameLocks, SameSems
<1>3. SemsOpen'
  BY <1>1 DEF SemsOpen, EventPc, AppPc
<1>4. UncreatedUnknown'
  <2>1. \A q \in Proc : Uncreated(q)' \subseteq Uncreated(q)
    BY <1>1 DEF Uncreated
  <2>2. \A q \in Proc : None \notin Uncreated(q)
    BY NoneAssumption DEF Uncreated, Sem
  <2> QED
    BY <1>1, <2>1, <2>2 DEF UncreatedUnknown
<1>5. LockedInside'
  BY <1>1, <1>2 DEF LockedInside
<1>6. LockExclusive'
  <2>1. \A q \in Proc, s \in Sem : Holds(q, s)' => Holds(q, s)
    BY <1>1, NoneAssumption DEF Holds, Counting
  <2> QED
    BY <2>1 DEF LockExclusive
<1>l. InsideLive'
  BY <1>1, <1>2 DEF InsideLive, EventPc
<1> QED
  BY <1>3, <1>4, <1>5, <1>6, <1>l

(* status_sem is taken for a section of two steps and given back.           *)
LEMMA TakeStatus ==
    ASSUME TypeOK, LockInv, NEW p \in Proc, NEW b \in CountingPc,
           Goto(p, b), pc[p] \in EventPc \ CountingPc,
           Free(sock[p].statusSem), SemWait(sock[p].statusSem),
           \A q \in Proc : SameLocks(q),
           UNCHANGED <<semName, live>>
    PROVE  LockInv'
<1> USE DEF LockInv, SameLocks, SameSems, Goto
<1> DEFINE t == sock[p].statusSem
<1>0. t \in Sem /\ b \in EventPc
  BY DEF SemsOpen, EventPc, CountingPc
<1>1. SemsOpen'
  BY <1>0 DEF TypeOK, SemsOpen, EventPc
<1>2. UncreatedUnknown'
  <2>1. \A q \in Proc : Uncreated(q)' \subseteq Uncreated(q)
    BY <1>0 DEF TypeOK, Uncreated, EventPc
  <2> QED
    BY <2>1 DEF UncreatedUnknown
<1>3. LockedInside'
  <2>1. \A q \in Proc : q # p => pc'[q] = pc[q]
    BY DEF TypeOK
  <2>2. pc'[p] \in EventPc /\ pc'[p] \notin AppPc
    BY <1>0 DEF TypeOK, EventPc, AppPc, CountingPc
  <2> QED
    BY <2>1, <2>2 DEF LockedInside
<1>4. LockExclusive'
  <2>1. sem[t] = 1 /\ sem' = [sem EXCEPT ![t] = 0]
    BY <1>0, WaitTyped DEF TypeOK
  <2>2. \A q \in Proc : ~Holds(q, t)
    BY <1>0, <2>1 DEF LockExclusive
  <2>3. \A q \in Proc, s \in Sem :
           Holds(q, s)' => Holds(q, s) \/ (q = p /\ s = t)
    BY DEF TypeOK, Holds, Counting
  <2> QED
    BY <1>0, <2>1, <2>2, <2>3 DEF TypeOK, LockExclusive
<1>l. InsideLive'
  BY DEF TypeOK, InsideLive
<1> QED
  BY <1>1, <1>2, <1>3, <1>4, <1>l

(* The second step of a status section posts what the first has taken.      *)
LEMMA GiveStatus ==
    ASSUME TypeOK, LockInv, NEW p \in Proc, NEW b \in EventPc \ CountingPc,
           Goto(p, b), pc[p] \in CountingPc,
           SemPost(sock[p].statusSem),
           \A q \in Proc : SameLocks(q),
           UNCHANGED <<semName, live>>
    PROVE  LockInv'
<1> USE DEF LockInv, SameLocks, SameSems, Goto
<1> DEFINE t == sock[p].statusSem
<1>0. t \in Sem /\ pc[p] \in EventPc /\ Holds(p, t)
  BY DEF SemsOpen, EventPc, CountingPc, Holds, Counting
<1>1. SemsOpen'
  BY <1>0 DEF TypeOK, SemsOpen, EventPc
<1>2. UncreatedUnknown'
  <2>1. \A q \in Proc : Uncreated(q)' \subseteq Uncreated(q)
    BY <1>0 DEF TypeOK, Uncreated, EventPc
  <2> QED
    BY <2>1 DEF UncreatedUnknown
<1>3. LockedInside'
  <2>1. \A q \in Proc : q # p => pc'[q] = pc[q]
    BY DEF TypeOK
  <2>2. pc'[p] \in EventPc /\ pc'[p] \notin AppPc
    BY <1>0 DEF TypeOK, EventPc, AppPc, CountingPc
  <2> QED
    BY <2>1, <2>2 DEF LockedInside
<1>4. LockExclusive'
  <2>1. sem[t] = 0 /\ sem' = [sem EXCEPT ![t] = 1]
    BY <1>0, PostTyped DEF TypeOK
  <2>2. \A q \in Proc : Holds(q, t) => q = p
    BY <1>0 DEF LockExclusive
  <2>3. \A q \in Proc, s \in Sem : Holds(q, s)' => Holds(q, s)
    BY DEF TypeOK, Holds, Counting, CountingPc
  <2>4. ~Holds(p, t)'
    BY DEF TypeOK, Holds, Counting, CountingPc, LockedInside
  <2> QED
    BY <1>0, <2>1, <2>2, <2>3, <2>4 DEF TypeOK, LockExclusive
<1>l. InsideLive'
  BY DEF TypeOK, InsideLive, EventPc, CountingPc
<1> QED
  BY <1>1, <1>2, <1>3, <1>4, <1>l

(* fd_sem is taken by sem_trywait and given back after the wait.            *)
LEMMA TakeFd ==
    ASSUME TypeOK, LockInv, NEW p \in Proc, Goto(p, "wait"), pc[p] = "pre", live[p],
           TryLock(p), SemWait(sock[p].fdSem),
           \A q \in Proc : SameSems(q) /\ (q # p => SameLocks(q)),
           UNCHANGED <<semName, live>>
    PROVE  LockInv'
<1> USE DEF LockInv, SameLocks, SameSems, Goto
<1> DEFINE t == sock[p].fdSem
<1>0. t \in Sem /\ t # sock[p].statusSem /\ Free(t)
  BY DEF SemsOpen, EventPc, TryLock
<1>1. SemsOpen'
  BY <1>0 DEF TypeOK, SemsOpen, EventPc
<1>2. UncreatedUnknown'
  <2>1. \A q \in Proc : Uncreated(q)' \subseteq Uncreated(q)
    BY DEF TypeOK, Uncreated
  <2> QED
    BY <2>1 DEF UncreatedUnknown
<1>3. LockedInside'
  <2>1. \A q \in Proc : q # p => pc'[q] = pc[q]
    BY DEF TypeOK
  <2>2. pc'[p] \in EventPc /\ pc'[p] \notin AppPc
    BY DEF TypeOK, EventPc, AppPc
  <2> QED
    BY <1>0, <2>1, <2>2 DEF LockedInside
<1>4. LockExclusive'
  <2>1. sem[t] = 1 /\ sem' = [sem EXCEPT ![t] = 0]
    BY <1>0, WaitTyped DEF TypeOK
  <2>2. \A q \in Proc : ~Holds(q, t)
    BY <1>0, <2>1 DEF LockExclusive
  <2>3. \A q \in Proc, s \in Sem :
           Holds(q, s)' => Holds(q, s) \/ (q = p /\ s = t)
    BY DEF TypeOK, Holds, Counting
  <2> QED
    BY <1>0, <2>1, <2>2, <2>3 DEF TypeOK, LockExclusive
<1>l. InsideLive'
  BY DEF TypeOK, InsideLive
<1> QED
  BY <1>1, <1>2, <1>3, <1>4, <1>l

(* The return from the event function posts fd_sem exactly if it is held.   *)
LEMMA GiveFd ==
    ASSUME TypeOK, LockInv, NEW p \in Proc, NEW b \in {"user", "accept", "monitor"},
           Goto(p, b), pc[p] \in {"wait", "handle"}, Unlock(p),
           UNCHANGED <<semName, live>>
    PROVE  LockInv'
<1> USE DEF LockInv, SameLocks, SameSems, Goto
<1>a. \A q \in Proc : /\ SameSems(q) /\ (q # p => SameLocks(q))
                      /\ sock'[p].locked = FALSE
  <2>1. sock \in [Proc -> SockType]
    BY DEF TypeOK
  <2>2. \A q \in Proc : q # p => sock'[q] = sock[q]
    BY <2>1 DEF Unlock
  <2>3. \E I, r : sock'[p] = [sock[p] EXCEPT !.locked = FALSE, !.interest = I,
                                             !.revents = r]
    BY <2>1 DEF Unlock
  <2>4. SameSems(p) /\ sock'[p].locked = FALSE
    BY <2>1, <2>3 DEF SockType
  <2> QED
    BY <2>2, <2>4
<1>1. SemsOpen'
  BY <1>a DEF TypeOK, SemsOpen, EventPc, AppPc
<1>2. UncreatedUnknown'
  <2>1. \A q \in Proc : Uncreated(q)' \subseteq Uncreated(q)
    BY DEF TypeOK, Uncreated
  <2> QED
    BY <1>a, <2>1 DEF UncreatedUnknown
<1>3. LockedInside'
  <2>1. \A q \in Proc : q # p => pc'[q] = pc[q]
    BY DEF TypeOK
  <2> QED
    BY <1>a, <2>1 DEF LockedInside
<1>4. \A q \in Proc, s \in Sem : Holds(q, s)' => Holds(q, s) /\ q # p
  BY <1>a DEF TypeOK, Holds, Counting
<1>5. LockExclusive'
  <2>1. CASE sock[p].locked
    <3> DEFINE t == sock[p].fdSem
    <3>1. t \in Sem /\ Holds(p, t) /\ SemPost(t)
      BY <2>1 DEF LockedInside, Holds, Unlock
    <3>2. sem' = [sem EXCEPT ![t] = 1]
      BY <3>1, PostTyped DEF TypeOK
    <3>3. \A q \in Proc : Holds(q, t) => q = p
      BY <3>1 DEF LockExclusive
    <3> QED
      BY <1>4, <3>1, <3>2, <3>3 DEF TypeOK, LockExclusive
  <2>2. CASE ~sock[p].locked
    BY <1>4, <2>2 DEF LockExclusive, Unlock
  <2> QED
    BY <2>1, <2>2
<1>l. InsideLive'
  BY DEF TypeOK, InsideLive, EventPc
<1> QED
  BY <1>1, <1>2, <1>3, <1>5, <1>l

(* sem_open: the first one sets status_sem, the second fd_sem.  An object   *)
(* that it creates is still unknown, and is known to p from then on.        *)
LEMMA OpenStep ==
    ASSUME TypeOK, LockInv, NEW p \in Proc, NEW k \in {"status", "fd"},
           NEW s \in Sem, NEW b \in {"inherit2", "sem2", "version", "fresh"},
           Goto(p, b),
           \/ /\ k = "status" /\ pc[p] \in {"inherit1", "sem1"}
              /\ b \in {"inherit2", "sem2"}
              /\ sock'[p].statusSem = s /\ sock'[p].fdSem = sock[p].fdSem
           \/ /\ k = "fd" /\ pc[p] \in {"inherit2", "sem2"}
              /\ b \in {"version", "fresh"}
              /\ sock'[p].fdSem = s /\ sock'[p].statusSem = sock[p].statusSem,
           \/ s = semName /\ sem' = sem
           \/ s = <<p, k>> /\ sem' = [sem EXCEPT ![s] = 1],
           semName' = s,
           \A q \in Proc : (q # p => SameSems(q)) /\ sock'[q].locked = sock[q].locked,
           UNCHANGED live
    PROVE  LockInv'
<1> USE DEF LockInv, SameSems, Goto
<1>a. pc' = [pc EXCEPT ![p] = b] /\ pc \in [Proc -> PcType]
  BY DEF TypeOK
<1>b. ~sock[p].locked
  BY DEF LockedInside, EventPc, AppPc
<1>c. \A q \in Proc : Uncreated(q)' \subseteq Uncreated(q)
  <2>1. Uncreated(p)' \subseteq Uncreated(p)
    BY <1>a DEF Uncreated
  <2>2. \A q \in Proc : q # p => Uncreated(q)' = Uncreated(q)
    BY <1>a DEF Uncreated
  <2> QED
    BY <2>1, <2>2
<1>d. \A q \in Proc : s \notin Uncreated(q)'
  <2>1. CASE s = semName
    BY <1>c, <2>1 DEF UncreatedUnknown
  <2>2. CASE s = <<p, k>>
    <3>1. s \notin Uncreated(p)'
      BY <1>a, <2>2 DEF Uncreated
    <3>2. \A q \in Proc : q # p => s \notin Uncreated(q)'
      BY <1>c, <2>2 DEF Uncreated
    <3> QED
      BY <3>1, <3>2
  <2> QED
    BY <2>1, <2>2
<1>e. sem' = sem \/ (s \in Uncreated(p) /\ sem' = [sem EXCEPT ![s] = 1])
  BY DEF Uncreated
<1>1. SemsOpen'
  <2>1. \A q \in Proc : q # p => pc'[q] = pc[q] /\ SameSems(q)
    BY <1>a
  <2>2. pc'[p] = b
    BY <1>a
  <2>3. pc[p] \in {"inherit2", "sem2"} => sock[p].statusSem \in Sem
    BY DEF SemsOpen
  <2>4. b \notin EventPc \cup AppPc
    BY DEF EventPc, AppPc
  <2>5. b \in {"version", "fresh"} => sock'[p].fdSem \in Sem /\ sock'[p].statusSem \in Sem
    BY <2>3
  <2>6. b \in {"inherit2", "sem2"} => sock'[p].statusSem \in Sem
    OBVIOUS
  <2> QED
    BY <2>1, <2>2, <2>4, <2>5, <2>6 DEF SemsOpen
<1>2. UncreatedUnknown'
  BY <1>c, <1>d DEF UncreatedUnknown
<1>3. LockedInside'
  BY <1>a, <1>b DEF LockedInside
<1>4. InsideLive'
  BY <1>a DEF InsideLive, EventPc
<1>5. LockExclusive'
  <2>1. \A q \in Proc, r \in Sem : Holds(q, r)' => Holds(q, r) /\ q # p
    BY <1>a, <1>b DEF Holds, Counting
  <2>2. \A q \in Proc : s \in Uncreated(p) => ~Holds(q, s)
    BY DEF UncreatedUnknown, Holds
  <2> QED
    BY <1>e, <2>1, <2>2 DEF TypeOK, LockExclusive
<1> QED
  BY <1>1, <1>2, <1>3, <1>4, <1>5

(* A child shares its parent's semaphores.  It must not share a lock.       *)
LEMMA ForkStep ==
    ASSUME TypeOK, LockInv, ~(LateFork /\ KeepsLock),
           NEW p \in Proc, NEW q \in Proc, Fork(p, q)
    PROVE  LockInv'
<1> USE DEF LockInv, Goto
<1>a. /\ pc' = [pc EXCEPT ![q] = "user"] /\ pc \in [Proc -> PcType]
      /\ sock' = [sock EXCEPT ![q] = sock[p]] /\ sock \in [Proc -> SockType]
      /\ live' = [live EXCEPT ![q] = live[p]]
      /\ sem' = sem /\ semName' = semName
      /\ pc[p] = "user" /\ pc[q] = "none"
  BY DEF TypeOK, Fork
<1>b. ~sock[p].locked
  BY DEF Fork, LockedInside, AppPc
<1>c. \A r \in Proc : Uncreated(r)' \subseteq Uncreated(r)
  BY <1>a DEF Uncreated
<1>1. SemsOpen'
  BY <1>a DEF SemsOpen, EventPc, AppPc
<1>2. UncreatedUnknown'
  BY <1>a, <1>c DEF UncreatedUnknown
<1>3. LockedInside'
  BY <1>a, <1>b DEF LockedInside
<1>4. InsideLive'
  BY <1>a DEF InsideLive, EventPc
<1>5. LockExclusive'
  <2>1. \A r \in Proc, s \in Sem : Holds(r, s)' => Holds(r, s)
    BY <1>a, <1>b DEF Holds, Counting
  <2> QED
    BY <1>a, <2>1 DEF LockExclusive
<1> QED
  BY <1>1, <1>2, <1>3, <1>4, <1>5

(* A new process knows no semaphore.                                        *)
LEMMA StartStep ==
    ASSUME TypeOK, LockInv, NEW p \in Proc, Start(p)
    PROVE  LockInv'
<1> USE DEF LockInv, Goto
<1>a. /\ pc' = [pc EXCEPT ![p] = "bind"] /\ pc \in [Proc -> PcType]
      /\ live' = live /\ sem' = sem /\ semName' = semName
      /\ pc[p] = "none"
  BY DEF TypeOK, Start
<1>b. /\ \A q \in Proc : q # p => sock'[q] = sock[q]
      /\ sock'[p].statusSem = None /\ sock'[p].fdSem = None /\ sock'[p].locked = FALSE
  BY DEF TypeOK, Start, NewSock, NoSock
<1>c. \A r \in Proc : Uncreated(r)' \subseteq Uncreated(r)
  BY <1>a DEF Uncreated
<1>d. \A r \in Proc : None \notin Uncreated(r)
  BY NoneAssumption DEF Uncreated, Sem
<1>1. SemsOpen'
  BY <1>a, <1>b DEF SemsOpen, EventPc, AppPc
<1>2. UncreatedUnknown'
  BY <1>a, <1>b, <1>c, <1>d DEF UncreatedUnknown
<1>3. LockedInside'
  BY <1>a, <1>b DEF LockedInside
<1>4. InsideLive'
  BY <1>a DEF InsideLive, EventPc
<1>5. LockExclusive'
  <2>1. \A r \in Proc, s \in Sem : Holds(r, s)' => Holds(r, s)
    BY <1>a, <1>b, NoneAssumption DEF Holds, Counting
  <2> QED
    BY <1>a, <2>1 DEF LockExclusive
<1> QED
  BY <1>1, <1>2, <1>3, <1>4, <1>5

(* Steps that move no process.                                              *)
LEMMA QuietStep ==
    ASSUME LockInv, \A q \in Proc : SameLocks(q),
           UNCHANGED <<pc, live, sem, semName>>
    PROVE  LockInv'
<1> USE DEF LockInv, SameLocks, SameSems
<1>1. SemsOpen'
  BY DEF SemsOpen
<1>2. UncreatedUnknown'
  <2>1. \A q \in Proc : Uncreated(q)' = Uncreated(q)
    BY DEF Uncreated
  <2> QED
    BY <2>1 DEF UncreatedUnknown
<1>3. LockedInside' /\ InsideLive'
  BY DEF LockedInside, InsideLive
<1>4. LockExclusive'
  <2>1. \A q \in Proc, s \in Sem : Holds(q, s)' = Holds(q, s)
    BY DEF Holds, Counting
  <2> QED
    BY <2>1 DEF LockExclusive
<1> QED
  BY <1>1, <1>2, <1>3, <1>4

(* The steps of bind() preserve the locks: whoever opens the semaphore name *)
(* gets an object without changing its value, or one nobody knows.          *)
LEMMA BindLocks ==
    ASSUME TypeOK, LockInv, NEW p \in Proc, BindStep(p)
    PROVE  LockInv'
<1>t. sock \in [Proc -> SockType]
  BY DEF TypeOK
<1>u. {p} \in SUBSET Proc
  OBVIOUS
<1> USE DEF Unready, Ready, CountingPc, EventPc, AppPc, BindPc, PcType
<1>1. CASE MonitorBind(p)
  <2>1. PICK b \in {"listen", "connect"} : Goto(p, b)
    BY <1>1 DEF MonitorBind
  <2>2. pc[p] = "bind" /\ UNCHANGED <<live, sock, sem, semName>>
    BY <1>1 DEF MonitorBind
  <2>3. \A q \in Proc : SameLocks(q)
    BY <2>2 DEF SameLocks, SameSems
  <2> HIDE DEF Goto
  <2> QED
    BY <2>1, <2>2, <2>3, PlainStep
<1>2. CASE MonitorListen(p)
  <2>1. Goto(p, "sem1") /\ pc[p] = "listen" /\ UNCHANGED <<live, sock, sem, semName>>
    BY <1>2 DEF MonitorListen
  <2>2. \A q \in Proc : SameLocks(q)
    BY <2>1 DEF SameLocks, SameSems
  <2> HIDE DEF Goto
  <2> QED
    BY <2>1, <2>2, PlainStep
<1>3. CASE Connect(p)
  <2>1. PICK b \in {"send", "sem1"} : Goto(p, b)
    BY <1>3 DEF Connect
  <2>2. pc[p] = "connect" /\ UNCHANGED <<live, sock, sem, semName>>
    BY <1>3 DEF Connect
  <2>3. \A q \in Proc : SameLocks(q)
    BY <2>2 DEF SameLocks, SameSems
  <2> HIDE DEF Goto
  <2> QED
    BY <2>1, <2>2, <2>3, PlainStep
<1>4. CASE SendPort(p)
  <2>1. pc[p] = "send" /\ UNCHANGED <<sem, semName>>
    BY <1>4 DEF SendPort
  <2>2. CASE Die({p})
    <3> HIDE DEF PcType
    <3> QED
      BY <1>u, <2>1, <2>2, DeathStep
  <2>3. CASE ~Die({p})
    <3>1. PICK b \in {"recv1", "sem1"} : Goto(p, b)
      BY <1>4, <2>3 DEF SendPort
    <3>2. UNCHANGED <<live, sock>>
      BY <1>4, <2>3 DEF SendPort
    <3>3. \A q \in Proc : SameLocks(q)
      BY <3>2 DEF SameLocks, SameSems
    <3> HIDE DEF Goto
    <3> QED
      BY <2>1, <3>1, <3>2, <3>3, PlainStep
  <2> QED
    BY <2>2, <2>3
<1>5. CASE ReadShadow(p)
  <2>1. Goto(p, "recv2") /\ pc[p] = "recv1" /\ UNCHANGED <<live, sem, semName>>
    BY <1>5 DEF ReadShadow
  <2>2. \A q \in Proc : SameLocks(q)
    BY <1>t, <1>5 DEF ReadShadow, SameLocks, SameSems, SockType
  <2> HIDE DEF Goto
  <2> QED
    BY <2>1, <2>2, PlainStep
<1>6. CASE ReadComfd(p)
  <2>1. PICK b \in {"inherit1", "sem1"} : Goto(p, b)
    BY <1>6 DEF ReadComfd
  <2>2. pc[p] = "recv2" /\ UNCHANGED <<live, sem, semName>>
    BY <1>6 DEF ReadComfd
  <2>3. \A q \in Proc : SameLocks(q)
    <3>1. PICK x : sock' = [sock EXCEPT ![p].comfd = x]
      BY <1>6 DEF ReadComfd
    <3> QED
      BY <1>t, <3>1 DEF SameLocks, SameSems, SockType
  <2> HIDE DEF Goto
  <2> QED
    BY <2>1, <2>2, <2>3, PlainStep
<1>7. CASE InheritStatusSem(p)
  <2> DEFINE s == Opened(p, "status")
  <2>1. /\ Goto(p, "inherit2") /\ pc[p] = "inherit1" /\ semName' = s
        /\ UNCHANGED live
    BY <1>7 DEF InheritStatusSem, OpenSem
  <2>2. \/ s = semName /\ sem' = sem
        \/ s = <<p, "status">> /\ sem' = [sem EXCEPT ![s] = 1]
    BY <1>7 DEF InheritStatusSem, OpenSem, Opened
  <2>3. s \in Sem
    BY DEF Opened, Sem, TypeOK
  <2>4. /\ sock'[p].statusSem = s /\ sock'[p].fdSem = sock[p].fdSem
        /\ \A q \in Proc : (q # p => SameSems(q)) /\ sock'[q].locked = sock[q].locked
    BY <1>t, <1>7 DEF InheritStatusSem, SameSems, SockType
  <2> HIDE DEF s, Goto
  <2> QED
    BY <2>1, <2>2, <2>3, <2>4, OpenStep
<1>8. CASE InheritFdSem(p)
  <2> DEFINE s == Opened(p, "fd")
  <2>1. /\ Goto(p, "version") /\ pc[p] = "inherit2" /\ semName' = s
        /\ UNCHANGED live
    BY <1>8 DEF InheritFdSem, OpenSem
  <2>2. \/ s = semName /\ sem' = sem
        \/ s = <<p, "fd">> /\ sem' = [sem EXCEPT ![s] = 1]
    BY <1>8 DEF InheritFdSem, OpenSem, Opened
  <2>3. s \in Sem
    BY DEF Opened, Sem, TypeOK
  <2>4. /\ sock'[p].fdSem = s /\ sock'[p].statusSem = sock[p].statusSem
        /\ \A q \in Proc : (q # p => SameSems(q)) /\ sock'[q].locked = sock[q].locked
    BY <1>t, <1>8 DEF InheritFdSem, SameSems, SockType
  <2> HIDE DEF s, Goto
  <2> QED
    BY <2>1, <2>2, <2>3, <2>4, OpenStep
<1>9. CASE InheritVersion(p)
  <2>1. Goto(p, "user") /\ pc[p] = "version" /\ UNCHANGED <<live, sem, semName>>
    BY <1>9 DEF InheritVersion
  <2>2. \A q \in Proc : SameLocks(q)
    BY <1>t, <1>9 DEF InheritVersion, SameLocks, SameSems, SockType
  <2>3. ~sock[p].locked
    BY <2>1 DEF LockInv, LockedInside
  <2> HIDE DEF Goto
  <2> QED
    BY <2>1, <2>2, <2>3, PlainStep
<1>10. CASE FreshStatusSem(p)
  <2> DEFINE s == <<p, "status">>
  <2>1. /\ Goto(p, "sem2") /\ pc[p] = "sem1" /\ semName' = s /\ UNCHANGED live
        /\ sem' = [sem EXCEPT ![s] = 1]
    BY <1>10 DEF FreshStatusSem, CreateSem
  <2>2. s \in Sem
    BY DEF Sem
  <2>3. /\ sock'[p].statusSem = s /\ sock'[p].fdSem = sock[p].fdSem
        /\ \A q \in Proc : (q # p => SameSems(q)) /\ sock'[q].locked = sock[q].locked
    BY <1>t, <1>10 DEF FreshStatusSem, SameSems, SockType
  <2> HIDE DEF Goto
  <2> QED
    BY <2>1, <2>2, <2>3, OpenStep
<1>11. CASE FreshFdSem(p)
  <2> DEFINE s == <<p, "fd">>
  <2>1. /\ Goto(p, "fresh") /\ pc[p] = "sem2" /\ semName' = s /\ UNCHANGED live
        /\ sem' = [sem EXCEPT ![s] = 1]
    BY <1>11 DEF FreshFdSem, CreateSem
  <2>2. s \in Sem
    BY DEF Sem
  <2>3. /\ sock'[p].fdSem = s /\ sock'[p].statusSem = sock[p].statusSem
        /\ \A q \in Proc : (q # p => SameSems(q)) /\ sock'[q].locked = sock[q].locked
    BY <1>t, <1>11 DEF FreshFdSem, SameSems, SockType
  <2> HIDE DEF Goto
  <2> QED
    BY <2>1, <2>2, <2>3, OpenStep
<1>12. CASE FreshStatus(p)
  <2>1. Goto(p, "tcpbind") /\ pc[p] = "fresh" /\ UNCHANGED <<live, sem, semName>>
    BY <1>12 DEF FreshStatus
  <2>2. \A q \in Proc : SameLocks(q)
    BY <1>t, <1>12 DEF FreshStatus, SameLocks, SameSems, SockType
  <2>3. ~sock[p].locked
    BY <2>1 DEF LockInv, LockedInside
  <2> HIDE DEF Goto
  <2> QED
    BY <2>1, <2>2, <2>3, PlainStep
<1>13. CASE TcpBind(p)
  <2>1. pc[p] = "tcpbind" /\ UNCHANGED <<sem, semName>>
    BY <1>13 DEF TcpBind
  <2>2. CASE Die({p})
    <3> HIDE DEF PcType
    <3> QED
      BY <1>u, <2>1, <2>2, DeathStep
  <2>3. CASE ~Die({p})
    <3>1. Goto(p, "user") /\ UNCHANGED <<live, sock>>
      BY <1>13, <2>3 DEF TcpBind
    <3>2. \A q \in Proc : SameLocks(q)
      BY <3>1 DEF SameLocks, SameSems
    <3>3. ~sock[p].locked
      BY <2>1 DEF LockInv, LockedInside
    <3> HIDE DEF Goto
    <3> QED
      BY <2>1, <3>1, <3>2, <3>3, PlainStep
  <2> QED
    BY <2>2, <2>3
<1> QED
  BY <1>1, <1>2, <1>3, <1>4, <1>5, <1>6, <1>7, <1>8, <1>9, <1>10, <1>11, <1>12, <1>13
     DEF BindStep

(* Accepting and closing client connections preserve the locks.             *)
LEMMA AppLocks ==
    ASSUME TypeOK, LockInv, NEW p \in Proc, AppStep(p)
    PROVE  LockInv'
<1>t. sock \in [Proc -> SockType]
  BY DEF TypeOK
<1>1. CASE Accept(p)
  <2>1. Goto(p, "user") /\ pc[p] = "accept" /\ UNCHANGED <<live, sem, semName>>
    BY <1>1 DEF Accept
  <2>2. \A q \in Proc : SameLocks(q)
    BY <1>t, <1>1 DEF Accept, SameLocks, SameSems, SockType
  <2>4. "accept" \in Ready \ CountingPc /\ "user" \in Ready \ CountingPc
        /\ "user" \in PcType /\ "user" \notin EventPc
        /\ {"user", "accept"} \subseteq AppPc
    BY DEF Ready, CountingPc, EventPc, AppPc, PcType
  <2> HIDE DEF Goto
  <2> QED
    BY <2>1, <2>2, <2>4, PlainStep
<1>2. ASSUME NEW c \in Client, CloseClient(p, c)
      PROVE  LockInv'
  <2>1. UNCHANGED <<pc, live, sem, semName>>
    BY <1>2 DEF CloseClient
  <2>2. \A q \in Proc : SameLocks(q)
    BY <1>t, <1>2 DEF CloseClient, SameLocks, SameSems, SockType
  <2> QED
    BY <2>1, <2>2, QuietStep
<1> QED
  BY <1>1, <1>2 DEF AppStep

(* The entry of the event function preserves the locks: activation, the     *)
(* monitor and termination (core.c:108-276).                                *)
LEMMA EntryLocks ==
    ASSUME TypeOK, LockInv, NEW p \in Proc,
           \/ EventCall(p) \/ Monitor(p) \/ QuitStore(p)
           \/ TerminationDetection(p) \/ Terminate(p) \/ KillGroup(p)
    PROVE  LockInv'
<1>t. sock \in [Proc -> SockType]
  BY DEF TypeOK
<1>u. {p} \in SUBSET Proc /\ Killed(p) \in SUBSET Proc
  BY DEF Killed
<1>v. pc[p] \in EventPc => live[p]
  BY DEF LockInv, InsideLive
<1> USE DEF Ready, CountingPc, EventPc, AppPc, PcType
<1>1. CASE EventCall(p)
  <2>1. /\ Goto(p, "monitor") /\ pc[p] = "user"
        /\ live' = [live EXCEPT ![p] = TRUE] /\ UNCHANGED <<sock, sem, semName>>
    BY <1>1 DEF EventCall
  <2>2. \A q \in Proc : SameLocks(q) /\ (live[q] => live'[q]) /\ live'[p]
    BY <2>1 DEF SameLocks, SameSems, TypeOK
  <2> HIDE DEF Goto
  <2> QED
    BY <2>1, <2>2, PlainStep
<1>2. CASE Monitor(p)
  <2>1. pc[p] = "monitor" /\ live[p] /\ UNCHANGED <<live, semName>>
    BY <1>2, <1>v DEF Monitor
  <2>2. \A q \in Proc : SameLocks(q)
    BY <1>t, <1>2 DEF Monitor, SameLocks, SameSems, SockType
  <2>3. \/ Goto(p, "quit") /\ Free(sock[p].statusSem) /\ SemWait(sock[p].statusSem)
        \/ Goto(p, "terminate") /\ UNCHANGED sem
    BY <1>2 DEF Monitor
  <2> HIDE DEF Goto
  <2>4. CASE Goto(p, "terminate") /\ UNCHANGED sem
    BY <2>1, <2>2, <2>4, PlainStep
  <2>5. CASE Goto(p, "quit") /\ Free(sock[p].statusSem) /\ SemWait(sock[p].statusSem)
    BY <2>1, <2>2, <2>5, TakeStatus
  <2> QED
    BY <2>3, <2>4, <2>5
<1>3. CASE QuitStore(p)
  <2>1. /\ Goto(p, "terminate") /\ pc[p] = "quit" /\ SemPost(sock[p].statusSem)
        /\ UNCHANGED <<live, semName>>
    BY <1>3 DEF QuitStore
  <2>2. \A q \in Proc : SameLocks(q)
    BY <1>t, <1>3 DEF QuitStore, SameLocks, SameSems, SockType
  <2> HIDE DEF Goto
  <2> QED
    BY <2>1, <2>2, GiveStatus
<1>4. CASE TerminationDetection(p)
  <2>1. PICK b \in {"exit", "pre"} : Goto(p, b)
    BY <1>4 DEF TerminationDetection
  <2>2. pc[p] = "terminate" /\ live[p] /\ UNCHANGED <<live, sock, sem, semName>>
    BY <1>4, <1>v DEF TerminationDetection
  <2>3. \A q \in Proc : SameLocks(q)
    BY <2>2 DEF SameLocks, SameSems
  <2> HIDE DEF Goto
  <2> QED
    BY <2>1, <2>2, <2>3, PlainStep
<1>5. CASE Terminate(p)
  <2>1. pc[p] = "exit" /\ live[p] /\ UNCHANGED <<sem, semName>>
    BY <1>5, <1>v DEF Terminate
  <2>2. CASE Die({p})
    <3> HIDE DEF PcType
    <3> QED
      BY <1>u, <2>1, <2>2, DeathStep
  <2>3. CASE ~Die({p})
    <3>1. Goto(p, "killpg") /\ UNCHANGED <<live, sock>>
      BY <1>5, <2>3 DEF Terminate
    <3>2. \A q \in Proc : SameLocks(q)
      BY <3>1 DEF SameLocks, SameSems
    <3> HIDE DEF Goto
    <3> QED
      BY <2>1, <3>1, <3>2, PlainStep
  <2> QED
    BY <2>2, <2>3
<1>6. CASE KillGroup(p)
  <2>1. Die(Killed(p)) /\ UNCHANGED <<sem, semName>>
    BY <1>6 DEF KillGroup
  <2> QED
    BY <1>u, <2>1, DeathStep
<1> QED
  BY <1>1, <1>2, <1>3, <1>4, <1>5, <1>6

(* An interrupted select() and a poll() that times out return with the lock *)
(* they took.                                                               *)
LEMMA KeepLock ==
    ASSUME TypeOK, LockInv, NEW p \in Proc, NEW b \in AppPc, Goto(p, b),
           pc[p] = "wait", KeepsLock, UNCHANGED <<live, sock, sem, semName>>
    PROVE  LockInv'
<1> USE DEF LockInv
<1>1. pc' = [pc EXCEPT ![p] = b] /\ pc \in [Proc -> PcType]
  BY DEF TypeOK
<1>a. b \notin EventPc /\ b \in {"user", "accept"}
  BY DEF AppPc, EventPc
<1>2. SemsOpen'
  BY <1>1 DEF SemsOpen, EventPc, AppPc
<1>3. UncreatedUnknown'
  <2>1. \A q \in Proc : Uncreated(q)' = Uncreated(q)
    BY <1>1, <1>a DEF Uncreated
  <2> QED
    BY <2>1 DEF UncreatedUnknown
<1>4. LockedInside' /\ InsideLive'
  BY <1>1, <1>a DEF LockedInside, InsideLive
<1>5. LockExclusive'
  <2>1. \A q \in Proc, s \in Sem : Holds(q, s)' = Holds(q, s)
    BY <1>1, <1>a DEF Holds, Counting
  <2> QED
    BY <2>1 DEF LockExclusive
<1> QED
  BY <1>2, <1>3, <1>4, <1>5

(* A process that faults after its event call gave the lock back before.    *)
LEMMA GiveAndDie ==
    ASSUME TypeOK, LockInv, NEW p \in Proc, Die({p}),
           IF sock[p].locked THEN SemPost(sock[p].fdSem) ELSE UNCHANGED sem,
           UNCHANGED semName
    PROVE  LockInv'
<1> USE DEF LockInv
<1>1. \A q \in Proc :
         \/ q # p /\ SameLocks(q) /\ pc'[q] = pc[q]
         \/ /\ q = p /\ pc'[q] = "dead" /\ sock'[q].statusSem = None
            /\ sock'[q].fdSem = None /\ sock'[q].locked = FALSE
  BY DEF Die, NoSock, SameLocks, SameSems
<1>2. live' = live
  BY DEF Die
<1> USE DEF SameLocks, SameSems
<1>3. SemsOpen'
  BY <1>1 DEF SemsOpen, EventPc, AppPc
<1>4. UncreatedUnknown'
  <2>1. \A q \in Proc : Uncreated(q)' \subseteq Uncreated(q)
    BY <1>1 DEF Uncreated
  <2>2. \A q \in Proc : None \notin Uncreated(q)
    BY NoneAssumption DEF Uncreated, Sem
  <2> QED
    BY <1>1, <2>1, <2>2 DEF UncreatedUnknown
<1>5. LockedInside' /\ InsideLive'
  BY <1>1, <1>2 DEF LockedInside, InsideLive, EventPc
<1>6. LockExclusive'
  <2>1. \A q \in Proc, s \in Sem : Holds(q, s)' => Holds(q, s) /\ q # p
    BY <1>1, NoneAssumption DEF Holds, Counting
  <2>2. CASE sock[p].locked
    <3> DEFINE t == sock[p].fdSem
    <3>1. t \in Sem /\ Holds(p, t) /\ SemPost(t)
      BY <2>2 DEF LockedInside, Holds
    <3>2. sem' = [sem EXCEPT ![t] = 1]
      BY <3>1, PostTyped DEF TypeOK
    <3>3. \A q \in Proc : Holds(q, t) => q = p
      BY <3>1 DEF LockExclusive
    <3> QED
      BY <2>1, <3>1, <3>2, <3>3 DEF TypeOK, LockExclusive
  <2>3. CASE ~sock[p].locked
    BY <2>1, <2>3 DEF LockExclusive
  <2> QED
    BY <2>2, <2>3
<1> QED
  BY <1>3, <1>4, <1>5, <1>6

(* Watching, waking, timing out and returning preserve the locks            *)
(* (select.c:155-228).                                                      *)
LEMMA WaitLocks ==
    ASSUME TypeOK, LockInv, NEW p \in Proc,
           \/ PreEvent(p) \/ Wake(p) \/ Timeout(p) \/ PollTimeout(p)
           \/ Interrupt(p) \/ Post(p) \/ ScanFault(p)
    PROVE  LockInv'
<1>t. sock \in [Proc -> SockType]
  BY DEF TypeOK
<1>v. pc[p] \in EventPc => live[p]
  BY DEF LockInv, InsideLive
<1>w. "pre" \in Ready \ CountingPc /\ "wait" \in Ready \ CountingPc
      /\ "handle" \in Ready \ CountingPc
      /\ {"wait", "handle"} \subseteq PcType
      /\ {"pre", "wait", "handle"} \subseteq EventPc
  BY DEF Ready, CountingPc, EventPc, AppPc, PcType
<1>1. CASE PreEvent(p)
  <2> DEFINE locks == Exclusive /\ TryLock(p)
  <2>1. /\ Goto(p, "wait") /\ pc[p] = "pre" /\ live[p]
        /\ UNCHANGED <<live, semName>>
    BY <1>1, <1>v, <1>w DEF PreEvent
  <2>2. CASE sock[p].monitoring /\ locks
    <3>1. TryLock(p) /\ SemWait(sock[p].fdSem)
      BY <1>1, <2>2 DEF PreEvent
    <3>2. \A q \in Proc : SameSems(q) /\ (q # p => SameLocks(q))
      BY <1>t, <1>1 DEF PreEvent, SameLocks, SameSems, SockType
    <3> HIDE DEF Goto, locks
    <3> QED
      BY <2>1, <3>1, <3>2, TakeFd
  <2>3. CASE ~(sock[p].monitoring /\ locks)
    <3>1. UNCHANGED sem
      BY <1>1, <2>3 DEF PreEvent
    <3>2. \A q \in Proc : SameLocks(q)
      <4>1. CASE ~sock[p].monitoring
        BY <1>1, <4>1 DEF PreEvent, SameLocks, SameSems
      <4>2. CASE sock[p].monitoring
        <5>1. ~locks
          BY <2>3, <4>2
        <5>2. \A q \in Proc : q # p => sock'[q] = sock[q]
          BY <1>t, <1>1 DEF PreEvent
        <5>3. SameSems(p)
          BY <1>t, <1>1 DEF PreEvent, SameSems, SockType
        <5>4. sock[p].locked \in BOOLEAN
          BY <1>t DEF SockType
        <5>5. sock'[p].locked = (sock[p].locked \/ locks)
          BY <1>t, <1>1, <4>2 DEF PreEvent, SockType
        <5> QED
          BY <5>1, <5>2, <5>3, <5>4, <5>5 DEF SameLocks, SameSems
      <4> QED
        BY <4>1, <4>2
    <3> HIDE DEF Goto, locks
    <3> QED
      BY <1>w, <2>1, <3>1, <3>2, PlainStep
  <2> QED
    BY <2>2, <2>3
<1>2. CASE Wake(p)
  <2>1. /\ Goto(p, "handle") /\ pc[p] = "wait" /\ live[p]
        /\ UNCHANGED <<live, sock, sem, semName>>
    BY <1>2, <1>v, <1>w DEF Wake
  <2>2. \A q \in Proc : SameLocks(q)
    BY <2>1 DEF SameLocks, SameSems
  <2> HIDE DEF Goto
  <2> QED
    BY <1>w, <2>1, <2>2, PlainStep
<1>3. CASE Timeout(p)
  <2>1. /\ Goto(p, "handle") /\ pc[p] = "wait" /\ live[p]
        /\ UNCHANGED <<live, sock, sem, semName>>
    BY <1>3, <1>v, <1>w DEF Timeout, Idle
  <2>2. \A q \in Proc : SameLocks(q)
    BY <2>1 DEF SameLocks, SameSems
  <2> HIDE DEF Goto
  <2> QED
    BY <1>w, <2>1, <2>2, PlainStep
<1>4. CASE Interrupt(p)
  <2>1. /\ Goto(p, "user") /\ pc[p] = "wait" /\ KeepsLock /\ "user" \in AppPc
        /\ UNCHANGED <<live, semName>>
    BY <1>4 DEF Interrupt, KeepsLock, AppPc
  <2>2. Unlock(p) \/ UNCHANGED <<sem, sock>>
    BY <1>4 DEF Interrupt
  <2> HIDE DEF Goto
  <2>3. CASE Unlock(p)
    BY <2>1, <2>3, GiveFd
  <2>4. CASE UNCHANGED <<sem, sock>>
    BY <2>1, <2>4, KeepLock
  <2> QED
    BY <2>2, <2>3, <2>4
<1>5. CASE Post(p)
  <2>1. PICK b \in {"accept", "monitor", "user"} : Goto(p, b)
    <3> DEFINE b == CASE call[p].ready.tcp \/ sock[p].revents -> "accept"
                      [] Restarts(p) -> "monitor"
                      [] OTHER -> "user"
    <3>1. Goto(p, b)
      BY <1>5 DEF Post
    <3>2. b \in {"accept", "monitor", "user"}
      OBVIOUS
    <3> HIDE DEF b
    <3> QED
      BY <3>1, <3>2
  <2>2. pc[p] = "handle" /\ Unlock(p) /\ UNCHANGED <<live, semName>>
    BY <1>5 DEF Post, HandledConns
  <2> HIDE DEF Goto
  <2> QED
    BY <2>1, <2>2, GiveFd
<1>6. CASE PollTimeout(p)
  <2>1. PICK b \in AppPc : Goto(p, b)
    BY <1>6 DEF PollTimeout, AppPc
  <2>2. pc[p] = "wait" /\ KeepsLock /\ UNCHANGED <<live, sock, sem, semName>>
    BY <1>6 DEF PollTimeout, Idle, KeepsLock
  <2> HIDE DEF Goto
  <2> QED
    BY <2>1, <2>2, KeepLock
<1>7. CASE ScanFault(p)
  BY <1>7, GiveAndDie DEF ScanFault
<1> QED
  BY <1>1, <1>2, <1>3, <1>4, <1>5, <1>6, <1>7

(* Handling an internal connection preserves the locks.                     *)
LEMMA HandleLocks ==
    ASSUME TypeOK, LockInv, NEW p \in Proc, HandleStep(p)
    PROVE  LockInv'
<1>t. sock \in [Proc -> SockType]
  BY DEF TypeOK
<1>u. {p} \in SUBSET Proc
  OBVIOUS
<1>v. pc[p] \in EventPc => live[p]
  BY DEF LockInv, InsideLive
<1> USE DEF Ready, CountingPc, EventPc, AppPc, PcType
<1>1. CASE HandleAccept(p)
  <2>1. UNCHANGED <<pc, live, sem, semName>>
    BY <1>1 DEF HandleAccept
  <2>2. \A q \in Proc : SameLocks(q)
    BY <1>t, <1>1 DEF HandleAccept, SameLocks, SameSems, SockType
  <2> QED
    BY <2>1, <2>2, QuietStep
<1>2. ASSUME NEW c \in Proc, HandleClose(p, c)
      PROVE  LockInv'
  <2>1. UNCHANGED <<pc, live, sem, semName>>
    BY <1>2 DEF HandleClose
  <2>2. \A q \in Proc : SameLocks(q)
    BY <1>t, <1>2 DEF HandleClose, SameLocks, SameSems, SockType
  <2> QED
    BY <2>1, <2>2, QuietStep
<1>3. ASSUME NEW c \in Proc, HandleRace(p, c)
      PROVE  LockInv'
  <2>1. UNCHANGED <<pc, live, sock, sem, semName>>
    BY <1>3 DEF HandleRace
  <2>2. \A q \in Proc : SameLocks(q)
    BY <2>1 DEF SameLocks, SameSems
  <2> QED
    BY <2>1, <2>2, QuietStep
<1>4. ASSUME NEW c \in Proc, HandleError(p, c) \/ HandleRequest(p, c)
      PROVE  LockInv'
  <2>1. PICK b \in {"reply1", "count"} : Goto(p, b)
    BY <1>4 DEF HandleError, HandleRequest
  <2>2. pc[p] = "handle" /\ live[p] /\ UNCHANGED <<live, sock, sem, semName>>
    BY <1>4, <1>v DEF HandleError, HandleRequest, Takes
  <2>3. \A q \in Proc : SameLocks(q)
    BY <2>2 DEF SameLocks, SameSems
  <2> HIDE DEF Goto
  <2> QED
    BY <2>1, <2>2, <2>3, PlainStep
<1>5. CASE CountLoad(p)
  <2>1. pc[p] = "count" /\ live[p] /\ UNCHANGED <<live, sock, semName>>
    BY <1>5, <1>v DEF CountLoad
  <2>2. \A q \in Proc : SameLocks(q)
    BY <2>1 DEF SameLocks, SameSems
  <2>3. \/ Goto(p, "reply1") /\ UNCHANGED sem
        \/ Goto(p, "store") /\ Free(sock[p].statusSem) /\ SemWait(sock[p].statusSem)
    BY <1>5 DEF CountLoad
  <2> HIDE DEF Goto
  <2>4. CASE Goto(p, "reply1") /\ UNCHANGED sem
    BY <2>1, <2>2, <2>4, PlainStep
  <2>5. CASE Goto(p, "store") /\ Free(sock[p].statusSem) /\ SemWait(sock[p].statusSem)
    BY <2>1, <2>2, <2>5, TakeStatus
  <2> QED
    BY <2>3, <2>4, <2>5
<1>6. CASE CountStore(p)
  <2>1. /\ Goto(p, "reply1") /\ pc[p] = "store" /\ SemPost(sock[p].statusSem)
        /\ UNCHANGED <<live, semName>>
    BY <1>6 DEF CountStore
  <2>2. \A q \in Proc : SameLocks(q)
    BY <1>t, <1>6 DEF CountStore, SameLocks, SameSems, SockType
  <2> HIDE DEF Goto
  <2> QED
    BY <2>1, <2>2, GiveStatus
<1>7. ASSUME ReplyShadow(p) \/ ReplyComfd(p)
      PROVE  LockInv'
  <2>1. pc[p] \in {"reply1", "reply2"} /\ live[p] /\ UNCHANGED <<sem, semName>>
    BY <1>7, <1>v DEF ReplyShadow, ReplyComfd
  <2>2. CASE Die({p})
    <3> HIDE DEF PcType
    <3> QED
      BY <1>u, <2>1, <2>2, DeathStep
  <2>3. CASE ~Die({p})
    <3>1. UNCHANGED <<live, sock>> /\ \E b \in {"reply2", "handle"} : Goto(p, b)
      BY <1>7, <2>3 DEF ReplyShadow, ReplyComfd, WriteFd, WriteKills
    <3>2. PICK b \in {"reply2", "handle"} : Goto(p, b)
      BY <3>1
    <3>3. \A q \in Proc : SameLocks(q)
      BY <3>1 DEF SameLocks, SameSems
    <3> HIDE DEF Goto
    <3> QED
      BY <2>1, <3>1, <3>2, <3>3, PlainStep
  <2> QED
    BY <2>2, <2>3
<1> QED
  BY <1>1, <1>2, <1>3, <1>4, <1>5, <1>6, <1>7 DEF HandleStep

(* Clients, starts, forks, signals and crashes preserve the locks, unless   *)
(* a lock that an event call kept can be copied by a fork.                  *)
LEMMA EnvironmentLocks ==
    ASSUME TypeOK, LockInv, ~(LateFork /\ KeepsLock), Environment
    PROVE  LockInv'
<1>1. ASSUME NEW c \in Client, ClientConnect(c)
      PROVE  LockInv'
  <2>1. UNCHANGED <<pc, live, sock, sem, semName>>
    BY <1>1 DEF ClientConnect
  <2>2. \A q \in Proc : SameLocks(q)
    BY <2>1 DEF SameLocks, SameSems
  <2> QED
    BY <2>1, <2>2, QuietStep
<1>2. ASSUME NEW p \in Proc, Start(p)
      PROVE  LockInv'
  BY <1>2, StartStep
<1>3. ASSUME NEW p \in Proc, Interrupt(p)
      PROVE  LockInv'
  BY <1>3, WaitLocks
<1>4. ASSUME NEW p \in Proc, Crash(p)
      PROVE  LockInv'
  <2>1. {p} \in SUBSET Proc /\ Die({p}) /\ UNCHANGED <<sem, semName>>
    BY <1>4 DEF Crash
  <2> QED
    BY <2>1, DeathStep
<1>5. ASSUME NEW p \in Proc, NEW q \in Proc, Fork(p, q)
      PROVE  LockInv'
  BY <1>5, ForkStep
<1> QED
  BY <1>1, <1>2, <1>3, <1>4, <1>5 DEF Environment

(* LockInv is inductive relative to the types.                              *)
LEMMA LocksPreserved ==
    ASSUME TypeOK, LockInv, ~(LateFork /\ KeepsLock), [Step]_vars
    PROVE  LockInv'
<1>1. ASSUME NEW p \in Proc, ProcessStep(p)
      PROVE  LockInv'
  BY <1>1, BindLocks, AppLocks, EntryLocks, WaitLocks, HandleLocks
     DEF ProcessStep, EventStep
<1>2. CASE Environment
  BY <1>2, EnvironmentLocks
<1>3. CASE UNCHANGED vars
  <2>1. UNCHANGED <<pc, live, sock, sem, semName>>
    BY <1>3 DEF vars
  <2>2. \A q \in Proc : SameLocks(q)
    BY <2>1 DEF SameLocks, SameSems
  <2> QED
    BY <2>1, <2>2, QuietStep
<1> QED
  BY <1>1, <1>2, <1>3 DEF Step

(* Initially there is no process, no open semaphore and no lock.            *)
LEMMA InitialLocks == Init => LockInv
<1> SUFFICES ASSUME Init PROVE LockInv
  OBVIOUS
<1>1. /\ pc = [p \in Proc |-> "none"] /\ semName = None
      /\ sock = [p \in Proc |-> NoSock]
  BY DEF Init
<1>2. \A p \in Proc : /\ pc[p] = "none" /\ sock[p].statusSem = None
                      /\ sock[p].fdSem = None /\ sock[p].locked = FALSE
  BY <1>1 DEF NoSock
<1>3. \A p \in Proc : None \notin Uncreated(p)
  BY NoneAssumption DEF Uncreated, Sem
<1>4. SemsOpen /\ InsideLive /\ LockedInside
  BY <1>2 DEF SemsOpen, InsideLive, LockedInside, EventPc, AppPc
<1>5. UncreatedUnknown
  BY <1>1, <1>2, <1>3 DEF UncreatedUnknown
<1>6. LockExclusive
  BY <1>2 DEF LockExclusive, Holds, Counting
<1> QED
  BY <1>4, <1>5, <1>6 DEF LockInv

-----------------------------------------------------------------------------
(* The theorems.  They need that an application that forks after its first  *)
(* event call neither uses poll() nor takes signals: a child would inherit  *)
(* a lock that an interrupted select() or a poll() that timed out has not   *)
(* given back (select.c:305, poll.c:360).                                   *)

(* They also need that no sem_wait fails: a handler without SA_RESTART lets *)
(* a process post a semaphore that it did not take (select.c:130-135).      *)

LEMMA Uninterrupted == ASSUME ~SemFails PROVE Spec => Init /\ [][Step]_vars
<1>1. [Next]_vars => [Step]_vars
  BY DEF Next, StatusWaitFails, SleepsOnStatus, WorkersWaitFails
<1> QED
  BY <1>1, PTL DEF Spec

(* Every step preserves types and locks.                                    *)
THEOREM Inductive ==
    ASSUME ~SemFails, ~(LateFork /\ KeepsLock)
    PROVE  Spec => []IInv
<1>1. Init => IInv
  BY InitialTypes, InitialLocks DEF IInv
<1>2. IInv /\ [Step]_vars => IInv'
  BY TypesPreserved, LocksPreserved DEF IInv
<1>3. Spec => Init /\ [][Step]_vars
  BY Uninterrupted
<1> QED
  BY <1>1, <1>2, <1>3, PTL

(* Every reachable state is well typed, and, as long as every sem_wait      *)
(* succeeds, no semaphore is ever posted above 1 (select.c:211-228,         *)
(* core.c:237-276).                                                         *)
THEOREM TypeCorrect ==
    ASSUME ~SemFails, ~(LateFork /\ KeepsLock)
    PROVE  Spec => []TypeOK
<1>1. IInv => TypeOK
  BY DEF IInv
<1> QED
  BY <1>1, Inductive, PTL

(* Mutual exclusion: for any number of versions, groups, forks and crashes, *)
(* a semaphore object has one holder, although heirs use one object both as *)
(* status_sem and as fd_sem (core.c:662-670), and although signals end      *)
(* event functions that hold it (select.c:305); signals that make sem_wait  *)
(* fail are excluded.                                                       *)
THEOREM LockExclusiveHolds ==
    ASSUME ~SemFails, ~(LateFork /\ KeepsLock)
    PROVE  Spec => []LockExclusive
<1>1. IInv => LockExclusive
  BY DEF IInv, LockInv
<1> QED
  BY <1>1, Inductive, PTL
=============================================================================
