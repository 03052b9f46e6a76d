--------------------------- MODULE RefinementProofs ---------------------------
(* Proof that the protocol of Handover implements the abstract update, for  *)
(* versions of any number of forked workers.                                *)
EXTENDS GroupProofs

-----------------------------------------------------------------------------
(* The refinement mapping, as the sequences of states that Update sees.     *)

RoleMap == [p \in Proc |-> Role(p)]
VersionMap == [p \in Proc |-> IF Role(p) \in {"serving", "draining"}
                              THEN sock[p].version ELSE 0]

Serving(p) == Serves(p) /\ live[p] /\ sock[p].monitoring
Draining(p) == Serves(p) /\ live[p] /\ ~sock[p].monitoring

LEMMA RoleOf ==
    ASSUME NEW p \in Proc
    PROVE  /\ Role(p) = "serving" <=> Serving(p)
           /\ Role(p) = "draining" <=> Draining(p)
           /\ Role(p) = "gone" <=> pc[p] = "dead"
           /\ Role(p) = "new" <=> ~(Serving(p) \/ Draining(p) \/ pc[p] = "dead")
           /\ RoleMap[p] = Role(p)
           /\ VersionMap[p] = IF Serves(p) /\ live[p] THEN sock[p].version ELSE 0
<1>1. Serves(p) => pc[p] # "dead"
  BY DEF Serves, EventPc, AppPc
<1>2. /\ pc[p] = "dead" => Role(p) = "gone"
      /\ Serving(p) => Role(p) = "serving"
      /\ Draining(p) => Role(p) = "draining"
      /\ ~(Serving(p) \/ Draining(p) \/ pc[p] = "dead") => Role(p) = "new"
  BY <1>1 DEF Role, Serving, Draining
<1>3. /\ ~(Serving(p) /\ Draining(p))
      /\ pc[p] = "dead" => ~Serving(p) /\ ~Draining(p)
      /\ Serving(p) \/ Draining(p) <=> Serves(p) /\ live[p]
  BY <1>1 DEF Serving, Draining
<1> QED
  BY <1>2, <1>3 DEF RoleMap, VersionMap

(* What a step does not change for Update.                                  *)
SameRole(q) ==
    /\ pc'[q] = "dead" <=> pc[q] = "dead"
    /\ Serves(q)' /\ live'[q] <=> Serves(q) /\ live[q]
    /\ Serves(q) /\ live[q] => /\ sock'[q].monitoring = sock[q].monitoring
                               /\ sock'[q].version = sock[q].version

LEMMA RoleKept ==
    ASSUME NEW q \in Proc, SameRole(q)
    PROVE  RoleMap'[q] = RoleMap[q] /\ VersionMap'[q] = VersionMap[q]
<1>1. /\ Serving(q)' <=> Serving(q)
      /\ Draining(q)' <=> Draining(q)
  BY DEF SameRole, Serving, Draining
<1>2. Role(q)' = Role(q)
  BY <1>1 DEF SameRole, Role, Serving, Draining
<1>3. Role(q) \in {"serving", "draining"} => Serves(q) /\ live[q]
  BY RoleOf DEF Serving, Draining
<1>4. VersionMap'[q] = VersionMap[q]
  BY <1>2, <1>3 DEF SameRole, VersionMap
<1> QED
  BY <1>2, <1>4 DEF RoleMap

(* A step that Update does not see.                                         *)
Unseen == status'.version = status.version /\ RoleMap' = RoleMap /\ VersionMap' = VersionMap

LEMMA NothingSeen ==
    ASSUME status'.version = status.version, \A q \in Proc : SameRole(q)
    PROVE  Unseen
<1>1. \A q \in Proc : RoleMap'[q] = RoleMap[q] /\ VersionMap'[q] = VersionMap[q]
  BY RoleKept
<1>2. RoleMap' = RoleMap
  BY <1>1 DEF RoleMap
<1>3. VersionMap' = VersionMap
  BY <1>1 DEF VersionMap
<1> QED
  BY <1>2, <1>3 DEF Unseen

-----------------------------------------------------------------------------
(* The steps that Update sees.                                              *)

(* A first start writes the version down when nobody is live.               *)
LEMMA RestartSeen ==
    ASSUME \A q \in Proc : ~live[q] /\ ~live'[q], status'.version = 0,
           \A q \in Proc : pc'[q] = "dead" <=> pc[q] = "dead"
    PROVE  U!Restart
<1>1. \A q \in Proc : SameRole(q)
  BY DEF SameRole
<1>2. \A q \in Proc : RoleMap'[q] = RoleMap[q] /\ VersionMap'[q] = VersionMap[q]
  BY <1>1, RoleKept
<1>3. RoleMap' = RoleMap /\ VersionMap' = VersionMap
  BY <1>2 DEF RoleMap, VersionMap
<1>4. \A q \in Proc : RoleMap[q] # "serving"
  BY RoleOf DEF Serving
<1> QED
  BY <1>3, <1>4 DEF U!Restart, RoleMap, VersionMap

(* The first event call of a process.                                       *)
LEMMA JoinSeen ==
    ASSUME TypeOK, Newcomers, NEW p \in Proc, EventCall(p), ~live[p]
    PROVE  U!Join(p)
<1> USE DEF callVars
<1>1. /\ pc[p] = "user" /\ pc'[p] = "monitor" /\ live'[p] /\ UNCHANGED <<sock, status>>
      /\ \A q \in Proc \ {p} : pc'[q] = pc[q] /\ live'[q] = live[q]
  BY DEF EventCall, Goto, TypeOK
<1>2. \A q \in Proc \ {p} : SameRole(q)
  BY <1>1 DEF SameRole, Serves
<1>3. \A q \in Proc \ {p} : RoleMap'[q] = RoleMap[q] /\ VersionMap'[q] = VersionMap[q]
  BY <1>2, RoleKept
<1>4. sock[p].monitoring /\ sock[p].version <= status.version + 1
  BY <1>1 DEF Newcomers
<1>5. RoleMap[p] = "new"
  BY <1>1, RoleOf DEF Serving, Draining
<1>6. Serving(p)'
  BY <1>1, <1>4 DEF Serving, Serves, EventPc
<1>7. Role(p)' = "serving"
  BY <1>1, <1>6 DEF Role, Serving
<1>8. RoleMap'[p] = "serving" /\ VersionMap'[p] = sock[p].version
  BY <1>1, <1>7 DEF RoleMap, VersionMap
<1>9. RoleMap' = [RoleMap EXCEPT ![p] = "serving"]
  BY <1>3, <1>8 DEF RoleMap
<1>10. VersionMap' = [VersionMap EXCEPT ![p] = sock[p].version]
  BY <1>3, <1>8 DEF VersionMap
<1>11. sock[p].version \in 0..(status.version + 1)
  BY <1>4 DEF TypeOK, SockType, StatusType
<1> QED
  BY <1>1, <1>5, <1>9, <1>10, <1>11 DEF U!Join, U!NextVersion, RoleMap, VersionMap

LEMMA PublishSeen ==
    ASSUME TypeOK, NEW p \in Proc, pc[p] = "monitor", live[p], Publishes(p),
           status'.version = status.version + 1, \A q \in Proc : SameRole(q)
    PROVE  U!Publish(p)
<1>1. \A q \in Proc : RoleMap'[q] = RoleMap[q] /\ VersionMap'[q] = VersionMap[q]
  BY RoleKept
<1>2. RoleMap' = RoleMap /\ VersionMap' = VersionMap
  BY <1>1 DEF RoleMap, VersionMap
<1>3. Serving(p) /\ sock[p].version > status.version
  BY DEF Serving, Serves, EventPc, Publishes
<1>4. RoleMap[p] = "serving" /\ VersionMap[p] > status.version
  BY <1>3, RoleOf DEF Serving
<1> QED
  BY <1>2, <1>4 DEF U!Publish, RoleMap, VersionMap

(* dsu_stop_monitor: the version stays known until the process ends.        *)
LEMMA RetireSeen ==
    ASSUME TypeOK, NEW p \in Proc, pc[p] = "monitor", live[p], live'[p], Quits(p), Serves(p)',
           ~sock'[p].monitoring, sock'[p].version = sock[p].version,
           status'.version = status.version, \A q \in Proc \ {p} : SameRole(q)
    PROVE  U!Retire(p)
<1>1. \A q \in Proc \ {p} : RoleMap'[q] = RoleMap[q] /\ VersionMap'[q] = VersionMap[q]
  BY RoleKept
<1>2. Serving(p) /\ sock[p].version < status.version
  BY DEF Serving, Serves, EventPc, Quits
<1>3. RoleMap[p] = "serving" /\ VersionMap[p] = sock[p].version
  BY <1>2, RoleOf DEF Serving
<1>4. Role(p)' = "draining"
  BY DEF Role, Serves, EventPc, AppPc
<1>5. RoleMap'[p] = "draining" /\ VersionMap'[p] = sock[p].version
  BY <1>4 DEF RoleMap, VersionMap
<1>6. RoleMap' = [RoleMap EXCEPT ![p] = "draining"]
  BY <1>1, <1>5 DEF RoleMap
<1>7. VersionMap' = VersionMap
  BY <1>1, <1>3, <1>5 DEF VersionMap
<1> QED
  BY <1>2, <1>3, <1>6, <1>7 DEF U!Retire, U!Outdated, RoleMap, VersionMap

(* Processes that end.                                                      *)
LEMMA LeaveSeen ==
    ASSUME TypeOK, NEW D \in SUBSET Proc, Die(D), status' = status,
           \A q \in D : Serving(q) => sock[q].version < status.version
    PROVE  U!Leave(D)
<1>1. \A q \in Proc \ D : SameRole(q)
  BY DEF Die, SameRole, Serves
<1>2. \A q \in Proc \ D : RoleMap'[q] = RoleMap[q] /\ VersionMap'[q] = VersionMap[q]
  BY <1>1, RoleKept
<1>3. \A q \in D : pc'[q] = "dead"
  BY DEF Die
<1>4. \A q \in D : Role(q)' = "gone"
  BY <1>3 DEF Role, Serves, EventPc, AppPc
<1>5. \A q \in D : RoleMap'[q] = "gone" /\ VersionMap'[q] = 0
  BY <1>4 DEF RoleMap, VersionMap
<1>6. \A q \in D : RoleMap[q] = "serving" => VersionMap[q] < status.version
  BY RoleOf DEF Serving
<1>7. RoleMap' = [q \in Proc |-> IF q \in D THEN "gone" ELSE RoleMap[q]]
  BY <1>2, <1>5 DEF RoleMap
<1>8. VersionMap' = [q \in Proc |-> IF q \in D THEN 0 ELSE VersionMap[q]]
  BY <1>2, <1>5 DEF VersionMap
<1> QED
  BY <1>6, <1>7, <1>8 DEF U!Leave, U!Outdated, RoleMap, VersionMap

-----------------------------------------------------------------------------
(* Every step is a step of Update or none.                                  *)

LEMMA LoopingUnseen ==
    ASSUME NEW p \in Proc, Looping(p), live[p], status'.version = status.version,
           sock'[p].monitoring = sock[p].monitoring, sock'[p].version = sock[p].version
    PROVE  Unseen
<1>1. SameRole(p)
  BY DEF Looping, SameRole, Serves, EventPc, AppPc
<1>2. \A q \in Proc \ {p} : SameRole(q)
  BY DEF Looping, SameRole, Serves
<1> QED
  BY <1>1, <1>2, NothingSeen

(* Who quits, publishes or neither.                                         *)
LEMMA MonitorSeen ==
    ASSUME TypeOK, Newcomers, NEW p \in Proc, Monitor(p)
    PROVE  U!Publish(p) \/ U!Retire(p) \/ Unseen
<1>1. /\ sock \in [Proc -> SockType] /\ status \in StatusType /\ pc \in [Proc -> PcType]
  BY DEF TypeOK
<1>2. /\ pc[p] = "monitor" /\ live[p] /\ UNCHANGED live
      /\ \E b \in {"quit", "terminate"} : Goto(p, b)
  BY DEF Monitor, Newcomers, EventPc
<1>3. /\ Serves(p) /\ Serves(p)' /\ pc'[p] # "dead"
      /\ \A q \in Proc \ {p} : pc'[q] = pc[q]
  BY <1>1, <1>2 DEF Goto, Serves, EventPc
<1>4. CASE Quits(p)
  <2>1. UNCHANGED status /\ sock' = [sock EXCEPT ![p].comfd = None, ![p].monitoring = FALSE]
    BY <1>4 DEF Monitor
  <2>2. /\ ~sock'[p].monitoring /\ sock'[p].version = sock[p].version
        /\ \A q \in Proc \ {p} : sock'[q] = sock[q]
    BY <1>1, <2>1 DEF SockType
  <2>3. \A q \in Proc \ {p} : SameRole(q)
    BY <1>2, <1>3, <2>2 DEF SameRole, Serves
  <2>4. U!Retire(p)
    BY <1>2, <1>3, <1>4, <2>1, <2>2, <2>3, RetireSeen
  <2> QED
    BY <2>4
<1>5. CASE ~Quits(p)
  <2>1. /\ UNCHANGED sock
        /\ status' = IF Publishes(p)
                     THEN [status EXCEPT !.pgid = Pgid[p], !.version = @ + 1]
                     ELSE status
    BY <1>5 DEF Monitor
  <2>2. \A q \in Proc : SameRole(q)
    BY <1>2, <1>3, <2>1 DEF SameRole, Serves, EventPc, AppPc
  <2>3. CASE Publishes(p)
    <3>1. status'.version = status.version + 1
      BY <1>1, <2>1, <2>3 DEF StatusType
    <3>2. U!Publish(p)
      BY <1>2, <2>2, <2>3, <3>1, PublishSeen
    <3> QED
      BY <3>2
  <2>4. CASE ~Publishes(p)
    BY <2>1, <2>2, <2>4, NothingSeen
  <2> QED
    BY <2>3, <2>4
<1> QED
  BY <1>4, <1>5

(* Between two event calls nothing is seen.                                 *)
LEMMA EventUnseen ==
    ASSUME TypeOK, Newcomers, NEW p \in Proc,
           \/ QuitStore(p) \/ TerminationDetection(p) \/ PreEvent(p) \/ Wake(p)
           \/ Timeout(p) \/ PollTimeout(p) \/ Interrupt(p) \/ Post(p)
           \/ EventCall(p) /\ live[p]
    PROVE  Unseen
<1> USE DEF callVars, channelVars, clientVars, listenerVars, semVars
<1>1. sock \in [Proc -> SockType] /\ status \in StatusType
  BY DEF TypeOK
<1>2. Looping(p)
  BY EventLooping
<1>3. live[p]
  <2>1. EventCall(p) \/ pc[p] \in EventPc
    BY DEF QuitStore, TerminationDetection, PreEvent, Wake, Timeout, PollTimeout, Idle,
       Interrupt, Post, HandledConns, EventPc
  <2>2. CASE pc[p] \in EventPc
    BY <2>2 DEF Newcomers
  <2>3. CASE EventCall(p) /\ pc[p] \notin EventPc
    BY <2>3 DEF EventCall, QuitStore, TerminationDetection, PreEvent, Wake, Timeout,
       PollTimeout, Idle, Interrupt, Post, HandledConns, EventPc
  <2> QED
    BY <2>1, <2>2, <2>3
<1>4. sock'[p].monitoring = sock[p].monitoring /\ sock'[p].version = sock[p].version
  <2>1. CASE QuitStore(p)
    BY <1>1, <2>1 DEF QuitStore, SockType
  <2>2. CASE PreEvent(p)
    <3> DEFINE lock == sock[p].locked \/ (Exclusive /\ TryLock(p))
               entries == IF Handler[p] = "epoll" THEN sock[p].interest \cup {sock[p].comfd}
                          ELSE sock[p].interest
    <3>1. \/ UNCHANGED sock
          \/ sock' = [sock EXCEPT ![p].locked = lock, ![p].interest = entries]
      BY <2>2 DEF PreEvent
    <3>2. ASSUME NEW l, NEW i, sock' = [sock EXCEPT ![p].locked = l, ![p].interest = i]
          PROVE  sock'[p].monitoring = sock[p].monitoring /\ sock'[p].version = sock[p].version
      BY <1>1, <3>2 DEF SockType
    <3> QED
      BY <3>1, <3>2
  <2>3. CASE Interrupt(p) \/ Post(p)
    <3>1. CASE Unlock(p)
      BY <1>1, <3>1 DEF Unlock, SockType
    <3> QED
      BY <2>3, <3>1 DEF Interrupt, Post
  <2>4. CASE ~(QuitStore(p) \/ PreEvent(p) \/ Interrupt(p) \/ Post(p))
    <3>1. UNCHANGED sock
      BY <2>4 DEF EventCall, TerminationDetection, Wake, Timeout, PollTimeout
    <3> QED
      BY <3>1
  <2> QED
    BY <2>1, <2>2, <2>3, <2>4
<1>5. status'.version = status.version
  <2>1. CASE QuitStore(p)
    BY <1>1, <2>1 DEF QuitStore, StatusType
  <2>2. CASE ~QuitStore(p)
    <3>1. UNCHANGED status
      BY <2>2 DEF EventCall, TerminationDetection, PreEvent, Wake, Timeout, PollTimeout,
         Interrupt, Post
    <3> QED
      BY <3>1
  <2> QED
    BY <2>1, <2>2
<1> QED
  BY <1>2, <1>3, <1>4, <1>5, LoopingUnseen

LEMMA HandleUnseen ==
    ASSUME TypeOK, SocketInv, ServiceInv, Newcomers, NEW p \in Proc,
           HandleStep(p) \/ AppStep(p)
    PROVE  Unseen
<1> USE DEF callVars, channelVars, clientVars, listenerVars, semVars
<1>1. sock \in [Proc -> SockType] /\ status \in StatusType
  BY DEF TypeOK
<1>2. Looping(p)
  BY HandleLooping
<1>3. live[p]
  <2>1. CASE \E c \in Client : CloseClient(p, c)
    BY <2>1 DEF CloseClient, Newcomers
  <2>2. CASE ~\E c \in Client : CloseClient(p, c)
    <3>1. pc[p] \in EventPc \cup {"accept"}
      BY <2>2 DEF HandleStep, HandleAccept, HandleClose, HandleRace, HandleError,
         HandleRequest, Takes, CountLoad, CountStore, ReplyShadow, ReplyComfd, AppStep,
         Accept, EventPc
    <3> QED
      BY <3>1 DEF Newcomers
  <2> QED
    BY <2>1, <2>2
<1>4. sock'[p].monitoring = sock[p].monitoring /\ sock'[p].version = sock[p].version
  <2>1. CASE HandleAccept(p) \/ \E c \in Proc : HandleClose(p, c) \/ HandleRace(p, c)
    <3>1. UNCHANGED sock \/ \E new : sock' = [sock EXCEPT ![p].comfds = new]
      BY <2>1 DEF HandleAccept, HandleClose, HandleRace
    <3> QED
      BY <1>1, <3>1 DEF SockType
  <2>2. CASE \/ \E c \in Proc : HandleError(p, c) \/ HandleRequest(p, c)
             \/ CountLoad(p)
    BY <2>2 DEF HandleError, HandleRequest, CountLoad
  <2>3. CASE CountStore(p)
    BY <1>1, <2>3 DEF CountStore, SockType
  <2>4. CASE ReplyShadow(p) \/ ReplyComfd(p)
    <3>1. pc[p] \in {"reply1", "reply2"}
      BY <2>4 DEF ReplyShadow, ReplyComfd
    <3>2. ~WriteKills(p, sock[p].shadowfd) /\ ~WriteKills(p, sock[p].comfd)
      BY <3>1, NoPipeBreaks DEF WriteKills
    <3> QED
      BY <2>4, <3>2 DEF ReplyShadow, ReplyComfd, WriteFd
  <2>5. CASE AppStep(p)
    <3>1. UNCHANGED sock \/ \E new : sock' = [sock EXCEPT ![p].fds = new]
      BY <2>5 DEF AppStep, Accept, CloseClient
    <3> QED
      BY <1>1, <3>1 DEF SockType
  <2> QED
    BY <2>1, <2>2, <2>3, <2>4, <2>5 DEF HandleStep
<1>5. status'.version = status.version
  <2>1. CASE CountStore(p)
    BY <1>1, <2>1 DEF CountStore, StatusType
  <2>2. CASE ~CountStore(p)
    <3>1. UNCHANGED status
      BY <2>2 DEF HandleStep, HandleAccept, HandleClose, HandleRace, HandleError,
         HandleRequest, CountLoad, ReplyShadow, ReplyComfd, AppStep, Accept, CloseClient
    <3> QED
      BY <3>1
  <2> QED
    BY <2>1, <2>2
<1> QED
  BY <1>2, <1>3, <1>4, <1>5, LoopingUnseen

LEMMA BindSeen ==
    ASSUME TypeOK, CountInv, SocketInv, Creator, Unopened, Newcomers, Served, Reached,
           NEW p \in Proc, BindStep(p)
    PROVE  U!Restart \/ Unseen
<1> USE DEF callVars, channelVars, clientVars, listenerVars, semVars
<1>1. CASE p # First
  <2>1. HeirMove(p)
    BY <1>1, HeirFacts
  <2>2. pc[p] \in BindPc /\ ~live[p]
    BY <1>1, <2>1 DEF HeirMove, HeirPc, BindPc, CountInv, EarlyUncounted
  <2>3. SameRole(p)
    BY <2>1, <2>2 DEF HeirMove, HeirPc, BindPc, SameRole
  <2>4. \A q \in Proc \ {p} : SameRole(q)
    BY <2>1 DEF HeirMove, SameRole, Serves
  <2> QED
    BY <2>1, <2>3, <2>4, NothingSeen DEF HeirMove
<1>2. CASE p = First
  <2>1. CreatorMove
    BY <1>2, CreatorFacts
  <2>2. pc[First] \in OpeningPc
    BY <2>1 DEF CreatorMove, OpeningPc, FreshPc
  <2>3. \A q \in Proc : ~live[q] /\ ~live'[q]
    BY <2>1, <2>2, BeforeOpening DEF CreatorMove
  <2>4. \A q \in Proc : pc'[q] = "dead" <=> pc[q] = "dead"
    BY <2>1 DEF CreatorMove
  <2>5. \A q \in Proc : SameRole(q)
    BY <2>3, <2>4 DEF SameRole
  <2>6. UNCHANGED status \/ status'.version = 0
    BY <1>2 DEF BindStep, MonitorBind, MonitorListen, Connect, SendPort, ReadShadow,
       ReadComfd, InheritStatusSem, InheritFdSem, InheritVersion, FreshStatusSem,
       FreshFdSem, FreshStatus, TcpBind
  <2> QED
    BY <2>3, <2>4, <2>5, <2>6, RestartSeen, NothingSeen
<1> QED
  BY <1>1, <1>2

LEMMA EndSeen ==
    ASSUME TypeOK, InsideLive, ServiceInv, Leavers, NEW p \in Proc, Terminate(p) \/ KillGroup(p)
    PROVE  (\E D \in SUBSET Proc : U!Leave(D)) \/ Unseen
<1> USE DEF callVars, channelVars, clientVars, listenerVars, semVars
<1>1. UNCHANGED status
  BY DEF Terminate, KillGroup
<1>2. CASE pc[p] = "exit" /\ Die({p})
  <2>1. ~Serving(p)
    BY <1>2 DEF ServiceInv, Acceptors, Serving
  <2>2. U!Leave({p})
    BY <1>1, <1>2, <2>1, LeaveSeen
  <2> QED
    BY <2>2
<1>3. CASE KillGroup(p)
  <2>1. PICK D \in SUBSET Proc : D = Killed(p)
    BY DEF Killed
  <2>2. Die(D)
    BY <1>3, <2>1 DEF KillGroup, Die
  <2>3. \A q \in D : sock[q].version < status.version
    BY <1>3, <2>1, KilledDoomed DEF KillGroup, Doomed
  <2>4. U!Leave(D)
    BY <1>1, <2>2, <2>3, LeaveSeen
  <2> QED
    BY <2>4
<1>4. CASE pc[p] = "exit" /\ Goto(p, "killpg") /\ UNCHANGED <<live, sock>>
  <2>1. /\ Serves(p) /\ Serves(p)' /\ pc'[p] # "dead"
        /\ \A q \in Proc \ {p} : pc'[q] = pc[q]
    BY <1>4 DEF Goto, TypeOK, Serves, EventPc
  <2>2. \A q \in Proc : SameRole(q)
    BY <1>4, <2>1 DEF SameRole, Serves
  <2> QED
    BY <1>1, <2>2, NothingSeen
<1> QED
  BY <1>2, <1>3, <1>4 DEF Terminate

LEMMA UnmovedUnseen ==
    ASSUME UNCHANGED <<pc, live, sock, status>>
    PROVE  Unseen
BY NothingSeen DEF SameRole, Serves

LEMMA StepSeen ==
    ASSUME TypeOK, NoCrashes, ~LateFork, InsideLive, SocketInv, ServiceInv, CountInv,
           Creator, Unopened, Newcomers, Served, Reached, Leavers, [Step]_vars
    PROVE  U!Next \/ Unseen
<1>1. MaxCrashes = 0 /\ ~ScanFaults
  BY DEF NoCrashes
<1>2. ASSUME NEW p \in Proc, BindStep(p)
      PROVE  U!Next \/ Unseen
  BY <1>2, BindSeen DEF U!Next
<1>3. ASSUME NEW p \in Proc, EventStep(p)
      PROVE  U!Next \/ Unseen
  <2>1. ~ScanFault(p)
    BY <1>1 DEF ScanFault
  <2>2. CASE Terminate(p) \/ KillGroup(p)
    BY <2>2, EndSeen DEF U!Next
  <2>3. CASE Monitor(p)
    BY <2>3, MonitorSeen DEF U!Next
  <2>4. CASE EventCall(p) /\ ~live[p]
    BY <2>4, JoinSeen DEF U!Next
  <2>5. CASE HandleStep(p)
    BY <2>5, HandleUnseen
  <2> QED
    BY <1>3, <2>1, <2>2, <2>3, <2>4, <2>5, EventUnseen DEF EventStep
<1>4. ASSUME NEW p \in Proc, AppStep(p)
      PROVE  Unseen
  BY <1>4, HandleUnseen
<1>5. ASSUME NEW p \in Proc, Interrupt(p)
      PROVE  Unseen
  BY <1>5, EventUnseen
<1>6. ASSUME NEW p \in Proc, Crash(p)
      PROVE  FALSE
  BY <1>1, <1>6 DEF Crash, TypeOK
<1>7. ASSUME NEW p \in Proc, Start(p)
      PROVE  Unseen
  <2>1. /\ pc[p] = "none" /\ pc'[p] = "bind" /\ UNCHANGED <<live, status>> /\ ~live[p]
        /\ \A q \in Proc \ {p} : pc'[q] = pc[q] /\ sock'[q] = sock[q]
    BY <1>7 DEF Start, Goto, TypeOK, CountInv, EarlyUncounted
  <2>2. \A q \in Proc : SameRole(q)
    BY <2>1 DEF SameRole, Serves
  <2> QED
    BY <2>1, <2>2, NothingSeen
<1>8. ASSUME NEW p \in Proc, NEW r \in Proc, Fork(p, r)
      PROVE  Unseen
  <2>1. /\ pc[r] = "none" /\ pc'[r] = "user" /\ UNCHANGED status /\ ~live[r] /\ ~live'[r]
        /\ \A q \in Proc \ {r} : pc'[q] = pc[q] /\ sock'[q] = sock[q] /\ live'[q] = live[q]
    BY <1>8 DEF Fork, Goto, TypeOK, CountInv, EarlyUncounted
  <2>2. \A q \in Proc : SameRole(q)
    BY <2>1 DEF SameRole, Serves
  <2> QED
    BY <2>1, <2>2, NothingSeen
<1>9. ASSUME NEW c \in Client, ClientConnect(c)
      PROVE  Unseen
  BY <1>9, UnmovedUnseen DEF ClientConnect
<1>10. CASE UNCHANGED vars
  BY <1>10, UnmovedUnseen DEF vars
<1> QED
  BY <1>2, <1>3, <1>4, <1>5, <1>6, <1>7, <1>8, <1>9, <1>10
     DEF Step, ProcessStep, Environment

LEMMA InitialUpdate == Init => U!Init
<1> SUFFICES ASSUME Init PROVE U!Init
  OBVIOUS
<1>1. status.version \in {r.version : r \in Leftover}
  BY DEF Init
<1>2. \A p \in Proc : pc[p] = "none" /\ ~live[p]
  BY DEF Init
<1>3. \A p \in Proc : RoleMap[p] = "new" /\ VersionMap[p] = 0
  BY <1>2, RoleOf DEF Serving, Draining
<1>4. RoleMap = [p \in Proc |-> "new"] /\ VersionMap = [p \in Proc |-> 0]
  BY <1>3 DEF RoleMap, VersionMap
<1> QED
  BY <1>1, <1>4 DEF U!Init, RoleMap, VersionMap

-----------------------------------------------------------------------------
(* The theorem.                                                             *)

(* Every behaviour of the protocol is one of the abstract update: binding,  *)
(* handshake, locks, forks and killed groups amount to the steps Restart,   *)
(* Join, Publish, Retire and Leave of Update.  In particular a process      *)
(* enters its event loop at most one version ahead (core.c:689-697), only   *)
(* an outdated version quits (core.c:246-250), and neither dsu_terminate    *)
(* nor its killpg takes a process of the published version along.           *)
THEOREM Refinement ==
    ASSUME GroupPremises
    PROVE  Spec => Refines
<1>1. Init => GroupState
  BY InitialGroup
<1>2. GroupState /\ [Step]_vars => GroupState'
  BY GroupPreserved
<1>3. GroupState /\ [Step]_vars => [U!Next]_(U!vars)
  <2>1. GroupState => /\ TypeOK /\ NoCrashes /\ ~LateFork /\ InsideLive /\ SocketInv
                      /\ ServiceInv /\ CountInv /\ Creator /\ Unopened /\ Newcomers
                      /\ Served /\ Reached /\ Leavers
    BY DEF GroupState, IInv, LockInv, GroupInv, GroupPremises
  <2>2. Unseen => UNCHANGED U!vars
    BY DEF Unseen, U!vars, RoleMap, VersionMap
  <2> QED
    BY <2>1, <2>2, StepSeen
<1>4. Spec => Init /\ [][Step]_vars
  BY Uninterrupted DEF GroupPremises
<1> QED
  BY <1>1, <1>2, <1>3, InitialUpdate, <1>4, PTL DEF Refines, U!Spec
=============================================================================
