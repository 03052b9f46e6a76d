--------------------------- MODULE TransferProofs ---------------------------
(* Proofs about Handover: what one update promises between the two versions *)
(* that take part in it, for any number of forked workers: no requester is  *)
(* left with half an answer, TRANSFER is the number of versions that have   *)
(* answered, and a blocking socket is watched by one version at a time.     *)
EXTENDS GroupProofs

-----------------------------------------------------------------------------
(* The premises.  A chain of updates breaks each of the three properties: a *)
(* third version may be answered by one that has closed its listener, or    *)
(* while the first two are both in transfer.                                *)

OneUpdate == \E q \in Proc : Binder \subseteq {First, q}

(* TRANSFER is counted per process, so that two workers of a version count  *)
(* twice.                                                                   *)
FirstAlone == \A p \in Proc : Pgid[p] = Pgid[First] => p = First

Updates == Binder \ {First}

(* The update has not been through its bind() yet.                          *)
Untaken == \A q \in Updates : pc[q] \in {"none", "bind"} \cup HeirPc

-----------------------------------------------------------------------------
(* Until the update has the port, the first version holds it.               *)

Holding ==
    Untaken => \A p \in Proc : Serves(p) =>
        /\ sock[p].monitoring /\ sock[p].comfd # None
        /\ sock[p].version = status.version

LEMMA UntakenBefore ==
    ASSUME GroupPremises, GroupState, Step, Untaken'
    PROVE  Untaken
<1>1. TypeOK /\ Lineage /\ Creator /\ pc \in [Proc -> PcType]
  BY DEF GroupState, IInv, GroupInv, TypeOK
<1>2. ASSUME \A q \in Proc : Lined(q)
      PROVE  Untaken
  <2> SUFFICES ASSUME NEW q \in Updates
               PROVE  pc[q] \in {"none", "bind"} \cup HeirPc
    BY DEF Untaken
  <2>1. q \in Proc \ {First} /\ pc'[q] \in {"none", "bind"} \cup HeirPc
    BY RolesAssumption DEF Untaken, Updates
  <2>2. pc[q] = "none" \/ pc[q] \in BindPc
    BY <1>2, <2>1 DEF Lined, HeirPc, BindPc
  <2>3. pc[q] \notin FreshPc
    BY <1>1, <2>1 DEF Creator
  <2> QED
    BY <2>2, <2>3 DEF BindPc, HeirPc, FreshPc
<1>3. ASSUME NEW p \in Proc, Start(p) PROVE Untaken
  <2>1. pc[p] = "none" /\ \A q \in Proc \ {p} : pc'[q] = pc[q]
    BY <1>1, <1>3 DEF Start, Goto
  <2> QED
    BY <2>1, RolesAssumption DEF Untaken, Updates
<1>4. ASSUME NEW p \in Proc, NEW q \in Proc, Fork(p, q) PROVE Untaken
  <2>1. q \notin Binder /\ \A r \in Proc \ {q} : pc'[r] = pc[r]
    BY <1>1, <1>4 DEF Fork, Goto
  <2> QED
    BY <2>1, RolesAssumption DEF Untaken, Updates
<1>5. ASSUME ~(\E p \in Proc : Start(p)), ~(\E p, q \in Proc : Fork(p, q))
      PROVE  \A q \in Proc : Lined(q)
  BY <1>1, <1>5, StepLined DEF Step, Environment
<1> QED
  BY <1>2, <1>3, <1>4, <1>5

(* Who takes a step of the event function or the application serves, and    *)
(* only the monitor writes a version.                                       *)
LEMMA ServingSteps ==
    ASSUME TypeOK, NEW p \in Proc, EventStep(p) \/ AppStep(p) \/ Interrupt(p)
    PROVE  /\ Serves(p)
           /\ Monitor(p) \/ status'.version = status.version
<1>1. status \in StatusType
  BY DEF TypeOK
<1>2. CASE AppStep(p)
  BY <1>2 DEF AppStep, Accept, CloseClient, Serves, AppPc
<1>3. CASE HandleStep(p)
  <2>1. CountStore(p) => status'.version = status.version
    BY <1>1 DEF CountStore, StatusType
  <2>2. ~CountStore(p) => UNCHANGED status
    BY <1>3 DEF HandleStep, HandleAccept, HandleClose, HandleRace, HandleError,
       HandleRequest, CountLoad, ReplyShadow, ReplyComfd
  <2>3. Serves(p)
    BY <1>3 DEF HandleStep, HandleAccept, HandleClose, HandleRace, HandleError, Takes,
       HandleRequest, CountLoad, CountStore, ReplyShadow, ReplyComfd, Serves, EventPc
  <2> QED
    BY <2>1, <2>2, <2>3
<1>4. CASE ~HandleStep(p) /\ ~AppStep(p)
  <2>1. QuitStore(p) => status'.version = status.version
    BY <1>1 DEF QuitStore, StatusType
  <2>2. ~QuitStore(p) /\ ~Monitor(p) => UNCHANGED status
    BY <1>4 DEF EventStep, EventCall, TerminationDetection, Terminate, KillGroup,
       PreEvent, Wake, Timeout, PollTimeout, Post, ScanFault, Interrupt
  <2>3. Serves(p)
    BY <1>4 DEF EventStep, EventCall, Monitor, QuitStore, TerminationDetection, Terminate,
       KillGroup, PreEvent, Wake, Timeout, PollTimeout, Post, ScanFault, HandledConns, Idle,
       Interrupt, Serves, EventPc, AppPc
  <2> QED
    BY <2>1, <2>2, <2>3
<1> QED
  BY <1>2, <1>3, <1>4

(* A process in its event loop or application keeps its version, its        *)
(* listener and its watch on newer versions, and nobody joins it there.     *)
Steady(q) ==
    Serves(q)' => /\ Serves(q)
                  /\ sock'[q].comfd = sock[q].comfd
                  /\ sock'[q].monitoring = sock[q].monitoring
                  /\ sock'[q].version = sock[q].version

LEMMA QuietSteady ==
    ASSUME NEW p \in Proc, Quiet(p), Serves(p), ~Quits(p)
    PROVE  \A q \in Proc : Steady(q)
BY DEF Quiet, QuietSock, Steady, Serves

LEMMA DeathSteady ==
    ASSUME NEW D, Die(D)
    PROVE  \A q \in Proc : Steady(q)
BY DEF Die, Steady, Serves, EventPc, AppPc

LEMMA HandleSteady ==
    ASSUME TypeOK, SocketInv, ServiceInv, NEW p \in Proc, HandleStep(p) \/ AppStep(p), ~Quits(p)
    PROVE  \A q \in Proc : Steady(q)
<1>1. /\ pc \in [Proc -> PcType] /\ sock \in [Proc -> SockType]
  BY DEF TypeOK
<1>2. CASE \/ AppStep(p) \/ \E c \in Proc : HandleClose(p, c) \/ HandleRace(p, c)
           \/ CountLoad(p) \/ CountStore(p)
  <2>1. Undisturbed(p)
    BY <1>2, HandleUndisturbed DEF AppStep
  <2>2. Serves(p)
    BY <1>2 DEF AppStep, Accept, CloseClient, HandleClose, HandleRace, Takes, CountLoad,
                CountStore, Serves, EventPc, AppPc
  <2> QED
    BY <2>1, <2>2, QuietSteady DEF Undisturbed
<1>3. CASE HandleAccept(p)
  <2>1. pc[p] = "handle" /\ UNCHANGED pc
        /\ (UNCHANGED sock \/ \E new : sock' = [sock EXCEPT ![p].comfds = new])
    BY <1>3 DEF HandleAccept
  <2>2. \A q \in Proc : /\ sock'[q].comfd = sock[q].comfd
                        /\ sock'[q].monitoring = sock[q].monitoring
                        /\ sock'[q].version = sock[q].version
    BY <1>1, <2>1 DEF SockType
  <2> QED
    BY <2>1, <2>2 DEF Steady, Serves
<1>4. CASE \/ \E c \in Proc : HandleRequest(p, c) \/ HandleError(p, c)
           \/ ReplyShadow(p) \/ ReplyComfd(p)
  <2>1. CASE Die({p})
    BY <2>1, DeathSteady
  <2>2. CASE ~Die({p})
    <3>1. /\ pc[p] \in {"handle", "reply1", "reply2"} /\ UNCHANGED sock
          /\ \E b \in {"count", "reply1", "reply2", "handle"} : Goto(p, b)
      BY <1>4, <2>2 DEF HandleRequest, HandleError, Takes, ReplyShadow, ReplyComfd,
                        WriteFd, WriteKills
    <3>2. Serves(p) /\ \A q \in Proc \ {p} : pc'[q] = pc[q]
      BY <1>1, <3>1 DEF Goto, Serves, EventPc
    <3> QED
      BY <3>1, <3>2 DEF Steady, Serves
  <2> QED
    BY <2>1, <2>2
<1> QED
  BY <1>2, <1>3, <1>4 DEF HandleStep

LEMMA EventSteady ==
    ASSUME TypeOK, SocketInv, ServiceInv, NEW p \in Proc, EventStep(p) \/ Interrupt(p), ~Quits(p)
    PROVE  \A q \in Proc : Steady(q)
<1>1. CASE \/ EventCall(p) \/ Monitor(p) \/ QuitStore(p) \/ TerminationDetection(p)
           \/ PreEvent(p) \/ Wake(p) \/ Timeout(p) \/ PollTimeout(p)
           \/ Interrupt(p) \/ Post(p)
  <2>1. Undisturbed(p)
    BY <1>1, EventUndisturbed
  <2>2. Serves(p)
    BY <1>1 DEF EventCall, Monitor, QuitStore, TerminationDetection, PreEvent, Wake, Timeout,
       PollTimeout, Post, HandledConns, Idle, Interrupt, Serves, EventPc, AppPc
  <2> QED
    BY <2>1, <2>2, QuietSteady DEF Undisturbed
<1>2. CASE Terminate(p) \/ KillGroup(p) \/ ScanFault(p)
  <2>1. CASE Die({p}) \/ Die(Killed(p))
    BY <2>1, DeathSteady
  <2>2. CASE pc[p] = "exit" /\ Goto(p, "killpg") /\ UNCHANGED sock
    BY <2>2 DEF Goto, Steady, Serves, EventPc, TypeOK
  <2> QED
    BY <1>2, <2>1, <2>2 DEF Terminate, KillGroup, ScanFault
<1> QED
  BY <1>1, <1>2, HandleSteady DEF EventStep

(* Neither the first version nor its workers see a newer version, and the   *)
(* update is the only process in bind().                                    *)
LEMMA HoldingPreserved ==
    ASSUME GroupPremises, GroupState, Holding, Step
    PROVE  Holding'
<1>1. /\ TypeOK /\ SocketInv /\ ServiceInv /\ CountInv /\ Lineage /\ MaxCrashes = 0
      /\ Creator /\ Unopened /\ Newcomers /\ Served /\ Reached /\ status \in StatusType
      /\ pc \in [Proc -> PcType] /\ sock \in [Proc -> SockType]
  BY DEF GroupState, IInv, GroupInv, GroupPremises, NoCrashes, TypeOK
<1>2. SUFFICES ASSUME Untaken'
               PROVE  \A q \in Proc : Serves(q)' =>
                         /\ sock'[q].monitoring /\ sock'[q].comfd # None
                         /\ sock'[q].version = status'.version
  BY DEF Holding
<1>3. Untaken
  BY <1>2, UntakenBefore
<1>4. \A q \in Proc : Serves(q) =>
        /\ sock[q].monitoring /\ sock[q].comfd # None
        /\ sock[q].version = status.version
        /\ ~Quits(q) /\ ~Publishes(q)
  <2>1. \A q \in Proc : sock[q].version = status.version => ~Quits(q) /\ ~Publishes(q)
    BY <1>1 DEF SockType, StatusType, Quits, Publishes
  <2> QED
    BY <1>3, <2>1 DEF Holding
<1>5. ASSUME \A q \in Proc : Steady(q), status'.version = status.version
      PROVE  \A q \in Proc : Serves(q)' =>
                /\ sock'[q].monitoring /\ sock'[q].comfd # None
                /\ sock'[q].version = status'.version
  BY <1>4, <1>5 DEF Steady
<1>6. ASSUME NEW p \in Proc, EventStep(p) \/ AppStep(p) \/ Interrupt(p)
      PROVE  (\A q \in Proc : Steady(q)) /\ status'.version = status.version
  <2>1. Serves(p)
    BY <1>1, <1>6, ServingSteps
  <2>2. ~Quits(p) /\ ~Publishes(p)
    BY <1>4, <2>1
  <2>3. Monitor(p) => UNCHANGED status
    BY <2>2 DEF Monitor
  <2>4. status'.version = status.version
    BY <1>1, <1>6, <2>3, ServingSteps
  <2>5. \A q \in Proc : Steady(q)
    BY <1>1, <1>6, <2>2, EventSteady, HandleSteady
  <2> QED
    BY <2>4, <2>5
<1>7. ASSUME NEW p \in Proc, p # First, BindStep(p)
      PROVE  (\A q \in Proc : Steady(q)) /\ UNCHANGED status
  <2>1. HeirMove(p)
    BY <1>1, <1>7, HeirFacts
  <2>2. p \in Updates
    BY <1>1, <1>7, <2>1 DEF Updates, Lineage, HeirMove, HeirPc, BindPc
  <2>3. pc'[p] \in HeirPc
    BY <1>2, <2>1, <2>2 DEF Untaken, HeirMove, HeirPc
  <2> QED
    BY <2>1, <2>3 DEF HeirMove, Steady, Serves, HeirPc, EventPc, AppPc
<1>8. CASE BindStep(First)
  <2>1. CreatorMove /\ First \in Proc
    BY <1>1, <1>8, CreatorFacts, RolesAssumption
  <2>2. pc[First] \in OpeningPc
    BY <2>1 DEF CreatorMove, OpeningPc, FreshPc
  <2>3. \A q \in Proc \ {First} : pc[q] = "none"
    BY <1>1, <2>2, BeforeOpening
  <2>4. \A q \in Proc : Serves(q)' => q = First /\ pc'[First] = "user"
    BY <2>1, <2>3 DEF CreatorMove, Serves, EventPc, AppPc
  <2>5. CASE pc'[First] = "user"
    <3>1. pc[First] = "tcpbind" /\ UNCHANGED <<status, sock>>
      BY <2>1, <2>5 DEF CreatorMove
    <3>2. /\ sock[First].monitoring /\ sock[First].comfd = Com(First)
          /\ sock[First].version = status.version
      BY <1>1, <3>1 DEF Creator, FreshPc
    <3>3. Com(First) # None
      BY <2>1, NoneAssumption DEF Com, Fd
    <3> QED
      BY <2>4, <3>1, <3>2, <3>3
  <2> QED
    BY <2>4, <2>5
<1>9. ASSUME NEW p \in Proc, Start(p)
      PROVE  (\A q \in Proc : Steady(q)) /\ UNCHANGED status
  BY <1>1, <1>9 DEF Start, Goto, Steady, Serves, EventPc, AppPc
<1>10. ASSUME NEW p \in Proc, NEW r \in Proc, Fork(p, r)
       PROVE  \A q \in Proc : Serves(q)' =>
                /\ sock'[q].monitoring /\ sock'[q].comfd # None
                /\ sock'[q].version = status'.version
  <2>1. /\ Serves(p) /\ UNCHANGED status
        /\ \A q \in Proc : q # r => pc'[q] = pc[q] /\ sock'[q] = sock[q]
        /\ sock'[r] = sock[p]
    BY <1>1, <1>10 DEF Fork, Goto, Serves, AppPc
  <2>2. \A q \in Proc : q # r /\ Serves(q)' => Serves(q)
    BY <2>1 DEF Serves
  <2> QED
    BY <1>4, <2>1, <2>2
<1>11. ASSUME NEW c \in Client, ClientConnect(c)
       PROVE  (\A q \in Proc : Steady(q)) /\ UNCHANGED status
  BY <1>11 DEF ClientConnect, Steady, Serves
<1>12. ASSUME NEW p \in Proc, Crash(p)
       PROVE  FALSE
  BY <1>1, <1>12 DEF Crash, TypeOK
<1> QED
  BY <1>5, <1>6, <1>7, <1>8, <1>9, <1>10, <1>11, <1>12 DEF Step, ProcessStep, Environment

-----------------------------------------------------------------------------
(* Whoever's request was read gets two descriptors.                         *)

Owed ==
    \A c \in Proc : request[c] = "read" /\ pc[c] \in {"recv1", "recv2"} =>
        \/ \E p \in Proc : peer[p] = c
        \/ Len(replies[c]) = IF pc[c] = "recv1" THEN 2 ELSE 1

(* The requests and their answers stay as they are.                         *)
SameRequests ==
    /\ UNCHANGED request
    /\ \A q \in Proc : peer[q] # None => peer'[q] = peer[q]
    /\ \A c \in Proc : pc'[c] \in {"recv1", "recv2"} =>
          pc[c] = pc'[c] /\ replies'[c] = replies[c]

LEMMA OwedStill ==
    ASSUME Owed, SameRequests
    PROVE  Owed'
BY NoneAssumption DEF Owed, SameRequests

LEMMA QuietRequests ==
    ASSUME NEW p \in Proc, Quiet(p)
    PROVE  SameRequests
BY DEF Quiet, QuietMove, SameRequests, Serves, EventPc, AppPc

(* Nobody dies who is answering.                                            *)
LEMMA DeathRequests ==
    ASSUME SocketInv, NEW D, Die(D), \A q \in D : pc[q] \notin AnsweringPc
    PROVE  SameRequests
BY DEF Die, SameRequests, SocketInv, DescriptorInv, Answerers

LEMMA EventRequests ==
    ASSUME TypeOK, SocketInv, Leavers, MaxCrashes = 0, ~ScanFaults, NEW p \in Proc,
           EventStep(p) \/ AppStep(p) \/ Interrupt(p), ~HandleStep(p)
    PROVE  SameRequests
<1>1. CASE \/ EventCall(p) \/ Monitor(p) \/ QuitStore(p) \/ TerminationDetection(p)
           \/ PreEvent(p) \/ Wake(p) \/ Timeout(p) \/ PollTimeout(p)
           \/ Interrupt(p) \/ Post(p)
  BY <1>1, EventUndisturbed, QuietRequests DEF Undisturbed
<1>2. CASE AppStep(p)
  BY <1>2, HandleUndisturbed, QuietRequests DEF Undisturbed, AppStep
<1>3. CASE Terminate(p)
  <2>1. pc[p] = "exit" /\ (Die({p}) \/ (Goto(p, "killpg") /\ UNCHANGED <<callVars, channelVars>>))
    BY <1>3 DEF Terminate
  <2>2. CASE Die({p})
    BY <2>1, <2>2, DeathRequests DEF AnsweringPc
  <2>3. CASE Goto(p, "killpg") /\ UNCHANGED <<callVars, channelVars>>
    BY <2>1, <2>3 DEF Goto, SameRequests, callVars, channelVars, TypeOK
  <2> QED
    BY <2>1, <2>2, <2>3
<1>4. CASE KillGroup(p)
  <2>1. pc[p] = "killpg" /\ Die(Killed(p))
    BY <1>4 DEF KillGroup
  <2>2. \A q \in Killed(p) : pc[q] \notin AnsweringPc
    BY <2>1, KilledDoomed DEF Doomed, AnsweringPc
  <2> QED
    BY <2>1, <2>2, DeathRequests
<1> QED
  BY <1>1, <1>2, <1>3, <1>4 DEF EventStep, ScanFault

(* The receives of bind().                                                  *)
LEMMA ReadShadowOwed ==
    ASSUME TypeOK, Owed, NEW p \in Proc, ReadShadow(p)
    PROVE  Owed'
<1>1. /\ pc[p] = "recv1" /\ UNCHANGED <<request, peer>>
      /\ pc'[p] = "recv2" /\ \A q \in Proc \ {p} : pc'[q] = pc[q] /\ replies'[q] = replies[q]
      /\ \/ replies[p] # <<>> /\ replies'[p] = Tail(replies[p])
         \/ replies[p] = <<>>
      /\ replies[p] \in Seq(Fd)
  BY DEF ReadShadow, Goto, TypeOK
<1>2. Len(replies[p]) = 2 => Len(replies'[p]) = 1
  <2>1. ASSUME NEW s \in Seq(Fd), Len(s) = 2
        PROVE  s # <<>> /\ Len(Tail(s)) = 1
    <3>1. s # <<>>
      BY <2>1, EmptySeq
    <3> QED
      BY <2>1, <3>1
  <2> QED
    BY <1>1, <2>1
<1> QED
  BY <1>1, <1>2 DEF Owed

LEMMA ReadComfdOwed ==
    ASSUME TypeOK, Owed, NEW p \in Proc, ReadComfd(p)
    PROVE  Owed'
<1>1. /\ UNCHANGED <<request, peer>> /\ pc'[p] \in {"inherit1", "sem1"}
      /\ \A q \in Proc \ {p} : pc'[q] = pc[q] /\ replies'[q] = replies[q]
  BY DEF ReadComfd, Goto, TypeOK
<1> QED
  BY <1>1 DEF Owed

(* The two replies.                                                         *)
LEMMA RequestOwed ==
    ASSUME TypeOK, SocketInv, Owed, NEW p \in Proc, NEW c \in Proc, HandleRequest(p, c)
    PROVE  Owed'
<1>1. /\ peer'[p] = c /\ \A q \in Proc \ {p} : peer'[q] = peer[q]
      /\ \A d \in Proc \ {c} : request'[d] = request[d]
      /\ UNCHANGED replies /\ pc[p] = "handle"
      /\ \A d \in Proc : pc'[d] \in {"recv1", "recv2"} => pc'[d] = pc[d]
  BY DEF HandleRequest, Takes, Goto, TypeOK
<1>2. peer[p] = None
  BY <1>1 DEF SocketInv, DescriptorInv, Answerers, AnsweringPc
<1> QED
  BY <1>1, <1>2, NoneAssumption DEF Owed

LEMMA ReplyShadowOwed ==
    ASSUME TypeOK, SocketInv, ServiceInv, Owed, NEW p \in Proc, ReplyShadow(p)
    PROVE  Owed'
<1>1. peer[p] \in Proc /\ Requesting(peer[p]) /\ pc[p] = "reply1"
  BY NoPipeBreaks DEF ReplyShadow, SocketInv, DescriptorInv, Answerers, AnsweringPc, TypeOK
<1>2. /\ UNCHANGED <<peer, request>> /\ Goto(p, "reply2")
      /\ \A d \in Proc : d # peer[p] => replies'[d] = replies[d]
  BY <1>1 DEF ReplyShadow, WriteFd, WriteKills, TypeOK
<1>3. \A d \in Proc : pc'[d] \in {"recv1", "recv2"} => pc'[d] = pc[d]
  BY <1>2 DEF Goto, TypeOK
<1> QED
  BY <1>1, <1>2, <1>3 DEF Owed

LEMMA ReplyComfdOwed ==
    ASSUME TypeOK, SocketInv, ServiceInv, ~JunkLen, Owed, NEW p \in Proc, ReplyComfd(p),
           sock[p].comfd # None
    PROVE  Owed'
<1>1. peer[p] \in Proc /\ Requesting(peer[p]) /\ pc[p] = "reply2"
  BY NoPipeBreaks DEF ReplyComfd, SocketInv, DescriptorInv, Answerers, AnsweringPc, TypeOK
<1>2. PICK c \in Proc : peer[p] = c
  BY <1>1
<1>3. sock[p].comfd \in Fd /\ replies[c] \in Seq(Fd)
  BY DEF TypeOK, SockType
<1>4. /\ UNCHANGED request /\ Goto(p, "handle")
      /\ \A d \in Proc : d # c => replies'[d] = replies[d]
      /\ replies'[c] = Append(replies[c], sock[p].comfd)
      /\ \A q \in Proc \ {p} : peer'[q] = peer[q]
  BY <1>1, <1>2 DEF ReplyComfd, WriteFd, WriteKills, TypeOK
<1>5. \A d \in Proc : pc'[d] \in {"recv1", "recv2"} => pc'[d] = pc[d]
  BY <1>4 DEF Goto, TypeOK
<1>6. HalfAnswered(c)
  BY <1>1, <1>2 DEF ServiceInv, TwoReplies
<1>7. Len(replies'[c]) = Len(replies[c]) + 1
  BY <1>3, <1>4
<1>8. Len(replies'[c]) = IF pc[c] = "recv1" THEN 2 ELSE 1
  <2>1. CASE pc[c] = "recv1"
    <3>1. Len(replies[c]) = 1
      BY <1>6, <2>1 DEF HalfAnswered
    <3>2. Len(replies[c]) + 1 = 2
      BY <3>1
    <3> QED
      BY <1>7, <2>1, <3>2
  <2>2. CASE pc[c] # "recv1"
    <3>1. Len(replies[c]) = 0
      BY <1>6, <2>2 DEF HalfAnswered
    <3>2. Len(replies[c]) + 1 = 1
      BY <3>1
    <3> QED
      BY <1>7, <2>2, <3>2
  <2> QED
    BY <2>1, <2>2
<1> QED
  BY <1>2, <1>4, <1>5, <1>8 DEF Owed

(* While a requester waits the update has not been through its bind().      *)
LEMMA RequesterUntaken ==
    ASSUME Creator, Lineage, OneUpdate, NEW c \in Proc, Requesting(c)
    PROVE  Untaken /\ Updates = {c}
<1>1. pc[c] \in HeirPc /\ pc[c] \in BindPc
  BY DEF Requesting, HeirPc, BindPc
<1>2. c \in Binder /\ c # First
  BY <1>1 DEF Lineage, Creator
<1>3. Updates = {c}
  BY <1>2, RolesAssumption DEF OneUpdate, Updates
<1> QED
  BY <1>1, <1>3 DEF Untaken

(* The steps of bind() that neither send nor receive.                       *)
LEMMA BindRequests ==
    ASSUME GroupState, NEW p \in Proc, BindStep(p),
           ~SendPort(p), ~ReadShadow(p), ~ReadComfd(p)
    PROVE  SameRequests
<1>1. /\ TypeOK /\ Creator /\ pc \in [Proc -> PcType]
  BY DEF GroupState, IInv, GroupInv, TypeOK
<1>2. CASE Connect(p)
  BY <1>1, <1>2 DEF Connect, Goto, SameRequests, callVars, channelVars
<1>3. CASE TcpBind(p)
  <2>1. p = First /\ CreatorMove
    BY <1>1, <1>3, CreatorFacts DEF TcpBind, Creator, FreshPc, BindStep
  <2>2. pc[p] = "tcpbind" /\ ~Die({p})
    BY <1>3, <2>1 DEF TcpBind, CreatorMove, Die
  <2> QED
    BY <1>1, <1>3, <2>2 DEF TcpBind, Goto, SameRequests, callVars, channelVars
<1>4. CASE \/ MonitorBind(p) \/ MonitorListen(p)
           \/ InheritStatusSem(p) \/ InheritFdSem(p) \/ InheritVersion(p)
           \/ FreshStatusSem(p) \/ FreshFdSem(p) \/ FreshStatus(p)
  BY <1>1, <1>4, BindUndisturbed, QuietRequests DEF Undisturbed
<1> QED
  BY <1>2, <1>3, <1>4 DEF BindStep

LEMMA SendPortOwed ==
    ASSUME GroupState, Owed, NEW p \in Proc, SendPort(p)
    PROVE  Owed'
<1>1. /\ TypeOK /\ SocketInv /\ CountInv
      /\ Creator /\ Unopened /\ Newcomers /\ Served /\ Reached
      /\ pc \in [Proc -> PcType] /\ request \in [Proc -> {"none", "unread", "read"}]
  BY DEF GroupState, IInv, GroupInv, TypeOK
<1>2. p # First /\ pc[p] = "send"
  BY <1>1 DEF SendPort, Creator, HeirPc
<1>3. HeirMove(p)
  BY <1>1, <1>2, HeirFacts DEF BindStep
<1>4. pc'[p] # "dead" /\ \A q \in Proc \ {p} : pc'[q] = pc[q]
  BY <1>3 DEF HeirMove, HeirPc
<1>5. ~Die({p})
  BY <1>4 DEF Die
<1>6. /\ UNCHANGED <<peer, replies>>
      /\ request'[p] = "unread" \/ pc'[p] = "sem1"
      /\ \A c \in Proc \ {p} : request'[c] = request[c]
  BY <1>1, <1>5 DEF SendPort, Goto, callVars, channelVars
<1> QED
  BY <1>4, <1>6 DEF Owed

(* Whoever's request is answered while it is the only update meets a        *)
(* version that has its listener.                                           *)
LEMMA OwedPreserved ==
    ASSUME GroupPremises, ~JunkLen, OneUpdate, GroupState, Holding, Owed, Step
    PROVE  Owed'
<1>1. /\ TypeOK /\ SocketInv /\ ServiceInv /\ MaxCrashes = 0 /\ ~ScanFaults
      /\ Lineage /\ Creator /\ Leavers /\ pc \in [Proc -> PcType]
  BY DEF GroupState, IInv, GroupInv, GroupPremises, NoCrashes, TypeOK
<1>2. ASSUME NEW p \in Proc, BindStep(p)
      PROVE  Owed'
  BY <1>1, <1>2, BindRequests, OwedStill, SendPortOwed, ReadShadowOwed, ReadComfdOwed
<1>3. ASSUME NEW p \in Proc, HandleStep(p)
      PROVE  Owed'
  <2>1. CASE \/ \E c \in Proc : HandleClose(p, c) \/ HandleRace(p, c)
             \/ CountLoad(p) \/ CountStore(p)
    BY <1>1, <2>1, HandleUndisturbed, QuietRequests, OwedStill DEF Undisturbed
  <2>2. CASE HandleAccept(p)
    BY <2>2, OwedStill DEF HandleAccept, SameRequests, channelVars
  <2>3. CASE \E c \in Proc : HandleError(p, c)
    BY <1>1, <2>3 DEF HandleError, ServiceInv, TwoReplies
  <2>4. CASE \E c \in Proc : HandleRequest(p, c)
    BY <1>1, <2>4, RequestOwed
  <2>5. CASE ReplyShadow(p)
    BY <1>1, <2>5, ReplyShadowOwed
  <2>6. CASE ReplyComfd(p)
    <3>1. peer[p] \in Proc /\ Requesting(peer[p]) /\ pc[p] = "reply2"
      BY <1>1, <2>6, NoPipeBreaks
         DEF ReplyComfd, SocketInv, DescriptorInv, Answerers, AnsweringPc, TypeOK
    <3>2. Serves(p) /\ Untaken
      BY <1>1, <3>1, RequesterUntaken DEF Serves, EventPc
    <3>3. sock[p].comfd # None
      BY <3>2 DEF Holding
    <3> QED
      BY <1>1, <2>6, <3>3, ReplyComfdOwed
  <2> QED
    BY <1>3, <2>1, <2>2, <2>3, <2>4, <2>5, <2>6 DEF HandleStep
<1>4. ASSUME NEW p \in Proc, EventStep(p) \/ AppStep(p) \/ Interrupt(p), ~HandleStep(p)
      PROVE  Owed'
  BY <1>1, <1>4, EventRequests, OwedStill
<1>5. ASSUME NEW p \in Proc, Start(p)
      PROVE  Owed'
  BY <1>1, <1>5, OwedStill DEF Start, Goto, SameRequests, callVars, channelVars
<1>6. ASSUME NEW p \in Proc, NEW q \in Proc, Fork(p, q)
      PROVE  Owed'
  BY <1>1, <1>6, OwedStill DEF Fork, Goto, SameRequests, callVars, channelVars
<1>7. ASSUME NEW c \in Client, ClientConnect(c)
      PROVE  Owed'
  BY <1>7, OwedStill DEF ClientConnect, SameRequests, callVars, channelVars
<1>8. ASSUME NEW p \in Proc, Crash(p)
      PROVE  FALSE
  BY <1>1, <1>8 DEF Crash, TypeOK
<1> QED
  BY <1>2, <1>3, <1>4, <1>5, <1>6, <1>7, <1>8 DEF Step, ProcessStep, Environment

LEMMA InitialHolding == Init => Holding /\ Owed
<1> SUFFICES ASSUME Init PROVE Holding /\ Owed
  OBVIOUS
<1>1. \A p \in Proc : pc[p] = "none"
  BY DEF Init
<1> QED
  BY <1>1 DEF Holding, Owed, Serves, EventPc, AppPc

(* In one update whoever is answered gets both descriptors (core.c:74-89,   *)
(* select.c:140-145): the version that answers closes its listener only     *)
(* when the one that asked has published itself.  It needs that             *)
(* dsu_write_fd does not take a random length for an error                  *)
(* (communication.c:19-20).                                                 *)
THEOREM NoneStrandedHolds ==
    ASSUME GroupPremises, ~JunkLen, OneUpdate
    PROVE  Spec => []NoneStranded
<1>1. Init => GroupState /\ Holding /\ Owed
  BY InitialGroup, InitialHolding
<1>2. GroupState /\ Holding /\ Owed /\ [Step]_vars => GroupState' /\ Holding' /\ Owed'
  <2> SUFFICES ASSUME GroupState, Holding, Owed, [Step]_vars
               PROVE  GroupState' /\ Holding' /\ Owed'
    OBVIOUS
  <2>1. GroupState'
    BY GroupPreserved
  <2>2. CASE Step
    BY <2>1, <2>2, HoldingPreserved, OwedPreserved
  <2>3. CASE UNCHANGED vars
    BY <2>1, <2>3 DEF vars, callVars, channelVars, Holding, Owed, Untaken, Serves
  <2> QED
    BY <2>2, <2>3
<1>3. Owed => NoneStranded
  <2> SUFFICES ASSUME Owed, NEW c \in Proc, Stranded(c)
               PROVE  FALSE
    BY DEF NoneStranded
  <2>1. Len(replies[c]) = 0
    BY DEF Stranded
  <2> QED
    BY <2>1 DEF Stranded, Owed
<1>4. Spec => Init /\ [][Step]_vars
  BY Uninterrupted DEF GroupPremises
<1> QED
  BY <1>1, <1>2, <1>3, <1>4, PTL

-----------------------------------------------------------------------------
(* The inductive invariant of the counter of transfers.                     *)

(* Only the first version answers, and no other is behind.                  *)
Successors ==
    \A p \in Proc \ {First} :
        /\ peer[p] = None /\ ~sock[p].transfer /\ pc[p] # "quit"
        /\ Serves(p) => sock[p].version >= status.version

(* The update comes through bind() by an answer.                            *)
Asked ==
    \A q \in Updates :
        pc[q] \in {"none", "bind", "connect", "send", "recv1"} \/ request[q] = "read"

(* The counter is 0 or 1, as the first version is in transfer or not; it is *)
(* once it has read the request, and leaves transfer when it quits.         *)
FirstCounts ==
    /\ sock[First].version = 0
    /\ pc[First] \notin {"none", "bind", "listen", "sem1", "sem2", "fresh"} =>
          status.transfer = IF sock[First].transfer THEN 1 ELSE 0
    /\ pc[First] \in {"quit", "store"} => reg[First] = status.transfer
    /\ pc[First] = "quit" => sock[First].transfer /\ ~sock[First].monitoring
    /\ pc[First] = "store" => ~sock[First].transfer

FirstInTransfer ==
    Serves(First) =>
        /\ (\E c \in Updates : request[c] = "read") =>
              \/ sock[First].transfer \/ ~sock[First].monitoring
              \/ pc[First] \in {"count", "store"}
        /\ sock[First].transfer =>
              sock[First].monitoring \/ pc[First] = "quit"

TransferInv == Successors /\ Asked /\ FirstCounts /\ FirstInTransfer

(* A step that leaves the counter alone.                                    *)
Plain(p) ==
    /\ Serves(p) /\ Serves(p)'
    /\ {pc[p], pc'[p]} \cap {"quit", "count", "store"} = {}
    /\ \A q \in Proc \ {p} : pc'[q] = pc[q] /\ sock'[q] = sock[q]
    /\ sock'[p].monitoring = sock[p].monitoring /\ sock'[p].version = sock[p].version
    /\ sock'[p].transfer = sock[p].transfer
    /\ UNCHANGED <<status, reg, request>>
    /\ \A q \in Proc : peer'[q] \in {peer[q], None}

LEMMA PlainTransfer ==
    ASSUME TransferInv, NEW p \in Proc, Plain(p)
    PROVE  TransferInv'
<1> USE DEF TransferInv, Plain
<1>1. \A q \in Proc : /\ Serves(q)' <=> Serves(q)
                      /\ pc[q] \notin {"none", "bind", "connect", "send", "recv1"} \/ pc'[q] = pc[q]
                      /\ sock'[q].transfer = sock[q].transfer
                      /\ sock'[q].version = sock[q].version
                      /\ sock'[q].monitoring = sock[q].monitoring
                      /\ pc'[q] = pc[q] \/
                           {pc[q], pc'[q]} \cap {"quit", "count", "store", "none", "bind", "listen", "sem1", "sem2", "fresh"} = {}
  BY DEF Serves, EventPc, AppPc
<1>2. First \in Proc /\ Updates \subseteq Proc
  BY RolesAssumption DEF Updates
<1>3. Successors'
  BY <1>1 DEF Successors
<1>4. Asked'
  BY <1>1, <1>2 DEF Asked
<1>5. FirstCounts'
  BY <1>1, <1>2 DEF FirstCounts
<1>6. FirstInTransfer'
  BY <1>1, <1>2 DEF FirstInTransfer
<1> QED
  BY <1>3, <1>4, <1>5, <1>6

LEMMA PlainEvent ==
    ASSUME TypeOK, NEW p \in Proc,
           \/ EventCall(p) \/ TerminationDetection(p) \/ PreEvent(p) \/ Wake(p)
           \/ Timeout(p) \/ PollTimeout(p) \/ Interrupt(p) \/ Post(p)
           \/ Monitor(p) /\ ~Quits(p) /\ ~Publishes(p)
    PROVE  Plain(p)
<1> USE DEF callVars, channelVars, clientVars, listenerVars, semVars
<1>1. /\ pc \in [Proc -> PcType] /\ sock \in [Proc -> SockType]
  BY DEF TypeOK
<1>2. ASSUME NEW b, Goto(p, b)
      PROVE  pc'[p] = b
  BY <1>1, <1>2 DEF Goto
<1>3. pc[p] \in {"user", "monitor", "terminate", "pre", "wait", "handle"}
  BY DEF EventCall, TerminationDetection, PreEvent, Wake, Timeout, PollTimeout, Interrupt,
         Post, Monitor, Idle, HandledConns
<1>4. pc'[p] \in {"monitor", "terminate", "exit", "pre", "wait", "handle", "accept", "user"}
  BY <1>2 DEF EventCall, TerminationDetection, PreEvent, Wake, Timeout, PollTimeout, Interrupt,
         Post, Monitor
<1>5. /\ sock'[p].monitoring = sock[p].monitoring /\ sock'[p].version = sock[p].version
      /\ sock'[p].transfer = sock[p].transfer
      /\ \A q \in Proc \ {p} : sock'[q] = sock[q]
  <2>1. CASE UNCHANGED sock
    BY <2>1
  <2>2. CASE PreEvent(p) /\ ~UNCHANGED sock
    <3> DEFINE l == sock[p].locked \/ (Exclusive /\ TryLock(p))
               i == IF Handler[p] = "epoll" THEN sock[p].interest \cup {sock[p].comfd}
                    ELSE sock[p].interest
    <3>1. sock' = [sock EXCEPT ![p].locked = l, ![p].interest = i]
      BY <2>2 DEF PreEvent
    <3> HIDE DEF l, i
    <3> QED
      BY <1>1, <3>1 DEF SockType
  <2>3. CASE Unlock(p)
    BY <1>1, <2>3 DEF Unlock, SockType
  <2> QED
    BY <2>1, <2>2, <2>3 DEF EventCall, TerminationDetection, PreEvent, Wake, Timeout,
       PollTimeout, Interrupt, Post, Monitor
<1>6. /\ UNCHANGED <<status, reg, request>>
      /\ \A q \in Proc : peer'[q] = peer[q]
  BY DEF EventCall, TerminationDetection, PreEvent, Wake, Timeout, PollTimeout, Interrupt,
         Post, Monitor
<1>7. \A q \in Proc \ {p} : pc'[q] = pc[q]
  BY <1>1 DEF Goto, EventCall, TerminationDetection, PreEvent, Wake, Timeout, PollTimeout,
         Interrupt, Post, Monitor
<1> QED
  BY <1>3, <1>4, <1>5, <1>6, <1>7 DEF Plain, Serves, EventPc, AppPc

LEMMA PlainHandle ==
    ASSUME TypeOK, SocketInv, ServiceInv, NEW p \in Proc,
           \/ AppStep(p) \/ HandleAccept(p) \/ ReplyShadow(p) \/ ReplyComfd(p)
           \/ \E c \in Proc : HandleClose(p, c) \/ HandleRace(p, c)
    PROVE  Plain(p)
<1> USE DEF callVars, channelVars, clientVars, listenerVars, semVars
<1>1. /\ pc \in [Proc -> PcType] /\ sock \in [Proc -> SockType]
      /\ peer \in [Proc -> Proc \cup {None}]
  BY DEF TypeOK
<1>2. CASE AppStep(p)
  <2>1. /\ pc[p] \in {"accept", "user"} /\ pc'[p] = "user"
        /\ \A q \in Proc \ {p} : pc'[q] = pc[q]
        /\ UNCHANGED <<status, reg, request, peer>>
    BY <1>1, <1>2 DEF AppStep, Accept, CloseClient, Goto
  <2>2. /\ sock'[p].monitoring = sock[p].monitoring /\ sock'[p].version = sock[p].version
        /\ sock'[p].transfer = sock[p].transfer
        /\ \A q \in Proc \ {p} : sock'[q] = sock[q]
    BY <1>1, <1>2 DEF AppStep, Accept, CloseClient, SockType
  <2> QED
    BY <2>1, <2>2 DEF Plain, Serves, AppPc
<1>3. CASE HandleAccept(p) \/ \E c \in Proc : HandleClose(p, c) \/ HandleRace(p, c)
  <2>1. pc[p] = "handle" /\ UNCHANGED <<pc, status, reg, request, peer>>
    BY <1>3 DEF HandleAccept, HandleClose, HandleRace, Takes
  <2>2. UNCHANGED sock \/ \E new : sock' = [sock EXCEPT ![p].comfds = new]
    BY <1>3 DEF HandleAccept, HandleClose, HandleRace
  <2>3. /\ sock'[p].monitoring = sock[p].monitoring /\ sock'[p].version = sock[p].version
        /\ sock'[p].transfer = sock[p].transfer
        /\ \A q \in Proc \ {p} : sock'[q] = sock[q]
    BY <1>1, <2>2 DEF SockType
  <2> QED
    BY <2>1, <2>3 DEF Plain, Serves, EventPc
<1>4. CASE ReplyShadow(p) \/ ReplyComfd(p)
  <2>1. pc[p] \in {"reply1", "reply2"} /\ Requesting(peer[p])
    BY <1>4, NoPipeBreaks DEF ReplyShadow, ReplyComfd
  <2>2. /\ pc'[p] \in {"reply2", "handle"} /\ \A q \in Proc \ {p} : pc'[q] = pc[q]
        /\ UNCHANGED <<status, reg, request, sock>>
        /\ \A q \in Proc : peer'[q] \in {peer[q], None}
    BY <1>1, <1>4, <2>1 DEF ReplyShadow, ReplyComfd, WriteFd, WriteKills, Goto
  <2> QED
    BY <2>1, <2>2 DEF Plain, Serves, EventPc
<1> QED
  BY <1>2, <1>3, <1>4

(* While a requester waits nobody but the first version serves.             *)
LEMMA FirstAnswers ==
    ASSUME Creator, Lineage, BinderFirst, OneUpdate, FirstAlone,
           NEW c \in Proc, Requesting(c)
    PROVE  Untaken /\ \A p \in Proc : Serves(p) => p = First
<1>1. Untaken /\ Updates = {c}
  BY RequesterUntaken
<1>2. pc[c] \in BindPc /\ ~Serves(c)
  BY DEF Requesting, BindPc, Serves, EventPc, AppPc
<1>3. ASSUME NEW p \in Proc, Serves(p), p # First
      PROVE  FALSE
  <2>1. PICK b \in Binder : Pgid[b] = Pgid[p] /\ pc[b] # "none"
    BY <1>3 DEF BinderFirst, Serves, EventPc, AppPc
  <2>2. b = c
    BY <1>1, <1>3, <2>1 DEF FirstAlone, Updates
  <2>3. pc[p] = "none"
    BY <1>2, <1>3, <2>1, <2>2 DEF Lineage
  <2> QED
    BY <1>3, <2>3 DEF Serves, EventPc, AppPc
<1> QED
  BY <1>1, <1>3

(* Versions that succeed the first one are one version.                     *)
LEMMA OneSuccession ==
    ASSUME Lineage, BinderFirst, OneUpdate, FirstAlone,
           NEW p \in Proc \ {First}, NEW r \in Proc \ {First}, Serves(p), Serves(r)
    PROVE  sock[p].version = sock[r].version
<1>1. PICK b \in Binder : Pgid[b] = Pgid[p]
  BY DEF BinderFirst, Serves, EventPc, AppPc
<1>2. PICK d \in Binder : Pgid[d] = Pgid[r]
  BY DEF BinderFirst, Serves, EventPc, AppPc
<1>3. b = d
  BY <1>1, <1>2, RolesAssumption DEF OneUpdate, FirstAlone
<1> QED
  BY <1>1, <1>2, <1>3 DEF Lineage

(* The monitor.                                                             *)
LEMMA MonitorTransfer ==
    ASSUME GroupState, Holding, TransferInv, OneUpdate, FirstAlone,
           NEW p \in Proc, Monitor(p)
    PROVE  TransferInv'
<1> USE DEF TransferInv
<1>1. /\ pc \in [Proc -> PcType] /\ sock \in [Proc -> SockType] /\ status \in StatusType
      /\ reg \in [Proc -> Int] /\ TypeOK /\ Lineage /\ BinderFirst
      /\ First \in Proc /\ Updates \subseteq Proc
  BY RolesAssumption DEF GroupState, IInv, TypeOK, CountInv, Updates
<1>2. pc[p] = "monitor" /\ UNCHANGED <<request, peer>>
  BY DEF Monitor, channelVars
<1>3. CASE Quits(p)
  <2>1. p = First
    BY <1>1, <1>2, <1>3 DEF Successors, Quits, Serves, EventPc, SockType, StatusType
  <2>2. ~Untaken
    BY <1>1, <1>2, <1>3, <2>1 DEF Holding, Quits, Serves, EventPc, SockType, StatusType
  <2>3. \E c \in Updates : request[c] = "read"
    BY <2>2 DEF Untaken, Asked, HeirPc
  <2>4. sock[First].transfer
    BY <1>2, <1>3, <2>1, <2>3 DEF FirstInTransfer, Serves, EventPc, Quits
  <2>5. /\ pc' = [pc EXCEPT ![First] = "quit"] /\ UNCHANGED status
        /\ sock' = [sock EXCEPT ![First].comfd = None, ![First].monitoring = FALSE]
        /\ reg' = [reg EXCEPT ![First] = status.transfer]
    BY <1>3, <2>1 DEF Monitor, Goto
  <2>6. /\ sock'[First].transfer /\ sock'[First].version = sock[First].version
        /\ ~sock'[First].monitoring
        /\ \A q \in Proc \ {First} : sock'[q] = sock[q]
    BY <1>1, <2>4, <2>5 DEF SockType
  <2>7. /\ pc'[First] = "quit" /\ \A q \in Proc \ {First} : pc'[q] = pc[q]
        /\ reg'[First] = status'.transfer
    BY <1>1, <2>5
  <2>8. Successors'
    BY <1>2, <2>5, <2>6, <2>7 DEF Successors, Serves
  <2>9. Asked'
    BY <1>1, <1>2, <2>7 DEF Asked, Updates
  <2>10. FirstCounts'
    BY <1>2, <2>1, <2>4, <2>5, <2>6, <2>7 DEF FirstCounts
  <2>11. FirstInTransfer'
    BY <2>6, <2>7 DEF FirstInTransfer
  <2> QED
    BY <2>8, <2>9, <2>10, <2>11
<1>4. CASE ~Quits(p) /\ Publishes(p)
  <2>1. p # First
    BY <1>1, <1>4 DEF FirstCounts, Publishes, SockType, StatusType
  <2>2. /\ pc' = [pc EXCEPT ![p] = "terminate"] /\ UNCHANGED <<sock, reg>>
        /\ status' = [status EXCEPT !.pgid = Pgid[p], !.version = @ + 1]
    BY <1>4 DEF Monitor, Goto
  <2>3. /\ pc'[p] = "terminate" /\ \A q \in Proc \ {p} : pc'[q] = pc[q]
        /\ status'.transfer = status.transfer /\ status'.version = status.version + 1
    BY <1>1, <2>2 DEF StatusType
  <2>4. \A q \in Proc : Serves(q)' <=> Serves(q)
    BY <1>2, <2>3 DEF Serves, EventPc
  <2>5. ASSUME NEW q \in Proc \ {First}, Serves(q)
        PROVE  sock'[q].version >= status'.version
    <3>1. Serves(p)
      BY <1>2 DEF Serves, EventPc
    <3>2. sock[q].version = sock[p].version
      BY <1>1, <2>1, <2>5, <3>1, OneSuccession
    <3>3. /\ sock[p].version > status.version
          /\ sock[p].version \in Nat /\ status.version \in Nat
      BY <1>1, <1>4 DEF Publishes, SockType, StatusType
    <3> QED
      BY <2>2, <2>3, <3>2, <3>3
  <2>6. Successors'
    BY <1>2, <2>2, <2>3, <2>4, <2>5 DEF Successors
  <2>7. Asked'
    BY <1>1, <1>2, <2>3 DEF Asked, Updates
  <2>8. FirstCounts' /\ FirstInTransfer'
    BY <1>1, <1>2, <2>1, <2>2, <2>3, <2>4 DEF FirstCounts, FirstInTransfer
  <2> QED
    BY <2>6, <2>7, <2>8
<1>5. CASE ~Quits(p) /\ ~Publishes(p)
  BY <1>1, <1>5, PlainEvent, PlainTransfer
<1> QED
  BY <1>3, <1>4, <1>5

LEMMA QuitTransfer ==
    ASSUME TypeOK, TransferInv, NEW p \in Proc, QuitStore(p)
    PROVE  TransferInv'
<1> USE DEF TransferInv
<1>1. /\ pc \in [Proc -> PcType] /\ sock \in [Proc -> SockType] /\ status \in StatusType
      /\ reg \in [Proc -> Int] /\ First \in Proc /\ Updates \subseteq Proc
  BY RolesAssumption DEF TypeOK, Updates
<1>2. pc[First] = "quit" /\ p = First /\ UNCHANGED <<request, peer>>
  BY <1>1 DEF QuitStore, Successors, channelVars
<1>3. sock[First].transfer /\ reg[First] = 1
  BY <1>1, <1>2 DEF FirstCounts
<1>4. /\ pc'[First] = "terminate" /\ \A q \in Proc \ {First} : pc'[q] = pc[q]
      /\ ~sock'[First].transfer /\ sock'[First].version = sock[First].version
      /\ sock'[First].monitoring = sock[First].monitoring
      /\ \A q \in Proc \ {First} : sock'[q] = sock[q]
      /\ status'.version = status.version
  BY <1>1, <1>2 DEF QuitStore, Goto, SockType, StatusType
<1>5. status'.transfer = 0
  <2>1. status'.transfer = TransferLeft(First)
    BY <1>1, <1>2 DEF QuitStore, StatusType
  <2> QED
    BY <1>3, <2>1 DEF TransferLeft
<1>6. ~sock[First].monitoring
  BY <1>2 DEF FirstCounts
<1>7. Successors'
  BY <1>2, <1>4 DEF Successors, Serves
<1>8. Asked'
  BY <1>1, <1>2, <1>4 DEF Asked, Updates
<1>9. FirstCounts' /\ FirstInTransfer'
  BY <1>2, <1>4, <1>5, <1>6 DEF FirstCounts, FirstInTransfer
<1> QED
  BY <1>7, <1>8, <1>9

(* The first version takes up a request and counts itself.                  *)
LEMMA RequestTransfer ==
    ASSUME GroupState, TransferInv, OneUpdate, FirstAlone,
           NEW p \in Proc, NEW c \in Proc, HandleRequest(p, c)
    PROVE  TransferInv'
<1> USE DEF TransferInv
<1>1. /\ pc \in [Proc -> PcType] /\ request \in [Proc -> {"none", "unread", "read"}]
      /\ peer \in [Proc -> Proc \cup {None}]
      /\ First \in Proc /\ Updates \subseteq Proc
      /\ SocketInv /\ ServiceInv /\ Creator /\ Lineage /\ BinderFirst
  BY RolesAssumption DEF GroupState, IInv, GroupInv, CountInv, TypeOK, Updates
<1>2. /\ pc[p] = "handle" /\ c \in call[p].ready.conns /\ request[c] = "unread"
      /\ pc'[p] = "count" /\ \A q \in Proc \ {p} : pc'[q] = pc[q]
      /\ \A q \in Proc \ {p} : peer'[q] = peer[q]
      /\ \A q \in Proc \ {c} : request'[q] = request[q]
      /\ request'[c] = "read" /\ UNCHANGED <<sock, reg, status>>
  BY <1>1 DEF HandleRequest, Takes, Goto
<1>3. c \in sock[p].comfds
  BY <1>1, <1>2 DEF SocketInv, ReadyListed
<1>4. Requesting(c)
  BY <1>1, <1>2, <1>3 DEF ServiceInv, Waiting, Unserved, Requesting
<1>5. p = First
  BY <1>1, <1>2, <1>4, FirstAnswers DEF Serves, EventPc
<1>6. Successors'
  BY <1>2, <1>5 DEF Successors, Serves
<1>7. Asked'
  BY <1>1, <1>2, <1>5 DEF Asked, Updates
<1>8. FirstCounts'
  BY <1>2, <1>5 DEF FirstCounts
<1>9. FirstInTransfer'
  BY <1>2, <1>5 DEF FirstInTransfer, Serves, EventPc
<1> QED
  BY <1>6, <1>7, <1>8, <1>9

LEMMA LoadTransfer ==
    ASSUME TypeOK, SocketInv, TransferInv, NEW p \in Proc, CountLoad(p)
    PROVE  TransferInv'
<1> USE DEF TransferInv
<1>1. /\ pc \in [Proc -> PcType] /\ reg \in [Proc -> Int]
      /\ First \in Proc /\ Updates \subseteq Proc
  BY RolesAssumption DEF TypeOK, Updates
<1>2. pc[p] = "count" /\ UNCHANGED <<sock, peer, request, status>>
  BY DEF CountLoad, channelVars
<1>3. p = First
  BY <1>2 DEF Successors, SocketInv, DescriptorInv, Answerers, AnsweringPc
<1>4. \A q \in Proc \ {First} : pc'[q] = pc[q]
  BY <1>1, <1>3 DEF CountLoad, Goto
<1>5. \/ sock[First].transfer /\ pc'[First] = "reply1" /\ reg' = reg
      \/ ~sock[First].transfer /\ pc'[First] = "store" /\ reg'[First] = status.transfer
  BY <1>1, <1>3 DEF CountLoad, Goto
<1>6. Successors'
  BY <1>2, <1>4 DEF Successors, Serves
<1>7. Asked'
  BY <1>1, <1>2, <1>4 DEF Asked, Updates
<1>8. FirstCounts'
  BY <1>2, <1>3, <1>5 DEF FirstCounts
<1>9. FirstInTransfer'
  BY <1>2, <1>3, <1>5 DEF FirstInTransfer, Serves, EventPc
<1> QED
  BY <1>6, <1>7, <1>8, <1>9

LEMMA StoreTransfer ==
    ASSUME GroupState, Holding, TransferInv, OneUpdate, FirstAlone,
           NEW p \in Proc, CountStore(p)
    PROVE  TransferInv'
<1> USE DEF TransferInv
<1>1. /\ pc \in [Proc -> PcType] /\ sock \in [Proc -> SockType] /\ status \in StatusType
      /\ peer \in [Proc -> Proc \cup {None}]
      /\ First \in Proc /\ Updates \subseteq Proc
      /\ SocketInv /\ ServiceInv /\ Creator /\ Lineage
  BY RolesAssumption DEF GroupState, IInv, GroupInv, TypeOK, Updates
<1>2. pc[p] = "store" /\ UNCHANGED <<peer, request>>
  BY DEF CountStore, channelVars
<1>3. p = First
  BY <1>1, <1>2 DEF Successors, SocketInv, DescriptorInv, Answerers, AnsweringPc
<1>4. sock[First].monitoring
  <2>1. peer[First] \in Proc /\ Requesting(peer[First])
    BY <1>1, <1>2, <1>3
       DEF SocketInv, DescriptorInv, Answerers, AnsweringPc, ServiceInv, Waiting
  <2>2. Untaken
    BY <1>1, <2>1, RequesterUntaken
  <2> QED
    BY <1>1, <1>2, <1>3, <2>2 DEF Holding, Serves, EventPc
<1>5. /\ pc'[First] = "reply1" /\ \A q \in Proc \ {First} : pc'[q] = pc[q]
      /\ sock'[First].transfer /\ sock'[First].version = sock[First].version
      /\ sock'[First].monitoring = sock[First].monitoring
      /\ \A q \in Proc \ {First} : sock'[q] = sock[q]
      /\ status'.version = status.version /\ status'.transfer = reg[First] + 1
  BY <1>1, <1>3 DEF CountStore, Goto, SockType, StatusType
<1>6. status'.transfer = 1
  BY <1>2, <1>3, <1>5 DEF FirstCounts
<1>7. Successors'
  BY <1>2, <1>5 DEF Successors, Serves
<1>8. Asked'
  BY <1>1, <1>2, <1>3, <1>5 DEF Asked, Updates
<1>9. FirstCounts'
  BY <1>2, <1>3, <1>5, <1>6 DEF FirstCounts
<1>10. FirstInTransfer'
  BY <1>4, <1>5 DEF FirstInTransfer
<1> QED
  BY <1>7, <1>8, <1>9, <1>10

(* Only the first version ends, having left transfer.                       *)
LEMMA EndTransfer ==
    ASSUME GroupState, TransferInv, FirstAlone, NEW p \in Proc, Terminate(p) \/ KillGroup(p)
    PROVE  TransferInv'
<1> USE DEF TransferInv
<1>1. /\ pc \in [Proc -> PcType] /\ sock \in [Proc -> SockType] /\ status \in StatusType
      /\ First \in Proc /\ Updates \subseteq Proc
      /\ ServiceInv /\ Leavers
  BY RolesAssumption DEF GroupState, IInv, GroupInv, TypeOK, Updates
<1>2. pc[p] \in {"exit", "killpg"} /\ UNCHANGED status
  BY DEF Terminate, KillGroup
<1>3. p = First
  <2>1. sock[p].version < status.version
    BY <1>1, <1>2 DEF Leavers, Doomed, Alive
  <2> QED
    BY <1>1, <1>2, <2>1 DEF Successors, Serves, EventPc, SockType, StatusType
<1>4. ~sock[First].transfer
  BY <1>1, <1>2, <1>3 DEF ServiceInv, Acceptors, FirstInTransfer, Serves, EventPc
<1>5. status.transfer = 0
  BY <1>2, <1>3, <1>4 DEF FirstCounts
<1>6. CASE Terminate(p) /\ Goto(p, "killpg") /\ UNCHANGED <<sock, callVars, channelVars>>
  <2>1. Plain(p)
    BY <1>1, <1>2, <1>6 DEF Plain, Goto, Serves, EventPc, callVars, channelVars, Terminate
  <2> QED
    BY <2>1, PlainTransfer
<1>7. CASE Die({First})
  <2>1. /\ pc'[First] = "dead" /\ sock'[First] = NoSock
        /\ \A q \in Proc \ {First} : pc'[q] = pc[q] /\ sock'[q] = sock[q] /\ peer'[q] = peer[q]
        /\ UNCHANGED request
    BY <1>1, <1>7 DEF Die
  <2>2. Successors'
    BY <1>2, <2>1 DEF Successors, Serves
  <2>3. Asked'
    BY <1>1, <2>1 DEF Asked, Updates
  <2>4. FirstCounts'
    BY <1>2, <1>5, <2>1 DEF FirstCounts, NoSock
  <2>5. FirstInTransfer'
    BY <2>1 DEF FirstInTransfer, Serves, EventPc, AppPc
  <2> QED
    BY <2>2, <2>3, <2>4, <2>5
<1>8. Killed(First) = {First} \/ ~KillGroup(p)
  BY <1>1, <1>3 DEF Killed, FirstAlone, KillGroup, Alive
<1> QED
  BY <1>3, <1>6, <1>7, <1>8 DEF Terminate, KillGroup

(* The first version comes through bind() alone.                            *)
LEMMA CreatorTransfer ==
    ASSUME GroupState, TransferInv, BindStep(First)
    PROVE  TransferInv'
<1> USE DEF TransferInv
<1>1. /\ pc \in [Proc -> PcType] /\ sock \in [Proc -> SockType] /\ status \in StatusType
      /\ First \in Proc /\ Updates \subseteq Proc /\ TypeOK /\ SocketInv
      /\ Creator /\ Unopened /\ Served
  BY RolesAssumption DEF GroupState, IInv, GroupInv, TypeOK, Updates
<1>2. CreatorMove
  BY <1>1, CreatorFacts
<1>3. pc[First] \in {"bind"} \cup FreshPc
  BY <1>2 DEF CreatorMove, FreshPc
<1>4. \A q \in Proc \ {First} : pc[q] = "none" /\ request[q] = "none"
  BY <1>1, <1>3, BeforeOpening DEF OpeningPc, SocketInv, DescriptorInv, Unstarted
<1>5. \A q \in Proc \ {First} : pc'[q] = "none" /\ sock'[q] = sock[q]
  BY <1>2, <1>4 DEF CreatorMove
<1>6. UNCHANGED <<peer, request>>
  <2>1. ~Die({First})
    BY <1>1, <1>2 DEF CreatorMove, Die
  <2> QED
    BY <1>3, <2>1 DEF BindStep, MonitorBind, MonitorListen, Connect, SendPort, ReadShadow,
       ReadComfd, InheritStatusSem, InheritFdSem, InheritVersion, FreshStatusSem, FreshFdSem,
       FreshStatus, TcpBind, callVars, channelVars, FreshPc
<1>7. /\ sock'[First].version = 0
      /\ pc'[First] \in {"tcpbind", "user"} =>
            status'.transfer = IF sock'[First].transfer THEN 1 ELSE 0
  <2>1. CASE FreshStatus(First)
    BY <1>1, <2>1 DEF FreshStatus, SockType
  <2>2. CASE FreshStatusSem(First) \/ FreshFdSem(First)
    BY <1>1, <2>2 DEF FreshStatusSem, FreshFdSem, SockType, FirstCounts, Goto
  <2>3. CASE TcpBind(First)
    BY <1>2, <2>3 DEF TcpBind, CreatorMove, FirstCounts
  <2>4. CASE MonitorBind(First) \/ MonitorListen(First)
    BY <1>1, <2>4 DEF MonitorBind, MonitorListen, FirstCounts, Goto
  <2> QED
    BY <1>3, <2>1, <2>2, <2>3, <2>4
       DEF BindStep, Connect, SendPort, ReadShadow, ReadComfd, InheritStatusSem,
           InheritFdSem, InheritVersion, FreshPc
<1>8. pc'[First] \in FreshPc \cup {"user"}
  BY <1>2 DEF CreatorMove, FreshPc
<1>9. pc'[First] = "user" => sock'[First].monitoring
  BY <1>1, <1>2 DEF CreatorMove, Creator
<1>10. Successors'
  BY <1>5, <1>6 DEF Successors, Serves, EventPc, AppPc
<1>11. Asked'
  BY <1>1, <1>5 DEF Asked, Updates
<1>12. FirstCounts'
  BY <1>7, <1>8 DEF FirstCounts, FreshPc
<1>13. FirstInTransfer'
  BY <1>1, <1>4, <1>6, <1>8, <1>9 DEF FirstInTransfer, Serves, EventPc, AppPc, FreshPc, Updates
<1> QED
  BY <1>10, <1>11, <1>12, <1>13

(* The update comes through bind() once it is answered.                     *)
LEMMA HeirTransfer ==
    ASSUME GroupState, TransferInv, NEW p \in Proc, p # First, BindStep(p)
    PROVE  TransferInv'
<1> USE DEF TransferInv
<1>1. /\ pc \in [Proc -> PcType] /\ sock \in [Proc -> SockType] /\ status \in StatusType
      /\ request \in [Proc -> {"none", "unread", "read"}] /\ reg \in [Proc -> Int]
      /\ replies \in [Proc -> Seq(Fd)]
      /\ First \in Proc /\ Updates \subseteq Proc /\ TypeOK /\ CountInv /\ SocketInv
      /\ Creator /\ Unopened /\ Newcomers /\ Served /\ Reached
  BY RolesAssumption DEF GroupState, IInv, GroupInv, TypeOK, Updates
<1>2. HeirMove(p)
  BY <1>1, HeirFacts
<1>3. /\ \A q \in Proc \ {p} : pc'[q] = pc[q] /\ sock'[q] = sock[q]
      /\ UNCHANGED status /\ pc[p] \in {"bind"} \cup HeirPc /\ pc'[p] \in HeirPc \cup {"user"}
  BY <1>2 DEF HeirMove
<1>4. ~Die({p})
  BY <1>3 DEF Die, HeirPc
<1>5. /\ UNCHANGED peer /\ reg'[First] = reg[First]
      /\ \A q \in Proc : request'[q] = "read" <=> request[q] = "read"
  <2>1. ASSUME ~SendPort(p)
        PROVE  UNCHANGED <<peer, request>> /\ reg'[First] = reg[First]
    BY <1>1, <1>3, <1>4, <2>1 DEF BindStep, MonitorBind, MonitorListen, Connect, ReadShadow,
       ReadComfd, InheritStatusSem, InheritFdSem, InheritVersion, FreshStatusSem, FreshFdSem,
       FreshStatus, TcpBind, callVars, channelVars
  <2>2. ASSUME SendPort(p)
        PROVE  /\ UNCHANGED <<peer, reg>> /\ request[p] = "none"
               /\ request' = [request EXCEPT ![p] = "unread"] \/ UNCHANGED request
    BY <1>1, <1>4, <2>2 DEF SendPort, callVars, channelVars, SocketInv, DescriptorInv, Unstarted
  <2> QED
    BY <1>1, <2>1, <2>2
<1>6. /\ sock'[p].transfer = sock[p].transfer
      /\ pc'[p] = "user" => sock'[p].version >= status.version
  <2>1. CASE InheritVersion(p)
    <3>1. sock'[p].transfer = sock[p].transfer /\ sock'[p].version = NewVersion(p)
      BY <1>1, <2>1 DEF InheritVersion, SockType
    <3>2. NewVersion(p) >= status.version
      BY <1>1 DEF NewVersion, StatusType
    <3> QED
      BY <3>1, <3>2
  <2>2. CASE ~InheritVersion(p)
    <3>1. pc'[p] # "user"
      BY <1>1, <1>3, <2>2 DEF BindStep, MonitorBind, MonitorListen, Connect, SendPort,
         ReadShadow, ReadComfd, InheritStatusSem, InheritFdSem, FreshStatusSem, FreshFdSem,
         FreshStatus, TcpBind, Goto, HeirPc, Die
    <3>2. CASE MonitorBind(p) \/ Connect(p) \/ SendPort(p)
      BY <1>4, <3>1, <3>2 DEF MonitorBind, Connect, SendPort
    <3>3. CASE ReadShadow(p) \/ ReadComfd(p)
      BY <1>1, <3>1, <3>3 DEF ReadShadow, ReadComfd, SockType
    <3>4. CASE InheritStatusSem(p) \/ InheritFdSem(p)
      BY <1>1, <3>1, <3>4 DEF InheritStatusSem, InheritFdSem, SockType
    <3> QED
      BY <1>3, <2>2, <3>1, <3>2, <3>3, <3>4
         DEF BindStep, HeirPc, MonitorListen, FreshStatusSem, FreshFdSem, FreshStatus, TcpBind
  <2> QED
    BY <2>1, <2>2
<1>7. pc'[p] \in {"connect", "send", "recv1"} \/ p \notin Updates \/ request[p] = "read"
  <2>1. CASE ReadShadow(p)
    <3>1. /\ listening = {First} /\ Open(Com(First)) /\ Requesting(p)
      <4>1. \E q \in Proc : live[q]
        BY <1>1, <1>3 DEF Unopened, HeirPc
      <4> QED
        BY <1>1, <2>1, <4>1, ListenerOpen DEF ReadShadow, Requesting
    <3>2. ~Unserved(p)
      BY <1>1, <3>1 DEF Reached, Held, Unserved
    <3>3. replies[p] # <<>>
      BY <2>1, <3>2 DEF ReadShadow
    <3> QED
      BY <1>1, <3>3 DEF SocketInv, DescriptorInv, Repliers
  <2>2. CASE pc[p] \in {"bind", "connect", "send"}
    BY <1>1, <1>3, <1>4, <2>2
       DEF BindStep, MonitorBind, MonitorListen, Connect, SendPort, ReadShadow, ReadComfd,
           InheritStatusSem, InheritFdSem, InheritVersion, FreshStatusSem, FreshFdSem,
           FreshStatus, TcpBind, Goto, HeirPc
  <2>3. CASE pc[p] \notin {"bind", "connect", "send", "recv1"}
    BY <1>3, <2>3 DEF Asked, HeirPc
  <2>4. pc[p] = "recv1" => ReadShadow(p)
    BY DEF BindStep, MonitorBind, MonitorListen, Connect, SendPort, ReadShadow, ReadComfd,
           InheritStatusSem, InheritFdSem, InheritVersion, FreshStatusSem, FreshFdSem,
           FreshStatus, TcpBind
  <2> QED
    BY <2>1, <2>2, <2>3, <2>4
<1>8. Successors'
  BY <1>3, <1>5, <1>6 DEF Successors, Serves, HeirPc, EventPc, AppPc
<1>9. Asked'
  BY <1>1, <1>3, <1>5, <1>7 DEF Asked, Updates
<1>10. FirstCounts' /\ FirstInTransfer'
  BY <1>1, <1>3, <1>5 DEF FirstCounts, FirstInTransfer, Serves, Updates
<1> QED
  BY <1>8, <1>9, <1>10

LEMMA BirthTransfer ==
    ASSUME TypeOK, TransferInv, FirstAlone,
           NEW p \in Proc, Start(p) \/ \E q \in Proc : Fork(p, q)
    PROVE  TransferInv'
<1> USE DEF TransferInv
<1>1. /\ pc \in [Proc -> PcType] /\ sock \in [Proc -> SockType] /\ First \in Binder
      /\ First \in Proc /\ Updates \subseteq Proc /\ Updates \subseteq Binder
  BY RolesAssumption DEF TypeOK, Updates
<1>2. CASE Start(p)
  <2>1. /\ \A q \in Proc : pc'[q] = IF q = p THEN "bind" ELSE pc[q]
        /\ \A q \in Proc : sock'[q] = IF q = p THEN NewSock(p) ELSE sock[q]
        /\ UNCHANGED <<peer, reg, request, status>>
    BY <1>1, <1>2 DEF Start, Goto, callVars, channelVars
  <2>2. NewSock(p).version = 0 /\ ~NewSock(p).transfer
    BY DEF NewSock, NoSock
  <2>3. Successors'
    BY <2>1, <2>2 DEF Successors, Serves, EventPc, AppPc
  <2>4. Asked'
    BY <1>1, <2>1 DEF Asked, Updates
  <2>5. FirstCounts' /\ FirstInTransfer'
    BY <1>1, <2>1, <2>2 DEF FirstCounts, FirstInTransfer, Serves, EventPc, AppPc, Updates
  <2> QED
    BY <2>3, <2>4, <2>5
<1>3. ASSUME NEW q \in Proc, Fork(p, q)
      PROVE  TransferInv'
  <2>1. /\ pc[p] = "user" /\ q # First /\ p # First /\ q \notin Updates
        /\ \A r \in Proc : pc'[r] = IF r = q THEN "user" ELSE pc[r]
        /\ \A r \in Proc : sock'[r] = IF r = q THEN sock[p] ELSE sock[r]
        /\ UNCHANGED <<peer, reg, request, status>>
    BY <1>1, <1>3 DEF Fork, Goto, FirstAlone, callVars, channelVars
  <2>2. Successors'
    BY <2>1 DEF Successors, Serves, AppPc
  <2>3. Asked'
    BY <1>1, <2>1 DEF Asked, Updates
  <2>4. FirstCounts' /\ FirstInTransfer'
    BY <1>1, <2>1 DEF FirstCounts, FirstInTransfer, Serves, Updates
  <2> QED
    BY <2>2, <2>3, <2>4
<1> QED
  BY <1>2, <1>3

LEMMA TransferPreserved ==
    ASSUME GroupPremises, OneUpdate, FirstAlone, GroupState, Holding, TransferInv, Step
    PROVE  TransferInv'
<1>1. /\ TypeOK /\ SocketInv /\ ServiceInv /\ MaxCrashes = 0 /\ ~ScanFaults
  BY DEF GroupState, IInv, GroupPremises, NoCrashes
<1>2. ASSUME NEW p \in Proc, BindStep(p)
      PROVE  TransferInv'
  BY <1>2, CreatorTransfer, HeirTransfer
<1>3. ASSUME NEW p \in Proc, HandleStep(p) \/ AppStep(p)
      PROVE  TransferInv'
  <2>1. CASE \/ AppStep(p) \/ HandleAccept(p) \/ ReplyShadow(p) \/ ReplyComfd(p)
             \/ \E c \in Proc : HandleClose(p, c) \/ HandleRace(p, c)
    BY <1>1, <2>1, PlainHandle, PlainTransfer
  <2>2. CASE \E c \in Proc : HandleError(p, c)
    BY <1>1, <2>2 DEF HandleError, ServiceInv, TwoReplies
  <2>3. CASE \E c \in Proc : HandleRequest(p, c)
    BY <2>3, RequestTransfer
  <2>4. CASE CountLoad(p) \/ CountStore(p)
    BY <1>1, <2>4, LoadTransfer, StoreTransfer
  <2> QED
    BY <1>3, <2>1, <2>2, <2>3, <2>4 DEF HandleStep
<1>4. ASSUME NEW p \in Proc, EventStep(p) \/ Interrupt(p), ~HandleStep(p)
      PROVE  TransferInv'
  <2>1. CASE \/ EventCall(p) \/ TerminationDetection(p) \/ PreEvent(p) \/ Wake(p)
             \/ Timeout(p) \/ PollTimeout(p) \/ Interrupt(p) \/ Post(p)
    BY <1>1, <2>1, PlainEvent, PlainTransfer
  <2>2. CASE Monitor(p)
    BY <2>2, MonitorTransfer
  <2>3. CASE QuitStore(p)
    BY <1>1, <2>3, QuitTransfer
  <2>4. CASE Terminate(p) \/ KillGroup(p)
    BY <2>4, EndTransfer
  <2> QED
    BY <1>1, <1>4, <2>1, <2>2, <2>3, <2>4 DEF EventStep, ScanFault
<1>5. ASSUME NEW p \in Proc, Start(p) \/ \E q \in Proc : Fork(p, q)
      PROVE  TransferInv'
  BY <1>1, <1>5, BirthTransfer
<1>6. ASSUME NEW c \in Client, ClientConnect(c)
      PROVE  TransferInv'
  BY <1>6 DEF ClientConnect, callVars, channelVars, TransferInv, Successors, Asked,
              FirstCounts, FirstInTransfer, Serves
<1>7. ASSUME NEW p \in Proc, Crash(p)
      PROVE  FALSE
  BY <1>1, <1>7 DEF Crash, TypeOK
<1> QED
  BY <1>2, <1>3, <1>4, <1>5, <1>6, <1>7 DEF Step, ProcessStep, Environment

LEMMA InitialTransfer == Init => TransferInv
<1> SUFFICES ASSUME Init PROVE TransferInv
  OBVIOUS
<1>1. /\ \A p \in Proc : /\ pc[p] = "none" /\ peer[p] = None
                         /\ ~sock[p].transfer /\ sock[p].version = 0
      /\ First \in Proc /\ Updates \subseteq Proc
  BY RolesAssumption DEF Init, NoSock, Updates
<1> QED
  BY <1>1 DEF TransferInv, Successors, Asked, FirstCounts, FirstInTransfer,
              Serves, EventPc, AppPc

LEMMA TransferCounted ==
    ASSUME GroupState, TransferInv
    PROVE  TransferCounts
<1> SUFFICES ASSUME NEW s \in Proc, Serves(s)
             PROVE  status.transfer = Cardinality({p \in Proc : sock[p].transfer})
  BY DEF TransferCounts
<1>1. Creator /\ Unopened /\ Served /\ First \in Proc
  BY RolesAssumption DEF GroupState, GroupInv
<1>2. pc[First] \notin OpeningPc
  BY <1>1, BeforeOpening DEF Serves, EventPc, AppPc, OpeningPc, FreshPc
<1>3. status.transfer = IF sock[First].transfer THEN 1 ELSE 0
  BY <1>2 DEF TransferInv, FirstCounts, OpeningPc, FreshPc
<1>4. \A p \in Proc : sock[p].transfer => p = First
  BY DEF TransferInv, Successors
<1>5. CASE sock[First].transfer
  <2>1. {p \in Proc : sock[p].transfer} = {First}
    BY <1>1, <1>4, <1>5
  <2> QED
    BY <1>3, <1>5, <2>1, FS_Singleton
<1>6. CASE ~sock[First].transfer
  <2>1. {p \in Proc : sock[p].transfer} = {}
    BY <1>4, <1>6
  <2> QED
    BY <1>3, <1>6, <2>1, FS_EmptySet
<1> QED
  BY <1>5, <1>6

(* The invariant holds, if the old version is one process; the update may   *)
(* have any number of workers.                                              *)
THEOREM TransferInvHolds ==
    ASSUME GroupPremises, OneUpdate, FirstAlone
    PROVE  Spec => [](GroupState /\ Holding /\ TransferInv)
<1>1. Init => GroupState /\ Holding /\ TransferInv
  BY InitialGroup, InitialHolding, InitialTransfer
<1>2. GroupState /\ Holding /\ TransferInv /\ [Step]_vars
        => GroupState' /\ Holding' /\ TransferInv'
  <2> SUFFICES ASSUME GroupState, Holding, TransferInv, [Step]_vars
               PROVE  GroupState' /\ Holding' /\ TransferInv'
    OBVIOUS
  <2>1. GroupState'
    BY GroupPreserved
  <2>2. CASE Step
    BY <2>1, <2>2, HoldingPreserved, TransferPreserved
  <2>3. CASE UNCHANGED vars
    BY <2>1, <2>3 DEF vars, callVars, channelVars, Holding, Untaken, Serves, TransferInv,
                      Successors, Asked, FirstCounts, FirstInTransfer
  <2> QED
    BY <2>2, <2>3
<1>3. Spec => Init /\ [][Step]_vars
  BY Uninterrupted DEF GroupPremises
<1> QED
  BY <1>1, <1>2, <1>3, PTL

(* In one update the load and the store of TRANSFER lose no change and a    *)
(* version that quits takes back what it counted, no more                   *)
(* (core.c:241-253, select.c:132-137): the counter is the number of         *)
(* versions that have answered and still serve.                             *)
THEOREM TransferCountsHolds ==
    ASSUME GroupPremises, OneUpdate, FirstAlone
    PROVE  Spec => []TransferCounts
<1>1. GroupState /\ TransferInv => TransferCounts
  BY TransferCounted
<1> QED
  BY <1>1, TransferInvHolds, PTL

(* core.c:241 "Because shared memory is updates, lock is required": in one   *)
(* update no two processes are between load and store of TRANSFER, although *)
(* the versions lock different objects (core.c:662, 668).  Only the first   *)
(* version counts, as nobody asks the other for its sockets.                *)
THEOREM StatusMutexHolds ==
    ASSUME GroupPremises, OneUpdate, FirstAlone
    PROVE  Spec => []StatusMutex
<1>1. GroupState /\ TransferInv => StatusMutex
  <2> SUFFICES ASSUME GroupState, TransferInv, NEW p \in Proc, Counting(p)
               PROVE  p = First
    BY DEF StatusMutex
  <2>1. CASE pc[p] = "quit"
    BY <2>1 DEF TransferInv, Successors
  <2>2. CASE pc[p] = "store"
    <3>1. peer[p] # None
      BY <2>2 DEF GroupState, SocketInv, DescriptorInv, Answerers, AnsweringPc
    <3> QED
      BY <3>1 DEF TransferInv, Successors
  <2> QED
    BY <2>1, <2>2 DEF Counting
<1> QED
  BY <1>1, TransferInvHolds, PTL

-----------------------------------------------------------------------------
(* Who watches a blocking socket.                                           *)

(* A listener that stays in the epoll instance of a later version, which    *)
(* deactivates another descriptor than it registered, is watched whatever   *)
(* TRANSFER says.                                                           *)
Laters == \A p \in Proc \ {First} : Handler[p] # "epoll"

(* The semaphores of an heir are one object, so that it never has the lock, *)
(* and the TCP socket is in no interest list outside epoll_wait().          *)
OneObject ==
    /\ pc[First] \notin {"none", "bind", "listen", "sem1"} => semName # None
    /\ \A p \in Proc \ {First} :
          /\ pc[p] = "inherit2" => sock[p].statusSem = semName
          /\ pc[p] = "version" \/ Serves(p) => sock[p].fdSem = sock[p].statusSem
          /\ sock[p].interest = {}
    /\ sock[First].comfd \in {Com(First), None}
    /\ Tcp(First) \notin sock[First].interest

(* The first version watches while it monitors the port, and no other does  *)
(* before it has quit.                                                      *)
Watchers ==
    Blocking => \A p \in Proc : Watching(p) =>
        IF p = First THEN sock[p].monitoring
        ELSE ~(Serves(First) /\ sock[First].monitoring)

WatchInv == OneObject /\ Watchers

(* A step of p in its event loop or application.                            *)
KeptSock(p) ==
    /\ sock'[p].statusSem = sock[p].statusSem /\ sock'[p].fdSem = sock[p].fdSem
    /\ sock'[p].comfd \in {sock[p].comfd, None}
    /\ sock'[p].monitoring => sock[p].monitoring
    /\ sock'[p].interest \subseteq
          sock[p].interest \cup IF Handler[p] = "epoll" THEN {sock[p].comfd} ELSE {}

Gone(q) == pc'[q] = "dead" /\ sock'[q] = NoSock

Kept(p) ==
    /\ Serves(p) /\ UNCHANGED semName
    /\ Gone(p) \/ (Serves(p)' /\ KeptSock(p))
    /\ \A q \in Proc \ {p} :
          Gone(q) \/ (pc'[q] = pc[q] /\ sock'[q] = sock[q] /\ call'[q] = call[q])

LEMMA KeptDeath ==
    ASSUME NEW p \in Proc, Serves(p), UNCHANGED semName, NEW D, p \in D, Die(D)
    PROVE  Kept(p) /\ Gone(p)
BY DEF Kept, Gone, Die

LEMMA KeptMove ==
    ASSUME pc \in [Proc -> PcType], NEW p \in Proc, Serves(p), Serves(p)', UNCHANGED semName,
           (\E b : Goto(p, b)) \/ UNCHANGED pc,
           \A q \in Proc \ {p} : sock'[q] = sock[q] /\ call'[q] = call[q], KeptSock(p)
    PROVE  Kept(p)
BY DEF Kept, Goto

LEMMA KeptEvent ==
    ASSUME TypeOK, NEW p \in Proc, EventStep(p) \/ Interrupt(p), ~HandleStep(p)
    PROVE  Kept(p) /\ (pc'[p] = "wait" => PreEvent(p))
<1> USE DEF callVars, channelVars, clientVars, listenerVars, semVars
<1>1. /\ pc \in [Proc -> PcType] /\ sock \in [Proc -> SockType] /\ call \in [Proc -> CallType]
  BY DEF TypeOK
<1>2. Serves(p)
  BY DEF EventStep, EventCall, Monitor, QuitStore, TerminationDetection, Terminate, KillGroup,
         PreEvent, Wake, Timeout, PollTimeout, Post, ScanFault, HandledConns, Idle, Interrupt,
         Serves, EventPc, AppPc
<1>3. UNCHANGED semName
  BY DEF EventStep, EventCall, Monitor, QuitStore, TerminationDetection, Terminate, KillGroup,
         PreEvent, Wake, Timeout, PollTimeout, Post, ScanFault, Interrupt
<1>4. CASE \E D : p \in D /\ Die(D)
  BY <1>2, <1>3, <1>4, KeptDeath DEF Gone
<1>5. CASE ~\E D : p \in D /\ Die(D)
  <2>1. p \in Killed(p)
    BY <1>2 DEF Killed, Alive, Serves, EventPc, AppPc
  <2>2. ~Die({p}) /\ ~Die(Killed(p))
    BY <1>5, <2>1
  <2>3. \E b \in EventPc \cup AppPc : Goto(p, b) /\ (b = "wait" => PreEvent(p))
    BY <2>2 DEF EventStep, EventCall, Monitor, QuitStore, TerminationDetection, Terminate,
       KillGroup, PreEvent, Wake, Timeout, PollTimeout, Post, ScanFault, Interrupt,
       EventPc, AppPc
  <2>4. Serves(p)' /\ (pc'[p] = "wait" => PreEvent(p))
    BY <1>1, <2>3 DEF Goto, Serves
  <2>5. \A q \in Proc \ {p} : call'[q] = call[q]
    BY <1>1, <2>2 DEF EventStep, EventCall, Monitor, QuitStore, TerminationDetection, Terminate,
       KillGroup, PreEvent, Wake, Timeout, PollTimeout, Post, ScanFault, Interrupt
  <2>6. KeptSock(p) /\ \A q \in Proc \ {p} : sock'[q] = sock[q]
    <3>1. CASE UNCHANGED sock
      BY <3>1 DEF KeptSock
    <3>2. CASE PreEvent(p) /\ ~UNCHANGED sock
      <4> DEFINE l == sock[p].locked \/ (Exclusive /\ TryLock(p))
                 i == IF Handler[p] = "epoll" THEN sock[p].interest \cup {sock[p].comfd}
                      ELSE sock[p].interest
      <4>1. sock' = [sock EXCEPT ![p].locked = l, ![p].interest = i]
        BY <3>2 DEF PreEvent
      <4>2. i \subseteq sock[p].interest \cup IF Handler[p] = "epoll" THEN {sock[p].comfd} ELSE {}
        OBVIOUS
      <4> HIDE DEF l, i
      <4>3. /\ sock'[p].statusSem = sock[p].statusSem /\ sock'[p].fdSem = sock[p].fdSem
            /\ sock'[p].comfd = sock[p].comfd /\ sock'[p].monitoring = sock[p].monitoring
            /\ sock'[p].interest = i /\ \A q \in Proc \ {p} : sock'[q] = sock[q]
        BY <1>1, <4>1 DEF SockType
      <4> QED
        BY <4>2, <4>3 DEF KeptSock
    <3>3. CASE Unlock(p)
      BY <1>1, <3>3 DEF Unlock, SockType, KeptSock
    <3>4. CASE Monitor(p) /\ ~UNCHANGED sock
      <4>1. sock' = [sock EXCEPT ![p].comfd = None, ![p].monitoring = FALSE]
        BY <3>4 DEF Monitor
      <4> QED
        BY <1>1, <4>1 DEF SockType, KeptSock
    <3>5. CASE QuitStore(p)
      BY <1>1, <3>5 DEF QuitStore, SockType, KeptSock
    <3> QED
      BY <2>2, <3>1, <3>2, <3>3, <3>4, <3>5 DEF EventStep, EventCall, TerminationDetection,
         Terminate, KillGroup, Wake, Timeout, PollTimeout, Post, ScanFault, Interrupt
  <2> QED
    BY <1>1, <1>2, <1>3, <2>3, <2>4, <2>5, <2>6, KeptMove
<1> QED
  BY <1>4, <1>5

LEMMA KeptHandle ==
    ASSUME TypeOK, NEW p \in Proc, HandleStep(p) \/ AppStep(p)
    PROVE  Kept(p) /\ pc'[p] # "wait"
<1> USE DEF callVars, channelVars, clientVars, listenerVars, semVars
<1>1. /\ pc \in [Proc -> PcType] /\ sock \in [Proc -> SockType] /\ call \in [Proc -> CallType]
  BY DEF TypeOK
<1>2. pc[p] \in {"handle", "count", "store", "reply1", "reply2", "accept", "user"}
  BY DEF HandleStep, HandleAccept, HandleClose, HandleRace, HandleError, HandleRequest, Takes,
         CountLoad, CountStore, ReplyShadow, ReplyComfd, AppStep, Accept, CloseClient
<1>3. Serves(p) /\ UNCHANGED semName
  BY <1>2 DEF HandleStep, HandleAccept, HandleClose, HandleRace, HandleError, HandleRequest,
     CountLoad, CountStore, ReplyShadow, ReplyComfd, AppStep, Accept, CloseClient,
     Serves, EventPc, AppPc
<1>4. CASE Die({p})
  BY <1>3, <1>4, KeptDeath DEF Gone
<1>5. CASE ~Die({p})
  <2>1. \/ \E b \in {"handle", "count", "store", "reply1", "reply2", "user"} : Goto(p, b)
        \/ UNCHANGED pc
    BY <1>5 DEF HandleStep, HandleAccept, HandleClose, HandleRace, HandleError, HandleRequest,
       CountLoad, CountStore, ReplyShadow, ReplyComfd, WriteFd, WriteKills,
       AppStep, Accept, CloseClient
  <2>2. Serves(p)' /\ pc'[p] # "wait"
    BY <1>1, <1>2, <2>1 DEF Goto, Serves, EventPc, AppPc
  <2>3. \A q \in Proc \ {p} : call'[q] = call[q]
    BY <1>1, <1>5 DEF HandleStep, HandleAccept, HandleClose, HandleRace, HandleError,
       HandleRequest, Takes, CountLoad, CountStore, ReplyShadow, ReplyComfd, WriteFd,
       WriteKills, AppStep, Accept, CloseClient
  <2>4. \/ UNCHANGED sock
        \/ \E new : sock' = [sock EXCEPT ![p].comfds = new]
        \/ \E new : sock' = [sock EXCEPT ![p].fds = new]
        \/ sock' = [sock EXCEPT ![p].transfer = TRUE]
    BY <1>5 DEF HandleStep, HandleAccept, HandleClose, HandleRace, HandleError, HandleRequest,
       CountLoad, CountStore, ReplyShadow, ReplyComfd, WriteFd, WriteKills,
       AppStep, Accept, CloseClient
  <2>5. KeptSock(p) /\ \A q \in Proc \ {p} : sock'[q] = sock[q]
    BY <1>1, <2>4 DEF SockType, KeptSock
  <2> QED
    BY <1>1, <1>3, <2>1, <2>2, <2>3, <2>5, KeptMove
<1> QED
  BY <1>4, <1>5

(* Any step of the event loop or the application but the entry of the wait. *)
LEMMA KeptObject ==
    ASSUME TypeOK, Laters, OneObject, semName # None, NEW p \in Proc, Kept(p)
    PROVE  OneObject'
<1>1. First \in Proc /\ None # Tcp(First) /\ Com(First) # Tcp(First)
  BY RolesAssumption, NoneAssumption DEF Tcp, Com, Fd
<1>2. /\ NoSock.interest = {} /\ NoSock.comfd = None
  BY DEF NoSock
<1>3. /\ pc'[First] \notin {"none", "bind", "listen", "sem1"} => semName' # None
      /\ sock'[First].comfd \in {Com(First), None}
      /\ Tcp(First) \notin sock'[First].interest
  <2>1. CASE Gone(First)
    BY <1>1, <1>2, <2>1 DEF OneObject, Gone, Kept, Serves, EventPc, AppPc
  <2>2. CASE First = p /\ ~Gone(First)
    BY <1>1, <2>2 DEF OneObject, Kept, KeptSock, Serves, EventPc, AppPc
  <2>3. CASE First # p /\ ~Gone(First)
    BY <1>1, <2>3 DEF OneObject, Kept
  <2> QED
    BY <2>1, <2>2, <2>3
<1>4. ASSUME NEW q \in Proc \ {First}
      PROVE  /\ pc'[q] = "inherit2" => sock'[q].statusSem = semName'
             /\ pc'[q] = "version" \/ Serves(q)' => sock'[q].fdSem = sock'[q].statusSem
             /\ sock'[q].interest = {}
  <2>1. CASE Gone(q)
    BY <1>2, <2>1 DEF Gone, Serves, EventPc, AppPc
  <2>2. CASE q = p /\ ~Gone(q)
    BY <2>2 DEF OneObject, Laters, Kept, KeptSock, Serves, EventPc, AppPc
  <2>3. CASE q # p /\ ~Gone(q)
    BY <2>3 DEF OneObject, Kept, Serves
  <2> QED
    BY <2>1, <2>2, <2>3
<1> QED
  BY <1>3, <1>4 DEF OneObject

(* The steps of bind().                                                     *)
LEMMA CreatorObject ==
    ASSUME GroupState, OneObject, BindStep(First)
    PROVE  OneObject' /\ \A q \in Proc \ {First} : pc'[q] = "none"
<1>1. /\ pc \in [Proc -> PcType] /\ sock \in [Proc -> SockType]
      /\ TypeOK /\ Creator /\ Unopened /\ Served /\ First \in Proc
  BY RolesAssumption DEF GroupState, IInv, GroupInv, TypeOK
<1>2. CreatorMove
  BY <1>1, CreatorFacts
<1>3. pc[First] \in {"bind"} \cup FreshPc
  BY <1>2 DEF CreatorMove, FreshPc
<1>4. \A q \in Proc \ {First} : pc[q] = "none"
  BY <1>1, <1>3, BeforeOpening DEF OpeningPc
<1>5. \A q \in Proc \ {First} : pc'[q] = "none" /\ sock'[q] = sock[q]
  BY <1>2, <1>4 DEF CreatorMove
<1>6. /\ sock'[First].comfd = sock[First].comfd
      /\ pc'[First] \in {"listen", "sem1"} \/ pc[First] \in {"sem1", "sem2", "fresh", "tcpbind"}
  BY <1>2 DEF CreatorMove
<1>7. sock'[First].interest = sock[First].interest
  <2>1. CASE FreshStatusSem(First) \/ FreshFdSem(First) \/ FreshStatus(First)
    BY <1>1, <2>1 DEF FreshStatusSem, FreshFdSem, FreshStatus, SockType
  <2>2. CASE MonitorBind(First) \/ MonitorListen(First)
    BY <2>2 DEF MonitorBind, MonitorListen
  <2>3. CASE TcpBind(First)
    BY <1>2, <2>3 DEF CreatorMove, TcpBind
  <2> QED
    BY <1>3, <2>1, <2>2, <2>3
       DEF BindStep, Connect, SendPort, ReadShadow, ReadComfd, InheritStatusSem,
           InheritFdSem, InheritVersion, FreshPc
<1>8. pc'[First] \in {"listen", "sem1"} \/ semName' # None
  <2>1. CASE FreshStatusSem(First) \/ FreshFdSem(First)
    BY <1>1, <2>1, NoneAssumption DEF FreshStatusSem, FreshFdSem, CreateSem, Sem
  <2>2. CASE FreshStatus(First) \/ TcpBind(First)
    BY <2>2 DEF FreshStatus, TcpBind, OneObject, semVars
  <2>3. CASE MonitorBind(First) \/ MonitorListen(First)
    BY <1>2, <2>3 DEF MonitorBind, MonitorListen, CreatorMove
  <2> QED
    BY <1>3, <2>1, <2>2, <2>3
       DEF BindStep, Connect, SendPort, ReadShadow, ReadComfd, InheritStatusSem,
           InheritFdSem, InheritVersion, FreshPc
<1> QED
  BY <1>5, <1>6, <1>7, <1>8 DEF OneObject, Serves, EventPc, AppPc

LEMMA HeirObject ==
    ASSUME GroupState, Laters, OneObject, NEW p \in Proc, p # First, BindStep(p)
    PROVE  OneObject'
<1>1. /\ pc \in [Proc -> PcType] /\ sock \in [Proc -> SockType] /\ First \in Proc
      /\ TypeOK /\ CountInv /\ SocketInv
      /\ Creator /\ Unopened /\ Newcomers /\ Served /\ Reached
  BY RolesAssumption DEF GroupState, IInv, GroupInv, TypeOK
<1>2. HeirMove(p)
  BY <1>1, HeirFacts
<1>3. /\ \A q \in Proc \ {p} : pc'[q] = pc[q] /\ sock'[q] = sock[q]
      /\ pc[p] \in {"bind"} \cup HeirPc /\ pc'[p] \in HeirPc \cup {"user"}
  BY <1>2 DEF HeirMove
<1>4. semName # None
  <2>1. pc[First] \notin OpeningPc
    BY <1>1, <1>3, BeforeOpening DEF HeirPc
  <2> QED
    BY <2>1 DEF OneObject, OpeningPc, FreshPc
<1>5. ~Die({p})
  BY <1>3 DEF Die, HeirPc
<1>6. UNCHANGED semName
  BY <1>3, <1>4, <1>5 DEF BindStep, MonitorBind, MonitorListen, Connect, SendPort, ReadShadow,
     ReadComfd, InheritStatusSem, InheritFdSem, InheritVersion, FreshStatusSem, FreshFdSem,
     FreshStatus, TcpBind, OpenSem, Opened, semVars, HeirPc
<1>7. /\ pc'[p] = "inherit2" => sock'[p].statusSem = semName
      /\ pc'[p] \in {"version", "user"} => sock'[p].fdSem = sock'[p].statusSem
      /\ sock'[p].interest = {}
  <2>1. CASE MonitorBind(p) \/ Connect(p) \/ SendPort(p)
    <3>1. UNCHANGED sock /\ pc'[p] \in {"listen", "connect", "send", "recv1", "sem1"}
      BY <1>1, <1>5, <2>1 DEF MonitorBind, Connect, SendPort, Goto
    <3> QED
      BY <3>1 DEF OneObject
  <2>2. CASE ReadShadow(p) \/ ReadComfd(p)
    <3>1. pc'[p] \in {"recv2", "inherit1", "sem1"} /\ sock'[p].interest = sock[p].interest
      BY <1>1, <2>2 DEF ReadShadow, ReadComfd, Goto, SockType
    <3> QED
      BY <3>1 DEF OneObject
  <2>3. CASE InheritStatusSem(p)
    <3>1. /\ pc'[p] = "inherit2" /\ sock'[p].interest = sock[p].interest
          /\ sock'[p].statusSem = Opened(p, "status")
      BY <1>1, <2>3 DEF InheritStatusSem, Goto, SockType
    <3> QED
      BY <1>4, <3>1 DEF OneObject, Opened
  <2>4. CASE InheritFdSem(p)
    <3>1. /\ pc[p] = "inherit2" /\ pc'[p] = "version" /\ sock'[p].interest = sock[p].interest
          /\ sock'[p].fdSem = Opened(p, "fd") /\ sock'[p].statusSem = sock[p].statusSem
      BY <1>1, <2>4 DEF InheritFdSem, Goto, SockType
    <3> QED
      BY <1>4, <3>1 DEF OneObject, Opened
  <2>5. CASE InheritVersion(p)
    <3>1. /\ pc[p] = "version" /\ pc'[p] = "user" /\ sock'[p].interest = {}
          /\ sock'[p].fdSem = sock[p].fdSem /\ sock'[p].statusSem = sock[p].statusSem
      BY <1>1, <2>5 DEF InheritVersion, Goto, SockType, Laters
    <3> QED
      BY <3>1 DEF OneObject
  <2> QED
    BY <1>3, <2>1, <2>2, <2>3, <2>4, <2>5
       DEF BindStep, MonitorListen, FreshStatusSem, FreshFdSem, FreshStatus, TcpBind, HeirPc
<1> QED
  BY <1>1, <1>3, <1>6, <1>7 DEF OneObject, Serves, HeirPc, EventPc, AppPc

LEMMA BirthObject ==
    ASSUME TypeOK, FirstAlone, OneObject,
           NEW p \in Proc, Start(p) \/ \E q \in Proc : Fork(p, q)
    PROVE  OneObject'
<1>1. /\ pc \in [Proc -> PcType] /\ sock \in [Proc -> SockType] /\ First \in Binder
      /\ First \in Proc
  BY RolesAssumption DEF TypeOK
<1>2. CASE Start(p)
  <2>1. /\ \A q \in Proc : pc'[q] = IF q = p THEN "bind" ELSE pc[q]
        /\ \A q \in Proc : sock'[q] = IF q = p THEN NewSock(p) ELSE sock[q]
        /\ UNCHANGED semName
    BY <1>1, <1>2 DEF Start, Goto, semVars
  <2>2. NewSock(p).comfd = Com(p) /\ NewSock(p).interest = {}
    BY DEF NewSock, NoSock
  <2> QED
    BY <1>1, <2>1, <2>2 DEF OneObject, Serves, EventPc, AppPc
<1>3. ASSUME NEW q \in Proc, Fork(p, q)
      PROVE  OneObject'
  <2>1. /\ pc[p] = "user" /\ q # First /\ p # First
        /\ \A r \in Proc : pc'[r] = IF r = q THEN "user" ELSE pc[r]
        /\ \A r \in Proc : sock'[r] = IF r = q THEN sock[p] ELSE sock[r]
        /\ UNCHANGED semName
    BY <1>1, <1>3 DEF Fork, Goto, FirstAlone, semVars
  <2> QED
    BY <1>1, <2>1 DEF OneObject, Serves, AppPc
<1> QED
  BY <1>2, <1>3

LEMMA ObjectPreserved ==
    ASSUME GroupPremises, FirstAlone, Laters, GroupState, OneObject, Step
    PROVE  OneObject'
<1>1. TypeOK /\ MaxCrashes = 0 /\ Creator /\ Unopened /\ Served
  BY DEF GroupState, IInv, GroupInv, GroupPremises, NoCrashes
<1>2. ASSUME NEW p \in Proc, BindStep(p)
      PROVE  OneObject'
  BY <1>2, CreatorObject, HeirObject
<1>3. ASSUME NEW p \in Proc, EventStep(p) \/ AppStep(p) \/ Interrupt(p)
      PROVE  OneObject'
  <2>1. Kept(p)
    BY <1>1, <1>3, KeptEvent, KeptHandle
  <2>2. semName # None
    <3>1. pc[First] \notin OpeningPc
      BY <2>1, <1>1, BeforeOpening DEF Kept, Serves, EventPc, AppPc, OpeningPc, FreshPc
    <3> QED
      BY <3>1 DEF OneObject, OpeningPc, FreshPc
  <2> QED
    BY <1>1, <2>1, <2>2, KeptObject
<1>4. ASSUME NEW p \in Proc, Start(p) \/ \E q \in Proc : Fork(p, q)
      PROVE  OneObject'
  BY <1>1, <1>4, BirthObject
<1>5. ASSUME NEW c \in Client, ClientConnect(c)
      PROVE  OneObject'
  BY <1>5 DEF ClientConnect, OneObject, Serves, semVars
<1>6. ASSUME NEW p \in Proc, Crash(p)
      PROVE  FALSE
  BY <1>1, <1>6 DEF Crash, TypeOK
<1> QED
  BY <1>2, <1>3, <1>4, <1>5, <1>6 DEF Step, ProcessStep, Environment

(* While the first version monitors the port beside a later one, it has     *)
(* answered that one and counted itself.                                    *)
LEMMA InTransfer ==
    ASSUME GroupState, TransferInv, OneUpdate, FirstAlone,
           Serves(First), sock[First].monitoring, NEW p \in Proc \ {First}, Serves(p)
    PROVE  status.transfer = 1
<1>1. /\ SocketInv /\ ServiceInv /\ Creator /\ Lineage /\ BinderFirst /\ First \in Proc
      /\ peer \in [Proc -> Proc \cup {None}]
  BY RolesAssumption DEF GroupState, IInv, GroupInv, CountInv, TypeOK
<1>2. PICK b \in Binder : Pgid[b] = Pgid[p] /\ pc[b] # "none"
  BY <1>1 DEF BinderFirst, Serves, EventPc, AppPc
<1>3. b \in Updates /\ b \in Proc
  BY <1>2, RolesAssumption DEF FirstAlone, Updates
<1>4. pc[b] \notin BindPc
  BY <1>1, <1>2, <1>3 DEF Lineage, Serves, EventPc, AppPc, BindPc
<1>5. request[b] = "read"
  BY <1>2, <1>3, <1>4 DEF TransferInv, Asked, BindPc
<1>6. pc[First] \notin {"count", "store"}
  <2>1. ASSUME pc[First] \in {"count", "store"}
        PROVE  Requesting(peer[First]) /\ peer[First] \in Proc
    BY <1>1, <2>1 DEF SocketInv, DescriptorInv, Answerers, AnsweringPc, ServiceInv, Waiting
  <2> QED
    BY <1>1, <2>1, FirstAnswers
<1>7. sock[First].transfer
  BY <1>3, <1>5, <1>6 DEF TransferInv, FirstInTransfer
<1> QED
  BY <1>7 DEF TransferInv, FirstCounts, Serves, EventPc, AppPc

LEMMA PreWatchers ==
    ASSUME GroupState, TransferInv, OneUpdate, FirstAlone, OneObject, Watchers,
           NEW p \in Proc, PreEvent(p)
    PROVE  Watchers'
<1> SUFFICES ASSUME Blocking, NEW q \in Proc, Watching(q)'
             PROVE  IF q = First THEN sock'[q].monitoring
                    ELSE ~(Serves(First)' /\ sock'[First].monitoring)
  BY DEF Watchers
<1>1. /\ pc \in [Proc -> PcType] /\ sock \in [Proc -> SockType] /\ call \in [Proc -> CallType]
      /\ status \in StatusType
      /\ TypeOK /\ SocketInv /\ Creator /\ First \in Proc
  BY RolesAssumption DEF GroupState, IInv, GroupInv, TypeOK
<1>2. /\ pc[p] = "pre" /\ pc'[p] = "wait" /\ \A r \in Proc \ {p} : pc'[r] = pc[r]
      /\ \A r \in Proc \ {p} : call'[r] = call[r]
  BY <1>1 DEF PreEvent, Goto
<1>3. \A r \in Proc : sock'[r].monitoring = sock[r].monitoring
  BY <1>1, PlainEvent DEF Plain
<1>4. \A r \in Proc : Serves(r)' <=> Serves(r)
  BY <1>2 DEF Serves, EventPc
<1>5. CASE q # p
  BY <1>1, <1>2, <1>3, <1>4, <1>5 DEF Watchers, Watching
<1>6. CASE q = p /\ p = First
  <2>1. ~Registered(First)
    <3>1. sock[First].shadowfd = Tcp(First)
      BY <1>1, <1>2, <1>6 DEF SocketInv, DescriptorInv, Shadows, ServesBound, Creator,
                              Serves, EventPc
    <3> QED
      BY <3>1 DEF Registered, OneObject
  <2>2. CASE sock[First].monitoring
    BY <1>3, <1>6, <2>2
  <2>3. CASE ~sock[First].monitoring
    <3>1. call' = [call EXCEPT ![First].watch = Registered(First)]
      BY <1>6, <2>3 DEF PreEvent
    <3>2. ~call'[First].watch
      BY <1>1, <2>1, <3>1 DEF CallType
    <3> QED
      BY <1>6, <3>2 DEF Watching
  <2> QED
    BY <2>2, <2>3
<1>7. CASE q = p /\ p # First
  <2>1. ~Registered(p) /\ ~TryLock(p)
    BY <1>2, <1>7 DEF OneObject, Registered, TryLock, Serves, EventPc
  <2>2. call'[p].watch
    BY <1>7 DEF Watching
  <2>3. ~Exclusive
    <3> DEFINE w == Watches(p, Exclusive /\ TryLock(p))
               h == status.transfer > 0 /\ Handler[p] = "select"
    <3>1. \/ call' = [call EXCEPT ![p].watch = Registered(p)]
          \/ call' = [call EXCEPT ![p].watch = w, ![p].hurry = h]
      BY DEF PreEvent
    <3>2. w => ~Exclusive
      BY <2>1 DEF Watches
    <3> HIDE DEF w, h
    <3>3. call'[p].watch \in {Registered(p), w}
      BY <1>1, <3>1 DEF CallType
    <3> QED
      BY <2>1, <2>2, <3>2, <3>3
  <2>4. status.transfer # 1
    BY <2>3 DEF Exclusive
  <2>5. ~(Serves(First) /\ sock[First].monitoring)
    BY <1>2, <1>7, <2>4, InTransfer DEF Serves, EventPc
  <2> QED
    BY <1>1, <1>3, <1>4, <1>7, <2>5
<1> QED
  BY <1>5, <1>6, <1>7

(* A step after which nobody watches who did not, nor does the first        *)
(* version monitor again.                                                   *)
LEMMA NoNewWatch ==
    ASSUME Watchers,
           \A q \in Proc : Watching(q)' =>
               Watching(q) /\ sock'[q].monitoring = sock[q].monitoring,
           Serves(First)' /\ sock'[First].monitoring => Serves(First) /\ sock[First].monitoring
    PROVE  Watchers'
BY DEF Watchers

LEMMA KeptWatchers ==
    ASSUME Watchers, NEW p \in Proc, Kept(p), pc'[p] # "wait"
    PROVE  Watchers'
<1>1. First \in Proc
  BY RolesAssumption
<1>2. ASSUME NEW q \in Proc, Watching(q)'
      PROVE  Watching(q) /\ sock'[q].monitoring = sock[q].monitoring
  <2>1. pc'[q] = "wait" /\ call'[q].watch
    BY <1>2 DEF Watching
  <2>2. q # p /\ ~Gone(q)
    BY <2>1 DEF Gone
  <2>3. pc'[q] = pc[q] /\ sock'[q] = sock[q] /\ call'[q] = call[q]
    BY <2>2 DEF Kept
  <2> QED
    BY <2>1, <2>3 DEF Watching
<1>3. ASSUME Serves(First)', sock'[First].monitoring
      PROVE  Serves(First) /\ sock[First].monitoring
  BY <1>1, <1>3 DEF Kept, KeptSock, Gone, Serves, EventPc, AppPc
<1> QED
  BY <1>2, <1>3, NoNewWatch

LEMMA WatchersPreserved ==
    ASSUME GroupPremises, OneUpdate, FirstAlone, GroupState, TransferInv, OneObject, Watchers,
           Step
    PROVE  Watchers'
<1>1. /\ TypeOK /\ SocketInv /\ CountInv /\ MaxCrashes = 0 /\ First \in Proc
      /\ Creator /\ Unopened /\ Newcomers /\ Served /\ Reached /\ pc \in [Proc -> PcType]
  BY RolesAssumption DEF GroupState, IInv, GroupInv, GroupPremises, NoCrashes, TypeOK
<1>2. CASE BindStep(First)
  <2>1. CreatorMove /\ \A q \in Proc \ {First} : pc'[q] = "none"
    BY <1>2, CreatorObject, CreatorFacts, <1>1
  <2>2. \A q \in Proc : pc'[q] # "wait"
    BY <2>1 DEF CreatorMove
  <2> QED
    BY <2>2 DEF Watchers, Watching
<1>3. ASSUME NEW p \in Proc, p # First, BindStep(p)
      PROVE  Watchers'
  <2>1. HeirMove(p)
    BY <1>1, <1>3, HeirFacts
  <2>2. /\ pc'[p] # "wait" /\ \A q \in Proc \ {p} : pc'[q] = pc[q] /\ sock'[q] = sock[q]
    BY <2>1 DEF HeirMove, HeirPc
  <2>3. ~Die({p})
    BY <2>1 DEF HeirMove, HeirPc, Die
  <2>4. UNCHANGED call
    BY <1>3, <2>3 DEF BindStep, MonitorBind, MonitorListen, Connect, SendPort, ReadShadow,
       ReadComfd, InheritStatusSem, InheritFdSem, InheritVersion, FreshStatusSem, FreshFdSem,
       FreshStatus, TcpBind, callVars
  <2> QED
    BY <1>1, <1>3, <2>2, <2>4, NoNewWatch DEF Watching, Serves
<1>4. ASSUME NEW p \in Proc, EventStep(p) \/ AppStep(p) \/ Interrupt(p)
      PROVE  Watchers'
  <2>1. CASE PreEvent(p)
    BY <2>1, PreWatchers
  <2>2. CASE ~PreEvent(p)
    BY <1>1, <1>4, <2>2, KeptEvent, KeptHandle, KeptWatchers
  <2> QED
    BY <2>1, <2>2
<1>5. ASSUME NEW p \in Proc, Start(p)
      PROVE  Watchers'
  <2>1. /\ pc'[p] = "bind" /\ \A q \in Proc \ {p} : pc'[q] = pc[q] /\ sock'[q] = sock[q]
        /\ UNCHANGED call
    BY <1>1, <1>5 DEF Start, Goto, callVars
  <2> QED
    BY <1>1, <2>1, NoNewWatch DEF Watching, Serves, EventPc, AppPc
<1>6. ASSUME NEW p \in Proc, NEW q \in Proc, Fork(p, q)
      PROVE  Watchers'
  <2>1. /\ pc'[q] = "user" /\ \A r \in Proc \ {q} : pc'[r] = pc[r] /\ sock'[r] = sock[r]
        /\ q # First /\ UNCHANGED call
    BY <1>1, <1>6, RolesAssumption DEF Fork, Goto, callVars
  <2> QED
    BY <1>1, <2>1, NoNewWatch DEF Watching, Serves
<1>7. ASSUME NEW c \in Client, ClientConnect(c)
      PROVE  Watchers'
  BY <1>7 DEF ClientConnect, Watchers, Watching, Serves, callVars
<1>8. ASSUME NEW p \in Proc, Crash(p)
      PROVE  FALSE
  BY <1>1, <1>8 DEF Crash, TypeOK
<1> QED
  BY <1>2, <1>3, <1>4, <1>5, <1>6, <1>7, <1>8 DEF Step, ProcessStep, Environment

LEMMA InitialWatch == Init => WatchInv
<1> SUFFICES ASSUME Init PROVE WatchInv
  OBVIOUS
<1>1. /\ \A p \in Proc : /\ pc[p] = "none" /\ sock[p].interest = {}
                         /\ sock[p].comfd = None
      /\ First \in Proc
  BY RolesAssumption DEF Init, NoSock
<1> QED
  BY <1>1 DEF WatchInv, OneObject, Watchers, Watching, Serves, EventPc, AppPc

(* The processes that watch are all of the update, or none is.              *)
LEMMA WatchedByOne ==
    ASSUME GroupState, OneUpdate, FirstAlone, Watchers
    PROVE  BlockingWatchExclusive
<1> SUFFICES ASSUME Blocking, NEW p \in Proc, NEW q \in Proc, Watching(p), Watching(q)
             PROVE  Pgid[p] = Pgid[q]
  BY DEF BlockingWatchExclusive
<1>1. BinderFirst /\ Serves(p) /\ Serves(q)
  BY DEF GroupState, CountInv, Watching, Serves, EventPc
<1>2. p = First <=> q = First
  BY <1>1 DEF Watchers
<1>3. CASE p # First /\ q # First
  <2>1. PICK b \in Binder : Pgid[b] = Pgid[p]
    BY <1>1 DEF BinderFirst, Serves, EventPc, AppPc
  <2>2. PICK d \in Binder : Pgid[d] = Pgid[q]
    BY <1>1 DEF BinderFirst, Serves, EventPc, AppPc
  <2>3. b = d
    BY <1>3, <2>1, <2>2, RolesAssumption DEF OneUpdate, FirstAlone
  <2> QED
    BY <2>1, <2>2, <2>3
<1> QED
  BY <1>2, <1>3

(* The invariant behind it, on top of that of the counter.                  *)
THEOREM WatchInvHolds ==
    ASSUME GroupPremises, OneUpdate, FirstAlone, Laters
    PROVE  Spec => [](GroupState /\ WatchInv)
<1>1. Init => WatchInv
  BY InitialWatch
<1>2. GroupState /\ Holding /\ TransferInv /\ WatchInv /\ [Step]_vars
        /\ GroupState' /\ TransferInv' => WatchInv'
  <2> SUFFICES ASSUME GroupState, Holding, TransferInv, WatchInv, [Step]_vars,
                      GroupState', TransferInv'
               PROVE  WatchInv'
    OBVIOUS
  <2>1. CASE Step
    BY <2>1, ObjectPreserved, WatchersPreserved DEF WatchInv
  <2>2. CASE UNCHANGED vars
    BY <2>2 DEF vars, callVars, channelVars, semVars, Serves,
       WatchInv, OneObject, Watchers, Watching
  <2> QED
    BY <2>1, <2>2
<1>3. Spec => Init /\ [][Step]_vars
  BY Uninterrupted DEF GroupPremises
<1> QED
  BY <1>1, <1>2, TransferInvHolds, <1>3, PTL

(* select.c:172 "Only one process can monitor a blocking socket": if the    *)
(* old version is one process and the update uses select() or poll(), the   *)
(* two never wait on a blocking TCP socket at the same time.  It is not     *)
(* fd_sem that keeps them apart, which an heir never locks, but TRANSFER:   *)
(* the first version has left it before the update watches.                 *)
THEOREM BlockingWatchExclusiveHolds ==
    ASSUME GroupPremises, OneUpdate, FirstAlone, Laters
    PROVE  Spec => []BlockingWatchExclusive
<1>1. GroupState /\ WatchInv => BlockingWatchExclusive
  BY WatchedByOne DEF WatchInv
<1> QED
  BY <1>1, WatchInvHolds, PTL

=============================================================================
