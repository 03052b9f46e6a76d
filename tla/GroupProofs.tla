---------------------------- MODULE GroupProofs ----------------------------
(* Proofs about Handover for versions of any number of forked workers: the  *)
(* shared count of a group's workers first, then what the versions promise. *)
EXTENDS ServiceProofs, FiniteSetTheorems

-----------------------------------------------------------------------------
(* The worker counts: the premises.  A process that dies without running    *)
(* dsu_terminate stays counted; a child that is forked late was never       *)
(* counted; and a group that was killed leaves its count behind for a       *)
(* process that calls bind() and joins the group afterwards.  A worker      *)
(* whose sem_wait fails goes uncounted (core.c:186).                        *)

OrderlyDeaths == MaxCrashes = 0 /\ ~ScanFaults /\ ~SigpipeFatal
OneBinder == \A p, q \in Binder : Pgid[p] = Pgid[q] => p = q
Premises ==
    IsFiniteSet(Proc) /\ ~LateFork /\ ~SemFails /\ OrderlyDeaths /\ OneBinder

-----------------------------------------------------------------------------
(* The worker counts: the inductive invariant.                              *)

Members(g) == {p \in Proc : Alive(p) /\ Pgid[p] = g}
LiveMembers(g) == {p \in Members(g) : live[p]}

Accurate(g) ==
    Members(g) # {} /\ (\A p \in Members(g) : pc[p] # "killpg") =>
        workers[g] = Cardinality(LiveMembers(g))

(* Before its first event call a process is not counted.                    *)
EarlyUncounted == \A p \in Proc : pc[p] \in BindPc \cup {"none"} => ~live[p]

(* A group begins with the process that calls bind().                       *)
BinderFirst ==
    \A p \in Proc : pc[p] # "none" =>
        \E b \in Binder : Pgid[b] = Pgid[p] /\ pc[b] # "none"

(* The count of a group that has not begun is that of a new shared memory.  *)
Begun(g) == \E p \in Proc : Pgid[p] = g /\ pc[p] # "none"
UnbegunZero == \A g \in Group : ~Begun(g) => workers[g] = 0

CountInv ==
    /\ \A g \in Group : Accurate(g)
    /\ EarlyUncounted /\ BinderFirst /\ UnbegunZero

LEMMA LiveFinite ==
    ASSUME IsFiniteSet(Proc), NEW g
    PROVE  IsFiniteSet(LiveMembers(g))
<1>1. LiveMembers(g) \in SUBSET Proc
  BY DEF LiveMembers, Members
<1> QED
  BY <1>1, FS_Subset

-----------------------------------------------------------------------------
(* Steps by kind.                                                           *)

(* A process goes from one place to another inside bind(), from there to    *)
(* the application, or within the event loop, and nobody is counted.        *)
Onward(q) ==
    \/ pc'[q] = pc[q]
    \/ pc[q] \in BindPc /\ pc'[q] \in BindPc \cup {"user"}
    \/ /\ pc[q] \in (EventPc \cup AppPc) \ {"killpg"}
       /\ pc'[q] \in (EventPc \cup AppPc) \ {"killpg"}

LEMMA OnwardStep ==
    ASSUME CountInv, UNCHANGED <<live, workers>>, \A q \in Proc : Onward(q)
    PROVE  CountInv'
<1> USE DEF Onward, BindPc, EventPc, AppPc
<1>1. \A q \in Proc : /\ Alive(q)' <=> Alive(q)
                      /\ pc'[q] = "killpg" <=> pc[q] = "killpg"
                      /\ pc'[q] = "none" <=> pc[q] = "none"
                      /\ pc'[q] \in BindPc => pc[q] \in BindPc
  BY DEF Alive
<1>2. ASSUME NEW g \in Group, Accurate(g)
      PROVE  Accurate(g)'
  <2>1. Members(g)' = Members(g)
    BY <1>1 DEF Members
  <2>2. LiveMembers(g)' = LiveMembers(g)
    BY <2>1 DEF LiveMembers
  <2> QED
    BY <1>1, <1>2, <2>1, <2>2 DEF Accurate, Members
<1>3. EarlyUncounted'
  BY <1>1 DEF CountInv, EarlyUncounted
<1>4. BinderFirst'
  BY <1>1, RolesAssumption DEF CountInv, BinderFirst
<1>5. UnbegunZero'
  BY <1>1 DEF CountInv, UnbegunZero, Begun
<1> QED
  BY <1>2, <1>3, <1>4, <1>5 DEF CountInv

(* The same for one process.                                                *)
LEMMA OnwardMove ==
    ASSUME CountInv, pc \in [Proc -> PcType], NEW p \in Proc, NEW b, Goto(p, b),
           \/ pc[p] \in BindPc /\ b \in BindPc \cup {"user"}
           \/ /\ pc[p] \in (EventPc \cup AppPc) \ {"killpg"}
              /\ b \in (EventPc \cup AppPc) \ {"killpg"},
           UNCHANGED <<live, workers>>
    PROVE  CountInv'
<1>1. \A q \in Proc : Onward(q)
  BY DEF Goto, Onward
<1> QED
  BY <1>1, OnwardStep

(* A process that was never counted dies.                                   *)
LEMMA UncountedDeath ==
    ASSUME TypeOK, CountInv, NEW p \in Proc, pc[p] \in BindPc, Die({p}),
           UNCHANGED workers
    PROVE  CountInv'
<1>1. /\ ~live[p] /\ UNCHANGED live
      /\ \A q \in Proc : pc'[q] = IF q = p THEN "dead" ELSE pc[q]
  BY DEF CountInv, EarlyUncounted, Die
<1>2. \A q \in Proc : Alive(q)' <=> Alive(q) /\ q # p
  BY <1>1 DEF Alive
<1>3. ASSUME NEW g \in Group, Accurate(g)
      PROVE  Accurate(g)'
  <2>1. Members(g)' = Members(g) \ {p}
    BY <1>2 DEF Members
  <2>2. LiveMembers(g)' = LiveMembers(g)
    BY <1>1, <2>1 DEF LiveMembers
  <2>3. ASSUME \A q \in Members(g)' : pc'[q] # "killpg"
        PROVE  \A q \in Members(g) : pc[q] # "killpg"
    BY <1>1, <2>1, <2>3 DEF Members, BindPc
  <2> QED
    BY <1>3, <2>1, <2>2, <2>3 DEF Accurate
<1>4. EarlyUncounted'
  BY <1>1 DEF CountInv, EarlyUncounted, BindPc
<1>5. BinderFirst'
  BY <1>1, RolesAssumption DEF CountInv, BinderFirst, BindPc
<1>6. UnbegunZero'
  BY <1>1 DEF CountInv, UnbegunZero, Begun, BindPc
<1> QED
  BY <1>3, <1>4, <1>5, <1>6 DEF CountInv

(* The first process of a group starts: nobody else of it ever ran.         *)
LEMMA StartCounts ==
    ASSUME TypeOK, CountInv, OneBinder, NEW p \in Proc, Start(p)
    PROVE  CountInv'
<1>1. /\ pc[p] = "none" /\ p \in Binder /\ UNCHANGED <<live, workers>>
      /\ \A q \in Proc : pc'[q] = IF q = p THEN "bind" ELSE pc[q]
      /\ Pgid[p] \in Group
  BY DEF Start, Goto, TypeOK, Group
<1>2. ~Begun(Pgid[p])
  BY <1>1 DEF CountInv, BinderFirst, OneBinder, Begun
<1>3. \A q \in Proc : Alive(q)' <=> Alive(q) \/ q = p
  BY <1>1 DEF Alive
<1>4. Accurate(Pgid[p])'
  <2>1. Members(Pgid[p])' = {p}
    BY <1>2, <1>3 DEF Members, Begun, Alive
  <2>2. LiveMembers(Pgid[p])' = {}
    BY <1>1, <2>1 DEF LiveMembers, CountInv, EarlyUncounted
  <2>3. workers[Pgid[p]] = 0
    BY <1>1, <1>2 DEF CountInv, UnbegunZero
  <2> QED
    BY <1>1, <2>2, <2>3, FS_EmptySet DEF Accurate
<1>5. ASSUME NEW g \in Group, g # Pgid[p], Accurate(g)
      PROVE  Accurate(g)'
  <2>1. Members(g)' = Members(g)
    BY <1>3, <1>5 DEF Members
  <2>2. LiveMembers(g)' = LiveMembers(g)
    BY <1>1, <2>1 DEF LiveMembers
  <2> QED
    BY <1>1, <1>5, <2>1, <2>2 DEF Accurate, Members
<1>6. EarlyUncounted'
  BY <1>1 DEF CountInv, EarlyUncounted
<1>7. BinderFirst'
  BY <1>1, RolesAssumption DEF CountInv, BinderFirst
<1>8. UnbegunZero'
  BY <1>1 DEF CountInv, UnbegunZero, Begun
<1> QED
  BY <1>4, <1>5, <1>6, <1>7, <1>8 DEF CountInv

(* A child of a process that was not counted is not counted either.         *)
LEMMA ForkCounts ==
    ASSUME TypeOK, CountInv, ~LateFork, NEW p \in Proc, NEW q \in Proc, Fork(p, q)
    PROVE  CountInv'
<1>1. /\ pc[p] = "user" /\ pc[q] = "none" /\ Pgid[q] = Pgid[p] /\ ~live[p] /\ ~live[q]
      /\ UNCHANGED <<live, workers>>
      /\ \A r \in Proc : pc'[r] = IF r = q THEN "user" ELSE pc[r]
  BY DEF Fork, Goto, TypeOK, CountInv, EarlyUncounted
<1>2. \A r \in Proc : Alive(r)' <=> Alive(r) \/ r = q
  BY <1>1 DEF Alive
<1>3. ASSUME NEW g \in Group, Accurate(g)
      PROVE  Accurate(g)'
  <2>1. Members(g)' = Members(g) \cup {r \in {q} : Pgid[q] = g}
    BY <1>2 DEF Members
  <2>2. LiveMembers(g)' = LiveMembers(g)
    BY <1>1, <2>1 DEF LiveMembers
  <2>3. Members(g)' # {} => Members(g) # {}
    BY <1>1, <2>1 DEF Members, Alive
  <2> QED
    BY <1>1, <1>3, <2>1, <2>2, <2>3 DEF Accurate, Members, Alive
<1>4. EarlyUncounted'
  BY <1>1 DEF CountInv, EarlyUncounted, BindPc
<1>5. BinderFirst'
  BY <1>1, RolesAssumption DEF CountInv, BinderFirst
<1>6. UnbegunZero'
  BY <1>1 DEF CountInv, UnbegunZero, Begun
<1> QED
  BY <1>3, <1>4, <1>5, <1>6 DEF CountInv

(* The first event call of a process counts it.                             *)
LEMMA ActivationCounts ==
    ASSUME TypeOK, CountInv, IsFiniteSet(Proc), NEW p \in Proc, EventCall(p)
    PROVE  CountInv'
<1>1. /\ pc[p] = "user" /\ Pgid[p] \in Group
      /\ \A q \in Proc : pc'[q] = IF q = p THEN "monitor" ELSE pc[q]
      /\ \A q \in Proc : live'[q] = (live[q] \/ q = p)
      /\ \A g \in Group : workers'[g] = IF g = Pgid[p] /\ ~live[p] THEN workers[g] + 1
                                       ELSE workers[g]
  BY DEF EventCall, Goto, Activates, TypeOK, Group
<1>2. \A q \in Proc : Alive(q)' <=> Alive(q)
  BY <1>1 DEF Alive
<1>3. ASSUME NEW g \in Group, Accurate(g)
      PROVE  Accurate(g)'
  <2>1. Members(g)' = Members(g)
    BY <1>2 DEF Members
  <2>2. SUFFICES ASSUME Members(g) # {}, \A q \in Members(g) : pc'[q] # "killpg"
                 PROVE  workers'[g] = Cardinality(LiveMembers(g)')
    BY <2>1 DEF Accurate
  <2>3. \A q \in Members(g) : pc[q] # "killpg"
    BY <1>1, <2>2 DEF Members
  <2>4. workers[g] = Cardinality(LiveMembers(g))
    BY <1>3, <2>2, <2>3 DEF Accurate
  <2>5. CASE g = Pgid[p] /\ ~live[p]
    <3>1. LiveMembers(g)' = LiveMembers(g) \cup {p}
      BY <1>1, <2>1, <2>5 DEF LiveMembers, Members, Alive
    <3>2. p \notin LiveMembers(g) /\ IsFiniteSet(LiveMembers(g))
      BY <2>5, LiveFinite DEF LiveMembers
    <3>3. Cardinality(LiveMembers(g) \cup {p}) = Cardinality(LiveMembers(g)) + 1
      BY <3>2, FS_AddElement
    <3>4. Cardinality(LiveMembers(g)') = Cardinality(LiveMembers(g)) + 1
      BY <3>1, <3>3
    <3> QED
      BY <1>1, <2>4, <2>5, <3>4
  <2>6. CASE ~(g = Pgid[p] /\ ~live[p])
    <3>1. LiveMembers(g)' = LiveMembers(g)
      BY <1>1, <2>1, <2>6 DEF LiveMembers, Members
    <3> QED
      BY <1>1, <2>4, <2>6, <3>1
  <2> QED
    BY <2>5, <2>6
<1>4. EarlyUncounted'
  BY <1>1 DEF CountInv, EarlyUncounted, BindPc
<1>5. BinderFirst'
  BY <1>1, RolesAssumption DEF CountInv, BinderFirst
<1>6. UnbegunZero'
  BY <1>1 DEF CountInv, UnbegunZero, Begun
<1> QED
  BY <1>3, <1>4, <1>5, <1>6 DEF CountInv

(* A worker that leaves takes itself out of the count, and the last one     *)
(* goes on to kill the group.                                               *)
LEMMA LeavingCounts ==
    ASSUME TypeOK, CountInv, InsideLive, IsFiniteSet(Proc),
           NEW p \in Proc, Terminate(p)
    PROVE  CountInv'
<1>1. /\ pc[p] = "exit" /\ live[p] /\ Pgid[p] \in Group /\ UNCHANGED live
      /\ \A g \in Group : workers'[g] = IF g = Pgid[p] THEN workers[g] - 1 ELSE workers[g]
  BY DEF Terminate, Die, TypeOK, Group, InsideLive, EventPc
<1>2. PICK to \in {"killpg", "dead"} :
          \A q \in Proc : pc'[q] = IF q = p THEN to ELSE pc[q]
  BY DEF Terminate, Die, Goto, TypeOK
<1>3. ASSUME NEW g \in Group, Accurate(g)
      PROVE  Accurate(g)'
  <2>1. CASE g # Pgid[p]
    <3>1. Members(g)' = Members(g)
      BY <1>2, <2>1 DEF Members, Alive
    <3>2. LiveMembers(g)' = LiveMembers(g)
      BY <1>1, <3>1 DEF LiveMembers
    <3> QED
      BY <1>1, <1>2, <1>3, <2>1, <3>1, <3>2 DEF Accurate, Members
  <2>2. CASE g = Pgid[p] /\ to = "killpg"
    <3>1. p \in Members(g)' /\ pc'[p] = "killpg"
      BY <1>2, <2>2 DEF Members, Alive
    <3> QED
      BY <3>1 DEF Accurate
  <2>3. CASE g = Pgid[p] /\ to = "dead"
    <3>1. Members(g)' = Members(g) \ {p} /\ p \in Members(g)
      BY <1>1, <1>2, <2>3 DEF Members, Alive
    <3>2. SUFFICES ASSUME \A q \in Members(g)' : pc'[q] # "killpg"
                   PROVE  workers'[g] = Cardinality(LiveMembers(g)')
      BY DEF Accurate
    <3>3. workers[g] = Cardinality(LiveMembers(g))
      BY <1>1, <1>2, <1>3, <3>1, <3>2 DEF Accurate, Members
    <3>4. LiveMembers(g)' = LiveMembers(g) \ {p} /\ p \in LiveMembers(g)
      BY <1>1, <3>1 DEF LiveMembers
    <3>5. IsFiniteSet(LiveMembers(g))
      BY LiveFinite
    <3>6. Cardinality(LiveMembers(g) \ {p}) = Cardinality(LiveMembers(g)) - 1
      BY <3>4, <3>5, FS_RemoveElement
    <3>7. Cardinality(LiveMembers(g)') = Cardinality(LiveMembers(g)) - 1
      BY <3>4, <3>6
    <3> QED
      BY <1>1, <2>3, <3>3, <3>7
  <2> QED
    BY <1>2, <2>1, <2>2, <2>3
<1>4. EarlyUncounted'
  BY <1>1, <1>2 DEF CountInv, EarlyUncounted, BindPc
<1>5. BinderFirst'
  BY <1>1, <1>2, RolesAssumption DEF CountInv, BinderFirst
<1>6. UnbegunZero'
  BY <1>1, <1>2 DEF CountInv, UnbegunZero, Begun
<1> QED
  BY <1>3, <1>4, <1>5, <1>6 DEF CountInv

(* killpg() leaves nobody to be counted.                                    *)
LEMMA KillingCounts ==
    ASSUME TypeOK, CountInv, NEW p \in Proc, KillGroup(p)
    PROVE  CountInv'
<1>1. /\ pc[p] = "killpg" /\ UNCHANGED <<live, workers>>
      /\ \A q \in Proc : pc'[q] = IF Alive(q) /\ Pgid[q] = Pgid[p] THEN "dead" ELSE pc[q]
  BY DEF KillGroup, Die, Killed
<1>2. \A q \in Proc : Alive(q)' <=> Alive(q) /\ Pgid[q] # Pgid[p]
  BY <1>1 DEF Alive
<1>3. ASSUME NEW g \in Group, Accurate(g)
      PROVE  Accurate(g)'
  <2>1. CASE g = Pgid[p]
    <3>1. Members(g)' = {}
      BY <1>2, <2>1 DEF Members
    <3> QED
      BY <3>1 DEF Accurate
  <2>2. CASE g # Pgid[p]
    <3>1. Members(g)' = Members(g)
      BY <1>2, <2>2 DEF Members
    <3>2. LiveMembers(g)' = LiveMembers(g)
      BY <1>1, <3>1 DEF LiveMembers
    <3> QED
      BY <1>1, <1>3, <2>2, <3>1, <3>2 DEF Accurate, Members
  <2> QED
    BY <2>1, <2>2
<1>4. EarlyUncounted'
  BY <1>1 DEF CountInv, EarlyUncounted, BindPc
<1>5. BinderFirst'
  BY <1>1, RolesAssumption DEF CountInv, BinderFirst, Alive
<1>6. UnbegunZero'
  BY <1>1 DEF CountInv, UnbegunZero, Begun, Alive
<1> QED
  BY <1>3, <1>4, <1>5, <1>6 DEF CountInv

-----------------------------------------------------------------------------
(* The actions.                                                             *)

LEMMA BindCounts ==
    ASSUME TypeOK, CountInv, NEW p \in Proc, BindStep(p)
    PROVE  CountInv'
<1>1. pc \in [Proc -> PcType]
  BY DEF TypeOK
<1>2. CASE \/ MonitorBind(p) \/ MonitorListen(p) \/ Connect(p)
           \/ ReadShadow(p) \/ ReadComfd(p)
  <2>1. \E b \in BindPc : Goto(p, b) /\ pc[p] \in BindPc
    BY <1>2 DEF MonitorBind, MonitorListen, Connect, ReadShadow, ReadComfd, BindPc
  <2>2. UNCHANGED <<live, workers>>
    BY <1>2 DEF MonitorBind, MonitorListen, Connect, ReadShadow, ReadComfd
  <2> QED
    BY <1>1, <2>1, <2>2, OnwardMove
<1>3. CASE \/ InheritStatusSem(p) \/ InheritFdSem(p) \/ InheritVersion(p)
           \/ FreshStatusSem(p) \/ FreshFdSem(p) \/ FreshStatus(p)
  <2>1. \E b \in BindPc \cup {"user"} : Goto(p, b) /\ pc[p] \in BindPc
    BY <1>3 DEF InheritStatusSem, InheritFdSem, InheritVersion,
                FreshStatusSem, FreshFdSem, FreshStatus, BindPc
  <2>2. UNCHANGED <<live, workers>>
    BY <1>3 DEF InheritStatusSem, InheritFdSem, InheritVersion,
                FreshStatusSem, FreshFdSem, FreshStatus
  <2> QED
    BY <1>1, <2>1, <2>2, OnwardMove
<1>4. CASE SendPort(p) \/ TcpBind(p)
  <2>1. pc[p] \in BindPc /\ UNCHANGED workers
    BY <1>4 DEF SendPort, TcpBind, BindPc
  <2>2. CASE Die({p})
    BY <2>1, <2>2, UncountedDeath
  <2>3. CASE ~Die({p})
    <3>1. UNCHANGED live /\ \E b \in BindPc \cup {"user"} : Goto(p, b)
      BY <1>4, <2>3 DEF SendPort, TcpBind, BindPc
    <3> QED
      BY <1>1, <2>1, <3>1, OnwardMove
  <2> QED
    BY <2>2, <2>3
<1> QED
  BY <1>2, <1>3, <1>4 DEF BindStep

(* Nobody is killed by SIGPIPE: it is not fatal, or whoever is answered     *)
(* still waits.                                                             *)
Unbroken ==
    SigpipeFatal => \A p \in Proc :
        pc[p] \in {"reply1", "reply2"} => Requesting(peer[p])

LEMMA HandleCounts ==
    ASSUME TypeOK, CountInv, Unbroken, NEW p \in Proc, HandleStep(p)
    PROVE  CountInv'
<1>1. pc \in [Proc -> PcType]
  BY DEF TypeOK
<1>2. CASE HandleAccept(p) \/ \E c \in Proc : HandleClose(p, c) \/ HandleRace(p, c)
  <2>1. UNCHANGED <<pc, live, workers>>
    BY <1>2 DEF HandleAccept, HandleClose, HandleRace
  <2> QED
    BY <2>1, OnwardStep DEF Onward
<1>3. CASE \/ \E c \in Proc : HandleError(p, c) \/ HandleRequest(p, c)
           \/ CountLoad(p) \/ CountStore(p)
  <2>1. \E b \in {"reply1", "count", "store"} :
            Goto(p, b) /\ pc[p] \in {"handle", "count", "store"}
    BY <1>3 DEF HandleError, HandleRequest, CountLoad, CountStore, Takes
  <2>2. UNCHANGED <<live, workers>>
    BY <1>3 DEF HandleError, HandleRequest, CountLoad, CountStore
  <2> QED
    BY <1>1, <2>1, <2>2, OnwardMove DEF EventPc
<1>4. CASE ReplyShadow(p) \/ ReplyComfd(p)
  <2>1. \E b \in {"reply2", "handle"} : Goto(p, b) /\ pc[p] \in {"reply1", "reply2"}
    BY <1>4 DEF ReplyShadow, ReplyComfd, WriteFd, WriteKills, Unbroken
  <2>2. UNCHANGED <<live, workers>>
    BY <1>4 DEF ReplyShadow, ReplyComfd, WriteKills, Unbroken
  <2> QED
    BY <1>1, <2>1, <2>2, OnwardMove DEF EventPc
<1> QED
  BY <1>2, <1>3, <1>4 DEF HandleStep

LEMMA EventCounts ==
    ASSUME TypeOK, CountInv, InsideLive, IsFiniteSet(Proc), ~ScanFaults, Unbroken,
           NEW p \in Proc, EventStep(p) \/ Interrupt(p)
    PROVE  CountInv'
<1>1. pc \in [Proc -> PcType]
  BY DEF TypeOK
<1>2. CASE \/ Monitor(p) \/ QuitStore(p) \/ TerminationDetection(p) \/ PreEvent(p)
           \/ Wake(p) \/ Timeout(p) \/ PollTimeout(p) \/ Post(p) \/ Interrupt(p)
  <2>1. pc[p] \in EventPc \ {"killpg"}
    BY <1>2 DEF Monitor, QuitStore, TerminationDetection, PreEvent, Wake, Timeout,
                PollTimeout, Post, HandledConns, Idle, Interrupt, EventPc
  <2>2. \E b \in (EventPc \cup AppPc) \ {"killpg"} : Goto(p, b)
    <3>1. CASE Monitor(p) \/ QuitStore(p) \/ TerminationDetection(p) \/ PreEvent(p) \/ Wake(p)
      BY <3>1 DEF Monitor, QuitStore, TerminationDetection, PreEvent, Wake, EventPc
    <3>2. CASE Timeout(p) \/ PollTimeout(p) \/ Post(p) \/ Interrupt(p)
      BY <3>2 DEF Timeout, PollTimeout, Post, Interrupt, EventPc, AppPc
    <3> QED
      BY <1>2, <3>1, <3>2
  <2>3. UNCHANGED <<live, workers>>
    BY <1>2 DEF Monitor, QuitStore, TerminationDetection, PreEvent, Wake, Timeout,
                PollTimeout, Post, Interrupt
  <2> QED
    BY <1>1, <2>1, <2>2, <2>3, OnwardMove
<1>3. ~ScanFault(p)
  BY DEF ScanFault
<1> QED
  BY <1>2, <1>3, ActivationCounts, LeavingCounts, KillingCounts, HandleCounts
     DEF EventStep

LEMMA OtherCounts ==
    ASSUME TypeOK, CountInv, InsideLive, IsFiniteSet(Proc), OneBinder, ~LateFork,
           MaxCrashes = 0, ~ScanFaults, Unbroken,
           (\E p \in Proc : AppStep(p)) \/ Environment \/ UNCHANGED vars
    PROVE  CountInv'
<1>1. pc \in [Proc -> PcType]
  BY DEF TypeOK
<1>2. ASSUME NEW p \in Proc, Accept(p)
      PROVE  CountInv'
  <2>1. /\ pc[p] = "accept" /\ Goto(p, "user") /\ UNCHANGED <<live, workers>>
        /\ {"accept", "user"} \subseteq (EventPc \cup AppPc) \ {"killpg"}
    BY <1>2 DEF Accept, AppPc
  <2> QED
    BY <1>1, <2>1, OnwardMove
<1>3. ASSUME UNCHANGED <<pc, live, workers>>
      PROVE  CountInv'
  BY <1>3, OnwardStep DEF Onward
<1>4. ASSUME NEW p \in Proc, \E c \in Client : CloseClient(p, c)
      PROVE  CountInv'
  BY <1>3, <1>4 DEF CloseClient
<1>5. ASSUME NEW c \in Client, ClientConnect(c)
      PROVE  CountInv'
  BY <1>3, <1>5 DEF ClientConnect
<1>6. ASSUME NEW p \in Proc, Crash(p)
      PROVE  FALSE
  BY <1>6 DEF Crash, TypeOK
<1>7. CASE UNCHANGED vars
  BY <1>3, <1>7 DEF vars
<1> QED
  BY <1>2, <1>4, <1>5, <1>6, <1>7, StartCounts, ForkCounts, EventCounts
     DEF AppStep, Environment

(* Every step preserves the count.                                          *)
LEMMA CountPreserved ==
    ASSUME TypeOK, CountInv, InsideLive, IsFiniteSet(Proc), OneBinder, ~LateFork,
           MaxCrashes = 0, ~ScanFaults, Unbroken, [Step]_vars
    PROVE  CountInv'
<1>1. ASSUME NEW p \in Proc, BindStep(p)
      PROVE  CountInv'
  BY <1>1, BindCounts
<1>2. ASSUME NEW p \in Proc, EventStep(p)
      PROVE  CountInv'
  BY <1>2, EventCounts
<1> QED
  BY <1>1, <1>2, OtherCounts DEF Step, ProcessStep

LEMMA InitialCount == Init => CountInv
<1> SUFFICES ASSUME Init PROVE CountInv
  OBVIOUS
<1>1. /\ \A p \in Proc : pc[p] = "none" /\ ~live[p]
      /\ \A g \in Group : workers[g] = 0
  BY DEF Init
<1>2. \A g \in Group : Accurate(g)
  BY <1>1 DEF Accurate, Members, Alive
<1> QED
  BY <1>1, <1>2 DEF CountInv, EarlyUncounted, BinderFirst, UnbegunZero

-----------------------------------------------------------------------------
(* The shared count of workers of a group is the number of its live         *)
(* workers until the last one kills the group (core.c:150-194), so that     *)
(* killpg() is reached when no counted worker is left: for any number of    *)
(* groups, and of processes forked before their first event call.           *)
THEOREM WorkersAccurateHolds ==
    ASSUME Premises
    PROVE  Spec => []WorkersAccurate
<1>1. Init => CountInv
  BY InitialCount
<1>2. TypeOK /\ InsideLive /\ CountInv /\ [Step]_vars => CountInv'
  BY CountPreserved DEF Premises, OrderlyDeaths, Unbroken
<1>3. Spec => []IInv
  BY Inductive DEF Premises
<1>4. IInv => TypeOK /\ InsideLive
  BY DEF IInv, LockInv
<1>5. CountInv => WorkersAccurate
  BY DEF CountInv, Accurate, Members, LiveMembers, WorkersAccurate
<1>6. Spec => Init /\ [][Step]_vars
  BY Uninterrupted DEF Premises
<1> QED
  BY <1>1, <1>2, <1>3, <1>4, <1>5, <1>6, PTL

-----------------------------------------------------------------------------
(* The versions: the premises.  A version is one process that calls bind()  *)
(* and the workers that it forks before its event loop, it is started when  *)
(* an earlier one is live, and processes leave through dsu_terminate or     *)
(* killpg; no sem_wait fails.                                               *)

GroupPremises ==
    /\ IsFiniteSet(Proc) /\ OneBinder /\ ~LateFork /\ ~ConcurrentStart
    /\ NoCrashes /\ ~SemFails

-----------------------------------------------------------------------------
(* One version per group.                                                   *)

(* A worker exists once its version has been through bind(), so that it is  *)
(* of the version of its parent.                                            *)
Lineage ==
    \A p \in Proc :
        /\ pc[p] \in BindPc => p \in Binder
        /\ \A q \in Proc \ {p} : Pgid[p] = Pgid[q] =>
              /\ pc[p] \in BindPc => pc[q] = "none"
              /\ Serves(p) /\ Serves(q) => sock[p].version = sock[q].version

(* Only bind() gives a process its version.                                 *)
Lined(q) ==
    /\ pc'[q] = "none" <=> pc[q] = "none"
    /\ pc'[q] \in BindPc => pc[q] \in BindPc
    /\ Serves(q)' => \/ pc[q] \in BindPc
                     \/ Serves(q) /\ sock'[q].version = sock[q].version

LEMMA LinedStep ==
    ASSUME Lineage, BinderFirst, \A q \in Proc : Lined(q)
    PROVE  Lineage' /\ BinderFirst'
<1>1. BinderFirst'
  BY RolesAssumption DEF Lined, BinderFirst
<1>2. Lineage'
  <2>1. SUFFICES ASSUME NEW p \in Proc
                 PROVE  /\ pc'[p] \in BindPc => p \in Binder
                        /\ \A q \in Proc \ {p} : Pgid[p] = Pgid[q] =>
                              /\ pc'[p] \in BindPc => pc'[q] = "none"
                              /\ Serves(p)' /\ Serves(q)' =>
                                    sock'[p].version = sock'[q].version
    BY DEF Lineage
  <2>2. pc'[p] \in BindPc => p \in Binder
    BY DEF Lineage, Lined
  <2>3. ASSUME NEW q \in Proc \ {p}, Pgid[p] = Pgid[q]
        PROVE  /\ pc'[p] \in BindPc => pc'[q] = "none"
               /\ Serves(p)' /\ Serves(q)' => sock'[p].version = sock'[q].version
    <3>1. /\ pc[p] \in BindPc => pc[q] = "none"
          /\ pc[q] \in BindPc => pc[p] = "none"
          /\ Serves(p) /\ Serves(q) => sock[p].version = sock[q].version
      BY <2>3 DEF Lineage
    <3>2. pc'[p] \in BindPc => pc'[q] = "none"
      BY <3>1 DEF Lined
    <3>3. ASSUME Serves(p)', Serves(q)'
          PROVE  sock'[p].version = sock'[q].version
      <4>1. pc'[p] # "none" /\ pc'[q] # "none"
        BY <3>3 DEF Serves, EventPc, AppPc
      <4>2. pc[p] # "none" /\ pc[q] # "none"
        BY <4>1 DEF Lined
      <4>3. pc[p] \notin BindPc /\ pc[q] \notin BindPc
        BY <3>1, <4>2
      <4>4. /\ Serves(p) /\ sock'[p].version = sock[p].version
            /\ Serves(q) /\ sock'[q].version = sock[q].version
        BY <3>3, <4>3 DEF Lined
      <4> QED
        BY <3>1, <4>4
    <3> QED
      BY <3>2, <3>3
  <2> QED
    BY <2>2, <2>3
<1> QED
  BY <1>1, <1>2

LEMMA LinedMove ==
    ASSUME pc \in [Proc -> PcType], NEW p \in Proc, NEW b, Goto(p, b),
           \/ pc[p] \in BindPc /\ b \in BindPc \cup {"user"}
           \/ pc[p] \in EventPc \cup AppPc /\ b \in EventPc \cup AppPc,
           \A q \in Proc : pc[q] \notin BindPc => sock'[q].version = sock[q].version
    PROVE  \A q \in Proc : Lined(q)
BY DEF Lined, Goto, Serves, BindPc, EventPc, AppPc

LEMMA LinedDeath ==
    ASSUME NEW D, Die(D), \A q \in D : pc[q] # "none"
    PROVE  \A q \in Proc : Lined(q)
BY DEF Lined, Die, Serves, BindPc, EventPc, AppPc

LEMMA StartLineage ==
    ASSUME TypeOK, OneBinder, Lineage, BinderFirst, NEW p \in Proc, Start(p)
    PROVE  Lineage' /\ BinderFirst'
<1>1. /\ pc[p] = "none" /\ p \in Binder
      /\ \A q \in Proc : pc'[q] = IF q = p THEN "bind" ELSE pc[q]
      /\ \A q \in Proc \ {p} : sock'[q] = sock[q]
  BY DEF Start, Goto, TypeOK
<1>2. \A q \in Proc : Pgid[q] = Pgid[p] => pc[q] = "none"
  BY <1>1 DEF BinderFirst, OneBinder
<1>3. BinderFirst'
  BY <1>1, RolesAssumption DEF BinderFirst
<1>4. \A q \in Proc : Serves(q)' => Serves(q) /\ q # p
  BY <1>1 DEF Serves, EventPc, AppPc
<1>5. Lineage'
  BY <1>1, <1>2, <1>4 DEF Lineage, BindPc
<1> QED
  BY <1>3, <1>5

LEMMA ForkLineage ==
    ASSUME TypeOK, Lineage, BinderFirst, NEW p \in Proc, NEW q \in Proc, Fork(p, q)
    PROVE  Lineage' /\ BinderFirst'
<1>1. /\ pc[p] = "user" /\ pc[q] = "none" /\ Pgid[q] = Pgid[p]
      /\ \A r \in Proc : pc'[r] = IF r = q THEN "user" ELSE pc[r]
      /\ \A r \in Proc : sock'[r] = IF r = q THEN sock[p] ELSE sock[r]
  BY DEF Fork, Goto, TypeOK
<1>2. BinderFirst'
  BY <1>1, RolesAssumption DEF BinderFirst
<1>3. \A r \in Proc : Serves(r)' <=> Serves(r) \/ r = q
  BY <1>1 DEF Serves, EventPc, AppPc
<1>4. Serves(p) /\ \A r \in Proc \ {p} : Pgid[r] = Pgid[p] => pc[r] \notin BindPc
  BY <1>1 DEF Lineage, Serves, AppPc
<1>5. Lineage'
  BY <1>1, <1>3, <1>4 DEF Lineage, BindPc
<1> QED
  BY <1>2, <1>5

LEMMA BindLined ==
    ASSUME TypeOK, NEW p \in Proc, BindStep(p)
    PROVE  \A q \in Proc : Lined(q)
<1>1. pc \in [Proc -> PcType] /\ sock \in [Proc -> SockType]
  BY DEF TypeOK
<1>2. pc[p] \in BindPc
  BY DEF BindStep, MonitorBind, MonitorListen, Connect, SendPort, ReadShadow,
         ReadComfd, InheritStatusSem, InheritFdSem, InheritVersion, FreshStatusSem,
         FreshFdSem, FreshStatus, TcpBind, BindPc
<1>3. CASE Die({p})
  BY <1>2, <1>3, LinedDeath DEF BindPc
<1>4. CASE ~Die({p})
  <2>1. \E b \in BindPc \cup {"user"} : Goto(p, b)
    BY <1>4 DEF BindStep, MonitorBind, MonitorListen, Connect, SendPort, ReadShadow,
           ReadComfd, InheritStatusSem, InheritFdSem, InheritVersion, FreshStatusSem,
           FreshFdSem, FreshStatus, TcpBind, BindPc
  <2>2. \A q \in Proc \ {p} : sock'[q] = sock[q]
    <3>1. CASE MonitorBind(p) \/ MonitorListen(p) \/ Connect(p) \/ SendPort(p) \/ TcpBind(p)
      BY <1>4, <3>1 DEF MonitorBind, MonitorListen, Connect, SendPort, TcpBind
    <3>2. CASE \/ ReadShadow(p) \/ ReadComfd(p) \/ InheritStatusSem(p)
               \/ InheritFdSem(p) \/ InheritVersion(p)
      BY <1>1, <3>2 DEF ReadShadow, ReadComfd, InheritStatusSem, InheritFdSem, InheritVersion
    <3>3. CASE FreshStatusSem(p) \/ FreshFdSem(p) \/ FreshStatus(p)
      BY <1>1, <3>3 DEF FreshStatusSem, FreshFdSem, FreshStatus
    <3> QED
      BY <3>1, <3>2, <3>3 DEF BindStep
  <2> QED
    BY <1>1, <1>2, <2>1, <2>2, LinedMove
<1> QED
  BY <1>3, <1>4

LEMMA HandleLined ==
    ASSUME TypeOK, NEW p \in Proc, HandleStep(p)
    PROVE  \A q \in Proc : Lined(q)
<1>1. pc \in [Proc -> PcType] /\ sock \in [Proc -> SockType]
  BY DEF TypeOK
<1>2. CASE HandleAccept(p) \/ \E c \in Proc : HandleClose(p, c) \/ HandleRace(p, c)
  <2>1. UNCHANGED pc /\ (UNCHANGED sock \/ \E new : sock' = [sock EXCEPT ![p].comfds = new])
    BY <1>2 DEF HandleAccept, HandleClose, HandleRace
  <2>2. \A q \in Proc : sock'[q].version = sock[q].version
    BY <1>1, <2>1 DEF SockType
  <2> QED
    BY <2>1, <2>2 DEF Lined, Serves
<1>3. CASE \/ \E c \in Proc : HandleError(p, c) \/ HandleRequest(p, c)
           \/ CountLoad(p) \/ CountStore(p)
  <2>1. \E b \in {"reply1", "count", "store"} :
            Goto(p, b) /\ pc[p] \in {"handle", "count", "store"}
    BY <1>3 DEF HandleError, HandleRequest, CountLoad, CountStore, Takes
  <2>2. \A q \in Proc : sock'[q].version = sock[q].version
    BY <1>1, <1>3 DEF HandleError, HandleRequest, CountLoad, CountStore, SockType
  <2> QED
    BY <1>1, <2>1, <2>2, LinedMove DEF EventPc
<1>4. CASE ReplyShadow(p) \/ ReplyComfd(p)
  <2>1. pc[p] \in {"reply1", "reply2"}
    BY <1>4 DEF ReplyShadow, ReplyComfd
  <2>2. CASE Die({p})
    BY <2>1, <2>2, LinedDeath
  <2>3. CASE ~Die({p})
    <3>1. \E b \in {"reply2", "handle"} : Goto(p, b)
      BY <1>4, <2>3 DEF ReplyShadow, ReplyComfd, WriteFd, WriteKills
    <3>2. UNCHANGED sock
      BY <1>4, <2>3 DEF ReplyShadow, ReplyComfd, WriteFd, WriteKills
    <3> QED
      BY <1>1, <2>1, <3>1, <3>2, LinedMove DEF EventPc
  <2> QED
    BY <2>2, <2>3
<1> QED
  BY <1>2, <1>3, <1>4 DEF HandleStep

LEMMA EventLined ==
    ASSUME TypeOK, NEW p \in Proc, EventStep(p) \/ Interrupt(p)
    PROVE  \A q \in Proc : Lined(q)
<1>1. pc \in [Proc -> PcType] /\ sock \in [Proc -> SockType]
  BY DEF TypeOK
<1>2. CASE \/ EventCall(p) \/ Monitor(p) \/ QuitStore(p) \/ TerminationDetection(p)
           \/ PreEvent(p) \/ Wake(p) \/ Timeout(p) \/ PollTimeout(p) \/ Post(p)
           \/ Interrupt(p)
  <2>1. pc[p] \in EventPc \cup AppPc
    BY <1>2 DEF EventCall, Monitor, QuitStore, TerminationDetection, PreEvent, Wake, Timeout,
                PollTimeout, Post, HandledConns, Idle, Interrupt, EventPc, AppPc
  <2>2. \E b \in EventPc \cup AppPc : Goto(p, b)
    <3>1. CASE \/ EventCall(p) \/ Monitor(p) \/ QuitStore(p)
               \/ TerminationDetection(p) \/ PreEvent(p) \/ Wake(p)
      BY <3>1 DEF EventCall, Monitor, QuitStore, TerminationDetection, PreEvent, Wake, EventPc
    <3>2. CASE Timeout(p) \/ PollTimeout(p) \/ Post(p) \/ Interrupt(p)
      BY <3>2 DEF Timeout, PollTimeout, Post, Interrupt, EventPc, AppPc
    <3> QED
      BY <1>2, <3>1, <3>2
  <2>3. \A q \in Proc : sock'[q].version = sock[q].version
    <3>1. CASE EventCall(p) \/ Wake(p) \/ Timeout(p) \/ PollTimeout(p) \/ TerminationDetection(p)
      BY <3>1 DEF EventCall, Wake, Timeout, PollTimeout, TerminationDetection
    <3>2. CASE Monitor(p) \/ QuitStore(p)
      BY <1>1, <3>2 DEF Monitor, QuitStore, SockType
    <3>3. CASE Post(p) \/ Interrupt(p)
      BY <1>1, <3>3 DEF Post, Interrupt, Unlock, SockType
    <3>4. CASE PreEvent(p)
      BY <1>1, <3>4 DEF PreEvent, SockType
    <3> QED
      BY <1>2, <3>1, <3>2, <3>3, <3>4
  <2> QED
    BY <1>1, <2>1, <2>2, <2>3, LinedMove
<1>3. CASE Terminate(p) \/ KillGroup(p) \/ ScanFault(p)
  <2>1. /\ pc[p] \in {"exit", "killpg", "handle"}
        /\ \A q \in Killed(p) : pc[q] # "none"
    BY <1>3 DEF Terminate, KillGroup, ScanFault, HandledConns, Killed, Alive
  <2>2. CASE Die({p}) \/ Die(Killed(p))
    BY <2>1, <2>2, LinedDeath
  <2>3. CASE Goto(p, "killpg") /\ UNCHANGED sock
    BY <1>1, <2>1, <2>3, LinedMove DEF EventPc
  <2> QED
    BY <1>3, <2>2, <2>3 DEF Terminate, KillGroup, ScanFault
<1> QED
  BY <1>2, <1>3, HandleLined DEF EventStep

(* Every step but a start and a fork is lined.                              *)
LEMMA StepLined ==
    ASSUME TypeOK, [Step]_vars,
           ~\E p \in Proc : Start(p), ~\E p, q \in Proc : Fork(p, q)
    PROVE  \A q \in Proc : Lined(q)
<1>1. pc \in [Proc -> PcType] /\ sock \in [Proc -> SockType]
  BY DEF TypeOK
<1>2. ASSUME NEW p \in Proc, ProcessStep(p) \/ Interrupt(p)
      PROVE  \A q \in Proc : Lined(q)
  <2>1. CASE Accept(p)
    <3>1. /\ pc[p] = "accept" /\ Goto(p, "user")
          /\ \A q \in Proc : sock'[q].version = sock[q].version
      BY <1>1, <2>1 DEF Accept, SockType
    <3> QED
      BY <1>1, <3>1, LinedMove DEF AppPc
  <2>2. ASSUME NEW c \in Client, CloseClient(p, c)
        PROVE  \A q \in Proc : Lined(q)
    <3>1. UNCHANGED pc /\ \A q \in Proc : sock'[q].version = sock[q].version
      BY <1>1, <2>2 DEF CloseClient, SockType
    <3> QED
      BY <3>1 DEF Lined, Serves
  <2> QED
    BY <1>2, <2>1, <2>2, BindLined, EventLined DEF ProcessStep, AppStep
<1>3. ASSUME NEW p \in Proc, Crash(p)
      PROVE  \A q \in Proc : Lined(q)
  BY <1>3, LinedDeath DEF Crash, Alive
<1>4. ASSUME UNCHANGED <<pc, sock>>
      PROVE  \A q \in Proc : Lined(q)
  BY <1>4 DEF Lined, Serves
<1>5. (\E c \in Client : ClientConnect(c)) \/ UNCHANGED vars => UNCHANGED <<pc, sock>>
  BY DEF ClientConnect, vars
<1> QED
  BY <1>2, <1>3, <1>4, <1>5 DEF Step, Environment

LEMMA LineagePreserved ==
    ASSUME TypeOK, OneBinder, Lineage, BinderFirst, [Step]_vars
    PROVE  Lineage' /\ BinderFirst'
BY StepLined, LinedStep, StartLineage, ForkLineage

LEMMA InitialLineage == Init => Lineage /\ BinderFirst
<1> SUFFICES ASSUME Init PROVE Lineage /\ BinderFirst
  OBVIOUS
<1>1. \A p \in Proc : pc[p] = "none"
  BY DEF Init
<1> QED
  BY <1>1 DEF Lineage, BinderFirst, Serves, BindPc, EventPc, AppPc

(* All processes of a group serve one version (core.c:689-697), as long as  *)
(* they descend from the one that called bind(): workers are forked with    *)
(* its version, whenever they are forked and whatever crashes.  A second    *)
(* process of the group that calls bind() once the group is superseded is   *)
(* of a newer version than its siblings.                                    *)
THEOREM OneVersionPerGroupHolds ==
    ASSUME OneBinder, ~SemFails, ~(LateFork /\ KeepsLock)
    PROVE  Spec => []OneVersionPerGroup
<1>1. Init => Lineage /\ BinderFirst
  BY InitialLineage
<1>2. TypeOK /\ Lineage /\ BinderFirst /\ [Step]_vars => Lineage' /\ BinderFirst'
  BY LineagePreserved
<1>3. Spec => []TypeOK
  BY TypeCorrect
<1>4. Lineage => OneVersionPerGroup
  BY DEF Lineage, OneVersionPerGroup
<1>5. Spec => Init /\ [][Step]_vars
  BY Uninterrupted
<1> QED
  BY <1>1, <1>2, <1>3, <1>4, <1>5, PTL

-----------------------------------------------------------------------------
(* The versions: the inductive invariant.                                   *)

FreshPc == {"listen", "sem1", "sem2", "fresh", "tcpbind"}
HeirPc == {"connect", "send", "recv1", "recv2", "inherit1", "inherit2", "version"}
OpeningPc == {"none", "bind"} \cup FreshPc

(* One process creates the port, and no other ever takes the fresh path.    *)
Creator ==
    /\ \A p \in Proc \ {First} : pc[p] \notin FreshPc
    /\ pc[First] \notin HeirPc
    /\ bound = IF pc[First] \in {"none", "bind"} THEN {} ELSE {First}
    /\ listening = IF pc[First] \in {"none", "bind", "listen"} THEN {} ELSE {First}
    /\ tcpBound = IF pc[First] \in OpeningPc THEN {} ELSE {First}
    /\ pc[First] \in {"bind"} \cup FreshPc =>
          sock[First].comfd = Com(First) /\ sock[First].shadowfd = Tcp(First)
    /\ pc[First] \in {"fresh", "tcpbind"} => sock[First].monitoring
    /\ pc[First] = "tcpbind" => sock[First].version = status.version

(* Until the first event call there are only the creator and its workers.   *)
Unopened ==
    (\A q \in Proc : ~live[q]) =>
        \A p \in Proc :
            /\ pc[p] \in {"none", "user"} \/ (p = First /\ pc[p] \in OpeningPc)
            /\ pc[p] = "user" =>
                  /\ pc[First] = "user"
                  /\ sock[p].comfd = Com(First) /\ sock[p].shadowfd = Tcp(First)
                  /\ sock[p].monitoring /\ sock[p].version = status.version

(* Who was never in its event loop has no connection of either kind, and    *)
(* will not be more than one version ahead.                                 *)
Newcomers ==
    \A p \in Proc :
        /\ pc[p] \in EventPc \cup {"accept"} => live[p]
        /\ ~live[p] => sock[p].fds = {} /\ sock[p].comfds = {} /\ ~sock[p].locked
        /\ pc[p] \in {"inherit2", "version"} => sock[p].monitoring
        /\ ~live[p] /\ pc[p] = "user" =>
              sock[p].monitoring /\ sock[p].version <= status.version + 1

Served == (\E q \in Proc : live[q]) => \E p \in Proc : Updatable(p)

(* Every internal connection has been accepted by somebody or waits at the  *)
(* listener, which is never closed.                                         *)
Held(c) == c \in ToSet(backlog[First]) \/ \E q \in Proc : c \in sock[q].comfds
Reached == \A c \in Proc : Requesting(c) => Held(c)

(* A process on its way out of a group whose last worker has left.          *)
Doomed(q) ==
    /\ pc[q] \in {"user", "monitor", "quit", "terminate", "exit", "killpg"}
    /\ sock[q].version < status.version /\ sock[q].fds = {} /\ sock[q].comfds = {}
    /\ pc[q] = "user" => ~live[q]
    /\ pc[q] = "monitor" => sock[q].monitoring /\ ~sock[q].locked
    /\ pc[q] \in {"quit", "terminate"} => ~sock[q].monitoring

(* Who leaves serves no client, nor does anybody who is killed.             *)
Leavers ==
    \A p \in Proc :
        /\ pc[p] = "exit" => sock[p].fds = {} /\ sock[p].version < status.version
        /\ pc[p] = "killpg" =>
              \A q \in Proc : Alive(q) /\ Pgid[q] = Pgid[p] => Doomed(q)

GroupInv == Creator /\ Unopened /\ Newcomers /\ Served /\ Reached /\ Leavers

GroupState ==
    IInv /\ SocketInv /\ ServiceInv /\ CountInv /\ Lineage /\ GroupInv

-----------------------------------------------------------------------------
(* Steps of processes that have been in their event loop.                   *)

LEMMA BeforeOpening ==
    ASSUME Creator, Unopened, Served, pc[First] \in OpeningPc
    PROVE  \A q \in Proc : ~live[q] /\ (q # First => pc[q] = "none")
<1>1. tcpBound = {}
  BY DEF Creator
<1>2. \A q \in Proc : ~live[q]
  BY <1>1 DEF Served, Updatable, InService
<1>3. \A q \in Proc : pc[q] # "user"
  BY <1>2 DEF Unopened, OpeningPc, FreshPc
<1> QED
  BY <1>2, <1>3 DEF Unopened

(* p stays in its event loop or application, or enters it.                  *)
Looping(p) ==
    /\ Serves(p) /\ Serves(p)'
    /\ live'[p] /\ \A q \in Proc \ {p} : live'[q] = live[q]
    /\ \A q \in Proc \ {p} : pc'[q] = pc[q] /\ sock'[q] = sock[q]
    /\ UNCHANGED <<bound, listening, tcpBound>>
    /\ status'.version >= status.version
    /\ pc'[p] # "killpg"
    /\ pc'[p] = "exit" => sock'[p].fds = {} /\ sock'[p].version < status'.version
    /\ Doomed(p) => Doomed(p)'

LEMMA DoomedStays ==
    ASSUME TypeOK, TypeOK', NEW q \in Proc, Doomed(q), pc'[q] = pc[q], sock'[q] = sock[q],
           live'[q] = live[q], status'.version >= status.version
    PROVE  Doomed(q)'
<1>1. sock[q].version \in Nat /\ status.version \in Nat /\ status'.version \in Nat
  BY DEF TypeOK, SockType, StatusType
<1>2. sock[q].version < status'.version
  BY <1>1 DEF Doomed
<1> QED
  BY <1>2 DEF Doomed

LEMMA LoopingGroup ==
    ASSUME TypeOK, TypeOK', NEW p \in Proc, Looping(p),
           Creator, Unopened, Newcomers, Served, Leavers
    PROVE  Creator' /\ Unopened' /\ Newcomers' /\ Leavers'
<1> USE DEF Looping
<1>1. /\ status.version \in Nat /\ status'.version \in Nat
      /\ \A q \in Proc : sock[q].version \in Nat
  BY DEF TypeOK, SockType, StatusType
<1>2. pc[First] \notin OpeningPc
  BY BeforeOpening, RolesAssumption DEF Serves, EventPc, AppPc, OpeningPc, FreshPc
<1>3. First \in Proc
  BY RolesAssumption
<1>4. Creator'
  <2>1. \A q \in Proc : pc'[q] = pc[q] \/ (Serves(q) /\ Serves(q)')
    OBVIOUS
  <2>2. \A q \in Proc : Serves(q)' => pc'[q] \notin OpeningPc \cup HeirPc
    BY DEF Serves, EventPc, AppPc, OpeningPc, FreshPc, HeirPc
  <2>3. pc'[First] \notin OpeningPc \cup HeirPc
    BY <1>2, <1>3, <2>1, <2>2 DEF Creator
  <2>4. \A q \in Proc \ {First} : pc'[q] \notin FreshPc
    BY <2>1, <2>2 DEF Creator, OpeningPc
  <2> QED
    BY <1>2, <2>3, <2>4 DEF Creator, OpeningPc, FreshPc
<1>5. Unopened'
  BY DEF Unopened
<1>6. Newcomers'
  <2>1. ASSUME NEW q \in Proc \ {p}
        PROVE  /\ pc'[q] \in EventPc \cup {"accept"} => live'[q]
               /\ ~live'[q] => sock'[q].fds = {} /\ sock'[q].comfds = {} /\ ~sock'[q].locked
               /\ pc'[q] \in {"inherit2", "version"} => sock'[q].monitoring
               /\ ~live'[q] /\ pc'[q] = "user" =>
                     sock'[q].monitoring /\ sock'[q].version <= status'.version + 1
    <3>1. /\ pc[q] \in EventPc \cup {"accept"} => live[q]
          /\ ~live[q] => sock[q].fds = {} /\ sock[q].comfds = {} /\ ~sock[q].locked
          /\ pc[q] \in {"inherit2", "version"} => sock[q].monitoring
          /\ ~live[q] /\ pc[q] = "user" =>
                sock[q].monitoring /\ sock[q].version <= status.version + 1
      BY DEF Newcomers
    <3>2. sock[q].version <= status.version + 1 => sock[q].version <= status'.version + 1
      BY <1>1
    <3> QED
      BY <3>1, <3>2
  <2>2. pc'[p] \notin {"inherit2", "version"}
    BY DEF Serves, EventPc, AppPc
  <2> QED
    BY <2>1, <2>2 DEF Newcomers
<1>7. Leavers'
  <2>1. \A q \in Proc : Doomed(q) => Doomed(q)'
    BY DoomedStays
  <2>2. \A q \in Proc : Alive(q)' => Alive(q)
    BY DEF Alive, Serves, EventPc, AppPc
  <2>3. ASSUME NEW q \in Proc, pc'[q] = "exit"
        PROVE  sock'[q].fds = {} /\ sock'[q].version < status'.version
    BY <1>1, <2>3 DEF Leavers
  <2>4. ASSUME NEW q \in Proc, pc'[q] = "killpg", NEW r \in Proc, Alive(r)', Pgid[r] = Pgid[q]
        PROVE  Doomed(r)'
    BY <2>1, <2>2, <2>4 DEF Leavers
  <2> QED
    BY <2>3, <2>4 DEF Leavers
<1> QED
  BY <1>4, <1>5, <1>6, <1>7

LEMMA EventLooping ==
    ASSUME TypeOK, Newcomers, NEW p \in Proc,
           \/ EventCall(p) \/ Monitor(p) \/ QuitStore(p) \/ TerminationDetection(p)
           \/ PreEvent(p) \/ Wake(p) \/ Timeout(p) \/ PollTimeout(p)
           \/ Interrupt(p) \/ Post(p)
    PROVE  Looping(p)
<1> USE DEF callVars, channelVars, clientVars, listenerVars, semVars
<1>1. /\ pc \in [Proc -> PcType] /\ sock \in [Proc -> SockType] /\ live \in [Proc -> BOOLEAN]
      /\ status \in StatusType
  BY DEF TypeOK
<1>2. \A q \in Proc \ {p} : pc'[q] = pc[q] /\ sock'[q] = sock[q]
  BY EventUndisturbed DEF Undisturbed, Quiet
<1>3. /\ pc[p] \in EventPc \cup {"user"}
      /\ pc[p] = "user" => EventCall(p)
      /\ pc[p] = "monitor" => Monitor(p)
      /\ pc[p] = "quit" => QuitStore(p)
      /\ pc[p] = "terminate" => TerminationDetection(p)
      /\ pc[p] \notin {"exit", "killpg"}
  BY DEF EventCall, Monitor, QuitStore, TerminationDetection, PreEvent, Wake, Timeout,
         PollTimeout, Post, HandledConns, Idle, Interrupt, EventPc
<1>4. \E b \in (EventPc \cup AppPc) \ {"killpg"} : Goto(p, b)
  <2>1. CASE \/ EventCall(p) \/ Monitor(p) \/ QuitStore(p)
             \/ TerminationDetection(p) \/ PreEvent(p) \/ Wake(p)
    BY <2>1 DEF EventCall, Monitor, QuitStore, TerminationDetection, PreEvent, Wake, EventPc
  <2>2. CASE Timeout(p) \/ PollTimeout(p) \/ Post(p) \/ Interrupt(p)
    BY <2>2 DEF Timeout, PollTimeout, Post, Interrupt, EventPc, AppPc
  <2> QED
    BY <2>1, <2>2
<1>5. /\ Serves(p) /\ Serves(p)' /\ pc'[p] # "killpg"
  BY <1>1, <1>3, <1>4 DEF Serves, Goto, AppPc
<1>6. live'[p] /\ \A q \in Proc \ {p} : live'[q] = live[q]
  <2>1. CASE EventCall(p)
    BY <1>1, <2>1 DEF EventCall
  <2>2. CASE ~EventCall(p)
    <3>1. UNCHANGED live
      BY <2>2 DEF Monitor, QuitStore, TerminationDetection, PreEvent, Wake, Timeout,
                  PollTimeout, Post, Interrupt
    <3> QED
      BY <1>3, <2>2, <3>1 DEF Newcomers
  <2> QED
    BY <2>1, <2>2
<1>7. UNCHANGED <<bound, listening, tcpBound>>
  BY DEF EventCall, Monitor, QuitStore, TerminationDetection, PreEvent, Wake, Timeout,
         PollTimeout, Post, Interrupt
<1>8. status'.version >= status.version
  <2>1. CASE Monitor(p) \/ QuitStore(p)
    <3>1. /\ QuitStore(p) => status'.version = status.version
          /\ Monitor(p) => status'.version \in {status.version, status.version + 1}
      BY <1>1 DEF Monitor, QuitStore, StatusType
    <3>2. status.version \in Nat
      BY <1>1 DEF StatusType
    <3> QED
      BY <2>1, <3>1, <3>2
  <2>2. CASE ~(Monitor(p) \/ QuitStore(p))
    <3>1. UNCHANGED status
      BY <2>2 DEF EventCall, TerminationDetection, PreEvent, Wake, Timeout,
                  PollTimeout, Post, Interrupt
    <3> QED
      BY <1>1, <3>1 DEF StatusType
  <2> QED
    BY <2>1, <2>2
<1>9. ASSUME pc'[p] = "exit"
      PROVE  sock'[p].fds = {} /\ sock'[p].version < status'.version
  <2>1. TerminationDetection(p)
    BY <1>1, <1>9 DEF EventCall, Monitor, QuitStore, PreEvent, Wake, Timeout,
         PollTimeout, Post, Interrupt, Goto
  <2>2. Terminable(p)
    BY <1>1, <1>9, <2>1 DEF TerminationDetection, Goto
  <2> QED
    BY <2>1, <2>2 DEF TerminationDetection, Terminable
<1>10. ASSUME Doomed(p)
       PROVE  Doomed(p)'
  <2>1. CASE pc[p] = "user"
    <3>1. EventCall(p) /\ ~live[p] /\ sock[p].monitoring /\ ~sock[p].locked
      BY <1>3, <1>10, <2>1 DEF Doomed, Newcomers
    <3>2. pc'[p] = "monitor" /\ UNCHANGED <<sock, status>>
      BY <1>1, <3>1 DEF EventCall, Goto
    <3> QED
      BY <1>10, <3>1, <3>2 DEF Doomed
  <2>2. CASE pc[p] = "monitor"
    <3>1. Monitor(p) /\ Quits(p)
      BY <1>3, <1>10, <2>2 DEF Doomed, Quits
    <3>2. /\ pc'[p] = "quit" /\ UNCHANGED status
          /\ sock'[p].version = sock[p].version /\ sock'[p].fds = sock[p].fds
          /\ sock'[p].comfds = sock[p].comfds /\ ~sock'[p].monitoring
      BY <1>1, <3>1 DEF Monitor, Goto, SockType
    <3> QED
      BY <1>10, <3>2 DEF Doomed
  <2>3. CASE pc[p] = "quit"
    <3>1. /\ pc'[p] = "terminate" /\ status'.version = status.version
          /\ sock'[p].version = sock[p].version /\ sock'[p].fds = sock[p].fds
          /\ sock'[p].comfds = sock[p].comfds /\ sock'[p].monitoring = sock[p].monitoring
      BY <1>1, <1>3, <2>3 DEF QuitStore, Goto, SockType, StatusType
    <3> QED
      BY <1>10, <2>3, <3>1 DEF Doomed
  <2>4. CASE pc[p] = "terminate"
    <3>1. Terminable(p) /\ TerminationDetection(p)
      BY <1>3, <1>10, <2>4 DEF Doomed, Terminable
    <3>2. pc'[p] = "exit" /\ UNCHANGED <<sock, status>>
      BY <1>1, <3>1 DEF TerminationDetection, Goto
    <3> QED
      BY <1>10, <3>2 DEF Doomed
  <2> QED
    BY <1>3, <1>10, <2>1, <2>2, <2>3, <2>4 DEF Doomed
<1> QED
  BY <1>2, <1>5, <1>6, <1>7, <1>8, <1>9, <1>10 DEF Looping

(* No SIGPIPE is raised, for whoever is answered still waits.               *)
LEMMA NoPipeBreaks ==
    ASSUME TypeOK, SocketInv, ServiceInv
    PROVE  \A p \in Proc : pc[p] \in {"reply1", "reply2"} => Requesting(peer[p])
BY DEF SocketInv, DescriptorInv, Answerers, AnsweringPc, TypeOK, ServiceInv, Waiting

LEMMA HandleLooping ==
    ASSUME TypeOK, SocketInv, ServiceInv, Newcomers, NEW p \in Proc,
           \/ HandleStep(p) \/ AppStep(p)
    PROVE  Looping(p)
<1> USE DEF callVars, channelVars, clientVars, listenerVars, semVars
<1>1. /\ pc \in [Proc -> PcType] /\ sock \in [Proc -> SockType] /\ status \in StatusType
  BY DEF TypeOK
<1>2. ~WriteKills(p, sock[p].shadowfd) \/ pc[p] # "reply1"
  BY NoPipeBreaks DEF WriteKills
<1>3. ~WriteKills(p, sock[p].comfd) \/ pc[p] # "reply2"
  BY NoPipeBreaks DEF WriteKills
<1>4. pc[p] \in {"handle", "count", "store", "reply1", "reply2", "accept", "user"}
  BY DEF HandleStep, HandleAccept, HandleClose, HandleRace, HandleError, HandleRequest,
         Takes, CountLoad, CountStore, ReplyShadow, ReplyComfd, AppStep, Accept, CloseClient
<1>5. live[p] /\ ~Doomed(p)
  <2>1. CASE \E c \in Client : CloseClient(p, c)
    BY <2>1 DEF CloseClient, Newcomers, Doomed
  <2>2. CASE ~\E c \in Client : CloseClient(p, c)
    <3>1. pc[p] # "user"
      BY <2>2 DEF HandleStep, HandleAccept, HandleClose, HandleRace, HandleError,
         HandleRequest, Takes, CountLoad, CountStore, ReplyShadow, ReplyComfd, AppStep, Accept
    <3> QED
      BY <1>4, <3>1 DEF Newcomers, Doomed, EventPc
  <2> QED
    BY <2>1, <2>2
<1>6. \A q \in Proc \ {p} : sock'[q] = sock[q]
  <2>1. CASE HandleAccept(p) \/ \E c \in Proc : HandleClose(p, c) \/ HandleRace(p, c)
    <3>1. UNCHANGED sock \/ \E new : sock' = [sock EXCEPT ![p].comfds = new]
      BY <2>1 DEF HandleAccept, HandleClose, HandleRace
    <3> QED
      BY <1>1, <3>1
  <2>2. CASE \/ \E c \in Proc : HandleError(p, c) \/ HandleRequest(p, c)
             \/ CountLoad(p) \/ CountStore(p)
    BY <1>1, <2>2 DEF HandleError, HandleRequest, CountLoad, CountStore
  <2>3. CASE ReplyShadow(p) \/ ReplyComfd(p)
    BY <1>2, <1>3, <2>3 DEF ReplyShadow, ReplyComfd, WriteFd
  <2>4. CASE AppStep(p)
    BY <1>1, <2>4 DEF AppStep, Accept, CloseClient
  <2> QED
    BY <2>1, <2>2, <2>3, <2>4 DEF HandleStep
<1>7. /\ pc'[p] \in {"handle", "count", "store", "reply1", "reply2", "user"}
      /\ \A q \in Proc \ {p} : pc'[q] = pc[q]
  <2>1. \/ UNCHANGED pc
        \/ \E b \in {"handle", "count", "store", "reply1", "reply2", "user"} : Goto(p, b)
    <3>1. CASE ReplyShadow(p) \/ ReplyComfd(p)
      BY <1>2, <1>3, <3>1 DEF ReplyShadow, ReplyComfd, WriteFd
    <3>2. CASE ~(ReplyShadow(p) \/ ReplyComfd(p))
      BY <3>2 DEF HandleStep, HandleAccept, HandleClose, HandleRace, HandleError,
         HandleRequest, CountLoad, CountStore, AppStep, Accept, CloseClient
    <3> QED
      BY <3>1, <3>2
  <2>2. pc'[p] = "accept" => FALSE
    BY <1>1, <2>1 DEF HandleStep, HandleAccept, HandleClose, HandleRace, HandleError,
         HandleRequest, Takes, CountLoad, CountStore, ReplyShadow, ReplyComfd, AppStep, Accept,
         CloseClient, Goto
  <2> QED
    BY <1>1, <1>4, <2>1, <2>2 DEF Goto
<1>8. UNCHANGED <<live, bound, listening, tcpBound>>
  <2>1. CASE ReplyShadow(p) \/ ReplyComfd(p)
    BY <1>2, <1>3, <2>1 DEF ReplyShadow, ReplyComfd
  <2>2. CASE ~(ReplyShadow(p) \/ ReplyComfd(p))
    BY <2>2 DEF HandleStep, HandleAccept, HandleClose, HandleRace, HandleError,
       HandleRequest, CountLoad, CountStore, AppStep, Accept, CloseClient
  <2> QED
    BY <2>1, <2>2
<1>9. status'.version = status.version
  <2>1. CASE CountStore(p)
    BY <1>1, <2>1 DEF CountStore, StatusType
  <2>2. CASE ~CountStore(p)
    BY <2>2 DEF HandleStep, HandleAccept, HandleClose, HandleRace, HandleError,
       HandleRequest, CountLoad, ReplyShadow, ReplyComfd, AppStep, Accept, CloseClient
  <2> QED
    BY <2>1, <2>2
<1>10. Serves(p) /\ Serves(p)'
  BY <1>4, <1>7 DEF Serves, EventPc, AppPc
<1>11. status'.version >= status.version
  BY <1>1, <1>9 DEF StatusType
<1> QED
  BY <1>5, <1>6, <1>7, <1>8, <1>10, <1>11 DEF Looping

-----------------------------------------------------------------------------
(* Steps of processes in bind().                                            *)

LEMMA StartGroup ==
    ASSUME TypeOK, CountInv, OneBinder, ~ConcurrentStart, NEW p \in Proc, Start(p),
           Creator, Unopened, Newcomers, Served, Leavers
    PROVE  Creator' /\ Unopened' /\ Newcomers' /\ Leavers'
<1> USE DEF callVars, channelVars, clientVars, listenerVars
<1>1. /\ pc[p] = "none" /\ p \in Binder
      /\ \A q \in Proc : pc'[q] = IF q = p THEN "bind" ELSE pc[q]
      /\ \A q \in Proc : sock'[q] = IF q = p THEN NewSock(p) ELSE sock[q]
      /\ UNCHANGED <<live, status, bound, listening, tcpBound>>
      /\ p = First \/ \E q \in Proc : live[q]
  BY DEF Start, Goto, TypeOK
<1>2. /\ NewSock(p).fds = {} /\ NewSock(p).comfds = {} /\ ~NewSock(p).locked
      /\ NewSock(p).comfd = Com(p) /\ NewSock(p).shadowfd = Tcp(p)
  BY DEF NewSock, NoSock
<1>3. First \in Proc
  BY RolesAssumption
<1>4. \A q \in Proc : Pgid[q] = Pgid[p] => pc[q] = "none"
  BY <1>1 DEF CountInv, BinderFirst, OneBinder
<1>5. Creator'
  BY <1>1, <1>2, <1>3 DEF Creator, OpeningPc, FreshPc, HeirPc
<1>6. Unopened'
  <2> SUFFICES ASSUME \A q \in Proc : ~live[q]
               PROVE  \A q \in Proc :
                        /\ pc'[q] \in {"none", "user"} \/ (q = First /\ pc'[q] \in OpeningPc)
                        /\ pc'[q] # "user"
    BY <1>1 DEF Unopened
  <2>1. p = First
    BY <1>1
  <2>2. \A q \in Proc : q # First => pc[q] = "none"
    BY <1>1, <2>1, BeforeOpening DEF OpeningPc
  <2> QED
    BY <1>1, <2>1, <2>2 DEF OpeningPc
<1>7. Newcomers'
  BY <1>1, <1>2 DEF Newcomers, EventPc
<1>8. Leavers'
  <2>1. \A q \in Proc \ {p} : Doomed(q) => Doomed(q)'
    BY <1>1 DEF Doomed
  <2>2. \A q \in Proc \ {p} : Alive(q)' => Alive(q)
    BY <1>1 DEF Alive
  <2>3. \A q \in Proc : pc'[q] = "killpg" => pc[q] = "killpg" /\ Pgid[q] # Pgid[p]
    BY <1>1, <1>4
  <2> QED
    BY <1>1, <2>1, <2>2, <2>3 DEF Leavers
<1> QED
  BY <1>5, <1>6, <1>7, <1>8

(* While some version serves the listener is open, and all binding is done  *)
(* by inheritance.                                                          *)
LEMMA ListenerOpen ==
    ASSUME Creator, Served, \E q \in Proc : live[q]
    PROVE  listening = {First} /\ bound = {First} /\ Open(Com(First))
<1>1. PICK u \in Proc : Updatable(u)
  BY DEF Served
<1>2. PICK l \in listening : sock[u].comfd = Com(l)
  BY <1>1 DEF Updatable
<1>3. l = First /\ listening = {First} /\ bound = {First}
  BY <1>2 DEF Creator
<1>4. Alive(u)
  BY <1>1 DEF Updatable, InService, Serves, EventPc, AppPc, Alive
<1> QED
  BY <1>2, <1>3, <1>4 DEF Open

HeirMove(p) ==
    /\ p # First /\ pc[p] \in {"bind"} \cup HeirPc /\ pc'[p] \in HeirPc \cup {"user"}
    /\ \A q \in Proc \ {p} : pc'[q] = pc[q] /\ sock'[q] = sock[q]
    /\ UNCHANGED <<live, status, bound, listening, tcpBound>>
    /\ sock'[p].fds = sock[p].fds /\ sock'[p].comfds = sock[p].comfds
    /\ sock'[p].locked = sock[p].locked
    /\ pc'[p] \in {"inherit2", "version", "user"} => sock'[p].monitoring
    /\ pc'[p] = "user" => sock'[p].version <= status.version + 1

LEMMA HeirGroup ==
    ASSUME TypeOK, CountInv, Lineage, NEW p \in Proc, HeirMove(p),
           Creator, Unopened, Newcomers, Leavers
    PROVE  Creator' /\ Unopened' /\ Newcomers' /\ Leavers'
<1> USE DEF HeirMove
<1>1. pc[p] \in BindPc /\ pc'[p] \notin FreshPc \cup EventPc \cup {"accept"}
  BY DEF HeirPc, BindPc, FreshPc, EventPc
<1>2. \E q \in Proc : live[q]
  BY <1>1 DEF Unopened, BindPc
<1>3. ~live[p] /\ First \in Proc
  BY <1>1, RolesAssumption DEF CountInv, EarlyUncounted
<1>4. Creator'
  BY <1>1, <1>3 DEF Creator
<1>5. Unopened'
  BY <1>2 DEF Unopened
<1>6. Newcomers'
  BY <1>1, <1>3 DEF Newcomers
<1>7. Leavers'
  <2>1. \A q \in Proc \ {p} : (Doomed(q) => Doomed(q)') /\ (Alive(q)' => Alive(q))
    BY DEF Doomed, Alive
  <2>2. \A q \in Proc \ {p} : Pgid[p] = Pgid[q] => pc[q] = "none"
    BY <1>1 DEF Lineage
  <2>3. pc'[p] \notin {"exit", "killpg"}
    BY <1>1 DEF EventPc
  <2> QED
    BY <2>1, <2>2, <2>3 DEF Leavers
<1> QED
  BY <1>4, <1>5, <1>6, <1>7

(* A later version finds the name taken, connects, and is answered.         *)
LEMMA HeirFacts ==
    ASSUME TypeOK, CountInv, NEW p \in Proc, p # First, BindStep(p),
           SocketInv, Creator, Unopened, Newcomers, Served, Reached
    PROVE  HeirMove(p)
<1> USE DEF callVars, channelVars, clientVars, listenerVars, semVars
<1>1. /\ pc \in [Proc -> PcType] /\ sock \in [Proc -> SockType] /\ status \in StatusType
  BY DEF TypeOK
<1>2. pc[p] \in {"bind"} \cup HeirPc
  <2>1. pc[p] \in BindPc
    BY DEF BindStep, MonitorBind, MonitorListen, Connect, SendPort, ReadShadow,
         ReadComfd, InheritStatusSem, InheritFdSem, InheritVersion, FreshStatusSem,
         FreshFdSem, FreshStatus, TcpBind, BindPc
  <2>2. pc[p] \notin FreshPc
    BY DEF Creator
  <2> QED
    BY <2>1, <2>2 DEF BindPc, FreshPc, HeirPc
<1>3. ASSUME NEW b, Goto(p, b)
      PROVE  pc'[p] = b /\ \A q \in Proc \ {p} : pc'[q] = pc[q]
  BY <1>1, <1>3 DEF Goto
<1>4. \E q \in Proc : live[q]
  BY <1>2 DEF Unopened, HeirPc
<1>5. listening = {First} /\ bound = {First} /\ Open(Com(First))
  BY <1>4, ListenerOpen
<1>6. Requesting(p) => ~Unserved(p)
  BY <1>5, RolesAssumption DEF Reached, Held, Unserved
<1>7. CASE MonitorBind(p)
  <2>1. ~NameFree
    BY <1>5 DEF NameFree
  <2>2. Goto(p, "connect") /\ UNCHANGED <<live, status, bound, listening, tcpBound, sock>>
    BY <1>7, <2>1 DEF MonitorBind
  <2> QED
    BY <1>2, <1>3, <2>2 DEF HeirMove, HeirPc
<1>8. CASE Connect(p)
  <2>1. Goto(p, "send") /\ UNCHANGED <<live, status, bound, listening, tcpBound, sock>>
    BY <1>5, <1>8 DEF Connect
  <2> QED
    BY <1>2, <1>3, <2>1 DEF HeirMove, HeirPc
<1>9. CASE SendPort(p)
  <2>1. ~Unserved(p)
    BY <1>6, <1>9 DEF SendPort, Requesting
  <2>2. Goto(p, "recv1") /\ UNCHANGED <<live, status, bound, listening, tcpBound, sock>>
    BY <1>9, <2>1 DEF SendPort
  <2> QED
    BY <1>2, <1>3, <2>2 DEF HeirMove, HeirPc
<1>10. CASE ReadShadow(p) \/ ReadComfd(p)
  <2>1. ~Unserved(p)
    BY <1>6, <1>10 DEF ReadShadow, ReadComfd, Requesting
  <2>2. /\ Goto(p, "recv2") \/ Goto(p, "inherit1")
        /\ UNCHANGED <<live, status, bound, listening, tcpBound>>
    BY <1>10, <2>1 DEF ReadShadow, ReadComfd
  <2>3. /\ \A q \in Proc \ {p} : sock'[q] = sock[q]
        /\ sock'[p].fds = sock[p].fds /\ sock'[p].comfds = sock[p].comfds
        /\ sock'[p].locked = sock[p].locked
    BY <1>1, <1>10, <2>1 DEF ReadShadow, ReadComfd, SockType
  <2> QED
    BY <1>2, <1>3, <2>2, <2>3 DEF HeirMove, HeirPc
<1>11. CASE InheritStatusSem(p) \/ InheritFdSem(p)
  <2>1. /\ Goto(p, "inherit2") \/ Goto(p, "version")
        /\ UNCHANGED <<live, status, bound, listening, tcpBound>>
    BY <1>11 DEF InheritStatusSem, InheritFdSem
  <2>2. /\ \A q \in Proc \ {p} : sock'[q] = sock[q]
        /\ sock'[p].fds = sock[p].fds /\ sock'[p].comfds = sock[p].comfds
        /\ sock'[p].locked = sock[p].locked
    BY <1>1, <1>11 DEF InheritStatusSem, InheritFdSem, SockType
  <2>3. sock'[p].monitoring
    <3>1. CASE InheritStatusSem(p)
      BY <1>1, <3>1 DEF InheritStatusSem
    <3>2. CASE InheritFdSem(p)
      BY <1>1, <3>2 DEF InheritFdSem, Newcomers
    <3> QED
      BY <1>11, <3>1, <3>2
  <2> QED
    BY <1>2, <1>3, <2>1, <2>2, <2>3 DEF HeirMove, HeirPc
<1>12. CASE InheritVersion(p)
  <2>1. Goto(p, "user") /\ UNCHANGED <<live, status, bound, listening, tcpBound>>
    BY <1>12 DEF InheritVersion
  <2>2. /\ \A q \in Proc \ {p} : sock'[q] = sock[q]
        /\ sock'[p].fds = sock[p].fds /\ sock'[p].comfds = sock[p].comfds
        /\ sock'[p].locked = sock[p].locked /\ sock'[p].monitoring = sock[p].monitoring
        /\ sock'[p].version = NewVersion(p)
    BY <1>1, <1>12 DEF InheritVersion, SockType
  <2>3. NewVersion(p) <= status.version + 1
    BY <1>1 DEF NewVersion, StatusType
  <2>4. sock[p].monitoring
    BY <1>12 DEF InheritVersion, Newcomers
  <2> QED
    BY <1>2, <1>3, <2>1, <2>2, <2>3, <2>4 DEF HeirMove, HeirPc
<1> QED
  BY <1>2, <1>7, <1>8, <1>9, <1>10, <1>11, <1>12
     DEF BindStep, HeirPc, FreshStatusSem, FreshFdSem, FreshStatus, TcpBind, MonitorListen

(* The creator goes through bind() alone.                                   *)
CreatorMove ==
    /\ \A q \in Proc \ {First} : pc'[q] = pc[q] /\ sock'[q] = sock[q]
    /\ UNCHANGED live
    /\ sock'[First].fds = sock[First].fds /\ sock'[First].comfds = sock[First].comfds
    /\ sock'[First].locked = sock[First].locked
    /\ sock'[First].comfd = sock[First].comfd
    /\ sock'[First].shadowfd = sock[First].shadowfd
    /\ \/ /\ pc[First] = "bind" /\ pc'[First] = "listen"
          /\ bound' = {First} /\ UNCHANGED <<listening, tcpBound>>
       \/ /\ pc[First] = "listen" /\ pc'[First] = "sem1"
          /\ listening' = {First} /\ UNCHANGED <<bound, tcpBound>>
       \/ /\ pc[First] = "sem1" /\ pc'[First] = "sem2"
          /\ UNCHANGED <<bound, listening, tcpBound>>
       \/ /\ pc[First] = "sem2" /\ pc'[First] = "fresh"
          /\ sock'[First].monitoring /\ UNCHANGED <<bound, listening, tcpBound>>
       \/ /\ pc[First] = "fresh" /\ pc'[First] = "tcpbind"
          /\ sock'[First].monitoring = sock[First].monitoring
          /\ sock'[First].version = status'.version
          /\ UNCHANGED <<bound, listening, tcpBound>>
       \/ /\ pc[First] = "tcpbind" /\ pc'[First] = "user"
          /\ tcpBound' = {First} /\ UNCHANGED <<bound, listening, status, sock>>

LEMMA CreatorFacts ==
    ASSUME TypeOK, Creator, BindStep(First)
    PROVE  CreatorMove
<1> USE DEF callVars, channelVars, clientVars, listenerVars, semVars
<1>1. /\ pc \in [Proc -> PcType] /\ sock \in [Proc -> SockType] /\ status \in StatusType
      /\ First \in Proc
  BY RolesAssumption DEF TypeOK
<1>2. ASSUME NEW b, Goto(First, b)
      PROVE  pc'[First] = b /\ \A q \in Proc \ {First} : pc'[q] = pc[q]
  BY <1>1, <1>2 DEF Goto
<1>3. CASE MonitorBind(First)
  <2>1. bound = {}
    BY <1>3 DEF MonitorBind, Creator
  <2>2. NameFree
    BY <2>1 DEF NameFree
  <2>3. /\ pc[First] = "bind" /\ Goto(First, "listen") /\ bound' = {First}
        /\ UNCHANGED <<live, sock, listening, tcpBound>>
    BY <1>3, <2>1, <2>2 DEF MonitorBind
  <2> QED
    BY <1>2, <2>3 DEF CreatorMove
<1>4. CASE MonitorListen(First)
  <2>1. listening = {}
    BY <1>4 DEF MonitorListen, Creator
  <2>2. /\ pc[First] = "listen" /\ Goto(First, "sem1") /\ listening' = {First}
        /\ UNCHANGED <<live, sock, bound, tcpBound>>
    BY <1>4, <2>1 DEF MonitorListen
  <2> QED
    BY <1>2, <2>2 DEF CreatorMove
<1>5. CASE FreshStatusSem(First)
  <2>1. /\ pc[First] = "sem1" /\ Goto(First, "sem2")
        /\ UNCHANGED <<live, bound, listening, tcpBound>>
    BY <1>5 DEF FreshStatusSem
  <2>2. /\ \A q \in Proc \ {First} : sock'[q] = sock[q]
        /\ sock'[First].fds = sock[First].fds /\ sock'[First].comfds = sock[First].comfds
        /\ sock'[First].locked = sock[First].locked
        /\ sock'[First].comfd = sock[First].comfd
        /\ sock'[First].shadowfd = sock[First].shadowfd
    BY <1>1, <1>5 DEF FreshStatusSem, SockType
  <2> QED
    BY <1>2, <2>1, <2>2 DEF CreatorMove
<1>6. CASE FreshFdSem(First)
  <2>1. /\ pc[First] = "sem2" /\ Goto(First, "fresh")
        /\ UNCHANGED <<live, bound, listening, tcpBound>>
    BY <1>6 DEF FreshFdSem
  <2>2. /\ \A q \in Proc \ {First} : sock'[q] = sock[q]
        /\ sock'[First].fds = sock[First].fds /\ sock'[First].comfds = sock[First].comfds
        /\ sock'[First].locked = sock[First].locked
        /\ sock'[First].comfd = sock[First].comfd
        /\ sock'[First].shadowfd = sock[First].shadowfd
        /\ sock'[First].monitoring
    BY <1>1, <1>6 DEF FreshFdSem, SockType
  <2> QED
    BY <1>2, <2>1, <2>2 DEF CreatorMove
<1>7. CASE FreshStatus(First)
  <2>1. /\ pc[First] = "fresh" /\ Goto(First, "tcpbind")
        /\ UNCHANGED <<live, bound, listening, tcpBound>>
    BY <1>7 DEF FreshStatus
  <2>2. /\ \A q \in Proc \ {First} : sock'[q] = sock[q]
        /\ sock'[First].fds = sock[First].fds /\ sock'[First].comfds = sock[First].comfds
        /\ sock'[First].locked = sock[First].locked
        /\ sock'[First].comfd = sock[First].comfd
        /\ sock'[First].shadowfd = sock[First].shadowfd
        /\ sock'[First].monitoring = sock[First].monitoring
        /\ sock'[First].version = status'.version
    BY <1>1, <1>7 DEF FreshStatus, SockType
  <2> QED
    BY <1>2, <2>1, <2>2 DEF CreatorMove
<1>8. CASE TcpBind(First)
  <2>1. pc[First] = "tcpbind" /\ tcpBound = {}
    BY <1>8 DEF TcpBind, Creator, OpeningPc, FreshPc
  <2>2. /\ Goto(First, "user") /\ tcpBound' = {First}
        /\ UNCHANGED <<live, sock, bound, listening, status>>
    BY <1>8, <2>1 DEF TcpBind
  <2> QED
    BY <1>2, <2>1, <2>2 DEF CreatorMove
<1> QED
  BY <1>3, <1>4, <1>5, <1>6, <1>7, <1>8
     DEF BindStep, Creator, HeirPc, Connect, SendPort, ReadShadow, ReadComfd,
         InheritStatusSem, InheritFdSem, InheritVersion

LEMMA CreatorGroup ==
    ASSUME TypeOK, TypeOK', CreatorMove, Creator, Unopened, Newcomers, Served, Leavers
    PROVE  Creator' /\ Unopened' /\ Newcomers' /\ Leavers'
<1>1. First \in Proc /\ pc[First] \in OpeningPc
  BY RolesAssumption DEF CreatorMove, OpeningPc, FreshPc
<1>2. \A q \in Proc : ~live'[q] /\ (q # First => pc[q] = "none" /\ pc'[q] = "none")
  BY <1>1, BeforeOpening DEF CreatorMove
<1>3. pc'[First] \in FreshPc \cup {"user"}
  BY DEF CreatorMove, FreshPc
<1>4. Creator'
  <2>1. /\ sock[First].comfd = Com(First) /\ sock[First].shadowfd = Tcp(First)
        /\ sock'[First].comfd = Com(First) /\ sock'[First].shadowfd = Tcp(First)
    BY DEF Creator, CreatorMove, FreshPc
  <2>2. /\ \A q \in Proc \ {First} : pc'[q] \notin FreshPc
        /\ pc'[First] \notin HeirPc
    BY <1>2, <1>3 DEF FreshPc, HeirPc
  <2>3. /\ bound' = {First} /\ pc'[First] \notin {"none", "bind"}
        /\ listening' = IF pc'[First] = "listen" THEN {} ELSE {First}
        /\ tcpBound' = IF pc'[First] \in FreshPc THEN {} ELSE {First}
    BY DEF Creator, CreatorMove, FreshPc, OpeningPc
  <2>4. /\ pc'[First] \in {"fresh", "tcpbind"} => sock'[First].monitoring
        /\ pc'[First] = "tcpbind" => sock'[First].version = status'.version
    BY DEF Creator, CreatorMove
  <2> QED
    BY <2>1, <2>2, <2>3, <2>4 DEF Creator, OpeningPc
<1>5. pc'[First] = "user" =>
         /\ pc[First] = "tcpbind" /\ UNCHANGED <<sock, status>>
         /\ sock[First].comfd = Com(First) /\ sock[First].shadowfd = Tcp(First)
         /\ sock[First].monitoring /\ sock[First].version = status.version
  BY DEF CreatorMove, Creator, FreshPc
<1>6. Unopened'
  BY <1>1, <1>2, <1>3, <1>5 DEF Unopened, OpeningPc
<1>7. Newcomers'
  <2>1. \A q \in Proc : sock'[q].fds = {} /\ sock'[q].comfds = {} /\ ~sock'[q].locked
    BY <1>1, <1>2 DEF CreatorMove, Newcomers
  <2>2. \A q \in Proc : pc'[q] \notin EventPc \cup {"accept", "inherit2", "version"}
    BY <1>2, <1>3 DEF EventPc, FreshPc
  <2>3. pc'[First] = "user" =>
            sock'[First].monitoring /\ sock'[First].version <= status'.version + 1
    BY <1>5 DEF TypeOK, StatusType
  <2> QED
    BY <1>2, <2>1, <2>2, <2>3 DEF Newcomers
<1>8. Leavers'
  <2>1. \A q \in Proc : pc'[q] \notin {"exit", "killpg"}
    BY <1>2, <1>3 DEF FreshPc
  <2> QED
    BY <2>1 DEF Leavers
<1> QED
  BY <1>4, <1>6, <1>7, <1>8

-----------------------------------------------------------------------------
(* Forks and ends.                                                          *)

LEMMA ForkGroup ==
    ASSUME TypeOK, CountInv, ~LateFork, NEW p \in Proc, NEW q \in Proc, Fork(p, q),
           Creator, Unopened, Newcomers, Served, Leavers
    PROVE  Creator' /\ Unopened' /\ Newcomers' /\ Leavers'
<1> USE DEF callVars, channelVars, clientVars, listenerVars
<1>1. /\ pc[p] = "user" /\ pc[q] = "none" /\ Pgid[q] = Pgid[p] /\ q \notin Binder
      /\ ~live[p] /\ ~live[q] /\ UNCHANGED <<live, status, bound, listening, tcpBound>>
      /\ \A r \in Proc : pc'[r] = IF r = q THEN "user" ELSE pc[r]
      /\ \A r \in Proc : sock'[r] = IF r = q THEN sock[p] ELSE sock[r]
  BY DEF Fork, Goto, TypeOK, CountInv, EarlyUncounted
<1>2. First \in Proc /\ First # q
  BY <1>1, RolesAssumption
<1>3. Creator'
  BY <1>1, <1>2 DEF Creator, FreshPc
<1>4. Unopened'
  BY <1>1, <1>2 DEF Unopened
<1>5. Newcomers'
  BY <1>1 DEF Newcomers, EventPc
<1>6. Leavers'
  <2>1. \A r \in Proc \ {q} : (Doomed(r) => Doomed(r)') /\ (Alive(r)' => Alive(r))
    BY <1>1 DEF Doomed, Alive
  <2>2. Doomed(p) => Doomed(q)'
    BY <1>1 DEF Doomed
  <2>3. Alive(p)
    BY <1>1 DEF Alive
  <2>4. \A r \in Proc : pc'[r] \in {"exit", "killpg"} => r # q /\ pc[r] = pc'[r]
    BY <1>1
  <2> QED
    BY <1>1, <2>1, <2>2, <2>3, <2>4 DEF Leavers
<1> QED
  BY <1>3, <1>4, <1>5, <1>6

LEMMA DeathGroup ==
    ASSUME TypeOK, NEW D \in SUBSET Proc, Die(D), \E p \in D : live[p],
           \A p \in D : Serves(p), UNCHANGED <<status, bound, listening, tcpBound>>,
           Creator, Unopened, Newcomers, Served, Leavers
    PROVE  Creator' /\ Unopened' /\ Newcomers' /\ Leavers'
<1>1. /\ UNCHANGED live
      /\ \A q \in Proc : pc'[q] = IF q \in D THEN "dead" ELSE pc[q]
      /\ \A q \in Proc : sock'[q] = IF q \in D THEN NoSock ELSE sock[q]
  BY DEF Die
<1>2. First \in Proc /\ pc[First] \notin OpeningPc
  BY BeforeOpening, RolesAssumption
<1>3. NoSock.fds = {} /\ NoSock.comfds = {} /\ ~NoSock.locked
  BY DEF NoSock
<1>4. Creator'
  BY <1>1, <1>2 DEF Creator, OpeningPc, FreshPc, HeirPc
<1>5. Unopened'
  BY <1>1 DEF Unopened
<1>6. Newcomers'
  BY <1>1, <1>3 DEF Newcomers, EventPc
<1>7. Leavers'
  <2>1. \A r \in Proc \ D : (Doomed(r) => Doomed(r)') /\ (Alive(r)' => Alive(r))
    BY <1>1 DEF Doomed, Alive
  <2>2. \A r \in D : ~Alive(r)'
    BY <1>1 DEF Alive
  <2>3. \A r \in Proc : pc'[r] \in {"exit", "killpg"} => r \notin D /\ pc[r] = pc'[r]
    BY <1>1
  <2> QED
    BY <1>1, <2>1, <2>2, <2>3 DEF Leavers
<1> QED
  BY <1>4, <1>5, <1>6, <1>7

(* When the last worker leaves, every other process of its group is an      *)
(* uncounted child before its first event call, or leaves itself.           *)
LEMMA LastLeaves ==
    ASSUME TypeOK, IsFiniteSet(Proc), CountInv, InsideLive, Lineage, Newcomers, Leavers,
           Acceptors, NEW p \in Proc, pc[p] = "exit", LastWorker(p),
           NEW q \in Proc, Alive(q), Pgid[q] = Pgid[p]
    PROVE  Doomed(q)
<1>1. p \in Members(Pgid[p]) /\ Pgid[p] \in Group
  BY DEF Members, Alive, Group
<1>2. live[p] /\ Serves(p)
  BY DEF InsideLive, EventPc, Serves
<1>3. /\ sock[p].fds = {} /\ sock[p].version < status.version
      /\ sock[p].comfds = {} /\ ~sock[p].monitoring
  BY DEF Leavers, Acceptors
<1>4. CASE \E r \in Members(Pgid[p]) : pc[r] = "killpg"
  BY <1>4 DEF Members, Leavers
<1>5. CASE q = p
  BY <1>3, <1>5 DEF Doomed
<1>6. CASE q # p /\ \A r \in Members(Pgid[p]) : pc[r] # "killpg"
  <2>1. Cardinality(LiveMembers(Pgid[p])) = 1
    BY <1>1, <1>6 DEF CountInv, Accurate, LastWorker
  <2>2. p \in LiveMembers(Pgid[p])
    BY <1>1, <1>2 DEF LiveMembers
  <2>3. PICK r : LiveMembers(Pgid[p]) = {r}
    BY <2>1, LiveFinite, FS_Singleton
  <2>4. ~live[q]
    BY <1>6, <2>2, <2>3 DEF LiveMembers, Members
  <2>5. pc[q] \notin BindPc \cup EventPc \cup {"accept", "none", "dead"}
    <3>1. pc[q] \notin BindPc
      BY <1>6 DEF Lineage
    <3>2. pc[q] \notin {"none", "dead"}
      BY DEF Alive
    <3> QED
      BY <2>4, <3>1, <3>2 DEF Newcomers
  <2>6. pc[q] = "user"
    BY <2>5 DEF TypeOK, PcType, AppPc
  <2>7. Serves(q) /\ sock[q].version = sock[p].version
    BY <1>2, <1>6, <2>6 DEF Lineage, Serves, AppPc
  <2>8. sock[q].fds = {} /\ sock[q].comfds = {}
    BY <2>4 DEF Newcomers
  <2> QED
    BY <1>3, <2>4, <2>6, <2>7, <2>8 DEF Doomed
<1> QED
  BY <1>4, <1>5, <1>6

(* Who may be killed by whoever is at the end of dsu_terminate.             *)
LEMMA KilledDoomed ==
    ASSUME Leavers, NEW p \in Proc, pc[p] = "killpg"
    PROVE  /\ p \in Killed(p) /\ Killed(p) \subseteq Proc
           /\ \A q \in Killed(p) : Doomed(q) /\ Serves(q)
BY DEF Leavers, Killed, Alive, Doomed, Serves, EventPc, AppPc

LEMMA EndGroup ==
    ASSUME TypeOK, IsFiniteSet(Proc), CountInv, InsideLive, Lineage, Acceptors,
           NEW p \in Proc, Terminate(p) \/ KillGroup(p),
           Creator, Unopened, Newcomers, Served, Leavers
    PROVE  Creator' /\ Unopened' /\ Newcomers' /\ Leavers'
<1> USE DEF callVars, channelVars, clientVars, listenerVars, semVars
<1>1. /\ pc[p] \in {"exit", "killpg"} /\ UNCHANGED <<status, bound, listening, tcpBound>>
  BY DEF Terminate, KillGroup
<1>2. live[p] /\ Serves(p)
  BY <1>1 DEF InsideLive, Serves, EventPc
<1>3. CASE Die({p})
  BY <1>1, <1>2, <1>3, DeathGroup
<1>4. CASE KillGroup(p)
  <2>1. pc[p] = "killpg" /\ Die(Killed(p))
    BY <1>4 DEF KillGroup
  <2> QED
    BY <1>1, <1>2, <2>1, KilledDoomed, DeathGroup
<1>5. CASE /\ pc[p] = "exit" /\ LastWorker(p) /\ Goto(p, "killpg")
           /\ UNCHANGED <<live, sock>>
  <2>1. \A q \in Proc : pc'[q] = IF q = p THEN "killpg" ELSE pc[q]
    BY <1>5 DEF Goto, TypeOK
  <2>2. First \in Proc /\ pc[First] \notin OpeningPc
    BY <1>2, BeforeOpening, RolesAssumption
  <2>3. Creator'
    BY <1>1, <1>5, <2>1, <2>2 DEF Creator, OpeningPc, FreshPc, HeirPc
  <2>4. Unopened'
    BY <1>2, <1>5 DEF Unopened
  <2>5. Newcomers'
    BY <1>1, <1>2, <1>5, <2>1 DEF Newcomers, EventPc
  <2>6. \A q \in Proc : Alive(q) /\ Pgid[q] = Pgid[p] => Doomed(q)
    BY <1>5, LastLeaves
  <2>7. \A q \in Proc : Doomed(q) => Doomed(q)'
    BY <1>1, <1>5, <2>1 DEF Doomed
  <2>8. \A q \in Proc : Alive(q)' <=> Alive(q)
    BY <1>1, <2>1 DEF Alive
  <2>9. Leavers'
    BY <1>1, <1>5, <2>1, <2>6, <2>7, <2>8 DEF Leavers
  <2> QED
    BY <2>3, <2>4, <2>5, <2>9
<1> QED
  BY <1>3, <1>4, <1>5 DEF Terminate, KillGroup

-----------------------------------------------------------------------------
(* The internal connections, with forks and killed groups.                  *)

LEMMA ForkService ==
    ASSUME TypeOK, CountInv, ServiceInv, Newcomers, ~LateFork,
           NEW p \in Proc, NEW q \in Proc, Fork(p, q)
    PROVE  ServiceInv'
<1> USE DEF ServiceInv, callVars, channelVars, clientVars, listenerVars
<1>1. /\ pc[p] = "user" /\ pc[q] = "none" /\ ~live[p]
      /\ UNCHANGED <<peer, request, replies, reset, backlog, listening>>
      /\ \A r \in Proc : pc'[r] = IF r = q THEN "user" ELSE pc[r]
      /\ \A r \in Proc : sock'[r] = IF r = q THEN sock[p] ELSE sock[r]
  BY DEF Fork, Goto, TypeOK
<1>2. sock[p].comfds = {} /\ sock[q].comfds = {}
  BY <1>1 DEF Newcomers, Acceptors, Serves, EventPc, AppPc
<1>3. \A r \in Proc : sock'[r].comfds = sock[r].comfds
  BY <1>1, <1>2
<1>4. \A r \in Proc : Serves(r)' <=> Serves(r) \/ r = q
  BY <1>1 DEF Serves, EventPc, AppPc
<1>5. \A r \in Proc : Requesting(r)' <=> Requesting(r)
  BY <1>1 DEF Requesting
<1>6. Serves(p)
  BY <1>1 DEF Serves, AppPc
<1>7. Heirs'
  BY <1>1, <1>4, <1>6 DEF Heirs, Listener
<1>8. Acceptors'
  BY <1>1, <1>2, <1>3, <1>4 DEF Acceptors, Listener
<1>9. Waiting'
  <2>1. \A fd : Open(fd)' => Open(fd)
    BY <1>1 DEF Open, Alive
  <2>2. \A c \in Proc : Unserved(c) => Unserved(c)'
    BY <1>1, <1>3, <2>1 DEF Unserved
  <2>3. \A c \in Proc : pc[c] = "recv1" => pc'[c] = "recv1"
    BY <1>1
  <2> QED
    BY <1>1, <1>3, <1>5, <2>2, <2>3 DEF Waiting
<1>10. TwoReplies'
  <2>1. \A c \in Proc : /\ pc'[c] \in {"recv1", "recv2"} <=> pc[c] \in {"recv1", "recv2"}
                        /\ pc[c] \in {"recv1", "recv2"} => pc'[c] = pc[c]
                        /\ pc'[c] = "reply2" => pc[c] = "reply2"
    BY <1>1
  <2> QED
    BY <1>1, <2>1 DEF TwoReplies, HalfAnswered, Listener
<1> QED
  BY <1>7, <1>8, <1>9, <1>10

LEMMA DeathsService ==
    ASSUME TypeOK, ServiceInv, NEW D \in SUBSET Proc, Die(D),
           \A p \in D : Serves(p) /\ sock[p].comfds = {},
           UNCHANGED <<listening, backlog>>
    PROVE  ServiceInv'
<1> USE DEF ServiceInv
<1>1. /\ \A q \in Proc : pc'[q] = IF q \in D THEN "dead" ELSE pc[q]
      /\ \A q \in Proc : sock'[q] = IF q \in D THEN NoSock ELSE sock[q]
      /\ \A q \in Proc : peer'[q] = IF q \in D THEN None ELSE peer[q]
      /\ UNCHANGED request
  BY DEF Die
<1>2. \A q \in D : replies[q] = <<>> /\ ~Requesting(q)
  BY DEF TwoReplies, Requesting, Serves, EventPc, AppPc
<1>3. /\ \A q \in Proc : replies'[q] = replies[q]
      /\ reset' = {}
  BY <1>2 DEF Die, TwoReplies
<1>4. NoSock.comfds = {} /\ NoSock.comfd = None /\ NoSock.shadowfd = None
  BY DEF NoSock
<1>5. \A c \in Proc : Requesting(c)' <=> Requesting(c)
  BY <1>1, <1>2 DEF Requesting
<1>6. \A q \in Proc : /\ Serves(q)' => Serves(q) /\ q \notin D
                      /\ Serves(q) => Serves(q)' \/ q \in D
                      /\ sock'[q].comfds = sock[q].comfds
  BY <1>1, <1>4 DEF Serves, EventPc, AppPc
<1>7. Heirs'
  BY <1>1, <1>6 DEF Heirs, Listener
<1>8. Acceptors'
  BY <1>1, <1>4, <1>6 DEF Acceptors, Listener
<1>9. Waiting'
  <2>1. \A fd \in Fd : Open(fd)' => Open(fd)
    BY <1>1, <1>3, <1>4, NoneAssumption DEF Open, Alive
  <2>2. \A l \in Proc : Com(l) \in Fd
    BY DEF Com, Fd
  <2>3. \A c \in Proc : ~Unserved(c)' => ~Unserved(c)
    BY <1>6, <2>1, <2>2 DEF Unserved
  <2>4. \A c \in Proc : pc[c] = "recv1" => pc'[c] = "recv1"
    BY <1>1 DEF Serves, EventPc, AppPc
  <2>5. \A q, c \in Proc : peer'[q] = c => peer[q] = c
    BY <1>1, NoneAssumption
  <2> QED
    BY <1>1, <1>5, <1>6, <2>3, <2>4, <2>5 DEF Waiting
<1>10. TwoReplies'
  <2>1. \A c \in Proc : /\ pc'[c] \in {"recv1", "recv2"} <=> pc[c] \in {"recv1", "recv2"}
                        /\ pc[c] \in {"recv1", "recv2"} => pc'[c] = pc[c]
                        /\ pc'[c] = "reply2" => pc[c] = "reply2"
    BY <1>1 DEF Serves, EventPc, AppPc
  <2>2. \A q, c \in Proc : peer'[q] = c => peer[q] = c
    BY <1>1, NoneAssumption
  <2> QED
    BY <1>3, <2>1, <2>2 DEF TwoReplies, HalfAnswered, Listener
<1> QED
  BY <1>7, <1>8, <1>9, <1>10

LEMMA GroupEndService ==
    ASSUME TypeOK, SocketInv, ServiceInv, Leavers,
           NEW p \in Proc, Terminate(p) \/ KillGroup(p)
    PROVE  ServiceInv'
<1> USE DEF callVars, channelVars, listenerVars
<1>1. pc[p] \in {"exit", "killpg"} /\ UNCHANGED <<listening, backlog>>
  BY DEF Terminate, KillGroup
<1>2. Serves(p) /\ sock[p].comfds = {} /\ ~sock[p].monitoring
  BY <1>1 DEF ServiceInv, Acceptors, Serves, EventPc
<1>3. CASE Die({p})
  BY <1>1, <1>2, <1>3, DeathsService
<1>4. CASE KillGroup(p)
  <2>1. pc[p] = "killpg" /\ Die(Killed(p))
    BY <1>4 DEF KillGroup
  <2>2. \A q \in Killed(p) : Serves(q) /\ sock[q].comfds = {}
    BY <2>1, KilledDoomed DEF Doomed
  <2>3. Killed(p) \subseteq Proc
    BY DEF Killed
  <2> QED
    BY <1>1, <2>1, <2>2, <2>3, DeathsService
<1>5. CASE /\ pc[p] = "exit" /\ Goto(p, "killpg")
           /\ UNCHANGED <<live, sock, callVars, channelVars>>
  <2>1. pc'[p] = "killpg" /\ \A q \in Proc \ {p} : pc'[q] = pc[q]
    BY <1>5 DEF Goto, TypeOK
  <2>2. Quiet(p)
    BY <1>1, <1>2, <1>5, <2>1 DEF Quiet, QuietMove, QuietSock, Serves, EventPc, AppPc
  <2> QED
    BY <2>2, QuietService
<1> QED
  BY <1>3, <1>4, <1>5 DEF Terminate, KillGroup

LEMMA GroupService ==
    ASSUME TypeOK, SocketInv, ServiceInv, CountInv, Newcomers, Leavers,
           NoCrashes, ~LateFork, [Step]_vars
    PROVE  ServiceInv'
<1>1. MaxCrashes = 0 /\ ~ScanFaults
  BY DEF NoCrashes
<1>2. ASSUME NEW p \in Proc, AppStep(p)
      PROVE  ServiceInv'
  BY <1>2, HandleUndisturbed, QuietService DEF AppStep, Undisturbed
<1>3. ASSUME NEW p \in Proc, EventStep(p)
      PROVE  ServiceInv'
  <2>1. ~ScanFault(p)
    BY <1>1 DEF ScanFault
  <2> QED
    BY <1>1, <1>3, <2>1, EventUndisturbed, QuietService, GroupEndService, HandleService
       DEF EventStep, Undisturbed
<1>4. ASSUME NEW p \in Proc, Interrupt(p)
      PROVE  ServiceInv'
  BY <1>4, EventUndisturbed, QuietService DEF Undisturbed
<1>5. ASSUME NEW p \in Proc, Crash(p)
      PROVE  FALSE
  BY <1>1, <1>5 DEF Crash, TypeOK
<1>6. ASSUME NEW p \in Proc, NEW q \in Proc, Fork(p, q)
      PROVE  ServiceInv'
  BY <1>6, ForkService
<1>7. ASSUME NEW c \in Client, ClientConnect(c)
      PROVE  ServiceInv'
  BY <1>7, UnmovedService DEF ClientConnect, callVars, channelVars, listenerVars
<1>8. CASE UNCHANGED vars
  BY <1>8, UnmovedService DEF vars, callVars, channelVars, listenerVars
<1> QED
  BY <1>2, <1>3, <1>4, <1>5, <1>6, <1>7, <1>8, BindService, StartService
     DEF Step, ProcessStep, Environment

-----------------------------------------------------------------------------
(* Once somebody is live, somebody can be updated.                          *)

(* Who ends or is killed is of a version below the published one.           *)
LEMMA GroupEndKeeps ==
    ASSUME TypeOK, TypeOK', ServiceInv, Leavers, NEW p \in Proc, Terminate(p) \/ KillGroup(p),
           NEW u \in Proc, Updatable(u)
    PROVE  Updatable(u)'
<1> USE DEF callVars, channelVars, clientVars, listenerVars
<1>1. pc[p] \in {"exit", "killpg"} /\ UNCHANGED <<listening, tcpBound, status>>
  BY DEF Terminate, KillGroup
<1>2. u # p
  BY <1>1 DEF ServiceInv, Acceptors, Updatable, InService
<1>3. ~Doomed(u)
  <2>1. sock[u].version \in Nat /\ status.version \in Nat /\ sock[u].version >= status.version
    BY DEF TypeOK, StatusType, SockType, Updatable, InService
  <2> QED
    BY <2>1 DEF Doomed
<1>4. pc[p] = "killpg" => u \notin Killed(p)
  BY <1>3, KilledDoomed
<1>5. pc'[u] = pc[u] /\ sock'[u] = sock[u] /\ live' = live
  <2>1. CASE Die({p})
    BY <1>2, <2>1 DEF Die
  <2>2. CASE Goto(p, "killpg") /\ UNCHANGED <<live, sock>>
    BY <1>2, <2>2 DEF Goto, TypeOK
  <2>3. CASE KillGroup(p)
    BY <1>4, <2>3 DEF KillGroup, Die
  <2> QED
    BY <2>1, <2>2, <2>3 DEF Terminate
<1>6. status'.version <= status.version
  BY <1>1 DEF TypeOK, StatusType
<1> QED
  BY <1>1, <1>5, <1>6, StaysUpdatable DEF Updatable, InService, Serves, SameSockets

LEMMA ForkKeeps ==
    ASSUME TypeOK, TypeOK', NEW p \in Proc, NEW q \in Proc, Fork(p, q),
           NEW u \in Proc, Updatable(u)
    PROVE  Updatable(u)'
<1> USE DEF callVars, channelVars, clientVars, listenerVars
<1>1. pc[q] = "none" /\ UNCHANGED <<listening, tcpBound, status>>
  BY DEF Fork
<1>2. u # q
  BY <1>1 DEF Updatable, InService, Serves, EventPc, AppPc
<1>3. pc'[u] = pc[u] /\ sock'[u] = sock[u] /\ live'[u] = live[u]
  BY <1>2 DEF Fork, Goto, TypeOK
<1>4. status'.version <= status.version
  BY <1>1 DEF TypeOK, StatusType
<1> QED
  BY <1>1, <1>3, <1>4, StaysUpdatable DEF Updatable, InService, Serves, SameSockets

(* The group version of UpdatableKept.                                      *)
LEMMA GroupKeeps ==
    ASSUME TypeOK, TypeOK', LockInv, SocketInv, ServiceInv, Leavers, NoCrashes, Step,
           NEW u \in Proc, Updatable(u)
    PROVE  \E q \in Proc : Updatable(q)'
<1> USE DEF callVars, channelVars, clientVars, listenerVars, semVars
<1>1. MaxCrashes = 0 /\ ~ScanFaults /\ status \in StatusType
  BY DEF NoCrashes, TypeOK
<1>2. (UNCHANGED status) => status'.version <= status.version
  BY <1>1 DEF StatusType
<1>3. ASSUME NEW p \in Proc, AppStep(p)
      PROVE  Updatable(u)'
  <2>1. Undisturbed(p) /\ UNCHANGED status
    BY <1>3, HandleUndisturbed DEF AppStep, Accept, CloseClient
  <2> QED
    BY <1>2, <2>1, UndisturbedKeeps
<1>4. ASSUME NEW p \in Proc,
             \/ EventCall(p) \/ QuitStore(p) \/ TerminationDetection(p) \/ PreEvent(p)
             \/ Wake(p) \/ Timeout(p) \/ PollTimeout(p) \/ Interrupt(p) \/ Post(p)
      PROVE  Updatable(u)'
  <2>1. Undisturbed(p)
    BY <1>4, EventUndisturbed
  <2>2. CASE QuitStore(p)
    <3>1. status'.version <= status.version
      BY <1>1, <2>2 DEF QuitStore, StatusType
    <3> QED
      BY <2>1, <3>1, UndisturbedKeeps
  <2>3. CASE ~QuitStore(p)
    <3>1. UNCHANGED status
      BY <1>4, <2>3 DEF EventCall, TerminationDetection, PreEvent, Wake, Timeout,
                        PollTimeout, Interrupt, Post
    <3> QED
      BY <1>2, <2>1, <3>1, UndisturbedKeeps
  <2> QED
    BY <2>2, <2>3
<1>5. ASSUME NEW p \in Proc, EventStep(p)
      PROVE  \E q \in Proc : Updatable(q)'
  <2>1. ~ScanFault(p)
    BY <1>1 DEF ScanFault
  <2> QED
    BY <1>4, <1>5, <2>1, MonitorKeeps, GroupEndKeeps, HandleKeeps DEF EventStep
<1>6. ASSUME NEW p \in Proc, Crash(p)
      PROVE  FALSE
  BY <1>1, <1>6 DEF Crash, TypeOK
<1>7. ASSUME NEW c \in Client, ClientConnect(c)
      PROVE  Updatable(u)'
  BY <1>2, <1>7, StaysUpdatable
     DEF ClientConnect, Updatable, InService, Serves, SameSockets
<1> QED
  BY <1>3, <1>4, <1>5, <1>6, <1>7, BindKeeps, ForkKeeps DEF Step, ProcessStep, Environment

(* The first event call is made by the creator of the port or a worker that *)
(* it forked.                                                               *)
LEMMA FirstCall ==
    ASSUME TypeOK, Creator, Unopened, NEW p \in Proc, EventCall(p), \A q \in Proc : ~live[q]
    PROVE  Updatable(p)'
<1> USE DEF callVars, channelVars, clientVars, listenerVars
<1>1. /\ pc[p] = "user" /\ pc'[p] = "monitor" /\ live'[p]
      /\ UNCHANGED <<sock, status, listening, tcpBound>>
  BY DEF EventCall, Goto, TypeOK
<1>2. /\ pc[First] = "user"
      /\ sock[p].comfd = Com(First) /\ sock[p].shadowfd = Tcp(First)
      /\ sock[p].monitoring /\ sock[p].version = status.version
  BY <1>1 DEF Unopened
<1>3. tcpBound = {First} /\ listening = {First}
  BY <1>2 DEF Creator, OpeningPc, FreshPc
<1>4. status.version >= status.version
  BY DEF TypeOK, StatusType
<1>5. Serves(p)'
  BY <1>1 DEF Serves, EventPc
<1>6. /\ \E t \in tcpBound' : sock'[p].shadowfd = Tcp(t)
      /\ \E l \in listening' : sock'[p].comfd = Com(l)
      /\ live'[p] /\ sock'[p].monitoring /\ sock'[p].version >= status'.version
  BY <1>1, <1>2, <1>3, <1>4
<1> QED
  BY <1>5, <1>6 DEF Updatable, InService

(* Only an event call makes a process live.                                 *)
LEMMA WhoActivates ==
    ASSUME TypeOK, CountInv, NoCrashes, ~LateFork, Step, NEW q \in Proc, live'[q], ~live[q]
    PROVE  EventCall(q)
<1> USE DEF callVars, channelVars, clientVars, listenerVars, semVars
<1>1. live \in [Proc -> BOOLEAN]
  BY DEF TypeOK
<1>2. live' # live
  OBVIOUS
<1>3. ASSUME NEW p \in Proc, BindStep(p)
      PROVE  UNCHANGED live
  <2>1. CASE SendPort(p) \/ TcpBind(p)
    BY <2>1 DEF SendPort, TcpBind, Die
  <2> QED
    BY <1>3, <2>1 DEF BindStep, MonitorBind, MonitorListen, Connect, ReadShadow, ReadComfd,
       InheritStatusSem, InheritFdSem, InheritVersion, FreshStatusSem, FreshFdSem, FreshStatus
<1>4. ASSUME NEW p \in Proc, HandleStep(p)
      PROVE  UNCHANGED live
  <2>1. CASE ReplyShadow(p) \/ ReplyComfd(p)
    BY <2>1 DEF ReplyShadow, ReplyComfd, WriteKills, Die
  <2> QED
    BY <1>4, <2>1 DEF HandleStep, HandleAccept, HandleClose, HandleRace, HandleError,
       HandleRequest, CountLoad, CountStore
<1>5. ASSUME NEW p \in Proc, EventStep(p)
      PROVE  EventCall(p) \/ UNCHANGED live
  <2>1. CASE Terminate(p) \/ KillGroup(p) \/ ScanFault(p)
    BY <2>1 DEF Terminate, KillGroup, ScanFault, Die
  <2> QED
    BY <1>4, <1>5, <2>1 DEF EventStep, Monitor, QuitStore, TerminationDetection, PreEvent,
       Wake, Timeout, PollTimeout, Post
<1>6. ASSUME NEW p \in Proc, AppStep(p)
      PROVE  UNCHANGED live
  BY <1>6 DEF AppStep, Accept, CloseClient
<1>7. ASSUME Environment
      PROVE  UNCHANGED live
  <2>1. ASSUME NEW p \in Proc, Start(p) \/ Interrupt(p) \/ Crash(p)
        PROVE  UNCHANGED live
    BY <2>1 DEF Start, Interrupt, Crash, Die
  <2>2. ASSUME NEW p \in Proc, NEW r \in Proc, Fork(p, r)
        PROVE  UNCHANGED live
    <3>1. ~live[p] /\ ~live[r] /\ live' = [live EXCEPT ![r] = live[p]]
      BY <2>2 DEF Fork, CountInv, EarlyUncounted
    <3> QED
      BY <1>1, <3>1
  <2>3. ASSUME NEW c \in Client, ClientConnect(c)
        PROVE  UNCHANGED live
    BY <2>3 DEF ClientConnect
  <2> QED
    BY <1>7, <2>1, <2>2, <2>3 DEF Environment
<1>8. PICK p \in Proc : EventCall(p)
  BY <1>2, <1>3, <1>5, <1>6, <1>7 DEF Step, ProcessStep
<1>9. p = q
  BY <1>1, <1>8 DEF EventCall
<1> QED
  BY <1>8, <1>9

LEMMA ServedPreserved ==
    ASSUME TypeOK, TypeOK', LockInv, SocketInv, ServiceInv, CountInv, Creator, Unopened,
           Served, Leavers, NoCrashes, ~LateFork, [Step]_vars
    PROVE  Served'
<1>1. CASE Step /\ \E q \in Proc : live[q]
  BY <1>1, GroupKeeps DEF Served
<1>2. CASE Step /\ \A q \in Proc : ~live[q]
  <2>1. \A q \in Proc : live'[q] => EventCall(q)
    BY <1>2, WhoActivates
  <2> QED
    BY <1>2, <2>1, FirstCall DEF Served
<1>3. CASE UNCHANGED vars
  BY <1>3 DEF vars, listenerVars, clientVars, Served, Updatable, InService, Serves
<1> QED
  BY <1>1, <1>2, <1>3

-----------------------------------------------------------------------------
(* No connection is lost between the listener and those who accept.         *)

LEMMA SameReached ==
    ASSUME Reached,
           \A c \in Proc : /\ Requesting(c)' => Requesting(c)
                           /\ sock[c].comfds \subseteq sock'[c].comfds,
           UNCHANGED backlog
    PROVE  Reached'
BY DEF Reached, Held

LEMMA QuietReached ==
    ASSUME NEW p \in Proc, Quiet(p), Reached
    PROVE  Reached'
<1> USE DEF Quiet
<1>1. \A c \in Proc : Requesting(c)' => Requesting(c)
  BY DEF QuietMove, Requesting, Serves, EventPc, AppPc
<1>2. \A c, q \in Proc : Requesting(c) /\ c \in sock[q].comfds => c \in sock'[q].comfds
  BY DEF QuietSock
<1> QED
  BY <1>1, <1>2 DEF Reached, Held

LEMMA BindReached ==
    ASSUME TypeOK, CountInv, SocketInv, Creator, Unopened, Newcomers, Served, Reached,
           NEW p \in Proc, BindStep(p)
    PROVE  Reached'
<1> USE DEF callVars, channelVars, clientVars, listenerVars
<1>1. CASE p = First
  <2>1. CreatorMove
    BY <1>1, CreatorFacts
  <2>2. \A c \in Proc : Requesting(c)' => Requesting(c)
    BY <2>1 DEF CreatorMove, Requesting
  <2>3. \A c \in Proc : sock'[c].comfds = sock[c].comfds
    BY <2>1 DEF CreatorMove
  <2>4. ~Connect(p)
    BY <1>1 DEF Connect, Creator, HeirPc
  <2>5. UNCHANGED backlog
    BY <2>4 DEF BindStep, MonitorBind, MonitorListen, SendPort, ReadShadow,
       ReadComfd, InheritStatusSem, InheritFdSem, InheritVersion, FreshStatusSem,
       FreshFdSem, FreshStatus, TcpBind
  <2> QED
    BY <2>2, <2>3, <2>5, SameReached
<1>2. CASE p # First
  <2>1. HeirMove(p)
    BY <1>2, HeirFacts
  <2>2. \A c \in Proc : sock'[c].comfds = sock[c].comfds
    BY <2>1 DEF HeirMove
  <2>3. CASE ~Connect(p)
    <3>1. UNCHANGED backlog
      BY <2>3 DEF BindStep, MonitorBind, MonitorListen, SendPort, ReadShadow,
         ReadComfd, InheritStatusSem, InheritFdSem, InheritVersion, FreshStatusSem,
         FreshFdSem, FreshStatus, TcpBind
    <3>2. Requesting(p)' => Requesting(p)
      <4>1. CASE SendPort(p) \/ ReadShadow(p) \/ ReadComfd(p)
        BY <4>1 DEF SendPort, ReadShadow, ReadComfd, Requesting
      <4>2. CASE ~(SendPort(p) \/ ReadShadow(p) \/ ReadComfd(p))
        <5>1. \E b \in {"listen", "connect", "sem1", "inherit2", "version", "user", "sem2",
                        "fresh", "tcpbind", "dead"} : pc'[p] = b
          <6>1. CASE TcpBind(p)
            BY <6>1 DEF TcpBind, Goto, Die, TypeOK
          <6> QED
            BY <2>3, <4>2, <6>1 DEF BindStep, MonitorBind, MonitorListen,
               InheritStatusSem, InheritFdSem, InheritVersion, FreshStatusSem,
               FreshFdSem, FreshStatus, Goto, TypeOK
        <5> QED
          BY <5>1 DEF Requesting
      <4> QED
        BY <4>1, <4>2
    <3>3. \A c \in Proc \ {p} : Requesting(c)' => Requesting(c)
      BY <2>1 DEF HeirMove, Requesting
    <3> QED
      BY <2>2, <3>1, <3>2, <3>3, SameReached
  <2>4. CASE Connect(p)
    <3>1. \E q \in Proc : live[q]
      BY <1>2, <2>4 DEF Connect, Unopened
    <3>2. listening = {First} /\ Open(Com(First)) /\ First \in Proc
      BY <3>1, ListenerOpen, RolesAssumption
    <3>3. backlog' = [backlog EXCEPT ![First] = Append(@, p)]
      BY <2>4, <3>2 DEF Connect
    <3>4. backlog[First] \in Seq(Proc) /\ backlog'[First] = Append(backlog[First], p)
      BY <3>2, <3>3 DEF TypeOK
    <3>5. ToSet(backlog'[First]) = ToSet(backlog[First]) \cup {p}
      BY <3>4, QueueSets
    <3>6. \A c \in Proc \ {p} : Requesting(c)' => Requesting(c)
      BY <2>1 DEF HeirMove, Requesting
    <3>7. Held(p)'
      BY <3>5 DEF Held
    <3>8. \A c \in Proc : Held(c) => Held(c)'
      BY <2>2, <3>5 DEF Held
    <3> QED
      BY <3>6, <3>7, <3>8 DEF Reached
  <2> QED
    BY <2>3, <2>4
<1> QED
  BY <1>1, <1>2

LEMMA TakenFirst ==
    ASSUME NEW S, NEW s \in Seq(S), s # <<>>
    PROVE  ToSet(s) = {Head(s)} \cup ToSet(Tail(s))
<1>1. /\ DOMAIN s = 1..Len(s) /\ Len(s) \in Nat \ {0} /\ Head(s) = s[1]
      /\ DOMAIN Tail(s) = 1..(Len(s) - 1)
      /\ \A i \in 1..(Len(s) - 1) : Tail(s)[i] = s[i + 1]
  OBVIOUS
<1>2. \A i \in DOMAIN s : i = 1 \/ (i - 1 \in DOMAIN Tail(s) /\ s[i] = Tail(s)[i - 1])
  BY <1>1
<1>3. \A i \in DOMAIN Tail(s) : i + 1 \in DOMAIN s /\ Tail(s)[i] = s[i + 1]
  BY <1>1
<1>4. 1 \in DOMAIN s
  BY <1>1
<1>5. ASSUME NEW i \in DOMAIN s
      PROVE  s[i] \in {Head(s)} \cup ToSet(Tail(s))
  BY <1>1, <1>2 DEF ToSet
<1>6. ASSUME NEW i \in DOMAIN Tail(s)
      PROVE  Tail(s)[i] \in ToSet(s)
  BY <1>3 DEF ToSet
<1>7. Head(s) \in ToSet(s)
  BY <1>1, <1>4 DEF ToSet
<1> QED
  BY <1>5, <1>6, <1>7 DEF ToSet

(* Who takes the connection out of the listener's backlog has it.           *)
LEMMA AcceptReached ==
    ASSUME TypeOK, ServiceInv, Creator, Reached, NEW p \in Proc, HandleAccept(p)
    PROVE  Reached'
<1> USE DEF callVars, channelVars, clientVars, listenerVars
<1>1. \A c \in Proc : Requesting(c)' <=> Requesting(c)
  BY DEF HandleAccept, Requesting
<1>2. CASE UNCHANGED <<backlog, sock>>
  BY <1>1, <1>2, SameReached
<1>3. ASSUME NEW l \in Proc, backlog[l] # <<>>,
             backlog' = [backlog EXCEPT ![l] = Tail(@)],
             sock' = [sock EXCEPT ![p].comfds = @ \cup {Head(backlog[l])}]
      PROVE  Reached'
  <2>1. l = First
    BY <1>3 DEF ServiceInv, Acceptors, Creator
  <2>2. backlog[l] \in Seq(Proc) /\ backlog'[First] = Tail(backlog[First])
    BY <1>3, <2>1 DEF TypeOK
  <2>3. ToSet(backlog[First]) = {Head(backlog[First])} \cup ToSet(backlog'[First])
    BY <1>3, <2>1, <2>2, TakenFirst
  <2>4. /\ sock'[p].comfds = sock[p].comfds \cup {Head(backlog[First])}
        /\ \A q \in Proc \ {p} : sock'[q] = sock[q]
    BY <1>3, <2>1 DEF TypeOK, SockType
  <2> QED
    BY <1>1, <2>3, <2>4 DEF Reached, Held
<1> QED
  BY <1>2, <1>3 DEF HandleAccept

LEMMA HandleReached ==
    ASSUME TypeOK, SocketInv, ServiceInv, Creator, Reached, NEW p \in Proc, HandleStep(p)
    PROVE  Reached'
<1> USE DEF callVars, channelVars, clientVars, listenerVars, semVars
<1>1. CASE \/ \E c \in Proc : HandleClose(p, c) \/ HandleRace(p, c)
           \/ CountLoad(p) \/ CountStore(p)
  BY <1>1, HandleUndisturbed, QuietReached DEF Undisturbed
<1>2. ASSUME NEW c \in Proc, HandleError(p, c) \/ HandleRequest(p, c)
      PROVE  Reached'
  <2>1. pc[p] = "handle" /\ Goto(p, pc'[p]) /\ UNCHANGED <<sock, backlog>> /\ Serves(p)'
    BY <1>2 DEF HandleError, HandleRequest, Takes, Goto, TypeOK, Serves, EventPc
  <2>2. \A q \in Proc : Requesting(q)' => Requesting(q)
    BY <2>1 DEF Goto, TypeOK, Requesting, Serves, EventPc, AppPc
  <2> QED
    BY <2>1, <2>2, SameReached
<1>3. CASE ReplyShadow(p) \/ ReplyComfd(p)
  <2>1. pc[p] \in {"reply1", "reply2"} /\ UNCHANGED backlog
    BY <1>3 DEF ReplyShadow, ReplyComfd
  <2>2. ~WriteKills(p, sock[p].shadowfd) /\ ~WriteKills(p, sock[p].comfd)
    BY <2>1, NoPipeBreaks DEF WriteKills
  <2>3. UNCHANGED sock /\ \E b \in {"handle", "reply2"} : Goto(p, b)
    BY <1>3, <2>2 DEF ReplyShadow, ReplyComfd, WriteFd
  <2>4. \A q \in Proc : Requesting(q)' => Requesting(q)
    BY <2>3 DEF Goto, TypeOK, Requesting
  <2> QED
    BY <2>1, <2>3, <2>4, SameReached
<1> QED
  BY <1>1, <1>2, <1>3, AcceptReached DEF HandleStep

LEMMA EndReached ==
    ASSUME TypeOK, ServiceInv, Leavers, Reached, NEW p \in Proc, Terminate(p) \/ KillGroup(p)
    PROVE  Reached'
<1> USE DEF callVars, channelVars, clientVars, listenerVars, semVars
<1>1. pc[p] \in {"exit", "killpg"} /\ UNCHANGED backlog
  BY DEF Terminate, KillGroup
<1>2. sock[p].comfds = {}
  BY <1>1 DEF ServiceInv, Acceptors
<1>3. ASSUME NEW D \in SUBSET Proc, Die(D), \A q \in D : sock[q].comfds = {}
      PROVE  Reached'
  <2>1. \A q \in Proc : Requesting(q)' => Requesting(q)
    BY <1>3 DEF Die, Requesting
  <2>2. \A q \in Proc : sock[q].comfds \subseteq sock'[q].comfds
    BY <1>3 DEF Die
  <2> QED
    BY <1>1, <2>1, <2>2, SameReached
<1>4. CASE Die({p})
  BY <1>2, <1>3, <1>4
<1>5. CASE KillGroup(p)
  <2>1. Killed(p) \in SUBSET Proc /\ Die(Killed(p)) /\ \A q \in Killed(p) : sock[q].comfds = {}
    BY <1>5, KilledDoomed DEF KillGroup, Doomed
  <2> QED
    BY <1>3, <2>1
<1>6. CASE Goto(p, "killpg") /\ UNCHANGED sock
  <2>1. \A q \in Proc : Requesting(q)' => Requesting(q)
    BY <1>6 DEF Goto, TypeOK, Requesting
  <2> QED
    BY <1>1, <1>6, <2>1, SameReached
<1> QED
  BY <1>4, <1>5, <1>6 DEF Terminate

LEMMA ReachedPreserved ==
    ASSUME TypeOK, CountInv, SocketInv, ServiceInv, Creator, Unopened, Newcomers, Served,
           Leavers, NoCrashes, ~LateFork, Reached, [Step]_vars
    PROVE  Reached'
<1> USE DEF callVars, channelVars, clientVars, listenerVars, semVars
<1>1. MaxCrashes = 0 /\ ~ScanFaults
  BY DEF NoCrashes
<1>2. ASSUME NEW p \in Proc, AppStep(p)
      PROVE  Reached'
  BY <1>2, HandleUndisturbed, QuietReached DEF AppStep, Undisturbed
<1>3. ASSUME NEW p \in Proc, EventStep(p)
      PROVE  Reached'
  <2>1. ~ScanFault(p)
    BY <1>1 DEF ScanFault
  <2> QED
    BY <1>3, <2>1, EventUndisturbed, QuietReached, EndReached, HandleReached
       DEF EventStep, Undisturbed
<1>4. ASSUME NEW p \in Proc, Interrupt(p)
      PROVE  Reached'
  BY <1>4, EventUndisturbed, QuietReached DEF Undisturbed
<1>5. ASSUME NEW p \in Proc, Crash(p)
      PROVE  FALSE
  BY <1>1, <1>5 DEF Crash, TypeOK
<1>6. ASSUME NEW p \in Proc, Start(p)
      PROVE  Reached'
  <2>1. \A q \in Proc : Requesting(q)' => Requesting(q)
    BY <1>6 DEF Start, Goto, TypeOK, Requesting
  <2>2. pc[p] = "none" /\ sock[p].comfds = {}
    BY <1>6 DEF Start, ServiceInv, Acceptors, Serves, EventPc, AppPc
  <2>3. \A q \in Proc : sock[q].comfds \subseteq sock'[q].comfds
    BY <1>6, <2>2 DEF Start, TypeOK
  <2> QED
    BY <1>6, <2>1, <2>3, SameReached DEF Start
<1>7. ASSUME NEW p \in Proc, NEW q \in Proc, Fork(p, q)
      PROVE  Reached'
  <2>1. \A r \in Proc : Requesting(r)' => Requesting(r)
    BY <1>7 DEF Fork, Goto, TypeOK, Requesting
  <2>2. pc[q] = "none" /\ sock[q].comfds = {}
    BY <1>7 DEF Fork, ServiceInv, Acceptors, Serves, EventPc, AppPc
  <2>3. \A r \in Proc : sock[r].comfds \subseteq sock'[r].comfds
    BY <1>7, <2>2 DEF Fork, TypeOK
  <2> QED
    BY <1>7, <2>1, <2>3, SameReached DEF Fork
<1>8. ASSUME NEW c \in Client, ClientConnect(c)
      PROVE  Reached'
  BY <1>8, SameReached DEF ClientConnect, Requesting
<1>9. CASE UNCHANGED vars
  BY <1>9, SameReached DEF vars, Requesting
<1> QED
  BY <1>2, <1>3, <1>4, <1>5, <1>6, <1>7, <1>8, <1>9, BindReached
     DEF Step, ProcessStep, Environment

-----------------------------------------------------------------------------
(* Every step preserves the invariant.                                      *)

LEMMA UnmovedGroup ==
    ASSUME Creator, Unopened, Newcomers, Leavers,
           UNCHANGED <<pc, live, sock, status, bound, listening, tcpBound>>
    PROVE  Creator' /\ Unopened' /\ Newcomers' /\ Leavers'
BY DEF Creator, Unopened, Newcomers, Leavers, Doomed, Alive

LEMMA GroupMoves ==
    ASSUME TypeOK, TypeOK', IsFiniteSet(Proc), OneBinder, ~LateFork, ~ConcurrentStart,
           NoCrashes, InsideLive, SocketInv, ServiceInv, CountInv, Lineage,
           Creator, Unopened, Newcomers, Served, Reached, Leavers, [Step]_vars
    PROVE  Creator' /\ Unopened' /\ Newcomers' /\ Leavers'
<1>1. MaxCrashes = 0 /\ ~ScanFaults /\ Acceptors
  BY DEF NoCrashes, ServiceInv
<1>2. ASSUME NEW p \in Proc, BindStep(p)
      PROVE  Creator' /\ Unopened' /\ Newcomers' /\ Leavers'
  <2>1. CASE p = First
    BY <1>2, <2>1, CreatorFacts, CreatorGroup
  <2>2. CASE p # First
    BY <1>2, <2>2, HeirFacts, HeirGroup
  <2> QED
    BY <2>1, <2>2
<1>3. ASSUME NEW p \in Proc, EventStep(p)
      PROVE  Creator' /\ Unopened' /\ Newcomers' /\ Leavers'
  <2>1. ~ScanFault(p)
    BY <1>1 DEF ScanFault
  <2>2. CASE Terminate(p) \/ KillGroup(p)
    BY <1>1, <2>2, EndGroup
  <2>3. CASE ~(Terminate(p) \/ KillGroup(p))
    <3>1. Looping(p)
      BY <1>3, <2>1, <2>3, EventLooping, HandleLooping DEF EventStep
    <3> QED
      BY <3>1, LoopingGroup
  <2> QED
    BY <2>2, <2>3
<1>4. ASSUME NEW p \in Proc, AppStep(p) \/ Interrupt(p)
      PROVE  Creator' /\ Unopened' /\ Newcomers' /\ Leavers'
  <2>1. Looping(p)
    BY <1>4, EventLooping, HandleLooping
  <2> QED
    BY <2>1, LoopingGroup
<1>5. ASSUME NEW p \in Proc, Crash(p)
      PROVE  FALSE
  BY <1>1, <1>5 DEF Crash, TypeOK
<1>6. ASSUME NEW p \in Proc, Start(p)
      PROVE  Creator' /\ Unopened' /\ Newcomers' /\ Leavers'
  BY <1>6, StartGroup
<1>7. ASSUME NEW p \in Proc, NEW q \in Proc, Fork(p, q)
      PROVE  Creator' /\ Unopened' /\ Newcomers' /\ Leavers'
  BY <1>7, ForkGroup
<1>8. ASSUME NEW c \in Client, ClientConnect(c)
      PROVE  Creator' /\ Unopened' /\ Newcomers' /\ Leavers'
  BY <1>8, UnmovedGroup DEF ClientConnect, listenerVars
<1>9. CASE UNCHANGED vars
  BY <1>9, UnmovedGroup DEF vars, listenerVars, clientVars
<1> QED
  BY <1>2, <1>3, <1>4, <1>5, <1>6, <1>7, <1>8, <1>9 DEF Step, ProcessStep, Environment

LEMMA GroupPreserved ==
    ASSUME GroupPremises, GroupState, [Step]_vars
    PROVE  GroupState'
<1>1. /\ IsFiniteSet(Proc) /\ OneBinder /\ ~LateFork /\ ~ConcurrentStart /\ NoCrashes
      /\ MaxCrashes = 0 /\ ~ScanFaults
  BY DEF GroupPremises, NoCrashes
<1>2. /\ TypeOK /\ LockInv /\ InsideLive /\ SocketInv /\ ServiceInv /\ CountInv /\ Lineage
      /\ Creator /\ Unopened /\ Newcomers /\ Served /\ Reached /\ Leavers
  BY DEF GroupState, IInv, LockInv, GroupInv
<1>3. TypeOK' /\ LockInv'
  BY <1>1, <1>2, TypesPreserved, LocksPreserved
<1>4. SocketInv'
  BY <1>2, ServedSockets
<1>5. ServiceInv'
  BY <1>1, <1>2, GroupService
<1>6. CountInv'
  <2>1. Unbroken
    BY <1>2, NoPipeBreaks DEF Unbroken
  <2> QED
    BY <1>1, <1>2, <2>1, CountPreserved
<1>7. Lineage'
  <2>1. BinderFirst
    BY <1>2 DEF CountInv
  <2> QED
    BY <1>1, <1>2, <2>1, LineagePreserved
<1>8. Creator' /\ Unopened' /\ Newcomers' /\ Leavers'
  BY <1>1, <1>2, <1>3, GroupMoves
<1>9. Served'
  BY <1>1, <1>2, <1>3, ServedPreserved
<1>10. Reached'
  BY <1>1, <1>2, ReachedPreserved
<1> QED
  BY <1>3, <1>4, <1>5, <1>6, <1>7, <1>8, <1>9, <1>10 DEF GroupState, IInv, GroupInv

LEMMA InitialGroup == Init => GroupState
<1> SUFFICES ASSUME Init PROVE GroupState
  OBVIOUS
<1>1. IInv /\ SocketInv /\ ServiceInv /\ CountInv /\ Lineage
  BY InitialTypes, InitialLocks, InitialSockets, InitialService, InitialCount, InitialLineage
     DEF IInv
<1>2. /\ \A p \in Proc : /\ pc[p] = "none" /\ ~live[p] /\ sock[p].fds = {}
                         /\ sock[p].comfds = {} /\ ~sock[p].locked
      /\ bound = {} /\ listening = {} /\ tcpBound = {} /\ First \in Proc
  BY RolesAssumption DEF Init, NoSock
<1>3. Creator
  BY <1>2 DEF Creator, FreshPc, HeirPc, OpeningPc
<1>4. Unopened /\ Newcomers /\ Served /\ Leavers
  BY <1>2 DEF Unopened, Newcomers, Served, Leavers, OpeningPc, FreshPc, EventPc
<1>5. Reached
  BY <1>2 DEF Reached, Requesting
<1> QED
  BY <1>1, <1>3, <1>4, <1>5 DEF GroupState, GroupInv

-----------------------------------------------------------------------------
(* The theorems.                                                            *)

(* For any number of versions, each a process that calls bind() and any     *)
(* number of workers that it forks: the port is created once, everybody     *)
(* later inherits it, from the first event call on some process serves the  *)
(* port and can be updated, no connection of a requester is lost, and a     *)
(* group is killed when nobody in it serves a client (core.c:150-194).      *)
THEOREM GroupInvHolds ==
    ASSUME GroupPremises
    PROVE  Spec => []GroupInv
<1>1. Init => GroupState
  BY InitialGroup
<1>2. GroupState /\ [Step]_vars => GroupState'
  BY GroupPreserved
<1>3. GroupState => GroupInv
  BY DEF GroupState
<1>4. Spec => Init /\ [][Step]_vars
  BY Uninterrupted DEF GroupPremises
<1> QED
  BY <1>1, <1>2, <1>3, <1>4, PTL

(* Versions of several processes serve one TCP socket as well, whatever     *)
(* becomes of the replies: a worker takes its socket from the process that  *)
(* forked it, and a requester that is sent nothing waits on.                *)
THEOREM GroupOneSocket ==
    ASSUME GroupPremises
    PROVE  Spec => []OneSocket
<1>1. Init => GroupState
  BY InitialGroup
<1>2. GroupState /\ [Step]_vars => GroupState'
  BY GroupPreserved
<1>3. GroupState => OneSocket
  BY SocketsAgree DEF GroupState
<1>4. Spec => Init /\ [][Step]_vars
  BY Uninterrupted DEF GroupPremises
<1> QED
  BY <1>1, <1>2, <1>3, <1>4, PTL

(* ServiceKept for versions of several processes: neither a worker that     *)
(* ends nor a killed group takes the last updatable process along.          *)
THEOREM GroupServiceKept ==
    ASSUME GroupPremises
    PROVE  Spec => ServiceKept
<1>1. Init => GroupState
  BY InitialGroup
<1>2. GroupState /\ [Step]_vars => GroupState'
  BY GroupPreserved
<1>3. GroupState /\ GroupState' /\ [Step]_vars =>
        [(\E p \in Proc : Updatable(p)) /\ crashes' = crashes
            => (\E p \in Proc : Updatable(p))']_vars
  <2> SUFFICES ASSUME GroupState, GroupState', Step, \E p \in Proc : Updatable(p)
               PROVE  (\E p \in Proc : Updatable(p))'
    OBVIOUS
  <2>1. /\ TypeOK /\ TypeOK' /\ LockInv /\ SocketInv /\ ServiceInv /\ Leavers /\ NoCrashes
    BY DEF GroupState, IInv, GroupInv, GroupPremises
  <2> QED
    BY <2>1, GroupKeeps
<1>4. Spec => Init /\ [][Step]_vars
  BY Uninterrupted DEF GroupPremises
<1> QED
  BY <1>1, <1>2, <1>3, <1>4, PTL DEF ServiceKept

(* A step writes the published version down again only in dsu_monitor_init  *)
(* of a fresh start.                                                        *)
LEMMA VersionMoves ==
    ASSUME TypeOK, Step
    PROVE  \/ status'.version \in {status.version, status.version + 1}
           \/ \E p \in Proc : FreshStatus(p)
<1> USE DEF callVars, channelVars, clientVars, listenerVars, semVars
<1>1. status \in StatusType
  BY DEF TypeOK
<1>2. ASSUME NEW p \in Proc, BindStep(p), ~FreshStatus(p)
      PROVE  UNCHANGED status
  BY <1>2 DEF BindStep, MonitorBind, MonitorListen, Connect, SendPort, ReadShadow,
     ReadComfd, InheritStatusSem, InheritFdSem, InheritVersion, FreshStatusSem,
     FreshFdSem, TcpBind
<1>3. ASSUME NEW p \in Proc, Monitor(p) \/ QuitStore(p) \/ CountStore(p)
      PROVE  status'.version \in {status.version, status.version + 1}
  BY <1>1, <1>3 DEF Monitor, QuitStore, CountStore, StatusType
<1>4. ASSUME NEW p \in Proc, HandleStep(p), ~CountStore(p)
      PROVE  UNCHANGED status
  BY <1>4 DEF HandleStep, HandleAccept, HandleClose, HandleRace, HandleError,
     HandleRequest, CountLoad, ReplyShadow, ReplyComfd
<1>5. ASSUME NEW p \in Proc, EventStep(p), ~(Monitor(p) \/ QuitStore(p) \/ CountStore(p))
      PROVE  UNCHANGED status
  BY <1>4, <1>5 DEF EventStep, EventCall, TerminationDetection, Terminate, KillGroup,
     PreEvent, Wake, Timeout, PollTimeout, Post, ScanFault
<1>6. ASSUME NEW p \in Proc, AppStep(p)
      PROVE  UNCHANGED status
  BY <1>6 DEF AppStep, Accept, CloseClient
<1>7. Environment => UNCHANGED status
  BY DEF Environment, ClientConnect, Start, Interrupt, Crash, Fork
<1> QED
  BY <1>2, <1>3, <1>5, <1>6, <1>7 DEF Step, ProcessStep

(* While the port is served the published version grows by one at a time    *)
(* (core.c:246-262): only the process that creates the port starts the      *)
(* version over (core.c:703-712), and it does so before any event call.     *)
THEOREM VersionStepHolds ==
    ASSUME GroupPremises
    PROVE  Spec => VersionStep
<1>1. Init => GroupState
  BY InitialGroup
<1>2. GroupState /\ [Step]_vars => GroupState'
  BY GroupPreserved
<1>3. GroupState /\ [Step]_vars =>
        [(\E p \in Proc : InService(p))
            => status'.version \in {status.version, status.version + 1}]_vars
  <2> SUFFICES ASSUME GroupState, Step, NEW p \in Proc, InService(p)
               PROVE  status'.version \in {status.version, status.version + 1}
    OBVIOUS
  <2>1. TypeOK /\ Creator /\ Unopened /\ Served
    BY DEF GroupState, IInv, GroupInv
  <2>2. ASSUME NEW q \in Proc, FreshStatus(q)
        PROVE  FALSE
    <3>1. q = First /\ pc[First] \in OpeningPc
      BY <2>1, <2>2 DEF FreshStatus, Creator, FreshPc, OpeningPc
    <3>2. ~live[p]
      BY <2>1, <3>1, BeforeOpening
    <3> QED
      BY <3>2 DEF InService
  <2> QED
    BY <2>1, <2>2, VersionMoves
<1>4. Spec => Init /\ [][Step]_vars
  BY Uninterrupted DEF GroupPremises
<1> QED
  BY <1>1, <1>2, <1>3, <1>4, PTL DEF VersionStep

(* Nobody who is gone has a session.                                        *)
DeadSessions == \A q \in Proc : ~Alive(q) => sock[q].fds = {}

Parting(q) ==
    \/ pc'[q] = pc[q] /\ sock'[q] = sock[q]
    \/ Alive(q)'
    \/ sock[q].fds = {} /\ sock'[q].fds = {}

LEMMA GroupParting ==
    ASSUME TypeOK, NoCrashes, SocketInv, ServiceInv, CountInv,
           Creator, Unopened, Newcomers, Served, Reached, Leavers, Step
    PROVE  \A q \in Proc : Parting(q)
<1>1. MaxCrashes = 0 /\ ~ScanFaults
  BY DEF NoCrashes
<1>2. ASSUME NEW p \in Proc, BindStep(p)
      PROVE  \A q \in Proc : Parting(q)
  <2>1. CASE p = First
    <3>1. CreatorMove
      BY <1>2, <2>1, CreatorFacts
    <3> QED
      BY <3>1 DEF CreatorMove, Parting, Alive
  <2>2. CASE p # First
    <3>1. HeirMove(p)
      BY <1>2, <2>2, HeirFacts
    <3> QED
      BY <3>1 DEF HeirMove, Parting, Alive, HeirPc
  <2> QED
    BY <2>1, <2>2
<1>3. ASSUME NEW p \in Proc, Looping(p)
      PROVE  \A q \in Proc : Parting(q)
  BY <1>3 DEF Looping, Parting, Alive, Serves, EventPc, AppPc
<1>4. ASSUME NEW D \in SUBSET Proc, Die(D), \A q \in D : sock[q].fds = {}
      PROVE  \A q \in Proc : Parting(q)
  <2>1. NoSock.fds = {}
    BY DEF NoSock
  <2> QED
    BY <1>4, <2>1 DEF Die, Parting
<1>5. ASSUME NEW p \in Proc, Terminate(p) \/ KillGroup(p)
      PROVE  \A q \in Proc : Parting(q)
  <2>1. CASE Die({p}) /\ pc[p] = "exit"
    BY <1>4, <2>1 DEF Leavers
  <2>2. CASE KillGroup(p)
    <3>1. Killed(p) \in SUBSET Proc /\ Die(Killed(p)) /\ \A q \in Killed(p) : sock[q].fds = {}
      BY <2>2, KilledDoomed DEF KillGroup, Doomed
    <3> QED
      BY <1>4, <3>1
  <2>3. CASE Goto(p, "killpg") /\ UNCHANGED sock
    BY <2>3 DEF Goto, TypeOK, Parting, Alive
  <2> QED
    BY <1>5, <2>1, <2>2, <2>3 DEF Terminate
<1>6. ASSUME NEW p \in Proc, EventStep(p) \/ AppStep(p) \/ Interrupt(p)
      PROVE  \A q \in Proc : Parting(q)
  <2>1. ~ScanFault(p)
    BY <1>1 DEF ScanFault
  <2>2. CASE ~(Terminate(p) \/ KillGroup(p))
    <3>1. Looping(p)
      BY <1>6, <2>1, <2>2, EventLooping, HandleLooping DEF EventStep
    <3> QED
      BY <1>3, <3>1
  <2> QED
    BY <1>5, <2>2
<1>7. ASSUME NEW p \in Proc, Crash(p)
      PROVE  FALSE
  BY <1>1, <1>7 DEF Crash, TypeOK
<1>8. ASSUME NEW p \in Proc, Start(p)
      PROVE  \A q \in Proc : Parting(q)
  BY <1>8 DEF Start, Goto, TypeOK, Parting, Alive
<1>9. ASSUME NEW p \in Proc, NEW r \in Proc, Fork(p, r)
      PROVE  \A q \in Proc : Parting(q)
  BY <1>9 DEF Fork, Goto, TypeOK, Parting, Alive
<1>10. ASSUME NEW c \in Client, ClientConnect(c)
       PROVE  \A q \in Proc : Parting(q)
  BY <1>10 DEF ClientConnect, Parting
<1> QED
  BY <1>2, <1>6, <1>7, <1>8, <1>9, <1>10 DEF Step, ProcessStep, Environment

(* No process disappears while it serves a client, neither by its own       *)
(* termination nor by a sibling's killpg(0, SIGTERM) (core.c:113-148,       *)
(* core.c:150-194): the last counted worker kills only children that were   *)
(* never in their event loop.                                               *)
THEOREM SessionsSurviveHolds ==
    ASSUME GroupPremises
    PROVE  Spec => SessionsSurvive
<1>1. Init => GroupState /\ DeadSessions
  <2>1. Init => DeadSessions
    BY DEF Init, DeadSessions, NoSock
  <2> QED
    BY <2>1, InitialGroup
<1>2. GroupState /\ [Step]_vars => GroupState'
  BY GroupPreserved
<1>3. GroupState /\ Step => \A q \in Proc : Parting(q)
  <2>1. GroupState => /\ TypeOK /\ NoCrashes /\ SocketInv /\ ServiceInv /\ CountInv /\ Creator
                      /\ Unopened /\ Newcomers /\ Served /\ Reached /\ Leavers
    BY DEF GroupState, IInv, GroupInv, GroupPremises
  <2> QED
    BY <2>1, GroupParting
<1>4. GroupState /\ DeadSessions /\ [Step]_vars => DeadSessions'
  <2>1. CASE UNCHANGED vars
    BY <2>1 DEF vars, DeadSessions, Alive
  <2>2. ASSUME DeadSessions, \A q \in Proc : Parting(q)
        PROVE  DeadSessions'
    BY <2>2 DEF DeadSessions, Parting, Alive
  <2> QED
    BY <1>3, <2>1, <2>2
<1>5. GroupState /\ DeadSessions /\ [Step]_vars =>
        [\A p \in Proc : sock[p].fds # {} /\ crashes' = crashes => Alive(p)']_vars
  <2> SUFFICES ASSUME GroupState, DeadSessions, Step, NEW p \in Proc, sock[p].fds # {}
               PROVE  Alive(p)'
    OBVIOUS
  <2>1. Parting(p)
    BY <1>3
  <2> QED
    BY <2>1 DEF Parting, DeadSessions, Alive
<1>6. Spec => Init /\ [][Step]_vars
  BY Uninterrupted DEF GroupPremises
<1> QED
  BY <1>1, <1>2, <1>4, <1>5, <1>6, PTL DEF SessionsSurvive
=============================================================================
