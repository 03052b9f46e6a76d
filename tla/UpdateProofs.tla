---------------------------- MODULE UpdateProofs ----------------------------
(* Proofs about the abstract update: the promise that the implementation is *)
(* held to is kept by every behaviour of Update, for any set of processes.  *)
EXTENDS Update, TLAPS

(* Types, for any number of processes and versions.                         *)
THEOREM TypeCorrect ==
    ASSUME Leftover \subseteq Nat
    PROVE  Spec => []TypeOK
<1>1. Init => TypeOK
  BY DEF Init, TypeOK, Roles
<1>2. TypeOK /\ [Next]_vars => TypeOK'
  <2> SUFFICES ASSUME TypeOK, [Next]_vars PROVE TypeOK'
    OBVIOUS
  <2> USE DEF TypeOK, Roles
  <2>1. CASE Restart
    BY <2>1 DEF Restart
  <2>2. ASSUME NEW p \in Proc, Join(p) PROVE TypeOK'
    BY <2>2 DEF Join, NextVersion
  <2>3. ASSUME NEW p \in Proc, Publish(p) PROVE TypeOK'
    BY <2>3 DEF Publish
  <2>4. ASSUME NEW p \in Proc, Retire(p) PROVE TypeOK'
    BY <2>4 DEF Retire
  <2>5. ASSUME NEW D \in SUBSET Proc, Leave(D) PROVE TypeOK'
    BY <2>5 DEF Leave
  <2>6. CASE UNCHANGED vars
    BY <2>6 DEF vars
  <2> QED
    BY <2>1, <2>2, <2>3, <2>4, <2>5, <2>6 DEF Next
<1> QED
  BY <1>1, <1>2, PTL DEF Spec

(* A process that serves the published version stays until a newer one has  *)
(* published, and whoever publishes serves the version it publishes.        *)
LEMMA CurrentStays ==
    ASSUME TypeOK, Next, NEW q \in Proc, Current(q)
    PROVE  \E p \in Proc : Current(p)'
<1> USE DEF TypeOK, Current
<1>1. CASE Restart
  BY <1>1 DEF Restart
<1>2. ASSUME NEW p \in Proc, Join(p) PROVE Current(q)'
  BY <1>2 DEF Join
<1>3. ASSUME NEW p \in Proc, Publish(p) PROVE Current(p)'
  BY <1>3 DEF Publish
<1>4. ASSUME NEW p \in Proc, Retire(p) PROVE Current(q)'
  BY <1>4 DEF Retire, Outdated
<1>5. ASSUME NEW D \in SUBSET Proc, Leave(D) PROVE Current(q)'
  BY <1>5 DEF Leave, Outdated
<1> QED
  BY <1>1, <1>2, <1>3, <1>4, <1>5 DEF Next

(* There is no gap in the service of the published version.                 *)
THEOREM NoGapHolds ==
    ASSUME Leftover \subseteq Nat
    PROVE  Spec => NoGap
<1> DEFINE Kept == (\E p \in Proc : Current(p)) => (\E p \in Proc : Current(p))'
<1>1. TypeOK /\ [Next]_vars => [Kept]_vars
  BY CurrentStays
<1> QED
  BY <1>1, TypeCorrect, PTL DEF Spec, NoGap

(* What NextVersionOnly says is inductive without its premise: a restart    *)
(* needs that nobody serves, and whoever joins is at most one ahead.        *)
OneAhead == \A p \in Proc : role[p] = "serving" => version[p] <= published + 1

(* Nobody serves more than one version above the published one.             *)
THEOREM NextVersionHolds ==
    ASSUME Leftover \subseteq Nat
    PROVE  Spec => []NextVersionOnly
<1>1. Init => OneAhead
  BY DEF Init, OneAhead
<1>2. TypeOK /\ OneAhead /\ [Next]_vars => OneAhead'
  <2> SUFFICES ASSUME TypeOK, OneAhead, [Next]_vars PROVE OneAhead'
    OBVIOUS
  <2> USE DEF TypeOK, OneAhead
  <2>1. CASE Restart
    BY <2>1 DEF Restart
  <2>2. ASSUME NEW p \in Proc, Join(p) PROVE OneAhead'
    BY <2>2 DEF Join, NextVersion
  <2>3. ASSUME NEW p \in Proc, Publish(p) PROVE OneAhead'
    BY <2>3 DEF Publish
  <2>4. ASSUME NEW p \in Proc, Retire(p) PROVE OneAhead'
    BY <2>4 DEF Retire
  <2>5. ASSUME NEW D \in SUBSET Proc, Leave(D) PROVE OneAhead'
    BY <2>5 DEF Leave
  <2>6. CASE UNCHANGED vars
    BY <2>6 DEF vars
  <2> QED
    BY <2>1, <2>2, <2>3, <2>4, <2>5, <2>6 DEF Next
<1>3. OneAhead => NextVersionOnly
  BY DEF OneAhead, NextVersionOnly
<1> QED
  BY <1>1, <1>2, <1>3, TypeCorrect, PTL DEF Spec
=============================================================================
