------------------------------- MODULE Update -------------------------------
(***************************************************************************)
(* What openDSU promises about one port, without saying how: processes of  *)
(* successive versions take over from each other, and from the first       *)
(* moment that the port is served at the published version it never stops  *)
(* being so.                                                               *)
(***************************************************************************)
EXTENDS Naturals

CONSTANTS
    Proc,       \* the processes of all versions
    Leftover    \* version numbers in the memory that earlier runs have left

VARIABLES
    published,  \* the version number that everybody can see
    role,       \* what each process is doing about the port
    version     \* the version number of each process

vars == <<published, role, version>>

Roles == {"new", "serving", "draining", "gone"}

TypeOK ==
    /\ published \in Nat
    /\ role \in [Proc -> Roles]
    /\ version \in [Proc -> Nat]

Init ==
    /\ published \in Leftover
    /\ role = [p \in Proc |-> "new"]
    /\ version = [p \in Proc |-> 0]

(* A first version starts over at 0.                                        *)
Restart ==
    /\ \A p \in Proc : role[p] # "serving"
    /\ published' = 0
    /\ UNCHANGED <<role, version>>

NextVersion == published + 1

(* A process enters its event loop, as the next version at most.            *)
Join(p) ==
    /\ role[p] = "new"
    /\ role' = [role EXCEPT ![p] = "serving"]
    /\ \E v \in 0..NextVersion : version' = [version EXCEPT ![p] = v]
    /\ UNCHANGED published

(* The next version makes itself known, once it serves.                     *)
Publish(p) ==
    /\ role[p] = "serving" /\ version[p] > published
    /\ published' = published + 1
    /\ UNCHANGED <<role, version>>

Outdated(p) == version[p] < published

(* An older version stops serving and finishes its sessions.                *)
Retire(p) ==
    /\ role[p] = "serving" /\ Outdated(p)
    /\ role' = [role EXCEPT ![p] = "draining"]
    /\ UNCHANGED <<published, version>>

(* Processes end, several at once when a group is killed, and never one     *)
(* that serves the published version.                                       *)
Leave(D) ==
    /\ \A p \in D : role[p] = "serving" => Outdated(p)
    /\ role' = [p \in Proc |-> IF p \in D THEN "gone" ELSE role[p]]
    /\ version' = [p \in Proc |-> IF p \in D THEN 0 ELSE version[p]]
    /\ UNCHANGED published

Next ==
    \/ Restart
    \/ \E p \in Proc : Join(p) \/ Publish(p) \/ Retire(p)
    \/ \E D \in SUBSET Proc : Leave(D)

Spec == Init /\ [][Next]_vars

-----------------------------------------------------------------------------
Current(p) == role[p] = "serving" /\ version[p] >= published

(* No gap: once some process serves the published version, some process     *)
(* always does.                                                             *)
NoGap == [][(\E p \in Proc : Current(p)) => (\E p \in Proc : Current(p))']_vars

(* A version follows the published one immediately: nobody who serves is    *)
(* two versions ahead, so the published number grows by one at a time and   *)
(* ends at the newest version.                                              *)
NextVersionOnly ==
    (\E p \in Proc : Current(p)) =>
        \A p \in Proc : role[p] = "serving" => version[p] <= published + 1
=============================================================================
