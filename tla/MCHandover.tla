----------------------------- MODULE MCHandover -----------------------------
(* Instances of Handover for TLC: which processes belong to which version,  *)
(* and which event function a version uses.                                 *)
EXTENDS RefinementProofs, TransferProofs, TLC

CONSTANTS p1, p2, p3, c1, c2

Two == {p1, p2}
Three == {p1, p2, p3}

(* Every process is a version of its own.                                   *)
Chain == [p \in Proc |-> p]

(* p1 forks p2, both are the first version; p3 is the update.               *)
Forked == [p \in Proc |-> IF p = p2 THEN p1 ELSE p]
AllSelect == [p \in Proc |-> "select"]
AllPoll == [p \in Proc |-> "poll"]
AllEpoll == [p \in Proc |-> "epoll"]

(* The update uses another event function than the first version.           *)
SelectThenEpoll == [p \in Proc |-> IF p = p3 THEN "epoll" ELSE "select"]
EpollThenPoll == [p \in Proc |-> IF p = p3 THEN "poll" ELSE "epoll"]
OneOfEach == (p1 :> "select") @@ (p2 :> "epoll") @@ (p3 :> "poll")

=============================================================================
