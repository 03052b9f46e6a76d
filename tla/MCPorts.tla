------------------------------ MODULE MCPorts -------------------------------
(***************************************************************************)
(* Values of the constants of Ports for model checking.                    *)
(***************************************************************************)
EXTENDS PortsProofs, TLC

CONSTANTS pa, pb

Select == {[handler |-> "select", timeout |-> FALSE]}
SelectT == {[handler |-> "select", timeout |-> TRUE]}
Poll == {[handler |-> "poll", timeout |-> TRUE]}
Epoll == {[handler |-> "epoll", timeout |-> TRUE]}
Three == {[handler |-> "select", timeout |-> FALSE],
          [handler |-> "poll", timeout |-> TRUE],
          [handler |-> "epoll", timeout |-> TRUE]}

(* No two requesters ask for one port, or any do.                           *)
OneEach == {f \in [Requester -> Port] : IsInjective(f)}
AnyAsk == [Requester -> Port]

(* Clients connect to the inherited port, or to any.                        *)
Heir == {[c \in Client |-> pb]}
AnyDoor == [Client -> Port]
=============================================================================
