------------------------------ MODULE MCBroker -------------------------------
(***************************************************************************)
(* Instances of Broker for TLC: every connection watches the same project. *)
(***************************************************************************)
EXTENDS Broker

CONSTANT t1

MCTopicOf == [s \in Conn |-> t1]
=============================================================================
