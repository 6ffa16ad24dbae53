---------------------------- MODULE MCIrService ----------------------------
(***************************************************************************)
(* A small instance of IrService, with three attempts at init, the calls of*)
(* three drivers and a connection of each kind; and, as runs of their own, *)
(* one of those connections with the messages that go over it.             *)
(***************************************************************************)
EXTENDS IrService, Connections

VARIABLE part    \* which of the two a behavior is about

MCInits == 1 .. 3
MCDrivers == 4 .. 6

MCInit ==
  /\ part \in {"calls", "connection"}
  /\ ServiceInit /\ ConnectionsInit
  /\ part = "calls" => conn.connection_type = "Inbound"

MCNext ==
  \/ /\ part = "calls" /\ ServiceNext
     /\ UNCHANGED <<part, connection_vars>>
  \/ /\ part = "connection" /\ ConnectionsNext
     /\ UNCHANGED <<part, service_vars>>

MCSpec ==
  /\ MCInit /\ [][MCNext]_<<part, service_vars, connection_vars>>
  /\ ServiceFairness /\ ConnectionsFairness
=============================================================================
