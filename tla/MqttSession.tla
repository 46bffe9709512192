----------------------------- MODULE MqttSession -----------------------------
(***************************************************************************)
(* What an application may rely on, said of one client's connections and   *)
(* nothing else: a connection opens with CONNECT, the only one; SUBSCRIBE  *)
(* packets carry fresh identifiers; and while the connection is timed,     *)
(* packets follow each other, in either direction, within Deadline ticks.  *)
(* There are no threads here, no timer and no shared buffer.               *)
(***************************************************************************)
EXTENDS Integers, Sequences

CONSTANTS Packets,   \* what a client can send: records with a type and an id
          Deadline   \* bound on the ticks without a packet

VARIABLES log,    \* the client's packets on the current connection, oldest first
          quiet   \* ticks since the last packet

vars == <<log, quiet>>

Init == log = <<>> /\ quiet = 0

\* A new connection.
Open == log' = <<>> /\ quiet' = quiet

InPlace(packet) ==
  /\ packet.type = "CONNECT" <=> log = <<>>
  /\ packet.type = "SUBSCRIBE" =>
       \A i \in DOMAIN log : log[i].type = "SUBSCRIBE" => log[i].id # packet.id

Say == \E packet \in Packets :
         /\ InPlace(packet)
         /\ log' = Append(log, packet)
         /\ quiet' = 0

\* The broker speaks when it has been spoken to.
Hear == log # <<>> /\ quiet' = 0 /\ log' = log

Wait == log # <<>> /\ quiet + 1 < Deadline /\ quiet' = quiet + 1 /\ log' = log

Next == Open \/ Say \/ Hear \/ Wait

Spec == Init /\ [][Next]_vars
=============================================================================
