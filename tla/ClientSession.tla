---------------------------- MODULE ClientSession ----------------------------
(* MqttClient implements MqttSession: the log is what out_fptr accepted, the *)
(* quiet time the ticks without a packet in either direction.                *)
EXTENDS MqttClient

CONSTANT LongestWait
ASSUME LongestWaitAssumption ==
  /\ LongestWait \in Nat
  /\ \A secs \in KeepaliveSecs : 2 * secs + Period <= LongestWait

Session == INSTANCE MqttSession WITH
  Packets  <- [type : ClientTypes \ {"none"}, id : 0..MaxSent],
  Deadline <- LongestWait, log <- sent, quiet <- idle

\* Every behaviour of the client is one the abstract session allows: its
\* threads, its timer and its shared buffer do not show on the wire.
ImplementsSession == Session!Spec
=============================================================================
