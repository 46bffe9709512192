----------------------------- MODULE TcpNetwork -----------------------------
(***************************************************************************)
(* The network between the two hosts of one TCP connection, in its data    *)
(* direction and its acknowledgement direction.  Packets travel in order   *)
(* unless a fault hits one: a loss, a duplicate, an overtaking.            *)
(***************************************************************************)
EXTENDS TcpWindow

CONSTANTS
  Total,       \* bound: bytes of the connection
  First,       \* sequence number of the first byte
  MaxFaults    \* bound: losses, duplicates, overtakings and timers that run out too early

ASSUME TotalAssumption == Total \in Nat /\ First \in Number /\ MaxFaults \in Nat

VARIABLES
  data,    \* segments on their way: sequence number and bytes
  acks,    \* acknowledgements on their way: number, window, selective acknowledgement
  faults

network == <<data, acks, faults>>

\* Bytes are named by their position in the stream.
Byte     == 1..Total
NumberOf(byte) == Plus(First, byte - 1)

DataType(p) == p.seq \in Number /\ p.bytes \in Seq(Byte)
AckType(a)  == a.ack \in Number /\ a.wnd \in Nat /\ a.sack \in Seq(Number)

NetworkType ==
  /\ \A i \in DOMAIN data : DataType(data[i])
  /\ \A i \in DOMAIN acks : AckType(acks[i])
  /\ faults \in 0..MaxFaults

Fault == faults < MaxFaults /\ faults' = faults + 1

Lost(q, i)      == SubSeq(q, 1, i - 1) \o SubSeq(q, i + 1, Len(q))
Doubled(q, i)   == SubSeq(q, 1, i) \o SubSeq(q, i, Len(q))
Overtaken(q, i) == [q EXCEPT ![i] = q[i + 1], ![i + 1] = q[i]]

DamageData ==
  /\ Fault
  /\ \E i \in DOMAIN data :
       \/ data' \in {Lost(data, i), Doubled(data, i)}
       \/ i < Len(data) /\ data' = Overtaken(data, i)
  /\ UNCHANGED acks

DamageAck ==
  /\ Fault
  /\ \E i \in DOMAIN acks :
       \/ acks' \in {Lost(acks, i), Doubled(acks, i)}
       \/ i < Len(acks) /\ acks' = Overtaken(acks, i)
  /\ UNCHANGED data
=============================================================================
