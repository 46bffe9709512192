---------------------------- MODULE SocketReader ----------------------------
(***************************************************************************)
(* The reading thread of test/socket_read_write_lib: it cuts the byte      *)
(* stream of a TCP connection into the packets mqtt_receive expects.  Of   *)
(* the bytes only their places in the stream are kept: a packet is where   *)
(* it ends, a buffer where its first byte comes from and how many it has.  *)
(***************************************************************************)
EXTENDS Integers, Sequences, FiniteSetsExt

CONSTANTS
  Sizes,       \* sizes of the broker's packets, in bytes
  HeaderSize,  \* most bytes of the first recv: sizeof(header) - 1
  Modulus,     \* remaining_bytes is a uint32_t, arithmetic modulo 2^32
  FirstBytes,  \* a packet's first segment holds so many of its bytes, or all
  Coalesce,    \* may a packet arrive before the one before it has been read
  Stalls,      \* may a packet's bytes be more than SO_RCVTIMEO (10 s) apart
  MaxPackets   \* bound: packets of a connection

\* Two length bytes at most; 130 is the size of no packet.
ASSUME SizesAssumption  == Sizes \subseteq (2..16386) \ {130} /\ Sizes # {}
ASSUME HeaderAssumption == HeaderSize \in Nat \ {0, 1} /\ FirstBytes \in Nat \ {0}
ASSUME ModulusAssumption ==
  Modulus \in Nat /\ \A size \in Sizes : Modulus > (MaxPackets + 1) * size + HeaderSize
ASSUME FlagsAssumption  == Coalesce \in BOOLEAN /\ Stalls \in BOOLEAN
ASSUME PacketsAssumption == MaxPackets \in Nat

VARIABLES
  ends,       \* where each packet of the stream ends
  arrived,    \* bytes of the stream that have arrived
  conn,       \* "open", "closed" by the broker, or "reset"
  pc,         \* what the thread does next
  position,   \* bytes of the stream taken by recv
  base,       \* where in the stream the buffer begins
  got,        \* bytes_read
  remaining,  \* remaining_bytes
  delivered   \* the buffers handed to mqtt_receive

wire   == <<ends, arrived, conn>>
reader == <<pc, position, base, got, remaining, delivered>>
vars   == <<wire, reader>>

Written  == IF ends = <<>> THEN 0 ELSE ends[Len(ends)]
Start(i) == IF i = 1 THEN 0 ELSE ends[i - 1]

\* A buffer holds one packet at most, which is what it is allocated for.
TypeOK ==
  /\ ends \in Seq(Nat) /\ arrived \in 0..Written
  /\ conn \in {"open", "closed", "reset"}
  /\ pc \in {"read", "more", "deliver", "probe", "done"}
  /\ position \in 0..arrived /\ base \in 0..position
  /\ got \in 0..Max(Sizes) /\ remaining \in 0..(Modulus - 1)
  /\ delivered \in Seq([from : Nat, to : Nat, length : Nat])

Init ==
  /\ ends = <<>> /\ arrived = 0 /\ conn = "open"
  /\ pc = "read"
  /\ position = 0 /\ base = 0 /\ got = 0 /\ remaining = 0
  /\ delivered = <<>>

-----------------------------------------------------------------------------
(* The thread. *)

\* Fault: the bytes of the fixed header are not counted.
DeclaredShort(size, n) ==
  IF size <= 129 THEN size - 2 ELSE IF n >= 3 THEN size - 3 ELSE (size - 3) % 128

\* get_remainingsize of a packet of which n bytes are there: the header is
\* cleared before recv, a length byte that is missing reads as zero.
Declared(size, n) ==
  IF size <= 129 \/ n >= 3 THEN size ELSE ((size - 3) % 128) + 3

\* What get_remainingsize may return for n bytes from place p.  Bytes from the
\* middle of a packet pass for any header, an overlong one (-2) among them.
Claims(p, n) ==
  IF \E i \in DOMAIN ends : Start(i) = p
    THEN {Declared(ends[i] - p, n) : i \in {j \in DOMAIN ends : Start(j) = p}}
    ELSE Sizes \cup {Modulus - 2}

\* Fault: a packet that is complete is waited for.
RecvHeaderWaits ==
  LET n == Min({HeaderSize, arrived - position})
  IN  /\ pc = "read" /\ n >= 2
      /\ base' = position /\ got' = n /\ position' = position + n
      /\ \E claim \in Claims(position, n) : remaining' = (claim - n) % Modulus
      /\ pc' = "more"
      /\ UNCHANGED <<wire, delivered>>

\* The first recv took two bytes or more.
RecvHeader ==
  LET n == Min({HeaderSize, arrived - position})
  IN  /\ pc = "read" /\ n >= 2
      /\ base' = position /\ got' = n /\ position' = position + n
      /\ \E claim \in Claims(position, n) : remaining' = (claim - n) % Modulus
      /\ pc' = IF remaining' = 0 THEN "deliver" ELSE "more"
      /\ UNCHANGED <<wire, delivered>>

\* It took one byte, which is lost, or none: timeout, end or failure.
RecvShort ==
  /\ pc = "read" /\ arrived - position < 2
  /\ position' = arrived
  /\ pc' = "probe"
  /\ UNCHANGED <<wire, base, got, remaining, delivered>>

\* Fault: the result of send is not looked at.
ProbeIgnored ==
  /\ pc = "probe"
  /\ pc' = "read"
  /\ UNCHANGED <<wire, position, base, got, remaining, delivered>>

\* A send of no bytes fails on a connection that is gone, and only there.
Probe ==
  /\ pc = "probe"
  /\ pc' = IF conn = "reset" THEN "done" ELSE "read"
  /\ UNCHANGED <<wire, position, base, got, remaining, delivered>>

\* Fault: remaining_bytes is not updated.
RecvMoreForever ==
  LET n == Min({remaining, arrived - position})
  IN  /\ pc = "more" /\ n > 0
      /\ position' = position + n /\ got' = got + n
      /\ UNCHANGED <<wire, pc, base, remaining, delivered>>

RecvMore ==
  LET n == Min({remaining, arrived - position})
  IN  /\ pc = "more" /\ n > 0
      /\ position' = position + n /\ got' = got + n /\ remaining' = remaining - n
      /\ pc' = IF remaining' = 0 THEN "deliver" ELSE "more"
      /\ UNCHANGED <<wire, base, delivered>>

\* recv returned -1, which is added like any count; got > 0 bounds how often.
\* A recv that returns 0, the connection being closed, changes nothing at all:
\* the loop goes round for ever.
RecvFailed ==
  /\ pc = "more" /\ arrived = position
  /\ conn = "reset" \/ (conn = "open" /\ Stalls)
  /\ got > 0
  /\ got' = got - 1 /\ remaining' = (remaining + 1) % Modulus
  /\ UNCHANGED <<wire, pc, position, base, delivered>>

\* socket_data_received_callback; the buffer is gone afterwards.
Deliver ==
  /\ pc = "deliver"
  /\ delivered' = Append(delivered, [from |-> base, to |-> position, length |-> got])
  /\ base' = position /\ got' = 0
  /\ pc' = "read"
  /\ UNCHANGED <<wire, position, remaining>>

-----------------------------------------------------------------------------
(* The connection. *)

\* The broker writes a packet, its first segment arrives.
Begin ==
  /\ conn = "open" /\ arrived = Written /\ Len(ends) < MaxPackets
  /\ Coalesce \/ position = arrived
  /\ \E size \in Sizes : \E k \in Min({FirstBytes, size})..size :
       /\ ends' = Append(ends, arrived + size)
       /\ arrived' = arrived + k
  /\ UNCHANGED <<conn, reader>>

Continue ==
  /\ conn = "open"
  /\ \E k \in 1..(Written - arrived) : arrived' = arrived + k
  /\ UNCHANGED <<ends, conn, reader>>

Close ==
  /\ conn = "open" /\ conn' = "closed"
  /\ UNCHANGED <<ends, arrived, reader>>

\* Bytes the thread has not taken are discarded.
Reset ==
  /\ conn # "reset" /\ conn' = "reset" /\ arrived' = position
  /\ UNCHANGED <<ends, reader>>

-----------------------------------------------------------------------------
ReaderSteps == RecvHeader \/ RecvShort \/ Probe \/ RecvMore \/ RecvFailed \/ Deliver

Next == ReaderSteps \/ Begin \/ Continue \/ Close \/ Reset

Spec     == Init /\ [][Next]_vars
FairSpec == Spec /\ WF_vars(ReaderSteps)

-----------------------------------------------------------------------------
(* Properties. *)

\* What the thread hands to mqtt_receive is the packets of the stream, whole,
\* one at a time, in order, none left out: "beginning of received MQTT message"
\* and "amount received data" (mqtt.h, mqtt_receive).
DeliveredWhole ==
  \A i \in DOMAIN delivered :
    /\ i \in DOMAIN ends
    /\ delivered[i] = [from |-> Start(i), to |-> ends[i], length |-> ends[i] - Start(i)]

\* The thread does not wait for more of a packet it has all of: "Send packets
\* dirctly to the MQTT client, which fit into 32B buffer"
\* (socket_read_write.c 97).
FitsDirectly ==
  pc = "more" => \A i \in DOMAIN ends : Start(i) = base => position < ends[i]

\* A packet that has arrived is delivered, whatever its segments were and even
\* if the broker closes the connection behind it, unless a reset discards it.
Delivery ==
  \A i \in 1..MaxPackets :
    i \in DOMAIN ends /\ arrived >= ends[i] ~> Len(delivered) >= i \/ conn = "reset"

\* Between packets, a connection that is gone ends the thread
\* (socket_read_write.c 101-103).
ReaderEnds == conn = "reset" /\ pc \in {"read", "probe"} ~> pc = "done"

=============================================================================
