------------------------------ MODULE MqttCodec ------------------------------
(***************************************************************************)
(* The packets of src/mqtt.c: what the encoding functions put into a       *)
(* buffer and what the decoding functions find there.  A packet is its     *)
(* fixed header, byte by byte, and the lengths of what follows.            *)
(***************************************************************************)
EXTENDS Integers, Sequences

CONSTANTS
  Kinds,    \* calls to look at: "header", "publish", "subscribe", "connect", "inbound", "suback"
  Sizes,    \* remaining lengths given to encode_fixed_header
  Levels,   \* QoS levels given to mqtt(ACTION_PUBLISH) and mqtt(ACTION_SUBSCRIBE)
  Retains,  \* values of the retain flag given to mqtt(ACTION_PUBLISH)
  Lengths,  \* lengths of topics and of the strings of CONNECT
  Messages, \* lengths of published messages
  Buffers   \* sizes of the output buffer

StringLengths == 0..65535  \* a length of two bytes

ASSUME KindsAssumption   == Kinds \subseteq {"header", "publish", "subscribe", "connect", "inbound", "suback"}
ASSUME SizesAssumption   == Sizes \subseteq Nat
ASSUME LevelsAssumption  == Levels \subseteq 0..2 /\ Retains \subseteq BOOLEAN
ASSUME LengthsAssumption == Lengths \subseteq StringLengths /\ Messages \subseteq Nat /\ Buffers \subseteq Nat

CONNECT   == 1
PUBLISH   == 3
SUBSCRIBE == 8
MAXCMD    == 15
QoSInvalid == 3
MQTT_MAX_MESSAGE_SIZE == 2147483647
FixedHeaderSize == 5  \* sizeof(MQTT_fixed_header_t)

Bit(flag) == IF flag THEN 1 ELSE 0

-----------------------------------------------------------------------------
(* The fixed header. *)

LengthBytes[n \in Nat] ==
  IF n < 128 THEN <<n>> ELSE <<(n % 128) + 128>> \o LengthBytes[n \div 128]

\* set_size: the bytes of the length field, none if the size is refused.
SetSize(n) == IF n < MQTT_MAX_MESSAGE_SIZE THEN LengthBytes[n] ELSE <<>>

\* get_size, given a whole header: the fifth length byte is one too many.
GetSize(header) ==
  LET count    == Len(header) - 1
      value[k \in 0..count] ==
        IF k = 0 THEN 0 ELSE value[k - 1] + (header[k + 1] % 128) * 128 ^ (k - 1)
  IN  IF count <= 4 THEN [ok |-> TRUE, value |-> value[count]] ELSE [ok |-> FALSE, value |-> 0]

\* struct_flags_and_type: retain, dup, qos, type, from the lowest bit up.
Flags(dup, qos, retain, type) == Bit(retain) + 2 * Bit(dup) + 4 * qos + 16 * type

EncodeFixedHeader(dup, qos, retain, type, size) ==
  IF qos < QoSInvalid /\ type < MAXCMD /\ SetSize(size) # <<>>
    THEN <<Flags(dup, qos, retain, type)>> \o SetSize(size)
    ELSE <<>>

\* Fault: dup and qos are read from where the encoder does not put them.
DecodeFixedHeaderShifted(header) ==
  LET size == GetSize(header)
      byte == header[1]
  IN  [next |-> IF size.ok THEN Len(header) ELSE 0, dup |-> (byte \div 8) % 2 = 1,
       qos |-> (byte \div 2) % 4, retain |-> byte % 2 = 1, type |-> byte \div 16,
       size |-> size.value]

\* next is 0 where the code returns NULL; flags that are not valid leave the
\* pointer alone and clear the rest.
DecodeFixedHeader(header) ==
  LET size == GetSize(header)
      byte == header[1]
      next == IF size.ok THEN Len(header) ELSE 0
  IN  IF size.ok /\ (byte \div 4) % 4 # QoSInvalid /\ byte \div 16 < MAXCMD
        THEN [next |-> next, dup |-> (byte \div 2) % 2 = 1, qos |-> (byte \div 4) % 4,
              retain |-> byte % 2 = 1, type |-> byte \div 16, size |-> size.value]
        ELSE [next |-> next, dup |-> FALSE, qos |-> 0, retain |-> FALSE, type |-> 0, size |-> 0]

-----------------------------------------------------------------------------
(* Packets: header, bytes after it, contents. *)

Refused == [header |-> <<>>, rest |-> 0, content |-> <<>>]

\* Bytes of a packet identifier, which QoS 0 does not have.
IdBytes(qos) == IF qos > 0 THEN 2 ELSE 0

\* Fault: the bytes of the topic's length are left out of the size.
EncodePublishShort(c) ==
  LET header == EncodeFixedHeader(c.retain, c.qos, FALSE, PUBLISH,
                                  c.message + c.topic + IdBytes(c.qos))
      rest   == 2 + c.topic + IdBytes(c.qos) + c.message
  IN  [header |-> header, rest |-> rest, content |-> <<c.topic, IdBytes(c.qos), c.message>>]

\* retain and dup are passed in each other's place.  Of the packet only its
\* header is compared with the size of the buffer.
EncodePublish(c) ==
  LET header == EncodeFixedHeader(c.retain, c.qos, FALSE, PUBLISH,
                                  c.message + c.topic + 2 + IdBytes(c.qos))
      rest   == 2 + c.topic + IdBytes(c.qos) + c.message
  IN  IF FixedHeaderSize < c.buffer /\ header # <<>> /\ Len(header) < c.buffer
        THEN [header |-> header, rest |-> rest, content |-> <<c.topic, IdBytes(c.qos), c.message>>]
        ELSE Refused

\* Fault: the identifier is read whatever the QoS.
DecodePublishAlwaysId(topic, size, qos) ==
  LET start == 2 + topic + 2
  IN  IF topic > 0 /\ start < size THEN [ok |-> TRUE, topic |-> topic, message |-> size - start]
                                   ELSE [ok |-> FALSE, topic |-> 0, message |-> 0]

\* decode_publish and decode_variable_header_publish.
DecodePublish(topic, size, qos) ==
  LET start == 2 + topic + IdBytes(qos)
  IN  IF topic > 0 /\ start < size THEN [ok |-> TRUE, topic |-> topic, message |-> size - start]
                                   ELSE [ok |-> FALSE, topic |-> 0, message |-> 0]

\* Fault: the packet's QoS is passed where the reserved flags belong.
EncodeSubscribePlain(c) ==
  LET header == EncodeFixedHeader(FALSE, c.qos, FALSE, SUBSCRIBE, c.topic + 5)
      rest   == 2 + 2 + c.topic + 1
  IN  [header |-> header, rest |-> rest, content |-> <<c.topic, c.qos>>]

\* The identifier is counted again when the topic's QoS is not 0.
EncodeSubscribe(c) ==
  LET header == EncodeFixedHeader(TRUE, 0, FALSE, SUBSCRIBE, c.topic + 5 + IdBytes(c.qos))
      rest   == 2 + 2 + c.topic + 1
  IN  IF c.topic < c.buffer /\ header # <<>> /\ Len(header) < c.buffer
        THEN [header |-> header, rest |-> rest, content |-> <<c.topic, c.qos>>]
        ELSE Refused

\* mqtt_connect_fill_a_param: the space is reduced by the string, not by its
\* two length bytes; an empty string is a failure.
FillParam(filled, length) ==
  LET space == filled.space - length
  IN  IF ~filled.ok THEN filled
      ELSE IF space <= 0 \/ length = 0
        THEN [filled EXCEPT !.ok = FALSE, !.space = space]
        ELSE [ok |-> TRUE, space |-> space, payload |-> filled.payload + 2 + length,
              count |-> filled.count + 1]

\* Fault: the will flag keeps the value it had.
ParameterFlagsStale(c) ==
  [will |-> c.stale \/ (c.willTopic > 0 /\ c.willMessage > 0), user |-> c.user > 0,
   password |-> c.password > 0]

\* The flags mqtt_connect_fill_parameters leaves, whatever they were before.
ParameterFlags(c) ==
  [will |-> c.willTopic > 0 /\ c.willMessage > 0, user |-> c.user > 0, password |-> c.password > 0]

\* mqtt_connect_fill_parameters: the strings of the payload, in order.
Parameters(c) ==
  <<c.client>>
    \o (IF c.willTopic > 0 /\ c.willMessage > 0 THEN <<c.willTopic, c.willMessage>> ELSE <<>>)
    \o (IF c.user > 0 THEN <<c.user>> ELSE <<>>)
    \o (IF c.password > 0 THEN <<c.password>> ELSE <<>>)

FillStrings(strings, space) ==
  LET filled[k \in 0..Len(strings)] ==
        IF k = 0 THEN [ok |-> TRUE, space |-> space, payload |-> 0, count |-> 0]
                 ELSE FillParam(filled[k - 1], strings[k])
  IN  filled[Len(strings)]

\* mqtt_connect_fill: parameters first, then the 10 bytes of the variable
\* header before them, then the fixed header, right before that.  The space is
\* compared with what has been written already, and the five bytes kept for the
\* fixed header are not part of it.
ConnectFill(c) ==
  LET last == FillStrings(Parameters(c), c.buffer)
      rest == last.payload + 10
  IN  IF last.ok /\ last.space - 10 >= last.payload
        THEN [header |-> EncodeFixedHeader(FALSE, 0, FALSE, CONNECT, rest), rest |-> rest,
              content |-> [flags |-> ParameterFlags(c), count |-> last.count]]
        ELSE Refused

\* decode_variable_header_suback: is subscribe_cb_fptr told Successfull?
SubackStatus(code) == code = 128

\* The PUBLISH of a broker, sent once: qos and retain where chapter 2.2 has them.
BrokerPublish(c) ==
  [header  |-> <<Bit(c.retain) + 2 * c.qos + 16 * PUBLISH>>
                 \o LengthBytes[2 + c.topic + IdBytes(c.qos) + c.message],
   rest    |-> 2 + c.topic + IdBytes(c.qos) + c.message,
   content |-> <<c.topic, IdBytes(c.qos), c.message>>]

-----------------------------------------------------------------------------
(* One call, the packet it forms, and what is read from the packet. *)

VARIABLES
  call,    \* the function's arguments
  stage,   \* "call", "formed", "refused", "read"
  packet,
  result   \* what the decoder returned

vars == <<call, stage, packet, result>>

CallsOf(kind) ==
  CASE kind = "header"    -> [kind : {kind}, dup : BOOLEAN, qos : 0..3, retain : BOOLEAN,
                              type : 1..15, size : Sizes]
    [] kind = "publish"   -> [kind : {kind}, retain : Retains, qos : Levels,
                              topic : Lengths \ {0}, message : Messages, buffer : Buffers]
    [] kind = "subscribe" -> [kind : {kind}, qos : Levels, topic : Lengths \ {0}, buffer : Buffers]
    [] kind = "connect"   -> [kind : {kind}, client : Lengths, willTopic : Lengths,
                              willMessage : Lengths, user : Lengths, password : Lengths,
                              stale : BOOLEAN, buffer : Buffers]
    [] kind = "inbound"   -> [kind : {kind}, retain : BOOLEAN, qos : Levels,
                              topic : Lengths \ {0}, message : Messages]
    [] kind = "suback"    -> [kind : {kind}, code : {0, 1, 2, 128}]

Init ==
  /\ \E kind \in Kinds : call \in CallsOf(kind)
  /\ stage = "call" /\ packet = Refused /\ result = <<>>

Formed(kind, p) ==
  /\ stage = "call" /\ call.kind = kind
  /\ packet' = p
  /\ stage' = IF p.header = <<>> THEN "refused" ELSE "formed"
  /\ UNCHANGED <<call, result>>

HeaderAlone(c) ==
  LET header == EncodeFixedHeader(c.dup, c.qos, c.retain, c.type, c.size)
  IN  [header |-> header, rest |-> c.size, content |-> <<>>]

FormHeader    == Formed("header", HeaderAlone(call))
FormPublish   == Formed("publish", EncodePublish(call))
FormSubscribe == Formed("subscribe", EncodeSubscribe(call))
FormConnect   == Formed("connect", ConnectFill(call))
FormInbound   == Formed("inbound", BrokerPublish(call))

ReadHeader ==
  /\ stage = "formed" /\ call.kind \in {"header", "subscribe", "connect"}
  /\ result' = DecodeFixedHeader(packet.header)
  /\ stage' = "read"
  /\ UNCHANGED <<call, packet>>

\* The PUBLISH case of mqtt_parse_input_stream.
ReadPublish ==
  /\ stage = "formed" /\ call.kind \in {"publish", "inbound"}
  /\ LET header == DecodeFixedHeader(packet.header)
     IN  result' = IF header.next # 0 /\ header.type = PUBLISH
                     THEN DecodePublish(packet.content[1], header.size, header.qos)
                     ELSE [ok |-> FALSE, topic |-> 0, message |-> 0]
  /\ stage' = "read"
  /\ UNCHANGED <<call, packet>>

\* The SUBACK case.
ReadSuback ==
  /\ stage = "call" /\ call.kind = "suback"
  /\ result' = SubackStatus(call.code)
  /\ stage' = "read"
  /\ UNCHANGED <<call, packet>>

Next ==
  FormHeader \/ FormPublish \/ FormSubscribe \/ FormConnect \/ FormInbound
    \/ ReadHeader \/ ReadPublish \/ ReadSuback

Spec == Init /\ [][Next]_vars

-----------------------------------------------------------------------------
(* Properties. *)

\* What encode_fixed_header accepts, up to the 2^28 - 1 of the protocol,
\* decode_fixed_header reads back: flags, type and remaining length, and it
\* finds the first byte after the header (mqtt.c 350-547).
HeaderRoundTrip ==
  stage = "read" /\ call.kind = "header" =>
    result = [next |-> Len(packet.header), dup |-> call.dup, qos |-> call.qos,
              retain |-> call.retain, type |-> call.type, size |-> call.size]

\* The remaining length of a packet is the number of bytes that follow its
\* fixed header, which the encoders count before they write them
\* (mqtt.c 576-579, 778, 1234): PUBLISH with any flags, CONNECT, and
\* SUBSCRIBE at QoS 0.
Declared == GetSize(packet.header) = [ok |-> TRUE, value |-> packet.rest]
DeclaredLength ==
  /\ stage = "formed"
  /\ call.kind \in {"publish", "connect"} \/ (call.kind = "subscribe" /\ call.qos = 0)
  => Declared

\* The same of SUBSCRIBE at any QoS: "If QoS > 0, then next 2 bytes are packet
\* identifier numbers." (mqtt.c 778-782).
SubscribeLength == stage = "formed" /\ call.kind = "subscribe" => Declared

\* A subscriber that uses this library finds the topic and the message the
\* publisher gave: in what encode_publish forms for any QoS and retain flag, and
\* in what a broker sends at QoS 0 (mqtt.c 557-753).
PublishReceived ==
  /\ stage = "read"
  /\ call.kind = "publish" \/ (call.kind = "inbound" /\ call.qos = 0)
  => result = [ok |-> TRUE, topic |-> call.topic, message |-> call.message]

\* The first byte as chapter 2.2 lays it out, which is how a broker reads it.
WireFlags(byte) == [retain |-> byte % 2 = 1, qos |-> (byte \div 2) % 4, dup |-> (byte \div 8) % 2 = 1]
AsAsked == WireFlags(packet.header[1]) = [retain |-> call.retain, qos |-> call.qos, dup |-> FALSE]

\* A broker sees the QoS and the retain flag that were given to
\* mqtt(ACTION_PUBLISH) (mqtt.c 581-586, 1588-1590; mqtt.h 128-134).
FlagsAsAsked == stage = "formed" /\ call.kind = "publish" => AsAsked

\* How far that goes: of all flags the API takes, the broker is told the truth of
\* those mqtt_publish and mqtt_publish_buf give (mqtt.c 1790-1791), and of no
\* others.  A SUBSCRIBE has the flags 0010 whatever QoS is asked for its topic,
\* and it has them because dup lies where chapter 2.2 has the QoS
\* (mqtt.c 784-790).
PlainFlagsReach ==
  stage = "formed" =>
    /\ call.kind = "publish" => (AsAsked <=> call.qos = 0 /\ ~call.retain)
    /\ call.kind = "subscribe" =>
         WireFlags(packet.header[1]) = [retain |-> FALSE, qos |-> 1, dup |-> FALSE]

\* The connect flags say which strings the payload has, whatever flags the
\* caller's structure was left with (mqtt.c 1110-1168).
FlagsMatchPayload ==
  stage = "formed" /\ call.kind = "connect" =>
    LET flags == packet.content.flags
    IN  packet.content.count = 1 + 2 * Bit(flags.will) + Bit(flags.user) + Bit(flags.password)

\* subscribe_cb_fptr is told Successfull when the broker grants a subscription,
\* with whatever QoS, and not when it refuses it.
GrantedIsSuccess == stage = "read" /\ call.kind = "suback" => (result <=> call.code # 128)

=============================================================================
