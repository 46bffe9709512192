----------------------------- MODULE MqttClient -----------------------------
(***************************************************************************)
(* The MQTT client library (src/mqtt.c) running in a program of the kind   *)
(* the repository ships: application threads call the API of mqtt.h, a     *)
(* reader thread feeds every received packet to mqtt_receive, and all of   *)
(* them share the MQTT_shared_data_t structure without a lock.  A step of  *)
(* the specification ends where another thread, the network or the broker  *)
(* can see or change what the next step uses.                              *)
(*                                                                         *)
(* One tick of time is 500 ms, the granularity of keepalive_in_ms.         *)
(***************************************************************************)
EXTENDS Integers, Sequences

CONSTANTS
  Callers,             \* application threads, callers of the API
  Reader,              \* the thread that calls mqtt_receive
  KeepaliveSecs,       \* values of mqtt_connect's a_keepalive_timeout
  TimeoutSecs,         \* values of the a_timeout_in_sec parameters
  Durations,           \* values of mqtt_keepalive's a_duration_in_ms, in ticks
  Period,              \* most ticks the application waits between mqtt_keepalive calls
  CallbackSubscribes,  \* does connected_cb call mqtt_subscribe (the FreeRTOS example does)
  MaxSent,             \* bound: packets and packet identifiers used on one connection
  MaxInbox,            \* bound: packets on their way to the client
  MaxClock             \* bound: ticks without a packet from the client

ASSUME ThreadAssumption    == Reader \notin Callers
ASSUME KeepaliveAssumption == \A secs \in KeepaliveSecs : secs \in Nat /\ secs < 65536
ASSUME TimeoutAssumption   == \A timeout \in TimeoutSecs : timeout \in Nat /\ timeout < 256
ASSUME DurationAssumption  == Durations \subseteq Nat
ASSUME PeriodAssumption    == Period \in Nat \ {0}
ASSUME CallbackAssumption  == CallbackSubscribes \in BOOLEAN
ASSUME BoundAssumption     == MaxSent \in Nat /\ MaxInbox \in Nat /\ MaxClock \in Nat

VARIABLES
  bound,            \* g_shared_data # NULL
  state,            \* g_shared_data->state
  packetCntr,       \* g_shared_data->mqtt_packet_cntr
  keepaliveIn,      \* g_shared_data->keepalive_in_ms, in ticks
  timeToNextPing,   \* g_shared_data->time_to_next_ping_in_ms, in ticks
  subscribeStatus,  \* g_shared_data->subscribe_status
  buffer            \* the packet last formed in g_shared_data->buffer

VARIABLES
  pc,        \* what each thread does next; "idle" outside the library
  op,        \* the API function each thread is in, or was in last
  arg,       \* its numeric argument: keepalive seconds, elapsed ticks, own buffer or not
  polls,     \* rounds left in the wait loop (a uint8_t)
  tmp,       \* value loaded from the shared data and not yet stored
  ret,       \* what the last API call returned
  accepted,  \* type of the packet out_fptr accepted for the call, or "none"
  rx         \* the packet mqtt_receive is handling

VARIABLES
  linkUp,   \* the connection under out_fptr is open
  sent,     \* packets out_fptr accepted on the current connection
  taken,    \* how many of them the broker has read
  inbox,    \* packets of the broker the reader has not read yet
  session   \* the broker's view: "none", "accepted", "refused" or "closed"

VARIABLES
  owed,     \* ticks since the application last reported time to mqtt_keepalive
  idle,     \* ticks since a packet was sent or received
  silence   \* ticks since a packet was sent

shared  == <<bound, state, packetCntr, keepaliveIn, timeToNextPing, subscribeStatus, buffer>>
locals  == <<op, ret, arg, polls, tmp>>
threads == <<pc, locals, accepted, rx>>
network == <<linkUp, sent, taken, inbox, session>>
clocks  == <<owed, idle, silence>>
vars    == <<shared, threads, network, clocks>>

Threads   == Callers \cup {Reader}
INT32_MIN == -2147483647 - 1

Hello        == [type |-> "CONNECT", id |-> 0]
Blank        == [type |-> "none", id |-> 0]
\* "none" is a buffer of zeros, or nothing.
ClientTypes  == {"CONNECT", "PUBLISH", "SUBSCRIBE", "PINGREQ", "DISCONNECT", "none"}
ClientPacket == [type : ClientTypes, id : Nat]
Nothing      == [type |-> "none", ok |-> TRUE]
BrokerPacket == [type : {"CONNACK", "PUBLISH", "SUBACK", "PINGRESP"}, ok : BOOLEAN]

SharedTypes ==
  /\ bound \in BOOLEAN
  /\ state \in {"STATE_DISCONNECTED", "STATE_CONNECTED"}
  /\ packetCntr \in Nat
  /\ keepaliveIn \in Int
  /\ timeToNextPing \in Int
  /\ subscribeStatus \in BOOLEAN
  /\ buffer \in ClientPacket

Labels == {"idle", "c_init", "c_fill", "c_send", "c_keepalive", "c_store", "c_wait",
           "c_return", "p_id", "p_encode", "p_send", "t_load", "t_store", "s_status",
           "s_wait", "s_clear", "k_state", "k_compare", "k_load", "k_store", "k_zero",
           "k_test", "k_send", "d_state", "d_send", "r_parse"}

Functions == {"none", "connect", "publish", "subscribe", "keepalive", "disconnect", "receive"}

LocalTypes ==
  /\ pc \in [Threads -> Labels]
  /\ op \in [Threads -> Functions]
  /\ arg \in [Threads -> Nat]
  /\ polls \in [Threads -> 0..255]
  /\ tmp \in [Threads -> Int]
  /\ ret \in [Threads -> BOOLEAN]

ThreadTypes ==
  /\ LocalTypes
  /\ accepted \in [Threads -> ClientTypes]
  /\ rx \in BrokerPacket \cup {Nothing}

NetworkTypes ==
  /\ linkUp \in BOOLEAN
  /\ sent \in Seq(ClientPacket)
  /\ taken \in Nat
  /\ inbox \in Seq(BrokerPacket)
  /\ session \in {"none", "accepted", "refused", "closed"}

ClockTypes == owed \in Nat /\ idle \in Nat /\ silence \in Nat

TypeOK == SharedTypes /\ ThreadTypes /\ NetworkTypes /\ ClockTypes

Init ==
  /\ bound = FALSE
  /\ state = "STATE_DISCONNECTED"
  /\ packetCntr = 0
  /\ keepaliveIn = 0
  /\ timeToNextPing = 0
  /\ subscribeStatus = FALSE
  /\ buffer = Blank
  /\ pc = [t \in Threads |-> "idle"]
  /\ op = [t \in Threads |-> "none"]
  /\ arg = [t \in Threads |-> 0]
  /\ polls = [t \in Threads |-> 0]
  /\ tmp = [t \in Threads |-> 0]
  /\ ret = [t \in Threads |-> FALSE]
  /\ accepted = [t \in Threads |-> "none"]
  /\ rx = Nothing
  /\ linkUp = FALSE
  /\ sent = <<>>
  /\ taken = 0
  /\ inbox = <<>>
  /\ session = "none"
  /\ owed = 0 /\ idle = 0 /\ silence = 0

-----------------------------------------------------------------------------
(* What the steps are made of. *)

\* The thread's next step.
Goto(t, label) == pc' = [pc EXCEPT ![t] = label]

\* A thread enters an API function.
Call(t, function, first, value, rounds) ==
  /\ Goto(t, first)
  /\ op' = [op EXCEPT ![t] = function]
  /\ arg' = [arg EXCEPT ![t] = value]
  /\ polls' = [polls EXCEPT ![t] = rounds]
  /\ accepted' = [accepted EXCEPT ![t] = "none"]

\* An API function returns and its locals are gone: a caller is in its own code
\* again, the reader is back from connected_cb, in ACTION_PARSE_INPUT_STREAM.
Return(t, value) ==
  /\ Goto(t, IF t = Reader THEN "t_load" ELSE "idle")
  /\ op' = IF t = Reader THEN [op EXCEPT ![t] = "receive"] ELSE op
  /\ ret' = [ret EXCEPT ![t] = value]
  /\ arg' = [arg EXCEPT ![t] = 0]
  /\ polls' = [polls EXCEPT ![t] = 0]
  /\ tmp' = [tmp EXCEPT ![t] = 0]

\* Fault: the count is wider than a uint8_t.
RoundsWide(timeout) == timeout * 10

\* uint8_t timeout = (a_timeout_in_sec * 10);
Rounds(timeout) == (timeout * 10) % 256

\* out_fptr takes the whole packet (ok) or fails.  A small packet always fits
\* an open connection; on a dead one the stack may still take it, and lose it.
Transmit(t, packet, ok) ==
  /\ linkUp => ok
  /\ sent' = IF ok THEN Append(sent, packet) ELSE sent
  /\ accepted' = IF ok THEN [accepted EXCEPT ![t] = packet.type] ELSE accepted
  /\ idle' = IF ok THEN 0 ELSE idle
  /\ silence' = IF ok THEN 0 ELSE silence
  /\ UNCHANGED <<linkUp, taken, inbox, session>>

Resting == \A t \in Threads : pc[t] = "idle"
Room    == Len(sent) < MaxSent /\ packetCntr < MaxSent

-----------------------------------------------------------------------------
(* mqtt_connect: ACTION_INIT, ACTION_CONNECT, the wait loop. *)

\* The program opens a connection and calls mqtt_connect on it.  The reader
\* of the connection before has left the library: programs that connect again
\* shut the old socket down and pause first.
CallConnect(c, secs, timeout) ==
  /\ pc[c] = "idle" /\ pc[Reader] = "idle"
  /\ Call(c, "connect", "c_init", secs, Rounds(timeout))
  /\ linkUp' = TRUE /\ sent' = <<>> /\ taken' = 0 /\ inbox' = <<>> /\ session' = "none"
  /\ UNCHANGED <<shared, clocks, tmp, ret, rx>>

\* Fault: ACTION_INIT leaves the state of the last connection.
ConnectInitKeepsState(c) ==
  /\ pc[c] = "c_init"
  /\ bound' = TRUE /\ packetCntr' = 0 /\ keepaliveIn' = 0 /\ timeToNextPing' = 0
  /\ Goto(c, "c_fill")
  /\ UNCHANGED <<state, subscribeStatus, buffer, locals, accepted, rx, network, clocks>>

\* Fault: g_shared_data is not set before CONNECT is sent.
ConnectInitUnbound(c) ==
  /\ pc[c] = "c_init"
  /\ state' = "STATE_DISCONNECTED"
  /\ packetCntr' = 0 /\ keepaliveIn' = 0 /\ timeToNextPing' = 0
  /\ Goto(c, "c_fill")
  /\ UNCHANGED <<bound, subscribeStatus, buffer, locals, accepted, rx, network, clocks>>

\* g_shared_data = mqtt_shared_data_ptr and ACTION_INIT.
ConnectInit(c) ==
  /\ pc[c] = "c_init"
  /\ bound' = TRUE
  /\ state' = "STATE_DISCONNECTED"
  /\ packetCntr' = 0
  /\ keepaliveIn' = 0
  /\ timeToNextPing' = 0
  /\ Goto(c, "c_fill")
  /\ UNCHANGED <<subscribeStatus, buffer, locals, accepted, rx, network, clocks>>

\* ACTION_CONNECT checks the state, mqtt_connect_ clears the buffer and forms
\* the packet.  If it does not fit, the state is set (again) to disconnected.
ConnectFill(c) ==
  /\ pc[c] = "c_fill"
  /\ \/ /\ state = "STATE_DISCONNECTED"
        /\ \/ buffer' = Hello /\ Goto(c, "c_send")
           \/ buffer' = Blank /\ Goto(c, "c_return")
     \/ /\ state # "STATE_DISCONNECTED"
        /\ buffer' = buffer /\ Goto(c, "c_return")
  /\ UNCHANGED <<bound, state, packetCntr, keepaliveIn, timeToNextPing, subscribeStatus, locals,
                 accepted, rx, network, clocks>>

ConnectSend(c) ==
  /\ pc[c] = "c_send"
  /\ \E ok \in BOOLEAN :
       /\ Transmit(c, buffer, ok)
       /\ state' = IF ok THEN state ELSE "STATE_DISCONNECTED"
       /\ owed' = IF ok THEN 0 ELSE owed
       /\ Goto(c, IF ok THEN "c_keepalive" ELSE "c_return")
  /\ UNCHANGED <<bound, packetCntr, keepaliveIn, timeToNextPing, subscribeStatus, buffer, locals,
                 rx>>

\* keepalive_in_ms = keepalive * 1000, or INT32_MIN when keepalive is off.
ConnectKeepalive(c) ==
  /\ pc[c] = "c_keepalive"
  /\ keepaliveIn' = IF arg[c] = 0 THEN INT32_MIN ELSE 2 * arg[c]
  /\ Goto(c, "c_store")
  /\ UNCHANGED <<bound, state, packetCntr, timeToNextPing, subscribeStatus, buffer, locals,
                 accepted, rx, network, clocks>>

\* keepalive_in_ms -= 500, the first ping is due at once, and the connection
\* counts as made whatever the broker answers, or has answered.
ConnectStore(c) ==
  /\ pc[c] = "c_store"
  /\ keepaliveIn' = IF arg[c] = 0 THEN keepaliveIn ELSE keepaliveIn - 1
  /\ timeToNextPing' = 0
  /\ state' = "STATE_CONNECTED"
  /\ Goto(c, "c_wait")
  /\ UNCHANGED <<bound, packetCntr, subscribeStatus, buffer, locals,
                 accepted, rx, network, clocks>>

\* Fault: the wait loop does not count.
ConnectPollForever(c) ==
  /\ pc[c] = "c_wait" /\ polls[c] # 0 /\ state # "STATE_CONNECTED"
  /\ UNCHANGED vars

ConnectPoll(c) ==
  /\ pc[c] = "c_wait" /\ polls[c] # 0 /\ state # "STATE_CONNECTED"
  /\ polls' = [polls EXCEPT ![c] = @ - 1]
  /\ UNCHANGED <<shared, pc, op, arg, tmp, ret, accepted, rx, network, clocks>>

ConnectPolled(c) ==
  /\ pc[c] = "c_wait" /\ (polls[c] = 0 \/ state = "STATE_CONNECTED")
  /\ Goto(c, "c_return")
  /\ UNCHANGED <<shared, locals, accepted, rx, network, clocks>>

ConnectReturn(c) ==
  /\ pc[c] = "c_return"
  /\ Return(c, state = "STATE_CONNECTED")
  /\ UNCHANGED <<shared, accepted, rx, network, clocks>>

-----------------------------------------------------------------------------
(* mqtt_publish, mqtt_publish_buf, mqtt_subscribe. *)

\* own = 1: mqtt_publish_buf with a buffer of the caller's.
CallPublish(c, own) ==
  /\ pc[c] = "idle" /\ Room
  /\ Call(c, "publish", "p_id", own, 0)
  /\ UNCHANGED <<shared, network, clocks, tmp, ret, rx>>

\* Before mqtt_connect has set g_shared_data the call returns false at once.
CallSubscribe(c, timeout) ==
  /\ pc[c] = "idle" /\ Room /\ bound
  /\ Call(c, "subscribe", "p_id", 0, Rounds(timeout))
  /\ UNCHANGED <<shared, network, clocks, tmp, ret, rx>>

\* Fault: the result of encode_publish is ignored.
FailedUnnoticed(t) ==
  IF op[t] = "subscribe"
    THEN /\ Goto(t, "s_clear")
         /\ ret' = [ret EXCEPT ![t] = FALSE]
         /\ UNCHANGED <<op, arg, polls, tmp>>
    ELSE Return(t, TRUE)

\* ACTION_PUBLISH or ACTION_SUBSCRIBE did not succeed.
Failed(t) ==
  IF op[t] = "subscribe"
    THEN /\ Goto(t, "s_clear")
         /\ ret' = [ret EXCEPT ![t] = FALSE]
         /\ UNCHANGED <<op, arg, polls, tmp>>
    ELSE Return(t, FALSE)

\* The guard of the two actions, and the load of mqtt_packet_cntr++.
TakeId(t) ==
  /\ pc[t] = "p_id"
  /\ IF bound /\ state = "STATE_CONNECTED"
       THEN /\ tmp' = [tmp EXCEPT ![t] = packetCntr]
            /\ Goto(t, "p_encode")
            /\ UNCHANGED <<op, ret, arg, polls>>
       ELSE Failed(t)
  /\ UNCHANGED <<shared, accepted, rx, network, clocks>>

\* Fault: the counter stands still.
NextIdSame(id) == id

NextId(id) == id + 1

\* encode_publish at QoS 0 leaves the identifier out, encode_subscribe keeps
\* its low 16 bits.
Encoded(t) ==
  IF op[t] = "publish"
    THEN [type |-> "PUBLISH", id |-> 0]
    ELSE [type |-> "SUBSCRIBE", id |-> tmp[t] % 65536]

\* The store of mqtt_packet_cntr++; the packet is formed if it fits.  If not,
\* its header may have been.
Encode(t) ==
  /\ pc[t] = "p_encode"
  /\ packetCntr' = NextId(tmp[t])
  /\ LET formed == IF arg[t] = 0 THEN Encoded(t) ELSE buffer
     IN  \/ buffer' = formed /\ Goto(t, "p_send") /\ UNCHANGED locals
         \/ buffer' \in {buffer, formed} /\ Failed(t)
  /\ UNCHANGED <<bound, state, keepaliveIn, timeToNextPing, subscribeStatus, accepted,
                 rx, network, clocks>>

\* out_fptr reads the buffer the packet was formed in.
Send(t) ==
  /\ pc[t] = "p_send"
  /\ \E ok \in BOOLEAN :
       /\ Transmit(t, IF arg[t] = 0 THEN buffer ELSE Encoded(t), ok)
       /\ IF ok
            THEN Goto(t, "t_load") /\ UNCHANGED locals
            ELSE Failed(t)
  /\ UNCHANGED <<shared, rx, owed>>

\* subscribe_status = true; the wait loop that follows reads it.
SubscribeStatus(t) ==
  /\ pc[t] = "s_status"
  /\ subscribeStatus' = TRUE
  /\ ret' = [ret EXCEPT ![t] = TRUE]
  /\ Goto(t, "s_wait")
  /\ UNCHANGED <<bound, state, packetCntr, keepaliveIn, timeToNextPing, buffer, op, arg, polls,
                 tmp, accepted, rx, network, clocks>>

SubscribePoll(t) ==
  /\ pc[t] = "s_wait" /\ polls[t] # 0 /\ ~subscribeStatus
  /\ polls' = [polls EXCEPT ![t] = @ - 1]
  /\ UNCHANGED <<shared, pc, op, arg, tmp, ret, accepted, rx, network, clocks>>

SubscribePolled(t) ==
  /\ pc[t] = "s_wait" /\ (polls[t] = 0 \/ subscribeStatus)
  /\ Goto(t, "s_clear")
  /\ UNCHANGED <<shared, locals, accepted, rx, network, clocks>>

\* The state is Successfull since the packet was sent, timed out or not.
SubscribeReturn(t) ==
  /\ pc[t] = "s_clear"
  /\ subscribeStatus' = FALSE
  /\ Return(t, ret[t])
  /\ UNCHANGED <<bound, state, packetCntr, keepaliveIn, timeToNextPing, buffer, accepted, rx,
                 network, clocks>>

-----------------------------------------------------------------------------
(* time_to_next_ping_in_ms = keepalive_in_ms, after a packet was sent or     *)
(* received: a load, then a store.                                           *)

TimerLoad(t) ==
  /\ pc[t] = "t_load"
  /\ tmp' = [tmp EXCEPT ![t] = keepaliveIn]
  /\ Goto(t, "t_store")
  /\ UNCHANGED <<shared, op, arg, polls, ret, accepted, rx, network, clocks>>

TimerStore(t) ==
  /\ pc[t] = "t_store"
  /\ timeToNextPing' = tmp[t]
  /\ \/ /\ op[t] = "subscribe"
        /\ Goto(t, "s_status")
        /\ UNCHANGED <<locals, rx, owed>>
     \/ /\ op[t] \in {"publish", "keepalive"}
        /\ Return(t, TRUE)
        /\ owed' = IF op[t] = "keepalive" THEN 0 ELSE owed
        /\ rx' = rx
     \/ /\ op[t] = "receive"
        /\ Goto(t, "idle")
        /\ tmp' = [tmp EXCEPT ![t] = 0]
        /\ rx' = Nothing
        /\ UNCHANGED <<op, ret, arg, polls, owed>>
  /\ UNCHANGED <<bound, state, packetCntr, keepaliveIn, subscribeStatus, buffer, accepted,
                 network, idle, silence>>

-----------------------------------------------------------------------------
(* mqtt_keepalive. *)

\* The application calls only after mqtt_connect has set g_shared_data, and
\* reports at least the time that has passed since it last did.
CallKeepalive(c, elapsed) ==
  /\ pc[c] = "idle" /\ Len(sent) < MaxSent /\ bound
  /\ elapsed >= owed
  /\ Call(c, "keepalive", "k_state", elapsed, 0)
  /\ UNCHANGED <<shared, network, clocks, tmp, ret, rx>>

KeepaliveState(c) ==
  /\ pc[c] = "k_state"
  /\ \/ /\ state # "STATE_CONNECTED"
        /\ Return(c, FALSE)
        /\ owed' = owed
     \/ /\ state = "STATE_CONNECTED" /\ keepaliveIn = INT32_MIN
        /\ Return(c, TRUE)
        /\ owed' = 0
     \/ /\ state = "STATE_CONNECTED" /\ keepaliveIn # INT32_MIN
        /\ Goto(c, "k_compare")
        /\ UNCHANGED <<locals, owed>>
  /\ UNCHANGED <<shared, accepted, rx, network, idle, silence>>

KeepaliveCompare(c) ==
  /\ pc[c] = "k_compare"
  /\ Goto(c, IF timeToNextPing > arg[c] THEN "k_load" ELSE "k_zero")
  /\ UNCHANGED <<shared, locals, accepted, rx, network, clocks>>

\* time_to_next_ping_in_ms -= elapsed: a load, then a store.
KeepaliveLoad(c) ==
  /\ pc[c] = "k_load"
  /\ tmp' = [tmp EXCEPT ![c] = timeToNextPing]
  /\ Goto(c, "k_store")
  /\ UNCHANGED <<shared, op, arg, polls, ret, accepted, rx, network, clocks>>

\* Fault: the elapsed time is not subtracted.
KeepaliveStoreWhole(c) ==
  /\ pc[c] = "k_store"
  /\ timeToNextPing' = tmp[c]
  /\ Goto(c, "k_test")
  /\ UNCHANGED <<bound, state, packetCntr, keepaliveIn, subscribeStatus, buffer, locals,
                 accepted, rx, network, clocks>>

KeepaliveStore(c) ==
  /\ pc[c] = "k_store"
  /\ timeToNextPing' = tmp[c] - arg[c]
  /\ Goto(c, "k_test")
  /\ UNCHANGED <<bound, state, packetCntr, keepaliveIn, subscribeStatus, buffer, locals,
                 accepted, rx, network, clocks>>

KeepaliveZero(c) ==
  /\ pc[c] = "k_zero"
  /\ timeToNextPing' = 0
  /\ Goto(c, "k_test")
  /\ UNCHANGED <<bound, state, packetCntr, keepaliveIn, subscribeStatus, buffer, locals,
                 accepted, rx, network, clocks>>

\* 0 >= time_to_next_ping_in_ms: ping, else PingNotSend, a success.
KeepaliveTest(c) ==
  /\ pc[c] = "k_test"
  /\ \/ /\ timeToNextPing <= 0
        /\ Goto(c, "k_send")
        /\ UNCHANGED <<locals, owed>>
     \/ /\ timeToNextPing > 0
        /\ Return(c, TRUE)
        /\ owed' = 0
  /\ UNCHANGED <<shared, accepted, rx, network, idle, silence>>

KeepaliveSend(c) ==
  /\ pc[c] = "k_send"
  /\ \E ok \in BOOLEAN :
       /\ Transmit(c, [type |-> "PINGREQ", id |-> 0], ok)
       /\ IF ok
            THEN Goto(c, "t_load") /\ UNCHANGED locals
            ELSE Return(c, FALSE)
  /\ UNCHANGED <<shared, rx, owed>>

-----------------------------------------------------------------------------
(* mqtt_disconnect: the state is left as it is. *)

CallDisconnect(c) ==
  /\ pc[c] = "idle" /\ Len(sent) < MaxSent
  /\ Call(c, "disconnect", "d_state", 0, 0)
  /\ UNCHANGED <<shared, network, clocks, tmp, ret, rx>>

DisconnectState(c) ==
  /\ pc[c] = "d_state"
  /\ IF bound /\ state # "STATE_DISCONNECTED"
       THEN Goto(c, "d_send") /\ UNCHANGED locals
       ELSE Return(c, FALSE)
  /\ UNCHANGED <<shared, accepted, rx, network, clocks>>

DisconnectSend(c) ==
  /\ pc[c] = "d_send"
  /\ \E ok \in BOOLEAN :
       /\ Transmit(c, [type |-> "DISCONNECT", id |-> 0], ok)
       /\ Return(c, ok)
  /\ UNCHANGED <<shared, rx, owed>>

-----------------------------------------------------------------------------
(* The reader thread: mqtt_receive and ACTION_PARSE_INPUT_STREAM. *)

\* One packet, whole, is handed to mqtt_receive.
Receive ==
  /\ pc[Reader] = "idle" /\ inbox # <<>>
  /\ rx' = Head(inbox)
  /\ inbox' = Tail(inbox)
  /\ op' = [op EXCEPT ![Reader] = "receive"]
  /\ Goto(Reader, "r_parse")
  /\ idle' = 0
  /\ UNCHANGED <<shared, arg, polls, tmp, ret, accepted, linkUp, sent, taken, session, owed,
                 silence>>

\* Fault: the return code is read as a flag.
AckStateInverted(ok) == IF ok THEN "STATE_DISCONNECTED" ELSE "STATE_CONNECTED"

AckState(ok) == IF ok THEN "STATE_CONNECTED" ELSE "STATE_DISCONNECTED"

\* The callback may call mqtt_subscribe, on this thread, with a fixed timeout.
ParseConnack ==
  /\ pc[Reader] = "r_parse" /\ rx.type = "CONNACK"
  /\ state' = AckState(rx.ok)
  /\ \/ /\ CallbackSubscribes /\ rx.ok
        /\ \E timeout \in TimeoutSecs :
             Call(Reader, "subscribe", "p_id", 0, Rounds(timeout))
     \/ /\ ~(CallbackSubscribes /\ rx.ok)
        /\ Goto(Reader, "t_load")
        /\ UNCHANGED <<op, arg, polls, accepted>>
  /\ UNCHANGED <<bound, packetCntr, keepaliveIn, timeToNextPing, subscribeStatus, buffer, tmp,
                 ret, rx, network, clocks>>

\* PUBLISH and SUBACK go to subscribe_cb_fptr, PINGRESP to nobody: none of
\* them changes the shared data before the timer is reset.
ParseOther ==
  /\ pc[Reader] = "r_parse" /\ rx.type # "CONNACK"
  /\ Goto(Reader, IF bound THEN "t_load" ELSE "idle")
  /\ rx' = IF bound THEN rx ELSE Nothing
  /\ UNCHANGED <<shared, locals, accepted, network, clocks>>

-----------------------------------------------------------------------------
(* The connection, the broker and time. *)

LinkDown ==
  /\ linkUp
  /\ linkUp' = FALSE
  /\ UNCHANGED <<shared, threads, sent, taken, inbox, session, clocks>>

\* The broker reads the client's next packet and answers it.  It speaks only
\* after CONNECT, closes a connection it refuses, and has no use for a packet
\* out of place.
BrokerReads ==
  /\ linkUp /\ taken < Len(sent) /\ Len(inbox) < MaxInbox
  /\ taken' = taken + 1
  /\ LET packet      == sent[taken + 1]
         Answer(kind) == \E ok \in BOOLEAN : inbox' = Append(inbox, [type |-> kind, ok |-> ok])
     IN  \/ /\ session = "none" /\ packet.type = "CONNECT"
            /\ \E ok \in BOOLEAN :
                 /\ inbox' = Append(inbox, [type |-> "CONNACK", ok |-> ok])
                 /\ session' = IF ok THEN "accepted" ELSE "refused"
                 /\ linkUp' = ok
         \/ /\ session = "accepted" /\ packet.type = "SUBSCRIBE"
            /\ Answer("SUBACK")
            /\ UNCHANGED <<session, linkUp>>
         \/ /\ session = "accepted" /\ packet.type = "PINGREQ"
            /\ inbox' = Append(inbox, [type |-> "PINGRESP", ok |-> TRUE])
            /\ UNCHANGED <<session, linkUp>>
         \/ /\ session = "accepted" /\ packet.type = "PUBLISH"
            /\ UNCHANGED <<session, linkUp, inbox>>
         \/ /\ session = "accepted" /\ packet.type = "DISCONNECT"
            /\ session' = "closed" /\ linkUp' = FALSE /\ inbox' = inbox
  /\ UNCHANGED <<shared, threads, sent, clocks>>

BrokerPublishes ==
  /\ linkUp /\ session = "accepted" /\ Len(inbox) < MaxInbox
  /\ inbox' = Append(inbox, [type |-> "PUBLISH", ok |-> TRUE])
  /\ UNCHANGED <<shared, threads, linkUp, sent, taken, session, clocks>>

\* Calls take no time on this scale: a tick passes while every thread is out
\* of the library.  With keepalive on, the application lets at most Period
\* ticks pass before it calls mqtt_keepalive (again, if the call failed).
\* The clocks matter to connections with keepalive only.
Tick ==
  /\ Resting
  /\ state = "STATE_CONNECTED" /\ keepaliveIn > 0
  /\ owed < Period /\ silence < MaxClock
  /\ owed' = owed + 1 /\ idle' = idle + 1 /\ silence' = silence + 1
  /\ UNCHANGED <<shared, threads, network>>

-----------------------------------------------------------------------------
Calls(c) ==
  \/ \E secs \in KeepaliveSecs, timeout \in TimeoutSecs : CallConnect(c, secs, timeout)
  \/ \E own \in {0, 1} : CallPublish(c, own)
  \/ \E timeout \in TimeoutSecs : CallSubscribe(c, timeout)
  \/ \E elapsed \in Durations : CallKeepalive(c, elapsed)
  \/ CallDisconnect(c)

\* Publish and subscribe steps, and the timer, run on either kind of thread.
SharedSteps(t) ==
  \/ TakeId(t) \/ Encode(t) \/ Send(t)
  \/ SubscribeStatus(t) \/ SubscribePoll(t) \/ SubscribePolled(t) \/ SubscribeReturn(t)
  \/ TimerLoad(t) \/ TimerStore(t)

CallerSteps(c) ==
  \/ ConnectInit(c) \/ ConnectFill(c) \/ ConnectSend(c) \/ ConnectKeepalive(c)
  \/ ConnectStore(c) \/ ConnectPoll(c) \/ ConnectPolled(c) \/ ConnectReturn(c)
  \/ KeepaliveState(c) \/ KeepaliveCompare(c) \/ KeepaliveLoad(c) \/ KeepaliveStore(c)
  \/ KeepaliveZero(c) \/ KeepaliveTest(c) \/ KeepaliveSend(c)
  \/ DisconnectState(c) \/ DisconnectSend(c)

ReaderSteps == Receive \/ ParseConnack \/ ParseOther

Environment == LinkDown \/ BrokerReads \/ BrokerPublishes \/ Tick

Next ==
  \/ \E c \in Callers : Calls(c) \/ CallerSteps(c)
  \/ \E t \in Threads : SharedSteps(t)
  \/ ReaderSteps
  \/ Environment

Spec == Init /\ [][Next]_vars

\* Threads inside the library keep running.
FairSpec ==
  /\ Spec
  /\ \A c \in Callers : WF_vars(CallerSteps(c))
  /\ \A t \in Threads : WF_vars(SharedSteps(t))
  /\ WF_vars(ReaderSteps)

-----------------------------------------------------------------------------
(* Properties that hold. *)

\* The first packet on a connection is CONNECT and no other is, although the
\* state may still say connected from the connection before, the reader may
\* set it at any moment, and all packets share one buffer (mqtt.c 1540-1627).
ConnectFirst == \A i \in DOMAIN sent : sent[i].type = "CONNECT" <=> i = 1

\* The reader thread runs before mqtt_connect has set g_shared_data, and
\* mqtt_parse_input_stream dereferences it unchecked for CONNACK and PUBLISH
\* (mqtt.c 1418, 1457): no packet reaches it that early.
NoNullDeref == pc[Reader] = "r_parse" => bound

\* Two SUBSCRIBE packets of a connection never carry the same identifier
\* (mqtt_packet_cntr++, mqtt.c 1620), failed calls and publishes in between.
UniqueIds ==
  \A i, j \in DOMAIN sent :
    sent[i].type = "SUBSCRIBE" /\ sent[j].type = "SUBSCRIBE" /\ sent[i].id = sent[j].id
      => i = j

RequestOf(function) ==
  CASE function = "connect"    -> "CONNECT"
    [] function = "publish"    -> "PUBLISH"
    [] function = "subscribe"  -> "SUBSCRIBE"
    [] function = "disconnect" -> "DISCONNECT"

\* An API function that returned true has put its own packet on the wire, and
\* nothing else (mqtt.h: "true when publish successfully formed and sent out").
TrueMeansSent ==
  \A c \in Callers :
    pc[c] = "idle" /\ ret[c] /\ op[c] # "keepalive" => accepted[c] = RequestOf(op[c])

\* Once nobody is inside the library, a connection the broker accepted and has
\* not been told to close is a connection the client takes for connected:
\* neither the order of the reader's and the caller's stores to the state
\* (mqtt.c 1418, 1560) nor a timed out wait can leave the two in disagreement.
AcceptedMeansConnected ==
  Resting /\ session = "accepted" => state = "STATE_CONNECTED"

\* While connected with keepalive on, less than the keepalive time (2 * K ticks)
\* and one interval between mqtt_keepalive calls go by without a packet in either
\* direction, unless mqtt_keepalive reports failure: stale loads and lost stores
\* of time_to_next_ping_in_ms (mqtt.c 1635-1643, 1667) only bring the next ping
\* forward.  The 500 ms taken off the keepalive time at 1555 do not tighten the
\* bound: the reader can load keepalive_in_ms between 1554 and 1555.
KeepaliveOn  == state = "STATE_CONNECTED" /\ keepaliveIn > 0
TrafficBound == KeepaliveOn => idle < keepaliveIn + 1 + Period

\* Every call returns, whether or not the broker ever answers: the wait loops
\* count down (mqtt.c 1744-1751, 1835-1841).
CallsReturn == \A c \in Callers : pc[c] # "idle" ~> pc[c] = "idle"

-----------------------------------------------------------------------------
(* Statements of the documentation that the code contradicts. *)

\* mqtt_connect: "@return true if successfully connected."
ConnectTrueMeansAccepted ==
  \A c \in Callers :
    pc[c] = "idle" /\ op[c] = "connect" /\ ret[c] => session \in {"accepted", "closed"}

\* MQTT_shared_data_t.state is the "Connection state": once the refusing CONNACK
\* has been handled it is not connected.
RefusalSticks ==
  Resting /\ session = "refused" /\ inbox = <<>> => state = "STATE_DISCONNECTED"

\* mqtt_subscribe: "Wait SUBACK from broker before returns."  A broker that has
\* sent SUBACK has at least read the SUBSCRIBE.
SubscribeWaits ==
  \A c \in Callers :
    pc[c] = "idle" /\ op[c] = "subscribe" /\ ret[c] => taken = Len(sent)

\* mqtt_keepalive "will send keepalive to broker based on mqtt_connect keepalive
\* parameters": a broker that waits one and a half keepalive times hears from
\* the client.
BrokerHears == KeepaliveOn => 2 * silence <= 3 * (keepaliveIn + 1)

=============================================================================
