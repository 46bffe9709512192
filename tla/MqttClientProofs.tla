-------------------------- MODULE MqttClientProofs --------------------------
(***************************************************************************)
(* Theorems about MqttClient: its types for every set of callers; and, for *)
(* one application thread and a reader, that every connection opens with   *)
(* CONNECT, that keepalive bounds the time without traffic, that a call    *)
(* that returns true has sent its packet, that identifiers are not used    *)
(* twice on a connection, that a connection the broker accepted is one the *)
(* client takes for connected, and that MqttClient implements MqttSession. *)
(***************************************************************************)
EXTENDS ClientSession, TLAPS

\* The types need a fact about threads in the middle of a call: an identifier
\* taken is a natural number, although the local it is in holds any integer.
CallTypes == \A t \in Threads : pc[t] = "p_encode" => tmp[t] \in Nat

TypeInv == SharedTypes /\ ThreadTypes /\ NetworkTypes /\ ClockTypes /\ CallTypes

LEMMA RoundsType == \A timeout \in TimeoutSecs : Rounds(timeout) \in 0..255
BY SMT, TimeoutAssumption DEF Rounds

LEMMA PacketTypes ==
  /\ Hello \in ClientPacket /\ Blank \in ClientPacket
  /\ [type |-> "PINGREQ", id |-> 0] \in ClientPacket
  /\ [type |-> "DISCONNECT", id |-> 0] \in ClientPacket
BY SMT DEF Hello, Blank, ClientPacket, ClientTypes

LEMMA NoneType == "none" \in ClientTypes
BY DEF ClientTypes

LEMMA EncodedType ==
  ASSUME NEW t \in Threads, tmp \in [Threads -> Int]
  PROVE  Encoded(t) \in ClientPacket
BY SMT DEF Encoded, ClientPacket, ClientTypes

LEMMA TransmitTypes ==
  ASSUME TypeInv, NEW t \in Threads, NEW packet \in ClientPacket, NEW ok \in BOOLEAN,
         Transmit(t, packet, ok)
  PROVE  /\ NetworkTypes'
         /\ accepted' \in [Threads -> ClientTypes]
         /\ idle' \in Nat /\ silence' \in Nat
<1>1. packet.type \in ClientTypes
  BY SMT DEF ClientPacket
<1>2. sent' \in Seq(ClientPacket)
  BY SMT DEF Transmit, TypeInv, NetworkTypes
<1>3. accepted' \in [Threads -> ClientTypes]
  BY SMT, <1>1 DEF Transmit, TypeInv, ThreadTypes
<1> QED
  BY SMT, <1>2, <1>3 DEF Transmit, TypeInv, NetworkTypes, ClockTypes

\* What an API function leaves of its locals: types, and nothing in between.
LEMMA ReturnTypes ==
  ASSUME TypeInv, NEW t \in Threads, NEW value \in BOOLEAN, Return(t, value)
  PROVE  LocalTypes' /\ CallTypes'
<1> USE DEF TypeInv, ThreadTypes, LocalTypes, Return, Goto
<1>1. pc' \in [Threads -> Labels] /\ op' \in [Threads -> Functions]
  BY SMT DEF Labels, Functions
<1>2. ret' \in [Threads -> BOOLEAN] /\ arg' \in [Threads -> Nat]
  BY SMT
<1>3. polls' \in [Threads -> 0..255] /\ tmp' \in [Threads -> Int]
  BY SMT
<1>4. \A s \in Threads :
        \/ s = t /\ pc'[s] \in {"t_load", "idle"}
        \/ s # t /\ pc'[s] = pc[s] /\ tmp'[s] = tmp[s] /\ arg'[s] = arg[s]
  BY SMT
<1>5. CallTypes'
  BY SMT, <1>4 DEF CallTypes
<1> QED
  BY <1>1, <1>2, <1>3, <1>5

\* A step that only moves a thread on.
LEMMA GotoTypes ==
  ASSUME TypeInv, NEW t \in Threads, NEW label \in Labels \ {"p_encode", "c_send", "p_send"},
         Goto(t, label), UNCHANGED <<locals, buffer>>
  PROVE  LocalTypes' /\ CallTypes'
<1> USE DEF TypeInv, ThreadTypes, LocalTypes, Goto, locals
<1>1. LocalTypes'
  BY SMT
<1>2. \A s \in Threads : pc'[s] = IF s = t THEN label ELSE pc[s]
  BY SMT
<1>3. CallTypes'
  BY SMT, <1>2 DEF CallTypes
<1> QED
  BY <1>1, <1>3

LEMMA FailedTypes ==
  ASSUME TypeInv, NEW t \in Threads, Failed(t)
  PROVE  LocalTypes' /\ CallTypes'
<1>1. CASE op[t] = "subscribe"
  <2> USE DEF TypeInv, ThreadTypes, LocalTypes
  <2>1. /\ pc' = [pc EXCEPT ![t] = "s_clear"] /\ ret' = [ret EXCEPT ![t] = FALSE]
        /\ UNCHANGED <<op, arg, polls, tmp>>
    BY <1>1 DEF Failed, Goto
  <2>2. LocalTypes'
    BY SMT, <2>1 DEF Labels
  <2>3. \A s \in Threads : pc'[s] = IF s = t THEN "s_clear" ELSE pc[s]
    BY SMT, <2>1
  <2>4. CallTypes'
    BY SMT, <2>1, <2>3 DEF CallTypes
  <2> QED
    BY <2>2, <2>4
<1>2. CASE op[t] # "subscribe"
  BY <1>2, ReturnTypes DEF Failed
<1> QED
  BY <1>1, <1>2

LEMMA TypeInit == Init => TypeInv
<1> SUFFICES ASSUME Init PROVE TypeInv
  OBVIOUS
<1>1. SharedTypes
  <2>1. /\ bound = FALSE /\ state = "STATE_DISCONNECTED" /\ packetCntr = 0 /\ keepaliveIn = 0
        /\ timeToNextPing = 0 /\ subscribeStatus = FALSE /\ buffer = Blank
    BY DEF Init
  <2>2. buffer \in ClientPacket
    BY <2>1, PacketTypes
  <2>3. packetCntr \in Nat /\ keepaliveIn \in Int /\ timeToNextPing \in Int
    BY SMT, <2>1
  <2>4. bound \in BOOLEAN /\ subscribeStatus \in BOOLEAN
    BY <2>1
  <2>5. state \in {"STATE_DISCONNECTED", "STATE_CONNECTED"}
    BY <2>1
  <2> QED
    BY <2>2, <2>3, <2>4, <2>5 DEF SharedTypes
<1>2. pc = [t \in Threads |-> "idle"] /\ op = [t \in Threads |-> "none"]
  BY DEF Init
<1>3. pc \in [Threads -> Labels] /\ op \in [Threads -> Functions]
  BY SMT, <1>2 DEF Labels, Functions
<1>4. ThreadTypes
  BY SMT, <1>3, NoneType DEF Init, ThreadTypes, LocalTypes
<1>5. NetworkTypes /\ ClockTypes
  <2>1. /\ linkUp = FALSE /\ sent = <<>> /\ taken = 0 /\ inbox = <<>> /\ session = "none"
        /\ owed = 0 /\ idle = 0 /\ silence = 0
    BY DEF Init
  <2>2. sent \in Seq(ClientPacket)
    BY SMT, <2>1
  <2>3. inbox \in Seq(BrokerPacket)
    BY SMT, <2>1
  <2>4. taken \in Nat /\ owed \in Nat /\ idle \in Nat /\ silence \in Nat
    BY SMT, <2>1
  <2>5. linkUp \in BOOLEAN /\ session \in {"none", "accepted", "refused", "closed"}
    BY <2>1
  <2> QED
    BY <2>2, <2>3, <2>4, <2>5 DEF NetworkTypes, ClockTypes
<1>6. CallTypes
  BY SMT, <1>2 DEF CallTypes
<1> QED
  BY <1>1, <1>4, <1>5, <1>6 DEF TypeInv

LEMMA TypeStep == TypeInv /\ [Next]_vars => TypeInv'
<1> SUFFICES ASSUME TypeInv, [Next]_vars PROVE TypeInv'
  OBVIOUS
<1> USE DEF TypeInv, Goto, Labels, Functions, locals, shared, threads, network, clocks
<1>1. ASSUME NEW c \in Callers, NEW secs \in KeepaliveSecs, NEW timeout \in TimeoutSecs,
             CallConnect(c, secs, timeout)
      PROVE TypeInv'
  <2>1. SharedTypes' /\ NetworkTypes' /\ ClockTypes'
    BY SMT, <1>1 DEF CallConnect, SharedTypes, NetworkTypes, ClockTypes
  <2>2. ThreadTypes'
    BY SMT, <1>1, NoneType, RoundsType, KeepaliveAssumption
       DEF CallConnect, Call, Threads, ThreadTypes, LocalTypes
  <2>3. CallTypes'
    BY SMT, <1>1 DEF CallConnect, Call, CallTypes, ThreadTypes, LocalTypes, SharedTypes
  <2> QED
    BY <2>1, <2>2, <2>3
<1>2. ASSUME NEW c \in Callers, NEW own \in {0, 1}, CallPublish(c, own) PROVE TypeInv'
  <2>1. SharedTypes' /\ NetworkTypes' /\ ClockTypes'
    BY SMT, <1>2 DEF CallPublish, SharedTypes, NetworkTypes, ClockTypes
  <2>2. ThreadTypes'
    BY SMT, <1>2, NoneType DEF CallPublish, Call, Threads, ThreadTypes, LocalTypes
  <2>3. CallTypes'
    BY SMT, <1>2 DEF CallPublish, Call, CallTypes, ThreadTypes, LocalTypes, SharedTypes
  <2> QED
    BY <2>1, <2>2, <2>3
<1>3. ASSUME NEW c \in Callers, NEW timeout \in TimeoutSecs, CallSubscribe(c, timeout) PROVE TypeInv'
  <2>1. SharedTypes' /\ NetworkTypes' /\ ClockTypes'
    BY SMT, <1>3 DEF CallSubscribe, SharedTypes, NetworkTypes, ClockTypes
  <2>2. ThreadTypes'
    BY SMT, <1>3, NoneType, RoundsType DEF CallSubscribe, Call, Threads, ThreadTypes, LocalTypes
  <2>3. CallTypes'
    BY SMT, <1>3 DEF CallSubscribe, Call, CallTypes, ThreadTypes, LocalTypes, SharedTypes
  <2> QED
    BY <2>1, <2>2, <2>3
<1>4. ASSUME NEW c \in Callers, NEW elapsed \in Durations, CallKeepalive(c, elapsed) PROVE TypeInv'
  <2>1. SharedTypes' /\ NetworkTypes' /\ ClockTypes'
    BY SMT, <1>4 DEF CallKeepalive, SharedTypes, NetworkTypes, ClockTypes
  <2>2. ThreadTypes'
    BY SMT, <1>4, NoneType, DurationAssumption DEF CallKeepalive, Call, Threads, ThreadTypes, LocalTypes
  <2>3. CallTypes'
    BY SMT, <1>4 DEF CallKeepalive, Call, CallTypes, ThreadTypes, LocalTypes, SharedTypes
  <2> QED
    BY <2>1, <2>2, <2>3
<1>5. ASSUME NEW c \in Callers, CallDisconnect(c) PROVE TypeInv'
  <2>1. SharedTypes' /\ NetworkTypes' /\ ClockTypes'
    BY SMT, <1>5 DEF CallDisconnect, SharedTypes, NetworkTypes, ClockTypes, ThreadTypes, LocalTypes, Call
  <2>2. ThreadTypes'
    BY SMT, <1>5, NoneType DEF CallDisconnect, Threads, ThreadTypes, LocalTypes, Call
  <2>3. CallTypes'
    BY SMT, <1>5 DEF CallDisconnect, Threads, CallTypes, ThreadTypes, LocalTypes, SharedTypes, Call
  <2> QED
    BY <2>1, <2>2, <2>3
<1>6. ASSUME NEW c \in Callers, ConnectInit(c) PROVE TypeInv'
  <2>1. SharedTypes' /\ NetworkTypes' /\ ClockTypes'
    BY SMT, <1>6 DEF ConnectInit, SharedTypes, NetworkTypes, ClockTypes, ThreadTypes, LocalTypes
  <2>2. ThreadTypes'
    BY SMT, <1>6 DEF ConnectInit, Threads, ThreadTypes, LocalTypes
  <2>3. CallTypes'
    BY SMT, <1>6 DEF ConnectInit, Threads, CallTypes, ThreadTypes, LocalTypes, SharedTypes
  <2> QED
    BY <2>1, <2>2, <2>3
<1>7. ASSUME NEW c \in Callers, ConnectFill(c) PROVE TypeInv'
  <2>1. \/ buffer' = Hello /\ Goto(c, "c_send")
        \/ buffer' \in {buffer, Blank} /\ Goto(c, "c_return")
    BY <1>7 DEF ConnectFill
  <2>2. SharedTypes' /\ NetworkTypes' /\ ClockTypes'
    BY SMT, <1>7, <2>1, PacketTypes DEF ConnectFill, SharedTypes, ClockTypes, NetworkTypes
  <2>3. ThreadTypes'
    BY SMT, <1>7, <2>1 DEF ConnectFill, Threads, ThreadTypes, LocalTypes
  <2>4. CallTypes'
    BY SMT, <1>7, <2>1, PacketTypes DEF ConnectFill, Threads, ThreadTypes, LocalTypes, CallTypes
  <2> QED
    BY <2>1, <2>2, <2>3, <2>4
<1>8. ASSUME NEW c \in Callers, ConnectSend(c) PROVE TypeInv'
  <2>1. c \in Threads /\ buffer \in ClientPacket
    BY SMT, <1>8, PacketTypes, EncodedType DEF ConnectSend, Threads, SharedTypes, CallTypes, ThreadTypes, LocalTypes
  <2>2. PICK ok \in BOOLEAN : Transmit(c, buffer, ok) /\ 
                      /\ state' = (IF ok THEN state ELSE "STATE_DISCONNECTED")
                      /\ owed' = (IF ok THEN 0 ELSE owed)
                      /\ Goto(c, IF ok THEN "c_keepalive" ELSE "c_return")
    BY <1>8 DEF ConnectSend
  <2>3. /\ NetworkTypes' /\ idle' \in Nat /\ silence' \in Nat
        /\ accepted' \in [Threads -> ClientTypes]
    BY <2>1, <2>2, TransmitTypes
  <2>4. UNCHANGED <<bound, packetCntr, keepaliveIn, timeToNextPing, subscribeStatus, buffer,
                    locals, rx>>
    BY <1>8 DEF ConnectSend
  <2>5. SharedTypes'
    BY SMT, <2>2, <2>4 DEF SharedTypes
  <2>6. ClockTypes'
    BY SMT, <2>2, <2>3 DEF ClockTypes
  <2>7. ThreadTypes'
    <3>1. Goto(c, "c_keepalive") \/ Goto(c, "c_return")
      BY Zenon, <2>2
    <3>2. pc' \in [Threads -> Labels]
      BY SMT, <3>1 DEF ThreadTypes, LocalTypes
    <3> QED
      BY SMT, <2>3, <2>4, <3>2 DEF ThreadTypes, LocalTypes
  <2>8. \A s \in Threads : pc'[s] = pc[s] \/ pc'[s] \in {"c_keepalive", "c_return"}
    BY SMT, <2>2 DEF ThreadTypes, LocalTypes
  <2>9. CallTypes'
    BY SMT, <2>4, <2>8 DEF CallTypes
  <2> QED
    BY <2>3, <2>5, <2>6, <2>7, <2>9
<1>9. ASSUME NEW c \in Callers, ConnectKeepalive(c) PROVE TypeInv'
  <2>1. SharedTypes' /\ NetworkTypes' /\ ClockTypes'
    BY SMT, <1>9 DEF ConnectKeepalive, SharedTypes, NetworkTypes, ClockTypes, ThreadTypes, LocalTypes, INT32_MIN
  <2>2. ThreadTypes'
    BY SMT, <1>9 DEF ConnectKeepalive, Threads, ThreadTypes, LocalTypes, INT32_MIN
  <2>3. CallTypes'
    BY SMT, <1>9 DEF ConnectKeepalive, Threads, CallTypes, ThreadTypes, LocalTypes, SharedTypes, INT32_MIN
  <2> QED
    BY <2>1, <2>2, <2>3
<1>10. ASSUME NEW c \in Callers, ConnectStore(c) PROVE TypeInv'
  <2>1. SharedTypes' /\ NetworkTypes' /\ ClockTypes'
    BY SMT, <1>10 DEF ConnectStore, SharedTypes, NetworkTypes, ClockTypes, ThreadTypes, LocalTypes
  <2>2. ThreadTypes'
    BY SMT, <1>10 DEF ConnectStore, Threads, ThreadTypes, LocalTypes
  <2>3. CallTypes'
    BY SMT, <1>10 DEF ConnectStore, Threads, CallTypes, ThreadTypes, LocalTypes, SharedTypes
  <2> QED
    BY <2>1, <2>2, <2>3
<1>11. ASSUME NEW c \in Callers, ConnectPoll(c) PROVE TypeInv'
  <2>1. SharedTypes' /\ NetworkTypes' /\ ClockTypes'
    BY SMT, <1>11 DEF ConnectPoll, SharedTypes, NetworkTypes, ClockTypes, ThreadTypes, LocalTypes
  <2>2. ThreadTypes'
    BY SMT, <1>11 DEF ConnectPoll, Threads, ThreadTypes, LocalTypes
  <2>3. CallTypes'
    BY SMT, <1>11 DEF ConnectPoll, Threads, CallTypes, ThreadTypes, LocalTypes, SharedTypes
  <2> QED
    BY <2>1, <2>2, <2>3
<1>12. ASSUME NEW c \in Callers, ConnectPolled(c) PROVE TypeInv'
  <2>1. SharedTypes' /\ NetworkTypes' /\ ClockTypes'
    BY SMT, <1>12 DEF ConnectPolled, SharedTypes, NetworkTypes, ClockTypes, ThreadTypes, LocalTypes
  <2>2. ThreadTypes'
    BY SMT, <1>12 DEF ConnectPolled, Threads, ThreadTypes, LocalTypes
  <2>3. CallTypes'
    BY SMT, <1>12 DEF ConnectPolled, Threads, CallTypes, ThreadTypes, LocalTypes, SharedTypes
  <2> QED
    BY <2>1, <2>2, <2>3
<1>13. ASSUME NEW c \in Callers, ConnectReturn(c) PROVE TypeInv'
  <2>1. LocalTypes' /\ CallTypes'
    BY <1>13, ReturnTypes DEF ConnectReturn, Threads
  <2> QED
    BY SMT, <1>13, <2>1 DEF ConnectReturn, SharedTypes, ThreadTypes, NetworkTypes, ClockTypes
<1>14. ASSUME NEW t \in Threads, TakeId(t) PROVE TypeInv'
  <2>1. UNCHANGED <<shared, accepted, rx, network, clocks>>
    BY <1>14 DEF TakeId
  <2>2. SharedTypes' /\ NetworkTypes' /\ ClockTypes'
    BY SMT, <2>1 DEF SharedTypes, NetworkTypes, ClockTypes
  <2>3. CASE bound /\ state = "STATE_CONNECTED"
    <3>1. /\ tmp' = [tmp EXCEPT ![t] = packetCntr] /\ Goto(t, "p_encode")
          /\ UNCHANGED <<op, ret, arg, polls>>
      BY <1>14, <2>3 DEF TakeId
    <3>2. ThreadTypes'
      BY SMT, <2>1, <3>1 DEF ThreadTypes, LocalTypes, SharedTypes
    <3>3. CallTypes'
      BY SMT, <2>1, <3>1 DEF CallTypes, ThreadTypes, LocalTypes, SharedTypes
    <3> QED
      BY <2>2, <3>2, <3>3
  <2>4. CASE ~(bound /\ state = "STATE_CONNECTED")
    <3>1. LocalTypes' /\ CallTypes'
      BY <1>14, <2>1, <2>4, FailedTypes DEF TakeId
    <3> QED
      BY SMT, <2>1, <2>2, <3>1 DEF ThreadTypes
  <2> QED
    BY <2>3, <2>4
<1>15. ASSUME NEW t \in Threads, Encode(t) PROVE TypeInv'
  <2>1. buffer' \in {buffer, Encoded(t)}
    BY <1>15 DEF Encode
  <2>2. UNCHANGED <<bound, state, keepaliveIn, timeToNextPing, subscribeStatus, accepted, rx,
                    network, clocks>>
    BY <1>15 DEF Encode
  <2>3. packetCntr' \in Nat
    BY SMT, <1>15 DEF Encode, NextId, CallTypes
  <2>4. SharedTypes' /\ NetworkTypes' /\ ClockTypes'
    <3>1. Encoded(t) \in ClientPacket
      BY EncodedType DEF ThreadTypes, LocalTypes
    <3>2. buffer' \in ClientPacket
      BY <2>1, <3>1 DEF SharedTypes
    <3> QED
      BY SMT, <2>2, <2>3, <3>2 DEF SharedTypes, NetworkTypes, ClockTypes
  <2>5. LocalTypes' /\ CallTypes'
    <3>1. CASE Goto(t, "p_send") /\ UNCHANGED locals
      BY SMT, <3>1 DEF CallTypes, ThreadTypes, LocalTypes
    <3>2. CASE Failed(t)
      BY <3>2, FailedTypes
    <3> QED
      BY <1>15, <3>1, <3>2 DEF Encode
  <2> QED
    BY SMT, <2>2, <2>4, <2>5 DEF ThreadTypes
<1>16. ASSUME NEW t \in Threads, SubscribeStatus(t) PROVE TypeInv'
  <2>1. SharedTypes' /\ NetworkTypes' /\ ClockTypes'
    BY SMT, <1>16 DEF SubscribeStatus, SharedTypes, NetworkTypes, ClockTypes, ThreadTypes, LocalTypes
  <2>2. ThreadTypes'
    BY SMT, <1>16 DEF SubscribeStatus, Threads, ThreadTypes, LocalTypes, NetworkTypes
  <2>3. CallTypes'
    BY SMT, <1>16 DEF SubscribeStatus, Threads, CallTypes, ThreadTypes, LocalTypes, SharedTypes
  <2> QED
    BY <2>1, <2>2, <2>3
<1>17. ASSUME NEW t \in Threads, SubscribePoll(t) PROVE TypeInv'
  <2>1. SharedTypes' /\ NetworkTypes' /\ ClockTypes'
    BY SMT, <1>17 DEF SubscribePoll, SharedTypes, NetworkTypes, ClockTypes, ThreadTypes, LocalTypes
  <2>2. ThreadTypes'
    BY SMT, <1>17 DEF SubscribePoll, Threads, ThreadTypes, LocalTypes, NetworkTypes
  <2>3. CallTypes'
    BY SMT, <1>17 DEF SubscribePoll, Threads, CallTypes, ThreadTypes, LocalTypes, SharedTypes
  <2> QED
    BY <2>1, <2>2, <2>3
<1>18. ASSUME NEW t \in Threads, SubscribePolled(t) PROVE TypeInv'
  <2>1. SharedTypes' /\ NetworkTypes' /\ ClockTypes'
    BY SMT, <1>18 DEF SubscribePolled, SharedTypes, NetworkTypes, ClockTypes, ThreadTypes, LocalTypes
  <2>2. ThreadTypes'
    BY SMT, <1>18 DEF SubscribePolled, Threads, ThreadTypes, LocalTypes, NetworkTypes
  <2>3. CallTypes'
    BY SMT, <1>18 DEF SubscribePolled, Threads, CallTypes, ThreadTypes, LocalTypes, SharedTypes
  <2> QED
    BY <2>1, <2>2, <2>3
<1>19. ASSUME NEW t \in Threads, SubscribeReturn(t) PROVE TypeInv'
  <2>1. ret[t] \in BOOLEAN
    BY SMT DEF ThreadTypes, LocalTypes
  <2>2. LocalTypes' /\ CallTypes'
    BY <1>19, <2>1, ReturnTypes DEF SubscribeReturn
  <2>3. /\ subscribeStatus' = FALSE
        /\ UNCHANGED <<bound, state, packetCntr, keepaliveIn, timeToNextPing, buffer, accepted,
                       rx, network, clocks>>
    BY <1>19 DEF SubscribeReturn
  <2>4. SharedTypes'
    BY Zenon, <2>3 DEF SharedTypes
  <2>5. ThreadTypes' /\ NetworkTypes' /\ ClockTypes'
    BY Zenon, <2>2, <2>3 DEF ThreadTypes, NetworkTypes, ClockTypes
  <2> QED
    BY <2>2, <2>4, <2>5
<1>20. ASSUME NEW t \in Threads, TimerLoad(t) PROVE TypeInv'
  <2>1. /\ tmp' = [tmp EXCEPT ![t] = keepaliveIn] /\ Goto(t, "t_store")
        /\ UNCHANGED <<shared, op, arg, polls, ret, accepted, rx, network, clocks>>
    BY <1>20 DEF TimerLoad
  <2>2. SharedTypes' /\ NetworkTypes' /\ ClockTypes'
    BY SMT, <2>1 DEF SharedTypes, NetworkTypes, ClockTypes
  <2>3. keepaliveIn \in Int
    BY DEF SharedTypes
  <2>4. ThreadTypes'
    BY SMT, <2>1, <2>3 DEF ThreadTypes, LocalTypes
  <2>5. CallTypes'
    BY SMT, <2>1 DEF CallTypes, ThreadTypes, LocalTypes
  <2> QED
    BY <2>2, <2>4, <2>5
<1>21. ASSUME NEW c \in Callers, KeepaliveCompare(c) PROVE TypeInv'
  <2>1. SharedTypes' /\ NetworkTypes' /\ ClockTypes'
    BY SMT, <1>21 DEF KeepaliveCompare, SharedTypes, NetworkTypes, ClockTypes, ThreadTypes, LocalTypes
  <2>2. ThreadTypes'
    BY SMT, <1>21 DEF KeepaliveCompare, Threads, ThreadTypes, LocalTypes, NetworkTypes
  <2>3. CallTypes'
    BY SMT, <1>21 DEF KeepaliveCompare, Threads, CallTypes, ThreadTypes, LocalTypes, SharedTypes
  <2> QED
    BY <2>1, <2>2, <2>3
<1>22. ASSUME NEW c \in Callers, KeepaliveLoad(c) PROVE TypeInv'
  <2>1. SharedTypes' /\ NetworkTypes' /\ ClockTypes'
    BY SMT, <1>22 DEF KeepaliveLoad, SharedTypes, NetworkTypes, ClockTypes, ThreadTypes, LocalTypes
  <2>2. ThreadTypes'
    BY SMT, <1>22 DEF KeepaliveLoad, Threads, ThreadTypes, LocalTypes, SharedTypes
  <2>3. CallTypes'
    BY SMT, <1>22 DEF KeepaliveLoad, Threads, CallTypes, ThreadTypes, LocalTypes, SharedTypes
  <2> QED
    BY <2>1, <2>2, <2>3
<1>23. ASSUME NEW c \in Callers, KeepaliveStore(c) PROVE TypeInv'
  <2>1. SharedTypes' /\ NetworkTypes' /\ ClockTypes'
    BY SMT, <1>23 DEF KeepaliveStore, SharedTypes, NetworkTypes, ClockTypes, ThreadTypes, LocalTypes
  <2>2. ThreadTypes'
    BY SMTT(20), <1>23 DEF KeepaliveStore, Threads, ThreadTypes, LocalTypes, NetworkTypes
  <2>3. CallTypes'
    BY SMT, <1>23 DEF KeepaliveStore, Threads, CallTypes, ThreadTypes, LocalTypes, SharedTypes
  <2> QED
    BY <2>1, <2>2, <2>3
<1>24. ASSUME NEW c \in Callers, KeepaliveZero(c) PROVE TypeInv'
  <2>1. SharedTypes' /\ NetworkTypes' /\ ClockTypes'
    BY SMT, <1>24 DEF KeepaliveZero, SharedTypes, NetworkTypes, ClockTypes, ThreadTypes, LocalTypes
  <2>2. ThreadTypes'
    BY SMT, <1>24 DEF KeepaliveZero, Threads, ThreadTypes, LocalTypes, NetworkTypes
  <2>3. CallTypes'
    BY SMT, <1>24 DEF KeepaliveZero, Threads, CallTypes, ThreadTypes, LocalTypes, SharedTypes
  <2> QED
    BY <2>1, <2>2, <2>3
<1>25. ASSUME Receive PROVE TypeInv'
  <2>1. SharedTypes' /\ NetworkTypes' /\ ClockTypes'
    BY SMT, <1>25 DEF Receive, SharedTypes, NetworkTypes, ClockTypes, ThreadTypes, LocalTypes
  <2>2. ThreadTypes'
    <3>1. LocalTypes'
      BY SMT, <1>25 DEF Receive, Goto, Threads, ThreadTypes, LocalTypes, Labels, Functions
    <3>2. Head(inbox) \in BrokerPacket
      BY SMT, <1>25 DEF Receive, NetworkTypes
    <3>3. rx' = Head(inbox) /\ UNCHANGED accepted
      BY <1>25 DEF Receive
    <3> QED
      BY Zenon, <3>1, <3>2, <3>3 DEF ThreadTypes
  <2>3. CallTypes'
    BY SMT, <1>25 DEF Receive, Threads, CallTypes, ThreadTypes, LocalTypes, SharedTypes
  <2> QED
    BY <2>1, <2>2, <2>3
<1>26. ASSUME ParseOther PROVE TypeInv'
  <2>1. SharedTypes' /\ NetworkTypes' /\ ClockTypes'
    BY SMT, <1>26 DEF ParseOther, SharedTypes, NetworkTypes, ClockTypes, ThreadTypes, LocalTypes
  <2>2. ThreadTypes'
    <3>1. LocalTypes'
      BY SMT, <1>26 DEF ParseOther, Goto, Threads, ThreadTypes, LocalTypes, Labels, locals
    <3>2. (rx' = rx \/ rx' = Nothing) /\ UNCHANGED accepted
      BY <1>26 DEF ParseOther
    <3> QED
      BY Zenon, <3>1, <3>2 DEF ThreadTypes
  <2>3. CallTypes'
    BY SMT, <1>26 DEF ParseOther, Threads, CallTypes, ThreadTypes, LocalTypes, SharedTypes
  <2> QED
    BY <2>1, <2>2, <2>3
<1>27. ASSUME LinkDown PROVE TypeInv'
  <2>1. SharedTypes' /\ NetworkTypes' /\ ClockTypes'
    BY Zenon, <1>27 DEF LinkDown, SharedTypes, NetworkTypes, ClockTypes
  <2>2. ThreadTypes'
    BY SMT, <1>27 DEF LinkDown, Threads, ThreadTypes, LocalTypes, NetworkTypes
  <2>3. CallTypes'
    BY SMT, <1>27 DEF LinkDown, Threads, CallTypes, ThreadTypes, LocalTypes, SharedTypes
  <2> QED
    BY <2>1, <2>2, <2>3
<1>28. ASSUME BrokerPublishes PROVE TypeInv'
  <2>1. SharedTypes' /\ NetworkTypes' /\ ClockTypes'
    BY SMT, <1>28 DEF BrokerPublishes, SharedTypes, NetworkTypes, ClockTypes, ThreadTypes, LocalTypes, BrokerPacket
  <2>2. ThreadTypes'
    BY Zenon, <1>28 DEF BrokerPublishes, ThreadTypes, LocalTypes, threads, locals
  <2>3. CallTypes'
    BY SMT, <1>28 DEF BrokerPublishes, Threads, CallTypes, ThreadTypes, LocalTypes, SharedTypes, BrokerPacket
  <2> QED
    BY <2>1, <2>2, <2>3
<1>29. ASSUME Tick PROVE TypeInv'
  <2>1. SharedTypes' /\ NetworkTypes' /\ ClockTypes'
    BY SMT, <1>29 DEF Tick, SharedTypes, NetworkTypes, ClockTypes, ThreadTypes, LocalTypes
  <2>2. ThreadTypes'
    BY SMT, <1>29 DEF Tick, Threads, ThreadTypes, LocalTypes, NetworkTypes
  <2>3. CallTypes'
    BY SMT, <1>29 DEF Tick, Threads, CallTypes, ThreadTypes, LocalTypes, SharedTypes
  <2> QED
    BY <2>1, <2>2, <2>3
<1>30. ASSUME NEW t \in Threads, Send(t) PROVE TypeInv'
  <2> DEFINE packet == IF arg[t] = 0 THEN buffer ELSE Encoded(t)
  <2>1. packet \in ClientPacket
    <3>1. Encoded(t) \in ClientPacket
      BY EncodedType DEF ThreadTypes, LocalTypes
    <3>2. arg[t] = 0 => buffer \in ClientPacket
      BY <1>30 DEF Send, CallTypes, SharedTypes
    <3> QED
      BY <3>1, <3>2
  <2> HIDE DEF packet
  <2>2. PICK ok \in BOOLEAN :
          /\ Transmit(t, packet, ok)
          /\ IF ok THEN Goto(t, "t_load") /\ UNCHANGED locals ELSE Failed(t)
    BY <1>30 DEF Send, packet
  <2>3. UNCHANGED <<shared, rx, owed>>
    BY <1>30 DEF Send
  <2>4. /\ NetworkTypes' /\ idle' \in Nat /\ silence' \in Nat
        /\ accepted' \in [Threads -> ClientTypes]
    BY <2>1, <2>2, TransmitTypes
  <2>5. SharedTypes' /\ ClockTypes' /\ rx' \in BrokerPacket \cup {Nothing}
    BY Zenon, <2>3, <2>4 DEF SharedTypes, ClockTypes, ThreadTypes
  <2>6. LocalTypes' /\ CallTypes'
    <3>1. CASE ok
      <4>1. Goto(t, "t_load") /\ UNCHANGED locals /\ UNCHANGED buffer
        BY <2>2, <2>3, <3>1
      <4> QED
        BY <2>1, <4>1, GotoTypes
    <3>2. CASE ~ok
      BY <2>2, <2>3, <3>2, FailedTypes
    <3> QED
      BY <3>1, <3>2
  <2> QED
    BY <2>4, <2>5, <2>6 DEF ThreadTypes
<1>31. ASSUME NEW c \in Callers, KeepaliveSend(c) PROVE TypeInv'
  <2> DEFINE packet == [type |-> "PINGREQ", id |-> 0]
  <2>1. packet \in ClientPacket /\ c \in Threads
    BY PacketTypes DEF Threads
  <2> HIDE DEF packet
  <2>2. PICK ok \in BOOLEAN : Transmit(c, packet, ok) /\ (IF ok THEN Goto(c, "t_load") /\ UNCHANGED locals ELSE Return(c, FALSE))
    BY <1>31 DEF KeepaliveSend, packet
  <2>3. UNCHANGED <<shared, rx, owed>>
    BY <1>31 DEF KeepaliveSend
  <2>4. /\ NetworkTypes' /\ idle' \in Nat /\ silence' \in Nat
        /\ accepted' \in [Threads -> ClientTypes]
    BY <2>1, <2>2, TransmitTypes
  <2>5. SharedTypes' /\ ClockTypes' /\ rx' \in BrokerPacket \cup {Nothing}
    BY Zenon, <2>3, <2>4 DEF SharedTypes, ClockTypes, ThreadTypes
  <2>6. LocalTypes' /\ CallTypes'
    <3>1. CASE ok
      <4>1. Goto(c, "t_load") /\ UNCHANGED locals /\ UNCHANGED buffer
        BY <2>2, <2>3, <3>1
      <4> QED
        BY <2>1, <4>1, GotoTypes
    <3>2. CASE ~ok
      BY <2>1, <2>2, <2>3, <3>2, ReturnTypes
    <3> QED
      BY <3>1, <3>2
  <2> QED
    BY <2>4, <2>5, <2>6 DEF ThreadTypes
<1>32. ASSUME NEW c \in Callers, DisconnectSend(c) PROVE TypeInv'
  <2> DEFINE packet == [type |-> "DISCONNECT", id |-> 0]
  <2>1. packet \in ClientPacket /\ c \in Threads
    BY PacketTypes DEF Threads
  <2> HIDE DEF packet
  <2>2. PICK ok \in BOOLEAN : Transmit(c, packet, ok) /\ Return(c, ok)
    BY <1>32 DEF DisconnectSend, packet
  <2>3. UNCHANGED <<shared, rx, owed>>
    BY <1>32 DEF DisconnectSend
  <2>4. /\ NetworkTypes' /\ idle' \in Nat /\ silence' \in Nat
        /\ accepted' \in [Threads -> ClientTypes]
    BY <2>1, <2>2, TransmitTypes
  <2>5. SharedTypes' /\ ClockTypes' /\ rx' \in BrokerPacket \cup {Nothing}
    BY Zenon, <2>3, <2>4 DEF SharedTypes, ClockTypes, ThreadTypes
  <2>6. LocalTypes' /\ CallTypes'
    BY <2>1, <2>2, <2>3, ReturnTypes
  <2> QED
    BY <2>4, <2>5, <2>6 DEF ThreadTypes
<1>33. ASSUME NEW c \in Callers, DisconnectState(c) PROVE TypeInv'
  <2>1. UNCHANGED <<shared, accepted, rx, network, clocks>>
    BY <1>33 DEF DisconnectState
  <2>2. LocalTypes' /\ CallTypes'
    <3>1. CASE Goto(c, "d_send") /\ UNCHANGED locals
      BY <2>1, <3>1, GotoTypes DEF Threads
    <3>2. CASE Return(c, FALSE)
      BY <2>1, <3>2, ReturnTypes DEF Threads
    <3> QED
      BY <1>33, <3>1, <3>2 DEF DisconnectState
  <2> QED
    BY Zenon, <2>1, <2>2 DEF SharedTypes, ThreadTypes, NetworkTypes, ClockTypes
<1>34. ASSUME NEW c \in Callers, KeepaliveState(c) PROVE TypeInv'
  <2>1. UNCHANGED <<shared, accepted, rx, network, idle, silence>>
    BY <1>34 DEF KeepaliveState
  <2>2. owed' = owed \/ owed' = 0
    BY <1>34 DEF KeepaliveState
  <2>3. ClockTypes'
    BY SMT, <2>1, <2>2 DEF ClockTypes
  <2>4. LocalTypes' /\ CallTypes'
    <3>1. CASE Goto(c, "k_compare") /\ UNCHANGED locals
      BY <2>1, <3>1, GotoTypes DEF Threads
    <3>2. CASE Return(c, FALSE) \/ Return(c, TRUE)
      BY <2>1, <3>2, ReturnTypes DEF Threads
    <3> QED
      BY <1>34, <3>1, <3>2 DEF KeepaliveState
  <2> QED
    BY Zenon, <2>1, <2>3, <2>4 DEF SharedTypes, ThreadTypes, NetworkTypes
<1>35. ASSUME NEW c \in Callers, KeepaliveTest(c) PROVE TypeInv'
  <2>1. UNCHANGED <<shared, accepted, rx, network, idle, silence>>
    BY <1>35 DEF KeepaliveTest
  <2>2. owed' = owed \/ owed' = 0
    BY <1>35 DEF KeepaliveTest
  <2>3. ClockTypes'
    BY SMT, <2>1, <2>2 DEF ClockTypes
  <2>4. LocalTypes' /\ CallTypes'
    <3>1. CASE Goto(c, "k_send") /\ UNCHANGED locals
      BY <2>1, <3>1, GotoTypes DEF Threads
    <3>2. CASE Return(c, FALSE) \/ Return(c, TRUE)
      BY <2>1, <3>2, ReturnTypes DEF Threads
    <3> QED
      BY <1>35, <3>1, <3>2 DEF KeepaliveTest
  <2> QED
    BY Zenon, <2>1, <2>3, <2>4 DEF SharedTypes, ThreadTypes, NetworkTypes
<1>36. ASSUME NEW t \in Threads, TimerStore(t) PROVE TypeInv'
  <2>1. /\ timeToNextPing' = tmp[t]
        /\ UNCHANGED <<bound, state, packetCntr, keepaliveIn, subscribeStatus, buffer, accepted,
                       network, idle, silence>>
    BY <1>36 DEF TimerStore
  <2>2. owed' = owed \/ owed' = 0
    BY <1>36 DEF TimerStore
  <2>3. rx' = rx \/ rx' = Nothing
    BY <1>36 DEF TimerStore
  <2>4. SharedTypes'
    <3>1. tmp[t] \in Int
      BY SMT DEF ThreadTypes, LocalTypes
    <3> QED
      BY Zenon, <2>1, <3>1 DEF SharedTypes
  <2>5. ClockTypes' /\ NetworkTypes'
    <3>1. owed' \in Nat
      BY SMT, <2>2 DEF ClockTypes
    <3> QED
      BY Zenon, <2>1, <3>1 DEF ClockTypes, NetworkTypes
  <2>6. LocalTypes' /\ CallTypes'
    <3>1. CASE Goto(t, "s_status") /\ UNCHANGED locals
      BY <2>1, <3>1, GotoTypes DEF Threads
    <3>2. CASE Return(t, TRUE)
      BY <2>1, <3>2, ReturnTypes
    <3>3. CASE /\ Goto(t, "idle") /\ tmp' = [tmp EXCEPT ![t] = 0]
               /\ UNCHANGED <<op, ret, arg, polls>>
      <4>1. LocalTypes'
        BY SMT, <3>3 DEF ThreadTypes, LocalTypes
      <4>2. CallTypes'
        BY SMT, <2>1, <3>3 DEF CallTypes, ThreadTypes, LocalTypes
      <4> QED
        BY <4>1, <4>2
    <3> QED
      BY <1>36, <3>1, <3>2, <3>3 DEF TimerStore
  <2> QED
    BY Zenon, <2>1, <2>3, <2>4, <2>5, <2>6 DEF ThreadTypes
<1>37. ASSUME ParseConnack PROVE TypeInv'
  <2>0. Reader \in Threads
    BY DEF Threads
  <2>1. UNCHANGED <<bound, packetCntr, keepaliveIn, timeToNextPing, subscribeStatus, buffer, tmp,
                    ret, rx, network, clocks>>
    BY <1>37 DEF ParseConnack
  <2>2. SharedTypes'
    <3>1. state' \in {"STATE_DISCONNECTED", "STATE_CONNECTED"}
      BY <1>37 DEF ParseConnack, AckState
    <3> QED
      BY Zenon, <2>1, <3>1 DEF SharedTypes
  <2>3. ThreadTypes' /\ CallTypes'
    <3>1. CASE Goto(Reader, "t_load") /\ UNCHANGED <<op, arg, polls, accepted>>
      <4>1. pc' = [pc EXCEPT ![Reader] = "t_load"]
        BY <3>1
      <4>2. UNCHANGED <<op, arg, polls, tmp, ret, accepted, rx, buffer>>
        BY <2>1, <3>1
      <4>3. LocalTypes'
        BY SMT, <2>0, <4>1, <4>2 DEF ThreadTypes, LocalTypes
      <4>4. CallTypes'
        BY SMT, <4>1, <4>2 DEF CallTypes, ThreadTypes, LocalTypes
      <4> QED
        BY Zenon, <4>2, <4>3, <4>4 DEF ThreadTypes
    <3>2. ASSUME NEW timeout \in TimeoutSecs,
                 Call(Reader, "subscribe", "p_id", 0, Rounds(timeout))
          PROVE  ThreadTypes' /\ CallTypes'
      <4> DEFINE rounds == Rounds(timeout)
      <4>1. rounds \in 0..255
        BY RoundsType
      <4>2. /\ pc' = [pc EXCEPT ![Reader] = "p_id"] /\ op' = [op EXCEPT ![Reader] = "subscribe"]
            /\ arg' = [arg EXCEPT ![Reader] = 0] /\ polls' = [polls EXCEPT ![Reader] = rounds]
            /\ accepted' = [accepted EXCEPT ![Reader] = "none"]
        BY <3>2 DEF Call
      <4> HIDE DEF rounds
      <4>3. UNCHANGED <<tmp, ret, rx, buffer>>
        BY <2>1
      <4>4. LocalTypes'
        BY SMT, <2>0, <4>1, <4>2, <4>3 DEF ThreadTypes, LocalTypes
      <4>5. accepted' \in [Threads -> ClientTypes]
        BY SMT, <2>0, <4>2, NoneType DEF ThreadTypes
      <4>6. CallTypes'
        BY SMT, <4>2, <4>3 DEF CallTypes, ThreadTypes, LocalTypes
      <4> QED
        BY Zenon, <4>3, <4>4, <4>5, <4>6 DEF ThreadTypes
    <3> QED
      BY <1>37, <3>1, <3>2 DEF ParseConnack
  <2> QED
    BY Zenon, <2>1, <2>2, <2>3 DEF NetworkTypes, ClockTypes
<1>38. ASSUME BrokerReads PROVE TypeInv'
  <2>1. UNCHANGED <<shared, threads, sent, clocks>>
    BY <1>38 DEF BrokerReads
  <2>2. SharedTypes' /\ ThreadTypes' /\ ClockTypes' /\ CallTypes'
    BY Zenon, <2>1 DEF SharedTypes, ThreadTypes, LocalTypes, ClockTypes, CallTypes
  <2>3. taken' \in Nat
    <3>1. taken' = taken + 1
      BY <1>38 DEF BrokerReads
    <3> QED
      BY SMT, <3>1 DEF NetworkTypes
  <2>4. \/ inbox' = inbox
        \/ \E packet \in BrokerPacket : inbox' = Append(inbox, packet)
    <3>1. \A ok \in BOOLEAN : /\ [type |-> "CONNACK", ok |-> ok] \in BrokerPacket
                              /\ [type |-> "SUBACK", ok |-> ok] \in BrokerPacket
                              /\ [type |-> "PINGRESP", ok |-> ok] \in BrokerPacket
      BY SMT DEF BrokerPacket
    <3> QED
      BY Zenon, <1>38, <3>1 DEF BrokerReads
  <2>5. inbox' \in Seq(BrokerPacket)
    BY SMT, <2>4 DEF NetworkTypes
  <2>6. linkUp' \in BOOLEAN /\ session' \in {"none", "accepted", "refused", "closed"}
    BY Zenon, <1>38 DEF BrokerReads, NetworkTypes
  <2>7. sent' \in Seq(ClientPacket)
    BY <2>1 DEF NetworkTypes
  <2>8. NetworkTypes'
    BY <2>3, <2>5, <2>6, <2>7 DEF NetworkTypes
  <2> QED
    BY <2>2, <2>8
<1>39. CASE UNCHANGED vars
  BY Zenon, <1>39 DEF vars, SharedTypes, ThreadTypes, LocalTypes, NetworkTypes, ClockTypes,
                      CallTypes
<1> HIDE DEF TypeInv
<1>40. ASSUME NEW c \in Callers, Calls(c) PROVE TypeInv'
  BY <1>1, <1>2, <1>3, <1>4, <1>5, <1>40 DEF Calls
<1>41. ASSUME NEW c \in Callers, CallerSteps(c) PROVE TypeInv'
  BY <1>6, <1>7, <1>8, <1>9, <1>10, <1>11, <1>12, <1>13, <1>21, <1>22, <1>23, <1>24, <1>31, <1>32,
     <1>33, <1>34, <1>35, <1>41 DEF CallerSteps
<1>42. ASSUME NEW t \in Threads, SharedSteps(t) PROVE TypeInv'
  BY <1>14, <1>15, <1>16, <1>17, <1>18, <1>19, <1>20, <1>30, <1>36, <1>42 DEF SharedSteps
<1>43. CASE ReaderSteps
  BY <1>25, <1>26, <1>37, <1>43 DEF ReaderSteps
<1>44. CASE Environment
  BY <1>27, <1>28, <1>29, <1>38, <1>44 DEF Environment
<1> QED
  BY <1>39, <1>40, <1>41, <1>42, <1>43, <1>44 DEF Next

\* Every variable keeps its type, whoever calls what, and whenever: in particular
\* the wait counters of mqtt_connect and mqtt_subscribe stay in a uint8_t and
\* packet identifiers are natural numbers (mqtt.c 1569-1606, 1744, 1834).
THEOREM TypeCorrect == Spec => []TypeOK
<1>1. TypeInv => TypeOK
  BY DEF TypeInv, TypeOK
<1> QED
  BY <1>1, TypeInit, TypeStep, PTL DEF Spec

-----------------------------------------------------------------------------
(***************************************************************************)
(* A program with one application thread besides the reader opens every     *)
(* connection with CONNECT, and its reader never finds g_shared_data unset. *)
(***************************************************************************)

SoleCaller == \A c, d \in Callers : c = d

\* Steps of mqtt_connect before CONNECT is on its way.
Opening == {"c_init", "c_fill", "c_send"}

\* Steps a call reaches only once the state has been found connected, or
\* CONNECT sent.
Engaged == {"c_keepalive", "c_store", "p_encode", "p_send", "k_compare", "k_load", "k_store",
            "k_zero", "k_test", "k_send", "d_send"}

\* Before the first packet the broker is silent, the reader is out of the
\* library, and the state says connected only until mqtt_connect has reset it.
FreshInv ==
  sent = <<>> =>
    /\ session = "none" /\ inbox = <<>> /\ pc[Reader] = "idle"
    /\ state = "STATE_DISCONNECTED" \/ \E c \in Callers : pc[c] = "c_init"

OpeningInv == \A c \in Callers : pc[c] \in Opening => sent = <<>>
EngagedInv == \A t \in Threads : pc[t] \in Engaged => sent # <<>>

\* What a packet is sent from.
BufferInv ==
  /\ \A c \in Callers : pc[c] = "c_send" => buffer = Hello
  /\ \A t \in Threads : pc[t] = "p_send" /\ arg[t] = 0 => buffer.type # "CONNECT"

BoundInv ==
  /\ sent # <<>> => bound
  /\ \A c \in Callers : pc[c] \in {"c_fill", "c_send"} => bound

OpenInv == FreshInv /\ OpeningInv /\ EngagedInv /\ BufferInv /\ BoundInv /\ ConnectFirst

LEMMA OpenInit == Init => OpenInv
<1> SUFFICES ASSUME Init PROVE OpenInv
  OBVIOUS
<1>1. /\ sent = <<>> /\ session = "none" /\ inbox = <<>> /\ state = "STATE_DISCONNECTED"
      /\ pc = [t \in Threads |-> "idle"]
  BY DEF Init
<1>2. \A t \in Threads : pc[t] = "idle"
  BY <1>1
<1>3. FreshInv
  BY <1>1, <1>2 DEF FreshInv, Threads
<1>4. OpeningInv /\ EngagedInv /\ BufferInv /\ BoundInv
  BY SMT, <1>1, <1>2 DEF OpeningInv, EngagedInv, BufferInv, BoundInv, Opening, Engaged, Threads
<1>5. ConnectFirst
  BY SMT, <1>1 DEF ConnectFirst
<1> QED
  BY <1>3, <1>4, <1>5 DEF OpenInv

\* A step that moves a thread on, away from the opening of a connection, and
\* that sends nothing or, on a connection already opened, something else than
\* CONNECT.
LEMMA MoveOn ==
  ASSUME TypeInv, OpenInv, NEW t \in Threads,
         NEW label \in Labels \ (Opening \cup {"p_send"}),
         Goto(t, label), \A s \in Threads \ {t} : arg'[s] = arg[s],
         UNCHANGED bound,
         buffer' = buffer \/ (buffer'.type # "CONNECT" /\ \A c \in Callers : pc[c] # "c_send"),
         pc[t] # "c_init",
         t # Reader \/ pc[t] # "idle" \/ inbox # <<>>,
         label \notin Engaged \/ pc[t] \in Engaged \/ sent # <<>>,
         t = Reader \/ pc[t] \in Engaged \/ UNCHANGED <<state, sent, inbox, session>>,
         \/ sent' = sent
         \/ \E packet \in ClientPacket : sent' = Append(sent, packet) /\ packet.type # "CONNECT"
  PROVE  OpenInv'
<1>1. \A s \in Threads : pc'[s] = IF s = t THEN label ELSE pc[s]
  BY SMT DEF Goto, TypeInv, ThreadTypes, LocalTypes
<1>2. sent \in Seq(ClientPacket)
  BY DEF TypeInv, NetworkTypes
<1>3. sent' # <<>> <=> sent # <<>>
  <2>1. sent # <<>> => sent' # <<>>
    BY SMT, <1>2
  <2>2. CASE sent = <<>>
    BY <2>2 DEF OpenInv, FreshInv, EngagedInv
  <2> QED
    BY <2>1, <2>2
<1>4. FreshInv'
  <2>1. sent = <<>> => t # Reader /\ UNCHANGED <<state, inbox, session>>
    BY DEF OpenInv, FreshInv, EngagedInv
  <2> QED
    BY <1>1, <1>3, <2>1 DEF OpenInv, FreshInv, Threads
<1>5. OpeningInv'
  BY <1>1, <1>3 DEF OpenInv, OpeningInv, Opening, Threads
<1>6. EngagedInv'
  BY <1>1, <1>3 DEF OpenInv, EngagedInv
<1>7. BufferInv'
  BY <1>1 DEF OpenInv, BufferInv, Opening, Threads
<1>8. BoundInv'
  BY <1>1, <1>3 DEF OpenInv, BoundInv, Opening, Threads
<1>9. ConnectFirst'
  BY SMT, <1>2, <1>3 DEF OpenInv, ConnectFirst
<1> QED
  BY <1>4, <1>5, <1>6, <1>7, <1>8, <1>9 DEF OpenInv

\* An API function returns.
LEMMA ReturnOpen ==
  ASSUME TypeInv, OpenInv, NEW t \in Threads, NEW value, Return(t, value),
         UNCHANGED bound,
         buffer' = buffer \/ (buffer'.type # "CONNECT" /\ \A c \in Callers : pc[c] # "c_send"), pc[t] \notin {"idle", "c_init"},
         t = Reader \/ pc[t] \in Engaged \/ UNCHANGED <<state, sent, inbox, session>>,
         \/ sent' = sent
         \/ \E packet \in ClientPacket : sent' = Append(sent, packet) /\ packet.type # "CONNECT"
  PROVE  OpenInv'
<1> DEFINE label == IF t = Reader THEN "t_load" ELSE "idle"
<1>1. Goto(t, label)
  BY DEF Return
<1>2. \A s \in Threads \ {t} : arg'[s] = arg[s]
  BY SMT DEF Return, TypeInv, ThreadTypes, LocalTypes
<1>3. label \in Labels \ (Opening \cup {"p_send"}) /\ label \notin Engaged
  BY DEF Labels, Opening, Engaged
<1> HIDE DEF label
<1> QED
  BY <1>1, <1>2, <1>3, MoveOn

\* ACTION_PUBLISH or ACTION_SUBSCRIBE fails.
LEMMA FailedOpen ==
  ASSUME TypeInv, OpenInv, NEW t \in Threads, Failed(t), UNCHANGED bound,
         buffer' = buffer \/ (buffer'.type # "CONNECT" /\ \A c \in Callers : pc[c] # "c_send"),
         pc[t] \notin {"idle", "c_init"}, UNCHANGED <<state, sent, inbox, session>>
  PROVE  OpenInv'
<1>1. CASE op[t] = "subscribe"
  <2>1. Goto(t, "s_clear") /\ UNCHANGED arg
    BY <1>1 DEF Failed
  <2> QED
    BY <2>1, MoveOn DEF Labels, Opening, Engaged
<1>2. CASE op[t] # "subscribe"
  BY <1>2, ReturnOpen DEF Failed
<1> QED
  BY <1>1, <1>2

LEMMA TransmitOpen ==
  ASSUME NEW t \in Threads, NEW packet \in ClientPacket, packet.type # "CONNECT", NEW ok,
         Transmit(t, packet, ok)
  PROVE  /\ UNCHANGED <<inbox, session>>
         /\ \/ sent' = sent
            \/ \E p \in ClientPacket : sent' = Append(sent, p) /\ p.type # "CONNECT"
BY DEF Transmit

\* The state is not stale once mqtt_connect is past ACTION_INIT.
LEMMA ConnectedOpen ==
  ASSUME OpenInv, SoleCaller, NEW t \in Threads, pc[t] \notin {"idle", "c_init"},
         state = "STATE_CONNECTED"
  PROVE  sent # <<>>
BY DEF OpenInv, FreshInv, SoleCaller, Threads

\* Nothing but the threads' other variables, the link and the clocks changes.
LEMMA StandStill ==
  ASSUME OpenInv, UNCHANGED <<pc, arg, bound, state, buffer, sent>>,
         sent = <<>> => UNCHANGED <<inbox, session>>
  PROVE  OpenInv'
BY DEF OpenInv, FreshInv, OpeningInv, EngagedInv, BufferInv, BoundInv, ConnectFirst

LEMMA OpenStep == SoleCaller /\ TypeInv /\ OpenInv /\ [Next]_vars => OpenInv'
<1> SUFFICES ASSUME SoleCaller, TypeInv, OpenInv, [Next]_vars PROVE OpenInv'
  OBVIOUS
<1> USE DEF Labels, Opening, Engaged, shared, locals, threads, network, clocks
<1>1. ASSUME NEW c \in Callers, NEW secs \in KeepaliveSecs, NEW timeout \in TimeoutSecs,
             CallConnect(c, secs, timeout) PROVE OpenInv'
  <2>1. /\ pc' = [pc EXCEPT ![c] = "c_init"] /\ pc[c] = "idle" /\ pc[Reader] = "idle"
        /\ sent' = <<>> /\ inbox' = <<>> /\ session' = "none" /\ UNCHANGED <<bound, buffer>>
    BY <1>1 DEF CallConnect, Call, Goto
  <2>2. pc'[c] = "c_init" /\ pc'[Reader] = "idle"
    BY SMT, <2>1, ThreadAssumption DEF Threads, TypeInv, ThreadTypes, LocalTypes
  <2>3. \A t \in Threads : t = c \/ t = Reader
    BY DEF Threads, SoleCaller
  <2>4. FreshInv' /\ OpeningInv'
    BY <2>1, <2>2 DEF FreshInv, OpeningInv
  <2>5. EngagedInv' /\ BufferInv' /\ BoundInv'
    BY <2>1, <2>2, <2>3 DEF EngagedInv, BufferInv, BoundInv, SoleCaller
  <2>6. ConnectFirst'
    BY SMT, <2>1 DEF ConnectFirst
  <2> QED
    BY <2>4, <2>5, <2>6 DEF OpenInv
<1>2. ASSUME NEW c \in Callers, NEW own \in {0, 1}, CallPublish(c, own) PROVE OpenInv'
  <2>1. c \in Threads /\ Goto(c, "p_id")
    BY <1>2 DEF CallPublish, Threads, Call
  <2>2. \A s \in Threads \ {c} : arg'[s] = arg[s]
    BY SMT, <1>2 DEF CallPublish, Call, TypeInv, ThreadTypes, LocalTypes
  <2> QED
    BY <1>2, <2>1, <2>2, MoveOn, ThreadAssumption DEF CallPublish, Call
<1>3. ASSUME NEW c \in Callers, NEW timeout \in TimeoutSecs, CallSubscribe(c, timeout) PROVE OpenInv'
  <2>1. c \in Threads /\ Goto(c, "p_id")
    BY <1>3 DEF CallSubscribe, Threads, Call
  <2>2. \A s \in Threads \ {c} : arg'[s] = arg[s]
    BY SMT, <1>3 DEF CallSubscribe, Call, TypeInv, ThreadTypes, LocalTypes
  <2> QED
    BY <1>3, <2>1, <2>2, MoveOn, ThreadAssumption DEF CallSubscribe, Call
<1>4. ASSUME NEW c \in Callers, NEW elapsed \in Durations, CallKeepalive(c, elapsed) PROVE OpenInv'
  <2>1. c \in Threads /\ Goto(c, "k_state")
    BY <1>4 DEF CallKeepalive, Threads, Call
  <2>2. \A s \in Threads \ {c} : arg'[s] = arg[s]
    BY SMT, <1>4 DEF CallKeepalive, Call, TypeInv, ThreadTypes, LocalTypes
  <2> QED
    BY <1>4, <2>1, <2>2, MoveOn, ThreadAssumption DEF CallKeepalive, Call
<1>5. ASSUME NEW c \in Callers, CallDisconnect(c) PROVE OpenInv'
  <2>1. c \in Threads /\ Goto(c, "d_state")
    BY <1>5 DEF CallDisconnect, Threads, Call
  <2>2. \A s \in Threads \ {c} : arg'[s] = arg[s]
    BY SMT, <1>5 DEF CallDisconnect, Call, TypeInv, ThreadTypes, LocalTypes
  <2> QED
    BY <1>5, <2>1, <2>2, MoveOn, ThreadAssumption DEF CallDisconnect, Call
<1>6. ASSUME NEW c \in Callers, ConnectInit(c) PROVE OpenInv'
  <2>1. /\ pc[c] = "c_init" /\ pc' = [pc EXCEPT ![c] = "c_fill"] /\ bound'
        /\ state' = "STATE_DISCONNECTED" /\ UNCHANGED <<buffer, arg, sent, inbox, session>>
    BY <1>6 DEF ConnectInit, Goto
  <2>2. \A t \in Threads : pc'[t] = IF t = c THEN "c_fill" ELSE pc[t]
    BY SMT, <2>1 DEF TypeInv, ThreadTypes, LocalTypes
  <2>3. c # Reader
    BY ThreadAssumption
  <2> QED
    BY <2>1, <2>2, <2>3
       DEF OpenInv, FreshInv, OpeningInv, EngagedInv, BufferInv, BoundInv, ConnectFirst, Threads
<1>7. ASSUME NEW c \in Callers, ConnectFill(c) PROVE OpenInv'
  <2>1. /\ pc[c] = "c_fill"
        /\ UNCHANGED <<bound, state, arg, sent, inbox, session>>
    BY <1>7 DEF ConnectFill
  <2>2. CASE buffer' = Hello /\ Goto(c, "c_send")
    <3>1. \A t \in Threads : pc'[t] = IF t = c THEN "c_send" ELSE pc[t]
      BY SMT, <2>2 DEF Goto, TypeInv, ThreadTypes, LocalTypes
    <3>2. c # Reader /\ sent = <<>>
      BY <2>1, ThreadAssumption DEF OpenInv, OpeningInv
    <3>3. FreshInv' /\ OpeningInv' /\ EngagedInv'
      BY <2>1, <3>1, <3>2 DEF OpenInv, FreshInv, OpeningInv, EngagedInv, Threads
    <3>4. BufferInv'
      BY <2>1, <2>2, <3>1, <3>2 DEF OpenInv, EngagedInv, BufferInv, Threads
    <3>5. BoundInv' /\ ConnectFirst'
      BY <2>1, <3>1 DEF OpenInv, BoundInv, ConnectFirst, Threads
    <3> QED
      BY <3>3, <3>4, <3>5 DEF OpenInv
  <2>3. CASE buffer' \in {buffer, Blank} /\ Goto(c, "c_return")
    <3>1. \A d \in Callers : pc[d] # "c_send"
      BY <2>1 DEF SoleCaller
    <3>2. Blank.type # "CONNECT"
      BY DEF Blank
    <3> QED
      BY <2>1, <2>3, <3>1, <3>2, MoveOn DEF Threads, Labels, Opening, Engaged
  <2> QED
    BY <1>7, <2>2, <2>3 DEF ConnectFill
<1>8. ASSUME NEW c \in Callers, ConnectSend(c) PROVE OpenInv'
  <2>1. /\ pc[c] = "c_send" /\ sent = <<>> /\ buffer = Hello /\ bound /\ c # Reader
    BY <1>8, ThreadAssumption DEF ConnectSend, OpenInv, OpeningInv, BufferInv, BoundInv
  <2>2. PICK ok \in BOOLEAN :
          /\ Transmit(c, buffer, ok)
          /\ state' = IF ok THEN state ELSE "STATE_DISCONNECTED"
          /\ Goto(c, IF ok THEN "c_keepalive" ELSE "c_return")
    BY <1>8 DEF ConnectSend
  <2>3. UNCHANGED <<bound, buffer, arg, inbox, session>>
    BY <1>8, <2>2 DEF ConnectSend, Transmit
  <2>4. CASE ok
    <3>1. sent' = <<Hello>>
      BY SMT, <2>1, <2>2, <2>4 DEF Transmit
    <3>2. sent' # <<>> /\ ConnectFirst'
      BY SMT, <3>1 DEF ConnectFirst, Hello
    <3>3. \A t \in Threads : pc'[t] = IF t = c THEN "c_keepalive" ELSE pc[t]
      BY SMT, <2>2, <2>4 DEF Goto, TypeInv, ThreadTypes, LocalTypes
    <3>4. FreshInv' /\ EngagedInv'
      BY <3>2 DEF FreshInv, EngagedInv
    <3>5. OpeningInv' /\ BufferInv' /\ BoundInv'
      BY <2>1, <2>3, <3>2, <3>3
         DEF OpenInv, OpeningInv, BufferInv, BoundInv, SoleCaller, Threads
    <3> QED
      BY <3>2, <3>4, <3>5 DEF OpenInv
  <2>5. CASE ~ok
    <3>1. sent' = sent /\ state' = "STATE_DISCONNECTED"
      BY <2>2, <2>5 DEF Transmit
    <3>2. \A t \in Threads : pc'[t] = IF t = c THEN "c_return" ELSE pc[t]
      BY SMT, <2>2, <2>5 DEF Goto, TypeInv, ThreadTypes, LocalTypes
    <3> QED
      BY <2>1, <2>3, <3>1, <3>2
         DEF OpenInv, FreshInv, OpeningInv, EngagedInv, BufferInv, BoundInv, ConnectFirst, Threads
  <2> QED
    BY <2>4, <2>5
<1>9. ASSUME NEW c \in Callers, ConnectKeepalive(c) PROVE OpenInv'
  <2>1. c \in Threads /\ Goto(c, "c_store")
    BY <1>9 DEF ConnectKeepalive, Threads
  <2>2. \A s \in Threads \ {c} : arg'[s] = arg[s]
    BY SMT, <1>9 DEF ConnectKeepalive, TypeInv, ThreadTypes, LocalTypes
  <2> QED
    BY <1>9, <2>1, <2>2, MoveOn, ThreadAssumption DEF ConnectKeepalive
<1>10. ASSUME NEW c \in Callers, ConnectStore(c) PROVE OpenInv'
  <2>1. c \in Threads /\ Goto(c, "c_wait")
    BY <1>10 DEF ConnectStore, Threads
  <2>2. \A s \in Threads \ {c} : arg'[s] = arg[s]
    BY SMT, <1>10 DEF ConnectStore, TypeInv, ThreadTypes, LocalTypes
  <2> QED
    BY <1>10, <2>1, <2>2, MoveOn, ThreadAssumption DEF ConnectStore
<1>11. ASSUME NEW c \in Callers, ConnectPoll(c) PROVE OpenInv'
  BY <1>11, StandStill DEF ConnectPoll
<1>12. ASSUME NEW c \in Callers, ConnectPolled(c) PROVE OpenInv'
  <2>1. c \in Threads /\ Goto(c, "c_return")
    BY <1>12 DEF ConnectPolled, Threads
  <2>2. \A s \in Threads \ {c} : arg'[s] = arg[s]
    BY SMT, <1>12 DEF ConnectPolled, TypeInv, ThreadTypes, LocalTypes
  <2> QED
    BY <1>12, <2>1, <2>2, MoveOn, ThreadAssumption DEF ConnectPolled
<1>13. ASSUME NEW c \in Callers, ConnectReturn(c) PROVE OpenInv'
  BY <1>13, ReturnOpen DEF ConnectReturn, Threads
<1>14. ASSUME NEW t \in Threads, TakeId(t) PROVE OpenInv'
  <2>1. pc[t] = "p_id" /\ UNCHANGED <<bound, state, buffer, sent, inbox, session>>
    BY <1>14 DEF TakeId
  <2>2. CASE bound /\ state = "STATE_CONNECTED"
    <3>1. Goto(t, "p_encode") /\ UNCHANGED arg
      BY <1>14, <2>2 DEF TakeId
    <3>2. sent # <<>>
      BY <2>1, <2>2, ConnectedOpen
    <3> QED
      BY <2>1, <3>1, <3>2, MoveOn
  <2>3. CASE ~(bound /\ state = "STATE_CONNECTED")
    BY <1>14, <2>1, <2>3, FailedOpen DEF TakeId
  <2> QED
    BY <2>2, <2>3
<1>15. ASSUME NEW t \in Threads, Encode(t) PROVE OpenInv'
  <2>1. pc[t] = "p_encode" /\ UNCHANGED <<bound, state, sent, inbox, session>>
    BY <1>15 DEF Encode
  <2>2. sent # <<>> /\ \A c \in Callers : pc[c] # "c_send"
    BY <2>1 DEF OpenInv, EngagedInv, OpeningInv, Engaged, Opening
  <2>3. buffer' = buffer \/ buffer'.type # "CONNECT"
    BY <1>15 DEF Encode, Encoded
  <2>4. CASE /\ Goto(t, "p_send") /\ UNCHANGED arg
             /\ arg[t] = 0 => buffer' = Encoded(t)
    <3>1. \A s \in Threads : pc'[s] = IF s = t THEN "p_send" ELSE pc[s]
      BY SMT, <2>4 DEF Goto, TypeInv, ThreadTypes, LocalTypes
    <3>2. \A c \in Callers : pc'[c] # "c_send"
      BY <2>2, <3>1 DEF Threads
    <3>3. Encoded(t).type # "CONNECT"
      BY DEF Encoded
    <3>4. \A s \in Threads : pc'[s] = "p_send" /\ arg'[s] = 0 => buffer'.type # "CONNECT"
      BY <2>3, <2>4, <3>1, <3>3 DEF OpenInv, BufferInv
    <3>5. BufferInv'
      BY <3>2, <3>4 DEF BufferInv
    <3> QED
      BY <2>1, <2>2, <3>1, <3>5
         DEF OpenInv, FreshInv, OpeningInv, EngagedInv, BoundInv, ConnectFirst, Threads
  <2>5. CASE Failed(t)
    BY <2>1, <2>2, <2>3, <2>5, FailedOpen
  <2> QED
    BY <1>15, <2>4, <2>5 DEF Encode, locals
<1>16. ASSUME NEW t \in Threads, Send(t) PROVE OpenInv'
  <2> DEFINE packet == IF arg[t] = 0 THEN buffer ELSE Encoded(t)
  <2>1. PICK ok \in BOOLEAN : /\ Transmit(t, packet, ok)
                             /\ IF ok THEN Goto(t, "t_load") /\ UNCHANGED locals ELSE Failed(t)
    BY <1>16 DEF Send
  <2>2. pc[t] = "p_send" /\ UNCHANGED shared
    BY <1>16 DEF Send
  <2>3. packet \in ClientPacket /\ packet.type # "CONNECT"
    <3>1. CASE arg[t] = 0
      BY <2>2, <3>1 DEF OpenInv, BufferInv, TypeInv, CallTypes, SharedTypes
    <3>2. CASE arg[t] # 0
      BY <3>2, EncodedType DEF Encoded, TypeInv, ThreadTypes, LocalTypes
    <3> QED
      BY <3>1, <3>2
  <2> HIDE DEF packet
  <2>4. CASE ok
    <3>1. UNCHANGED <<arg, inbox, session>> /\ Goto(t, "t_load")
      BY <2>1, <2>4 DEF Transmit
    <3> QED
      BY <2>1, <2>2, <2>3, <3>1, TransmitOpen, MoveOn
  <2>5. CASE ~ok
    BY <2>1, <2>2, <2>5, FailedOpen DEF Transmit
  <2> QED
    BY <2>4, <2>5
<1>17. ASSUME NEW t \in Threads, SubscribeStatus(t) PROVE OpenInv'
  <2>1. t \in Threads /\ Goto(t, "s_wait")
    BY <1>17 DEF SubscribeStatus, Threads
  <2>2. \A s \in Threads \ {t} : arg'[s] = arg[s]
    BY SMT, <1>17 DEF SubscribeStatus, TypeInv, ThreadTypes, LocalTypes
  <2> QED
    BY <1>17, <2>1, <2>2, MoveOn, ThreadAssumption DEF SubscribeStatus
<1>18. ASSUME NEW t \in Threads, SubscribePoll(t) PROVE OpenInv'
  BY <1>18, StandStill DEF SubscribePoll
<1>19. ASSUME NEW t \in Threads, SubscribePolled(t) PROVE OpenInv'
  <2>1. t \in Threads /\ Goto(t, "s_clear")
    BY <1>19 DEF SubscribePolled, Threads
  <2>2. \A s \in Threads \ {t} : arg'[s] = arg[s]
    BY SMT, <1>19 DEF SubscribePolled, TypeInv, ThreadTypes, LocalTypes
  <2> QED
    BY <1>19, <2>1, <2>2, MoveOn, ThreadAssumption DEF SubscribePolled
<1>20. ASSUME NEW t \in Threads, SubscribeReturn(t) PROVE OpenInv'
  BY <1>20, ReturnOpen DEF SubscribeReturn
<1>21. ASSUME NEW t \in Threads, TimerLoad(t) PROVE OpenInv'
  <2>1. t \in Threads /\ Goto(t, "t_store")
    BY <1>21 DEF TimerLoad, Threads
  <2>2. \A s \in Threads \ {t} : arg'[s] = arg[s]
    BY SMT, <1>21 DEF TimerLoad, TypeInv, ThreadTypes, LocalTypes
  <2> QED
    BY <1>21, <2>1, <2>2, MoveOn, ThreadAssumption DEF TimerLoad
<1>22. ASSUME NEW t \in Threads, TimerStore(t) PROVE OpenInv'
  <2>1. pc[t] = "t_store" /\ UNCHANGED <<bound, state, buffer, sent, inbox, session>>
    BY <1>22 DEF TimerStore
  <2>2. CASE \E label \in {"s_status", "idle"} : Goto(t, label) /\ UNCHANGED arg
    BY <2>1, <2>2, MoveOn
  <2>3. CASE Return(t, TRUE)
    BY <2>1, <2>3, ReturnOpen
  <2> QED
    BY <1>22, <2>2, <2>3 DEF TimerStore
<1>23. ASSUME NEW c \in Callers, KeepaliveState(c) PROVE OpenInv'
  <2>1. c \in Threads /\ pc[c] = "k_state"
        /\ UNCHANGED <<bound, state, buffer, sent, inbox, session>>
    BY <1>23 DEF KeepaliveState, Threads
  <2>2. CASE Goto(c, "k_compare") /\ UNCHANGED arg /\ (pc[c] \in Engaged \/ state = "STATE_CONNECTED")
    BY <2>1, <2>2, MoveOn, ConnectedOpen
  <2>3. CASE Return(c, FALSE) \/ Return(c, TRUE)
    BY <2>1, <2>3, ReturnOpen
  <2> QED
    BY <1>23, <2>2, <2>3 DEF KeepaliveState
<1>24. ASSUME NEW c \in Callers, KeepaliveCompare(c) PROVE OpenInv'
  <2>1. PICK label \in {"k_load", "k_zero"} : Goto(c, label)
    BY <1>24 DEF KeepaliveCompare
  <2> QED
    BY <1>24, <2>1, MoveOn DEF KeepaliveCompare, Threads
<1>25. ASSUME NEW c \in Callers, KeepaliveLoad(c) PROVE OpenInv'
  <2>1. c \in Threads /\ Goto(c, "k_store")
    BY <1>25 DEF KeepaliveLoad, Threads
  <2>2. \A s \in Threads \ {c} : arg'[s] = arg[s]
    BY SMT, <1>25 DEF KeepaliveLoad, TypeInv, ThreadTypes, LocalTypes
  <2> QED
    BY <1>25, <2>1, <2>2, MoveOn, ThreadAssumption DEF KeepaliveLoad
<1>26. ASSUME NEW c \in Callers, KeepaliveStore(c) PROVE OpenInv'
  <2>1. c \in Threads /\ Goto(c, "k_test")
    BY <1>26 DEF KeepaliveStore, Threads
  <2>2. \A s \in Threads \ {c} : arg'[s] = arg[s]
    BY SMT, <1>26 DEF KeepaliveStore, TypeInv, ThreadTypes, LocalTypes
  <2> QED
    BY <1>26, <2>1, <2>2, MoveOn, ThreadAssumption DEF KeepaliveStore
<1>27. ASSUME NEW c \in Callers, KeepaliveZero(c) PROVE OpenInv'
  <2>1. c \in Threads /\ Goto(c, "k_test")
    BY <1>27 DEF KeepaliveZero, Threads
  <2>2. \A s \in Threads \ {c} : arg'[s] = arg[s]
    BY SMT, <1>27 DEF KeepaliveZero, TypeInv, ThreadTypes, LocalTypes
  <2> QED
    BY <1>27, <2>1, <2>2, MoveOn, ThreadAssumption DEF KeepaliveZero
<1>28. ASSUME NEW c \in Callers, KeepaliveTest(c) PROVE OpenInv'
  <2>1. c \in Threads /\ pc[c] = "k_test"
        /\ UNCHANGED <<bound, state, buffer, sent, inbox, session>>
    BY <1>28 DEF KeepaliveTest, Threads
  <2>2. CASE Goto(c, "k_send") /\ UNCHANGED arg /\ (pc[c] \in Engaged \/ state = "STATE_CONNECTED")
    BY <2>1, <2>2, MoveOn, ConnectedOpen
  <2>3. CASE Return(c, FALSE) \/ Return(c, TRUE)
    BY <2>1, <2>3, ReturnOpen
  <2> QED
    BY <1>28, <2>2, <2>3 DEF KeepaliveTest
<1>29. ASSUME NEW c \in Callers, KeepaliveSend(c) PROVE OpenInv'
  <2> DEFINE packet == [type |-> "PINGREQ", id |-> 0]
  <2>1. packet \in ClientPacket /\ packet.type # "CONNECT" /\ c \in Threads
    BY PacketTypes DEF Threads
  <2> HIDE DEF packet
  <2>2. PICK ok \in BOOLEAN : /\ Transmit(c, packet, ok)
                             /\ \/ Goto(c, "t_load") /\ UNCHANGED locals
                                \/ Return(c, FALSE)
    BY <1>29 DEF KeepaliveSend, packet
  <2>3. pc[c] = "k_send" /\ UNCHANGED shared /\ UNCHANGED <<inbox, session>>
    BY <1>29, <2>2 DEF KeepaliveSend, Transmit
  <2>4. CASE Goto(c, "t_load") /\ UNCHANGED locals
    BY <2>1, <2>2, <2>3, <2>4, TransmitOpen, MoveOn
  <2>5. CASE Return(c, FALSE)
    BY <2>1, <2>2, <2>3, <2>5, TransmitOpen, ReturnOpen
  <2> QED
    BY <2>2, <2>4, <2>5
<1>30. ASSUME NEW c \in Callers, DisconnectState(c) PROVE OpenInv'
  <2>1. c \in Threads /\ pc[c] = "d_state"
        /\ UNCHANGED <<bound, state, buffer, sent, inbox, session>>
    BY <1>30 DEF DisconnectState, Threads
  <2>2. CASE Goto(c, "d_send") /\ UNCHANGED arg /\ (pc[c] \in Engaged \/ state = "STATE_CONNECTED")
    BY <2>1, <2>2, MoveOn, ConnectedOpen
  <2>3. CASE Return(c, FALSE)
    BY <2>1, <2>3, ReturnOpen
  <2> QED
    BY <1>30, <2>2, <2>3 DEF DisconnectState, TypeInv, SharedTypes
<1>31. ASSUME NEW c \in Callers, DisconnectSend(c) PROVE OpenInv'
  <2> DEFINE packet == [type |-> "DISCONNECT", id |-> 0]
  <2>1. packet \in ClientPacket /\ packet.type # "CONNECT" /\ c \in Threads
    BY PacketTypes DEF Threads
  <2> HIDE DEF packet
  <2>2. PICK ok \in BOOLEAN : Transmit(c, packet, ok) /\ Return(c, ok)
    BY <1>31 DEF DisconnectSend, packet
  <2>3. pc[c] = "d_send" /\ UNCHANGED shared
    BY <1>31 DEF DisconnectSend
  <2> QED
    BY <2>1, <2>2, <2>3, TransmitOpen, ReturnOpen
<1>32. ASSUME Receive PROVE OpenInv'
  <2>1. Reader \in Threads /\ Goto(Reader, "r_parse")
    BY <1>32 DEF Receive, Threads
  <2>2. \A s \in Threads \ {Reader} : arg'[s] = arg[s]
    BY SMT, <1>32 DEF Receive, TypeInv, ThreadTypes, LocalTypes
  <2> QED
    BY <1>32, <2>1, <2>2, MoveOn, ThreadAssumption DEF Receive
<1>33. ASSUME ParseConnack PROVE OpenInv'
  <2>1. Reader \in Threads /\ pc[Reader] = "r_parse"
        /\ UNCHANGED <<bound, buffer, sent, inbox, session>>
    BY <1>33 DEF ParseConnack, Threads
  <2>2. \/ Goto(Reader, "t_load") /\ UNCHANGED arg
        \/ Goto(Reader, "p_id") /\ arg' = [arg EXCEPT ![Reader] = 0]
    BY <1>33 DEF ParseConnack, Call
  <2>3. \A s \in Threads \ {Reader} : arg'[s] = arg[s]
    BY SMT, <2>2 DEF TypeInv, ThreadTypes, LocalTypes
  <2> QED
    BY <2>1, <2>2, <2>3, MoveOn
<1>34. ASSUME ParseOther PROVE OpenInv'
  <2>1. PICK label \in {"t_load", "idle"} : Goto(Reader, label)
    BY <1>34 DEF ParseOther
  <2> QED
    BY <1>34, <2>1, MoveOn DEF ParseOther, Threads
<1>35. ASSUME LinkDown PROVE OpenInv'
  BY <1>35, StandStill DEF LinkDown
<1>36. ASSUME BrokerReads PROVE OpenInv'
  <2>1. taken \in Nat /\ taken < Len(sent)
    BY <1>36 DEF BrokerReads, TypeInv, NetworkTypes
  <2>2. sent # <<>>
    BY SMT, <2>1
  <2> QED
    BY <1>36, <2>2, StandStill DEF BrokerReads
<1>37. ASSUME BrokerPublishes PROVE OpenInv'
  BY <1>37, StandStill DEF BrokerPublishes, OpenInv, FreshInv
<1>38. ASSUME Tick PROVE OpenInv'
  BY <1>38, StandStill DEF Tick
<1>39. CASE UNCHANGED vars
  BY <1>39, StandStill DEF vars
<1>40. ASSUME NEW c \in Callers, Calls(c) PROVE OpenInv'
  BY <1>1, <1>2, <1>3, <1>4, <1>5, <1>40 DEF Calls
<1>41. ASSUME NEW c \in Callers, CallerSteps(c) PROVE OpenInv'
  BY <1>6, <1>7, <1>8, <1>9, <1>10, <1>11, <1>12, <1>13, <1>23, <1>24, <1>25, <1>26, <1>27,
     <1>28, <1>29, <1>30, <1>31, <1>41 DEF CallerSteps
<1>42. ASSUME NEW t \in Threads, SharedSteps(t) PROVE OpenInv'
  BY <1>14, <1>15, <1>16, <1>17, <1>18, <1>19, <1>20, <1>21, <1>22, <1>42 DEF SharedSteps
<1>43. CASE ReaderSteps
  BY <1>32, <1>33, <1>34, <1>43 DEF ReaderSteps
<1>44. CASE Environment
  BY <1>35, <1>36, <1>37, <1>38, <1>44 DEF Environment
<1> QED
  BY <1>39, <1>40, <1>41, <1>42, <1>43, <1>44 DEF Next

\* Every connection opens with CONNECT, and CONNECT is sent only once on it, in a
\* program with one application thread and a reader (mqtt.c 1540-1627): for any
\* keepalive times, timeouts, and number of packets, callbacks that subscribe
\* included.
THEOREM OpensWithConnect == SoleCaller => (Spec => []ConnectFirst)
<1> SUFFICES ASSUME SoleCaller PROVE Spec => []ConnectFirst
  OBVIOUS
<1>1. TypeInv /\ OpenInv /\ [Next]_vars => TypeInv' /\ OpenInv'
  BY TypeStep, OpenStep
<1>2. OpenInv => ConnectFirst
  BY DEF OpenInv
<1> QED
  BY <1>1, <1>2, TypeInit, OpenInit, PTL DEF Spec

\* The reader never parses a packet before g_shared_data is set (mqtt.c 1418, 1457).
THEOREM ReaderFindsData == SoleCaller => (Spec => []NoNullDeref)
<1> SUFFICES ASSUME SoleCaller PROVE Spec => []NoNullDeref
  OBVIOUS
<1>1. TypeInv /\ OpenInv /\ [Next]_vars => TypeInv' /\ OpenInv'
  BY TypeStep, OpenStep
<1>2. OpenInv => NoNullDeref
  BY DEF OpenInv, FreshInv, BoundInv, NoNullDeref
<1> QED
  BY <1>1, <1>2, TypeInit, OpenInit, PTL DEF Spec

-----------------------------------------------------------------------------
(***************************************************************************)
(* The bound on the time without traffic, for every keepalive time and      *)
(* every interval between the mqtt_keepalive calls of one application       *)
(* thread, whatever the reader does meanwhile.                              *)
(***************************************************************************)

\* The keepalive time of the connection, before the 500 ms are taken off it; 0
\* without keepalive.
Cap ==
  IF keepaliveIn <= 0 THEN 0
  ELSE IF \E c \in Callers : pc[c] = "c_store" THEN keepaliveIn ELSE keepaliveIn + 1

\* The timer never shows more than what is left of the keepalive time.
ClockInv ==
  /\ owed <= Period
  /\ timeToNextPing <= Cap
  /\ Cap > 0 => idle < Cap + owed /\ idle <= Cap - timeToNextPing + owed

\* A thread about to reset the timer has just seen traffic, and nothing a thread
\* has loaded is more than the keepalive time.
ThreadTimer(t) ==
  /\ pc[t] \in {"t_load", "t_store"} => idle = 0
  /\ t = Reader /\ pc[t] # "idle" => idle = 0
  /\ pc[t] \in {"t_store", "k_store"} => tmp[t] <= Cap

\* What mqtt_connect and mqtt_keepalive know in the middle.
CallerTimer(c) ==
  /\ pc[c] \in {"c_fill", "c_send", "c_keepalive"} => keepaliveIn <= 0
  /\ pc[c] \in {"c_keepalive", "c_store"} => idle = 0 /\ owed = 0
  /\ pc[c] = "c_store" => IF arg[c] = 0 THEN keepaliveIn <= 0 ELSE keepaliveIn >= 2
  /\ pc[c] \in {"k_state", "k_compare", "k_load", "k_store"} => owed <= arg[c]
  /\ pc[c] = "k_store" /\ Cap > 0 => idle <= Cap - tmp[c] + arg[c]
  /\ pc[c] = "k_test" /\ Cap > 0 => timeToNextPing <= 0 \/ idle <= Cap - timeToNextPing

TimerInv ==
  /\ ClockInv
  /\ \A t \in Threads : ThreadTimer(t)
  /\ \A c \in Callers : CallerTimer(c)

\* Labels at which one of these predicates speaks of a thread.
Watched == {"t_load", "t_store", "k_state", "k_compare", "k_load", "k_store", "k_test", "c_fill",
            "c_send", "c_keepalive", "c_store"}

LEMMA CapType == TypeInv => Cap \in Nat
BY SMT DEF Cap, TypeInv, SharedTypes

LEMMA TimerInit == Init => TimerInv
<1> SUFFICES ASSUME Init PROVE TimerInv
  OBVIOUS
<1>1. /\ keepaliveIn = 0 /\ timeToNextPing = 0 /\ owed = 0 /\ idle = 0
      /\ pc = [t \in Threads |-> "idle"]
  BY DEF Init
<1>2. \A t \in Threads : pc[t] = "idle"
  BY <1>1
<1>3. ClockInv
  BY SMT, <1>1, PeriodAssumption DEF ClockInv, Cap
<1>4. ASSUME NEW t \in Threads PROVE ThreadTimer(t)
  BY <1>2 DEF ThreadTimer
<1>5. ASSUME NEW c \in Callers PROVE CallerTimer(c)
  BY <1>2 DEF CallerTimer, Threads
<1> QED
  BY <1>3, <1>4, <1>5 DEF TimerInv

\* The keepalive time is known from before ConnectStore to the next ConnectInit.
LEMMA CapSame ==
  ASSUME TypeInv, NEW t \in Threads, NEW label \in Labels, Goto(t, label),
         label # "c_store", pc[t] # "c_store", UNCHANGED keepaliveIn
  PROVE  Cap' = Cap
<1>1. \A c \in Callers : pc'[c] = "c_store" <=> pc[c] = "c_store"
  BY SMT DEF Goto, TypeInv, ThreadTypes, LocalTypes, Threads
<1> QED
  BY <1>1 DEF Cap

\* What a step of a thread that leaves the keepalive time alone does to the other
\* threads: nothing, if the timer it stores is zero or fits what is left of it.
LEMMA OthersTimer ==
  ASSUME TypeInv, TimerInv, NEW t \in Threads, NEW label \in Labels, Goto(t, label),
         label # "c_store", pc[t] # "c_store", UNCHANGED keepaliveIn,
         \A s \in Threads \ {t} : tmp'[s] = tmp[s] /\ arg'[s] = arg[s],
         idle' = idle \/ idle' = 0, owed' = owed \/ owed' = 0, timeToNextPing' \in Int,
         \/ timeToNextPing' = timeToNextPing
         \/ timeToNextPing' <= 0
         \/ timeToNextPing' <= Cap /\ (Cap > 0 => idle' <= Cap - timeToNextPing'),
         ClockInv', ThreadTimer(t)', t \in Callers => CallerTimer(t)'
  PROVE  TimerInv'
<1>1. Cap' = Cap /\ Cap \in Nat
  BY CapSame, CapType
<1>2. ASSUME NEW s \in Threads, s # t PROVE pc'[s] = pc[s] /\ pc[s] \in Labels
  BY SMT, <1>2 DEF Goto, TypeInv, ThreadTypes, LocalTypes
<1>3. ASSUME NEW s \in Threads, s # t PROVE ThreadTimer(s)'
  BY <1>1, <1>2, <1>3 DEF TimerInv, ThreadTimer
<1>4. ASSUME NEW c \in Callers, c # t PROVE CallerTimer(c)'
  <2>1. /\ c \in Threads /\ pc'[c] = pc[c] /\ tmp'[c] = tmp[c] /\ arg'[c] = arg[c]
        /\ tmp[c] \in Int /\ arg[c] \in Nat
    BY <1>2, <1>4 DEF Threads, TypeInv, ThreadTypes, LocalTypes
  <2>2. idle \in Nat /\ owed \in Nat /\ timeToNextPing \in Int
    BY DEF TypeInv, ClockTypes, SharedTypes
  <2>3. CallerTimer(c) /\ ThreadTimer(c)
    BY <2>1 DEF TimerInv
  <2>4. pc[c] = "k_store" /\ Cap > 0 => idle' <= Cap - tmp[c] + arg[c]
    BY SMT, <1>1, <2>1, <2>2, <2>3 DEF CallerTimer, ThreadTimer
  <2>5. pc[c] = "k_test" /\ Cap > 0 =>
          timeToNextPing' <= 0 \/ idle' <= Cap - timeToNextPing'
    BY SMT, <1>1, <2>1, <2>2, <2>3 DEF CallerTimer, TimerInv, ClockInv
  <2>6. pc[c] \in {"k_state", "k_compare", "k_load", "k_store"} => owed' <= arg[c]
    BY SMT, <2>1, <2>2, <2>3 DEF CallerTimer
  <2>7. pc[c] \in {"c_keepalive", "c_store"} => idle' = 0 /\ owed' = 0
    BY <2>3 DEF CallerTimer
  <2> QED
    BY <1>1, <2>1, <2>3, <2>4, <2>5, <2>6, <2>7 DEF CallerTimer
<1>5. \A s \in Threads : ThreadTimer(s)'
  BY <1>3
<1>6. \A c \in Callers : CallerTimer(c)'
  BY <1>4
<1> QED
  BY <1>5, <1>6 DEF TimerInv

\* A step that leaves the timer alone, to a label nothing is known at.
LEMMA QuietTimer ==
  ASSUME TypeInv, TimerInv, NEW t \in Threads,
         NEW label \in (Labels \ Watched) \cup {"t_load"}, Goto(t, label),
         pc[t] # "c_store", UNCHANGED <<keepaliveIn, timeToNextPing, owed>>,
         \A s \in Threads \ {t} : tmp'[s] = tmp[s] /\ arg'[s] = arg[s],
         idle' = idle \/ idle' = 0,
         idle' = 0 \/ (t = Reader /\ pc[t] # "idle") \/ (label # "t_load" /\ t # Reader)
           \/ label = "idle"
  PROVE  TimerInv'
<1>1. label \in Labels /\ label # "c_store"
  BY DEF Watched, Labels
<1>2. Cap' = Cap /\ Cap \in Nat
  BY <1>1, CapSame, CapType
<1>3. pc'[t] = label /\ timeToNextPing \in Int /\ idle \in Nat /\ owed \in Nat
  BY SMT DEF Goto, TypeInv, ThreadTypes, LocalTypes, SharedTypes, ClockTypes
<1>4. ClockInv'
  BY SMT, <1>2, <1>3 DEF TimerInv, ClockInv
<1>5. ThreadTimer(t)'
  <2>1. t = Reader /\ pc[t] # "idle" => idle' = 0
    BY DEF TimerInv, ThreadTimer
  <2> QED
    BY <1>3, <2>1 DEF ThreadTimer, Watched
<1>6. t \in Callers => CallerTimer(t)'
  BY <1>3 DEF CallerTimer, Watched
<1> QED
  BY <1>1, <1>3, <1>4, <1>5, <1>6, OthersTimer

LEMMA ReturnTimer ==
  ASSUME TypeInv, TimerInv, NEW t \in Threads, NEW value, Return(t, value),
         pc[t] \notin {"idle", "c_store"}, UNCHANGED <<keepaliveIn, timeToNextPing, owed>>,
         idle' = idle \/ idle' = 0
  PROVE  TimerInv'
<1> DEFINE label == IF t = Reader THEN "t_load" ELSE "idle"
<1>1. Goto(t, label)
  BY DEF Return
<1>2. \A s \in Threads \ {t} : tmp'[s] = tmp[s] /\ arg'[s] = arg[s]
  BY SMT DEF Return, TypeInv, ThreadTypes, LocalTypes
<1>3. label \in (Labels \ Watched) \cup {"t_load"} /\ (label = "idle" \/ t = Reader)
  BY DEF Labels, Watched
<1> HIDE DEF label
<1> QED
  BY <1>1, <1>2, <1>3, QuietTimer

LEMMA FailedTimer ==
  ASSUME TypeInv, TimerInv, NEW t \in Threads, Failed(t), pc[t] \notin {"idle", "c_store"},
         UNCHANGED <<keepaliveIn, timeToNextPing, owed>>, idle' = idle \/ idle' = 0
  PROVE  TimerInv'
<1>1. CASE op[t] = "subscribe"
  <2>1. Goto(t, "s_clear") /\ UNCHANGED <<tmp, arg>>
    BY <1>1 DEF Failed
  <2> QED
    BY <2>1, QuietTimer DEF Labels, Watched
<1>2. CASE op[t] # "subscribe"
  BY <1>2, ReturnTimer DEF Failed
<1> QED
  BY <1>1, <1>2

LEMMA WithinCap ==
  \A cap \in Nat, timer \in Int, time \in Nat :
    timer <= cap => 0 <= cap - timer + time /\ (cap > 0 => 0 < cap + time)
BY SMT

LEMMA StillTimer ==
  ASSUME TimerInv, UNCHANGED <<pc, tmp, arg, keepaliveIn, timeToNextPing, idle, owed>>
  PROVE  TimerInv'
BY DEF TimerInv, ClockInv, ThreadTimer, CallerTimer, Cap

LEMMA TimerStep == SoleCaller /\ TypeInv /\ OpenInv /\ TimerInv /\ [Next]_vars => TimerInv'
<1> SUFFICES ASSUME SoleCaller, TypeInv, OpenInv, TimerInv, [Next]_vars PROVE TimerInv'
  OBVIOUS
<1> USE DEF Labels, Watched, Opening, shared, locals, threads, network, clocks
<1>1. ASSUME NEW c \in Callers, NEW secs \in KeepaliveSecs, NEW timeout \in TimeoutSecs,
             CallConnect(c, secs, timeout) PROVE TimerInv'
  <2>1. c \in Threads /\ Goto(c, "c_init")
    BY <1>1 DEF CallConnect, Threads, Call
  <2>2. \A s \in Threads \ {c} : tmp'[s] = tmp[s] /\ arg'[s] = arg[s]
    BY SMT, <1>1 DEF CallConnect, Call, TypeInv, ThreadTypes, LocalTypes
  <2> QED
    BY <1>1, <2>1, <2>2, QuietTimer, ThreadAssumption DEF CallConnect, Call
<1>2. ASSUME NEW c \in Callers, NEW own \in {0, 1}, CallPublish(c, own) PROVE TimerInv'
  <2>1. c \in Threads /\ Goto(c, "p_id")
    BY <1>2 DEF CallPublish, Threads, Call
  <2>2. \A s \in Threads \ {c} : tmp'[s] = tmp[s] /\ arg'[s] = arg[s]
    BY SMT, <1>2 DEF CallPublish, Call, TypeInv, ThreadTypes, LocalTypes
  <2> QED
    BY <1>2, <2>1, <2>2, QuietTimer, ThreadAssumption DEF CallPublish, Call
<1>3. ASSUME NEW c \in Callers, NEW timeout \in TimeoutSecs, CallSubscribe(c, timeout) PROVE TimerInv'
  <2>1. c \in Threads /\ Goto(c, "p_id")
    BY <1>3 DEF CallSubscribe, Threads, Call
  <2>2. \A s \in Threads \ {c} : tmp'[s] = tmp[s] /\ arg'[s] = arg[s]
    BY SMT, <1>3 DEF CallSubscribe, Call, TypeInv, ThreadTypes, LocalTypes
  <2> QED
    BY <1>3, <2>1, <2>2, QuietTimer, ThreadAssumption DEF CallSubscribe, Call
<1>4. ASSUME NEW c \in Callers, CallDisconnect(c) PROVE TimerInv'
  <2>1. c \in Threads /\ Goto(c, "d_state")
    BY <1>4 DEF CallDisconnect, Threads, Call
  <2>2. \A s \in Threads \ {c} : tmp'[s] = tmp[s] /\ arg'[s] = arg[s]
    BY SMT, <1>4 DEF CallDisconnect, Call, TypeInv, ThreadTypes, LocalTypes
  <2> QED
    BY <1>4, <2>1, <2>2, QuietTimer, ThreadAssumption DEF CallDisconnect, Call
<1>5. ASSUME NEW c \in Callers, NEW elapsed \in Durations, CallKeepalive(c, elapsed) PROVE TimerInv'
  <2>1. /\ Goto(c, "k_state") /\ arg' = [arg EXCEPT ![c] = elapsed] /\ pc[c] = "idle"
        /\ elapsed >= owed /\ UNCHANGED <<keepaliveIn, timeToNextPing, tmp, idle, owed>>
    BY <1>5 DEF CallKeepalive, Call
  <2>2. /\ c \in Threads /\ c # Reader /\ pc'[c] = "k_state" /\ arg'[c] = elapsed
        /\ \A s \in Threads \ {c} : arg'[s] = arg[s]
    BY SMT, <2>1, ThreadAssumption DEF Goto, Threads, TypeInv, ThreadTypes, LocalTypes
  <2>3. Cap' = Cap
    BY <2>1, <2>2, CapSame
  <2>4. owed <= elapsed
    BY SMT, <2>1, DurationAssumption DEF TypeInv, ClockTypes
  <2>5. ClockInv'
    BY <2>1, <2>3 DEF TimerInv, ClockInv
  <2>6. ThreadTimer(c)' /\ CallerTimer(c)'
    BY <2>1, <2>2, <2>4 DEF ThreadTimer, CallerTimer
  <2> QED
    BY <2>1, <2>2, <2>5, <2>6, OthersTimer DEF TypeInv, SharedTypes
<1>6. ASSUME NEW c \in Callers, ConnectInit(c) PROVE TimerInv'
  <2>1. /\ pc[c] = "c_init" /\ Goto(c, "c_fill") /\ keepaliveIn' = 0 /\ timeToNextPing' = 0
        /\ UNCHANGED <<tmp, arg, idle, owed>>
    BY <1>6 DEF ConnectInit
  <2>2. Cap' = 0
    BY SMT, <2>1 DEF Cap
  <2>3. pc[Reader] = "idle" /\ c # Reader /\ Reader \in Threads
    BY <2>1, ThreadAssumption DEF OpenInv, OpeningInv, FreshInv, Threads
  <2>4. pc'[c] = "c_fill" /\ pc'[Reader] = "idle"
    BY SMT, <2>1, <2>3 DEF Goto, Threads, TypeInv, ThreadTypes, LocalTypes
  <2>5. ClockInv'
    BY SMT, <2>1, <2>2 DEF TimerInv, ClockInv, TypeInv, ClockTypes
  <2>6. ASSUME NEW t \in Threads PROVE ThreadTimer(t)'
    BY <2>4 DEF ThreadTimer, Threads, SoleCaller
  <2>7. ASSUME NEW d \in Callers PROVE CallerTimer(d)'
    <3>1. pc'[d] = "c_fill"
      BY <2>4 DEF SoleCaller
    <3> QED
      BY SMT, <2>1, <3>1 DEF CallerTimer
  <2> QED
    BY <2>5, <2>6, <2>7 DEF TimerInv
<1>7. ASSUME NEW c \in Callers, ConnectFill(c) PROVE TimerInv'
  <2>1. /\ pc[c] = "c_fill" /\ c \in Threads /\ c # Reader
        /\ UNCHANGED <<keepaliveIn, timeToNextPing, tmp, arg, idle, owed>>
    BY <1>7, ThreadAssumption DEF ConnectFill, Threads
  <2>2. CASE Goto(c, "c_return")
    BY <2>1, <2>2, QuietTimer
  <2>3. CASE Goto(c, "c_send")
    <3>1. Cap' = Cap
      BY <2>1, <2>3, CapSame
    <3>2. pc'[c] = "c_send"
      BY SMT, <2>1, <2>3 DEF Goto, TypeInv, ThreadTypes, LocalTypes
    <3>3. keepaliveIn <= 0
      BY <2>1 DEF TimerInv, CallerTimer
    <3>4. ClockInv' /\ ThreadTimer(c)' /\ CallerTimer(c)'
      BY <2>1, <3>1, <3>2, <3>3 DEF TimerInv, ClockInv, ThreadTimer, CallerTimer
    <3> QED
      BY <2>1, <2>3, <3>4, OthersTimer DEF TypeInv, SharedTypes
  <2> QED
    BY <1>7, <2>2, <2>3 DEF ConnectFill
<1>8. ASSUME NEW c \in Callers, ConnectSend(c) PROVE TimerInv'
  <2>1. /\ pc[c] = "c_send" /\ c \in Threads /\ c # Reader
        /\ UNCHANGED <<keepaliveIn, timeToNextPing, tmp, arg>>
    BY <1>8, ThreadAssumption DEF ConnectSend, Threads
  <2>2. \/ Goto(c, "c_keepalive") /\ idle' = 0 /\ owed' = 0
        \/ Goto(c, "c_return") /\ idle' = idle /\ owed' = owed
    BY <1>8 DEF ConnectSend, Transmit
  <2>3. CASE Goto(c, "c_return") /\ idle' = idle /\ owed' = owed
    BY <2>1, <2>3, QuietTimer
  <2>4. CASE Goto(c, "c_keepalive") /\ idle' = 0 /\ owed' = 0
    <3>1. Cap' = Cap
      BY <2>1, <2>4, CapSame
    <3>2. pc'[c] = "c_keepalive"
      BY SMT, <2>1, <2>4 DEF Goto, TypeInv, ThreadTypes, LocalTypes
    <3>3. keepaliveIn <= 0
      BY <2>1 DEF TimerInv, CallerTimer
    <3>4. Cap = 0
      BY SMT, <3>3 DEF Cap
    <3>5. ClockInv'
      BY SMT, <2>1, <2>4, <3>1, <3>4, PeriodAssumption DEF TimerInv, ClockInv
    <3>6. ThreadTimer(c)' /\ CallerTimer(c)'
      BY <2>1, <2>4, <3>2, <3>3 DEF ThreadTimer, CallerTimer
    <3> QED
      BY <2>1, <2>4, <3>5, <3>6, OthersTimer DEF TypeInv, SharedTypes
  <2> QED
    BY <2>2, <2>3, <2>4
<1>9. ASSUME NEW c \in Callers, ConnectKeepalive(c) PROVE TimerInv'
  <2>1. /\ pc[c] = "c_keepalive" /\ Goto(c, "c_store")
        /\ keepaliveIn' = IF arg[c] = 0 THEN INT32_MIN ELSE 2 * arg[c]
        /\ UNCHANGED <<timeToNextPing, tmp, arg, idle, owed>>
    BY <1>9 DEF ConnectKeepalive
  <2>2. /\ c \in Threads /\ c # Reader /\ pc'[c] = "c_store" /\ pc'[Reader] = pc[Reader]
        /\ arg[c] \in Nat
    BY SMT, <2>1, ThreadAssumption DEF Goto, Threads, TypeInv, ThreadTypes, LocalTypes
  <2>3. keepaliveIn <= 0 /\ idle = 0 /\ owed = 0
    BY <2>1 DEF TimerInv, CallerTimer
  <2>4. Cap = 0
    BY SMT, <2>3 DEF Cap
  <2>5. IF arg[c] = 0 THEN keepaliveIn' <= 0 ELSE keepaliveIn' >= 2
    BY SMT, <2>1, <2>2 DEF INT32_MIN
  <2>6. Cap' \in Nat
    BY SMT, <2>1, <2>2 DEF Cap, INT32_MIN
  <2>7. ClockInv'
    <3>1. timeToNextPing \in Int /\ timeToNextPing <= 0
      BY <2>4 DEF TimerInv, ClockInv, TypeInv, SharedTypes
    <3>2. timeToNextPing <= Cap'
      BY SMT, <2>6, <3>1
    <3>3. 0 <= Cap' - timeToNextPing + 0 /\ (Cap' > 0 => 0 < Cap' + 0)
      BY <2>6, <3>1, <3>2, WithinCap
    <3> QED
      BY <2>1, <2>3, <3>2, <3>3, PeriodAssumption DEF ClockInv, TimerInv
  <2>8. ASSUME NEW t \in Threads PROVE ThreadTimer(t)'
    <3>1. CASE t = c
      BY <2>2, <3>1 DEF ThreadTimer
    <3>2. CASE t = Reader
      <4>1. pc[t] = "t_store" => tmp[t] <= 0
        BY <2>4 DEF TimerInv, ThreadTimer
      <4>2. pc[t] = "t_store" => tmp[t] <= Cap'
        BY SMT, <2>6, <4>1 DEF TypeInv, ThreadTypes, LocalTypes
      <4>3. pc[t] = "k_store" => tmp[t] <= Cap'
        BY SMT, <2>4, <2>6 DEF TypeInv, ThreadTypes, LocalTypes, TimerInv, ThreadTimer
      <4> QED
        BY <2>1, <2>2, <2>3, <3>2, <4>2, <4>3 DEF ThreadTimer
    <3> QED
      BY <3>1, <3>2 DEF Threads, SoleCaller
  <2>9. ASSUME NEW d \in Callers PROVE CallerTimer(d)'
    <3>1. d = c
      BY DEF SoleCaller
    <3> QED
      BY <2>1, <2>2, <2>3, <2>5, <3>1 DEF CallerTimer
  <2> QED
    BY <2>7, <2>8, <2>9 DEF TimerInv
<1>10. ASSUME NEW c \in Callers, ConnectStore(c) PROVE TimerInv'
  <2>1. /\ pc[c] = "c_store" /\ Goto(c, "c_wait") /\ timeToNextPing' = 0
        /\ keepaliveIn' = IF arg[c] = 0 THEN keepaliveIn ELSE keepaliveIn - 1
        /\ UNCHANGED <<tmp, arg, idle, owed>>
    BY <1>10 DEF ConnectStore
  <2>2. /\ c \in Threads /\ c # Reader /\ pc'[c] = "c_wait" /\ pc'[Reader] = pc[Reader]
    BY SMT, <2>1, ThreadAssumption DEF Goto, Threads, TypeInv, ThreadTypes, LocalTypes
  <2>3. (IF arg[c] = 0 THEN keepaliveIn <= 0 ELSE keepaliveIn >= 2) /\ idle = 0 /\ owed = 0
    BY <2>1 DEF TimerInv, CallerTimer
  <2>4. \A d \in Callers : pc'[d] # "c_store"
    BY <2>2 DEF SoleCaller
  <2>5. Cap' = Cap /\ Cap \in Nat
    BY SMT, <2>1, <2>3, <2>4, CapType DEF Cap, TypeInv, SharedTypes
  <2>6. ClockInv'
    BY SMT, <2>1, <2>3, <2>5, PeriodAssumption DEF ClockInv
  <2>7. ASSUME NEW t \in Threads PROVE ThreadTimer(t)'
    BY <2>1, <2>2, <2>3, <2>5 DEF ThreadTimer, TimerInv, Threads, SoleCaller
  <2>8. ASSUME NEW d \in Callers PROVE CallerTimer(d)'
    BY <2>2 DEF CallerTimer, SoleCaller
  <2> QED
    BY <2>6, <2>7, <2>8 DEF TimerInv
<1>11. ASSUME NEW c \in Callers, ConnectPoll(c) PROVE TimerInv'
  BY <1>11, StillTimer DEF ConnectPoll
<1>12. ASSUME NEW c \in Callers, ConnectPolled(c) PROVE TimerInv'
  <2>1. c \in Threads /\ Goto(c, "c_return")
    BY <1>12 DEF ConnectPolled, Threads
  <2>2. \A s \in Threads \ {c} : tmp'[s] = tmp[s] /\ arg'[s] = arg[s]
    BY SMT, <1>12 DEF ConnectPolled, TypeInv, ThreadTypes, LocalTypes
  <2> QED
    BY <1>12, <2>1, <2>2, QuietTimer, ThreadAssumption DEF ConnectPolled
<1>13. ASSUME NEW c \in Callers, ConnectReturn(c) PROVE TimerInv'
  BY <1>13, ReturnTimer DEF ConnectReturn, Threads
<1>14. ASSUME NEW t \in Threads, TakeId(t) PROVE TimerInv'
  <2>1. pc[t] = "p_id" /\ UNCHANGED <<keepaliveIn, timeToNextPing, owed, idle>>
    BY <1>14 DEF TakeId
  <2>2. CASE bound /\ state = "STATE_CONNECTED"
    <3>1. Goto(t, "p_encode") /\ UNCHANGED arg /\ tmp' = [tmp EXCEPT ![t] = packetCntr]
      BY <1>14, <2>2 DEF TakeId
    <3>2. \A s \in Threads \ {t} : tmp'[s] = tmp[s]
      BY SMT, <3>1 DEF TypeInv, ThreadTypes, LocalTypes
    <3> QED
      BY <2>1, <3>1, <3>2, QuietTimer
  <2>3. CASE ~(bound /\ state = "STATE_CONNECTED")
    BY <1>14, <2>1, <2>3, FailedTimer DEF TakeId
  <2> QED
    BY <2>2, <2>3
<1>15. ASSUME NEW t \in Threads, Encode(t) PROVE TimerInv'
  <2>1. pc[t] = "p_encode" /\ UNCHANGED <<keepaliveIn, timeToNextPing, owed, idle>>
    BY <1>15 DEF Encode
  <2>2. CASE Goto(t, "p_send") /\ UNCHANGED locals
    BY <2>1, <2>2, QuietTimer
  <2>3. CASE Failed(t)
    BY <2>1, <2>3, FailedTimer
  <2> QED
    BY <1>15, <2>2, <2>3 DEF Encode
<1>16. ASSUME NEW t \in Threads, Send(t) PROVE TimerInv'
  <2>1. /\ pc[t] = "p_send" /\ t \in Threads
        /\ UNCHANGED <<keepaliveIn, timeToNextPing, owed>> /\ (idle' = idle \/ idle' = 0)
    BY <1>16 DEF Send, Transmit, Threads
  <2>2. CASE Goto(t, "t_load") /\ idle' = 0 /\ UNCHANGED <<tmp, arg>>
    BY <2>1, <2>2, QuietTimer
  <2>3. CASE Failed(t)
    BY <2>1, <2>3, FailedTimer
  <2> QED
    BY <1>16, <2>2, <2>3 DEF Send, Transmit
<1>17. ASSUME NEW t \in Threads, SubscribeStatus(t) PROVE TimerInv'
  <2>1. t \in Threads /\ Goto(t, "s_wait")
    BY <1>17 DEF SubscribeStatus, Threads
  <2>2. \A s \in Threads \ {t} : tmp'[s] = tmp[s] /\ arg'[s] = arg[s]
    BY SMT, <1>17 DEF SubscribeStatus, TypeInv, ThreadTypes, LocalTypes
  <2> QED
    BY <1>17, <2>1, <2>2, QuietTimer, ThreadAssumption DEF SubscribeStatus
<1>18. ASSUME NEW t \in Threads, SubscribePoll(t) PROVE TimerInv'
  BY <1>18, StillTimer DEF SubscribePoll
<1>19. ASSUME NEW t \in Threads, SubscribePolled(t) PROVE TimerInv'
  <2>1. t \in Threads /\ Goto(t, "s_clear")
    BY <1>19 DEF SubscribePolled, Threads
  <2>2. \A s \in Threads \ {t} : tmp'[s] = tmp[s] /\ arg'[s] = arg[s]
    BY SMT, <1>19 DEF SubscribePolled, TypeInv, ThreadTypes, LocalTypes
  <2> QED
    BY <1>19, <2>1, <2>2, QuietTimer, ThreadAssumption DEF SubscribePolled
<1>20. ASSUME NEW t \in Threads, SubscribeReturn(t) PROVE TimerInv'
  BY <1>20, ReturnTimer DEF SubscribeReturn, Threads
<1>21. ASSUME NEW t \in Threads, TimerLoad(t) PROVE TimerInv'
  <2>1. /\ pc[t] = "t_load" /\ Goto(t, "t_store") /\ tmp' = [tmp EXCEPT ![t] = keepaliveIn]
        /\ UNCHANGED <<keepaliveIn, timeToNextPing, arg, idle, owed>>
    BY <1>21 DEF TimerLoad
  <2>2. /\ pc'[t] = "t_store" /\ tmp'[t] = keepaliveIn
        /\ \A s \in Threads \ {t} : tmp'[s] = tmp[s]
    BY SMT, <2>1 DEF Goto, TypeInv, ThreadTypes, LocalTypes
  <2>3. Cap' = Cap
    BY <2>1, CapSame
  <2>4. keepaliveIn <= Cap
    BY SMT DEF Cap, TypeInv, SharedTypes
  <2>5. idle = 0
    BY <2>1 DEF TimerInv, ThreadTimer
  <2>6. ClockInv'
    BY <2>1, <2>3 DEF TimerInv, ClockInv
  <2>7. ThreadTimer(t)' /\ CallerTimer(t)'
    BY <2>1, <2>2, <2>3, <2>4, <2>5 DEF ThreadTimer, CallerTimer
  <2> QED
    BY <2>1, <2>2, <2>6, <2>7, OthersTimer DEF TypeInv, SharedTypes
<1>22. ASSUME NEW t \in Threads, TimerStore(t) PROVE TimerInv'
  <2>1. /\ pc[t] = "t_store" /\ timeToNextPing' = tmp[t]
        /\ UNCHANGED <<keepaliveIn, idle>> /\ (owed' = owed \/ owed' = 0)
    BY <1>22 DEF TimerStore
  <2>2. PICK label \in {"s_status", "idle", "t_load"} : Goto(t, label)
    BY <1>22 DEF TimerStore, Return
  <2>3. /\ pc'[t] = label
        /\ \A s \in Threads \ {t} : tmp'[s] = tmp[s] /\ arg'[s] = arg[s]
    <3>1. pc'[t] = label
      BY SMT, <2>2 DEF Goto, TypeInv, ThreadTypes, LocalTypes
    <3>2. \/ UNCHANGED <<tmp, arg>>
          \/ tmp' = [tmp EXCEPT ![t] = 0] /\ (arg' = arg \/ arg' = [arg EXCEPT ![t] = 0])
      BY <1>22 DEF TimerStore, Return
    <3> QED
      BY SMT, <3>1, <3>2 DEF TypeInv, ThreadTypes, LocalTypes
  <2>4. Cap' = Cap /\ Cap \in Nat
    BY <2>1, <2>2, CapSame, CapType
  <2>5. idle = 0 /\ tmp[t] <= Cap /\ tmp[t] \in Int
    BY <2>1 DEF TimerInv, ThreadTimer, TypeInv, ThreadTypes, LocalTypes
  <2>6. owed' \in Nat /\ owed' <= Period
    BY SMT, <2>1, PeriodAssumption DEF TimerInv, ClockInv, TypeInv, ClockTypes
  <2>7. ClockInv'
    <3>1. 0 <= Cap - tmp[t] + owed' /\ (Cap > 0 => 0 < Cap + owed')
      BY <2>4, <2>5, <2>6, WithinCap
    <3> QED
      BY <2>1, <2>4, <2>5, <2>6, <3>1 DEF ClockInv
  <2>8. ThreadTimer(t)' /\ CallerTimer(t)'
    BY <2>1, <2>3, <2>5 DEF ThreadTimer, CallerTimer
  <2>9. Cap > 0 => idle' <= Cap - timeToNextPing'
    BY SMT, <2>1, <2>4, <2>5
  <2> QED
    BY <2>1, <2>2, <2>3, <2>5, <2>7, <2>8, <2>9, OthersTimer
<1>23. ASSUME NEW c \in Callers, KeepaliveState(c) PROVE TimerInv'
  <2>1. /\ pc[c] = "k_state" /\ c \in Threads /\ c # Reader
        /\ UNCHANGED <<keepaliveIn, timeToNextPing, idle>>
    BY <1>23, ThreadAssumption DEF KeepaliveState, Threads
  <2>2. CASE Return(c, FALSE) /\ owed' = owed
    BY <2>1, <2>2, ReturnTimer
  <2>3. CASE Return(c, TRUE) /\ keepaliveIn = INT32_MIN /\ owed' = 0
    <3>1. /\ Goto(c, "idle") /\ pc'[c] = "idle"
          /\ \A s \in Threads \ {c} : tmp'[s] = tmp[s] /\ arg'[s] = arg[s]
      BY SMT, <2>1, <2>3 DEF Return, Goto, TypeInv, ThreadTypes, LocalTypes
    <3>2. Cap = 0 /\ Cap' = Cap
      BY SMT, <2>1, <2>3, <3>1, CapSame DEF Cap, INT32_MIN
    <3>3. ClockInv'
      BY SMT, <2>1, <2>3, <3>2, PeriodAssumption DEF TimerInv, ClockInv
    <3>4. ThreadTimer(c)' /\ CallerTimer(c)'
      BY <2>1, <3>1 DEF ThreadTimer, CallerTimer
    <3> QED
      BY <2>1, <2>3, <3>1, <3>3, <3>4, OthersTimer DEF TypeInv, SharedTypes
  <2>4. CASE Goto(c, "k_compare") /\ UNCHANGED <<tmp, arg, owed>>
    <3>0. Cap' = Cap
      BY <2>1, <2>4, CapSame
    <3>1. pc'[c] = "k_compare"
      BY SMT, <2>1, <2>4 DEF Goto, TypeInv, ThreadTypes, LocalTypes
    <3>2. ClockInv' /\ ThreadTimer(c)' /\ CallerTimer(c)'
      BY <2>1, <2>4, <3>0, <3>1 DEF TimerInv, ClockInv, ThreadTimer, CallerTimer
    <3> QED
      BY <2>1, <2>4, <3>2, OthersTimer DEF TypeInv, SharedTypes
  <2> QED
    BY <1>23, <2>2, <2>3, <2>4 DEF KeepaliveState
<1>24. ASSUME NEW c \in Callers, KeepaliveCompare(c) PROVE TimerInv'
  <2>1. /\ pc[c] = "k_compare" /\ c \in Threads /\ c # Reader
        /\ UNCHANGED <<keepaliveIn, timeToNextPing, idle, owed, tmp, arg>>
    BY <1>24, ThreadAssumption DEF KeepaliveCompare, Threads
  <2>2. CASE Goto(c, "k_zero")
    BY <2>1, <2>2, QuietTimer
  <2>3. CASE Goto(c, "k_load")
    <3>0. Cap' = Cap
      BY <2>1, <2>3, CapSame
    <3>1. pc'[c] = "k_load"
      BY SMT, <2>1, <2>3 DEF Goto, TypeInv, ThreadTypes, LocalTypes
    <3>2. ClockInv' /\ ThreadTimer(c)' /\ CallerTimer(c)'
      BY <2>1, <2>3, <3>0, <3>1 DEF TimerInv, ClockInv, ThreadTimer, CallerTimer
    <3> QED
      BY <2>1, <2>3, <3>2, OthersTimer DEF TypeInv, SharedTypes
  <2> QED
    BY <1>24, <2>2, <2>3 DEF KeepaliveCompare
<1>25. ASSUME NEW c \in Callers, KeepaliveLoad(c) PROVE TimerInv'
  <2>1. /\ pc[c] = "k_load" /\ Goto(c, "k_store") /\ c \in Threads /\ c # Reader
        /\ tmp' = [tmp EXCEPT ![c] = timeToNextPing]
        /\ UNCHANGED <<keepaliveIn, timeToNextPing, idle, owed, arg>>
    BY <1>25, ThreadAssumption DEF KeepaliveLoad, Threads
  <2>2. /\ pc'[c] = "k_store" /\ tmp'[c] = timeToNextPing
        /\ \A s \in Threads \ {c} : tmp'[s] = tmp[s]
    BY SMT, <2>1 DEF Goto, TypeInv, ThreadTypes, LocalTypes
  <2>3. Cap' = Cap /\ Cap \in Nat
    BY <2>1, CapSame, CapType
  <2>4. owed <= arg[c]
    BY <2>1 DEF TimerInv, CallerTimer
  <2>5. Cap > 0 => idle <= Cap - timeToNextPing + arg[c]
    BY SMT, <2>1, <2>3, <2>4
       DEF TimerInv, ClockInv, TypeInv, SharedTypes, ClockTypes, ThreadTypes, LocalTypes
  <2>6. timeToNextPing <= Cap
    BY DEF TimerInv, ClockInv
  <2>7. ClockInv' /\ ThreadTimer(c)' /\ CallerTimer(c)'
    BY <2>1, <2>2, <2>3, <2>4, <2>5, <2>6 DEF TimerInv, ClockInv, ThreadTimer, CallerTimer
  <2> QED
    BY <2>1, <2>2, <2>7, OthersTimer DEF TypeInv, SharedTypes
<1>26. ASSUME NEW c \in Callers, KeepaliveStore(c) PROVE TimerInv'
  <2>1. /\ pc[c] = "k_store" /\ Goto(c, "k_test") /\ c \in Threads /\ c # Reader
        /\ timeToNextPing' = tmp[c] - arg[c]
        /\ UNCHANGED <<keepaliveIn, idle, owed, tmp, arg>>
    BY <1>26, ThreadAssumption DEF KeepaliveStore, Threads
  <2>2. pc'[c] = "k_test"
    BY SMT, <2>1 DEF Goto, TypeInv, ThreadTypes, LocalTypes
  <2>3. Cap' = Cap /\ Cap \in Nat
    BY <2>1, CapSame, CapType
  <2>4. tmp[c] \in Int /\ arg[c] \in Nat /\ owed \in Nat /\ idle \in Nat
    BY <2>1 DEF TypeInv, ThreadTypes, LocalTypes, ClockTypes
  <2>5. tmp[c] <= Cap /\ (Cap > 0 => idle <= Cap - tmp[c] + arg[c])
    BY <2>1 DEF TimerInv, ThreadTimer, CallerTimer
  <2>6. timeToNextPing' \in Int /\ timeToNextPing' <= Cap
        /\ (Cap > 0 => idle <= Cap - timeToNextPing')
    BY SMT, <2>1, <2>3, <2>4, <2>5
  <2>7. ClockInv'
    BY SMT, <2>1, <2>3, <2>4, <2>6 DEF TimerInv, ClockInv
  <2>8. ThreadTimer(c)' /\ CallerTimer(c)'
    BY <2>1, <2>2, <2>3, <2>6 DEF ThreadTimer, CallerTimer
  <2> QED
    BY <2>1, <2>6, <2>7, <2>8, OthersTimer
<1>27. ASSUME NEW c \in Callers, KeepaliveZero(c) PROVE TimerInv'
  <2>1. /\ pc[c] = "k_zero" /\ Goto(c, "k_test") /\ c \in Threads /\ c # Reader
        /\ timeToNextPing' = 0 /\ UNCHANGED <<keepaliveIn, idle, owed, tmp, arg>>
    BY <1>27, ThreadAssumption DEF KeepaliveZero, Threads
  <2>2. pc'[c] = "k_test"
    BY SMT, <2>1 DEF Goto, TypeInv, ThreadTypes, LocalTypes
  <2>3. Cap' = Cap /\ Cap \in Nat
    BY <2>1, CapSame, CapType
  <2>4. ClockInv'
    BY SMT, <2>1, <2>3 DEF TimerInv, ClockInv, TypeInv, ClockTypes
  <2>5. ThreadTimer(c)' /\ CallerTimer(c)'
    BY SMT, <2>1, <2>2 DEF ThreadTimer, CallerTimer
  <2> QED
    BY SMT, <2>1, <2>4, <2>5, OthersTimer
<1>28. ASSUME NEW c \in Callers, KeepaliveTest(c) PROVE TimerInv'
  <2>1. /\ pc[c] = "k_test" /\ c \in Threads /\ c # Reader
        /\ UNCHANGED <<keepaliveIn, timeToNextPing, idle>>
    BY <1>28, ThreadAssumption DEF KeepaliveTest, Threads
  <2>2. CASE Goto(c, "k_send") /\ UNCHANGED <<tmp, arg, owed>>
    BY <2>1, <2>2, QuietTimer
  <2>3. CASE timeToNextPing > 0 /\ Return(c, TRUE) /\ owed' = 0
    <3>1. /\ Goto(c, "idle") /\ pc'[c] = "idle"
          /\ \A s \in Threads \ {c} : tmp'[s] = tmp[s] /\ arg'[s] = arg[s]
      BY SMT, <2>1, <2>3 DEF Return, Goto, TypeInv, ThreadTypes, LocalTypes
    <3>2. Cap' = Cap /\ Cap \in Nat
      BY <2>1, <3>1, CapSame, CapType
    <3>3. timeToNextPing \in Int /\ idle \in Nat
      BY DEF TypeInv, SharedTypes, ClockTypes
    <3>4. Cap > 0 => idle <= Cap - timeToNextPing
      BY SMT, <2>1, <2>3, <3>3 DEF TimerInv, CallerTimer
    <3>5. ClockInv'
      BY SMT, <2>1, <2>3, <3>2, <3>3, <3>4, PeriodAssumption DEF TimerInv, ClockInv
    <3>6. ThreadTimer(c)' /\ CallerTimer(c)'
      BY <2>1, <3>1 DEF ThreadTimer, CallerTimer
    <3> QED
      BY <2>1, <2>3, <3>1, <3>3, <3>5, <3>6, OthersTimer
  <2> QED
    BY <1>28, <2>2, <2>3 DEF KeepaliveTest
<1>29. ASSUME NEW c \in Callers, KeepaliveSend(c) PROVE TimerInv'
  <2>1. /\ pc[c] = "k_send" /\ c \in Threads
        /\ UNCHANGED <<keepaliveIn, timeToNextPing, owed>> /\ (idle' = idle \/ idle' = 0)
    BY <1>29 DEF KeepaliveSend, Transmit, Threads
  <2>2. CASE Goto(c, "t_load") /\ idle' = 0 /\ UNCHANGED <<tmp, arg>>
    BY <2>1, <2>2, QuietTimer
  <2>3. CASE Return(c, FALSE)
    BY <2>1, <2>3, ReturnTimer
  <2> QED
    BY <1>29, <2>2, <2>3 DEF KeepaliveSend, Transmit
<1>30. ASSUME NEW c \in Callers, DisconnectState(c) PROVE TimerInv'
  <2>1. /\ pc[c] = "d_state" /\ c \in Threads /\ c # Reader
        /\ UNCHANGED <<keepaliveIn, timeToNextPing, idle, owed>>
    BY <1>30, ThreadAssumption DEF DisconnectState, Threads
  <2>2. CASE Goto(c, "d_send") /\ UNCHANGED <<tmp, arg>>
    BY <2>1, <2>2, QuietTimer
  <2>3. CASE Return(c, FALSE)
    BY <2>1, <2>3, ReturnTimer
  <2> QED
    BY <1>30, <2>2, <2>3 DEF DisconnectState
<1>31. ASSUME NEW c \in Callers, DisconnectSend(c) PROVE TimerInv'
  BY <1>31, ReturnTimer DEF DisconnectSend, Transmit, Threads
<1>32. ASSUME Receive PROVE TimerInv'
  <2>1. Reader \in Threads /\ Goto(Reader, "r_parse")
    BY <1>32 DEF Receive, Threads
  <2>2. \A s \in Threads \ {Reader} : tmp'[s] = tmp[s] /\ arg'[s] = arg[s]
    BY SMT, <1>32 DEF Receive, TypeInv, ThreadTypes, LocalTypes
  <2> QED
    BY <1>32, <2>1, <2>2, QuietTimer, ThreadAssumption DEF Receive
<1>33. ASSUME ParseConnack PROVE TimerInv'
  <2>1. /\ Reader \in Threads /\ pc[Reader] = "r_parse"
        /\ UNCHANGED <<keepaliveIn, timeToNextPing, idle, owed, tmp>>
    BY <1>33 DEF ParseConnack, Threads
  <2>2. \/ Goto(Reader, "t_load") /\ UNCHANGED arg
        \/ Goto(Reader, "p_id") /\ arg' = [arg EXCEPT ![Reader] = 0]
    BY <1>33 DEF ParseConnack, Call
  <2>3. \A s \in Threads \ {Reader} : arg'[s] = arg[s]
    BY SMT, <2>2 DEF TypeInv, ThreadTypes, LocalTypes
  <2> QED
    BY <2>1, <2>2, <2>3, QuietTimer
<1>34. ASSUME ParseOther PROVE TimerInv'
  <2>1. PICK label \in {"t_load", "idle"} : Goto(Reader, label)
    BY <1>34 DEF ParseOther
  <2> QED
    BY <1>34, <2>1, QuietTimer DEF ParseOther, Threads
<1>35. ASSUME LinkDown PROVE TimerInv'
  BY <1>35, StillTimer DEF LinkDown
<1>36. ASSUME BrokerReads PROVE TimerInv'
  BY <1>36, StillTimer DEF BrokerReads
<1>37. ASSUME BrokerPublishes PROVE TimerInv'
  BY <1>37, StillTimer DEF BrokerPublishes
<1>38. ASSUME Tick PROVE TimerInv'
  <2>1. /\ owed < Period /\ owed' = owed + 1 /\ idle' = idle + 1
        /\ UNCHANGED <<keepaliveIn, timeToNextPing, pc, tmp, arg>>
    BY <1>38 DEF Tick
  <2>2. \A t \in Threads : pc'[t] = "idle"
    BY <1>38, <2>1 DEF Tick, Resting
  <2>3. Cap' = Cap /\ Cap \in Nat
    BY <2>1, CapType DEF Cap
  <2>4. ClockInv'
    BY SMT, <2>1, <2>3, PeriodAssumption DEF TimerInv, ClockInv, TypeInv, SharedTypes, ClockTypes
  <2> QED
    BY <2>2, <2>4 DEF TimerInv, ThreadTimer, CallerTimer, Threads
<1>39. CASE UNCHANGED vars
  BY <1>39, StillTimer DEF vars
<1>40. ASSUME NEW c \in Callers, Calls(c) PROVE TimerInv'
  BY <1>1, <1>2, <1>3, <1>5, <1>4, <1>40 DEF Calls
<1>41. ASSUME NEW c \in Callers, CallerSteps(c) PROVE TimerInv'
  BY <1>6, <1>7, <1>8, <1>9, <1>10, <1>11, <1>12, <1>13, <1>23, <1>24, <1>25, <1>26, <1>27,
     <1>28, <1>29, <1>30, <1>31, <1>41 DEF CallerSteps
<1>42. ASSUME NEW t \in Threads, SharedSteps(t) PROVE TimerInv'
  BY <1>14, <1>15, <1>16, <1>17, <1>18, <1>19, <1>20, <1>21, <1>22, <1>42 DEF SharedSteps
<1>43. CASE ReaderSteps
  BY <1>32, <1>33, <1>34, <1>43 DEF ReaderSteps
<1>44. CASE Environment
  BY <1>35, <1>36, <1>37, <1>38, <1>44 DEF Environment
<1> QED
  BY <1>39, <1>40, <1>41, <1>42, <1>43, <1>44 DEF Next

\* The clock invariant bounds the time without traffic.
LEMMA TimerBound == TypeInv /\ TimerInv => TrafficBound
BY SMT, PeriodAssumption
   DEF TimerInv, ClockInv, Cap, TrafficBound, KeepaliveOn, TypeInv, SharedTypes, ClockTypes

\* With one application thread and a reader, a connection with keepalive never goes
\* without traffic for the keepalive time and one interval between the calls of
\* mqtt_keepalive, whatever the order of their loads and stores of
\* time_to_next_ping_in_ms (mqtt.c 1554-1559, 1597, 1622, 1635-1643, 1667).
THEOREM TrafficBounded == SoleCaller => (Spec => []TrafficBound)
<1> SUFFICES ASSUME SoleCaller PROVE Spec => []TrafficBound
  OBVIOUS
<1>1. TypeInv /\ OpenInv /\ TimerInv /\ [Next]_vars => TypeInv' /\ OpenInv' /\ TimerInv'
  BY TypeStep, OpenStep, TimerStep
<1> QED
  BY <1>1, TimerBound, TypeInit, OpenInit, TimerInit, PTL DEF Spec


-----------------------------------------------------------------------------
(* What an application may rely on: AcceptInv, RequestInv, and the abstract session. *)

\* The reader stays out of the sending half of the library.
Listening == ~CallbackSubscribes

\* Packet identifiers have 16 bits: the counter does not come round to one still
\* in use on the connection.
Identifiers == MaxSent <= 65536

-----------------------------------------------------------------------------
(* The inductive invariants. *)

\* From CONNECT to the broker's refusal, or the end of the connection, the state
\* says connected or is about to; and no CONNACK of an accepted connection is a
\* refusal.
StateInv ==
  session \in {"none", "accepted"} /\ sent # <<>> =>
    state = "STATE_CONNECTED" \/ \E c \in Callers : pc[c] \in {"c_keepalive", "c_store"}

ConnackInv ==
  /\ session = "none" => inbox = <<>> /\ pc[Reader] = "idle"
  /\ session = "accepted" =>
       /\ \A i \in DOMAIN inbox : inbox[i].type = "CONNACK" => inbox[i].ok
       /\ pc[Reader] = "r_parse" /\ rx.type = "CONNACK" => rx.ok

AcceptInv == StateInv /\ ConnackInv

\* Where a call is tells which API function it is in.
ConnectSteps   == {"c_init", "c_fill", "c_send", "c_keepalive", "c_store", "c_wait", "c_return"}
PacketSteps    == {"p_id", "p_encode", "p_send"}
WaitSteps      == {"s_status", "s_wait", "s_clear"}
KeepaliveSteps == {"k_state", "k_compare", "k_load", "k_store", "k_zero", "k_test", "k_send"}
ReaderLabels   == {"idle", "r_parse", "t_load", "t_store"}

ReaderInv ==
  /\ pc[Reader] \in ReaderLabels
  /\ pc[Reader] # "idle" => op[Reader] = "receive"

FunctionInv(c) ==
  /\ pc[c] # "r_parse"
  /\ pc[c] \in ConnectSteps => op[c] = "connect"
  /\ pc[c] \in PacketSteps => op[c] \in {"publish", "subscribe"}
  /\ pc[c] \in {"t_load", "t_store"} => op[c] \in {"publish", "subscribe", "keepalive"}
  /\ pc[c] \in WaitSteps => op[c] = "subscribe"
  /\ pc[c] \in KeepaliveSteps => op[c] = "keepalive"
  /\ pc[c] \in {"d_state", "d_send"} => op[c] = "disconnect"

\* What out_fptr has accepted for the call so far.
AcceptedInv(c) ==
  /\ pc[c] \in {"c_keepalive", "c_store", "c_wait"} => accepted[c] = "CONNECT"
  /\ pc[c] = "c_return" => accepted[c] = "CONNECT" \/ sent = <<>>
  /\ pc[c] \in {"t_load", "t_store", "s_status", "s_wait"} /\ op[c] # "keepalive"
       => accepted[c] = RequestOf(op[c])
  /\ pc[c] = "s_clear" /\ ret[c] => accepted[c] = "SUBSCRIBE"
  /\ pc[c] = "idle" /\ ret[c] /\ op[c] # "keepalive" => accepted[c] = RequestOf(op[c])

\* The identifier of a call is the counter's value, and the shared buffer holds
\* the packet of the call until it is sent.
IdInv(c) ==
  /\ pc[c] = "p_id" => packetCntr < MaxSent
  /\ pc[c] = "p_encode" => tmp[c] = packetCntr /\ packetCntr < MaxSent
  /\ pc[c] = "p_send" => tmp[c] \in 0..MaxSent - 1 /\ packetCntr = tmp[c] + 1
  /\ pc[c] = "p_send" /\ arg[c] = 0 => buffer = Encoded(c)

\* The keepalive time is one the application asked for, the 500 ms off it or not.
AskedInv(c) ==
  /\ pc[c] \in {"c_init", "c_fill", "c_send", "c_keepalive", "c_store"} => arg[c] \in KeepaliveSecs
  /\ pc[c] = "c_store" => keepaliveIn = IF arg[c] = 0 THEN INT32_MIN ELSE 2 * arg[c]

CallInv(c) == FunctionInv(c) /\ AcceptedInv(c) /\ IdInv(c) /\ AskedInv(c)

\* The counter is ahead of every identifier on the wire, and of the one a call
\* has taken and not yet sent.
UsedInv ==
  /\ packetCntr <= MaxSent
  /\ \A i \in DOMAIN sent : sent[i].type = "SUBSCRIBE" =>
       /\ sent[i].id < packetCntr
       /\ \A c \in Callers : pc[c] = "p_send" => sent[i].id < tmp[c]

RateInv ==
  keepaliveIn > 0 /\ (\A c \in Callers : pc[c] # "c_store") =>
    \E secs \in KeepaliveSecs : keepaliveIn = 2 * secs - 1

RequestInv == ReaderInv /\ (\A c \in Callers : CallInv(c)) /\ UsedInv /\ UniqueIds /\ RateInv

-----------------------------------------------------------------------------
(* AcceptedMeansConnected. *)

LEMMA AcceptInit == Init => AcceptInv
<1> SUFFICES ASSUME Init PROVE AcceptInv
  OBVIOUS
<1>1. sent = <<>> /\ inbox = <<>> /\ session = "none" /\ pc[Reader] = "idle"
  BY DEF Init, Threads
<1> QED
  BY <1>1 DEF AcceptInv, StateInv, ConnackInv

\* A thread moves on: not into or out of the middle of mqtt_connect, nor to parsing.
LEMMA AcceptMove ==
  ASSUME TypeInv, AcceptInv, NEW t \in Threads, NEW label \in Labels \ {"r_parse"}, Goto(t, label),
         pc[t] \notin {"c_keepalive", "c_store"}, t # Reader \/ pc[t] # "idle",
         t # Reader => rx' = rx, UNCHANGED <<state, inbox, session>>,
         sent' = sent \/ sent # <<>>
  PROVE  AcceptInv'
<1>1. \A s \in Threads : pc'[s] = IF s = t THEN label ELSE pc[s]
  BY SMT DEF Goto, TypeInv, ThreadTypes, LocalTypes
<1>2. StateInv'
  BY <1>1 DEF AcceptInv, StateInv, Threads
<1>3. ConnackInv'
  BY <1>1 DEF AcceptInv, ConnackInv, Threads
<1> QED
  BY <1>2, <1>3 DEF AcceptInv

LEMMA AcceptReturn ==
  ASSUME TypeInv, AcceptInv, NEW t \in Threads, NEW value, Return(t, value),
         pc[t] \notin {"c_keepalive", "c_store", "idle"},
         t # Reader => rx' = rx, UNCHANGED <<state, inbox, session>>,
         sent' = sent \/ sent # <<>>
  PROVE  AcceptInv'
<1> DEFINE label == IF t = Reader THEN "t_load" ELSE "idle"
<1>1. Goto(t, label)
  BY DEF Return
<1>2. label \in Labels \ {"r_parse"}
  BY DEF Labels
<1> HIDE DEF label
<1> QED
  BY <1>1, <1>2, AcceptMove

LEMMA AcceptFailed ==
  ASSUME TypeInv, AcceptInv, NEW t \in Threads, Failed(t),
         pc[t] \notin {"c_keepalive", "c_store", "idle"},
         t # Reader => rx' = rx, UNCHANGED <<state, sent, inbox, session>>
  PROVE  AcceptInv'
<1>1. CASE op[t] = "subscribe"
  <2>1. Goto(t, "s_clear")
    BY <1>1 DEF Failed
  <2> QED
    BY <2>1, AcceptMove DEF Labels
<1>2. CASE op[t] # "subscribe"
  BY <1>2, AcceptReturn DEF Failed
<1> QED
  BY <1>1, <1>2

LEMMA AcceptStill ==
  ASSUME AcceptInv, UNCHANGED <<pc, rx, state, sent, inbox, session>>
  PROVE  AcceptInv'
BY DEF AcceptInv, StateInv, ConnackInv

LEMMA AcceptStep == SoleCaller /\ TypeInv /\ OpenInv /\ AcceptInv /\ [Next]_vars => AcceptInv'
<1> SUFFICES ASSUME SoleCaller, TypeInv, OpenInv, AcceptInv, [Next]_vars PROVE AcceptInv'
  OBVIOUS
<1> USE DEF Labels, shared, locals, threads, network, clocks
<1>1. ASSUME NEW c \in Callers, NEW secs \in KeepaliveSecs, NEW timeout \in TimeoutSecs,
             CallConnect(c, secs, timeout) PROVE AcceptInv'
  <2>1. pc[Reader] = "idle" /\ c # Reader /\ pc' = [pc EXCEPT ![c] = "c_init"]
        /\ sent' = <<>> /\ inbox' = <<>> /\ session' = "none"
    BY <1>1, ThreadAssumption DEF CallConnect, Call, Goto
  <2>2. pc'[Reader] = "idle"
    BY SMT, <2>1 DEF Threads, TypeInv, ThreadTypes, LocalTypes
  <2> QED
    BY <2>1, <2>2 DEF AcceptInv, StateInv, ConnackInv
<1>2. ASSUME NEW c \in Callers, NEW own \in {0, 1}, CallPublish(c, own) PROVE AcceptInv'
  <2>1. c \in Threads /\ c # Reader /\ Goto(c, "p_id")
    BY <1>2, ThreadAssumption DEF CallPublish, Call, Threads
  <2> QED
    BY <1>2, <2>1, AcceptMove DEF CallPublish
<1>3. ASSUME NEW c \in Callers, NEW timeout \in TimeoutSecs, CallSubscribe(c, timeout) PROVE AcceptInv'
  <2>1. c \in Threads /\ c # Reader /\ Goto(c, "p_id")
    BY <1>3, ThreadAssumption DEF CallSubscribe, Call, Threads
  <2> QED
    BY <1>3, <2>1, AcceptMove DEF CallSubscribe
<1>4. ASSUME NEW c \in Callers, NEW elapsed \in Durations, CallKeepalive(c, elapsed) PROVE AcceptInv'
  <2>1. c \in Threads /\ c # Reader /\ Goto(c, "k_state")
    BY <1>4, ThreadAssumption DEF CallKeepalive, Call, Threads
  <2> QED
    BY <1>4, <2>1, AcceptMove DEF CallKeepalive
<1>5. ASSUME NEW c \in Callers, CallDisconnect(c) PROVE AcceptInv'
  <2>1. c \in Threads /\ c # Reader /\ Goto(c, "d_state")
    BY <1>5, ThreadAssumption DEF CallDisconnect, Call, Threads
  <2> QED
    BY <1>5, <2>1, AcceptMove DEF CallDisconnect
<1>6. ASSUME NEW c \in Callers, ConnectInit(c) PROVE AcceptInv'
  <2>1. pc[c] = "c_init" /\ sent = <<>> /\ c # Reader
        /\ pc' = [pc EXCEPT ![c] = "c_fill"] /\ UNCHANGED <<rx, sent, inbox, session>>
    BY <1>6, ThreadAssumption DEF ConnectInit, Goto, OpenInv, OpeningInv, Opening
  <2>2. pc'[Reader] = pc[Reader]
    BY SMT, <2>1 DEF Threads, TypeInv, ThreadTypes, LocalTypes
  <2> QED
    BY <2>1, <2>2 DEF AcceptInv, StateInv, ConnackInv
<1>7. ASSUME NEW c \in Callers, ConnectFill(c) PROVE AcceptInv'
  <2>1. PICK label \in {"c_send", "c_return"} : Goto(c, label)
    BY <1>7 DEF ConnectFill
  <2> QED
    BY <1>7, <2>1, AcceptMove, ThreadAssumption DEF ConnectFill, Threads
<1>8. ASSUME NEW c \in Callers, ConnectSend(c) PROVE AcceptInv'
  <2>1. pc[c] = "c_send" /\ c # Reader /\ c \in Threads /\ UNCHANGED rx
    BY <1>8, ThreadAssumption DEF ConnectSend, Threads
  <2>2. PICK ok \in BOOLEAN : Transmit(c, buffer, ok)
                             /\ pc' = [pc EXCEPT ![c] = IF ok THEN "c_keepalive" ELSE "c_return"]
    BY <1>8 DEF ConnectSend, Goto
  <2>3. UNCHANGED <<inbox, session>> /\ (~ok => sent' = sent)
    BY <2>2 DEF Transmit
  <2>4. pc'[Reader] = pc[Reader] /\ (ok => pc'[c] = "c_keepalive")
    BY SMT, <2>1, <2>2 DEF Threads, TypeInv, ThreadTypes, LocalTypes
  <2>5. sent = <<>>
    BY <2>1 DEF OpenInv, OpeningInv, Opening
  <2>6. StateInv'
    BY <2>3, <2>4, <2>5 DEF StateInv
  <2> QED
    BY <2>1, <2>3, <2>4, <2>6 DEF AcceptInv, ConnackInv
<1>9. ASSUME NEW c \in Callers, ConnectKeepalive(c) PROVE AcceptInv'
  <2>1. c # Reader /\ c \in Threads /\ pc' = [pc EXCEPT ![c] = "c_store"]
        /\ UNCHANGED <<rx, sent, inbox, session>>
    BY <1>9, ThreadAssumption DEF ConnectKeepalive, Goto, Threads
  <2>2. pc'[Reader] = pc[Reader] /\ pc'[c] = "c_store"
    BY SMT, <1>9, <2>1 DEF ConnectKeepalive, Threads, TypeInv, ThreadTypes, LocalTypes
  <2> QED
    BY <2>1, <2>2 DEF AcceptInv, StateInv, ConnackInv
<1>10. ASSUME NEW c \in Callers, ConnectStore(c) PROVE AcceptInv'
  <2>1. c # Reader /\ c \in Threads /\ pc' = [pc EXCEPT ![c] = "c_wait"]
        /\ UNCHANGED <<rx, sent, inbox, session>>
    BY <1>10, ThreadAssumption DEF ConnectStore, Goto, Threads
  <2>2. pc'[Reader] = pc[Reader] /\ state' = "STATE_CONNECTED"
    BY SMT, <1>10, <2>1 DEF ConnectStore, Threads, TypeInv, ThreadTypes, LocalTypes
  <2> QED
    BY <2>1, <2>2 DEF AcceptInv, StateInv, ConnackInv
<1>11. ASSUME NEW c \in Callers, ConnectPoll(c) PROVE AcceptInv'
  BY <1>11, AcceptStill DEF ConnectPoll
<1>12. ASSUME NEW c \in Callers, ConnectPolled(c) PROVE AcceptInv'
  <2>1. c \in Threads /\ Goto(c, "c_return")
    BY <1>12 DEF ConnectPolled, Threads
  <2> QED
    BY <1>12, <2>1, AcceptMove DEF ConnectPolled
<1>13. ASSUME NEW c \in Callers, ConnectReturn(c) PROVE AcceptInv'
  BY <1>13, AcceptReturn DEF ConnectReturn, Threads
<1>14. ASSUME NEW t \in Threads, TakeId(t) PROVE AcceptInv'
  <2>1. CASE Goto(t, "p_encode")
    BY <1>14, <2>1, AcceptMove DEF TakeId
  <2>2. CASE Failed(t)
    BY <1>14, <2>2, AcceptFailed DEF TakeId
  <2> QED
    BY <1>14, <2>1, <2>2 DEF TakeId
<1>15. ASSUME NEW t \in Threads, Encode(t) PROVE AcceptInv'
  <2>1. CASE Goto(t, "p_send")
    BY <1>15, <2>1, AcceptMove DEF Encode
  <2>2. CASE Failed(t)
    BY <1>15, <2>2, AcceptFailed DEF Encode
  <2> QED
    BY <1>15, <2>1, <2>2 DEF Encode
<1>16. ASSUME NEW t \in Threads, Send(t) PROVE AcceptInv'
  <2>1. PICK ok \in BOOLEAN : /\ Transmit(t, IF arg[t] = 0 THEN buffer ELSE Encoded(t), ok)
                             /\ IF ok THEN Goto(t, "t_load") ELSE Failed(t)
    BY <1>16 DEF Send
  <2>2. pc[t] = "p_send" /\ UNCHANGED <<state, rx, inbox, session>> /\ sent # <<>>
    BY <1>16, <2>1 DEF Send, Transmit, OpenInv, EngagedInv, Engaged
  <2>3. CASE ok
    BY <2>1, <2>2, <2>3, AcceptMove
  <2>4. CASE ~ok
    <3>1. sent' = sent
      BY <2>1, <2>4 DEF Transmit
    <3> QED
      BY <2>1, <2>2, <2>4, <3>1, AcceptFailed
  <2> QED
    BY <2>3, <2>4
<1>17. ASSUME NEW t \in Threads, SubscribeStatus(t) PROVE AcceptInv'
  <2>1. t \in Threads /\ Goto(t, "s_wait")
    BY <1>17 DEF SubscribeStatus, Threads
  <2> QED
    BY <1>17, <2>1, AcceptMove DEF SubscribeStatus
<1>18. ASSUME NEW t \in Threads, SubscribePoll(t) PROVE AcceptInv'
  BY <1>18, AcceptStill DEF SubscribePoll
<1>19. ASSUME NEW t \in Threads, SubscribePolled(t) PROVE AcceptInv'
  <2>1. t \in Threads /\ Goto(t, "s_clear")
    BY <1>19 DEF SubscribePolled, Threads
  <2> QED
    BY <1>19, <2>1, AcceptMove DEF SubscribePolled
<1>20. ASSUME NEW t \in Threads, SubscribeReturn(t) PROVE AcceptInv'
  BY <1>20, AcceptReturn DEF SubscribeReturn
<1>21. ASSUME NEW t \in Threads, TimerLoad(t) PROVE AcceptInv'
  <2>1. t \in Threads /\ Goto(t, "t_store")
    BY <1>21 DEF TimerLoad, Threads
  <2> QED
    BY <1>21, <2>1, AcceptMove DEF TimerLoad
<1>22. ASSUME NEW t \in Threads, TimerStore(t) PROVE AcceptInv'
  <2>1. pc[t] = "t_store" /\ UNCHANGED <<state, sent, inbox, session>>
    BY <1>22 DEF TimerStore
  <2>2. CASE Goto(t, "s_status") /\ UNCHANGED rx
    BY <2>1, <2>2, AcceptMove
  <2>3. CASE Return(t, TRUE) /\ UNCHANGED rx
    BY <2>1, <2>3, AcceptReturn
  <2>4. CASE op[t] = "receive" /\ Goto(t, "idle") /\ rx' = Nothing
    <3>1. \A s \in Threads : pc'[s] = IF s = t THEN "idle" ELSE pc[s]
      BY SMT, <2>4 DEF Goto, TypeInv, ThreadTypes, LocalTypes
    <3>2. Nothing.type # "CONNACK"
      BY DEF Nothing
    <3> QED
      BY <2>1, <2>4, <3>1, <3>2 DEF AcceptInv, StateInv, ConnackInv, Threads
  <2> QED
    BY <1>22, <2>2, <2>3, <2>4 DEF TimerStore
<1>23. ASSUME NEW c \in Callers, KeepaliveState(c) PROVE AcceptInv'
  <2>1. CASE Goto(c, "k_compare")
    BY <1>23, <2>1, AcceptMove DEF KeepaliveState, Threads
  <2>2. CASE Return(c, FALSE) \/ Return(c, TRUE)
    BY <1>23, <2>2, AcceptReturn DEF KeepaliveState, Threads
  <2> QED
    BY <1>23, <2>1, <2>2 DEF KeepaliveState
<1>24. ASSUME NEW c \in Callers, KeepaliveCompare(c) PROVE AcceptInv'
  <2>1. PICK label \in {"k_load", "k_zero"} : Goto(c, label)
    BY <1>24 DEF KeepaliveCompare
  <2> QED
    BY <1>24, <2>1, AcceptMove DEF KeepaliveCompare, Threads
<1>25. ASSUME NEW c \in Callers, KeepaliveLoad(c) PROVE AcceptInv'
  <2>1. c \in Threads /\ Goto(c, "k_store")
    BY <1>25 DEF KeepaliveLoad, Threads
  <2> QED
    BY <1>25, <2>1, AcceptMove DEF KeepaliveLoad
<1>26. ASSUME NEW c \in Callers, KeepaliveStore(c) PROVE AcceptInv'
  <2>1. c \in Threads /\ Goto(c, "k_test")
    BY <1>26 DEF KeepaliveStore, Threads
  <2> QED
    BY <1>26, <2>1, AcceptMove DEF KeepaliveStore
<1>27. ASSUME NEW c \in Callers, KeepaliveZero(c) PROVE AcceptInv'
  <2>1. c \in Threads /\ Goto(c, "k_test")
    BY <1>27 DEF KeepaliveZero, Threads
  <2> QED
    BY <1>27, <2>1, AcceptMove DEF KeepaliveZero
<1>28. ASSUME NEW c \in Callers, KeepaliveTest(c) PROVE AcceptInv'
  <2>1. CASE Goto(c, "k_send")
    BY <1>28, <2>1, AcceptMove DEF KeepaliveTest, Threads
  <2>2. CASE Return(c, TRUE)
    BY <1>28, <2>2, AcceptReturn DEF KeepaliveTest, Threads
  <2> QED
    BY <1>28, <2>1, <2>2 DEF KeepaliveTest
<1>29. ASSUME NEW c \in Callers, KeepaliveSend(c) PROVE AcceptInv'
  <2>1. pc[c] = "k_send" /\ c \in Threads /\ UNCHANGED <<state, rx, inbox, session>> /\ sent # <<>>
    BY <1>29 DEF KeepaliveSend, Transmit, OpenInv, EngagedInv, Engaged, Threads
  <2>2. CASE Goto(c, "t_load")
    BY <2>1, <2>2, AcceptMove
  <2>3. CASE Return(c, FALSE)
    BY <2>1, <2>3, AcceptReturn
  <2> QED
    BY <1>29, <2>2, <2>3 DEF KeepaliveSend
<1>30. ASSUME NEW c \in Callers, DisconnectState(c) PROVE AcceptInv'
  <2>1. CASE Goto(c, "d_send")
    BY <1>30, <2>1, AcceptMove DEF DisconnectState, Threads
  <2>2. CASE Return(c, FALSE)
    BY <1>30, <2>2, AcceptReturn DEF DisconnectState, Threads
  <2> QED
    BY <1>30, <2>1, <2>2 DEF DisconnectState
<1>31. ASSUME NEW c \in Callers, DisconnectSend(c) PROVE AcceptInv'
  <2>1. pc[c] = "d_send" /\ c \in Threads /\ UNCHANGED <<state, rx, inbox, session>> /\ sent # <<>>
    BY <1>31 DEF DisconnectSend, Transmit, OpenInv, EngagedInv, Engaged, Threads
  <2>2. PICK ok \in BOOLEAN : Return(c, ok)
    BY <1>31 DEF DisconnectSend
  <2> QED
    BY <2>1, <2>2, AcceptReturn
<1>32. ASSUME Receive PROVE AcceptInv'
  <2>1. inbox # <<>> /\ rx' = Head(inbox) /\ inbox' = Tail(inbox)
        /\ pc' = [pc EXCEPT ![Reader] = "r_parse"] /\ UNCHANGED <<state, sent, session>>
    BY <1>32 DEF Receive, Goto
  <2>2. \A s \in Threads : pc'[s] = IF s = Reader THEN "r_parse" ELSE pc[s]
    BY SMT, <2>1 DEF TypeInv, ThreadTypes, LocalTypes
  <2>3. StateInv'
    BY <2>1, <2>2, ThreadAssumption DEF AcceptInv, StateInv, Threads
  <2>4. /\ Head(inbox) = inbox[1] /\ 1 \in DOMAIN inbox
        /\ \A i \in DOMAIN Tail(inbox) : i + 1 \in DOMAIN inbox /\ Tail(inbox)[i] = inbox[i + 1]
    BY SMT, <2>1 DEF TypeInv, NetworkTypes
  <2>5. ConnackInv'
    BY <2>1, <2>4 DEF AcceptInv, ConnackInv
  <2> QED
    BY <2>3, <2>5 DEF AcceptInv
<1>33. ASSUME ParseConnack PROVE AcceptInv'
  <2>1. pc[Reader] = "r_parse" /\ rx.type = "CONNACK" /\ state' = AckState(rx.ok)
        /\ UNCHANGED <<sent, inbox, session>>
    BY <1>33 DEF ParseConnack
  <2>2. session # "none" /\ (session = "accepted" => state' = "STATE_CONNECTED")
    BY <2>1 DEF AcceptInv, ConnackInv, AckState
  <2>3. PICK label \in {"p_id", "t_load"} : pc' = [pc EXCEPT ![Reader] = label]
    BY <1>33 DEF ParseConnack, Call, Goto
  <2>4. pc'[Reader] # "r_parse"
    BY SMT, <2>3 DEF TypeInv, ThreadTypes, LocalTypes, Threads
  <2> QED
    BY <2>1, <2>2, <2>4 DEF AcceptInv, StateInv, ConnackInv
<1>34. ASSUME ParseOther PROVE AcceptInv'
  <2>1. PICK label \in {"t_load", "idle"} : Goto(Reader, label)
    BY <1>34 DEF ParseOther
  <2> QED
    BY <1>34, <2>1, AcceptMove DEF ParseOther, Threads
<1>35. ASSUME LinkDown PROVE AcceptInv'
  BY <1>35, AcceptStill DEF LinkDown
<1>36. ASSUME BrokerReads PROVE AcceptInv'
  <2>1. taken \in Nat /\ taken < Len(sent) /\ UNCHANGED <<pc, rx, state, sent>>
    BY <1>36 DEF BrokerReads, TypeInv, NetworkTypes
  <2>2. sent # <<>>
    BY SMT, <2>1
  <2>3. CASE session = "none" /\ \E ok \in BOOLEAN :
               /\ inbox' = Append(inbox, [type |-> "CONNACK", ok |-> ok])
               /\ session' = IF ok THEN "accepted" ELSE "refused"
    <3>1. inbox = <<>> /\ pc[Reader] = "idle"
      BY <2>3 DEF AcceptInv, ConnackInv
    <3>2. PICK ok \in BOOLEAN : /\ inbox' = Append(inbox, [type |-> "CONNACK", ok |-> ok])
                               /\ session' = IF ok THEN "accepted" ELSE "refused"
      BY <2>3
    <3> DEFINE answer == [type |-> "CONNACK", ok |-> ok]
    <3>3. answer.ok = ok
      OBVIOUS
    <3> HIDE DEF answer
    <3>4. \A i \in DOMAIN Append(<<>>, answer) : Append(<<>>, answer)[i] = answer
      BY SMT
    <3>5. session' = "accepted" => \A i \in DOMAIN inbox' : inbox'[i].ok
      BY <3>1, <3>2, <3>3, <3>4 DEF answer
    <3> QED
      BY <2>1, <2>3, <3>1, <3>5 DEF AcceptInv, StateInv, ConnackInv
  <2>4. CASE session = "accepted" /\ session' \in {"accepted", "closed"} /\
               (\/ inbox' = inbox
                \/ \E packet : inbox' = Append(inbox, packet) /\ packet.type # "CONNACK")
    <3>1. \A i \in DOMAIN inbox' : inbox'[i].type = "CONNACK" => inbox'[i].ok
      BY SMT, <2>4 DEF AcceptInv, ConnackInv, TypeInv, NetworkTypes
    <3> QED
      BY <2>1, <2>4, <3>1 DEF AcceptInv, StateInv, ConnackInv
  <2>5. session = "accepted" \/ session = "none"
    BY <1>36 DEF BrokerReads
  <2>6. session = "accepted" =>
          /\ session' \in {"accepted", "closed"}
          /\ \/ inbox' = inbox
             \/ \E ok \in BOOLEAN, kind \in {"SUBACK", "PINGRESP"} :
                  inbox' = Append(inbox, [type |-> kind, ok |-> ok])
    BY <1>36 DEF BrokerReads
  <2>7. \A ok \in BOOLEAN, kind \in {"SUBACK", "PINGRESP"} : [type |-> kind, ok |-> ok].type # "CONNACK"
    BY SMT
  <2>8. session = "none" => \E ok \in BOOLEAN :
               /\ inbox' = Append(inbox, [type |-> "CONNACK", ok |-> ok])
               /\ session' = IF ok THEN "accepted" ELSE "refused"
    BY <1>36 DEF BrokerReads
  <2> QED
    BY <2>3, <2>4, <2>5, <2>6, <2>7, <2>8
<1>37. ASSUME BrokerPublishes PROVE AcceptInv'
  <2>1. session = "accepted" /\ inbox' = Append(inbox, [type |-> "PUBLISH", ok |-> TRUE])
        /\ UNCHANGED <<pc, rx, state, sent, session>>
    BY <1>37 DEF BrokerPublishes
  <2>2. \A i \in DOMAIN inbox' : inbox'[i].type = "CONNACK" => inbox'[i].ok
    BY SMT, <2>1 DEF AcceptInv, ConnackInv, TypeInv, NetworkTypes
  <2> QED
    BY <2>1, <2>2 DEF AcceptInv, StateInv, ConnackInv
<1>38. ASSUME Tick PROVE AcceptInv'
  BY <1>38, AcceptStill DEF Tick
<1>39. CASE UNCHANGED vars
  BY <1>39, AcceptStill DEF vars
<1>40. ASSUME NEW c \in Callers, Calls(c) PROVE AcceptInv'
  BY <1>1, <1>2, <1>3, <1>4, <1>5, <1>40 DEF Calls
<1>41. ASSUME NEW c \in Callers, CallerSteps(c) PROVE AcceptInv'
  BY <1>6, <1>7, <1>8, <1>9, <1>10, <1>11, <1>12, <1>13, <1>23, <1>24, <1>25, <1>26, <1>27,
     <1>28, <1>29, <1>30, <1>31, <1>41 DEF CallerSteps
<1>42. ASSUME NEW t \in Threads, SharedSteps(t) PROVE AcceptInv'
  BY <1>14, <1>15, <1>16, <1>17, <1>18, <1>19, <1>20, <1>21, <1>22, <1>42 DEF SharedSteps
<1>43. CASE ReaderSteps
  BY <1>32, <1>33, <1>34, <1>43 DEF ReaderSteps
<1>44. CASE Environment
  BY <1>35, <1>36, <1>37, <1>38, <1>44 DEF Environment
<1> QED
  BY <1>39, <1>40, <1>41, <1>42, <1>43, <1>44 DEF Next

\* A connection the broker has accepted is one the client takes for connected as
\* soon as no call is in progress (mqtt.c 1418, 1560): for one application thread,
\* any timeout of mqtt_connect, and callbacks that subscribe or not.
THEOREM AcceptedConnects == SoleCaller => (Spec => []AcceptedMeansConnected)
<1> SUFFICES ASSUME SoleCaller PROVE Spec => []AcceptedMeansConnected
  OBVIOUS
<1>1. TypeInv /\ OpenInv /\ AcceptInv /\ [Next]_vars => TypeInv' /\ OpenInv' /\ AcceptInv'
  BY TypeStep, OpenStep, AcceptStep
<1>2. OpenInv /\ AcceptInv => AcceptedMeansConnected
  BY DEF OpenInv, FreshInv, AcceptInv, StateInv, AcceptedMeansConnected, Resting, Threads
<1> QED
  BY <1>1, <1>2, TypeInit, OpenInit, AcceptInit, PTL DEF Spec

-----------------------------------------------------------------------------
(* The requests of the application. *)

LEMMA RequestInit == Init => RequestInv
<1> SUFFICES ASSUME Init PROVE RequestInv
  OBVIOUS
<1>1. /\ packetCntr = 0 /\ keepaliveIn = 0 /\ sent = <<>>
      /\ pc = [t \in Threads |-> "idle"] /\ ret = [t \in Threads |-> FALSE]
  BY DEF Init
<1>2. \A t \in Threads : pc[t] = "idle" /\ ~ret[t]
  BY <1>1
<1>3. ReaderInv
  BY <1>2 DEF ReaderInv, ReaderLabels, Threads
<1>4. ASSUME NEW c \in Callers PROVE CallInv(c)
  BY <1>2 DEF CallInv, FunctionInv, AcceptedInv, IdInv, AskedInv, ConnectSteps, PacketSteps,
              WaitSteps, KeepaliveSteps, Threads
<1>5. UsedInv /\ UniqueIds
  BY SMT, <1>1, BoundAssumption DEF UsedInv, UniqueIds
<1>6. RateInv
  BY SMT, <1>1 DEF RateInv
<1> QED
  BY <1>3, <1>4, <1>5, <1>6 DEF RequestInv

\* The reader and the environment do not touch what the calls depend on.
LEMMA RequestElse ==
  ASSUME RequestInv, ReaderInv', UNCHANGED <<packetCntr, keepaliveIn, buffer, sent>>,
         \A c \in Callers : /\ pc'[c] = pc[c] /\ op'[c] = op[c] /\ arg'[c] = arg[c]
                            /\ tmp'[c] = tmp[c] /\ ret'[c] = ret[c]
                            /\ accepted'[c] = accepted[c]
  PROVE  RequestInv'
<1>1. ASSUME NEW c \in Callers PROVE CallInv(c)'
  <2>1. CallInv(c)
    BY DEF RequestInv
  <2>2. Encoded(c)' = Encoded(c)
    BY DEF Encoded
  <2>3. FunctionInv(c)' /\ AskedInv(c)'
    BY <2>1 DEF CallInv, FunctionInv, AskedInv
  <2>4. AcceptedInv(c)'
    BY <2>1 DEF CallInv, AcceptedInv, RequestOf
  <2>5. IdInv(c)'
    BY <2>1, <2>2 DEF CallInv, IdInv
  <2> QED
    BY <2>1, <2>3, <2>4, <2>5 DEF CallInv
<1>2. UsedInv' /\ UniqueIds' /\ RateInv'
  BY DEF RequestInv, UsedInv, UniqueIds, RateInv
<1> QED
  BY <1>1, <1>2 DEF RequestInv

\* A step of the only caller: what is to be shown of it.
LEMMA RequestCaller ==
  ASSUME SoleCaller, RequestInv, NEW c \in Callers,
         pc'[Reader] = pc[Reader], op'[Reader] = op[Reader],
         CallInv(c)', UsedInv', UniqueIds', RateInv'
  PROVE  RequestInv'
<1>1. \A d \in Callers : d = c
  BY DEF SoleCaller
<1>2. \A d \in Callers : CallInv(d)'
  BY <1>1
<1> QED
  BY <1>2 DEF RequestInv, ReaderInv

\* The same, for a step that counts nothing and sends no SUBSCRIBE.
LEMMA RequestQuiet ==
  ASSUME SoleCaller, TypeInv, RequestInv, NEW c \in Callers,
         NEW label \in Labels \ {"p_send"}, Goto(c, label),
         op'[Reader] = op[Reader], UNCHANGED <<packetCntr, keepaliveIn>>, pc[c] # "c_store",
         \/ sent' = sent
         \/ \E packet \in ClientPacket : sent' = Append(sent, packet) /\ packet.type # "SUBSCRIBE",
         CallInv(c)'
  PROVE  RequestInv'
<1>1. /\ pc'[c] = label /\ \A t \in Threads \ {c} : pc'[t] = pc[t]
      /\ c # Reader /\ c \in Threads /\ Reader \in Threads
  BY SMT, ThreadAssumption DEF Goto, TypeInv, ThreadTypes, LocalTypes, Threads
<1>2. pc'[Reader] = pc[Reader]
  BY <1>1
<1>3. RateInv'
  BY <1>1 DEF RequestInv, RateInv, SoleCaller
<1>4. sent \in Seq(ClientPacket)
  BY DEF TypeInv, NetworkTypes
<1>5. \A d \in Callers : pc'[d] # "p_send"
  BY <1>1 DEF SoleCaller
<1>6. CASE sent' = sent
  <2>1. UsedInv' /\ UniqueIds'
    BY <1>5, <1>6 DEF RequestInv, UsedInv, UniqueIds
  <2> QED
    BY <1>2, <1>3, <2>1, RequestCaller
<1>7. CASE \E packet \in ClientPacket : sent' = Append(sent, packet) /\ packet.type # "SUBSCRIBE"
  <2>1. PICK packet \in ClientPacket : sent' = Append(sent, packet) /\ packet.type # "SUBSCRIBE"
    BY <1>7
  <2>2. \A i \in DOMAIN sent' : sent'[i].type = "SUBSCRIBE" =>
                                i \in DOMAIN sent /\ sent'[i] = sent[i]
    BY SMT, <1>4, <2>1
  <2>3. UsedInv' /\ UniqueIds'
    BY <1>5, <2>2 DEF RequestInv, UsedInv, UniqueIds
  <2> QED
    BY <1>2, <1>3, <2>3, RequestCaller
<1> QED
  BY <1>6, <1>7

\* A call that returns leaves nothing to be known but its result.
LEMMA RequestReturn ==
  ASSUME SoleCaller, TypeInv, RequestInv, NEW c \in Callers, NEW value, Return(c, value),
         UNCHANGED <<packetCntr, keepaliveIn>>, pc[c] # "c_store",
         value /\ op[c] # "keepalive" => accepted'[c] = RequestOf(op[c]),
         \/ sent' = sent
         \/ \E packet \in ClientPacket : sent' = Append(sent, packet) /\ packet.type # "SUBSCRIBE"
  PROVE  RequestInv'
<1>1. c # Reader /\ c \in Threads
  BY ThreadAssumption DEF Threads
<1>2. Goto(c, "idle") /\ op' = op /\ ret' = [ret EXCEPT ![c] = value]
  BY <1>1 DEF Return
<1>3. pc'[c] = "idle" /\ ret'[c] = value
  BY SMT, <1>1, <1>2 DEF Goto, TypeInv, ThreadTypes, LocalTypes
<1>4. CallInv(c)'
  BY <1>2, <1>3 DEF CallInv, FunctionInv, AcceptedInv, IdInv, AskedInv, ConnectSteps, PacketSteps,
                    WaitSteps, KeepaliveSteps, RequestOf
<1>5. "idle" \in Labels \ {"p_send"}
  BY DEF Labels
<1> QED
  BY <1>2, <1>4, <1>5, RequestQuiet

LEMMA RequestFailed ==
  ASSUME SoleCaller, TypeInv, RequestInv, NEW c \in Callers, Failed(c),
         UNCHANGED <<packetCntr, keepaliveIn, sent>>, pc[c] # "c_store"
  PROVE  RequestInv'
<1>1. CASE op[c] = "subscribe"
  <2>1. Goto(c, "s_clear") /\ ret' = [ret EXCEPT ![c] = FALSE] /\ op' = op
    BY <1>1 DEF Failed
  <2>2. pc'[c] = "s_clear" /\ ret'[c] = FALSE
    BY SMT, <2>1 DEF Goto, TypeInv, ThreadTypes, LocalTypes, Threads
  <2>3. CallInv(c)'
    BY <1>1, <2>1, <2>2 DEF CallInv, FunctionInv, AcceptedInv, IdInv, AskedInv, ConnectSteps,
                       PacketSteps, WaitSteps, KeepaliveSteps
  <2> QED
    BY <2>1, <2>3, RequestQuiet DEF Labels
<1>2. CASE op[c] # "subscribe"
  BY <1>2, RequestReturn DEF Failed
<1> QED
  BY <1>1, <1>2

\* What out_fptr has accepted for a call.
LEMMA TransmitAccepted ==
  ASSUME TypeInv, NEW t \in Threads, NEW packet, NEW ok \in BOOLEAN, Transmit(t, packet, ok)
  PROVE  /\ \A s \in Threads \ {t} : accepted'[s] = accepted[s]
         /\ accepted'[t] = IF ok THEN packet.type ELSE accepted[t]
         /\ sent' = IF ok THEN Append(sent, packet) ELSE sent
BY SMT DEF Transmit, TypeInv, ThreadTypes

LEMMA RequestStep ==
  SoleCaller /\ Listening /\ Identifiers /\ TypeInv /\ OpenInv /\ RequestInv /\ [Next]_vars => RequestInv'
<1> SUFFICES ASSUME SoleCaller, Listening, Identifiers, TypeInv, OpenInv, RequestInv, [Next]_vars
             PROVE  RequestInv'
  OBVIOUS
<1> USE DEF Labels, shared, locals, threads, network, clocks
<1>1. ASSUME NEW c \in Callers, NEW secs \in KeepaliveSecs, NEW timeout \in TimeoutSecs,
             CallConnect(c, secs, timeout) PROVE RequestInv'
  <2>1. c \in Threads /\ c # Reader /\ Reader \in Threads
    BY ThreadAssumption DEF Threads
  <2>2. pc'[c] = "c_init" /\ op'[c] = "connect" /\ arg'[c] = secs
        /\ pc'[Reader] = pc[Reader] /\ op'[Reader] = op[Reader]
    BY SMT, <1>1, <2>1 DEF CallConnect, Call, Goto, TypeInv, ThreadTypes, LocalTypes
  <2>3. CallInv(c)'
    BY <2>2 DEF CallInv, FunctionInv, AcceptedInv, IdInv, AskedInv, ConnectSteps, PacketSteps, WaitSteps,
             KeepaliveSteps, RequestOf
  <2>4. sent' = <<>> /\ UNCHANGED <<packetCntr, keepaliveIn>>
    BY <1>1 DEF CallConnect
  <2>5. UsedInv' /\ UniqueIds'
    BY SMT, <2>4 DEF RequestInv, UsedInv, UniqueIds
  <2>6. pc[c] = "idle" /\ \A d \in Callers : d = c
    BY <1>1 DEF CallConnect, SoleCaller
  <2>7. RateInv'
    BY <2>2, <2>4, <2>6 DEF RequestInv, RateInv
  <2> QED
    BY <2>2, <2>3, <2>5, <2>7, RequestCaller
<1>2. ASSUME NEW c \in Callers, NEW own \in {0, 1}, CallPublish(c, own) PROVE RequestInv'
  <2>1. c \in Threads /\ c # Reader /\ Reader \in Threads
    BY ThreadAssumption DEF Threads
  <2>2. pc'[c] = "p_id" /\ op'[c] = "publish" /\ op'[Reader] = op[Reader]
    BY SMT, <1>2, <2>1 DEF CallPublish, Call, Goto, TypeInv, ThreadTypes, LocalTypes
  <2>3. CallInv(c)'
    BY <1>2, <2>2 DEF CallPublish, Room, CallInv, FunctionInv, AcceptedInv, IdInv, AskedInv, ConnectSteps, PacketSteps, WaitSteps,
             KeepaliveSteps, RequestOf
  <2> QED
    BY <1>2, <2>2, <2>3, RequestQuiet DEF CallPublish, Call
<1>3. ASSUME NEW c \in Callers, NEW timeout \in TimeoutSecs, CallSubscribe(c, timeout) PROVE RequestInv'
  <2>1. c \in Threads /\ c # Reader /\ Reader \in Threads
    BY ThreadAssumption DEF Threads
  <2>2. pc'[c] = "p_id" /\ op'[c] = "subscribe" /\ op'[Reader] = op[Reader]
    BY SMT, <1>3, <2>1 DEF CallSubscribe, Call, Goto, TypeInv, ThreadTypes, LocalTypes
  <2>3. CallInv(c)'
    BY <1>3, <2>2 DEF CallSubscribe, Room, CallInv, FunctionInv, AcceptedInv, IdInv, AskedInv, ConnectSteps, PacketSteps, WaitSteps,
             KeepaliveSteps, RequestOf
  <2> QED
    BY <1>3, <2>2, <2>3, RequestQuiet DEF CallSubscribe, Call
<1>4. ASSUME NEW c \in Callers, NEW elapsed \in Durations, CallKeepalive(c, elapsed) PROVE RequestInv'
  <2>1. c \in Threads /\ c # Reader /\ Reader \in Threads
    BY ThreadAssumption DEF Threads
  <2>2. pc'[c] = "k_state" /\ op'[c] = "keepalive" /\ op'[Reader] = op[Reader]
    BY SMT, <1>4, <2>1 DEF CallKeepalive, Call, Goto, TypeInv, ThreadTypes, LocalTypes
  <2>3. CallInv(c)'
    BY <1>4, <2>2 DEF CallKeepalive, Room, CallInv, FunctionInv, AcceptedInv, IdInv, AskedInv, ConnectSteps, PacketSteps, WaitSteps,
             KeepaliveSteps, RequestOf
  <2> QED
    BY <1>4, <2>2, <2>3, RequestQuiet DEF CallKeepalive, Call
<1>5. ASSUME NEW c \in Callers, CallDisconnect(c) PROVE RequestInv'
  <2>1. c \in Threads /\ c # Reader /\ Reader \in Threads
    BY ThreadAssumption DEF Threads
  <2>2. pc'[c] = "d_state" /\ op'[c] = "disconnect" /\ op'[Reader] = op[Reader]
    BY SMT, <1>5, <2>1 DEF CallDisconnect, Call, Goto, TypeInv, ThreadTypes, LocalTypes
  <2>3. CallInv(c)'
    BY <1>5, <2>2 DEF CallDisconnect, Room, CallInv, FunctionInv, AcceptedInv, IdInv, AskedInv, ConnectSteps, PacketSteps, WaitSteps,
             KeepaliveSteps, RequestOf
  <2> QED
    BY <1>5, <2>2, <2>3, RequestQuiet DEF CallDisconnect, Call
<1>6. ASSUME NEW c \in Callers, ConnectInit(c) PROVE RequestInv'
  <2>1. c \in Threads /\ c # Reader /\ Reader \in Threads
    BY ThreadAssumption DEF Threads
  <2>2. pc[c] = "c_init" /\ packetCntr' = 0 /\ keepaliveIn' = 0
        /\ UNCHANGED <<op, arg, tmp, ret, accepted, sent>>
    BY <1>6 DEF ConnectInit
  <2>3. pc'[c] = "c_fill" /\ pc'[Reader] = pc[Reader]
    BY SMT, <1>6, <2>1 DEF ConnectInit, Goto, TypeInv, ThreadTypes, LocalTypes
  <2>4. CallInv(c)'
    BY <2>2, <2>3 DEF RequestInv, CallInv, FunctionInv, AcceptedInv, IdInv, AskedInv, ConnectSteps, PacketSteps, WaitSteps,
             KeepaliveSteps, RequestOf
  <2>5. sent = <<>>
    BY <2>2 DEF OpenInv, OpeningInv, Opening
  <2>6. UsedInv' /\ UniqueIds'
    BY SMT, <2>2, <2>5, BoundAssumption DEF UsedInv, UniqueIds
  <2>7. RateInv'
    BY SMT, <2>2 DEF RateInv
  <2> QED
    BY <2>2, <2>3, <2>4, <2>6, <2>7, RequestCaller
<1>7. ASSUME NEW c \in Callers, ConnectFill(c) PROVE RequestInv'
  <2>1. c \in Threads /\ c # Reader /\ Reader \in Threads
    BY ThreadAssumption DEF Threads
  <2>2. pc[c] = "c_fill" /\ UNCHANGED <<op, arg, tmp, ret, accepted, sent>>
    BY <1>7 DEF ConnectFill
  <2>3. PICK label \in {"c_send", "c_return"} : Goto(c, label)
    BY <1>7 DEF ConnectFill
  <2>4. pc'[c] = label
    BY SMT, <2>1, <2>3 DEF Goto, TypeInv, ThreadTypes, LocalTypes
  <2>5. sent = <<>>
    BY <2>2 DEF OpenInv, OpeningInv, Opening
  <2>6. CallInv(c)'
    BY <2>2, <2>4, <2>5 DEF RequestInv, CallInv, FunctionInv, AcceptedInv, IdInv, AskedInv, ConnectSteps, PacketSteps, WaitSteps,
             KeepaliveSteps, RequestOf
  <2> QED
    BY <1>7, <2>2, <2>3, <2>6, RequestQuiet DEF ConnectFill
<1>8. ASSUME NEW c \in Callers, ConnectSend(c) PROVE RequestInv'
  <2>1. c \in Threads /\ c # Reader /\ Reader \in Threads
    BY ThreadAssumption DEF Threads
  <2>2. pc[c] = "c_send" /\ UNCHANGED <<op, arg, tmp, ret, packetCntr, keepaliveIn, buffer>>
    BY <1>8 DEF ConnectSend
  <2>3. PICK ok \in BOOLEAN : Transmit(c, buffer, ok)
                             /\ Goto(c, IF ok THEN "c_keepalive" ELSE "c_return")
    BY <1>8 DEF ConnectSend
  <2>4. sent = <<>> /\ buffer = Hello
    BY <2>2 DEF OpenInv, OpeningInv, BufferInv, Opening
  <2>5. pc'[c] = IF ok THEN "c_keepalive" ELSE "c_return"
    BY SMT, <2>1, <2>3 DEF Goto, TypeInv, ThreadTypes, LocalTypes
  <2>6. accepted'[c] = (IF ok THEN buffer.type ELSE accepted[c])
        /\ sent' = IF ok THEN Append(sent, buffer) ELSE sent
    BY <2>1, <2>3, TransmitAccepted
  <2>7. buffer.type = "CONNECT" /\ buffer \in ClientPacket
    BY <2>4, PacketTypes DEF Hello
  <2>8. CallInv(c)'
    BY <2>2, <2>4, <2>5, <2>6, <2>7 DEF RequestInv, CallInv, FunctionInv, AcceptedInv, IdInv, AskedInv, ConnectSteps, PacketSteps, WaitSteps,
             KeepaliveSteps, RequestOf
  <2>9. (IF ok THEN "c_keepalive" ELSE "c_return") \in Labels \ {"p_send"}
    OBVIOUS
  <2>10. \/ sent' = sent
         \/ \E packet \in ClientPacket : sent' = Append(sent, packet) /\ packet.type # "SUBSCRIBE"
    BY <2>6, <2>7
  <2> QED
    BY <2>2, <2>3, <2>8, <2>9, <2>10, RequestQuiet
<1>9. ASSUME NEW c \in Callers, ConnectKeepalive(c) PROVE RequestInv'
  <2>1. c \in Threads /\ c # Reader /\ Reader \in Threads
    BY ThreadAssumption DEF Threads
  <2>2. pc[c] = "c_keepalive" /\ keepaliveIn' = (IF arg[c] = 0 THEN INT32_MIN ELSE 2 * arg[c])
        /\ UNCHANGED <<op, arg, tmp, ret, accepted, sent, packetCntr>>
    BY <1>9 DEF ConnectKeepalive
  <2>3. pc'[c] = "c_store" /\ pc'[Reader] = pc[Reader]
    BY SMT, <1>9, <2>1 DEF ConnectKeepalive, Goto, TypeInv, ThreadTypes, LocalTypes
  <2>4. CallInv(c)'
    BY <2>2, <2>3 DEF RequestInv, CallInv, FunctionInv, AcceptedInv, IdInv, AskedInv, ConnectSteps, PacketSteps, WaitSteps,
             KeepaliveSteps, RequestOf
  <2>5. UsedInv' /\ UniqueIds' /\ RateInv'
    BY <2>2, <2>3 DEF RequestInv, UsedInv, UniqueIds, RateInv, SoleCaller
  <2> QED
    BY <2>2, <2>3, <2>4, <2>5, RequestCaller
<1>10. ASSUME NEW c \in Callers, ConnectStore(c) PROVE RequestInv'
  <2>1. c \in Threads /\ c # Reader /\ Reader \in Threads
    BY ThreadAssumption DEF Threads
  <2>2. pc[c] = "c_store" /\ keepaliveIn' = (IF arg[c] = 0 THEN keepaliveIn ELSE keepaliveIn - 1)
        /\ UNCHANGED <<op, arg, tmp, ret, accepted, sent, packetCntr>>
    BY <1>10 DEF ConnectStore
  <2>3. pc'[c] = "c_wait" /\ pc'[Reader] = pc[Reader]
    BY SMT, <1>10, <2>1 DEF ConnectStore, Goto, TypeInv, ThreadTypes, LocalTypes
  <2>4. CallInv(c)'
    BY <2>2, <2>3 DEF RequestInv, CallInv, FunctionInv, AcceptedInv, IdInv, AskedInv, ConnectSteps, PacketSteps, WaitSteps,
             KeepaliveSteps, RequestOf
  <2>5. UsedInv' /\ UniqueIds'
    BY <2>2, <2>3 DEF RequestInv, UsedInv, UniqueIds, SoleCaller
  <2>6. arg[c] \in KeepaliveSecs /\ keepaliveIn = IF arg[c] = 0 THEN INT32_MIN ELSE 2 * arg[c]
    BY <2>2 DEF RequestInv, CallInv, AskedInv
  <2>7. keepaliveIn' > 0 => keepaliveIn' = 2 * arg[c] - 1
    BY SMT, <2>2, <2>6 DEF INT32_MIN
  <2>8. RateInv'
    BY <2>6, <2>7 DEF RateInv
  <2> QED
    BY <2>2, <2>3, <2>4, <2>5, <2>8, RequestCaller
<1>11. ASSUME NEW c \in Callers, ConnectPoll(c) PROVE RequestInv'
  BY <1>11, RequestElse DEF ConnectPoll, RequestInv, ReaderInv
<1>12. ASSUME NEW c \in Callers, ConnectPolled(c) PROVE RequestInv'
  <2>1. c \in Threads /\ c # Reader /\ Reader \in Threads
    BY ThreadAssumption DEF Threads
  <2>2. pc[c] = "c_wait" /\ UNCHANGED <<op, arg, ret, accepted, sent, packetCntr, keepaliveIn>>
    BY <1>12 DEF ConnectPolled
  <2>3. pc'[c] = "c_return"
    BY SMT, <1>12, <2>1 DEF ConnectPolled, Goto, TypeInv, ThreadTypes, LocalTypes
  <2>4. CallInv(c)'
    BY <2>2, <2>3 DEF RequestInv, CallInv, FunctionInv, AcceptedInv, IdInv, AskedInv, ConnectSteps, PacketSteps, WaitSteps,
             KeepaliveSteps, RequestOf
  <2> QED
    BY <1>12, <2>2, <2>4, RequestQuiet DEF ConnectPolled
<1>13. ASSUME NEW c \in Callers, ConnectReturn(c) PROVE RequestInv'
  <2>1. c \in Threads /\ c # Reader /\ Reader \in Threads
    BY ThreadAssumption DEF Threads
  <2>2. pc[c] = "c_return" /\ UNCHANGED <<accepted, sent, packetCntr, keepaliveIn>>
        /\ Return(c, state = "STATE_CONNECTED")
    BY <1>13 DEF ConnectReturn
  <2>3. state = "STATE_CONNECTED" => sent # <<>>
    BY <2>1, <2>2, ConnectedOpen
  <2>4. op[c] = "connect" /\ (sent # <<>> => accepted[c] = "CONNECT")
    BY <2>2 DEF RequestInv, CallInv, FunctionInv, AcceptedInv, ConnectSteps
  <2> QED
    BY <2>2, <2>3, <2>4, RequestReturn DEF RequestOf
<1>14. ASSUME NEW t \in Threads, TakeId(t) PROVE RequestInv'
  <2>1. t \in Callers
    BY <1>14 DEF TakeId, RequestInv, ReaderInv, ReaderLabels, Threads
  <2>2. t # Reader /\ Reader \in Threads
    BY <2>1, ThreadAssumption DEF Threads
  <2>3. pc[t] = "p_id" /\ UNCHANGED <<accepted, sent, packetCntr, keepaliveIn>>
    BY <1>14 DEF TakeId
  <2>4. CASE tmp' = [tmp EXCEPT ![t] = packetCntr] /\ Goto(t, "p_encode")
             /\ UNCHANGED <<op, ret, arg, polls>>
    <3>1. pc'[t] = "p_encode" /\ tmp'[t] = packetCntr
      BY SMT, <2>4 DEF Goto, TypeInv, ThreadTypes, LocalTypes
    <3>2. CallInv(t)'
      BY <2>1, <2>3, <2>4, <3>1 DEF RequestInv, CallInv, FunctionInv, AcceptedInv, IdInv, AskedInv, ConnectSteps, PacketSteps, WaitSteps,
             KeepaliveSteps, RequestOf
    <3> QED
      BY <2>1, <2>3, <2>4, <3>2, RequestQuiet
  <2>5. CASE Failed(t)
    BY <2>1, <2>3, <2>5, RequestFailed
  <2> QED
    BY <1>14, <2>4, <2>5 DEF TakeId
<1>15. ASSUME NEW t \in Threads, Encode(t) PROVE RequestInv'
  <2>1. t \in Callers
    BY <1>15 DEF Encode, RequestInv, ReaderInv, ReaderLabels, Threads
  <2>2. t # Reader /\ Reader \in Threads
    BY <2>1, ThreadAssumption DEF Threads
  <2>3. pc[t] = "p_encode" /\ UNCHANGED <<accepted, sent, keepaliveIn>> /\ packetCntr' = tmp[t] + 1
    BY <1>15 DEF Encode, NextId
  <2>4. tmp[t] = packetCntr /\ packetCntr < MaxSent /\ packetCntr \in Nat /\ MaxSent \in Nat
    BY <2>1, <2>3, BoundAssumption DEF RequestInv, CallInv, IdInv, TypeInv, SharedTypes
  <2>5. packetCntr' <= MaxSent /\ packetCntr < packetCntr' /\ tmp[t] \in 0..MaxSent - 1
    BY SMT, <2>3, <2>4
  <2>6. \A i \in DOMAIN sent : sent[i].type = "SUBSCRIBE" => sent[i].id < tmp[t] /\ sent[i].id < packetCntr'
    <3> TAKE i \in DOMAIN sent
    <3>1. sent[i] \in ClientPacket
      BY DEF TypeInv, NetworkTypes
    <3>2. sent[i].id \in Nat
      BY SMT, <3>1 DEF ClientPacket
    <3>3. sent[i].type = "SUBSCRIBE" => sent[i].id < packetCntr
      BY DEF RequestInv, UsedInv
    <3> QED
      BY SMT, <2>3, <2>4, <3>2, <3>3
  <2>7. RateInv' /\ UniqueIds'
    <3>1. \A s \in Threads : pc'[s] = "c_store" <=> pc[s] = "c_store"
      <4>1. PICK label \in {"p_send", "s_clear", "idle"} : Goto(t, label)
        BY <1>15, <2>2 DEF Encode, Failed, Return
      <4> QED
        BY SMT, <2>3, <4>1 DEF Goto, TypeInv, ThreadTypes, LocalTypes
    <3> QED
      BY <2>3, <3>1 DEF RequestInv, RateInv, UniqueIds, Threads
  <2>8. CASE Goto(t, "p_send") /\ UNCHANGED locals /\ (arg[t] = 0 => buffer' = Encoded(t))
    <3>1. pc'[t] = "p_send" /\ pc'[Reader] = pc[Reader]
      BY SMT, <2>2, <2>8 DEF Goto, TypeInv, ThreadTypes, LocalTypes
    <3>2. Encoded(t)' = Encoded(t)
      BY <2>8 DEF Encoded
    <3>3. op[t] \in {"publish", "subscribe"}
      BY <2>1, <2>3 DEF RequestInv, CallInv, FunctionInv, PacketSteps
    <3>4. CallInv(t)'
      BY <2>3, <2>4, <2>5, <2>8, <3>1, <3>2, <3>3 DEF CallInv, FunctionInv, AcceptedInv, IdInv, AskedInv, ConnectSteps, PacketSteps, WaitSteps,
             KeepaliveSteps, RequestOf
    <3>5. UsedInv'
      <4>1. \A c \in Callers : c = t /\ tmp'[c] = tmp[t]
        BY <2>1, <2>8 DEF SoleCaller
      <4> QED
        BY <2>3, <2>5, <2>6, <4>1 DEF UsedInv
    <3> QED
      BY <2>1, <2>7, <2>8, <3>1, <3>4, <3>5, RequestCaller
  <2>9. CASE Failed(t)
    <3>1. PICK label \in {"s_clear", "idle"} : Goto(t, label) /\ op' = op
      BY <2>2, <2>9 DEF Failed, Return
    <3>2. pc'[t] = label /\ pc'[Reader] = pc[Reader]
      BY SMT, <2>2, <3>1 DEF Goto, TypeInv, ThreadTypes, LocalTypes
    <3>3. ret'[t] = FALSE /\ (op[t] = "subscribe" <=> label = "s_clear")
      <4>1. ret' = [ret EXCEPT ![t] = FALSE]
        BY <2>9 DEF Failed, Return
      <4>2. ret'[t] = FALSE
        BY SMT, <4>1 DEF TypeInv, ThreadTypes, LocalTypes
      <4>3. pc' = [pc EXCEPT ![t] = IF op[t] = "subscribe" THEN "s_clear" ELSE "idle"]
        BY <2>2, <2>9 DEF Failed, Return, Goto
      <4>4. pc'[t] = IF op[t] = "subscribe" THEN "s_clear" ELSE "idle"
        BY SMT, <4>3 DEF TypeInv, ThreadTypes, LocalTypes
      <4> QED
        BY <3>2, <4>2, <4>4
    <3>4. CallInv(t)'
      BY <3>1, <3>2, <3>3 DEF CallInv, FunctionInv, AcceptedInv, IdInv, AskedInv, ConnectSteps, PacketSteps, WaitSteps,
             KeepaliveSteps, RequestOf
    <3>5. UsedInv'
      <4>1. \A c \in Callers : pc'[c] # "p_send"
        BY <2>1, <3>2 DEF SoleCaller
      <4> QED
        BY <2>3, <2>5, <2>6, <4>1 DEF UsedInv
    <3> QED
      BY <2>1, <2>7, <3>1, <3>2, <3>4, <3>5, RequestCaller
  <2> QED
    BY <1>15, <2>8, <2>9 DEF Encode
<1>16. ASSUME NEW t \in Threads, Send(t) PROVE RequestInv'
  <2>1. t \in Callers
    BY <1>16 DEF Send, RequestInv, ReaderInv, ReaderLabels, Threads
  <2>2. t # Reader /\ Reader \in Threads
    BY <2>1, ThreadAssumption DEF Threads
  <2> DEFINE packet == IF arg[t] = 0 THEN buffer ELSE Encoded(t)
  <2>3. PICK ok \in BOOLEAN : /\ Transmit(t, packet, ok)
                             /\ IF ok THEN Goto(t, "t_load") /\ UNCHANGED locals ELSE Failed(t)
    BY <1>16 DEF Send
  <2>4. pc[t] = "p_send" /\ UNCHANGED <<packetCntr, keepaliveIn, buffer>>
    BY <1>16 DEF Send
  <2>5. /\ packet = Encoded(t) /\ op[t] \in {"publish", "subscribe"}
        /\ tmp[t] \in 0..MaxSent - 1 /\ packetCntr = tmp[t] + 1
    BY <2>1, <2>4 DEF RequestInv, CallInv, IdInv, FunctionInv, PacketSteps
  <2> HIDE DEF packet
  <2>6. packet.type = RequestOf(op[t]) /\ packet \in ClientPacket
    BY <2>5, EncodedType DEF RequestOf, Encoded, TypeInv, ThreadTypes, LocalTypes
  <2>7. CASE ok
    <3>1. sent' = Append(sent, packet) /\ accepted'[t] = packet.type
      BY <2>3, <2>7, TransmitAccepted
    <3>2. Goto(t, "t_load") /\ UNCHANGED <<op, arg, tmp, ret>>
      BY <2>3, <2>7
    <3>3. pc'[t] = "t_load" /\ pc'[Reader] = pc[Reader]
      BY SMT, <2>2, <3>2 DEF Goto, TypeInv, ThreadTypes, LocalTypes
    <3>4. CallInv(t)'
      BY <2>5, <2>6, <3>1, <3>2, <3>3 DEF CallInv, FunctionInv, AcceptedInv, IdInv, AskedInv, ConnectSteps, PacketSteps, WaitSteps,
             KeepaliveSteps, RequestOf
    <3>5. RateInv'
      BY <2>1, <2>4, <3>3 DEF RequestInv, RateInv, SoleCaller
    <3>6. packet.type = "SUBSCRIBE" => packet.id = tmp[t]
      <4>1. tmp[t] % 65536 = tmp[t]
        BY SMT, <2>5, BoundAssumption DEF Identifiers
      <4> QED
        BY <2>5, <4>1 DEF Encoded
    <3>7. \A i \in DOMAIN sent : sent[i].type = "SUBSCRIBE" => sent[i].id < tmp[t]
      BY <2>1, <2>4 DEF RequestInv, UsedInv
    <3>8. sent \in Seq(ClientPacket)
      BY DEF TypeInv, NetworkTypes
    <3>9. \A i \in DOMAIN sent' : \/ i \in DOMAIN sent /\ sent'[i] = sent[i]
                                  \/ i = Len(sent) + 1 /\ sent'[i] = packet
      BY SMT, <3>1, <3>8
    <3>10. tmp[t] \in Nat /\ packetCntr \in Nat /\ tmp[t] < packetCntr
      BY SMT, <2>5, BoundAssumption DEF TypeInv, SharedTypes
    <3>11. UsedInv'
      <4>1. \A c \in Callers : pc'[c] # "p_send"
        BY <2>1, <3>3 DEF SoleCaller
      <4>2. \A i \in DOMAIN sent' : sent'[i].type = "SUBSCRIBE" => sent'[i].id < packetCntr
        BY <3>6, <3>9, <3>10 DEF RequestInv, UsedInv
      <4> QED
        BY <2>4, <4>1, <4>2 DEF RequestInv, UsedInv
    <3>12. UniqueIds'
      <4> SUFFICES ASSUME NEW i \in DOMAIN sent', NEW j \in DOMAIN sent',
                          sent'[i].type = "SUBSCRIBE", sent'[j].type = "SUBSCRIBE",
                          sent'[i].id = sent'[j].id
                   PROVE  i = j
        BY DEF UniqueIds
      <4>1. ASSUME NEW k \in DOMAIN sent, sent[k].type = "SUBSCRIBE" PROVE sent[k].id # tmp[t]
        <5>1. sent[k] \in ClientPacket
          BY <3>8
        <5>2. sent[k].id \in Nat
          BY SMT, <5>1 DEF ClientPacket
        <5>3. sent[k].id < tmp[t]
          BY <3>7, <4>1
        <5> QED
          BY SMT, <3>10, <5>2, <5>3
      <4> QED
        BY <3>6, <3>9, <4>1 DEF RequestInv, UniqueIds
    <3> QED
      BY <2>1, <3>2, <3>3, <3>4, <3>5, <3>11, <3>12, RequestCaller
  <2>8. CASE ~ok
    <3>1. sent' = sent
      BY <2>3, <2>8, TransmitAccepted
    <3> QED
      BY <2>1, <2>3, <2>4, <2>8, <3>1, RequestFailed
  <2> QED
    BY <2>7, <2>8
<1>17. ASSUME NEW t \in Threads, SubscribeStatus(t) PROVE RequestInv'
  <2>1. t \in Callers
    BY <1>17 DEF SubscribeStatus, RequestInv, ReaderInv, ReaderLabels, Threads
  <2>2. t # Reader /\ Reader \in Threads
    BY <2>1, ThreadAssumption DEF Threads
  <2>3. pc[t] = "s_status" /\ UNCHANGED <<op, arg, accepted, sent, packetCntr, keepaliveIn>>
    BY <1>17 DEF SubscribeStatus
  <2>4. pc'[t] = "s_wait"
    BY SMT, <1>17 DEF SubscribeStatus, Goto, TypeInv, ThreadTypes, LocalTypes
  <2>5. CallInv(t)'
    BY <2>1, <2>3, <2>4 DEF RequestInv, CallInv, FunctionInv, AcceptedInv, IdInv, AskedInv, ConnectSteps, PacketSteps, WaitSteps,
             KeepaliveSteps, RequestOf
  <2> QED
    BY <1>17, <2>1, <2>3, <2>5, RequestQuiet DEF SubscribeStatus
<1>18. ASSUME NEW t \in Threads, SubscribePoll(t) PROVE RequestInv'
  BY <1>18, RequestElse DEF SubscribePoll, RequestInv, ReaderInv
<1>19. ASSUME NEW t \in Threads, SubscribePolled(t) PROVE RequestInv'
  <2>1. t \in Callers
    BY <1>19 DEF SubscribePolled, RequestInv, ReaderInv, ReaderLabels, Threads
  <2>2. t # Reader /\ Reader \in Threads
    BY <2>1, ThreadAssumption DEF Threads
  <2>3. pc[t] = "s_wait" /\ UNCHANGED <<op, arg, ret, accepted, sent, packetCntr, keepaliveIn>>
    BY <1>19 DEF SubscribePolled
  <2>4. pc'[t] = "s_clear"
    BY SMT, <1>19 DEF SubscribePolled, Goto, TypeInv, ThreadTypes, LocalTypes
  <2>5. CallInv(t)'
    BY <2>1, <2>3, <2>4 DEF RequestInv, CallInv, FunctionInv, AcceptedInv, IdInv, AskedInv, ConnectSteps, PacketSteps, WaitSteps,
             KeepaliveSteps, RequestOf
  <2> QED
    BY <1>19, <2>1, <2>3, <2>5, RequestQuiet DEF SubscribePolled
<1>20. ASSUME NEW t \in Threads, SubscribeReturn(t) PROVE RequestInv'
  <2>1. t \in Callers
    BY <1>20 DEF SubscribeReturn, RequestInv, ReaderInv, ReaderLabels, Threads
  <2>2. t # Reader /\ Reader \in Threads
    BY <2>1, ThreadAssumption DEF Threads
  <2>3. pc[t] = "s_clear" /\ UNCHANGED <<accepted, sent, packetCntr, keepaliveIn>>
        /\ Return(t, ret[t])
    BY <1>20 DEF SubscribeReturn
  <2>4. op[t] = "subscribe" /\ (ret[t] => accepted[t] = "SUBSCRIBE")
    BY <2>1, <2>3 DEF RequestInv, CallInv, FunctionInv, AcceptedInv, WaitSteps
  <2> QED
    BY <2>1, <2>3, <2>4, RequestReturn DEF RequestOf
<1>21. ASSUME NEW t \in Threads, TimerLoad(t) PROVE RequestInv'
  <2>1. pc[t] = "t_load" /\ Goto(t, "t_store") /\ tmp' = [tmp EXCEPT ![t] = keepaliveIn]
        /\ UNCHANGED <<op, arg, ret, accepted, sent, buffer, packetCntr, keepaliveIn>>
    BY <1>21 DEF TimerLoad
  <2>2. \A s \in Threads : /\ pc'[s] = (IF s = t THEN "t_store" ELSE pc[s])
                           /\ s # t => tmp'[s] = tmp[s]
    BY SMT, <2>1 DEF Goto, TypeInv, ThreadTypes, LocalTypes
  <2>3. CASE t \in Callers
    <3>1. CallInv(t)'
      BY <2>1, <2>2, <2>3 DEF RequestInv, CallInv, FunctionInv, AcceptedInv, IdInv, AskedInv, ConnectSteps, PacketSteps, WaitSteps,
             KeepaliveSteps, RequestOf
    <3> QED
      BY <2>1, <2>3, <3>1, RequestQuiet
  <2>4. CASE t = Reader
    <3>1. ReaderInv'
      BY <2>1, <2>2, <2>4 DEF RequestInv, ReaderInv, ReaderLabels
    <3> QED
      BY <2>1, <2>2, <2>4, <3>1, ThreadAssumption, RequestElse DEF Threads
  <2> QED
    BY <2>3, <2>4 DEF Threads
<1>22. ASSUME NEW t \in Threads, TimerStore(t) PROVE RequestInv'
  <2>1. pc[t] = "t_store" /\ UNCHANGED <<accepted, sent, buffer, packetCntr, keepaliveIn>>
    BY <1>22 DEF TimerStore
  <2>2. CASE t \in Callers
    <3>1. op[t] \in {"publish", "subscribe", "keepalive"}
          /\ (op[t] # "keepalive" => accepted[t] = RequestOf(op[t]))
      BY <2>1, <2>2 DEF RequestInv, CallInv, FunctionInv, AcceptedInv
    <3>2. CASE op[t] = "subscribe"
      <4>1. Goto(t, "s_status") /\ UNCHANGED locals
        BY <1>22, <3>2 DEF TimerStore
      <4>2. pc'[t] = "s_status"
        BY SMT, <4>1 DEF Goto, TypeInv, ThreadTypes, LocalTypes
      <4>3. CallInv(t)'
        BY <2>1, <3>1, <3>2, <4>1, <4>2 DEF CallInv, FunctionInv, AcceptedInv, IdInv, AskedInv, ConnectSteps, PacketSteps, WaitSteps,
             KeepaliveSteps, RequestOf
      <4> QED
        BY <2>1, <2>2, <4>1, <4>3, RequestQuiet
    <3>3. CASE op[t] # "subscribe"
      <4>1. Return(t, TRUE)
        BY <1>22, <3>1, <3>3 DEF TimerStore
      <4> QED
        BY <2>1, <2>2, <3>1, <4>1, RequestReturn
    <3> QED
      BY <3>2, <3>3
  <2>3. CASE t = Reader
    <3>1. op[t] = "receive"
      BY <2>1, <2>3 DEF RequestInv, ReaderInv
    <3>2. Goto(t, "idle") /\ tmp' = [tmp EXCEPT ![t] = 0] /\ UNCHANGED <<op, ret, arg>>
      BY <1>22, <3>1 DEF TimerStore
    <3>3. \A s \in Threads : /\ pc'[s] = (IF s = t THEN "idle" ELSE pc[s])
                             /\ s # t => tmp'[s] = tmp[s]
      BY SMT, <3>2 DEF Goto, TypeInv, ThreadTypes, LocalTypes
    <3>4. ReaderInv'
      BY <2>3, <3>2, <3>3 DEF RequestInv, ReaderInv, ReaderLabels
    <3> QED
      BY <2>1, <2>3, <3>2, <3>3, <3>4, ThreadAssumption, RequestElse DEF Threads
  <2> QED
    BY <2>2, <2>3 DEF Threads
<1>23. ASSUME NEW c \in Callers, KeepaliveState(c) PROVE RequestInv'
  <2>1. c \in Threads /\ c # Reader /\ Reader \in Threads
    BY ThreadAssumption DEF Threads
  <2>2. pc[c] = "k_state" /\ UNCHANGED <<accepted, sent, packetCntr, keepaliveIn>>
    BY <1>23 DEF KeepaliveState
  <2>3. op[c] = "keepalive"
    BY <2>2 DEF RequestInv, CallInv, FunctionInv, KeepaliveSteps
  <2>4. CASE Goto(c, "k_compare") /\ UNCHANGED locals
    <3>1. pc'[c] = "k_compare"
      BY SMT, <2>1, <2>4 DEF Goto, TypeInv, ThreadTypes, LocalTypes
    <3>2. CallInv(c)'
      BY <2>3, <2>4, <3>1 DEF CallInv, FunctionInv, AcceptedInv, IdInv, AskedInv, ConnectSteps, PacketSteps, WaitSteps,
             KeepaliveSteps, RequestOf
    <3> QED
      BY <2>2, <2>4, <3>2, RequestQuiet
  <2>5. CASE Return(c, FALSE) \/ Return(c, TRUE)
    BY <2>2, <2>3, <2>5, RequestReturn
  <2> QED
    BY <1>23, <2>4, <2>5 DEF KeepaliveState
<1>24. ASSUME NEW c \in Callers, KeepaliveCompare(c) PROVE RequestInv'
  <2>1. c \in Threads /\ c # Reader /\ Reader \in Threads
    BY ThreadAssumption DEF Threads
  <2>2. PICK label \in {"k_load", "k_zero"} : Goto(c, label)
    BY <1>24 DEF KeepaliveCompare
  <2>3. pc[c] = "k_compare" /\ UNCHANGED <<op, accepted, sent, packetCntr, keepaliveIn>>
    BY <1>24 DEF KeepaliveCompare
  <2>4. pc'[c] = label
    BY SMT, <2>1, <2>2 DEF Goto, TypeInv, ThreadTypes, LocalTypes
  <2>5. CallInv(c)'
    BY <2>3, <2>4 DEF RequestInv, CallInv, FunctionInv, AcceptedInv, IdInv, AskedInv, ConnectSteps, PacketSteps, WaitSteps,
             KeepaliveSteps, RequestOf
  <2> QED
    BY <2>2, <2>3, <2>5, RequestQuiet
<1>25. ASSUME NEW c \in Callers, KeepaliveLoad(c) PROVE RequestInv'
  <2>1. c \in Threads /\ c # Reader /\ Reader \in Threads
    BY ThreadAssumption DEF Threads
  <2>2. pc[c] = "k_load" /\ UNCHANGED <<op, arg, ret, accepted, sent, packetCntr, keepaliveIn>>
    BY <1>25 DEF KeepaliveLoad
  <2>3. pc'[c] = "k_store"
    BY SMT, <1>25, <2>1 DEF KeepaliveLoad, Goto, TypeInv, ThreadTypes, LocalTypes
  <2>4. CallInv(c)'
    BY <2>2, <2>3 DEF RequestInv, CallInv, FunctionInv, AcceptedInv, IdInv, AskedInv, ConnectSteps, PacketSteps, WaitSteps,
             KeepaliveSteps, RequestOf
  <2> QED
    BY <1>25, <2>2, <2>4, RequestQuiet DEF KeepaliveLoad
<1>26. ASSUME NEW c \in Callers, KeepaliveStore(c) PROVE RequestInv'
  <2>1. c \in Threads /\ c # Reader /\ Reader \in Threads
    BY ThreadAssumption DEF Threads
  <2>2. pc[c] = "k_store" /\ UNCHANGED <<op, arg, ret, accepted, sent, packetCntr, keepaliveIn>>
    BY <1>26 DEF KeepaliveStore
  <2>3. pc'[c] = "k_test"
    BY SMT, <1>26, <2>1 DEF KeepaliveStore, Goto, TypeInv, ThreadTypes, LocalTypes
  <2>4. CallInv(c)'
    BY <2>2, <2>3 DEF RequestInv, CallInv, FunctionInv, AcceptedInv, IdInv, AskedInv, ConnectSteps, PacketSteps, WaitSteps,
             KeepaliveSteps, RequestOf
  <2> QED
    BY <1>26, <2>2, <2>4, RequestQuiet DEF KeepaliveStore
<1>27. ASSUME NEW c \in Callers, KeepaliveZero(c) PROVE RequestInv'
  <2>1. c \in Threads /\ c # Reader /\ Reader \in Threads
    BY ThreadAssumption DEF Threads
  <2>2. pc[c] = "k_zero" /\ UNCHANGED <<op, arg, ret, accepted, sent, packetCntr, keepaliveIn>>
    BY <1>27 DEF KeepaliveZero
  <2>3. pc'[c] = "k_test"
    BY SMT, <1>27, <2>1 DEF KeepaliveZero, Goto, TypeInv, ThreadTypes, LocalTypes
  <2>4. CallInv(c)'
    BY <2>2, <2>3 DEF RequestInv, CallInv, FunctionInv, AcceptedInv, IdInv, AskedInv, ConnectSteps, PacketSteps, WaitSteps,
             KeepaliveSteps, RequestOf
  <2> QED
    BY <1>27, <2>2, <2>4, RequestQuiet DEF KeepaliveZero
<1>28. ASSUME NEW c \in Callers, KeepaliveTest(c) PROVE RequestInv'
  <2>1. c \in Threads /\ c # Reader /\ Reader \in Threads
    BY ThreadAssumption DEF Threads
  <2>2. pc[c] = "k_test" /\ UNCHANGED <<accepted, sent, packetCntr, keepaliveIn>>
    BY <1>28 DEF KeepaliveTest
  <2>3. op[c] = "keepalive"
    BY <2>2 DEF RequestInv, CallInv, FunctionInv, KeepaliveSteps
  <2>4. CASE Goto(c, "k_send") /\ UNCHANGED locals
    <3>1. pc'[c] = "k_send"
      BY SMT, <2>1, <2>4 DEF Goto, TypeInv, ThreadTypes, LocalTypes
    <3>2. CallInv(c)'
      BY <2>3, <2>4, <3>1 DEF CallInv, FunctionInv, AcceptedInv, IdInv, AskedInv, ConnectSteps, PacketSteps, WaitSteps,
             KeepaliveSteps, RequestOf
    <3> QED
      BY <2>2, <2>4, <3>2, RequestQuiet
  <2>5. CASE Return(c, TRUE)
    BY <2>2, <2>3, <2>5, RequestReturn
  <2> QED
    BY <1>28, <2>4, <2>5 DEF KeepaliveTest
<1>29. ASSUME NEW c \in Callers, KeepaliveSend(c) PROVE RequestInv'
  <2>1. c \in Threads /\ c # Reader /\ Reader \in Threads
    BY ThreadAssumption DEF Threads
  <2> DEFINE packet == [type |-> "PINGREQ", id |-> 0]
  <2>2. packet \in ClientPacket /\ packet.type # "SUBSCRIBE"
    BY PacketTypes
  <2> HIDE DEF packet
  <2>3. PICK ok \in BOOLEAN : /\ Transmit(c, packet, ok)
                             /\ IF ok THEN Goto(c, "t_load") /\ UNCHANGED locals ELSE Return(c, FALSE)
    BY <1>29 DEF KeepaliveSend, packet
  <2>4. pc[c] = "k_send" /\ UNCHANGED <<packetCntr, keepaliveIn>>
    BY <1>29 DEF KeepaliveSend
  <2>5. op[c] = "keepalive"
    BY <2>4 DEF RequestInv, CallInv, FunctionInv, KeepaliveSteps
  <2>6. sent' = sent \/ sent' = Append(sent, packet)
    BY <2>3 DEF Transmit
  <2>7. CASE Goto(c, "t_load") /\ UNCHANGED locals
    <3>1. pc'[c] = "t_load"
      BY SMT, <2>1, <2>7 DEF Goto, TypeInv, ThreadTypes, LocalTypes
    <3>2. CallInv(c)'
      BY <2>5, <2>7, <3>1 DEF CallInv, FunctionInv, AcceptedInv, IdInv, AskedInv, ConnectSteps, PacketSteps, WaitSteps,
             KeepaliveSteps, RequestOf
    <3> QED
      BY <2>2, <2>4, <2>6, <2>7, <3>2, RequestQuiet
  <2>8. CASE Return(c, FALSE)
    BY <2>2, <2>4, <2>6, <2>8, RequestReturn
  <2> QED
    BY <2>3, <2>7, <2>8
<1>30. ASSUME NEW c \in Callers, DisconnectState(c) PROVE RequestInv'
  <2>1. c \in Threads /\ c # Reader /\ Reader \in Threads
    BY ThreadAssumption DEF Threads
  <2>2. pc[c] = "d_state" /\ UNCHANGED <<accepted, sent, packetCntr, keepaliveIn>>
    BY <1>30 DEF DisconnectState
  <2>3. op[c] = "disconnect"
    BY <2>2 DEF RequestInv, CallInv, FunctionInv
  <2>4. CASE Goto(c, "d_send") /\ UNCHANGED locals
    <3>1. pc'[c] = "d_send"
      BY SMT, <2>1, <2>4 DEF Goto, TypeInv, ThreadTypes, LocalTypes
    <3>2. CallInv(c)'
      BY <2>3, <2>4, <3>1 DEF CallInv, FunctionInv, AcceptedInv, IdInv, AskedInv, ConnectSteps, PacketSteps, WaitSteps,
             KeepaliveSteps, RequestOf
    <3> QED
      BY <2>2, <2>4, <3>2, RequestQuiet
  <2>5. CASE Return(c, FALSE)
    BY <2>2, <2>5, RequestReturn
  <2> QED
    BY <1>30, <2>4, <2>5 DEF DisconnectState
<1>31. ASSUME NEW c \in Callers, DisconnectSend(c) PROVE RequestInv'
  <2>1. c \in Threads /\ c # Reader /\ Reader \in Threads
    BY ThreadAssumption DEF Threads
  <2> DEFINE packet == [type |-> "DISCONNECT", id |-> 0]
  <2>2. packet \in ClientPacket /\ packet.type = "DISCONNECT"
    BY PacketTypes
  <2> HIDE DEF packet
  <2>3. PICK ok \in BOOLEAN : Transmit(c, packet, ok) /\ Return(c, ok)
    BY <1>31 DEF DisconnectSend, packet
  <2>4. pc[c] = "d_send" /\ UNCHANGED <<packetCntr, keepaliveIn>>
    BY <1>31 DEF DisconnectSend
  <2>5. op[c] = "disconnect"
    BY <2>4 DEF RequestInv, CallInv, FunctionInv
  <2>6. sent' = (IF ok THEN Append(sent, packet) ELSE sent) /\ (ok => accepted'[c] = packet.type)
    BY <2>1, <2>3, TransmitAccepted
  <2> QED
    BY <2>2, <2>3, <2>4, <2>5, <2>6, RequestReturn DEF RequestOf
<1>32. ASSUME Receive PROVE RequestInv'
  <2>1. Reader \in Threads /\ UNCHANGED <<arg, tmp, ret, accepted, sent, buffer, packetCntr, keepaliveIn>>
    BY <1>32 DEF Receive, Threads
  <2>2. \A s \in Threads : /\ pc'[s] = (IF s = Reader THEN "r_parse" ELSE pc[s])
                           /\ op'[s] = (IF s = Reader THEN "receive" ELSE op[s])
    BY SMT, <1>32, <2>1 DEF Receive, Goto, TypeInv, ThreadTypes, LocalTypes
  <2>3. ReaderInv'
    BY <2>1, <2>2 DEF ReaderInv, ReaderLabels
  <2> QED
    BY <2>1, <2>2, <2>3, ThreadAssumption, RequestElse DEF Threads
<1>33. ASSUME ParseConnack PROVE RequestInv'
  <2>1. Goto(Reader, "t_load") /\ Reader \in Threads
        /\ UNCHANGED <<op, arg, tmp, ret, accepted, sent, buffer, packetCntr, keepaliveIn>>
    BY <1>33 DEF ParseConnack, Listening, Threads
  <2>2. \A s \in Threads : pc'[s] = IF s = Reader THEN "t_load" ELSE pc[s]
    BY SMT, <2>1 DEF Goto, TypeInv, ThreadTypes, LocalTypes
  <2>3. ReaderInv'
    BY <1>33, <2>1, <2>2 DEF ParseConnack, RequestInv, ReaderInv, ReaderLabels
  <2> QED
    BY <2>1, <2>2, <2>3, ThreadAssumption, RequestElse DEF Threads
<1>34. ASSUME ParseOther PROVE RequestInv'
  <2>1. PICK label \in {"t_load", "idle"} : Goto(Reader, label)
    BY <1>34 DEF ParseOther
  <2>2. Reader \in Threads
        /\ UNCHANGED <<op, arg, tmp, ret, accepted, sent, buffer, packetCntr, keepaliveIn>>
    BY <1>34 DEF ParseOther, Threads
  <2>3. \A s \in Threads : pc'[s] = IF s = Reader THEN label ELSE pc[s]
    BY SMT, <2>1 DEF Goto, TypeInv, ThreadTypes, LocalTypes
  <2>4. ReaderInv'
    BY <1>34, <2>2, <2>3 DEF ParseOther, RequestInv, ReaderInv, ReaderLabels
  <2> QED
    BY <2>2, <2>3, <2>4, ThreadAssumption, RequestElse DEF Threads
<1>35. ASSUME LinkDown PROVE RequestInv'
  BY <1>35, RequestElse DEF LinkDown, RequestInv, ReaderInv
<1>36. ASSUME BrokerReads PROVE RequestInv'
  BY <1>36, RequestElse DEF BrokerReads, RequestInv, ReaderInv
<1>37. ASSUME BrokerPublishes PROVE RequestInv'
  BY <1>37, RequestElse DEF BrokerPublishes, RequestInv, ReaderInv
<1>38. ASSUME Tick PROVE RequestInv'
  BY <1>38, RequestElse DEF Tick, RequestInv, ReaderInv
<1>39. CASE UNCHANGED vars
  BY <1>39, RequestElse DEF vars, RequestInv, ReaderInv
<1>40. ASSUME NEW c \in Callers, Calls(c) PROVE RequestInv'
  BY <1>1, <1>2, <1>3, <1>4, <1>5, <1>40 DEF Calls
<1>41. ASSUME NEW c \in Callers, CallerSteps(c) PROVE RequestInv'
  BY <1>6, <1>7, <1>8, <1>9, <1>10, <1>11, <1>12, <1>13, <1>23, <1>24, <1>25, <1>26, <1>27,
     <1>28, <1>29, <1>30, <1>31, <1>41 DEF CallerSteps
<1>42. ASSUME NEW t \in Threads, SharedSteps(t) PROVE RequestInv'
  BY <1>14, <1>15, <1>16, <1>17, <1>18, <1>19, <1>20, <1>21, <1>22, <1>42 DEF SharedSteps
<1>43. CASE ReaderSteps
  BY <1>32, <1>33, <1>34, <1>43 DEF ReaderSteps
<1>44. CASE Environment
  BY <1>35, <1>36, <1>37, <1>38, <1>44 DEF Environment
<1> QED
  BY <1>39, <1>40, <1>41, <1>42, <1>43, <1>44 DEF Next

\* No two SUBSCRIBE packets of a connection carry the same identifier, as long as
\* the connection uses at most 65536 of them (mqtt.c 1620): for one application
\* thread, whatever calls fail in between.
THEOREM IdsUnique == SoleCaller /\ Listening /\ Identifiers => (Spec => []UniqueIds)
<1> SUFFICES ASSUME SoleCaller, Listening, Identifiers PROVE Spec => []UniqueIds
  OBVIOUS
<1>1. TypeInv /\ OpenInv /\ RequestInv /\ [Next]_vars => TypeInv' /\ OpenInv' /\ RequestInv'
  BY TypeStep, OpenStep, RequestStep
<1>2. RequestInv => UniqueIds
  BY DEF RequestInv
<1> QED
  BY <1>1, <1>2, TypeInit, OpenInit, RequestInit, PTL DEF Spec

\* A call of the application that returned true has put its own packet on the wire
\* and nothing else (mqtt.h: "true when publish successfully formed and sent out").
THEOREM TrueSent == SoleCaller /\ Listening /\ Identifiers => (Spec => []TrueMeansSent)
<1> SUFFICES ASSUME SoleCaller, Listening, Identifiers PROVE Spec => []TrueMeansSent
  OBVIOUS
<1>1. TypeInv /\ OpenInv /\ RequestInv /\ [Next]_vars => TypeInv' /\ OpenInv' /\ RequestInv'
  BY TypeStep, OpenStep, RequestStep
<1>2. RequestInv => TrueMeansSent
  BY DEF RequestInv, CallInv, AcceptedInv, TrueMeansSent
<1> QED
  BY <1>1, <1>2, TypeInit, OpenInit, RequestInit, PTL DEF Spec

-----------------------------------------------------------------------------
(* MqttClient implements MqttSession. *)

LEMMA SessionInit == Init => Session!Init
BY DEF Init, Session!Init

\* Sending a packet in its place is a step of the session, and failing to is none.
LEMMA SayStep ==
  ASSUME NEW t \in Threads, NEW packet, NEW ok, Transmit(t, packet, ok),
         packet \in [type : ClientTypes \ {"none"}, id : 0..MaxSent],
         packet.type = "CONNECT" <=> sent = <<>>,
         packet.type = "SUBSCRIBE" =>
           \A i \in DOMAIN sent : sent[i].type = "SUBSCRIBE" => sent[i].id # packet.id
  PROVE  [Session!Next]_(Session!vars)
<1>1. CASE ok
  <2>1. Session!InPlace(packet)
    BY DEF Session!InPlace
  <2>2. sent' = Append(sent, packet) /\ idle' = 0
    BY <1>1 DEF Transmit
  <2> QED
    BY <2>1, <2>2 DEF Session!Next, Session!Say
<1>2. CASE ~ok
  BY <1>2 DEF Transmit, Session!vars
<1> QED
  BY <1>1, <1>2

\* A packet without an identifier is one the session knows.
LEMMA PlainPackets ==
  \A kind \in ClientTypes \ {"none"} :
    [type |-> kind, id |-> 0] \in [type : ClientTypes \ {"none"}, id : 0..MaxSent]
BY SMT, BoundAssumption

LEMMA SessionStep ==
  SoleCaller /\ Listening /\ Identifiers /\ TypeInv /\ OpenInv /\ RequestInv /\ TrafficBound'
    /\ [Next]_vars => [Session!Next]_(Session!vars)
<1> SUFFICES ASSUME SoleCaller, Listening, Identifiers, TypeInv, OpenInv, RequestInv, TrafficBound',
                    [Next]_vars
             PROVE  [Session!Next]_(Session!vars)
  OBVIOUS
<1> USE DEF shared, locals, threads, network, clocks
<1>1. ASSUME NEW c \in Callers, NEW secs \in KeepaliveSecs, NEW timeout \in TimeoutSecs,
             CallConnect(c, secs, timeout)
      PROVE  Session!Next
  BY <1>1 DEF CallConnect, Session!Next, Session!Open
<1>2. ASSUME NEW c \in Callers, Calls(c) PROVE [Session!Next]_(Session!vars)
  BY <1>1, <1>2
     DEF Calls, CallPublish, CallSubscribe, CallKeepalive, CallDisconnect, Session!vars
<1>3. ASSUME NEW c \in Callers, ConnectSend(c) PROVE [Session!Next]_(Session!vars)
  <2>1. PICK ok \in BOOLEAN : Transmit(c, buffer, ok)
    BY <1>3 DEF ConnectSend
  <2>2. pc[c] = "c_send" /\ c \in Threads
    BY <1>3 DEF ConnectSend, Threads
  <2>3. buffer = Hello /\ sent = <<>>
    BY <2>2 DEF OpenInv, BufferInv, OpeningInv, Opening
  <2>4. "CONNECT" \in ClientTypes \ {"none"}
    BY DEF ClientTypes
  <2>5. buffer \in [type : ClientTypes \ {"none"}, id : 0..MaxSent]
    BY <2>3, <2>4, PlainPackets DEF Hello
  <2>6. buffer.type = "CONNECT"
    BY <2>3 DEF Hello
  <2> QED
    BY <2>1, <2>2, <2>3, <2>5, <2>6, SayStep
<1>4. ASSUME NEW t \in Threads, Send(t) PROVE [Session!Next]_(Session!vars)
  <2> DEFINE packet == IF arg[t] = 0 THEN buffer ELSE Encoded(t)
  <2>1. PICK ok \in BOOLEAN : Transmit(t, packet, ok)
    BY <1>4 DEF Send
  <2>2. pc[t] = "p_send" /\ t \in Callers
    BY <1>4 DEF Send, RequestInv, ReaderInv, ReaderLabels, Threads
  <2>3. packet = Encoded(t) /\ tmp[t] \in 0..MaxSent - 1
    BY <2>2 DEF RequestInv, CallInv, IdInv
  <2> HIDE DEF packet
  <2>4. sent # <<>>
    BY <2>2 DEF OpenInv, EngagedInv, Engaged, Threads
  <2>5. tmp[t] % 65536 = tmp[t] /\ tmp[t] \in 0..MaxSent /\ tmp[t] \in Nat
    BY SMT, <2>3, BoundAssumption DEF Identifiers
  <2>6. packet = [type |-> "PUBLISH", id |-> 0] \/ packet = [type |-> "SUBSCRIBE", id |-> tmp[t]]
    BY <2>3, <2>5 DEF Encoded
  <2>7. /\ packet \in [type : ClientTypes \ {"none"}, id : 0..MaxSent]
        /\ packet.type # "CONNECT" /\ (packet.type = "SUBSCRIBE" => packet.id = tmp[t])
    BY SMT, <2>5, <2>6, BoundAssumption DEF ClientTypes
  <2>8. ASSUME NEW i \in DOMAIN sent, sent[i].type = "SUBSCRIBE" PROVE sent[i].id # tmp[t]
    <3>1. sent[i] \in ClientPacket
      BY DEF TypeInv, NetworkTypes
    <3>2. sent[i].id \in Nat
      BY SMT, <3>1 DEF ClientPacket
    <3>3. sent[i].id < tmp[t]
      BY <2>2, <2>8 DEF RequestInv, UsedInv
    <3> QED
      BY SMT, <2>5, <3>2, <3>3
  <2> QED
    BY <2>1, <2>4, <2>7, <2>8, SayStep
<1>5. ASSUME NEW c \in Callers, NEW kind \in {"PINGREQ", "DISCONNECT"}, NEW ok \in BOOLEAN,
             Transmit(c, [type |-> kind, id |-> 0], ok), pc[c] \in Engaged
      PROVE  [Session!Next]_(Session!vars)
  <2> DEFINE packet == [type |-> kind, id |-> 0]
  <2>1. c \in Threads /\ sent # <<>>
    BY <1>5 DEF OpenInv, EngagedInv, Threads
  <2>2. packet.type = kind /\ kind \in ClientTypes \ {"none"}
    BY DEF ClientTypes
  <2>3. packet \in [type : ClientTypes \ {"none"}, id : 0..MaxSent]
    BY <2>2, PlainPackets
  <2>4. Transmit(c, packet, ok)
    BY <1>5
  <2> HIDE DEF packet
  <2> QED
    BY <2>1, <2>2, <2>3, <2>4, SayStep
<1>6. ASSUME NEW c \in Callers, CallerSteps(c) PROVE [Session!Next]_(Session!vars)
  <2>1. CASE KeepaliveSend(c)
    BY <1>5, <2>1 DEF KeepaliveSend, Engaged
  <2>2. CASE DisconnectSend(c)
    BY <1>5, <2>2 DEF DisconnectSend, Engaged
  <2>3. CASE ConnectSend(c)
    BY <1>3, <2>3
  <2>4. CASE \/ ConnectInit(c) \/ ConnectFill(c) \/ ConnectKeepalive(c) \/ ConnectStore(c)
             \/ ConnectPoll(c) \/ ConnectPolled(c) \/ ConnectReturn(c)
    BY <2>4 DEF ConnectInit, ConnectFill, ConnectKeepalive, ConnectStore, ConnectPoll,
                ConnectPolled, ConnectReturn, Session!vars
  <2>5. CASE \/ KeepaliveState(c) \/ KeepaliveCompare(c) \/ KeepaliveLoad(c) \/ KeepaliveStore(c)
             \/ KeepaliveZero(c) \/ KeepaliveTest(c) \/ DisconnectState(c)
    BY <2>5 DEF KeepaliveState, KeepaliveCompare, KeepaliveLoad, KeepaliveStore, KeepaliveZero,
                KeepaliveTest, DisconnectState, Session!vars
  <2> QED
    BY <1>6, <2>1, <2>2, <2>3, <2>4, <2>5 DEF CallerSteps
<1>7. ASSUME NEW t \in Threads, SharedSteps(t) PROVE [Session!Next]_(Session!vars)
  <2>1. CASE Send(t)
    BY <1>4, <2>1
  <2>2. CASE ~Send(t)
    BY <1>7, <2>2 DEF SharedSteps, TakeId, Encode, SubscribeStatus, SubscribePoll, SubscribePolled,
                      SubscribeReturn, TimerLoad, TimerStore, Session!vars
  <2> QED
    BY <2>1, <2>2
<1>8. CASE ReaderSteps
  <2>1. CASE Receive
    <3>1. sent # <<>>
      BY <2>1 DEF Receive, OpenInv, FreshInv
    <3> QED
      BY <2>1, <3>1 DEF Receive, Session!Next, Session!Hear
  <2>2. CASE ParseConnack \/ ParseOther
    BY <2>2 DEF ParseConnack, ParseOther, Session!vars
  <2> QED
    BY <1>8, <2>1, <2>2 DEF ReaderSteps
<1>9. CASE Environment
  <2>1. CASE Tick
    <3>1. /\ Resting /\ state = "STATE_CONNECTED" /\ keepaliveIn > 0
          /\ idle' = idle + 1 /\ UNCHANGED <<state, keepaliveIn, sent>>
      BY <2>1 DEF Tick
    <3>2. sent # <<>> /\ \A c \in Callers : pc[c] # "c_store"
      BY <3>1 DEF Resting, OpenInv, FreshInv, Threads
    <3>3. PICK secs \in KeepaliveSecs : keepaliveIn = 2 * secs - 1
      BY <3>1, <3>2 DEF RequestInv, RateInv
    <3>4. idle + 1 < keepaliveIn + 1 + Period
      BY <3>1 DEF TrafficBound, KeepaliveOn
    <3>5. secs \in Nat /\ 2 * secs + Period <= LongestWait
      BY KeepaliveAssumption, LongestWaitAssumption
    <3>6. idle + 1 < LongestWait
      BY SMT, <3>3, <3>4, <3>5, PeriodAssumption, LongestWaitAssumption
         DEF TypeInv, ClockTypes, SharedTypes
    <3> QED
      BY <3>1, <3>2, <3>6 DEF Session!Next, Session!Wait
  <2>2. CASE LinkDown \/ BrokerReads \/ BrokerPublishes
    BY <2>2 DEF LinkDown, BrokerReads, BrokerPublishes, Session!vars
  <2> QED
    BY <1>9, <2>1, <2>2 DEF Environment
<1>10. CASE UNCHANGED vars
  BY <1>10 DEF vars, Session!vars
<1> QED
  BY <1>2, <1>6, <1>7, <1>8, <1>9, <1>10 DEF Next

\* The threads, the timer and the shared buffer do not show on the wire: what the
\* client sends, and when, is what MqttSession allows, for one application thread
\* that subscribes outside of callbacks, any keepalive times, timeouts and calls.
THEOREM SessionImplemented ==
  SoleCaller /\ Listening /\ Identifiers => (Spec => ImplementsSession)
<1> SUFFICES ASSUME SoleCaller, Listening, Identifiers PROVE Spec => Session!Spec
  BY DEF ImplementsSession
<1> DEFINE SessionInv == TypeInv /\ OpenInv /\ TimerInv /\ RequestInv
<1>1. SessionInv /\ [Next]_vars => SessionInv'
  BY TypeStep, OpenStep, TimerStep, RequestStep
<1>2. SessionInv => TrafficBound
  BY TimerBound
<1>3. SessionInv /\ SessionInv' /\ TrafficBound' /\ [Next]_vars => [Session!Next]_(Session!vars)
  BY SessionStep
<1>4. Init => SessionInv
  BY TypeInit, OpenInit, TimerInit, RequestInit
<1> HIDE DEF SessionInv
<1> QED
  BY <1>1, <1>2, <1>3, <1>4, SessionInit, PTL DEF Spec, Session!Spec
=============================================================================
