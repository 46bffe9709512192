----------------------------- MODULE DemoTasks -----------------------------
(***************************************************************************)
(* The FreeRTOS example's MQTT tasks (TCPEchoClient_SeparateTasks.c):      *)
(* Connect opens a socket and passes it three times through a queue of     *)
(* one, Receive reads it, Alive and Publish use the library on it.  They   *)
(* share xSocket and lShuttingDown without a lock.  Connect has the lowest *)
(* priority and runs only while the others wait.  Of the library the calls *)
(* keep the test of the connection's state and the write to the socket.    *)
(***************************************************************************)
EXTENDS Integers, Sequences

CONSTANTS
  MaxSockets,   \* bound: sockets Connect opens
  RecvTime,     \* xReceiveTimeOut, in ticks
  SendTime,     \* xSendTimeOut
  PublishTime,  \* ticks between two publishes
  RetryTime,    \* ticks from giving a socket up to opening the next
  AliveTime,    \* ticks between two mqtt_keepalive calls
  Garbage       \* is the value of socket_write, which returns none, arbitrary

ASSUME SocketsAssumption == MaxSockets \in Nat
ASSUME TimeAssumption == RecvTime \in Nat \ {0} /\ SendTime \in Nat /\ PublishTime \in Nat \ {0}
                         /\ RetryTime \in Nat /\ AliveTime \in Nat \ {0}
ASSUME FlagAssumption == Garbage \in BOOLEAN

VARIABLES
  xSocket,        \* the socket in use, 0 for FREERTOS_INVALID_SOCKET
  lShuttingDown,
  queue,          \* xSocketPassingQueue
  state,          \* the library's connection state, "STATE_CONNECTED" or not
  nextPing        \* what mqtt_keepalive finds: "always" while keepalive_in_ms is 0, "due", "later"

VARIABLES
  pc,        \* what each task does next
  timer,     \* ticks until a waiting task's time is up
  sending,   \* the socket a task waits for in FreeRTOS_send, or 0
  rxSocket,  \* xSocketTmp of the Receive task
  caught     \* history: was Receive inside a packet when the next round began

VARIABLES
  created,   \* sockets created, numbered from 1; the last one is Connect's
  link,      \* TCP state of each socket
  session,   \* the broker's view of each connection
  inbox      \* CONNACK on its way to the reader of each socket

tasks == <<xSocket, lShuttingDown, queue, state>>
local == <<nextPing, sending, rxSocket, caught>>
net   == <<created, link, session, inbox>>
vars  == <<tasks, nextPing, pc, timer, sending, rxSocket, caught, net>>

Sockets == 1..MaxSockets
Tasks   == {"Connect", "Receive", "Alive", "Publish"}
Urgent  == Tasks \ {"Connect"}

\* Where a task calls socket_write.
Writing == {"c_send", "c_online", "r_subscribe", "a_ping", "p_send"}

Labels == Writing \cup
  {"c_clear", "c_socket", "c_connect", "c_connecting", "c_token1", "c_token2", "c_token3",
   "c_init", "c_store", "c_wait", "c_failed", "c_watch", "c_giveup", "c_flag", "c_close",
   "c_delay", "r_token", "r_test", "r_recv", "r_rest", "a_token", "a_delay", "p_token",
   "p_delay"}

TypeOK ==
  /\ xSocket \in 0..created /\ rxSocket \in 0..created
  /\ lShuttingDown \in BOOLEAN
  /\ queue \in Seq(0..created) /\ Len(queue) <= 1
  /\ state \in {"STATE_DISCONNECTED", "STATE_CONNECTED"} /\ nextPing \in {"always", "due", "later"}
  /\ caught \in BOOLEAN
  /\ pc \in [Tasks -> Labels]
  /\ timer \in [Tasks -> Nat] /\ sending \in [Tasks -> 0..created]
  /\ created \in 0..MaxSockets
  /\ link \in [Sockets -> {"none", "connecting", "open", "silent", "fin", "reset"}]
  /\ session \in [Sockets -> {"none", "asked", "accepted", "refused", "broken"}]
  /\ inbox \in [Sockets -> {"none", "accept", "refuse"}]

Init ==
  /\ xSocket = 0 /\ lShuttingDown = FALSE /\ queue = <<>> /\ state = "STATE_DISCONNECTED"
  /\ nextPing = "always"
  /\ pc = [Connect |-> "c_clear", Receive |-> "r_token", Alive |-> "a_token",
           Publish |-> "p_token"]
  /\ timer = [t \in Tasks |-> 0]
  /\ sending = [t \in Tasks |-> 0] /\ rxSocket = 0 /\ caught = FALSE
  /\ created = 0
  /\ link = [s \in Sockets |-> "none"]
  /\ session = [s \in Sockets |-> "none"]
  /\ inbox = [s \in Sockets |-> "none"]

-----------------------------------------------------------------------------
(* Who runs. *)

LinkOf(s) == IF s = 0 THEN "none" ELSE link[s]

\* recv returns at once: there is something to read, or the connection is gone.
Readable(s) == inbox[s] # "none" \/ link[s] \in {"none", "fin", "reset"}

\* A write that will be repeated: FreeRTOS_send returns 0 after our FIN.
\* So is a recv for the rest of a packet, whatever it returns.
Spins(t) ==
  \/ sending[t] = 0 /\ pc[t] \in Writing /\ LinkOf(xSocket) = "fin"
  \/ pc[t] = "r_rest" /\ link[rxSocket] \in {"fin", "reset"}

Waits(t) ==
  \/ pc[t] \in {"r_token", "a_token", "p_token"} /\ queue = <<>>
  \/ pc[t] \in {"a_delay", "p_delay"} /\ timer[t] > 0
  \/ pc[t] = "r_recv" /\ timer[t] > 0 /\ ~Readable(rxSocket)
  \/ pc[t] = "r_rest" /\ link[rxSocket] \in {"open", "silent"}
  \/ sending[t] # 0 /\ timer[t] > 0 /\ link[sending[t]] = "silent"

\* Connect has the processor when the three urgent tasks wait.
Lowest == \A t \in Urgent : Waits(t)

Goto(t, label) == pc' = [pc EXCEPT ![t] = label]

Sleep(t, label, ticks) ==
  /\ Goto(t, label)
  /\ timer' = [timer EXCEPT ![t] = ticks]

\* FreeRTOS_send waits: the peer is silent and the buffer is full.
WaitToSend(t) ==
  /\ pc[t] \in Writing /\ sending[t] = 0 /\ LinkOf(xSocket) = "silent"
  /\ t = "Connect" => Lowest
  /\ sending' = [sending EXCEPT ![t] = xSocket]
  /\ timer' = [timer EXCEPT ![t] = SendTime]
  /\ UNCHANGED <<tasks, nextPing, pc, rxSocket, caught, net>>

\* time_to_next_ping_in_ms is set to keepalive_in_ms.
PutOff(next) == IF next = "always" THEN next ELSE "later"

\* socket_write, on whatever xSocket is by now, and what the library makes of its
\* value.  A connection that is being opened takes data, too.  A failure gives
\* up the socket that is in use when the send has failed.  Alive and Publish raise
\* lShuttingDown whenever their call fails.  SUBSCRIBE is sent while mqtt_receive
\* runs, which puts the ping off in any case.
Write(t, packet, result) ==
  \E written \in BOOLEAN :
    /\ Garbage \/ result = written
    /\ sending' = [sending EXCEPT ![t] = 0]
    /\ \/ /\ written
          /\ sending[t] = 0 /\ LinkOf(xSocket) \in {"connecting", "open"}
          /\ session' = [session EXCEPT ![xSocket] =
               IF @ # "none" THEN @ ELSE IF packet = "CONNECT" THEN "asked" ELSE "broken"]
          /\ lShuttingDown' = (lShuttingDown \/ (~result /\ t \in {"Alive", "Publish"}))
          /\ UNCHANGED xSocket
       \/ /\ ~written
          /\ IF sending[t] = 0 THEN LinkOf(xSocket) \in {"none", "reset"}
                               ELSE timer[t] = 0 \/ link[sending[t]] # "silent"
          /\ xSocket' = 0 /\ lShuttingDown' = TRUE
          /\ UNCHANGED session
    /\ nextPing' = IF packet = "SUBSCRIBE" \/ (packet # "CONNECT" /\ result)
                     THEN PutOff(nextPing) ELSE nextPing

-----------------------------------------------------------------------------
(* Connect. *)

ClearFlag ==
  /\ pc["Connect"] = "c_clear" /\ Lowest
  /\ lShuttingDown' = FALSE
  /\ caught' = (caught \/ pc["Receive"] = "r_rest")
  /\ Goto("Connect", "c_socket")
  /\ UNCHANGED <<xSocket, queue, state, timer, nextPing, sending, rxSocket, net>>

CreateSocket ==
  /\ pc["Connect"] = "c_socket" /\ Lowest
  /\ created < MaxSockets
  /\ created' = created + 1 /\ xSocket' = created'
  /\ Goto("Connect", "c_connect")
  /\ UNCHANGED <<lShuttingDown, queue, state, timer, local, link, session, inbox>>

\* FreeRTOS_connect is called with what xSocket is now.
StartConnect ==
  /\ pc["Connect"] = "c_connect" /\ Lowest
  /\ IF xSocket = 0
       THEN Goto("Connect", "c_giveup") /\ UNCHANGED <<timer, link>>
       ELSE /\ link' = [link EXCEPT ![xSocket] = "connecting"]
            /\ Sleep("Connect", "c_connecting", RecvTime)
  /\ UNCHANGED <<tasks, local, created, session, inbox>>

EndConnect ==
  /\ pc["Connect"] = "c_connecting" /\ Lowest
  /\ \/ link[created] = "open" /\ Sleep("Connect", "c_token1", 0)
     \/ link[created] \in {"fin", "reset", "silent"} /\ Sleep("Connect", "c_giveup", 0)
     \/ /\ link[created] = "connecting" /\ timer["Connect"] = 0
        /\ Goto("Connect", "c_giveup") /\ UNCHANGED timer
  /\ UNCHANGED <<tasks, local, net>>

\* Fault: the token is queued without a wait for room.
SendTokenAnyway(here, next) ==
  /\ pc["Connect"] = here /\ Lowest
  /\ queue' = Append(queue, xSocket)
  /\ Goto("Connect", next)
  /\ UNCHANGED <<xSocket, lShuttingDown, state, timer, local, net>>

\* xQueueSend(..., portMAX_DELAY) of the value xSocket has by then.
SendToken(here, next) ==
  /\ pc["Connect"] = here /\ Lowest
  /\ queue = <<>>
  /\ queue' = <<xSocket>>
  /\ Goto("Connect", next)
  /\ UNCHANGED <<xSocket, lShuttingDown, state, timer, local, net>>

\* mqtt_connect: ACTION_INIT, CONNECT, the state stored on success, and the
\* test of it at the end (mqtt_sleep(0.1) is no delay on this platform).
InitLibrary ==
  /\ pc["Connect"] = "c_init" /\ Lowest
  /\ state' = "STATE_DISCONNECTED" /\ nextPing' = "always"
  /\ Goto("Connect", "c_send")
  /\ UNCHANGED <<xSocket, lShuttingDown, queue, timer, sending, rxSocket, caught, net>>

SendConnect ==
  /\ pc["Connect"] = "c_send" /\ Lowest
  /\ \E result \in BOOLEAN :
       /\ Write("Connect", "CONNECT", result)
       /\ Sleep("Connect", IF result THEN "c_store" ELSE "c_wait", 0)
       /\ state' = IF result THEN state ELSE "STATE_DISCONNECTED"
  /\ UNCHANGED <<queue, rxSocket, caught, created, link, inbox>>

StoreState ==
  /\ pc["Connect"] = "c_store" /\ Lowest
  /\ state' = "STATE_CONNECTED" /\ nextPing' = "due"
  /\ Goto("Connect", "c_wait")
  /\ UNCHANGED <<xSocket, lShuttingDown, queue, timer, sending, rxSocket, caught, net>>

EndWait ==
  /\ pc["Connect"] = "c_wait" /\ Lowest
  /\ \/ state = "STATE_CONNECTED" /\ Goto("Connect", "c_online") /\ UNCHANGED timer
     \/ state # "STATE_CONNECTED" /\ Sleep("Connect", "c_failed", PublishTime)
  /\ UNCHANGED <<tasks, local, net>>

\* mqtt_publish("state", ...), whose result is not looked at.
SendOnline ==
  /\ pc["Connect"] = "c_online" /\ Lowest
  /\ \/ \E result \in BOOLEAN : Write("Connect", "PUBLISH", result)
     \/ /\ state # "STATE_CONNECTED" /\ sending["Connect"] = 0
        /\ UNCHANGED <<xSocket, lShuttingDown, nextPing, sending, session>>
  /\ Sleep("Connect", "c_watch", 0)
  /\ UNCHANGED <<queue, state, rxSocket, caught, created, link, inbox>>

\* The loop on xSocket ends, or the second after a failed mqtt_connect.
Leave ==
  /\ Lowest
  /\ \/ pc["Connect"] = "c_watch" /\ xSocket = 0
     \/ pc["Connect"] = "c_failed" /\ timer["Connect"] = 0
  /\ Goto("Connect", "c_giveup")
  /\ UNCHANGED <<tasks, timer, local, net>>

GiveUp ==
  /\ pc["Connect"] = "c_giveup" /\ Lowest
  /\ xSocket' = 0
  /\ Goto("Connect", "c_flag")
  /\ UNCHANGED <<lShuttingDown, queue, state, timer, local, net>>

RaiseFlag ==
  /\ pc["Connect"] = "c_flag" /\ Lowest
  /\ lShuttingDown' = TRUE
  /\ Goto("Connect", "c_close")
  /\ UNCHANGED <<xSocket, queue, state, timer, local, net>>

\* Fault: the next socket is opened at once.
CloseWithoutDelay ==
  /\ pc["Connect"] = "c_close" /\ Lowest
  /\ link' = [s \in Sockets |-> IF s = xSocket THEN "reset" ELSE link[s]]
  /\ Sleep("Connect", "c_delay", 0)
  /\ UNCHANGED <<tasks, local, created, session, inbox>>

\* FreeRTOS_shutdown and FreeRTOS_closesocket of xSocket, which is invalid now:
\* both do nothing.
CloseSocket ==
  /\ pc["Connect"] = "c_close" /\ Lowest
  /\ link' = [s \in Sockets |-> IF s = xSocket THEN "reset" ELSE link[s]]
  /\ Sleep("Connect", "c_delay", RetryTime)
  /\ UNCHANGED <<tasks, local, created, session, inbox>>

Retry ==
  /\ pc["Connect"] = "c_delay" /\ timer["Connect"] = 0 /\ Lowest
  /\ Goto("Connect", "c_clear")
  /\ UNCHANGED <<tasks, timer, local, net>>

-----------------------------------------------------------------------------
(* Receive. *)

TakeSocket ==
  /\ pc["Receive"] = "r_token" /\ queue # <<>>
  /\ rxSocket' = Head(queue) /\ queue' = Tail(queue)
  /\ Goto("Receive", "r_test")
  /\ UNCHANGED <<xSocket, lShuttingDown, state, timer, nextPing, sending, caught, net>>

TestShutdown ==
  /\ pc["Receive"] = "r_test"
  /\ IF rxSocket # 0 /\ ~lShuttingDown
       THEN Sleep("Receive", "r_recv", RecvTime)
       ELSE Goto("Receive", "r_token") /\ UNCHANGED timer
  /\ UNCHANGED <<tasks, local, net>>

\* CONNACK: the state follows it, connected_cb subscribes.
ReceivePacket ==
  /\ pc["Receive"] = "r_recv" /\ inbox[rxSocket] # "none"
  /\ inbox' = [inbox EXCEPT ![rxSocket] = "none"]
  /\ timer' = [timer EXCEPT !["Receive"] = 0]
  /\ IF inbox[rxSocket] = "accept"
       THEN state' = "STATE_CONNECTED" /\ Goto("Receive", "r_subscribe") /\ UNCHANGED nextPing
       ELSE /\ state' = "STATE_DISCONNECTED" /\ nextPing' = PutOff(nextPing)
            /\ Goto("Receive", "r_test")
  /\ UNCHANGED <<xSocket, lShuttingDown, queue, sending, rxSocket, caught, created, link, session>>

\* Fault: the test for an error is 0 >= bytes_read.
TimeoutIsError ==
  /\ pc["Receive"] = "r_recv" /\ timer["Receive"] = 0 /\ ~Readable(rxSocket)
  /\ xSocket' = 0 /\ lShuttingDown' = TRUE
  /\ Goto("Receive", "r_test")
  /\ UNCHANGED <<queue, state, timer, local, net>>

\* Nothing has come: recv returns 0, and the loop is entered again.
ReceiveNothing ==
  /\ pc["Receive"] = "r_recv" /\ timer["Receive"] = 0 /\ ~Readable(rxSocket)
  /\ Goto("Receive", "r_test")
  /\ UNCHANGED <<tasks, timer, local, net>>

\* The connection is gone: the socket in use is given up.
ReceiveError ==
  /\ pc["Receive"] = "r_recv" /\ inbox[rxSocket] = "none" /\ Readable(rxSocket)
  /\ xSocket' = 0 /\ lShuttingDown' = TRUE
  /\ Sleep("Receive", "r_test", 0)
  /\ UNCHANGED <<queue, state, local, net>>

\* Part of a PUBLISH.  The loop that reads the rest looks neither at
\* lShuttingDown nor at failures: those are added to the counts.
ReceivePart ==
  /\ pc["Receive"] = "r_recv" /\ link[rxSocket] = "open" /\ session[rxSocket] = "accepted"
  /\ Sleep("Receive", "r_rest", 0)
  /\ UNCHANGED <<tasks, local, net>>

\* The packet is whole and goes to mqtt_receive.
ReceiveRest ==
  /\ pc["Receive"] = "r_rest" /\ link[rxSocket] = "open"
  /\ nextPing' = PutOff(nextPing)
  /\ Goto("Receive", "r_test")
  /\ UNCHANGED <<tasks, timer, sending, rxSocket, caught, net>>

\* mqtt_subscribe in connected_cb, whose result is not looked at.
Subscribe ==
  /\ pc["Receive"] = "r_subscribe"
  /\ \E result \in BOOLEAN : Write("Receive", "SUBSCRIBE", result)
  /\ Sleep("Receive", "r_test", 0)
  /\ UNCHANGED <<queue, state, rxSocket, caught, created, link, inbox>>

ReceiveSteps ==
  TakeSocket \/ TestShutdown \/ ReceivePacket \/ ReceiveNothing \/ ReceiveError
  \/ ReceivePart \/ ReceiveRest \/ Subscribe

-----------------------------------------------------------------------------
(* Alive and Publish: a token starts a loop that only a failure ends. *)

TakeToken(t, here, next, ticks) ==
  /\ pc[t] = here /\ queue # <<>>
  /\ queue' = Tail(queue)
  /\ Sleep(t, next, ticks)
  /\ UNCHANGED <<xSocket, lShuttingDown, state, local, net>>

\* The call that follows fails: lShuttingDown is raised, xSocket left as it is.
Fail(t, token) == Sleep(t, token, 0) /\ lShuttingDown' = TRUE

\* mqtt_keepalive: false if not connected, true if no ping is due.  The time it
\* is told, 45 s of 59.5, leaves none for a second call without a ping.
TestAlive ==
  /\ pc["Alive"] = "a_delay" /\ timer["Alive"] = 0
  /\ \/ state = "STATE_CONNECTED" /\ nextPing # "later" /\ Sleep("Alive", "a_ping", 0)
        /\ UNCHANGED <<lShuttingDown, nextPing>>
     \/ state = "STATE_CONNECTED" /\ nextPing = "later" /\ Sleep("Alive", "a_delay", AliveTime)
        /\ nextPing' = "due" /\ UNCHANGED lShuttingDown
     \/ state # "STATE_CONNECTED" /\ Fail("Alive", "a_token") /\ UNCHANGED nextPing
  /\ UNCHANGED <<xSocket, queue, state, sending, rxSocket, caught, net>>

TestPublish ==
  /\ pc["Publish"] = "p_delay" /\ timer["Publish"] = 0
  /\ \/ state = "STATE_CONNECTED" /\ Sleep("Publish", "p_send", 0) /\ UNCHANGED lShuttingDown
     \/ state # "STATE_CONNECTED" /\ Fail("Publish", "p_token")
  /\ UNCHANGED <<xSocket, queue, state, local, net>>

SendPacket(t, here, packet, next, ticks, token) ==
  /\ pc[t] = here
  /\ \/ Write(t, packet, TRUE) /\ Sleep(t, next, ticks)
     \/ Write(t, packet, FALSE) /\ Sleep(t, token, 0)
  /\ UNCHANGED <<queue, state, rxSocket, caught, created, link, inbox>>

AliveSteps ==
  \/ TakeToken("Alive", "a_token", "a_delay", AliveTime)
  \/ TestAlive
  \/ SendPacket("Alive", "a_ping", "PINGREQ", "a_delay", AliveTime, "a_token")

PublishSteps ==
  \/ TakeToken("Publish", "p_token", "p_delay", PublishTime)
  \/ TestPublish
  \/ SendPacket("Publish", "p_send", "PUBLISH", "p_delay", PublishTime, "p_token")

-----------------------------------------------------------------------------
(* Time, the network and the broker. *)

\* Time passes while the urgent tasks wait, or send in vain; Connect may be slow.
Tick ==
  /\ \A t \in Urgent : Waits(t) \/ Spins(t)
  /\ \E t \in Tasks : timer[t] > 0
  /\ timer' = [t \in Tasks |-> IF timer[t] > 0 THEN timer[t] - 1 ELSE 0]
  /\ UNCHANGED <<tasks, pc, local, net>>

Established(s) ==
  /\ link[s] = "connecting"
  /\ link' = [link EXCEPT ![s] = "open"]
  /\ UNCHANGED <<tasks, pc, timer, local, created, session, inbox>>

\* A refusal, a reset, a FIN of the broker, or silence.
LinkFails(s) ==
  /\ \E fate \in {"silent", "fin", "reset"} :
       /\ link[s] \in {"open"} \cup (IF fate = "reset" THEN {"connecting", "silent"} ELSE {})
       /\ link' = [link EXCEPT ![s] = fate]
  /\ UNCHANGED <<tasks, pc, timer, local, created, session, inbox>>

Answers(s) ==
  /\ link[s] = "open" /\ session[s] = "asked"
  /\ \/ session' = [session EXCEPT ![s] = "accepted"] /\ inbox' = [inbox EXCEPT ![s] = "accept"]
     \/ session' = [session EXCEPT ![s] = "refused"] /\ inbox' = [inbox EXCEPT ![s] = "refuse"]
  /\ UNCHANGED <<tasks, pc, timer, local, created, link>>

\* The broker closes a connection it has refused, or whose first packet is not
\* CONNECT.
Hangup(s) ==
  /\ link[s] = "open" /\ session[s] \in {"refused", "broken"}
  /\ link' = [link EXCEPT ![s] = "fin"]
  /\ UNCHANGED <<tasks, pc, timer, local, created, session, inbox>>

-----------------------------------------------------------------------------
ConnectSteps ==
  \/ ClearFlag \/ CreateSocket \/ StartConnect \/ EndConnect
  \/ SendToken("c_token1", "c_token2") \/ SendToken("c_token2", "c_token3")
  \/ SendToken("c_token3", "c_init")
  \/ InitLibrary \/ SendConnect \/ StoreState \/ EndWait \/ SendOnline
  \/ Leave \/ GiveUp \/ RaiseFlag \/ CloseSocket \/ Retry

Next ==
  \/ ConnectSteps \/ ReceiveSteps \/ AliveSteps \/ PublishSteps
  \/ \E t \in Tasks : WaitToSend(t)
  \/ Tick
  \/ \E s \in Sockets : Established(s) \/ LinkFails(s) \/ Answers(s) \/ Hangup(s)

Spec == Init /\ [][Next]_vars

FairSpec ==
  /\ Spec
  /\ SF_vars(ConnectSteps) /\ WF_vars(ReceiveSteps)
  /\ WF_vars(AliveSteps) /\ WF_vars(PublishSteps)
  /\ WF_vars(Tick)
  /\ \A s \in Sockets : WF_vars(Hangup(s))

-----------------------------------------------------------------------------
(* Properties. *)

\* What is checked says nothing of a Receive task that was caught inside a packet.
Uncaught == ~caught

\* The Receive task reads the newest socket only: it has left the last one, and
\* no token with an old socket is left in the queue, by the time Connect has
\* opened another and lowered lShuttingDown again.
FreshReader == ~caught /\ pc["Receive"] \in {"r_recv", "r_subscribe"} => rxSocket = created

\* No late failure of an old socket, in a recv or in a send that was waiting when
\* it was given up, costs the connection that has replaced it.
HealthyKept ==
  [][~caught /\ pc["Connect"] = "c_watch" /\ LinkOf(xSocket) = "open" => UNCHANGED xSocket]_vars

\* When the tasks are told that the socket is about to be shut down, Connect,
\* which watches it, does give it up.
ShutdownFollows ==
  pc["Connect"] = "c_watch" /\ lShuttingDown ~> pc["Connect"] = "c_giveup"

=============================================================================
