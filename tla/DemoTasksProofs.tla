--------------------------- MODULE DemoTasksProofs ---------------------------
(***************************************************************************)
(* The tasks of the FreeRTOS example when a round is given up and the next *)
(* begins: whoever still waits in a call on the old socket is out of it    *)
(* before lShuttingDown is lowered again.                                  *)
(***************************************************************************)
EXTENDS DemoTasks, TLAPS

\* Connect waits longer than a recv or a send does (TCPEchoClient_SeparateTasks.c 124, 125,
\* 347: 0.5 s and 2 s against 5 s).
Patient == RecvTime <= RetryTime /\ SendTime <= RetryTime

-----------------------------------------------------------------------------
(* The inductive invariant. *)

ReceiveLabels == {"r_token", "r_test", "r_recv", "r_rest", "r_subscribe"}
AliveLabels   == {"a_token", "a_delay", "a_ping"}
PublishLabels == {"p_token", "p_delay", "p_send"}

\* Each task is in its own code.
LabelInv ==
  /\ pc["Receive"] \in ReceiveLabels
  /\ pc["Alive"] \in AliveLabels
  /\ pc["Publish"] \in PublishLabels
  /\ pc["Connect"] \in Labels \ (ReceiveLabels \cup AliveLabels \cup PublishLabels)

\* From giving a socket up to opening the next there is none, and until the flag is lowered
\* the tasks are told so.
Closing == {"c_close", "c_delay", "c_clear"}
Down    == {"c_flag", "c_socket"} \cup Closing

SocketInv ==
  /\ xSocket \in {0, created}
  /\ pc["Connect"] \in Down => xSocket = 0
  /\ pc["Connect"] \in Closing => lShuttingDown \/ created = 0

\* A task waits in FreeRTOS_send on a peer that has fallen silent, which can only be reset.
SendInv ==
  /\ \A s \in Sockets : s > created => link[s] = "none"
  /\ pc["Connect"] = "c_connect" => LinkOf(created) = "none"
  /\ \A t \in Tasks : sending[t] # 0 =>
       pc[t] \in Writing /\ timer[t] <= SendTime /\ link[sending[t]] \in {"silent", "reset"}

ReadInv ==
  /\ pc["Receive"] \in {"r_recv", "r_subscribe"} => rxSocket # 0
  /\ pc["Receive"] = "r_recv" => timer["Receive"] <= RecvTime

\* No task has anything to do with a socket other than the last one.
NewestInv ==
  /\ \A i \in DOMAIN queue : queue[i] \in {0, created}
  /\ pc["Receive"] # "r_token" => rxSocket \in {0, created}
  /\ \A t \in Tasks : sending[t] \in {0, created}

\* While Connect waits, a call on the old socket has no more time than Connect has; when it
\* is over, no task is in one; and when the flag is lowered, no task has the old socket.
PatienceInv ==
  /\ pc["Connect"] = "c_delay" =>
       /\ pc["Receive"] = "r_recv" => timer["Receive"] + RetryTime <= RecvTime + timer["Connect"]
       /\ \A t \in Urgent : sending[t] # 0 => timer[t] + RetryTime <= SendTime + timer["Connect"]
  /\ pc["Connect"] = "c_clear" => pc["Receive"] # "r_recv" /\ \A t \in Urgent : sending[t] = 0
  /\ pc["Connect"] = "c_socket" =>
       queue = <<>> /\ pc["Receive"] = "r_token" /\ \A t \in Urgent : sending[t] = 0

DemoInv ==
  /\ TypeOK /\ LabelInv /\ SocketInv /\ SendInv /\ ReadInv
  /\ Patient /\ ~caught => NewestInv /\ PatienceInv

-----------------------------------------------------------------------------
(* Types, and what a step of one task does to the program counters and timers. *)

ControlType == pc \in [Tasks -> Labels] /\ timer \in [Tasks -> Nat]

DataType ==
  /\ xSocket \in 0..created /\ rxSocket \in 0..created
  /\ lShuttingDown \in BOOLEAN
  /\ queue \in Seq(0..created) /\ Len(queue) <= 1
  /\ state \in {"STATE_DISCONNECTED", "STATE_CONNECTED"} /\ nextPing \in {"always", "due", "later"}
  /\ caught \in BOOLEAN
  /\ sending \in [Tasks -> 0..created]
  /\ created \in 0..MaxSockets
  /\ link \in [Sockets -> {"none", "connecting", "open", "silent", "fin", "reset"}]
  /\ session \in [Sockets -> {"none", "asked", "accepted", "refused", "broken"}]
  /\ inbox \in [Sockets -> {"none", "accept", "refuse"}]

LEMMA PutOffType == \A next \in {"always", "due", "later"} : PutOff(next) \in {"always", "later"}
BY DEF PutOff

LEMMA TypeParts == TypeOK <=> ControlType /\ DataType
BY DEF TypeOK, ControlType, DataType

\* Task t goes from one label to another, and its time is set to ticks.
Moves(t, from, to, ticks) ==
  /\ pc[t] = from /\ pc'[t] = to /\ timer'[t] = ticks
  /\ ControlType'
  /\ \A u \in Tasks \ {t} : pc'[u] = pc[u] /\ timer'[u] = timer[u]

LEMMA GotoMoves ==
  ASSUME ControlType, NEW t \in Tasks, NEW to \in Labels, Goto(t, to), UNCHANGED timer
  PROVE  Moves(t, pc[t], to, timer[t])
BY DEF ControlType, Goto, Moves

LEMMA SleepMoves ==
  ASSUME ControlType, NEW t \in Tasks, NEW to \in Labels, NEW ticks \in Nat, Sleep(t, to, ticks)
  PROVE  Moves(t, pc[t], to, ticks)
BY DEF ControlType, Sleep, Goto, Moves

LEMMA TaskNames ==
  /\ "Connect" \in Tasks /\ "Receive" \in Tasks /\ "Alive" \in Tasks /\ "Publish" \in Tasks
  /\ Urgent \subseteq Tasks
  /\ \A t \in Tasks : t \in {"Connect", "Receive", "Alive", "Publish"}
  /\ \A t \in Urgent : t \in {"Receive", "Alive", "Publish"}
BY DEF Tasks, Urgent

ConnectLabels == Labels \ (ReceiveLabels \cup AliveLabels \cup PublishLabels)
Young == ConnectLabels \ Down

\* Connect goes on in its round, and changes nothing the others look at.
LEMMA ConnectGoes ==
  ASSUME DemoInv, NEW from \in Young \ Writing, NEW to \in Young \ {"c_connect"}, NEW ticks,
         Moves("Connect", from, to, ticks), DataType',
         UNCHANGED <<xSocket, lShuttingDown, queue, sending, rxSocket, caught, created, link>>
  PROVE  DemoInv'
<1> USE TaskNames
<1>1. TypeOK'
  BY TypeParts DEF Moves, TypeOK, ControlType, DataType
<1>2. LabelInv'
  BY DEF DemoInv, LabelInv, Moves, Young, ConnectLabels
<1>3. SocketInv'
  BY DEF DemoInv, SocketInv, Moves, Young, Down
<1>4. SendInv'
  BY DEF DemoInv, SendInv, Moves, LinkOf
<1>5. ReadInv'
  BY DEF DemoInv, ReadInv, Moves
<1>6. Patient /\ ~caught => NewestInv'
  BY DEF DemoInv, NewestInv, Moves
<1>7. PatienceInv'
  BY DEF PatienceInv, Moves, Young, Down, Closing
<1> QED  BY <1>1, <1>2, <1>3, <1>4, <1>5, <1>6, <1>7 DEF DemoInv

\* Alive or Publish goes on outside a send, and may take a token or raise the flag.
LEMMA OtherGoes ==
  ASSUME DemoInv, NEW t \in {"Alive", "Publish"}, NEW from \in Labels \ Writing,
         NEW to \in Labels, NEW ticks, t = "Alive" => to \in AliveLabels, t = "Publish" => to \in PublishLabels,
         Moves(t, from, to, ticks), DataType',
         lShuttingDown' \in {lShuttingDown, TRUE}, queue' = queue \/ (queue # <<>> /\ queue' = Tail(queue)),
         UNCHANGED <<xSocket, sending, rxSocket, caught, created, link>>
  PROVE  DemoInv'
<1> USE TaskNames
<1>1. TypeOK'
  BY TypeParts DEF Moves, TypeOK, ControlType, DataType
<1>2. LabelInv'
  BY DEF DemoInv, LabelInv, Moves
<1>3. SocketInv'
  BY DEF DemoInv, SocketInv, Moves
<1>4. SendInv'
  BY DEF DemoInv, SendInv, Moves, LinkOf
<1>5. ReadInv'
  BY DEF DemoInv, ReadInv, Moves
<1>6. Patient /\ ~caught => NewestInv'
  <2>1. queue \in Seq(0..created) /\ Len(queue) <= 1
    BY DEF DemoInv, TypeOK
  <2>2. \A i \in DOMAIN queue' : i \in DOMAIN queue \/ i + 1 \in DOMAIN queue
    BY <2>1
  <2>3. (\A i \in DOMAIN queue : queue[i] \in {0, created}) => \A i \in DOMAIN queue' : queue'[i] \in {0, created}
    BY <2>1
  <2> QED  BY <2>3 DEF DemoInv, NewestInv, Moves
<1>7. Patient /\ ~caught => PatienceInv'
  <2>1. queue = <<>> => queue' = <<>>
    OBVIOUS
  <2>2. sending[t] = 0
    BY DEF DemoInv, SendInv, Moves
  <2> QED  BY <2>1, <2>2 DEF DemoInv, PatienceInv, Moves
<1> QED  BY <1>1, <1>2, <1>3, <1>4, <1>5, <1>6, <1>7 DEF DemoInv

\* Receive goes on outside a send; it reads only while the flag is down.
LEMMA ReceiveGoes ==
  ASSUME DemoInv, NEW from \in {"r_test", "r_recv", "r_rest"}, NEW to \in ReceiveLabels, NEW ticks,
         Moves("Receive", from, to, ticks), DataType',
         to = "r_recv" => ~lShuttingDown /\ rxSocket # 0 /\ ticks = RecvTime /\ from = "r_test",
         to = "r_subscribe" => from = "r_recv",
         lShuttingDown' \in {lShuttingDown, TRUE}, xSocket' \in {xSocket, 0},
         UNCHANGED <<queue, sending, rxSocket, caught, created, link>>
  PROVE  DemoInv'
<1> USE TaskNames
<1>1. TypeOK'
  BY TypeParts DEF Moves, TypeOK, ControlType, DataType
<1>2. LabelInv'
  BY DEF DemoInv, LabelInv, Moves
<1>3. SocketInv'
  BY DEF DemoInv, SocketInv, Moves
<1>4. SendInv'
  BY DEF DemoInv, SendInv, Moves, LinkOf, Writing
<1>5. ReadInv'
  BY TimeAssumption DEF DemoInv, ReadInv, Moves
<1>6. Patient /\ ~caught => NewestInv'
  BY DEF DemoInv, NewestInv, Moves
<1>7. Patient /\ ~caught => PatienceInv'
  <2>1. sending["Receive"] = 0
    BY DEF DemoInv, SendInv, Moves, Writing
  <2>2. Patient /\ ~caught /\ created = 0 => to # "r_recv"
    BY DEF DemoInv, NewestInv, Moves
  <2>3. Patient /\ ~caught /\ pc["Connect"] \in Closing => to # "r_recv"
    BY <2>2 DEF DemoInv, SocketInv
  <2> QED  BY <2>1, <2>3 DEF DemoInv, PatienceInv, Moves, Closing
<1> QED  BY <1>1, <1>2, <1>3, <1>4, <1>5, <1>6, <1>7 DEF DemoInv

\* A call of socket_write ends, and the task goes on.
LEMMA Writes ==
  ASSUME DemoInv, NEW t \in Tasks, NEW packet, NEW result \in BOOLEAN, Write(t, packet, result),
         NEW from \in Writing, NEW to \in Labels, NEW ticks, Moves(t, from, to, ticks),
         t = "Connect" => from \in Young /\ to \in Young \ {"c_connect"},
         t = "Receive" => to = "r_test",
         t = "Alive" => to \in AliveLabels,
         t = "Publish" => to \in PublishLabels,
         state' \in {"STATE_DISCONNECTED", "STATE_CONNECTED"},
         UNCHANGED <<queue, rxSocket, caught, created, link, inbox>>
  PROVE  DemoInv'
<1> USE TaskNames
<1> DEFINE gone == xSocket' = 0 /\ lShuttingDown' = TRUE /\ session' = session
           kept == /\ xSocket' = xSocket /\ lShuttingDown' \in {lShuttingDown, TRUE}
                   /\ session' \in [Sockets -> {"none", "asked", "accepted", "refused", "broken"}]
<1>0. TypeOK
  BY DEF DemoInv
<1>1. /\ sending' = [sending EXCEPT ![t] = 0]
      /\ gone \/ kept
      /\ nextPing' \in {"always", "due", "later"}
  <2>1. PICK written \in BOOLEAN :
          /\ sending' = [sending EXCEPT ![t] = 0]
          /\ \/ /\ sending[t] = 0 /\ LinkOf(xSocket) \in {"connecting", "open"}
                /\ session' = [session EXCEPT ![xSocket] =
                     IF @ # "none" THEN @ ELSE IF packet = "CONNECT" THEN "asked" ELSE "broken"]
                /\ lShuttingDown' = (lShuttingDown \/ (~result /\ t \in {"Alive", "Publish"}))
                /\ UNCHANGED xSocket
             \/ xSocket' = 0 /\ lShuttingDown' = TRUE /\ UNCHANGED session
          /\ nextPing' \in {nextPing, PutOff(nextPing)}
    BY DEF Write
  <2>2. nextPing' \in {"always", "due", "later"}
    BY <1>0, <2>1, PutOffType DEF TypeOK
  <2>3. session \in [Sockets -> {"none", "asked", "accepted", "refused", "broken"}] /\ lShuttingDown \in BOOLEAN
    BY <1>0 DEF TypeOK
  <2>4. CASE xSocket' = 0 /\ lShuttingDown' = TRUE /\ UNCHANGED session
    BY <2>1, <2>2, <2>4
  <2>5. CASE /\ session' = [session EXCEPT ![xSocket] =
                    IF @ # "none" THEN @ ELSE IF packet = "CONNECT" THEN "asked" ELSE "broken"]
             /\ lShuttingDown' = (lShuttingDown \/ (~result /\ t \in {"Alive", "Publish"}))
             /\ UNCHANGED xSocket
    <3>1. session' \in [Sockets -> {"none", "asked", "accepted", "refused", "broken"}]
      BY <2>3, <2>5
    <3>2. lShuttingDown' \in {lShuttingDown, TRUE}
      BY <2>3, <2>5
    <3> QED  BY <2>1, <2>2, <2>5, <3>1, <3>2
  <2> QED  BY <2>1, <2>4, <2>5
<1>2. DataType'
  <2>1. /\ xSocket' \in 0..created /\ lShuttingDown' \in BOOLEAN
        /\ session' \in [Sockets -> {"none", "asked", "accepted", "refused", "broken"}]
    <3>1. /\ xSocket \in 0..created /\ created \in Nat /\ lShuttingDown \in BOOLEAN
          /\ session \in [Sockets -> {"none", "asked", "accepted", "refused", "broken"}]
      BY <1>0, SocketsAssumption DEF TypeOK
    <3>2. CASE gone
      BY <3>1, <3>2
    <3>3. CASE kept
      BY <3>1, <3>3
    <3> QED  BY <1>1, <3>2, <3>3
  <2>2. sending' \in [Tasks -> 0..created]
    BY <1>0, <1>1 DEF TypeOK
  <2> HIDE DEF gone, kept
  <2> QED  BY <1>0, <1>1, <2>1, <2>2 DEF TypeOK, DataType
<1> HIDE DEF gone, kept
<1>3. /\ xSocket' \in {xSocket, 0} /\ lShuttingDown' \in {lShuttingDown, TRUE}
      /\ sending'[t] = 0 /\ \A u \in Tasks \ {t} : sending'[u] = sending[u]
  BY <1>0, <1>1 DEF gone, kept, TypeOK
<1>4. TypeOK'
  BY <1>2, TypeParts DEF Moves, TypeOK, ControlType, DataType
<1>5. LabelInv'
  BY DEF DemoInv, LabelInv, Moves, Young, ConnectLabels, ReceiveLabels
<1>6. SocketInv'
  <2>1. xSocket' \in {0, created'} /\ (xSocket = 0 => xSocket' = 0)
    BY <1>3 DEF DemoInv, SocketInv
  <2>2. pc["Connect"]' \in Down => pc["Connect"] \in Down /\ pc["Connect"]' = pc["Connect"]
    BY DEF Moves, Young
  <2>3. lShuttingDown => lShuttingDown'
    BY <1>3
  <2> QED  BY <2>1, <2>2, <2>3 DEF DemoInv, SocketInv, Down
<1>7. SendInv'
  BY <1>3 DEF DemoInv, SendInv, Moves, LinkOf
<1>8. ReadInv'
  BY DEF DemoInv, ReadInv, Moves
<1>9. Patient /\ ~caught => NewestInv'
  <2>1. t = "Receive" => pc["Receive"] # "r_token"
    BY DEF Moves, Writing
  <2> QED  BY <1>3, <2>1 DEF DemoInv, NewestInv, Moves
<1>10. Patient /\ ~caught => PatienceInv'
  <2>1. pc["Receive"] = "r_token" => t # "Receive"
    BY DEF Moves, Writing
  <2> QED  BY <1>3, <2>1 DEF DemoInv, PatienceInv, Moves, Young, Down, Closing
<1> QED  BY <1>4, <1>5, <1>6, <1>7, <1>8, <1>9, <1>10 DEF DemoInv

-----------------------------------------------------------------------------
(* The steps of Connect. *)

LEMMA ConnectStep ==
  ASSUME DemoInv, ConnectSteps
  PROVE  DemoInv'
<1> USE TaskNames
<1>0. TypeOK /\ ControlType /\ DataType
  BY TypeParts DEF DemoInv
<1>1. CASE ClearFlag
  <2>1. Moves("Connect", "c_clear", "c_socket", timer["Connect"])
    BY <1>0, <1>1, GotoMoves DEF ClearFlag, Labels
  <2>2. DataType'
    BY <1>0, <1>1 DEF ClearFlag, DataType, net
  <2>3. TypeOK'
    BY <2>1, <2>2, TypeParts DEF Moves, TypeOK, ControlType, DataType
  <2>4. LabelInv'
    BY <2>1 DEF DemoInv, LabelInv, Moves, Labels, ReceiveLabels, AliveLabels, PublishLabels
  <2>5. SocketInv' /\ SendInv' /\ ReadInv'
    BY <1>1, <2>1 DEF ClearFlag, net, DemoInv, SocketInv, SendInv, ReadInv, Moves, Down, Closing, LinkOf, Writing
  <2>6. Patient /\ ~caught' => ~caught /\ pc["Receive"] # "r_rest"
    BY <1>0, <1>1 DEF ClearFlag, TypeOK
  <2>7. Patient /\ ~caught' => NewestInv'
    BY <1>1, <2>1, <2>6 DEF ClearFlag, net, DemoInv, NewestInv, Moves
  <2>8. Patient /\ ~caught' => PatienceInv'
    <3> SUFFICES ASSUME Patient, ~caught' PROVE PatienceInv'
      OBVIOUS
    <3>1. pc["Receive"] # "r_recv" /\ \A t \in Urgent : sending[t] = 0
      BY <1>1, <2>6 DEF ClearFlag, DemoInv, PatienceInv
    <3>2. Waits("Receive") /\ "Receive" \in Urgent
      BY <1>1 DEF ClearFlag, Lowest, Urgent, Tasks
    <3>3. pc["Receive"] \in ReceiveLabels
      BY DEF DemoInv, LabelInv
    <3>4. pc["Receive"] = "r_token" /\ queue = <<>>
      BY <2>6, <3>1, <3>2, <3>3 DEF Waits, ReceiveLabels
    <3> QED  BY <1>1, <2>1, <3>1, <3>4 DEF ClearFlag, net, PatienceInv, Moves
  <2> QED  BY <2>3, <2>4, <2>5, <2>7, <2>8 DEF DemoInv
<1>2. CASE CreateSocket
  <2>1. Moves("Connect", "c_socket", "c_connect", timer["Connect"])
    BY <1>0, <1>2, GotoMoves DEF CreateSocket, Labels
  <2>2. /\ created' = created + 1 /\ xSocket' = created' /\ created < MaxSockets /\ xSocket = 0
        /\ UNCHANGED <<lShuttingDown, queue, state, nextPing, sending, rxSocket, caught, link, session, inbox>>
    BY <1>2 DEF CreateSocket, local, DemoInv, SocketInv, Down
  <2>3. DataType'
    <3>1. created \in Nat /\ created' \in 0..MaxSockets /\ 0..created \subseteq 0..created'
      BY <1>0, <2>2, SocketsAssumption DEF DataType
    <3>2. xSocket' \in 0..created' /\ rxSocket' \in 0..created'
      BY <1>0, <2>2, <3>1 DEF DataType
    <3>3. queue' \in Seq(0..created') /\ Len(queue') <= 1
      BY <1>0, <2>2, <3>1 DEF DataType
    <3>4. sending' \in [Tasks -> 0..created']
      BY <1>0, <2>2, <3>1 DEF DataType
    <3> QED  BY <1>0, <2>2, <3>1, <3>2, <3>3, <3>4 DEF DataType
  <2>4. TypeOK'
    BY <2>1, <2>3, TypeParts DEF Moves, TypeOK, ControlType, DataType
  <2>5. LabelInv'
    BY <2>1 DEF DemoInv, LabelInv, Moves, Labels, ReceiveLabels, AliveLabels, PublishLabels
  <2>6. SocketInv' /\ ReadInv'
    BY <2>1, <2>2 DEF DemoInv, SocketInv, ReadInv, Moves, Down, Closing
  <2>7. SendInv'
    <3>1. created \in Nat /\ created' \in Sockets /\ created' # 0 /\ created' > created
      BY <1>0, <2>2, SocketsAssumption DEF DataType, Sockets
    <3>2. \A s \in Sockets : s > created' => s > created
      BY <2>2, <3>1, SocketsAssumption DEF Sockets
    <3> QED  BY <2>1, <2>2, <3>1, <3>2 DEF DemoInv, SendInv, Moves, LinkOf, Writing
  <2>8. Patient /\ ~caught => NewestInv'
    <3> SUFFICES ASSUME Patient, ~caught PROVE NewestInv'
      OBVIOUS
    <3>1. queue = <<>> /\ pc["Receive"] = "r_token" /\ \A t \in Urgent : sending[t] = 0
      BY <2>1 DEF DemoInv, PatienceInv, Moves
    <3>2. sending["Connect"] = 0
      BY <2>1 DEF DemoInv, SendInv, Moves, Writing
    <3>3. \A t \in Tasks : sending'[t] \in {0, created'}
      BY <2>2, <3>1, <3>2 DEF Urgent
    <3>4. pc'["Receive"] = "r_token" /\ \A i \in DOMAIN queue' : queue'[i] \in {0, created'}
      BY <2>1, <2>2, <3>1 DEF Moves
    <3> QED  BY <3>3, <3>4 DEF NewestInv
  <2>9. PatienceInv'
    BY <2>1 DEF PatienceInv, Moves
  <2> QED  BY <2>2, <2>4, <2>5, <2>6, <2>7, <2>8, <2>9 DEF DemoInv
<1>3. CASE StartConnect
  <2>1. CASE xSocket = 0
    <3>1. Moves("Connect", "c_connect", "c_giveup", timer["Connect"])
      BY <1>0, <1>3, <2>1, GotoMoves DEF StartConnect, Labels
    <3>2. UNCHANGED <<xSocket, lShuttingDown, queue, state, nextPing, sending, rxSocket, caught, created, link,
                      session, inbox>>
      BY <1>3, <2>1 DEF StartConnect, tasks, local
    <3>3. DataType'
      BY <1>0, <3>2 DEF DataType
    <3> QED  BY <3>1, <3>2, <3>3, ConnectGoes DEF Young, ConnectLabels, Labels, Down, Closing, Writing,
                  ReceiveLabels, AliveLabels, PublishLabels
  <2>2. CASE xSocket # 0
    <3>1. Moves("Connect", "c_connect", "c_connecting", RecvTime)
      <4>1. RecvTime \in Nat /\ "c_connecting" \in Labels
        BY TimeAssumption DEF Labels
      <4>2. pc["Connect"] = "c_connect" /\ Sleep("Connect", "c_connecting", RecvTime)
        BY <1>3, <2>2 DEF StartConnect
      <4> QED  BY <1>0, <4>1, <4>2, SleepMoves
    <3>2. /\ UNCHANGED <<xSocket, lShuttingDown, queue, state, nextPing, sending, rxSocket, caught, created,
                         session, inbox>>
          /\ link' = [link EXCEPT ![xSocket] = "connecting"]
      BY <1>3, <2>2 DEF StartConnect, tasks, local
    <3>3. xSocket = created /\ created \in Sockets /\ link[created] = "none"
      BY <1>0, <2>2, <3>1, SocketsAssumption DEF DemoInv, SocketInv, SendInv, LinkOf, Moves, DataType, Sockets
    <3>4. DataType'
      BY <1>0, <3>2, <3>3 DEF DataType
    <3>5. TypeOK'
      BY <3>1, <3>4, TypeParts DEF Moves, TypeOK, ControlType, DataType
    <3>6. LabelInv'
      BY <3>1 DEF DemoInv, LabelInv, Moves, Labels, ReceiveLabels, AliveLabels, PublishLabels
    <3>7. SocketInv' /\ ReadInv'
      BY <3>1, <3>2 DEF DemoInv, SocketInv, ReadInv, Moves, Down, Closing
    <3>8. SendInv'
      <4>1. \A s \in Sockets : link'[s] = IF s = created THEN "connecting" ELSE link[s]
        BY <1>0, <3>2, <3>3 DEF DataType
      <4>2. \A s \in Sockets : s > created => s # created
        BY <3>3, SocketsAssumption DEF Sockets
      <4>3. \A t \in Tasks : sending[t] # 0 => sending[t] \in Sockets
        BY <1>0, SocketsAssumption DEF DataType, Sockets
      <4>4. \A t \in Tasks : sending[t] # created
        <5>1. created # 0
          BY <3>3 DEF Sockets
        <5> QED  BY <3>3, <5>1 DEF DemoInv, SendInv
      <4> QED  BY <3>1, <3>2, <4>1, <4>2, <4>3, <4>4 DEF DemoInv, SendInv, Moves, Writing
    <3>9. Patient /\ ~caught => NewestInv' /\ PatienceInv'
      BY <3>1, <3>2 DEF DemoInv, NewestInv, PatienceInv, Moves
    <3> QED  BY <3>2, <3>5, <3>6, <3>7, <3>8, <3>9 DEF DemoInv
  <2> QED  BY <2>1, <2>2
<1>4. CASE EndConnect
  <2>1. \E to \in {"c_token1", "c_giveup"} : \E ticks \in {0, timer["Connect"]} : Moves("Connect", "c_connecting", to, ticks)
    <3>1. "c_token1" \in Labels /\ "c_giveup" \in Labels /\ 0 \in Nat
      BY DEF Labels
    <3>2. \/ Sleep("Connect", "c_token1", 0) \/ Sleep("Connect", "c_giveup", 0)
          \/ Goto("Connect", "c_giveup") /\ UNCHANGED timer
      BY <1>4 DEF EndConnect
    <3>3. pc["Connect"] = "c_connecting"
      BY <1>4 DEF EndConnect
    <3> QED  BY <1>0, <3>1, <3>2, <3>3, GotoMoves, SleepMoves
  <2>2. UNCHANGED <<xSocket, lShuttingDown, queue, state, nextPing, sending, rxSocket, caught, created, link,
                    session, inbox>>
    BY <1>4 DEF EndConnect, tasks, local, net
  <2>3. DataType'
    BY <1>0, <2>2 DEF DataType
  <2> QED  BY <2>1, <2>2, <2>3, ConnectGoes DEF Young, ConnectLabels, Labels, Down, Closing, Writing,
                ReceiveLabels, AliveLabels, PublishLabels
<1>5. CASE SendToken("c_token1", "c_token2") \/ SendToken("c_token2", "c_token3") \/ SendToken("c_token3", "c_init")
  <2>1. PICK from \in {"c_token1", "c_token2", "c_token3"}, to \in {"c_token2", "c_token3", "c_init"} : SendToken(from, to)
    BY <1>5
  <2>2. to \in Labels
    BY DEF Labels
  <2>3. Moves("Connect", from, to, timer["Connect"])
    BY <1>0, <2>1, <2>2, GotoMoves DEF SendToken
  <2>4. /\ queue' = <<xSocket>>
        /\ UNCHANGED <<xSocket, lShuttingDown, state, nextPing, sending, rxSocket, caught, created, link,
                       session, inbox>>
    BY <2>1 DEF SendToken, local, net
  <2>5. queue' \in Seq(0..created) /\ Len(queue') = 1 /\ queue'[1] = xSocket /\ DOMAIN queue' = {1}
    BY <1>0, <2>4 DEF DataType
  <2>6. DataType'
    BY <1>0, <2>4, <2>5 DEF DataType
  <2>7. TypeOK'
    BY <2>3, <2>6, TypeParts DEF Moves, TypeOK, ControlType, DataType
  <2>8. LabelInv'
    BY <2>3 DEF DemoInv, LabelInv, Moves, Labels, ReceiveLabels, AliveLabels, PublishLabels
  <2>9. SocketInv' /\ SendInv' /\ ReadInv'
    BY <2>3, <2>4 DEF DemoInv, SocketInv, SendInv, ReadInv, Moves, Down, Closing, LinkOf, Writing
  <2>10. Patient /\ ~caught => NewestInv'
    <3>1. \A i \in DOMAIN queue' : queue'[i] \in {0, created}
      BY <2>5 DEF DemoInv, SocketInv
    <3> QED  BY <2>3, <2>4, <3>1 DEF DemoInv, NewestInv, Moves
  <2>11. PatienceInv'
    BY <2>3 DEF PatienceInv, Moves
  <2> QED  BY <2>4, <2>7, <2>8, <2>9, <2>10, <2>11 DEF DemoInv
<1>6. CASE InitLibrary \/ StoreState \/ EndWait \/ Leave
  <2>1. \E from \in {"c_init", "c_store", "c_wait", "c_watch", "c_failed"} :
        \E to \in {"c_send", "c_wait", "c_online", "c_failed", "c_giveup"} :
        \E ticks \in Nat : Moves("Connect", from, to, ticks)
    <3>1. /\ "c_send" \in Labels /\ "c_wait" \in Labels /\ "c_online" \in Labels
          /\ "c_failed" \in Labels /\ "c_giveup" \in Labels
      BY DEF Labels, Writing
    <3>2. PublishTime \in Nat /\ timer["Connect"] \in Nat
      BY <1>0, TimeAssumption DEF ControlType
    <3>3. pc["Connect"] \in {"c_init", "c_store", "c_wait", "c_watch", "c_failed"}
      BY <1>6 DEF InitLibrary, StoreState, EndWait, Leave
    <3>4. \/ Sleep("Connect", "c_failed", PublishTime)
          \/ \E to \in {"c_send", "c_wait", "c_online", "c_giveup"} : Goto("Connect", to) /\ UNCHANGED timer
      BY <1>6 DEF InitLibrary, StoreState, EndWait, Leave
    <3>5. CASE Sleep("Connect", "c_failed", PublishTime)
      BY <1>0, <3>1, <3>2, <3>3, <3>5, SleepMoves
    <3>6. CASE \E to \in {"c_send", "c_wait", "c_online", "c_giveup"} : Goto("Connect", to) /\ UNCHANGED timer
      BY <1>0, <3>1, <3>2, <3>3, <3>6, GotoMoves
    <3> QED  BY <3>4, <3>5, <3>6
  <2>2. /\ UNCHANGED <<xSocket, lShuttingDown, queue, sending, rxSocket, caught, created, link, session, inbox>>
        /\ state' \in {state, "STATE_DISCONNECTED", "STATE_CONNECTED"} /\ nextPing' \in {nextPing, "always", "due"}
    BY <1>6 DEF InitLibrary, StoreState, EndWait, Leave, tasks, local, net
  <2>3. DataType'
    BY <1>0, <2>2 DEF DataType
  <2> QED  BY <2>1, <2>2, <2>3, ConnectGoes DEF Young, ConnectLabels, Labels, Down, Closing, Writing,
                ReceiveLabels, AliveLabels, PublishLabels
<1>7. CASE SendConnect
  <2>1. PICK result \in BOOLEAN :
          /\ Write("Connect", "CONNECT", result)
          /\ Sleep("Connect", IF result THEN "c_store" ELSE "c_wait", 0)
          /\ state' = IF result THEN state ELSE "STATE_DISCONNECTED"
    BY <1>7 DEF SendConnect
  <2>2. PICK to \in {"c_store", "c_wait"} : Sleep("Connect", to, 0)
    BY <2>1
  <2>3. to \in Labels /\ pc["Connect"] = "c_send"
    BY <1>7 DEF Labels, SendConnect
  <2>4. Moves("Connect", "c_send", to, 0)
    BY <1>0, <2>2, <2>3, SleepMoves
  <2>5. /\ state' \in {"STATE_DISCONNECTED", "STATE_CONNECTED"}
        /\ UNCHANGED <<queue, rxSocket, caught, created, link, inbox>>
    BY <1>0, <1>7, <2>1 DEF DataType, SendConnect
  <2>6. "c_send" \in Young /\ "c_send" \in Writing /\ to \in Young \ {"c_connect"}
    BY DEF Young, ConnectLabels, Labels, Down, Closing, Writing, ReceiveLabels, AliveLabels, PublishLabels
  <2> QED  BY <2>1, <2>3, <2>4, <2>5, <2>6, Writes
<1>8. CASE SendOnline
  <2>1. /\ pc["Connect"] = "c_online" /\ Sleep("Connect", "c_watch", 0)
        /\ UNCHANGED <<queue, state, rxSocket, caught, created, link, inbox>>
    BY <1>8 DEF SendOnline
  <2>2. "c_watch" \in Labels
    BY DEF Labels
  <2>3. Moves("Connect", "c_online", "c_watch", 0)
    BY <1>0, <2>1, <2>2, SleepMoves
  <2>4. "c_online" \in Young /\ "c_online" \in Writing /\ "c_watch" \in Young \ {"c_connect"}
    BY DEF Young, ConnectLabels, Labels, Down, Closing, Writing, ReceiveLabels, AliveLabels, PublishLabels
  <2>5. CASE \E result \in BOOLEAN : Write("Connect", "PUBLISH", result)
    <3>1. state' \in {"STATE_DISCONNECTED", "STATE_CONNECTED"}
      BY <1>0, <2>1 DEF DataType
    <3> QED  BY <2>1, <2>2, <2>3, <2>4, <2>5, <3>1, Writes
  <2>6. CASE sending["Connect"] = 0 /\ UNCHANGED <<xSocket, lShuttingDown, nextPing, sending, session>>
    <3>1. DataType'
      BY <1>0, <2>1, <2>6 DEF DataType
    <3>2. TypeOK'
      BY <2>3, <3>1, TypeParts DEF Moves, TypeOK, ControlType, DataType
    <3>3. LabelInv'
      BY <2>3 DEF DemoInv, LabelInv, Moves, Labels, ReceiveLabels, AliveLabels, PublishLabels
    <3>4. SocketInv' /\ ReadInv'
      BY <2>1, <2>3, <2>6 DEF DemoInv, SocketInv, ReadInv, Moves, Down, Closing
    <3>5. SendInv'
      BY <2>1, <2>3, <2>6 DEF DemoInv, SendInv, Moves
    <3>6. Patient /\ ~caught => NewestInv'
      BY <2>1, <2>3, <2>6 DEF DemoInv, NewestInv, Moves
    <3>7. PatienceInv'
      BY <2>3 DEF PatienceInv, Moves
    <3> QED  BY <2>1, <3>2, <3>3, <3>4, <3>5, <3>6, <3>7 DEF DemoInv
  <2> QED  BY <1>8, <2>5, <2>6 DEF SendOnline
<1>9. CASE GiveUp \/ RaiseFlag
  <2>1. \E from \in {"c_giveup", "c_flag"} : \E to \in {"c_flag", "c_close"} : Moves("Connect", from, to, timer["Connect"])
    <3>1. "c_flag" \in Labels /\ "c_close" \in Labels
      BY DEF Labels
    <3>2. CASE GiveUp
      BY <1>0, <3>1, <3>2, GotoMoves DEF GiveUp
    <3>3. CASE RaiseFlag
      BY <1>0, <3>1, <3>3, GotoMoves DEF RaiseFlag
    <3> QED  BY <1>9, <3>2, <3>3
  <2>2. /\ UNCHANGED <<queue, state, nextPing, sending, rxSocket, caught, created, link, session, inbox>>
        /\ xSocket' \in {xSocket, 0} /\ lShuttingDown' \in {lShuttingDown, TRUE}
    BY <1>9 DEF GiveUp, RaiseFlag, local, net
  <2>3. xSocket' = 0 /\ (pc'["Connect"] = "c_close" => lShuttingDown')
    <3>1. CASE GiveUp
      <4>1. pc'["Connect"] = "c_flag"
        BY <1>0, <3>1 DEF GiveUp, Goto, ControlType
      <4> QED  BY <3>1, <4>1 DEF GiveUp
    <3>2. CASE RaiseFlag
      BY <3>2 DEF RaiseFlag, DemoInv, SocketInv, Down
    <3> QED  BY <1>9, <3>1, <3>2
  <2>4. DataType'
    <3>1. created \in Nat
      BY <1>0, SocketsAssumption DEF DataType
    <3>2. xSocket' \in 0..created
      BY <2>3, <3>1
    <3>3. lShuttingDown' \in BOOLEAN
      BY <1>0, <2>2 DEF DataType
    <3> QED  BY <1>0, <2>2, <3>2, <3>3 DEF DataType
  <2>5. TypeOK'
    BY <2>1, <2>4, TypeParts DEF Moves, TypeOK, ControlType, DataType
  <2>6. LabelInv'
    BY <2>1 DEF DemoInv, LabelInv, Moves, Labels, ReceiveLabels, AliveLabels, PublishLabels
  <2>7. SocketInv' /\ ReadInv' /\ SendInv'
    BY <2>1, <2>2, <2>3 DEF DemoInv, SocketInv, ReadInv, SendInv, LinkOf, Moves, Down, Closing, Writing
  <2>8. Patient /\ ~caught => NewestInv'
    BY <2>1, <2>2 DEF DemoInv, NewestInv, Moves
  <2>9. PatienceInv'
    BY <2>1 DEF PatienceInv, Moves
  <2> QED  BY <2>2, <2>5, <2>6, <2>7, <2>8, <2>9 DEF DemoInv
<1>10. CASE CloseSocket
  <2>1. Moves("Connect", "c_close", "c_delay", RetryTime)
    <3>1. RetryTime \in Nat /\ "c_delay" \in Labels
      BY TimeAssumption DEF Labels
    <3>2. pc["Connect"] = "c_close" /\ Sleep("Connect", "c_delay", RetryTime)
      BY <1>10 DEF CloseSocket
    <3> QED  BY <1>0, <3>1, <3>2, SleepMoves
  <2>2. UNCHANGED <<xSocket, lShuttingDown, queue, state, nextPing, sending, rxSocket, caught, created,
                    session, inbox>>
    BY <1>10 DEF CloseSocket, tasks, local
  <2>3. link' = link
    <3>1. xSocket = 0
      BY <2>1 DEF DemoInv, SocketInv, Moves, Down, Closing
    <3>2. \A s \in Sockets : s # 0
      BY SocketsAssumption DEF Sockets
    <3>3. link' = [s \in Sockets |-> link[s]]
      BY <1>10, <3>1, <3>2 DEF CloseSocket
    <3> QED  BY <1>0, <3>3 DEF DataType
  <2>4. DataType'
    BY <1>0, <2>2, <2>3 DEF DataType
  <2>5. TypeOK'
    BY <2>1, <2>4, TypeParts DEF Moves, TypeOK, ControlType, DataType
  <2>6. LabelInv'
    BY <2>1 DEF DemoInv, LabelInv, Moves, Labels, ReceiveLabels, AliveLabels, PublishLabels
  <2>7. SocketInv' /\ ReadInv' /\ SendInv'
    BY <2>1, <2>2, <2>3 DEF DemoInv, SocketInv, ReadInv, SendInv, LinkOf, Moves, Down, Closing, Writing
  <2>8. Patient /\ ~caught => NewestInv'
    BY <2>1, <2>2 DEF DemoInv, NewestInv, Moves
  <2>9. PatienceInv'
    <3>1. pc'["Connect"] = "c_delay" /\ timer'["Connect"] = RetryTime
      BY <2>1 DEF Moves
    <3>2. \A t \in Urgent : timer'[t] = timer[t] /\ pc'[t] = pc[t] /\ timer[t] \in Nat
      BY <1>0, <2>1 DEF Moves, Urgent, ControlType
    <3>3. RetryTime \in Nat /\ RecvTime \in Nat /\ SendTime \in Nat
      BY TimeAssumption
    <3>4. pc'["Receive"] = "r_recv" => timer'["Receive"] + RetryTime <= RecvTime + RetryTime
      BY <3>2, <3>3 DEF DemoInv, ReadInv, Urgent
    <3>5. \A t \in Urgent : sending'[t] # 0 => timer'[t] + RetryTime <= SendTime + RetryTime
      BY <2>2, <3>2, <3>3 DEF DemoInv, SendInv
    <3> QED  BY <3>1, <3>4, <3>5 DEF PatienceInv
  <2> QED  BY <2>2, <2>5, <2>6, <2>7, <2>8, <2>9 DEF DemoInv
<1>11. CASE Retry
  <2>1. Moves("Connect", "c_delay", "c_clear", timer["Connect"])
    BY <1>0, <1>11, GotoMoves DEF Retry, Labels
  <2>2. UNCHANGED <<xSocket, lShuttingDown, queue, state, nextPing, sending, rxSocket, caught, created, link,
                    session, inbox>>
    BY <1>11 DEF Retry, tasks, local, net
  <2>3. DataType'
    BY <1>0, <2>2 DEF DataType
  <2>4. TypeOK'
    BY <2>1, <2>3, TypeParts DEF Moves, TypeOK, ControlType, DataType
  <2>5. LabelInv'
    BY <2>1 DEF DemoInv, LabelInv, Moves, Labels, ReceiveLabels, AliveLabels, PublishLabels
  <2>6. SocketInv' /\ ReadInv' /\ SendInv'
    BY <2>1, <2>2 DEF DemoInv, SocketInv, ReadInv, SendInv, LinkOf, Moves, Down, Closing, Writing
  <2>7. Patient /\ ~caught => NewestInv'
    BY <2>1, <2>2 DEF DemoInv, NewestInv, Moves
  <2>8. Patient /\ ~caught => PatienceInv'
    <3> SUFFICES ASSUME Patient, ~caught PROVE PatienceInv'
      OBVIOUS
    <3>1. timer["Connect"] = 0 /\ pc["Connect"] = "c_delay" /\ \A t \in Urgent : Waits(t)
      BY <1>11 DEF Retry, Lowest
    <3>2. RetryTime \in Nat /\ RecvTime \in Nat /\ SendTime \in Nat /\ \A t \in Urgent : timer[t] \in Nat
      BY <1>0, TimeAssumption DEF ControlType
    <3>3. /\ pc["Receive"] = "r_recv" => timer["Receive"] + RetryTime <= RecvTime
          /\ \A t \in Urgent : sending[t] # 0 => timer[t] + RetryTime <= SendTime
      BY <3>1, <3>2 DEF DemoInv, PatienceInv
    <3>4. "Receive" \in Urgent
      BY DEF Urgent
    <3>5. pc["Receive"] = "r_recv" => timer["Receive"] = 0
      BY <3>2, <3>3, <3>4 DEF Patient
    <3>6. \A t \in Urgent : sending[t] # 0 => timer[t] = 0
      BY <3>2, <3>3 DEF Patient
    <3>7. \A t \in Urgent : sending[t] = 0
      <4> SUFFICES ASSUME NEW t \in Urgent, sending[t] # 0 PROVE FALSE
        OBVIOUS
      <4>1. pc[t] \in Writing /\ timer[t] = 0
        BY <3>6 DEF DemoInv, SendInv
      <4> QED  BY <3>1, <4>1 DEF Waits, Writing
    <3>8. pc["Receive"] # "r_recv"
      BY <3>1, <3>4, <3>5, <3>7 DEF Waits
    <3> QED  BY <2>1, <2>2, <3>7, <3>8 DEF PatienceInv, Moves
  <2> QED  BY <2>2, <2>4, <2>5, <2>6, <2>7, <2>8 DEF DemoInv
<1> QED  BY <1>1, <1>2, <1>3, <1>4, <1>5, <1>6, <1>7, <1>8, <1>9, <1>10, <1>11 DEF ConnectSteps

-----------------------------------------------------------------------------
(* The steps of Receive, and those of Alive and Publish. *)

LEMMA ReceiveStep ==
  ASSUME DemoInv, ReceiveSteps
  PROVE  DemoInv'
<1> USE TaskNames
<1>0. TypeOK /\ ControlType /\ DataType
  BY TypeParts DEF DemoInv
<1>L. \A l \in ReceiveLabels : l \in Labels
  BY DEF ReceiveLabels, Labels, Writing
<1>1. CASE TakeSocket
  <2>1. Moves("Receive", "r_token", "r_test", timer["Receive"])
    BY <1>0, <1>1, <1>L, GotoMoves DEF TakeSocket, ReceiveLabels
  <2>2. /\ queue # <<>> /\ rxSocket' = Head(queue) /\ queue' = Tail(queue)
        /\ UNCHANGED <<xSocket, lShuttingDown, state, nextPing, sending, caught, created, link, session, inbox>>
    BY <1>1 DEF TakeSocket, net
  <2>3. queue' = <<>> /\ 1 \in DOMAIN queue /\ rxSocket' = queue[1] /\ queue[1] \in 0..created
    BY <1>0, <2>2 DEF DataType
  <2>4. DataType'
    BY <1>0, <2>2, <2>3 DEF DataType
  <2>5. TypeOK'
    BY <2>1, <2>4, TypeParts DEF Moves, TypeOK, ControlType, DataType
  <2>6. LabelInv'
    BY <2>1 DEF DemoInv, LabelInv, Moves, ReceiveLabels
  <2>7. SocketInv' /\ ReadInv' /\ SendInv'
    BY <2>1, <2>2 DEF DemoInv, SocketInv, ReadInv, SendInv, LinkOf, Moves, Writing
  <2>8. Patient /\ ~caught => NewestInv'
    BY <2>1, <2>2, <2>3 DEF DemoInv, NewestInv, Moves
  <2>9. Patient /\ ~caught => PatienceInv'
    BY <2>1, <2>2, <2>3 DEF DemoInv, PatienceInv, Moves
  <2> QED  BY <2>2, <2>5, <2>6, <2>7, <2>8, <2>9 DEF DemoInv
<1>2. CASE TestShutdown
  <2>1. UNCHANGED <<xSocket, lShuttingDown, queue, state, nextPing, sending, rxSocket, caught, created, link,
                    session, inbox>>
    BY <1>2 DEF TestShutdown, tasks, local, net
  <2>2. DataType'
    BY <1>0, <2>1 DEF DataType
  <2>3. CASE rxSocket # 0 /\ ~lShuttingDown
    <3>1. Moves("Receive", "r_test", "r_recv", RecvTime)
      BY <1>0, <1>2, <1>L, <2>3, TimeAssumption, SleepMoves DEF TestShutdown, ReceiveLabels
    <3> QED  BY <2>1, <2>2, <2>3, <3>1, ReceiveGoes DEF ReceiveLabels
  <2>4. CASE ~(rxSocket # 0 /\ ~lShuttingDown)
    <3>1. Moves("Receive", "r_test", "r_token", timer["Receive"])
      BY <1>0, <1>2, <1>L, <2>4, GotoMoves DEF TestShutdown, ReceiveLabels
    <3> QED  BY <2>1, <2>2, <3>1, ReceiveGoes DEF ReceiveLabels
  <2> QED  BY <2>3, <2>4
<1>3. CASE ReceivePacket
  <2>1. \E to \in {"r_test", "r_subscribe"} : Sleep("Receive", to, 0)
    BY <1>3 DEF ReceivePacket, Sleep
  <2>2. \E to \in {"r_test", "r_subscribe"} : Moves("Receive", "r_recv", to, 0)
    BY <1>0, <1>3, <1>L, <2>1, SleepMoves DEF ReceivePacket, ReceiveLabels
  <2>3. /\ UNCHANGED <<xSocket, lShuttingDown, queue, sending, rxSocket, caught, created, link, session>>
        /\ nextPing' \in {nextPing, PutOff(nextPing)}
        /\ state' \in {"STATE_DISCONNECTED", "STATE_CONNECTED"} /\ inbox' = [inbox EXCEPT ![rxSocket] = "none"]
    BY <1>3 DEF ReceivePacket
  <2>4. inbox' \in [Sockets -> {"none", "accept", "refuse"}]
    BY <1>0, <2>3 DEF DataType
  <2>5. DataType'
    BY <1>0, <2>3, <2>4, PutOffType DEF DataType
  <2> QED  BY <2>2, <2>3, <2>5, ReceiveGoes DEF ReceiveLabels
<1>4. CASE ReceiveNothing \/ ReceivePart \/ ReceiveRest
  <2>1. \E from \in {"r_recv", "r_rest"} : \E to \in {"r_test", "r_rest"} : \E ticks \in Nat :
          Moves("Receive", from, to, ticks)
    <3>1. "r_test" \in Labels /\ "r_rest" \in Labels /\ timer["Receive"] \in Nat /\ 0 \in Nat
      BY <1>0, <1>L DEF ReceiveLabels, ControlType
    <3>2. CASE ReceivePart
      BY <1>0, <3>1, <3>2, SleepMoves DEF ReceivePart
    <3>3. CASE ReceiveNothing \/ ReceiveRest
      BY <1>0, <3>1, <3>3, GotoMoves DEF ReceiveNothing, ReceiveRest
    <3> QED  BY <1>4, <3>2, <3>3
  <2>2. /\ UNCHANGED <<xSocket, lShuttingDown, queue, state, sending, rxSocket, caught, created, link, session, inbox>>
        /\ nextPing' \in {nextPing, PutOff(nextPing)}
    BY <1>4 DEF ReceiveNothing, ReceivePart, ReceiveRest, tasks, local, net
  <2>3. DataType'
    BY <1>0, <2>2, PutOffType DEF DataType
  <2> QED  BY <2>1, <2>2, <2>3, ReceiveGoes DEF ReceiveLabels
<1>5. CASE ReceiveError
  <2>1. Moves("Receive", "r_recv", "r_test", 0)
    BY <1>0, <1>5, <1>L, SleepMoves DEF ReceiveError, ReceiveLabels
  <2>2. /\ UNCHANGED <<queue, state, nextPing, sending, rxSocket, caught, created, link, session, inbox>>
        /\ xSocket' = 0 /\ lShuttingDown' = TRUE
    BY <1>5 DEF ReceiveError, local, net
  <2>3. created \in Nat
    BY <1>0, SocketsAssumption DEF DataType
  <2>4. DataType'
    BY <1>0, <2>2, <2>3 DEF DataType
  <2> QED  BY <2>1, <2>2, <2>4, ReceiveGoes DEF ReceiveLabels
<1>6. CASE Subscribe
  <2>1. Moves("Receive", "r_subscribe", "r_test", 0) /\ "r_test" \in Labels
    BY <1>0, <1>6, <1>L, SleepMoves DEF Subscribe, ReceiveLabels
  <2>2. /\ state' \in {"STATE_DISCONNECTED", "STATE_CONNECTED"}
        /\ UNCHANGED <<queue, rxSocket, caught, created, link, inbox>>
    BY <1>0, <1>6 DEF DataType, Subscribe
  <2>3. PICK result \in BOOLEAN : Write("Receive", "SUBSCRIBE", result)
    BY <1>6 DEF Subscribe
  <2>4. "r_subscribe" \in Writing
    BY DEF Writing
  <2> QED  BY <2>1, <2>2, <2>3, <2>4, Writes
<1> QED  BY <1>1, <1>2, <1>3, <1>4, <1>5, <1>6 DEF ReceiveSteps

LEMMA OtherLabels ==
  /\ AliveLabels \subseteq Labels /\ PublishLabels \subseteq Labels
  /\ "a_token" \in AliveLabels \ Writing /\ "a_delay" \in AliveLabels \ Writing /\ "a_ping" \in AliveLabels \cap Writing
  /\ "p_token" \in PublishLabels \ Writing /\ "p_delay" \in PublishLabels \ Writing
  /\ "p_send" \in PublishLabels \cap Writing
BY DEF AliveLabels, PublishLabels, Labels, Writing

\* A token is taken.
LEMMA TokenStep ==
  ASSUME DemoInv, NEW t \in {"Alive", "Publish"}, NEW here \in Labels \ Writing,
         NEW next \in IF t = "Alive" THEN AliveLabels ELSE PublishLabels, NEW ticks \in Nat,
         TakeToken(t, here, next, ticks)
  PROVE  DemoInv'
<1> USE TaskNames
<1>0. TypeOK /\ ControlType /\ DataType /\ t \in Tasks /\ next \in Labels
  BY TypeParts, OtherLabels DEF DemoInv
<1>1. Moves(t, here, next, ticks)
  BY <1>0, SleepMoves DEF TakeToken
<1>2. /\ queue # <<>> /\ queue' = Tail(queue)
      /\ UNCHANGED <<xSocket, lShuttingDown, state, nextPing, sending, rxSocket, caught, created, link, session,
                     inbox>>
  BY DEF TakeToken, local, net
<1>3. queue' \in Seq(0..created) /\ Len(queue') <= 1
  BY <1>0, <1>2 DEF DataType
<1>4. DataType'
  BY <1>0, <1>2, <1>3 DEF DataType
<1>5. t = "Alive" => next \in AliveLabels
  OBVIOUS
<1>6. t = "Publish" => next \in PublishLabels
  OBVIOUS
<1> QED  BY <1>0, <1>1, <1>2, <1>4, <1>5, <1>6, OtherGoes

\* A packet is sent, or not.
LEMMA PacketStep ==
  ASSUME DemoInv, NEW t \in {"Alive", "Publish"}, NEW here \in Writing, NEW packet, NEW ticks \in Nat,
         NEW next \in IF t = "Alive" THEN AliveLabels ELSE PublishLabels,
         NEW token \in IF t = "Alive" THEN AliveLabels ELSE PublishLabels,
         SendPacket(t, here, packet, next, ticks, token)
  PROVE  DemoInv'
<1> USE TaskNames
<1>0. TypeOK /\ ControlType /\ DataType /\ t \in Tasks /\ next \in Labels /\ token \in Labels
  BY TypeParts, OtherLabels DEF DemoInv
<1>1. /\ pc[t] = here /\ state' \in {"STATE_DISCONNECTED", "STATE_CONNECTED"}
      /\ UNCHANGED <<queue, rxSocket, caught, created, link, inbox>>
  BY <1>0 DEF SendPacket, DataType
<1>2. CASE Write(t, packet, TRUE) /\ Sleep(t, next, ticks)
  <2>1. Moves(t, here, next, ticks)
    BY <1>0, <1>1, <1>2, SleepMoves
  <2> QED  BY <1>0, <1>1, <1>2, <2>1, Writes
<1>3. CASE Write(t, packet, FALSE) /\ Sleep(t, token, 0)
  <2>1. Moves(t, here, token, 0)
    BY <1>0, <1>1, <1>3, SleepMoves
  <2> QED  BY <1>0, <1>1, <1>3, <2>1, Writes
<1> QED  BY <1>2, <1>3 DEF SendPacket

LEMMA OtherStep ==
  ASSUME DemoInv, AliveSteps \/ PublishSteps
  PROVE  DemoInv'
<1> USE TaskNames, OtherLabels
<1>0. TypeOK /\ ControlType /\ DataType
  BY TypeParts DEF DemoInv
<1>T. AliveTime \in Nat /\ PublishTime \in Nat /\ 0 \in Nat
  BY TimeAssumption
<1>1. CASE TakeToken("Alive", "a_token", "a_delay", AliveTime)
  BY <1>1, <1>T, TokenStep
<1>2. CASE TakeToken("Publish", "p_token", "p_delay", PublishTime)
  BY <1>2, <1>T, TokenStep
<1>3. CASE SendPacket("Alive", "a_ping", "PINGREQ", "a_delay", AliveTime, "a_token")
  BY <1>3, <1>T, PacketStep
<1>4. CASE SendPacket("Publish", "p_send", "PUBLISH", "p_delay", PublishTime, "p_token")
  BY <1>4, <1>T, PacketStep
<1>5. CASE TestAlive
  <2>1. \E to \in AliveLabels : \E ticks \in Nat : Moves("Alive", "a_delay", to, ticks)
    <3>1. \E to \in AliveLabels : \E ticks \in Nat : Sleep("Alive", to, ticks)
      BY <1>5, <1>T DEF TestAlive, Fail
    <3> QED  BY <1>0, <1>5, <3>1, SleepMoves DEF TestAlive
  <2>5. PICK to \in AliveLabels, ticks \in Nat : Moves("Alive", "a_delay", to, ticks)
    BY <2>1
  <2>2. /\ UNCHANGED <<xSocket, queue, state, sending, rxSocket, caught, created, link, session, inbox>>
        /\ lShuttingDown' \in {lShuttingDown, TRUE} /\ nextPing' \in {nextPing, "due"}
    BY <1>5 DEF TestAlive, Fail, net
  <2>3. DataType'
    BY <1>0, <2>2 DEF DataType
  <2>4. "a_delay" \in Labels \ Writing /\ to \in Labels
    OBVIOUS
  <2>6. "Alive" # "Publish"
    OBVIOUS
  <2> QED  BY <2>2, <2>3, <2>4, <2>5, <2>6, OtherGoes
<1>6. CASE TestPublish
  <2>1. \E to \in PublishLabels : \E ticks \in Nat : Moves("Publish", "p_delay", to, ticks)
    <3>1. \E to \in PublishLabels : \E ticks \in Nat : Sleep("Publish", to, ticks)
      BY <1>6, <1>T DEF TestPublish, Fail
    <3> QED  BY <1>0, <1>6, <3>1, SleepMoves DEF TestPublish
  <2>5. PICK to \in PublishLabels, ticks \in Nat : Moves("Publish", "p_delay", to, ticks)
    BY <2>1
  <2>2. /\ UNCHANGED <<xSocket, queue, state, nextPing, sending, rxSocket, caught, created, link, session, inbox>>
        /\ lShuttingDown' \in {lShuttingDown, TRUE}
    BY <1>6 DEF TestPublish, Fail, local, net
  <2>3. DataType'
    BY <1>0, <2>2 DEF DataType
  <2>4. "p_delay" \in Labels \ Writing /\ to \in Labels
    OBVIOUS
  <2>6. "Alive" # "Publish"
    OBVIOUS
  <2> QED  BY <2>2, <2>3, <2>4, <2>5, <2>6, OtherGoes
<1> QED  BY <1>1, <1>2, <1>3, <1>4, <1>5, <1>6 DEF AliveSteps, PublishSteps

-----------------------------------------------------------------------------
(* A send that waits, time and the network. *)

LEMMA WaitStep ==
  ASSUME DemoInv, NEW t \in Tasks, WaitToSend(t)
  PROVE  DemoInv'
<1> USE TaskNames
<1>0. TypeOK /\ ControlType /\ DataType
  BY TypeParts DEF DemoInv
<1>1. /\ pc[t] \in Writing /\ LinkOf(xSocket) = "silent"
      /\ sending' = [sending EXCEPT ![t] = xSocket] /\ timer' = [timer EXCEPT ![t] = SendTime]
      /\ UNCHANGED <<xSocket, lShuttingDown, queue, state, nextPing, pc, rxSocket, caught, created, link, session,
                     inbox>>
  BY DEF WaitToSend, tasks, net
<1>2. xSocket = created /\ xSocket # 0 /\ link[created] = "silent"
  BY <1>1 DEF DemoInv, SocketInv, LinkOf
<1>3. SendTime \in Nat
  BY TimeAssumption
<1>4. /\ sending'[t] = created /\ timer'[t] = SendTime
      /\ \A u \in Tasks \ {t} : sending'[u] = sending[u] /\ timer'[u] = timer[u]
  BY <1>0, <1>1, <1>2 DEF ControlType, DataType
<1>5. ControlType'
  BY <1>0, <1>1, <1>3 DEF ControlType
<1>6. sending' \in [Tasks -> 0..created]
  BY <1>0, <1>1 DEF DataType
<1>7. DataType'
  BY <1>0, <1>1, <1>6 DEF DataType
<1>8. TypeOK'
  BY <1>5, <1>7, TypeParts DEF TypeOK, ControlType, DataType
<1>9. LabelInv' /\ SocketInv'
  BY <1>1 DEF DemoInv, LabelInv, SocketInv
<1>10. SendInv'
  BY <1>1, <1>2, <1>3, <1>4 DEF DemoInv, SendInv, LinkOf
<1>11. ReadInv'
  BY <1>1, <1>4 DEF DemoInv, ReadInv, Writing
<1>12. Patient /\ ~caught => NewestInv'
  BY <1>1, <1>4 DEF DemoInv, NewestInv
<1>13. PatienceInv'
  BY <1>1, <1>2 DEF DemoInv, SocketInv, PatienceInv, Down, Closing
<1> QED  BY <1>1, <1>8, <1>9, <1>10, <1>11, <1>12, <1>13 DEF DemoInv

\* While a task waits or sends in vain its time is not up.
LEMMA TickStep ==
  ASSUME DemoInv, Tick
  PROVE  DemoInv'
<1> USE TaskNames
<1>0. TypeOK /\ ControlType /\ DataType
  BY TypeParts DEF DemoInv
<1>1. /\ timer' = [t \in Tasks |-> IF timer[t] > 0 THEN timer[t] - 1 ELSE 0]
      /\ UNCHANGED <<xSocket, lShuttingDown, queue, state, nextPing, pc, sending, rxSocket, caught, created, link,
                     session, inbox>>
  BY DEF Tick, tasks, local, net
<1>2. \A t \in Tasks : /\ timer[t] \in Nat /\ timer'[t] \in Nat /\ timer'[t] <= timer[t]
                       /\ timer[t] <= timer'[t] + 1 /\ (timer[t] > 0 => timer'[t] = timer[t] - 1)
  BY <1>0, <1>1 DEF ControlType
<1>3. ControlType'
  BY <1>0, <1>1 DEF ControlType
<1>4. DataType'
  BY <1>0, <1>1 DEF DataType
<1>5. TypeOK'
  BY <1>3, <1>4, TypeParts DEF TypeOK, ControlType, DataType
<1>6. LabelInv' /\ SocketInv'
  BY <1>1 DEF DemoInv, LabelInv, SocketInv
<1>7. RecvTime \in Nat /\ SendTime \in Nat /\ RetryTime \in Nat
  BY TimeAssumption
<1>8. SendInv'
  <2>1. \A t \in Tasks : sending[t] # 0 => timer'[t] <= SendTime
    BY <1>2, <1>7 DEF DemoInv, SendInv
  <2> QED  BY <1>1, <2>1 DEF DemoInv, SendInv, LinkOf
<1>9. ReadInv'
  <2>1. pc["Receive"] = "r_recv" => timer'["Receive"] <= RecvTime
    BY <1>2, <1>7 DEF DemoInv, ReadInv
  <2> QED  BY <1>1, <2>1 DEF DemoInv, ReadInv
<1>10. Patient /\ ~caught => NewestInv'
  BY <1>1 DEF DemoInv, NewestInv
<1>11. Patient /\ ~caught => PatienceInv'
  <2> SUFFICES ASSUME Patient, ~caught PROVE PatienceInv'
    OBVIOUS
  <2>1. \A t \in Urgent : sending[t] # 0 => timer[t] > 0
    <3> SUFFICES ASSUME NEW t \in Urgent, sending[t] # 0 PROVE timer[t] > 0
      OBVIOUS
    <3>1. pc[t] \in Writing
      BY DEF DemoInv, SendInv
    <3>2. Waits(t) \/ Spins(t)
      BY DEF Tick
    <3> QED  BY <3>1, <3>2 DEF Waits, Spins, Writing
  <2>2. pc["Receive"] = "r_recv" => timer["Receive"] > 0
    <3> SUFFICES ASSUME pc["Receive"] = "r_recv" PROVE timer["Receive"] > 0
      OBVIOUS
    <3>1. Waits("Receive") \/ Spins("Receive")
      BY DEF Tick, Urgent
    <3>2. sending["Receive"] = 0
      BY DEF DemoInv, SendInv, Writing
    <3> QED  BY <3>1, <3>2 DEF Waits, Spins, Writing
  <2>3. pc["Connect"] = "c_delay" /\ pc["Receive"] = "r_recv"
           => timer'["Receive"] + RetryTime <= RecvTime + timer'["Connect"]
    BY <1>2, <1>7, <2>2 DEF DemoInv, PatienceInv
  <2>4. pc["Connect"] = "c_delay" => \A t \in Urgent : sending[t] # 0
           => timer'[t] + RetryTime <= SendTime + timer'["Connect"]
    <3> SUFFICES ASSUME pc["Connect"] = "c_delay", NEW t \in Urgent, sending[t] # 0
                 PROVE  timer'[t] + RetryTime <= SendTime + timer'["Connect"]
      OBVIOUS
    <3>1. timer[t] + RetryTime <= SendTime + timer["Connect"]
      BY DEF DemoInv, PatienceInv
    <3> QED  BY <1>2, <1>7, <2>1, <3>1
  <2> QED  BY <1>1, <2>3, <2>4 DEF DemoInv, PatienceInv
<1> QED  BY <1>1, <1>5, <1>6, <1>8, <1>9, <1>10, <1>11 DEF DemoInv

\* A silent peer is only ever reset.
LEMMA NetworkStep ==
  ASSUME DemoInv, NEW s \in Sockets, Established(s) \/ LinkFails(s) \/ Answers(s) \/ Hangup(s)
  PROVE  DemoInv'
<1> USE TaskNames
<1>0. TypeOK /\ ControlType /\ DataType
  BY TypeParts DEF DemoInv
<1>1. UNCHANGED <<xSocket, lShuttingDown, queue, state, nextPing, pc, timer, sending, rxSocket, caught, created>>
  BY DEF Established, LinkFails, Answers, Hangup, tasks, local
<1>2. /\ session' \in [Sockets -> {"none", "asked", "accepted", "refused", "broken"}]
      /\ inbox' \in [Sockets -> {"none", "accept", "refuse"}]
  <2>1. UNCHANGED <<session, inbox>> \/ Answers(s)
    BY DEF Established, LinkFails, Hangup
  <2> QED  BY <1>0, <2>1 DEF DataType, Answers
<1>3. \/ link' = link
      \/ \E fate \in {"open", "silent", "fin", "reset"} :
           /\ link' = [link EXCEPT ![s] = fate]
           /\ link[s] \in {"connecting", "open", "silent"} /\ (link[s] = "silent" => fate = "reset")
  BY DEF Established, LinkFails, Answers, Hangup
<1>4. link' \in [Sockets -> {"none", "connecting", "open", "silent", "fin", "reset"}]
  BY <1>0, <1>3 DEF DataType
<1>5. \A r \in Sockets : /\ link[r] = "none" => link'[r] = "none"
                         /\ link[r] \in {"silent", "reset"} => link'[r] \in {"silent", "reset"}
  BY <1>0, <1>3 DEF DataType
<1>6. ControlType' /\ DataType'
  BY <1>0, <1>1, <1>2, <1>4 DEF ControlType, DataType
<1>7. TypeOK'
  BY <1>6, TypeParts DEF TypeOK, ControlType, DataType
<1>8. LabelInv' /\ SocketInv' /\ ReadInv'
  BY <1>1 DEF DemoInv, LabelInv, SocketInv, ReadInv
<1>9. SendInv'
  <2>1. \A t \in Tasks : sending[t] # 0 => sending[t] \in Sockets
    BY <1>0, SocketsAssumption DEF DataType, Sockets
  <2>2. created # 0 => created \in Sockets
    BY <1>0, SocketsAssumption DEF DataType, Sockets
  <2> QED  BY <1>1, <1>5, <2>1, <2>2 DEF DemoInv, SendInv, LinkOf
<1>10. Patient /\ ~caught => NewestInv' /\ PatienceInv'
  BY <1>1 DEF DemoInv, NewestInv, PatienceInv
<1> QED  BY <1>1, <1>7, <1>8, <1>9, <1>10 DEF DemoInv

-----------------------------------------------------------------------------
(* The invariant and what it implies. *)

LEMMA DemoInit ==
  ASSUME Init
  PROVE  DemoInv
<1>0. created = 0 /\ 0 \in 0..created /\ MaxSockets \in Nat
  BY SocketsAssumption DEF Init
<1>1. ControlType
  BY DEF Init, ControlType, Tasks, Labels
<1>2. DataType
  <2>1. queue \in Seq(0..created) /\ Len(queue) <= 1
    BY DEF Init
  <2>2. /\ sending \in [Tasks -> 0..created]
        /\ link \in [Sockets -> {"none", "connecting", "open", "silent", "fin", "reset"}]
        /\ session \in [Sockets -> {"none", "asked", "accepted", "refused", "broken"}]
        /\ inbox \in [Sockets -> {"none", "accept", "refuse"}]
    BY <1>0 DEF Init
  <2>3. xSocket \in 0..created /\ rxSocket \in 0..created /\ created \in 0..MaxSockets
    BY <1>0 DEF Init
  <2>4. lShuttingDown \in BOOLEAN /\ state \in {"STATE_DISCONNECTED", "STATE_CONNECTED"}
        /\ nextPing \in {"always", "due", "later"} /\ caught \in BOOLEAN
    BY DEF Init
  <2> QED  BY <2>1, <2>2, <2>3, <2>4 DEF DataType
<1>3. TypeOK
  BY <1>1, <1>2, TypeParts
<1>4. LabelInv
  BY DEF Init, LabelInv, ReceiveLabels, AliveLabels, PublishLabels, Labels
<1>5. SocketInv /\ SendInv /\ ReadInv
  BY DEF Init, SocketInv, SendInv, ReadInv, Down, Closing, LinkOf
<1>6. NewestInv /\ PatienceInv
  <2>1. pc["Receive"] = "r_token" /\ pc["Connect"] = "c_clear" /\ queue = <<>> /\ \A t \in Tasks : sending[t] = 0
    BY DEF Init
  <2> QED  BY <2>1, TaskNames DEF NewestInv, PatienceInv
<1> QED  BY <1>3, <1>4, <1>5, <1>6 DEF DemoInv

LEMMA DemoNext ==
  ASSUME DemoInv, [Next]_vars
  PROVE  DemoInv'
<1>1. CASE UNCHANGED vars
  BY <1>1 DEF vars, tasks, net, DemoInv, TypeOK, LabelInv, SocketInv, SendInv, ReadInv, NewestInv, PatienceInv,
              LinkOf
<1>2. CASE Next
  <2>1. CASE ConnectSteps
    BY <2>1, ConnectStep
  <2>2. CASE ReceiveSteps
    BY <2>2, ReceiveStep
  <2>3. CASE AliveSteps \/ PublishSteps
    BY <2>3, OtherStep
  <2>4. CASE \E t \in Tasks : WaitToSend(t)
    BY <2>4, WaitStep
  <2>5. CASE Tick
    BY <2>5, TickStep
  <2>6. CASE \E s \in Sockets : Established(s) \/ LinkFails(s) \/ Answers(s) \/ Hangup(s)
    BY <2>6, NetworkStep
  <2> QED  BY <1>2, <2>1, <2>2, <2>3, <2>4, <2>5, <2>6 DEF Next
<1> QED  BY <1>1, <1>2

THEOREM DemoInductive == Spec => []DemoInv
<1>1. Init => DemoInv
  BY DemoInit
<1>2. DemoInv /\ [Next]_vars => DemoInv'
  BY DemoNext
<1> QED  BY <1>1, <1>2, PTL DEF Spec

\* The variables that the example's tasks share have their types whatever the order of the
\* tasks' steps: there is at most one token, and no socket is in use that was not created.
THEOREM DemoTypes == Spec => []TypeOK
<1>1. DemoInv => TypeOK
  BY DEF DemoInv
<1> QED  BY <1>1, DemoInductive, PTL

\* With the times of the source, the Receive task reads the newest socket only, however many
\* rounds there have been before.
THEOREM ReaderIsFresh == Patient => (Spec => []FreshReader)
<1>1. Patient /\ DemoInv => FreshReader
  BY DEF DemoInv, NewestInv, ReadInv, FreshReader
<1>2. CASE Patient
  <2>1. DemoInv => FreshReader
    BY <1>1, <1>2
  <2> QED  BY <2>1, DemoInductive, PTL
<1> QED  BY <1>2

LEMMA KeptByStep ==
  ASSUME Patient, DemoInv, [Next]_vars, ~caught, pc["Connect"] = "c_watch", LinkOf(xSocket) = "open"
  PROVE  UNCHANGED xSocket
<1> USE TaskNames
<1>1. xSocket = created /\ xSocket # 0 /\ link[created] = "open"
  BY DEF DemoInv, SocketInv, LinkOf
<1>2. \A t \in Tasks : sending[t] = 0
  BY <1>1 DEF DemoInv, NewestInv, SendInv
<1>3. ASSUME NEW t \in Tasks, NEW packet, NEW result, Write(t, packet, result)
      PROVE  UNCHANGED xSocket
  BY <1>2, <1>3 DEF Write
<1>4. CASE UNCHANGED vars
  BY <1>4 DEF vars, tasks
<1>5. CASE ConnectSteps
  BY <1>1, <1>5 DEF ConnectSteps, ClearFlag, CreateSocket, StartConnect, EndConnect, SendToken, InitLibrary,
     SendConnect, StoreState, EndWait, SendOnline, Leave, GiveUp, RaiseFlag, CloseSocket, Retry, tasks
<1>6. CASE ReceiveSteps
  <2>1. ~ReceiveError
    BY <1>1 DEF ReceiveError, Readable, DemoInv, NewestInv, ReadInv
  <2>2. Subscribe => UNCHANGED xSocket
    BY <1>3 DEF Subscribe
  <2> QED  BY <1>6, <2>1, <2>2 DEF ReceiveSteps, TakeSocket, TestShutdown, ReceivePacket, ReceiveNothing,
              ReceivePart, ReceiveRest, tasks
<1>7. CASE AliveSteps \/ PublishSteps
  <2>1. ASSUME NEW t \in Tasks, NEW here, NEW packet, NEW next, NEW ticks, NEW token,
               SendPacket(t, here, packet, next, ticks, token)
        PROVE  UNCHANGED xSocket
    BY <1>3, <2>1 DEF SendPacket
  <2> QED  BY <1>7, <2>1 DEF AliveSteps, PublishSteps, TakeToken, TestAlive, TestPublish
<1>8. CASE (\E t \in Tasks : WaitToSend(t)) \/ Tick
  BY <1>8 DEF WaitToSend, Tick, tasks
<1>9. CASE \E s \in Sockets : Established(s) \/ LinkFails(s) \/ Answers(s) \/ Hangup(s)
  BY <1>9 DEF Established, LinkFails, Answers, Hangup, tasks
<1> QED  BY <1>4, <1>5, <1>6, <1>7, <1>8, <1>9 DEF Next

\* With the times of the source, a healthy connection that Connect watches is not given up: a
\* call that failed on the socket before it has had its effect by then.
THEOREM HealthyIsKept == Patient => (Spec => HealthyKept)
<1>1. CASE Patient
  <2>1. DemoInv /\ [Next]_vars
          => [~caught /\ pc["Connect"] = "c_watch" /\ LinkOf(xSocket) = "open" => UNCHANGED xSocket]_vars
    BY <1>1, KeptByStep
  <2> QED  BY <2>1, DemoInductive, PTL DEF Spec, HealthyKept
<1> QED  BY <1>1

=============================================================================
